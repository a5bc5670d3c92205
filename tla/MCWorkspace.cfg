SPECIFICATION Spec
CONSTANTS
    x1 = x1  x2 = x2  y1 = y1  y2 = y2
    Null = none
    Workers = {w1, w2}
    Ids = {1, 2, 3}
    Phones = {"a", "b", "long"}
    LongPhones = {"long"}
    TagIds = {1}
    Names = {"vip"}
    Fields = {1}
    Files <- CsvFiles
    ChunkSize = 2
    MaxCalls = 3
    Order <- Priorities
    Configs <- Automations
    Events = {y1, y2}
    MaxSaves = 2
    MaxLost = 1
    Pipelines = {x1, x2}
    Stages = {y1, y2}
    DealIds = {1}
    Values = {"10", "20"}
    MaxEdits = 5
    Companies = {x1, x2}
    Slugs = {y1, y2}
    PageIds = {1, 2}
    MaxVisits = 6
    NodeIds <- NamesOfNodes
    Drawings <- Flows
    MaxDrawings = 3
    MaxRuns = 2
CHECK_DEADLOCK FALSE
SYMMETRY Swaps
INVARIANT PartsTyped
INVARIANT AutomationSound
INVARIANT TimelineTells
INVARIANT PagesSound
INVARIANT FlowsSound
PROPERTY ContactsSound
