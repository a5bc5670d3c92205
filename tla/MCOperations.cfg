SPECIFICATION Spec
CONSTANTS
    ann = ann  bob = bob  acme = acme  best = best
    Workers = {w1, w2}
    Statuses = {"delivered"}
    MaxAsks = 5
    MaxLost = 1
    Tenants = {x1, x2}
    MaxTraffic = 2
    MaxRuns = 2
    Pods = {p1, p2}
    Users = {ann, bob}
    CompanyOf <- Owners
    Sockets = {s1, s2}
    Events = {1}
    MaxBreaks = 2
    MaxCommands = 3
    OptIns <- Borders
CHECK_DEADLOCK FALSE
SYMMETRY Swaps
INVARIANT PartsTyped
INVARIANT ShipmentsSound
INVARIANT EventsSound
INVARIANT MigrationsSound
INVARIANT ComplianceSound
PROPERTY RetentionSound
