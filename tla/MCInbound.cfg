SPECIFICATION FairSpec
CONSTANTS
    p1 = p1  p2 = p2
    m1 = m1  m2 = m2  m3 = m3  m4 = m4
    q1 = q1  q2 = q2
    Agents = {a1, a2}
    Nobody = nobody
    Phones = {p1, p2}
    Msgs = {m1, m2, m3, m4}
    Known = {m1, m2, m3}
    Requests = {q1, q2}
    Readers = {s1}
    MaxConvs = 6
    Limit <- LimitOne
    Sender <- TwoSenders
    Payload <- TwoRequests
    Scenes <- FourScenes
CHECK_DEADLOCK FALSE
INVARIANT TypeOK
INVARIANT DeliveriesSound
INVARIANT RoutingSound
INVARIANT HandAssignmentsStay
PROPERTY RequestAnswered
