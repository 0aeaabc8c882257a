SPECIFICATION MCSpec
CONSTANTS
    ann = ann
    bob = bob
    cy = cy
    c1 = c1
    c2 = c2
    c3 = c3
    team = team
    x1 = x1
    x2 = x2
    x3 = x3
    k1 = k1
    k2 = k2
    b1 = b1
    b2 = b2
    q1 = q1
    q2 = q2
    q3 = q3
    q4 = q4
    MaxFaults = 2
    Users = {ann, bob, cy}
    Calls = {c1, c2, c3}
    Groups = {team}
    Changes = {x1, x2, x3}
    Posts = {q1, q2, q3, q4}
    Keys = {k1, k2}
    Bodies = {b1, b2}
    Nothing = Nothing
    Publishers = {1, 2}
    LastRow = 2
    Rejected = {1}
    MaxTries = 2
    Subjects <- MCSubjects
INVARIANTS
    PanelTypeOK
    AdminRemains
    SessionRoleFresh
    ReplaySameAnswer
    RoundTripKeepsMatch
PROPERTIES
    GroupHasQuorum
    OutboxDelivered
CHECK_DEADLOCK FALSE
