SPECIFICATION MCSpec
CONSTANTS
    a = a
    b = b
    bad = bad
    h1 = h1
    h2 = h2
    r1 = r1
    r2 = r2
    val = val
    ded1 = ded1
    ded2 = ded2
    reg = reg
    att = att
    d = d
    Ids = {a, b, bad}
    Hashes = {h1, h2}
    MaxFaults = 2
    Requests = {r1, r2}
    NoKey = NoKey
    Workers = {val, ded1, ded2, reg, att}
    RoleOf <- MCRoleOf
    MaxAttempts = 2
    NoWork = NoWork
    SeenCap = 1
    Invalid = {bad}
    Ingesters = {"ch_events", "ch_exposures"}
    BatchSize = 2
    Poison = {bad}
    Rows <- MCRows
    DecisionIds = {d}
    NoDecision = NoDecision
    NoConversion = NoConversion
    DecisionOf <- MCDecisionOf
    NeedsExposure = {a, b}
    Callers = {a, b}
    Poll = Poll
    MaxRevision = 2
    Content <- MCContent
    SubjectOf <- MCSubjectOf
    PositionOf <- MCPositionOf
    Matches <- TargetingMatch
    ChannelCap = 1
    NoExperiment = NoExperiment
PROPERTY ExpiredAreWritten
CHECK_DEADLOCK FALSE
