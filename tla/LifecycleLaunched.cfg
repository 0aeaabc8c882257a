SPECIFICATION SpecLaunched
CONSTANTS
    owner = owner
    admin = admin
    ann = ann
    bob = bob
    e1 = e1
    e2 = e2
    f1 = f1
    r1 = r1
    r2 = r2
    Experiments = {e1}
    Flags = {f1}
    FlagOf <- OneFlag
    Users = {owner, admin}
    OwnerOf <- OneOwner
    Admins = {admin}
    Approvers = {}
    MinApprovals = 1
    VariantSets = {"a", "b"}
    Requests = {r1, r2}
    MaxVersions = 2
    MaxLock = 9
    MaxAhead = 2
CONSTRAINT FlagStays
SYMMETRY Symmetry
INVARIANT TypeOK
INVARIANT LockMeansFresh
INVARIANT DecisionMatchesStatus
INVARIANT AuditCurrent
PROPERTY GuardrailHeld
PROPERTY VersionCountsMutations
PROPERTY DefaultMovedByActive
PROPERTY FilledVersionStable
PROPERTY StatusFollowsGraph
PROPERTY RunningVersionHeld
CHECK_DEADLOCK FALSE
