SPECIFICATION SpecFromApproved
CONSTANTS
    owner = admin
    admin = admin
    ann = ann
    bob = bob
    e1 = e1
    e2 = e2
    f1 = f1
    r1 = r1
    r2 = r2
    Experiments = {e1, e2}
    Flags = {f1}
    FlagOf <- OneFlag
    Users = {admin}
    OwnerOf <- OneOwner
    Admins = {admin}
    Approvers = {}
    MinApprovals = 1
    VariantSets = {"a"}
    Requests = {r1, r2}
    MaxVersions = 1
    MaxLock = 8
    MaxAhead = 0
SYMMETRY Symmetry
INVARIANT OneActivePerFlag
PROPERTY ImplementsLease
CHECK_DEADLOCK FALSE
