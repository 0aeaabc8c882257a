SPECIFICATION SpecFromApproved
CONSTANTS
    owner = owner
    admin = admin
    ann = ann
    bob = bob
    e1 = e1
    e2 = e2
    f1 = f1
    r1 = r1
    r2 = r2
    Experiments = {e1}
    Flags = {f1}
    FlagOf <- OneFlag
    Users = {owner, admin}
    OwnerOf <- OneOwner
    Admins = {admin}
    Approvers = {}
    MinApprovals = 1
    VariantSets = {"a"}
    Requests = {r1, r2}
    MaxVersions = 2
    MaxLock = 7
    MaxAhead = 0
PROPERTY RunningVersionFixed
CHECK_DEADLOCK FALSE
