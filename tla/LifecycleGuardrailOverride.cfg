SPECIFICATION SpecLaunched
CONSTANTS
    owner = owner
    admin = admin
    ann = ann
    bob = bob
    e1 = e1
    e2 = e2
    f1 = f1
    r1 = r1
    r2 = r2
    Experiments = {e1}
    Flags = {f1}
    FlagOf <- OneFlag
    Users = {owner, admin}
    OwnerOf <- OneOwner
    Admins = {admin}
    Approvers = {}
    MinApprovals = 1
    VariantSets = {"a"}
    Requests = {r1, r2}
    MaxVersions = 1
    MaxLock = 9
    MaxAhead = 2
PROPERTY GuardrailNeedsAdmin
CHECK_DEADLOCK FALSE
