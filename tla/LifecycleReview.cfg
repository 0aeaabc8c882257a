SPECIFICATION Spec
CONSTANTS
    owner = admin
    admin = admin
    ann = ann
    bob = bob
    e1 = e1
    e2 = e2
    f1 = f1
    r1 = r1
    r2 = r2
    Experiments = {e1}
    Flags = {f1}
    FlagOf <- OneFlag
    Users = {admin, ann, bob}
    OwnerOf <- OneOwner
    Admins = {admin}
    Approvers = {ann, bob}
    MinApprovals = 2
    VariantSets = {"a"}
    Requests = {r1, r2}
    MaxVersions = 2
    MaxLock = 5
    MaxAhead = 0
CONSTRAINT FlagStays
SYMMETRY Symmetry
INVARIANT ApprovalQuorum
INVARIANT ApprovedHasReview
PROPERTY ClosedReviewFinal
CHECK_DEADLOCK FALSE
