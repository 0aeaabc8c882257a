----------------------- MODULE MCExperimentLifecycle -----------------------
(***************************************************************************)
(* Constants of the TLC runs of ExperimentLifecycle.                       *)
(***************************************************************************)
EXTENDS ExperimentLifecycleRefinement, TLC

CONSTANTS owner, admin, ann, bob, e1, e2, f1, r1, r2

OneFlag == [e \in Experiments |-> f1]
OneOwner == [e \in Experiments |-> owner]

\* Requests in flight are alike; so are experiments of one flag and one owner,
\* and the two approvers.
Symmetry == Permutations(Requests) \cup Permutations(Experiments)
                \cup Permutations(Approvers)

\* Which variants the first version has makes no difference.
AnyVariants == CHOOSE content \in VariantSets : TRUE

\* Create with variants leaves a draft with the lock at 2, Submit and an admin's
\* approval take it to approved at 4; updates of the draft before moved it to n.
Draft(n) == [status |-> "draft", version |-> n, review |-> "none", approved |-> {},
             audit |-> [actor |-> owner, version |-> 1]]
Approved(n) == [status |-> "approved", version |-> n, review |-> "approved",
                approved |-> {admin}, audit |-> [actor |-> admin, version |-> n]]

\* An approved one was started and paused by hand.
Paused(n) == [Approved(n) EXCEPT !.status = "paused"]

\* Every experiment is there, with the variants of its first version and no
\* request in flight.
InitAt(at) ==
    /\ status = [e \in Experiments |-> at.status]
    /\ version = [e \in Experiments |-> at.version]
    /\ cur = [e \in Experiments |-> 1]
    /\ guardrail = [e \in Experiments |-> FALSE]
    /\ decision = [e \in Experiments |-> "none"]
    /\ variants = [e \in Experiments |->
                     [n \in Versions |-> IF n = 1 THEN AnyVariants ELSE NoVariants]]
    /\ review = [e \in Experiments |->
                   [n \in Versions |-> IF n = 1 THEN at.review ELSE "none"]]
    /\ approvals = [e \in Experiments |->
                      [n \in Versions |-> IF n = 1 THEN at.approved ELSE {}]]
    /\ auditTail = [e \in Experiments |->
                      [actor |-> at.audit.actor, status |-> at.status,
                       version |-> at.audit.version, guardrail |-> FALSE]]
    /\ outbox = Experiments
    /\ flagDefault = [f \in Flags |-> ByHand]
    /\ flagDeleted = [f \in Flags |-> FALSE]
    /\ req = [c \in Requests |-> NoRequest]

SpecFromApproved == InitAt(Approved(4)) /\ [][Next]_vars

\* A draft with two commits to go, an approved or a paused experiment with three.
SpecLaunched ==
    /\ \E at \in {Draft(MaxLock - 2), Approved(MaxLock - 3), Paused(MaxLock - 3)} : InitAt(at)
    /\ [][Next]_vars

\* A bound: nothing is looked at after the deletion of a flag, which changes no
\* experiment and only refuses requests.
FlagStays == \A f \in Flags : ~flagDeleted[f]
=============================================================================
