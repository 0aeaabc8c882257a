------------------- MODULE ExperimentLifecycleRefinement -------------------
(***************************************************************************)
(* The experiment aggregate implements the lease of its flags: the holder  *)
(* of a flag is its running or paused experiment.                          *)
(***************************************************************************)
EXTENDS ExperimentLifecycle

Nobody == "nobody"

HolderOf(f) ==
    IF \E e \in Experiments : FlagOf[e] = f /\ status[e] \in Active
    THEN CHOOSE e \in Experiments : FlagOf[e] = f /\ status[e] \in Active
    ELSE Nobody

Lease == INSTANCE FlagLease WITH holder <- [f \in Flags |-> HolderOf(f)]

\* Start, Pause, Resume, Complete, rollbacks and resets, interleaved in any
\* way, amount to acquiring and releasing the lease of one flag.
ImplementsLease == Lease!Spec
=============================================================================
