----------------------------- MODULE FlagLease -----------------------------
(***************************************************************************)
(* What the panel promises about a flag: it is leased to at most one       *)
(* experiment at a time, and passes from one experiment to another only    *)
(* through a moment when nobody holds it.                                  *)
(***************************************************************************)
CONSTANTS Flags, Experiments, FlagOf, Nobody

VARIABLE holder

Init == holder = [f \in Flags |-> Nobody]

Acquire(e) ==
    /\ holder[FlagOf[e]] = Nobody
    /\ holder' = [holder EXCEPT ![FlagOf[e]] = e]

Release(e) ==
    /\ holder[FlagOf[e]] = e
    /\ holder' = [holder EXCEPT ![FlagOf[e]] = Nobody]

Next == \E e \in Experiments : Acquire(e) \/ Release(e)

Spec == Init /\ [][Next]_holder
=============================================================================
