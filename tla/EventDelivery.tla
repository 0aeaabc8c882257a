--------------------------- MODULE EventDelivery ---------------------------
(***************************************************************************)
(* What the pipeline promises about the items it accepts: at least one     *)
(* copy of each stays under way until the item is stored or released, what *)
(* is stored was under way, and nothing comes under way of itself.         *)
(*                                                                         *)
(* An item may be several of these at once: a copy of what is stored comes *)
(* under way again when a consumer restarts, or when it is accepted twice. *)
(***************************************************************************)
CONSTANT Items

VARIABLES
    accepted,   \* what the clients were told is taken
    underway,   \* what some part of the pipeline holds or has yet to read
    stored,     \* what has reached its table
    released    \* what the pipeline no longer answers for

Init ==
    /\ accepted \subseteq underway
    /\ stored = {}

Accept ==
    /\ \E new \in SUBSET Items :
         /\ accepted' = accepted \cup new
         /\ underway' = underway \cup new
    /\ UNCHANGED <<stored, released>>

Progress ==
    /\ stored \subseteq stored' /\ stored' \subseteq stored \cup underway
    /\ released \subseteq released'
    /\ underway \subseteq underway' \cup stored' \cup released'
    /\ underway' \subseteq underway \cup stored \cup released
    /\ UNCHANGED accepted

Spec == Init /\ [][Accept \/ Progress]_<<accepted, underway, stored, released>>

\* What was accepted is somewhere: the safety a client relies on.
NothingLost == accepted \subseteq underway \cup stored \cup released
=============================================================================
