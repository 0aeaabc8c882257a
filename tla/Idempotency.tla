---------------------------- MODULE Idempotency ----------------------------
(***************************************************************************)
(* The Idempotency-Key middleware.  A post with a key looks the key up,    *)
(* runs its handler when nothing is stored, and stores the answer of a     *)
(* success with SET NX.  There is no reservation: two posts with one key   *)
(* that overlap both run.                                                  *)
(*                                                                         *)
(* A key stands for caller, method, route and header value; a body for its *)
(* SHA-256; the answer of a run for the post that ran.                     *)
(***************************************************************************)
EXTENDS FaultBudget

CONSTANTS Posts, Keys, Bodies, Nothing

ASSUME NothingAssumption == Nothing \notin Posts

VARIABLES
    stored, \* the record of each key: the body's hash and the answer
    post,   \* the middleware's local state for each request
    epoch   \* ghost: how many records of the key have lapsed

idempotencyVars == <<stored, post, epoch>>

Steps == {"new", "run", "run_unstored", "store", "answered", "failed",
          "replayed", "conflict", "lost"}
NoRecord == [body |-> Nothing, answer |-> Nothing]
KeyRecords == [body : Bodies, answer : Posts]

PostRecords ==
    [key : Keys, body : Bodies, step : Steps, answer : Posts \cup {Nothing}, epoch : Nat]

IdempotencyTypeOK ==
    /\ stored \in [Keys -> KeyRecords \cup {NoRecord}]
    /\ post \in [Posts -> PostRecords]
    /\ epoch \in [Keys -> Nat]

Post(key, body) ==
    [key |-> key, body |-> body, step |-> "new", answer |-> Nothing, epoch |-> 0]

IdempotencyInit(posts) ==
    /\ stored = [k \in Keys |-> NoRecord]
    /\ post = posts
    /\ epoch = [k \in Keys |-> 0]

Found(r) == stored[post[r].key]
Become(r, step) == post' = [post EXCEPT ![r].step = step]

-----------------------------------------------------------------------------

LookupMisses(r) ==
    /\ post[r].step = "new"
    /\ Found(r) = NoRecord
    /\ Become(r, "run")
    /\ NoFault
    /\ UNCHANGED <<stored, epoch>>

\* 409: the key was used with a different body.
LookupConflicts(r) ==
    /\ post[r].step = "new"
    /\ Found(r) # NoRecord
    /\ Found(r).body # post[r].body
    /\ Become(r, "conflict")
    /\ NoFault
    /\ UNCHANGED <<stored, epoch>>

LookupReplays(r) ==
    /\ post[r].step = "new"
    /\ Found(r) # NoRecord
    /\ Found(r).body = post[r].body
    /\ post' = [post EXCEPT ![r].step = "replayed", ![r].answer = Found(r).answer,
                            ![r].epoch = epoch[post[r].key]]
    /\ NoFault
    /\ UNCHANGED <<stored, epoch>>

\* Redis does not answer: the handler runs and nothing is stored.
LookupFails(r) ==
    /\ post[r].step = "new"
    /\ Fault
    /\ Become(r, "run_unstored")
    /\ UNCHANGED <<stored, epoch>>

\* The handler succeeds.
RunSucceeds(r) ==
    /\ post[r].step \in {"run", "run_unstored"}
    /\ post' = [post EXCEPT ![r].answer = r,
                            ![r].step = IF @ = "run" THEN "store" ELSE "answered"]
    /\ NoFault
    /\ UNCHANGED <<stored, epoch>>

\* A status outside 2xx is not stored.
RunRefuses(r) ==
    /\ post[r].step \in {"run", "run_unstored"}
    /\ Become(r, "failed")
    /\ NoFault
    /\ UNCHANGED <<stored, epoch>>

\* Mutant: a plain SET, the last of two runs keeps the key.
SetAlways(r) ==
    [stored EXCEPT ![post[r].key] = [body |-> post[r].body, answer |-> post[r].answer]]

\* SET NX: the first of two runs keeps the key.
SetNX(r) ==
    IF Found(r) = NoRecord
    THEN [stored EXCEPT ![post[r].key] = [body |-> post[r].body, answer |-> post[r].answer]]
    ELSE stored

Store(r) ==
    /\ post[r].step = "store"
    /\ stored' = SetNX(r)
    /\ Become(r, "answered")
    /\ NoFault
    /\ UNCHANGED epoch

\* The failure is only logged.
StoreFails(r) ==
    /\ post[r].step = "store"
    /\ Fault
    /\ Become(r, "answered")
    /\ UNCHANGED <<stored, epoch>>

\* The process stops: whether the handler has run is not known to the client.
PostLost(r) ==
    /\ post[r].step \in {"run", "run_unstored", "store"}
    /\ Fault
    /\ Become(r, "lost")
    /\ UNCHANGED <<stored, epoch>>

\* After 24 hours the record is gone.
RecordLapses(k) ==
    /\ stored[k] # NoRecord
    /\ Fault
    /\ stored' = [stored EXCEPT ![k] = NoRecord]
    /\ epoch' = [epoch EXCEPT ![k] = @ + 1]
    /\ UNCHANGED post

PostStep(r) ==
    \/ LookupMisses(r)
    \/ LookupConflicts(r)
    \/ LookupReplays(r)
    \/ LookupFails(r)
    \/ RunSucceeds(r)
    \/ RunRefuses(r)
    \/ Store(r)
    \/ StoreFails(r)
    \/ PostLost(r)

IdempotencyNext ==
    \/ \E r \in Posts : PostStep(r)
    \/ \E k \in Keys : RecordLapses(k)

PostWorkloads == [Posts -> {Post(k, b) : k \in Keys, b \in Bodies}]

IdempotencySpec ==
    /\ \E posts \in PostWorkloads : IdempotencyInit(posts)
    /\ faults \in 0..MaxFaults
    /\ [][IdempotencyNext]_idempotencyVars

-----------------------------------------------------------------------------

\* A replayed answer comes from a run of the same key with the same body, and all
\* replays of a key give one answer until its record lapses, although several posts
\* with the key may have run.
ReplaySameAnswer ==
    \A r \in Posts : post[r].step = "replayed" =>
        /\ post[r].answer \in Posts
        /\ post[post[r].answer].key = post[r].key
        /\ post[post[r].answer].body = post[r].body
        /\ post[post[r].answer].answer = post[r].answer
        /\ \A q \in Posts :
              (/\ post[q].step = "replayed"
               /\ post[q].key = post[r].key
               /\ post[q].epoch = post[r].epoch) => post[q].answer = post[r].answer
=============================================================================
