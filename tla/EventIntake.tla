---------------------------- MODULE EventIntake ----------------------------
(***************************************************************************)
(* POST /events/batch and POST /exposures/batch of the analytics service:  *)
(* every item of a batch claims its event_id in event_idempotency_keys,    *)
(* the claimed ones are published in one call, and the claims are released *)
(* when the broker refuses them.  Every statement is a step of its own:    *)
(* nothing here runs in a transaction, and both endpoints share the keys.  *)
(***************************************************************************)
EXTENDS KafkaTopics

CONSTANTS
    Requests,   \* batch requests
    NoKey       \* no row in event_idempotency_keys

ASSUME IntakeAssumption == NoKey \notin [hash : Hashes, live : BOOLEAN]

VARIABLES
    request,    \* what each request carries: topic and items
    call,       \* how far its handler has come
    keys,       \* event_idempotency_keys: the hash, and whether it still lives
    lapsed,     \* ids that stopped being protected: expired, or released
                \* although the broker had stored a message of theirs
    abandoned   \* ids whose claim a failed request left behind or gave up

intakeVars == <<request, call, keys, lapsed, abandoned>>

\* An item that passes the checks is ok; the others carry an unknown type, a
\* malformed id or payload, or a time outside LateWindow and FutureSkew.
Items == [id : Ids, hash : Hashes, ok : BOOLEAN]
Endpoints == {"events", "exposures"}
Statuses == {"accepted", "duplicate", "rejected"}
Steps == {"idle", "check", "insert", "find", "replace", "publish", "release",
          "answered", "refused", "failed"}
Ended == {"idle", "answered", "refused", "failed"}

NoCall == [at |-> "idle", next |-> 1, claimed |-> <<>>, results |-> <<>>]

IntakeTypeOK ==
    /\ request \in [Requests -> [topic : Endpoints, items : Seq(Items)]]
    /\ call \in [Requests -> [at : Steps, next : Nat \ {0},
                              claimed : Seq(Messages), results : Seq(Statuses)]]
    /\ keys \in [Ids -> {NoKey} \cup [hash : Hashes, live : BOOLEAN]]
    /\ lapsed \subseteq Ids
    /\ abandoned \subseteq Ids

Workloads == [Requests -> [topic : Endpoints, items : Seq(Items)]]

\* A message that is in Kafka although its key is gone has lost its protection.
IntakeInit(workload) ==
    /\ request = workload
    /\ call = [r \in Requests |-> NoCall]
    /\ keys = [i \in Ids |-> NoKey]
    /\ lapsed = IdsIn(log["events"]) \cup IdsIn(log["exposures"])
    /\ abandoned = {}

-----------------------------------------------------------------------------
(* The steps of a request *)

Item(r) == request[r].items[call[r].next]

MessageOf(item) == [id |-> item.id, hash |-> item.hash]

At(r, step) == call[r].at = step

\* The claims a request holds that it has not published yet.
Claims(r) ==
    IF call[r].at \in {"check", "insert", "find", "replace", "publish", "release"}
    THEN ToSet(call[r].claimed) ELSE {}

MoveTo(r, step) == call' = [call EXCEPT ![r].at = step]

\* The next item, or the publication when there is none left.
After(r) == IF call[r].next < Len(request[r].items) THEN "check" ELSE "publish"

\* results = append(results, res), and pending when the key was claimed.
Answer(r, status, claimed) ==
    call' = [call EXCEPT ![r] =
               [at |-> After(r), next |-> @.next + 1,
                claimed |-> IF claimed THEN Append(@.claimed, MessageOf(Item(r)))
                                       ELSE @.claimed,
                results |-> Append(@.results, status)]]

\* The handler has validated the request (a batch is not empty), and for
\* events the active types have been read.
Begin(r) ==
    /\ At(r, "idle")
    /\ request[r].items # <<>>
    /\ MoveTo(r, "check")
    /\ NoFault
    /\ UNCHANGED <<log, offset, request, keys, lapsed, abandoned>>

\* checkEvent and checkExposure only read the item and the catalog.
Check(r) ==
    /\ At(r, "check")
    /\ IF Item(r).ok THEN MoveTo(r, "insert") ELSE Answer(r, "rejected", FALSE)
    /\ NoFault
    /\ UNCHANGED <<log, offset, request, keys, lapsed, abandoned>>

LiveKey(item) == [hash |-> item.hash, live |-> TRUE]

\* Mutant: INSERT ... ON CONFLICT DO UPDATE.
InsertOrUpdateKey(r) ==
    /\ At(r, "insert")
    /\ keys' = [keys EXCEPT ![Item(r).id] = LiveKey(Item(r))]
    /\ Answer(r, "accepted", TRUE)
    /\ NoFault
    /\ UNCHANGED <<log, offset, request, lapsed, abandoned>>

\* INSERT decides alone: a unique violation sends the claim to FIND.
InsertKey(r) ==
    /\ At(r, "insert")
    /\ \/ /\ keys[Item(r).id] = NoKey
          /\ keys' = [keys EXCEPT ![Item(r).id] = LiveKey(Item(r))]
          /\ Answer(r, "accepted", TRUE)
       \/ /\ keys[Item(r).id] # NoKey
          /\ MoveTo(r, "find")
          /\ UNCHANGED keys
    /\ NoFault
    /\ UNCHANGED <<log, offset, request, lapsed, abandoned>>

\* The request ends with an error; whatever it had claimed stays claimed.
Abort(r) ==
    /\ MoveTo(r, "failed")
    /\ abandoned' = abandoned \cup {m.id : m \in Claims(r)}

\* The row that refused the INSERT may be gone when it is looked up
\* (ErrIdempotencyNotFound is returned to the caller), or expired.
FindKey(r) ==
    /\ At(r, "find")
    /\ LET key == keys[Item(r).id]
       IN \/ /\ key = NoKey
             /\ Abort(r)
          \/ /\ key # NoKey
             /\ CASE ~ key.live -> MoveTo(r, "replace")
                  [] key.live /\ key.hash = Item(r).hash -> Answer(r, "duplicate", FALSE)
                  [] OTHER -> Answer(r, "rejected", FALSE)
             /\ UNCHANGED abandoned
    /\ NoFault
    /\ UNCHANGED <<log, offset, request, keys, lapsed>>

\* UPDATE ... WHERE event_id: it does not look at the row it replaces, which
\* another request may have replaced since FIND.
ReplaceKey(r) ==
    /\ At(r, "replace")
    /\ \/ /\ keys[Item(r).id] # NoKey
          /\ keys' = [keys EXCEPT ![Item(r).id] = LiveKey(Item(r))]
          /\ Answer(r, "accepted", TRUE)
       \/ /\ keys[Item(r).id] = NoKey
          /\ MoveTo(r, "insert")
          /\ UNCHANGED keys
    /\ NoFault
    /\ UNCHANGED <<log, offset, request, lapsed, abandoned>>

\* PostgreSQL fails in the middle of a batch, or when the active types are
\* read: the error is returned at once.  A failed INSERT or UPDATE may have been
\* carried out.
StorageFails(r) ==
    /\ \/ call[r].at \in {"insert", "find", "replace"}
       \/ At(r, "idle") /\ request[r].topic = "events" /\ request[r].items # <<>>
    /\ \/ /\ Abort(r)
          /\ UNCHANGED keys
       \/ /\ \/ At(r, "insert") /\ keys[Item(r).id] = NoKey
             \/ At(r, "replace") /\ keys[Item(r).id] # NoKey
          /\ keys' = [keys EXCEPT ![Item(r).id] = LiveKey(Item(r))]
          /\ MoveTo(r, "failed")
          /\ abandoned' = abandoned \cup {Item(r).id} \cup {m.id : m \in Claims(r)}
    /\ Fault
    /\ UNCHANGED <<log, offset, request, lapsed>>

\* Mutant: the last claimed item is left out.
PublishAllButLast(r) ==
    /\ At(r, "publish")
    /\ Write(request[r].topic, SubSeq(call[r].claimed, 1, Len(call[r].claimed) - 1))
    /\ MoveTo(r, "answered")
    /\ NoFault
    /\ UNCHANGED <<offset, request, keys, lapsed, abandoned>>

\* Publish: one WriteMessages for all claimed items, or none at all.
Publish(r) ==
    /\ At(r, "publish")
    /\ Write(request[r].topic, call[r].claimed)
    /\ MoveTo(r, "answered")
    /\ NoFault
    /\ UNCHANGED <<offset, request, keys, lapsed, abandoned>>

\* The write fails, also after ensureTopics and its one repetition.  A part of
\* the batch may have been stored.
PublishFails(r) ==
    /\ At(r, "publish")
    /\ call[r].claimed # <<>>
    /\ \E n \in 0..Len(call[r].claimed) :
         LET stored == SubSeq(call[r].claimed, 1, n)
         IN /\ Write(request[r].topic, stored)
            /\ lapsed' = lapsed \cup IdsIn(stored)
    /\ MoveTo(r, "release")
    /\ abandoned' = abandoned \cup IdsIn(call[r].claimed)
    /\ Fault
    /\ UNCHANGED <<offset, request, keys>>

\* The keys of the batch are deleted and the client gets a 503.
Release(r) ==
    /\ At(r, "release")
    /\ keys' = [i \in Ids |-> IF i \in IdsIn(call[r].claimed) THEN NoKey ELSE keys[i]]
    /\ MoveTo(r, "refused")
    /\ NoFault
    /\ UNCHANGED <<log, offset, request, lapsed, abandoned>>

\* A failed release is only logged.
ReleaseFails(r) ==
    /\ At(r, "release")
    /\ MoveTo(r, "refused")
    /\ Fault
    /\ UNCHANGED <<log, offset, request, keys, lapsed, abandoned>>

\* IdempotencyTTL passes.  Once for an id: a bound.
ExpireKey(i) ==
    /\ i \notin lapsed
    /\ keys[i] # NoKey
    /\ keys[i].live
    /\ keys' = [keys EXCEPT ![i].live = FALSE]
    /\ lapsed' = lapsed \cup {i}
    /\ Fault
    /\ UNCHANGED <<log, offset, request, call, abandoned>>

\* The process dies: its requests are gone, the keys stay.
IntakeDies ==
    /\ call' = [r \in Requests |->
                  IF call[r].at \in Ended THEN call[r]
                                          ELSE [call[r] EXCEPT !.at = "failed"]]
    /\ abandoned' = abandoned \cup UNION {{m.id : m \in Claims(r)} : r \in Requests}
    /\ UNCHANGED <<request, keys, lapsed>>

IntakeCrash ==
    /\ \E r \in Requests : call[r].at \notin Ended
    /\ IntakeDies
    /\ Fault
    /\ UNCHANGED <<log, offset>>

RequestStep(r) ==
    \/ Begin(r)
    \/ Check(r)
    \/ InsertKey(r)
    \/ FindKey(r)
    \/ ReplaceKey(r)
    \/ StorageFails(r)
    \/ Publish(r)
    \/ PublishFails(r)
    \/ Release(r)
    \/ ReleaseFails(r)

IntakeNext ==
    \/ \E r \in Requests : RequestStep(r)
    \/ \E i \in Ids : ExpireKey(i)
    \/ IntakeCrash

\* The consumers and the runtime write to the other topics.
Downstream ==
    /\ log' \in [Topics -> Seq(Messages)]
    /\ \A t \in Endpoints : log'[t] = log[t]
    /\ UNCHANGED intakeVars

IntakeSpec ==
    /\ log \in [Topics -> Seq(Messages)]
    /\ \E workload \in Workloads : IntakeInit(workload)
    /\ [][IntakeNext \/ Downstream]_<<topicVars, intakeVars>>

-----------------------------------------------------------------------------
(* Properties *)

Published(i) == {m \in ToSet(log["events"]) \cup ToSet(log["exposures"]) : m.id = i}

\* Two requests with the same event_id and different bodies never both reach
\* Kafka, however their claims interleave - as long as the key has not expired
\* and no batch was half stored by a broker that then reported an error.
OneBodyPerKey ==
    \A i \in Ids \ lapsed :
        \A m, n \in Published(i) : m.hash = n.hash

\* What a client was told is accepted, or a duplicate of something accepted,
\* is in Kafka once no request holds the claim - unless a request that failed
\* (storage, broker, crash) gave the event up.
AcknowledgedIsPublished ==
    \A r \in Requests : At(r, "answered") =>
        \A k \in 1..Len(call[r].results) :
            LET i == request[r].items[k].id
            IN call[r].results[k] # "rejected" =>
                 \/ Published(i) # {}
                 \/ i \in abandoned
                 \/ \E q \in Requests : i \in {m.id : m \in Claims(q)}
=============================================================================
