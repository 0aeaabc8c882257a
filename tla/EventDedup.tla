----------------------------- MODULE EventDedup -----------------------------
(***************************************************************************)
(* The first two consumers of the pipeline: the validator (events to       *)
(* validated) and the deduplication (validated to deduped), each a handler *)
(* of consumer.Consumer.  The deduplication looks into a bounded memory of *)
(* its process, then into kafka_dedup_keys, and inserts the id before the  *)
(* message is forwarded.  There may be several replicas: the table is      *)
(* shared, the memory is not.                                              *)
(***************************************************************************)
EXTENDS RetryConsumer

CONSTANTS
    SeenCap,      \* defaultDedupCap
    Invalid       \* ids the validator refuses: unknown type, broken payload,
                  \* or outside validationSkew

ASSUME DedupAssumption == SeenCap \in Nat \ {0}

VARIABLES
    seen,         \* the Deduper of each replica, oldest first
    dedupKeys,    \* kafka_dedup_keys
    silenced      \* ids of which an attempt failed after their mark was set

dedupVars == <<seen, dedupKeys, silenced>>

Validators == {w \in Workers : RoleOf[w] = "validator"}
Dedupers == {w \in Workers : RoleOf[w] = "dedup"}

DedupTypeOK ==
    /\ seen \in [Dedupers -> Seq(Ids)]
    /\ \A w \in Dedupers : Len(seen[w]) <= SeenCap
    /\ dedupKeys \subseteq Ids
    /\ silenced \subseteq Ids

\* What is in the deduplicated topic has its row.
DedupInit ==
    /\ seen = [w \in Dedupers |-> <<>>]
    /\ dedupKeys = IdsIn(log["deduped"])
    /\ silenced = {}

-----------------------------------------------------------------------------
(* Validator.Handle: a look at the message, nothing else *)

\* Mutant: a refused event is dropped.
ValidateDrops(w) ==
    /\ Busy(w, "handle")
    /\ IF Id(w) \in Invalid THEN Drop(w) ELSE Done(w)
    /\ NoFault
    /\ UNCHANGED <<log, offset, lost, dedupVars>>

Validate(w) ==
    /\ Busy(w, "handle")
    /\ IF Id(w) \in Invalid THEN Bury(w) ELSE Done(w)
    /\ NoFault
    /\ UNCHANGED <<log, offset, lost, dedupVars>>

-----------------------------------------------------------------------------
(* DedupStore.Handle *)

\* Mutant: the oldest mark stays.
RememberAll(marks, i) == Append(marks, i)

\* SeenOrMark: the mark is set before anything is known about the message, and
\* the oldest mark makes room.
Remember(marks, i) ==
    LET longer == Append(marks, i)
    IN IF Len(longer) > SeenCap THEN Tail(longer) ELSE longer

SeenOrMark(w) ==
    /\ Busy(w, "handle")
    /\ \/ /\ Contains(seen[w], Id(w))
          /\ Drop(w)
          /\ UNCHANGED seen
       \/ /\ ~ Contains(seen[w], Id(w))
          /\ seen' = [seen EXCEPT ![w] = Remember(@, Id(w))]
          /\ Goto(w, "lookup")
    /\ NoFault
    /\ UNCHANGED <<log, offset, lost, dedupKeys, silenced>>

Exists(w) ==
    /\ Busy(w, "lookup")
    /\ IF Id(w) \in dedupKeys THEN Drop(w) ELSE Goto(w, "insert")
    /\ NoFault
    /\ UNCHANGED <<log, offset, lost, dedupVars>>

\* Mutant: the number of inserted rows is not looked at.
InsertUnchecked(w) ==
    /\ Busy(w, "insert")
    /\ Done(w)
    /\ dedupKeys' = dedupKeys \cup {Id(w)}
    /\ NoFault
    /\ UNCHANGED <<log, offset, lost, seen, silenced>>

\* Mutant: the answer of the insert is taken the wrong way round.
InsertInverted(w) ==
    /\ Busy(w, "insert")
    /\ IF Id(w) \in dedupKeys THEN Done(w) ELSE Drop(w)
    /\ dedupKeys' = dedupKeys \cup {Id(w)}
    /\ NoFault
    /\ UNCHANGED <<log, offset, lost, seen, silenced>>

\* INSERT ... ON CONFLICT DO NOTHING: one of two replicas inserts the row.
Insert(w) ==
    /\ Busy(w, "insert")
    /\ IF Id(w) \in dedupKeys THEN Drop(w) ELSE Done(w)
    /\ dedupKeys' = dedupKeys \cup {Id(w)}
    /\ NoFault
    /\ UNCHANGED <<log, offset, lost, seen, silenced>>

\* A failed statement is retried; a failed INSERT may have been carried out.
DedupFails(w) ==
    /\ \/ Busy(w, "lookup") /\ UNCHANGED dedupKeys
       \/ Busy(w, "insert") /\ dedupKeys' \in {dedupKeys, dedupKeys \cup {Id(w)}}
    /\ Retry(w)
    /\ silenced' = silenced \cup {Id(w)}
    /\ Fault
    /\ UNCHANGED <<log, offset, lost, seen>>

DedupForwardFails(w) ==
    /\ ForwardFails(w)
    /\ silenced' = silenced \cup {Id(w)}
    /\ UNCHANGED <<seen, dedupKeys>>

\* The replica of one worker dies in the middle of a message; the others, and
\* their memories, live on.
ReplicaDies(w) ==
    /\ work[w] # NoWork
    /\ work' = [work EXCEPT ![w] = NoWork]
    /\ lost' = lost \cup {<<RoleOf[w], Id(w)>>}
    /\ seen' = [seen EXCEPT ![w] = <<>>]
    /\ Fault
    /\ UNCHANGED <<log, offset, dedupKeys, silenced>>

DedupStep(w) ==
    \/ SeenOrMark(w)
    \/ Exists(w)
    \/ Insert(w)
    \/ DedupFails(w)
    \/ DedupForwardFails(w)
    \/ ReplicaDies(w)

\* All processes stop: the memories are gone, the table is not.
DedupersDie ==
    /\ seen' = [w \in Dedupers |-> <<>>]
    /\ UNCHANGED <<dedupKeys, silenced>>

DedupCrash ==
    /\ ConsumersDie
    /\ DedupersDie
    /\ Fault
    /\ UNCHANGED <<log, offset>>

DedupNext ==
    \/ \E w \in Validators : Validate(w) \/ (ForwardFails(w) /\ UNCHANGED dedupVars)
    \/ \E w \in Dedupers : DedupStep(w)
    \/ \E w \in Validators \cup Dedupers : LoopStep(w) /\ UNCHANGED dedupVars
    \/ DedupCrash

\* The rest of the service writes other topics, and runs other workers, which
\* read other topics and lose messages of their own.
Elsewhere ==
    /\ log' \in [Topics -> Seq(Messages)]
    /\ \A t \in Topics : \E msgs \in Seq(Messages) : log'[t] = log[t] \o msgs
    /\ \A t \in {"validated", "deduped"} : log'[t] = log[t]
    /\ offset' \in [Readers -> Nat]
    /\ \A c \in {"validator", "dedup"} : offset'[c] = offset[c]
    /\ work' \in [Workers -> Jobs \cup {NoWork}]
    /\ \A w \in Validators \cup Dedupers : work'[w] = work[w]
    /\ lost \subseteq lost'
    /\ UNCHANGED dedupVars

\* Any number of copies of the events may be in the topic, or come to it.
DedupSpec ==
    /\ log \in [Topics -> Seq(Messages)]
    /\ NoCopies(log["deduped"])
    /\ offset = [c \in Readers |-> 0]
    /\ faults \in 0..MaxFaults
    /\ ConsumerInit
    /\ DedupInit
    /\ [][DedupNext \/ Elsewhere]_<<topicVars, consumerVars, dedupVars>>

-----------------------------------------------------------------------------
(* Properties *)

\* However often an event was published, and whatever fails or is repeated in
\* whichever replica, the deduplicated topic carries it at most once: also when
\* the broker stored a message and reported an error.
DedupedOnce == NoCopies(log["deduped"])

\* An event whose offset the validator has committed is passed on, refused into
\* the dead-letter topic, in its hands, or lost in one of three ways: the commit
\* or the dead-letter write failed, or the worker was stopped.
ReadIsValidated ==
    \A k \in 1..offset["validator"] :
        LET i == log["events"][k].id
        IN \/ i \in IdsIn(log["validated"]) \cup IdsIn(log["dlq"])
           \/ <<"validator", i>> \in lost
           \/ \E w \in Validators : work[w] # NoWork /\ Id(w) = i

\* An event the validator has passed on is in the deduplicated topic or on its
\* way there.  It disappears only if a step after its mark failed - every
\* repetition is then taken for a duplicate, by the mark or by the row of
\* kafka_dedup_keys - if its commit failed, or if its worker was stopped.
PassedIsForwarded ==
    \A k \in 1..offset["dedup"] :
        LET i == log["validated"][k].id
        IN \/ i \in IdsIn(log["deduped"])
           \/ i \in silenced
           \/ <<"dedup", i>> \in lost
           \/ \E w \in Dedupers : work[w] # NoWork /\ Id(w) = i
=============================================================================
