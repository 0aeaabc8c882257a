--------------------------- MODULE RetryConsumer ---------------------------
(***************************************************************************)
(* consumer.Consumer: read a message, run its handler, forward it, repeat  *)
(* what failed up to MaxAttempts times, and move what still fails to the   *)
(* dead-letter topic.  The readers belong to a group and use ReadMessage,  *)
(* which fetches a message and commits it: the offset is committed before  *)
(* the handler runs, and a message whose commit fails is not handed over.  *)
(*                                                                         *)
(* A worker is one such loop.  Its handler is made of the steps another    *)
(* module gives it, which end in Done, Drop or Failed.                     *)
(***************************************************************************)
EXTENDS KafkaTopics

CONSTANTS
    Workers,      \* consumer loops of all replicas
    RoleOf,       \* which consumer of the pipeline each worker runs
    MaxAttempts,  \* attempts before a message is dead
    NoWork        \* a loop that waits in ReadMessage

Roles == {"validator", "dedup", "registry", "attributor"}

ASSUME ConsumerAssumption ==
    /\ MaxAttempts \in Nat \ {0}
    /\ RoleOf \in [Workers -> Roles]

VARIABLES
    work,         \* the message each worker handles, the attempt and the step
    lost          \* <<consumer, id>> that went without a trace in the system:
                  \* the commit after the fetch or the write to the dead-letter
                  \* topic failed, or the worker was stopped

consumerVars == <<work, lost>>

\* The topic a consumer forwards to.
ForwardTo(c) ==
    CASE c = "validator" -> "validated"
      [] c = "dedup" -> "deduped"
      [] OTHER -> "none"

HandlerSteps == {"handle", "lookup", "insert", "register", "index", "unregister"}
WorkSteps == HandlerSteps \cup {"forward", "dead"}

Jobs == [msg : Messages, attempt : 1..MaxAttempts, at : WorkSteps]

ASSUME WorkAssumption == NoWork \notin Jobs

ConsumerTypeOK ==
    /\ work \in [Workers -> Jobs \cup {NoWork}]
    /\ lost \subseteq (Roles \X Ids)

ConsumerInit ==
    /\ work = [w \in Workers |-> NoWork]
    /\ lost = {}

Id(w) == work[w].msg.id

Busy(w, step) ==
    /\ work[w] # NoWork
    /\ work[w].at = step

\* ReadMessage hands out the next message of the group and commits it.
ReadMessage(w) ==
    LET c == RoleOf[w]
    IN /\ work[w] = NoWork
       /\ offset[c] < Len(log[SourceOf(c)])
       /\ work' = [work EXCEPT ![w] = [msg |-> log[SourceOf(c)][offset[c] + 1],
                                       attempt |-> 1, at |-> "handle"]]
       /\ offset' = [offset EXCEPT ![c] = @ + 1]
       /\ NoFault
       /\ UNCHANGED <<log, lost>>

\* The commit fails: ReadMessage drops what it fetched, Run logs the error and
\* goes on, and the next commit of the group covers the offset.  (If the reader
\* restarts before that, the message is read again: nothing has happened.)
ReadMessageFails(w) ==
    LET c == RoleOf[w]
    IN /\ work[w] = NoWork
       /\ offset[c] < Len(log[SourceOf(c)])
       /\ offset' = [offset EXCEPT ![c] = @ + 1]
       /\ lost' = lost \cup {<<c, log[SourceOf(c)][offset[c] + 1].id>>}
       /\ Fault
       /\ UNCHANGED <<log, work>>

Goto(w, step) == work' = [work EXCEPT ![w].at = step]

\* The handler returned nil.
Done(w) ==
    IF ForwardTo(RoleOf[w]) = "none" THEN work' = [work EXCEPT ![w] = NoWork]
                                     ELSE Goto(w, "forward")

\* The handler returned ErrDrop.
Drop(w) == work' = [work EXCEPT ![w] = NoWork]

\* Another attempt after the backoff, or the dead-letter topic.
Retry(w) ==
    work' = [work EXCEPT ![w] =
               IF work[w].attempt < MaxAttempts
               THEN [work[w] EXCEPT !.attempt = @ + 1, !.at = "handle"]
               ELSE [work[w] EXCEPT !.at = "dead"]]

Bury(w) == Goto(w, "dead")

\* Handle or the forward failed; the handler says what may be retried.  The
\* validator never retries, not even a failed forward.
Failed(w) == IF RoleOf[w] = "validator" THEN Bury(w) ELSE Retry(w)

Forward(w) ==
    /\ Busy(w, "forward")
    /\ Write(ForwardTo(RoleOf[w]), <<work[w].msg>>)
    /\ work' = [work EXCEPT ![w] = NoWork]
    /\ NoFault
    /\ UNCHANGED <<offset, lost>>

ForwardFails(w) ==
    /\ Busy(w, "forward")
    /\ WriteFails(ForwardTo(RoleOf[w]), <<work[w].msg>>)
    /\ Failed(w)
    /\ Fault
    /\ UNCHANGED <<offset, lost>>

SendDLQ(w) ==
    /\ Busy(w, "dead")
    /\ Write("dlq", <<work[w].msg>>)
    /\ work' = [work EXCEPT ![w] = NoWork]
    /\ NoFault
    /\ UNCHANGED <<offset, lost>>

\* Only logged: the offset is committed, the message is nowhere.
SendDLQFails(w) ==
    /\ Busy(w, "dead")
    /\ lost' = lost \cup {<<RoleOf[w], work[w].msg.id>>}
    /\ work' = [work EXCEPT ![w] = NoWork]
    /\ Fault
    /\ UNCHANGED <<log, offset>>

\* A crash, or a shutdown during the backoff, whose write to the dead-letter
\* topic fails with the cancelled context.
ConsumersDie ==
    /\ work' = [w \in Workers |-> NoWork]
    /\ lost' = lost \cup {<<RoleOf[w], work[w].msg.id>> :
                            w \in {v \in Workers : work[v] # NoWork}}

LoopStep(w) ==
    \/ ReadMessage(w)
    \/ ReadMessageFails(w)
    \/ Forward(w)
    \/ SendDLQ(w)
    \/ SendDLQFails(w)
=============================================================================
