--------------------------- MODULE OutboxDelivery ---------------------------
(***************************************************************************)
(* The transactional outbox.  A domain transaction inserts a row; the      *)
(* publishers of all replicas poll for the oldest due row that nobody has  *)
(* locked, write it to Kafka and mark it, in one transaction per row.      *)
(*                                                                         *)
(* Rows are numbered by created_at.  A row of Rejected is one the broker   *)
(* never accepts.                                                          *)
(***************************************************************************)
EXTENDS FaultBudget, FiniteSetsExt

CONSTANTS
    Publishers,
    LastRow,        \* rows are 1..LastRow
    Rejected,
    MaxTries        \* bound of the code (maxAttempts), made small

ASSUME OutboxAssumption ==
    /\ LastRow \in Nat
    /\ MaxTries \in Nat \ {0}

VARIABLES
    row,        \* the outbox table
    sent,       \* rows the broker has stored
    relay,      \* each publisher's open transaction
    topicKnown  \* the topic exists

outboxVars == <<row, sent, relay, topicKnown>>

OutboxRows == 1..LastRow
RowRecords ==
    [status : {"absent", "pending", "published", "dead"}, attempts : 0..MaxTries,
     due : BOOLEAN]
NoRow == [status |-> "absent", attempts |-> 0, due |-> TRUE]
Idle == [row |-> 0, step |-> "idle"]

OutboxTypeOK ==
    /\ row \in [OutboxRows -> RowRecords]
    /\ sent \subseteq OutboxRows
    /\ relay \in [Publishers -> [row : 0..LastRow,
                                 step : {"idle", "publish", "ensure", "again", "mark", "failed"}]]
    /\ topicKnown \in BOOLEAN

OutboxInit ==
    /\ row = [n \in OutboxRows |-> NoRow]
    /\ sent = {}
    /\ relay = [p \in Publishers |-> Idle]
    /\ topicKnown = FALSE

\* CreateMessage, when the domain transaction commits.  The commits need not
\* follow the order of created_at.
Enqueue(n) ==
    /\ row[n].status = "absent"
    /\ row' = [row EXCEPT ![n].status = "pending"]
    /\ NoFault
    /\ UNCHANGED <<sent, relay, topicKnown>>

Claimed == {relay[p].row : p \in Publishers}
Claimable ==
    {n \in OutboxRows : row[n].status = "pending" /\ row[n].due} \ Claimed

RelayStep(p, step) == relay' = [relay EXCEPT ![p].step = step]

\* ORDER BY created_at LIMIT 1 FOR UPDATE SKIP LOCKED
Claim(p) ==
    /\ relay[p] = Idle
    /\ Claimable # {}
    /\ relay' = [relay EXCEPT ![p] = [row |-> Min(Claimable), step |-> "publish"]]
    /\ NoFault
    /\ UNCHANGED <<row, sent, topicKnown>>

Accepted(p) == topicKnown /\ relay[p].row \notin Rejected

PublishMessage(p) ==
    /\ relay[p].step \in {"publish", "again"}
    /\ Accepted(p)
    /\ sent' = sent \cup {relay[p].row}
    /\ RelayStep(p, "mark")
    /\ NoFault
    /\ UNCHANGED <<row, topicKnown>>

\* IsUnknownTopic
PublishFindsNoTopic(p) ==
    /\ relay[p].step = "publish"
    /\ ~topicKnown
    /\ RelayStep(p, "ensure")
    /\ NoFault
    /\ UNCHANGED <<row, sent, topicKnown>>

PublishRefused(p) ==
    /\ relay[p].step \in {"publish", "again"}
    /\ topicKnown
    /\ relay[p].row \in Rejected
    /\ RelayStep(p, "failed")
    /\ NoFault
    /\ UNCHANGED <<row, sent, topicKnown>>

\* A timeout: the broker may have stored the message.
PublishFails(p) ==
    /\ relay[p].step \in {"publish", "again"}
    /\ Fault
    /\ \/ UNCHANGED sent
       \/ Accepted(p) /\ sent' = sent \cup {relay[p].row}
    /\ RelayStep(p, "failed")
    /\ UNCHANGED <<row, topicKnown>>

EnsureTopic(p) ==
    /\ relay[p].step = "ensure"
    /\ topicKnown' = TRUE
    /\ RelayStep(p, "again")
    /\ NoFault
    /\ UNCHANGED <<row, sent>>

EnsureFails(p) ==
    /\ relay[p].step = "ensure"
    /\ Fault
    /\ RelayStep(p, "failed")
    /\ UNCHANGED <<row, sent, topicKnown>>

MarkPublished(p) ==
    /\ relay[p].step = "mark"
    /\ row' = [row EXCEPT ![relay[p].row].status = "published"]
    /\ relay' = [relay EXCEPT ![p] = Idle]
    /\ NoFault
    /\ UNCHANGED <<sent, topicKnown>>

\* Mutant: a failed attempt is taken for a published message.
AfterFailurePublished(rec) == [rec EXCEPT !.status = "published"]

\* Mutant: one attempt more than maxAttempts.
AfterFailureLater(rec) ==
    LET attempts == rec.attempts + 1
    IN  IF attempts > MaxTries
        THEN [rec EXCEPT !.attempts = attempts, !.status = "dead"]
        ELSE [rec EXCEPT !.attempts = attempts, !.due = FALSE]

\* markAttempt: later, or never again.
AfterFailure(rec) ==
    LET attempts == rec.attempts + 1
    IN  IF attempts >= MaxTries
        THEN [rec EXCEPT !.attempts = attempts, !.status = "dead"]
        ELSE [rec EXCEPT !.attempts = attempts, !.due = FALSE]

MarkAttempt(p) ==
    /\ relay[p].step = "failed"
    /\ row' = [row EXCEPT ![relay[p].row] = AfterFailure(@)]
    /\ relay' = [relay EXCEPT ![p] = Idle]
    /\ NoFault
    /\ UNCHANGED <<sent, topicKnown>>

\* A failing statement or commit, or a restart: the transaction is rolled back and
\* the row is as it was, whatever the broker has stored.
RelayRollsBack(p) ==
    /\ relay[p] # Idle
    /\ Fault
    /\ relay' = [relay EXCEPT ![p] = Idle]
    /\ UNCHANGED <<row, sent, topicKnown>>

\* next_attempt_at passes.
BackoffPasses(n) ==
    /\ ~row[n].due
    /\ row' = [row EXCEPT ![n].due = TRUE]
    /\ NoFault
    /\ UNCHANGED <<sent, relay, topicKnown>>

ProcessOne(p) ==
    \/ Claim(p)
    \/ PublishMessage(p)
    \/ PublishFindsNoTopic(p)
    \/ PublishRefused(p)
    \/ EnsureTopic(p)
    \/ MarkPublished(p)
    \/ MarkAttempt(p)

RelayFaults(p) == PublishFails(p) \/ EnsureFails(p) \/ RelayRollsBack(p)

OutboxNext ==
    \/ \E p \in Publishers : ProcessOne(p) \/ RelayFaults(p)
    \/ \E n \in OutboxRows : Enqueue(n) \/ BackoffPasses(n)

\* Failures elsewhere may use up the budget meanwhile.
OutboxSpec ==
    /\ OutboxInit
    /\ faults \in 0..MaxFaults
    /\ [][OutboxNext]_outboxVars

-----------------------------------------------------------------------------

\* No row is given up early: one marked published is with the broker, and one marked
\* dead has failed maxAttempts times, whichever publishers crashed or were refused
\* while they held it.
GivenUpLast ==
    \A n \in OutboxRows :
        /\ row[n].status = "published" => n \in sent
        /\ row[n].status = "dead" => row[n].attempts = MaxTries

\* At-least-once: every row a transaction has committed reaches the broker, or
\* exhausts its attempts and stays as "dead" - whatever the rows before it do.
OutboxDelivered ==
    \A n \in OutboxRows :
        row[n].status = "pending" ~> (n \in sent \/ row[n].status = "dead")
=============================================================================
