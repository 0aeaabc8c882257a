-------------------------- MODULE ClickHouseIngest --------------------------
(***************************************************************************)
(* The consumers that store events, exposures and decisions in ClickHouse, *)
(* and the one batch writer they share.  A consumer appends rows to the    *)
(* buffer of its kind; a flush of any of them sends the buffers of every   *)
(* kind, one after the other: the buffer is taken under the mutex, sent    *)
(* without it, and put back in front when that failed.  After its flush a  *)
(* consumer commits the offsets of all rows it has appended.               *)
(*                                                                         *)
(* Rows are event identities; the tables collapse rows with the same one.  *)
(* The fourth buffer takes the rows of the attribution, which no consumer  *)
(* here has appended.                                                      *)
(***************************************************************************)
EXTENDS KafkaTopics, FiniteSets

CONSTANTS
    Ingesters,    \* which of the three consumers run
    BatchSize,    \* rows of all kinds that make the writer full
    Poison,       \* ids whose envelope append() cannot decode
    Rows          \* what the buffers hold: ids, and the attribution's rows

ASSUME IngestAssumption ==
    /\ Ingesters \subseteq {"ch_events", "ch_exposures", "ch_decisions"}
    /\ BatchSize \in Nat \ {0}
    /\ Ids \subseteq Rows

VARIABLES
    buffer,       \* the rows of each kind that wait for a flush
    flush,        \* how far each consumer's flush has come, and what it sends
    cursor,       \* the messages each consumer has taken since it started
    uncommitted,  \* positions of the rows it has appended and not committed
    stored,       \* the rows ClickHouse holds
    taken,        \* rows that a flush of another consumer took from the buffer
    passed        \* rows whose offset the commit of a later poison message covered

ingestVars == <<buffer, flush, cursor, uncommitted, stored, taken, passed>>

\* The order in which Flush sends the buffers.
Kinds == <<"event", "exposure", "decision", "attributed">>
KindSet == ToSet(Kinds)

KindOf(c) ==
    CASE c = "ch_events" -> "event"
      [] c = "ch_exposures" -> "exposure"
      [] c = "ch_decisions" -> "decision"

NoFlush == [kind |-> 0, rows |-> <<>>]

IngestTypeOK ==
    /\ buffer \in [KindSet -> Seq(Rows)]
    /\ flush \in [Ingesters -> [kind : 0..Len(Kinds) + 1, rows : Seq(Rows)]]
    /\ cursor \in [Ingesters -> Nat]
    /\ uncommitted \in [Ingesters -> SUBSET Nat]
    /\ stored \in [KindSet -> SUBSET Rows]
    /\ taken \subseteq Rows
    /\ passed \subseteq Rows

IngestInit ==
    /\ buffer = [k \in KindSet |-> <<>>]
    /\ flush = [c \in Ingesters |-> NoFlush]
    /\ cursor = [c \in Ingesters |-> offset[c]]
    /\ uncommitted = [c \in Ingesters |-> {}]
    /\ stored = [k \in KindSet |-> {}]
    /\ taken = {}
    /\ passed = {}

-----------------------------------------------------------------------------
(* Writer *)

Pending == Len(buffer["event"]) + Len(buffer["exposure"])
             + Len(buffer["decision"]) + Len(buffer["attributed"])

Full == Pending >= BatchSize

AppendRow(kind, row) == buffer' = [buffer EXCEPT ![kind] = Append(@, row)]

Flushing(c) == flush[c].kind # 0
Sending(c) == flush[c].rows # <<>>
FlushKind(c) == Kinds[flush[c].kind]

\* The next buffer is swapped out under the mutex; an empty one is skipped.
TakeBuffer(c) ==
    /\ flush[c].kind \in 1..Len(Kinds)
    /\ ~ Sending(c)
    /\ LET k == FlushKind(c)
       IN /\ buffer' = [buffer EXCEPT ![k] = <<>>]
          /\ flush' = [flush EXCEPT ![c] =
                         IF buffer[k] = <<>> THEN [kind |-> @.kind + 1, rows |-> <<>>]
                                             ELSE [kind |-> @.kind, rows |-> buffer[k]]]
          /\ taken' = IF k = KindOf(c) THEN taken ELSE taken \cup ToSet(buffer[k])
    /\ NoFault
    /\ UNCHANGED <<log, offset, cursor, uncommitted, stored, passed>>

SendRows(c) ==
    /\ flush[c].kind \in 1..Len(Kinds)
    /\ Sending(c)
    /\ stored' = [stored EXCEPT ![FlushKind(c)] = @ \cup ToSet(flush[c].rows)]
    /\ flush' = [flush EXCEPT ![c] = [kind |-> @.kind + 1, rows |-> <<>>]]
    /\ NoFault
    /\ UNCHANGED <<log, offset, buffer, cursor, uncommitted, taken, passed>>

\* Mutant: the rows are not put back.
SendRowsFailsForgets(c) ==
    /\ flush[c].kind \in 1..Len(Kinds)
    /\ Sending(c)
    /\ stored' \in {stored, [stored EXCEPT ![FlushKind(c)] = @ \cup ToSet(flush[c].rows)]}
    /\ flush' = [flush EXCEPT ![c] = [kind |-> 1, rows |-> <<>>]]
    /\ Fault
    /\ UNCHANGED <<log, offset, buffer, cursor, uncommitted, taken, passed>>

\* The batch fails, or its answer is lost: the rows go back to the front and
\* the consumer starts its flush again after retryInterval.
SendRowsFails(c) ==
    /\ flush[c].kind \in 1..Len(Kinds)
    /\ Sending(c)
    /\ LET k == FlushKind(c)
       IN /\ stored' \in {stored, [stored EXCEPT ![k] = @ \cup ToSet(flush[c].rows)]}
          /\ buffer' = [buffer EXCEPT ![k] = flush[c].rows \o @]
    /\ flush' = [flush EXCEPT ![c] = [kind |-> 1, rows |-> <<>>]]
    /\ Fault
    /\ UNCHANGED <<log, offset, cursor, uncommitted, taken, passed>>

-----------------------------------------------------------------------------
(* TopicConsumer.Run *)

LastUncommitted(c) == CHOOSE n \in uncommitted[c] : \A m \in uncommitted[c] : m <= n

\* All buffers are sent: commit() of everything this consumer has appended.
CommitRows(c) ==
    /\ flush[c].kind = Len(Kinds) + 1
    /\ offset' = IF uncommitted[c] = {} THEN offset
                                         ELSE [offset EXCEPT ![c] = LastUncommitted(c)]
    /\ uncommitted' = [uncommitted EXCEPT ![c] = {}]
    /\ flush' = [flush EXCEPT ![c] = NoFlush]
    /\ NoFault
    /\ UNCHANGED <<log, buffer, cursor, stored, taken, passed>>

\* A failed commit is logged; the messages stay uncommitted until the next one.
CommitRowsFails(c) ==
    /\ flush[c].kind = Len(Kinds) + 1
    /\ uncommitted[c] # {}
    /\ flush' = [flush EXCEPT ![c] = NoFlush]
    /\ Fault
    /\ UNCHANGED <<log, offset, buffer, cursor, uncommitted, stored, taken, passed>>

StartFlush(c) == flush' = [flush EXCEPT ![c] = [kind |-> 1, rows |-> <<>>]]

\* The ticker, when any kind has rows.
Tick(c) ==
    /\ ~ Flushing(c)
    /\ Pending > 0
    /\ StartFlush(c)
    /\ NoFault
    /\ UNCHANGED <<log, offset, buffer, cursor, uncommitted, stored, taken, passed>>

Position(c) == cursor[c] + 1
NextMessage(c) == log[SourceOf(c)][Position(c)]

\* A message that append() accepts becomes a row; Full starts a flush at once.
TakeMessage(c) ==
    /\ ~ Flushing(c)
    /\ cursor[c] < Len(log[SourceOf(c)])
    /\ NextMessage(c).id \notin Poison
    /\ AppendRow(KindOf(c), NextMessage(c).id)
    /\ cursor' = [cursor EXCEPT ![c] = @ + 1]
    /\ uncommitted' = [uncommitted EXCEPT ![c] = @ \cup {Position(c)}]
    /\ IF Full' THEN StartFlush(c) ELSE UNCHANGED flush
    /\ NoFault
    /\ UNCHANGED <<log, offset, stored, taken, passed>>

RowsUpTo(c, n) ==
    {log[SourceOf(c)][k].id : k \in 1..n} \ Poison

\* A poison message is committed by itself: in Kafka that commits everything
\* before it, the rows that wait in the buffer included.
TakePoison(c) ==
    /\ ~ Flushing(c)
    /\ cursor[c] < Len(log[SourceOf(c)])
    /\ NextMessage(c).id \in Poison
    /\ cursor' = [cursor EXCEPT ![c] = @ + 1]
    /\ \/ /\ offset' = [offset EXCEPT ![c] = Position(c)]
          /\ passed' = passed \cup {log[SourceOf(c)][k].id : k \in uncommitted[c]}
          /\ NoFault
       \/ /\ Fault
          /\ UNCHANGED <<offset, passed>>
    /\ UNCHANGED <<log, buffer, flush, uncommitted, stored, taken>>

\* The process dies and comes back: what was in memory is read again, from
\* the committed offset on.
IngestersDie ==
    /\ buffer' = [k \in KindSet |-> <<>>]
    /\ flush' = [c \in Ingesters |-> NoFlush]
    /\ cursor' = [c \in Ingesters |-> offset[c]]
    /\ uncommitted' = [c \in Ingesters |-> {}]
    /\ UNCHANGED <<taken, passed>>

IngestCrash ==
    /\ IngestersDie
    /\ Fault
    /\ UNCHANGED <<log, offset, stored>>

InFlight(k) ==
    UNION {ToSet(flush[c].rows) : c \in {d \in Ingesters : Sending(d) /\ FlushKind(d) = k}}

\* A shutdown cancels the flushes, waits for the consumers and flushes once
\* more: a prefix of the kinds is stored, then the rest is gone.
Shutdown ==
    /\ \E n \in 0..Len(Kinds) :
         stored' = [k \in KindSet |->
                      IF k \in {Kinds[i] : i \in 1..n}
                      THEN stored[k] \cup ToSet(buffer[k]) \cup InFlight(k)
                      ELSE stored[k]]
    /\ IngestersDie
    /\ Fault
    /\ UNCHANGED <<log, offset>>

IngestStep(c) ==
    \/ TakeMessage(c)
    \/ TakePoison(c)
    \/ Tick(c)
    \/ TakeBuffer(c)
    \/ SendRows(c)
    \/ SendRowsFails(c)
    \/ CommitRows(c)
    \/ CommitRowsFails(c)

IngestNext ==
    \/ \E c \in Ingesters : IngestStep(c)
    \/ IngestCrash
    \/ Shutdown

\* Consumers take messages, tick, send and commit as long as they run.
IngestProgress(c) ==
    TakeMessage(c) \/ TakePoison(c) \/ Tick(c) \/ TakeBuffer(c) \/ SendRows(c)
      \/ CommitRows(c)

\* Meanwhile messages arrive in the topics, the other groups commit, and the
\* attribution appends rows of its own kind.
Arrivals ==
    /\ \A t \in Topics : \E msgs \in Seq(Messages) : log'[t] = log[t] \o msgs
    /\ log' \in [Topics -> Seq(Messages)]
    /\ offset' \in [Readers -> Nat]
    /\ \A c \in Ingesters : offset'[c] = offset[c]
    /\ \E rows \in Seq(Rows) : buffer' = [buffer EXCEPT !["attributed"] = @ \o rows]
    /\ UNCHANGED <<flush, cursor, uncommitted, stored, taken, passed>>

IngestSpec ==
    /\ log \in [Topics -> Seq(Messages)]
    /\ offset = [c \in Readers |-> 0]
    /\ faults \in 0..MaxFaults
    /\ IngestInit
    /\ [][IngestNext \/ Arrivals]_<<topicVars, ingestVars>>

-----------------------------------------------------------------------------
(* Properties *)

\* No row of the three consumers is lost.  What a consumer has taken and not
\* committed is in a buffer, in a flush or in ClickHouse, however flushes of
\* different consumers fail and overlap; what it has committed is in
\* ClickHouse.  The shared writer and the commits of poison messages are the
\* only ways around: a row that another consumer's flush has taken, or that a
\* poison message has passed, may be committed and then lost with the process.
RowsKept ==
    \A c \in Ingesters :
        LET k == KindOf(c)
        IN /\ RowsUpTo(c, offset[c]) \subseteq stored[k] \cup taken \cup passed
           /\ RowsUpTo(c, cursor[c]) \ RowsUpTo(c, offset[c])
                \subseteq stored[k] \cup ToSet(buffer[k]) \cup InFlight(k)
=============================================================================
