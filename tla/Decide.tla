------------------------------- MODULE Decide -------------------------------
(***************************************************************************)
(* POST /decide of the runtime: a request reads the snapshot in memory     *)
(* piece by piece - revision, flags, experiments - while other goroutines  *)
(* store a newer one, also piece by piece; what it misses it fetches from  *)
(* Redis itself.  The decision goes into a bounded channel, from which one *)
(* goroutine writes it to Kafka.                                           *)
(*                                                                         *)
(* A request asks for one flag.  A snapshot is its revision; Content tells *)
(* which flag and experiment it holds.                                     *)
(***************************************************************************)
EXTENDS KafkaTopics

CONSTANTS
    Callers,       \* requests; their identities are the decision ids
    Poll,          \* the goroutine of pollRevalidate or of the subscription
    MaxRevision,   \* bound: snapshots the panel writes
    Content,       \* the flag and the experiment of each revision
    SubjectOf,     \* the attributes in each request
    PositionOf,    \* bucketPos: xxhash of experiment, salt and subject
    Matches(_, _), \* targeting.Evaluate: an expression on the attributes of a subject
    ChannelCap,    \* the publisher's buffer
    NoExperiment   \* the flag has no active experiment

ASSUME DecideAssumption ==
    /\ Callers \subseteq Ids
    /\ Hashes # {}
    /\ Poll \notin Callers
    /\ MaxRevision \in Nat
    /\ ChannelCap \in Nat \ {0}
    /\ \A n \in 1..MaxRevision :
          Content[n].experiment = NoExperiment \/ Content[n].experiment.weights \in Seq(Nat)

VARIABLES
    redisRevision,  \* the snapshot in Redis
    memory,         \* the revision of each part of the reader; 0 is nil
    storing,        \* what each goroutine's Refresh is doing
    answer,         \* how far each request is, and what it has read
    channel,        \* DecisionPublisher.ch
    dropped,        \* decisions that were not written: full channel, failed
                    \* write, or a killed process
    overlapped,     \* two goroutines were storing snapshots at the same time
    serving         \* the runtime serves, drains its channel, or is stopped

decideVars == <<redisRevision, memory, storing, answer, channel, dropped,
                overlapped, serving>>

Goroutines == Callers \cup {Poll}
Revisions == 0..MaxRevision
Parts == {"flags", "exps", "rev"}
NoRefresh == [at |-> "idle", revision |-> 0]
NoAnswer == [at |-> "idle", rev |-> 0, flag |-> 0, exp |-> 0, variant |-> 0]
AnswerSteps == {"idle", "snapshot", "check", "flag", "experiment", "evaluate",
                "answered", "unavailable", "unknown", "gone"}
Finished == {"idle", "answered", "unavailable", "unknown", "gone"}

DecideTypeOK ==
    /\ redisRevision \in Revisions
    /\ memory \in [Parts -> Revisions]
    /\ storing \in [Goroutines -> [at : {"idle", "load", "compare", "failed"} \cup Parts,
                                   revision : Revisions]]
    /\ answer \in [Callers -> [at : AnswerSteps, rev : Revisions, flag : Revisions,
                               exp : Revisions, variant : Nat]]
    /\ channel \in Seq(Callers)
    /\ Len(channel) <= ChannelCap
    /\ dropped \subseteq Callers
    /\ overlapped \in BOOLEAN
    /\ serving \in {"serving", "draining", "stopped"}

\* The runtime has loaded a snapshot at its start, or has found none; the panel
\* may have written another one since.
DecideInit(loaded, written) ==
    /\ redisRevision = written
    /\ memory = [p \in Parts |-> loaded]
    /\ storing = [g \in Goroutines |-> NoRefresh]
    /\ answer = [r \in Callers |-> NoAnswer]
    /\ channel = <<>>
    /\ dropped = {}
    /\ overlapped = FALSE
    /\ serving = "serving"

FlagIn(revision) == revision # 0 /\ Content[revision].flag
ExperimentIn(revision) ==
    IF revision = 0 THEN NoExperiment ELSE Content[revision].experiment

-----------------------------------------------------------------------------
(* Reader.Refresh and store *)

\* The panel writes a snapshot.
SnapshotWritten ==
    /\ serving = "serving"
    /\ redisRevision < MaxRevision
    /\ redisRevision' = redisRevision + 1
    /\ NoFault
    /\ UNCHANGED <<log, offset, memory, storing, answer, channel, dropped, overlapped, serving>>

ReaderFrame == UNCHANGED <<log, offset, redisRevision, answer, channel, dropped, serving>>

StartPoll ==
    /\ serving = "serving"
    /\ storing[Poll].at = "idle"
    /\ redisRevision > memory["rev"]
    /\ storing' = [storing EXCEPT ![Poll].at = "load"]
    /\ NoFault
    /\ ReaderFrame
    /\ UNCHANGED <<memory, overlapped>>

LoadFromRedis(g) ==
    /\ storing[g].at = "load"
    /\ storing' = [storing EXCEPT ![g] =
                     [at |-> IF redisRevision = 0 THEN "failed" ELSE "compare",
                      revision |-> redisRevision]]
    /\ NoFault
    /\ ReaderFrame
    /\ UNCHANGED <<memory, overlapped>>

LoadFails(g) ==
    /\ storing[g].at = "load"
    /\ storing' = [storing EXCEPT ![g].at = IF g = Poll THEN "idle" ELSE "failed"]
    /\ Fault
    /\ ReaderFrame
    /\ UNCHANGED <<memory, overlapped>>

Storing == {g \in Goroutines : storing[g].at \in Parts}

\* newerRevision: only a later snapshot is stored.
CompareRevision(g) ==
    /\ storing[g].at = "compare"
    /\ \/ /\ storing[g].revision > memory["rev"]
          /\ storing' = [storing EXCEPT ![g].at = "flags"]
          /\ overlapped' = (overlapped \/ Storing # {})
       \/ /\ storing[g].revision <= memory["rev"]
          /\ storing' = [storing EXCEPT ![g].at = "idle"]
          /\ UNCHANGED overlapped
    /\ NoFault
    /\ ReaderFrame
    /\ UNCHANGED memory

\* Mutant: the revision is stored before the experiments.
NextPartRevisionEarly(part) ==
    CASE part = "flags" -> "rev"
      [] part = "rev" -> "exps"
      [] part = "exps" -> "idle"

\* The order in which store() replaces the parts.
NextPart(part) ==
    CASE part = "flags" -> "exps"
      [] part = "exps" -> "rev"
      [] part = "rev" -> "idle"

StorePart(g) ==
    /\ g \in Storing
    /\ memory' = [memory EXCEPT ![storing[g].at] = storing[g].revision]
    /\ storing' = [storing EXCEPT ![g].at = NextPart(@)]
    /\ NoFault
    /\ ReaderFrame
    /\ UNCHANGED overlapped

RefreshStep(g) ==
    LoadFromRedis(g) \/ LoadFails(g) \/ CompareRevision(g) \/ StorePart(g)

-----------------------------------------------------------------------------
(* Service.Decide *)

RequestFrame == UNCHANGED <<log, offset, redisRevision, memory, overlapped, serving>>

\* A request that is not inside a Refresh of its own.
Ready(r, step) ==
    /\ answer[r].at = step
    /\ storing[r].at \in {"idle", "failed"}

\* What is found in memory goes on; what is missing is looked up once more
\* after a Refresh, which has left its revision or failed.
Refreshed(r) == storing[r].at = "failed" \/ storing[r].revision # 0

\* After a failed Refresh FindFlag and FindExperiment do not look again.
Seen(r, present) == present /\ storing[r].at # "failed"

Refresh(r) == storing' = [storing EXCEPT ![r] = [at |-> "load", revision |-> 0]]

MoveOn(r, fields) ==
    /\ answer' = [answer EXCEPT ![r] = fields]
    /\ storing' = [storing EXCEPT ![r] = NoRefresh]

Receive(r) ==
    /\ serving = "serving"
    /\ Ready(r, "idle")
    /\ MoveOn(r, [NoAnswer EXCEPT !.at = "snapshot"])
    /\ NoFault
    /\ RequestFrame
    /\ UNCHANGED <<channel, dropped>>

GetSnapshot(r) ==
    /\ Ready(r, "snapshot")
    /\ \/ /\ memory["flags"] # 0
          /\ MoveOn(r, [answer[r] EXCEPT !.at = "check", !.rev = memory["rev"]])
       \/ /\ memory["flags"] = 0
          /\ ~ Refreshed(r)
          /\ Refresh(r)
          /\ UNCHANGED answer
       \/ /\ memory["flags"] = 0
          /\ Refreshed(r)
          /\ MoveOn(r, [answer[r] EXCEPT !.at = "unavailable"])
    /\ NoFault
    /\ RequestFrame
    /\ UNCHANGED <<channel, dropped>>

\* The flags are looked up twice: all of them first, then one by one for the
\* decision.  A flag gone in between is answered without a decision id.
FindFlag(r) ==
    /\ answer[r].at \in {"check", "flag"}
    /\ Ready(r, answer[r].at)
    /\ \/ /\ Seen(r, FlagIn(memory["flags"]))
          /\ MoveOn(r, IF answer[r].at = "check"
                       THEN [answer[r] EXCEPT !.at = "flag"]
                       ELSE [answer[r] EXCEPT !.at = "experiment", !.flag = memory["flags"]])
       \/ /\ ~ Seen(r, FlagIn(memory["flags"]))
          /\ ~ Refreshed(r)
          /\ Refresh(r)
          /\ UNCHANGED answer
       \/ /\ ~ Seen(r, FlagIn(memory["flags"]))
          /\ Refreshed(r)
          /\ MoveOn(r, [answer[r] EXCEPT !.at = IF @ = "check" THEN "unknown" ELSE "gone"])
    /\ NoFault
    /\ RequestFrame
    /\ UNCHANGED <<channel, dropped>>

FindExperiment(r) ==
    /\ Ready(r, "experiment")
    /\ LET found == Seen(r, ExperimentIn(memory["exps"]) # NoExperiment)
       IN IF found \/ Refreshed(r)
          THEN MoveOn(r, [answer[r] EXCEPT !.at = "evaluate",
                                           !.exp = IF found THEN memory["exps"] ELSE 0])
          ELSE Refresh(r) /\ UNCHANGED answer
    /\ NoFault
    /\ RequestFrame
    /\ UNCHANGED <<channel, dropped>>

\* The first variant whose cumulated weight exceeds the position; 0 outside of
\* the allocation.
SelectVariant(exp, pos) ==
    LET Cumulated(k) == FoldSeq(+, 0, SubSeq(exp.weights, 1, k))
        matching == {k \in 1..Len(exp.weights) : pos < Cumulated(k)}
    IN IF pos >= exp.allocation \/ matching = {} THEN 0
       ELSE CHOOSE k \in matching : \A j \in matching : k <= j

VariantFor(r) ==
    LET exp == ExperimentIn(answer[r].exp)
    IN IF exp # NoExperiment /\ Matches(exp.targeting, SubjectOf[r])
       THEN SelectVariant(exp, PositionOf[r]) ELSE 0

\* decideFlag ends and Publish offers the decision to the channel, without
\* waiting when it is full.
Evaluate(r) ==
    /\ Ready(r, "evaluate")
    /\ MoveOn(r, [answer[r] EXCEPT !.at = "answered", !.variant = VariantFor(r)])
    /\ \/ /\ Len(channel) < ChannelCap
          /\ channel' = Append(channel, r)
          /\ UNCHANGED dropped
       \/ /\ Len(channel) = ChannelCap
          /\ dropped' = dropped \cup {r}
          /\ UNCHANGED channel
    /\ NoFault
    /\ RequestFrame

-----------------------------------------------------------------------------
(* DecisionPublisher.run, and the end of the process *)

PublisherFrame ==
    UNCHANGED <<offset, redisRevision, memory, storing, answer, overlapped, serving>>

Record(r) == [id |-> r, hash |-> CHOOSE h \in Hashes : TRUE]

WriteDecision ==
    /\ channel # <<>>
    /\ Write("decisions", <<Record(Head(channel))>>)
    /\ channel' = Tail(channel)
    /\ NoFault
    /\ PublisherFrame
    /\ UNCHANGED dropped

WriteDecisionFails ==
    /\ channel # <<>>
    /\ WriteFails("decisions", <<Record(Head(channel))>>)
    /\ channel' = Tail(channel)
    /\ dropped' = dropped \cup {Head(channel)}
    /\ Fault
    /\ PublisherFrame

\* main: the server has shut down - no request is being handled - and Stop
\* closes the channel and waits for run.
ShutdownServer ==
    /\ serving = "serving"
    /\ \A r \in Callers : answer[r].at \in Finished
    /\ \A g \in Goroutines : storing[g].at \in {"idle", "failed"}
    /\ serving' = "draining"
    /\ NoFault
    /\ UNCHANGED <<log, offset, redisRevision, memory, storing, answer, channel, dropped, overlapped>>

\* Mutant: Stop does not wait for run.
StopReturnsAtOnce ==
    /\ serving = "draining"
    /\ serving' = "stopped"
    /\ NoFault
    /\ UNCHANGED <<log, offset, redisRevision, memory, storing, answer, channel, dropped, overlapped>>

StopReturns ==
    /\ serving = "draining"
    /\ channel = <<>>
    /\ serving' = "stopped"
    /\ NoFault
    /\ UNCHANGED <<log, offset, redisRevision, memory, storing, answer, channel, dropped, overlapped>>

DecideStep(r) ==
    \/ Receive(r)
    \/ GetSnapshot(r)
    \/ FindFlag(r)
    \/ FindExperiment(r)
    \/ Evaluate(r)

DecideNext ==
    \/ SnapshotWritten
    \/ StartPoll
    \/ \E g \in Goroutines : RefreshStep(g)
    \/ \E r \in Callers : DecideStep(r)
    \/ WriteDecision
    \/ WriteDecisionFails
    \/ ShutdownServer
    \/ StopReturns

\* Meanwhile the analytics service and other runtimes write to the topics,
\* consumer groups commit, and calls of theirs fail.
OthersWrite ==
    /\ \A t \in Topics : \E msgs \in Seq(Messages) : log'[t] = log[t] \o msgs
    /\ log' \in [Topics -> Seq(Messages)]
    /\ offset' \in [Readers -> Nat]
    /\ faults' \in 0..MaxFaults
    /\ UNCHANGED decideVars

\* The runtime starts with the snapshot it finds in Redis, or without one.
DecideSpec ==
    /\ log \in [Topics -> Seq(Messages)]
    /\ offset \in [Readers -> Nat]
    /\ faults \in 0..MaxFaults
    /\ \E written \in Revisions : \E loaded \in 0..written : DecideInit(loaded, written)
    /\ [][DecideNext \/ OthersWrite]_<<topicVars, decideVars>>

-----------------------------------------------------------------------------
(* Properties *)

\* The config_revision of an answer is a lower bound of what it was decided
\* on: flag and experiment may be of a later snapshot, never of an earlier one,
\* as long as two goroutines did not store at the same time.
RevisionIsLowerBound ==
    \A r \in Callers :
        (answer[r].at = "answered" /\ ~ overlapped) =>
            /\ answer[r].flag >= answer[r].rev
            /\ answer[r].exp # 0 => answer[r].exp >= answer[r].rev

\* After an orderly stop the decision of every answer is in Kafka, or on
\* record as dropped: the channel is drained before the process ends.
DecisionsWritten ==
    serving = "stopped" =>
        \A r \in Callers :
            answer[r].at = "answered" => r \in IdsIn(log["decisions"]) \cup dropped
=============================================================================
