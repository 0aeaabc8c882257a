--------------------------- MODULE PipelineProofs ---------------------------
(***************************************************************************)
(* The services around Kafka together: every behaviour of the pipeline is  *)
(* a behaviour of each component, seen alone with its environment.         *)
(*                                                                         *)
(* The theorems about a component assume of its environment only that it   *)
(* writes to other topics, moves other offsets and runs other workers.     *)
(* Effect says what a step of the pipeline does to these; that the other   *)
(* components stay inside that assumption is proved here, with their own   *)
(* types, and the safety properties of all components carry over.          *)
(***************************************************************************)
EXTENDS AnalyticsPipeline, EventDedupProofs, AnalyticsProofs, AttributionProofs

-----------------------------------------------------------------------------
(* What a component sees of a step                                         *)

IntakeView == [IntakeNext \/ Downstream]_<<topicVars, intakeVars>>
DedupView == [DedupNext \/ Elsewhere]_<<topicVars, consumerVars, dedupVars>>
IngestView == [IngestNext \/ Arrivals]_<<topicVars, ingestVars>>
DecideView == [DecideNext \/ OthersWrite]_<<topicVars, decideVars>>
AttributionView ==
    [\/ AttributionNext
     \/ AttributionLoop
     \/ AttributionCrash
     \/ Surroundings]_<<topicVars, consumerVars, ingestVars, attributionVars>>

\* The attribution relies on what the intake and the deduplication write.
Views ==
    /\ IntakeView /\ DedupView /\ IngestView /\ DecideView
    /\ TopicsFed' => AttributionView

\* A step that writes to the topics in T, moves the offsets of the groups in G
\* and touches the workers in W.
Effect(T, G, W) ==
    /\ log' \in [Topics -> Seq(Messages)]
    /\ \A t \in Topics : \E msgs \in Seq(Messages) : log'[t] = log[t] \o msgs
    /\ \A t \in Topics \ T : log'[t] = log[t]
    /\ offset' \in [Readers -> Nat]
    /\ \A c \in Readers \ G : offset'[c] = offset[c]
    /\ work' \in [Workers -> Jobs \cup {NoWork}]
    /\ \A w \in Workers \ W : work'[w] = work[w]
    /\ lost \subseteq lost' /\ lost' \subseteq (Roles \X Ids)
    /\ FaultsTypeOK'

\* The attribution appends rows of its own kind.
RowsAppended == \E rows \in Seq(Rows) : buffer' = [buffer EXCEPT !["attributed"] = @ \o rows]

KeysTyped ==
    /\ conversionKeys \in [DecisionIds -> Ids \cup {NoConversion}]
    /\ sweep \in SweepStates

\* The types of all components, with what the types of the intake and of the
\* writer rest on.
PipelineInv ==
    /\ IntakeInv
    /\ IngestInv
    /\ DecideTypes
    /\ work \in [Workers -> Jobs \cup {NoWork}]
    /\ lost \subseteq (Roles \X Ids)
    /\ KeysTyped

LEMMA PipelineFacts ==
    ASSUME PipelineInv
    PROVE  /\ log \in [Topics -> Seq(Messages)]
           /\ offset \in [Readers -> Nat]
           /\ faults \in 0..MaxFaults
           /\ ShapeOK
           /\ buffer \in [KindSet -> Seq(Rows)]
  BY DEF PipelineInv, DecideTypes, TopicsTypeOK, FaultsTypeOK, ShapeOK, IngestInv,
         IngestTypes, IngestTypeOK

\* Views that keep the types of what they share keep the invariant.
LEMMA ViewsKeep ==
    ASSUME PipelineInv, IntakeView, IngestView, DecideView,
           work' \in [Workers -> Jobs \cup {NoWork}], lost' \subseteq (Roles \X Ids), KeysTyped'
    PROVE  PipelineInv'
  BY IntakeInvStep, IngestInvStep, DecideTypesStep
     DEF PipelineInv, IntakeView, IngestView, DecideView

-----------------------------------------------------------------------------
(* A step from the outside                                                 *)

LEMMA OutsideIntake ==
    ASSUME NEW T, NEW G, NEW W, Effect(T, G, W), T \cap Endpoints = {}, UNCHANGED intakeVars
    PROVE  IntakeView
  BY DEF Effect, IntakeView, Downstream, Endpoints, Topics

LEMMA OutsideDedup ==
    ASSUME NEW T, NEW G, NEW W, Effect(T, G, W), T \cap {"validated", "deduped"} = {},
           G \cap {"validator", "dedup"} = {}, W \cap (Validators \cup Dedupers) = {},
           UNCHANGED dedupVars
    PROVE  DedupView
  BY DEF Effect, DedupView, Elsewhere, Topics, Readers, Validators, Dedupers

LEMMA OutsideIngest ==
    ASSUME NEW T, NEW G, NEW W, Effect(T, G, W), G \cap Ingesters = {}, RowsAppended,
           UNCHANGED <<flush, cursor, uncommitted, stored, taken, passed>>
    PROVE  IngestView
  BY KindFacts DEF Effect, IngestView, Arrivals, RowsAppended

LEMMA OutsideDecide ==
    ASSUME NEW T, NEW G, NEW W, Effect(T, G, W), UNCHANGED decideVars
    PROVE  DecideView
  BY DEF Effect, DecideView, OthersWrite, FaultsTypeOK

LEMMA OutsideAttribution ==
    ASSUME NEW T, NEW G, NEW W, Effect(T, G, W), G \cap {"registry", "attributor"} = {},
           W \cap (Registries \cup Attributors) = {}, UNCHANGED attributionVars
    PROVE  TopicsFed' => AttributionView
  BY DEF Effect, AttributionView, Surroundings, Readers, Registries, Attributors

-----------------------------------------------------------------------------
(* Effects                                                                 *)

LEMMA NoRows ==
    ASSUME buffer \in [KindSet -> Seq(Rows)], UNCHANGED buffer
    PROVE  RowsAppended
  <1>1. buffer["attributed"] \in Seq(Rows)
    BY KindFacts
  <1>2. buffer["attributed"] \o <<>> = buffer["attributed"] /\ <<>> \in Seq(Rows)
    BY <1>1, ConcatEmptySeq
  <1>3. buffer' = [buffer EXCEPT !["attributed"] = @ \o <<>>]
    BY <1>2
  <1>4. QED
    BY <1>2, <1>3 DEF RowsAppended

LEMMA FaultTypes ==
    ASSUME faults \in 0..MaxFaults, NoFault \/ Fault
    PROVE  FaultsTypeOK'
  BY FaultAssumption DEF FaultsTypeOK, NoFault, Fault

\* The requests of the intake.
LEMMA RequestEffect ==
    ASSUME PipelineInv, NEW r \in Requests, RequestStep(r)
    PROVE  /\ Appended
           /\ \A t \in Topics \ Endpoints : log'[t] = log[t]
           /\ offset' = offset
           /\ NoFault \/ Fault
  <1>1. log \in [Topics -> Seq(Messages)] /\ IntakeShape
    BY PipelineFacts DEF PipelineInv, IntakeInv
  <1>2. request[r].topic \in Endpoints /\ call[r].claimed \in Seq(Messages)
    BY <1>1, CallTypes
  <1>3. CASE UNCHANGED log
    <2>1. offset' = offset /\ (NoFault \/ Fault)
      BY DEF RequestStep, Begin, Check, InsertKey, FindKey, ReplaceKey, StorageFails, Publish,
             PublishFails, Release, ReleaseFails
    <2>2. QED
      BY <1>1, <1>3, <2>1, LogUnchanged
  <1>4. CASE Publish(r)
    BY <1>1, <1>2, <1>4, LogWritten DEF Publish
  <1>5. CASE PublishFails(r)
    <2>1. PICK n \in 0..Len(call[r].claimed) :
              Write(request[r].topic, SubSeq(call[r].claimed, 1, n))
      BY <1>5 DEF PublishFails
    <2>2. SubSeq(call[r].claimed, 1, n) \in Seq(Messages)
      <3>1. n \in Int /\ \A i \in 1..n : call[r].claimed[i] \in Messages
        BY <1>2
      <3>2. QED
        BY <3>1, SubSeqProperties
    <2>3. QED
      BY <1>1, <1>2, <1>5, <2>1, <2>2, LogWritten DEF PublishFails
  <1>6. QED
    BY <1>3, <1>4, <1>5 DEF RequestStep, Begin, Check, InsertKey, FindKey, ReplaceKey,
       StorageFails, Release, ReleaseFails

LEMMA IntakeActsViews ==
    ASSUME PipelineInv, IntakeActs
    PROVE  Views /\ PipelineInv'
  <1>1. /\ Appended /\ \A t \in Topics \ Endpoints : log'[t] = log[t]
        /\ offset' = offset /\ (NoFault \/ Fault)
    <2>1. ASSUME NEW i \in Ids, ExpireKey(i)
          PROVE  log' = log /\ offset' = offset /\ Fault
      BY <2>1 DEF ExpireKey
    <2>2. QED
      BY <2>1, RequestEffect, PipelineFacts, LogUnchanged DEF IntakeActs
  <1>2. UNCHANGED <<consumerVars, dedupVars, ingestVars, attributionVars, decideVars>>
    BY DEF IntakeActs
  <1>3. Effect(Endpoints, {}, {})
    BY <1>1, <1>2, PipelineFacts, FaultTypes DEF Effect, Appended, consumerVars, PipelineInv
  <1>4. IntakeView
    BY DEF IntakeActs, IntakeView, IntakeNext
  <1>5. DedupView
    BY <1>2, <1>3, OutsideDedup DEF Endpoints
  <1>6. IngestView
    BY <1>2, <1>3, NoRows, PipelineFacts, OutsideIngest DEF ingestVars
  <1>7. DecideView
    BY <1>2, <1>3, OutsideDecide
  <1>8. TopicsFed' => AttributionView
    BY <1>2, <1>3, OutsideAttribution
  <1>9. KeysTyped'
    BY <1>2 DEF attributionVars, KeysTyped, PipelineInv
  <1>10. QED
    BY <1>2, <1>3, <1>4, <1>5, <1>6, <1>7, <1>8, <1>9, ViewsKeep DEF Views, Effect

\* The runtime writes decisions.
LEMMA RuntimeEffect ==
    ASSUME PipelineInv, RuntimeActs
    PROVE  Effect({"decisions"}, {}, {})
  <1>1. DecideNext /\ DecideTypes
    BY DEF RuntimeActs, PipelineInv
  <1>2. DecideTypes'
    BY <1>1, DecideTypesStep
  <1>3. /\ Appended /\ \A t \in Topics \ {"decisions"} : log'[t] = log[t]
    <2>1. ASSUME channel # <<>>
          PROVE  <<Record(Head(channel))>> \in Seq(Messages)
      <3>1. Head(channel) \in Callers
        BY <1>1, <2>1 DEF DecideTypes, DecideTypeOK
      <3>2. QED
        BY <3>1, RecordType
    <2>2. CASE WriteDecision
      BY <2>1, <2>2, LogWritten, PipelineFacts DEF WriteDecision
    <2>3. CASE WriteDecisionFails
      BY <2>1, <2>3, LogTried, PipelineFacts DEF WriteDecisionFails
    <2>4. CASE UNCHANGED log
      BY <2>4, LogUnchanged, PipelineFacts
    <2>5. QED
      BY <1>1, <2>2, <2>3, <2>4 DEF DecideNext, SnapshotWritten, StartPoll, RefreshStep,
         LoadFromRedis, LoadFails, CompareRevision, StorePart, DecideStep, Receive, GetSnapshot,
         FindFlag, FindExperiment, Evaluate, ShutdownServer, StopReturns, ReaderFrame,
         RequestFrame, PublisherFrame
  <1>4. offset' = offset
    BY <1>1 DEF DecideNext, SnapshotWritten, StartPoll, RefreshStep, LoadFromRedis, LoadFails,
       CompareRevision, StorePart, DecideStep, Receive, GetSnapshot, FindFlag, FindExperiment,
       Evaluate, WriteDecision, WriteDecisionFails, ShutdownServer, StopReturns, ReaderFrame,
       RequestFrame, PublisherFrame
  <1>5. UNCHANGED consumerVars
    BY DEF RuntimeActs
  <1>6. QED
    BY <1>2, <1>3, <1>4, <1>5, PipelineFacts
       DEF Effect, Appended, consumerVars, PipelineInv, DecideTypes, TopicsTypeOK

LEMMA RuntimeActsViews ==
    ASSUME PipelineInv, RuntimeActs
    PROVE  Views /\ PipelineInv'
  <1>1. DecideNext /\ DecideTypes
    BY DEF RuntimeActs, PipelineInv
  <1>2. DecideView /\ DecideTypes'
    BY <1>1, DecideTypesStep DEF DecideView
  <1>5. UNCHANGED <<intakeVars, consumerVars, dedupVars, ingestVars, attributionVars>>
    BY DEF RuntimeActs
  <1>6. Effect({"decisions"}, {}, {})
    BY RuntimeEffect
  <1>7. IntakeView
    BY <1>5, <1>6, OutsideIntake DEF Endpoints
  <1>8. DedupView
    BY <1>5, <1>6, OutsideDedup
  <1>9. IngestView
    BY <1>5, <1>6, NoRows, PipelineFacts, OutsideIngest DEF ingestVars
  <1>10. TopicsFed' => AttributionView
    BY <1>5, <1>6, OutsideAttribution
  <1>11. KeysTyped'
    BY <1>5 DEF attributionVars, KeysTyped, PipelineInv
  <1>12. QED
    BY <1>2, <1>6, <1>7, <1>8, <1>9, <1>10, <1>11, ViewsKeep DEF Views, Effect

\* A consumer of the writer: it moves the offset of its own group.
LEMMA IngestActsViews ==
    ASSUME PipelineInv, NEW c \in Ingesters, IngestActs(c)
    PROVE  Views /\ PipelineInv'
  <1>1. UNCHANGED <<intakeVars, consumerVars, dedupVars, attributionVars, decideVars>>
    BY DEF IngestActs
  <1>2. IngestView /\ IngestInv'
    BY IngestInvStep DEF IngestActs, IngestView, IngestNext, PipelineInv
  <1>3. log' = log /\ (NoFault \/ Fault)
    BY DEF IngestActs, IngestStep, TakeMessage, TakePoison, Tick, TakeBuffer, SendRows,
       SendRowsFails, CommitRows, CommitRowsFails
  <1>4. \A d \in Readers \ {c} : offset'[d] = offset[d]
    BY PipelineFacts DEF IngestActs, IngestStep, TakeMessage, TakePoison, Tick, TakeBuffer,
       SendRows, SendRowsFails, CommitRows, CommitRowsFails
  <1>5. offset' \in [Readers -> Nat]
    BY <1>2 DEF IngestInv, IngestTypes
  <1>6. Effect({}, {c}, {})
    BY <1>1, <1>3, <1>4, <1>5, PipelineFacts, LogUnchanged, FaultTypes
       DEF Effect, Appended, consumerVars, PipelineInv
  <1>7. c \notin {"validator", "dedup", "registry", "attributor"}
    BY IngestAssumption
  <1>8. IntakeView
    BY <1>1, <1>6, OutsideIntake
  <1>9. DedupView
    BY <1>1, <1>6, <1>7, OutsideDedup
  <1>10. DecideView
    BY <1>1, <1>6, OutsideDecide
  <1>11. TopicsFed' => AttributionView
    BY <1>1, <1>6, <1>7, OutsideAttribution
  <1>12. KeysTyped'
    BY <1>1 DEF attributionVars, KeysTyped, PipelineInv
  <1>13. QED
    BY <1>1, <1>2, <1>6, <1>8, <1>9, <1>10, <1>11, <1>12, ViewsKeep DEF Views, Effect

-----------------------------------------------------------------------------
(* The consumer loops                                                      *)

\* How a handler or the loop leaves its worker.
LEMMA JobShape ==
    ASSUME ShapeOK, NEW w \in Workers, work[w] # NoWork,
           \/ Drop(w) \/ Done(w) \/ Failed(w) \/ Retry(w) \/ Bury(w)
           \/ \E step \in WorkSteps : Goto(w, step)
    PROVE  /\ work' \in [Workers -> Jobs \cup {NoWork}]
           /\ \A v \in Workers \ {w} : work'[v] = work[v]
  <1>1. CASE work' = [work EXCEPT ![w] = NoWork]
    BY <1>1, DropShape DEF Others
  <1>2. ASSUME NEW step \in WorkSteps, Goto(w, step)
        PROVE  /\ work' \in [Workers -> Jobs \cup {NoWork}]
               /\ \A v \in Workers \ {w} : work'[v] = work[v]
    BY <1>2, GotoShape DEF Others
  <1>3. CASE Failed(w) \/ Retry(w)
    BY <1>3, FailedShape, RetryShape DEF Others
  <1>4. "dead" \in WorkSteps /\ "forward" \in WorkSteps
    BY DEF WorkSteps
  <1>5. QED
    BY <1>1, <1>2, <1>3, <1>4 DEF Drop, Done, Bury

LEMMA JobIds ==
    ASSUME ShapeOK, NEW w \in Workers, work[w] # NoWork
    PROVE  Id(w) \in Ids
  BY DEF ShapeOK, Jobs, Messages, Id

\* A message is handed out, in the order of the topic.
LEMMA ReadEffect ==
    ASSUME PipelineInv, NEW w \in Workers, ReadMessage(w)
    PROVE  /\ work' \in [Workers -> Jobs \cup {NoWork}]
           /\ \A v \in Workers \ {w} : work'[v] = work[v]
           /\ offset' \in [Readers -> Nat]
           /\ \A c \in Readers \ {RoleOf[w]} : offset'[c] = offset[c]
  <1>. DEFINE c == RoleOf[w]
              job == [msg |-> log[SourceOf(c)][offset[c] + 1], attempt |-> 1, at |-> "handle"]
  <1>1. c \in Roles /\ c \in Readers /\ SourceOf(c) \in Topics
    BY ConsumerAssumption DEF Roles, Readers, SourceOf, Topics
  <1>2. /\ offset[c] < Len(log[SourceOf(c)])
        /\ work' = [work EXCEPT ![w] = job]
        /\ offset' = [offset EXCEPT ![c] = @ + 1]
    BY DEF ReadMessage
  <1>3. offset[c] \in Nat /\ log[SourceOf(c)] \in Seq(Messages)
    BY <1>1, PipelineFacts
  <1>4. job.msg \in Messages
    BY <1>2, <1>3
  <1>5. job \in Jobs
    BY <1>4, ConsumerAssumption DEF Jobs, WorkSteps, HandlerSteps
  <1>. HIDE DEF job
  <1>6. QED
    BY <1>1, <1>2, <1>3, <1>5, PipelineFacts DEF PipelineInv

LEMMA LoopEffect ==
    ASSUME PipelineInv, NEW w \in Workers, LoopStep(w)
    PROVE  Effect({ForwardTo(RoleOf[w]), "dlq"}, {RoleOf[w]}, {w})
  <1>. DEFINE T == {ForwardTo(RoleOf[w]), "dlq"}
  <1>1. /\ log \in [Topics -> Seq(Messages)] /\ offset \in [Readers -> Nat] /\ ShapeOK
        /\ work[w] \in Jobs \cup {NoWork}
    BY PipelineFacts DEF ShapeOK
  <1>2. work[w] # NoWork => <<work[w].msg>> \in Seq(Messages)
    BY <1>1 DEF Jobs
  <1>3. CASE ReadMessage(w)
    BY <1>1, <1>3, ReadEffect, LogUnchanged, FaultTypes, PipelineFacts
       DEF ReadMessage, Effect, Appended, PipelineInv
  <1>4. CASE Forward(w)
    BY <1>1, <1>2, <1>4, LogWritten, DropShape, FaultTypes, PipelineFacts
       DEF Forward, Busy, Effect, Appended, Others, PipelineInv
  <1>5. CASE SendDLQ(w)
    BY <1>1, <1>2, <1>5, LogWritten, DropShape, FaultTypes, PipelineFacts
       DEF SendDLQ, Busy, Effect, Appended, Others, PipelineInv
  <1>6. CASE SendDLQFails(w)
    <2>1. <<RoleOf[w], work[w].msg.id>> \in Roles \X Ids
      BY <1>1, <1>6, ConsumerAssumption DEF SendDLQFails, Busy, Jobs, Messages
    <2>2. lost \subseteq lost' /\ lost' \subseteq (Roles \X Ids)
      BY <1>6, <2>1 DEF SendDLQFails, PipelineInv
    <2>3. QED
      BY <1>1, <1>6, <2>2, LogUnchanged, DropShape, FaultTypes, PipelineFacts
         DEF SendDLQFails, Effect, Appended, Others
  <1>8. CASE ReadMessageFails(w)
    <2>. DEFINE c == RoleOf[w]
                i == log[SourceOf(c)][offset[c] + 1].id
    <2>1. c \in Roles /\ c \in Readers /\ SourceOf(c) \in Topics
      BY ConsumerAssumption DEF Roles, Readers, SourceOf, Topics
    <2>2. /\ offset[c] < Len(log[SourceOf(c)])
          /\ offset' = [offset EXCEPT ![c] = @ + 1]
          /\ lost' = lost \cup {<<c, i>>}
          /\ UNCHANGED <<log, work>>
      BY <1>8 DEF ReadMessageFails
    <2>3. offset[c] \in Nat /\ log[SourceOf(c)] \in Seq(Messages)
      BY <2>1, PipelineFacts
    <2>4. i \in Ids
      <3>1. offset[c] + 1 \in 1..Len(log[SourceOf(c)])
        BY <2>2, <2>3
      <3>2. log[SourceOf(c)][offset[c] + 1] \in Messages
        BY <2>3, <3>1
      <3>3. QED
        BY <3>2 DEF Messages
    <2>. HIDE DEF i
    <2>5. lost \subseteq lost' /\ lost' \subseteq (Roles \X Ids)
      BY <2>1, <2>2, <2>4 DEF PipelineInv
    <2>6. /\ offset' \in [Readers -> Nat]
          /\ \A b \in Readers \ {c} : offset'[b] = offset[b]
      BY <1>1, <2>1, <2>2, <2>3
    <2>7. FaultsTypeOK'
      BY <1>8, FaultTypes, PipelineFacts DEF ReadMessageFails, PipelineInv
    <2>8. Appended
      BY <1>1, <2>2, LogUnchanged
    <2>. HIDE DEF c
    <2>9. QED
      BY <1>1, <2>2, <2>5, <2>6, <2>7, <2>8 DEF Effect, Appended, ShapeOK, c
  <1>7. QED
    BY <1>3, <1>4, <1>5, <1>6, <1>8 DEF LoopStep

\* The groups and the topics of the loops.
LEMMA RoleFacts ==
    ASSUME NEW w \in Workers
    PROVE  /\ RoleOf[w] \notin Ingesters
           /\ ForwardTo(RoleOf[w]) \notin Endpoints
           /\ w \notin Validators \cup Dedupers =>
                 ForwardTo(RoleOf[w]) = "none" /\ RoleOf[w] \notin {"validator", "dedup"}
           /\ w \notin Registries \cup Attributors =>
                 RoleOf[w] \notin {"registry", "attributor"}
  BY ConsumerAssumption, IngestAssumption
     DEF Roles, ForwardTo, Endpoints, Validators, Dedupers, Registries, Attributors

LEMMA LoopActsViews ==
    ASSUME PipelineInv, NEW w \in Workers, LoopActs(w)
    PROVE  Views /\ PipelineInv'
  <1>1. UNCHANGED <<intakeVars, dedupVars, ingestVars, attributionVars, decideVars>> /\ LoopStep(w)
    BY DEF LoopActs
  <1>2. Effect({ForwardTo(RoleOf[w]), "dlq"}, {RoleOf[w]}, {w})
    BY <1>1, LoopEffect
  <1>3. IntakeView
    BY <1>1, <1>2, OutsideIntake, RoleFacts DEF Endpoints
  <1>4. DedupView
    <2>1. CASE w \in Validators \cup Dedupers
      BY <1>1, <2>1 DEF DedupView, DedupNext
    <2>2. CASE w \notin Validators \cup Dedupers
      BY <1>1, <1>2, <2>2, OutsideDedup, RoleFacts
    <2>3. QED
      BY <2>1, <2>2
  <1>5. IngestView
    BY <1>1, <1>2, NoRows, PipelineFacts, OutsideIngest, RoleFacts DEF ingestVars
  <1>6. DecideView
    BY <1>1, <1>2, OutsideDecide
  <1>7. TopicsFed' => AttributionView
    <2>1. CASE w \in Registries \cup Attributors
      BY <1>1, <2>1 DEF AttributionView, AttributionLoop
    <2>2. CASE w \notin Registries \cup Attributors
      BY <1>1, <1>2, <2>2, OutsideAttribution, RoleFacts
    <2>3. QED
      BY <2>1, <2>2
  <1>8. KeysTyped'
    BY <1>1 DEF attributionVars, KeysTyped, PipelineInv
  <1>9. QED
    BY <1>2, <1>3, <1>4, <1>5, <1>6, <1>7, <1>8, ViewsKeep DEF Views, Effect

\* A handler of the validator or of the deduplication.
LEMMA HandlerViews ==
    ASSUME PipelineInv, NEW w \in Validators \cup Dedupers, DedupNext,
           Effect({ForwardTo(RoleOf[w])}, {}, {w}),
           UNCHANGED <<intakeVars, ingestVars, attributionVars, decideVars>>
    PROVE  Views /\ PipelineInv'
  <1>1. w \in Workers /\ w \notin Registries \cup Attributors
    BY DEF Validators, Dedupers, Registries, Attributors
  <1>2. IntakeView
    BY <1>1, OutsideIntake, RoleFacts
  <1>3. DedupView
    BY DEF DedupView
  <1>4. IngestView
    BY NoRows, PipelineFacts, OutsideIngest DEF ingestVars
  <1>5. DecideView
    BY OutsideDecide
  <1>6. TopicsFed' => AttributionView
    BY <1>1, OutsideAttribution
  <1>7. KeysTyped'
    BY DEF attributionVars, KeysTyped, PipelineInv
  <1>8. QED
    BY <1>2, <1>3, <1>4, <1>5, <1>6, <1>7, ViewsKeep DEF Views, Effect

LEMMA ForwardFailsEffect ==
    ASSUME PipelineInv, NEW w \in Workers, ForwardFails(w)
    PROVE  Effect({ForwardTo(RoleOf[w])}, {}, {w})
  <1>1. /\ ShapeOK /\ work[w] \in Jobs /\ <<work[w].msg>> \in Seq(Messages)
    BY PipelineFacts DEF ForwardFails, Busy, ShapeOK, Jobs
  <1>2. work[w] # NoWork /\ Failed(w) /\ Fault /\ UNCHANGED <<offset, lost>>
    BY DEF ForwardFails, Busy
  <1>3. Appended /\ \A t \in Topics \ {ForwardTo(RoleOf[w])} : log'[t] = log[t]
    BY <1>1, LogTried, PipelineFacts DEF ForwardFails
  <1>4. QED
    BY <1>1, <1>2, <1>3, JobShape, FaultTypes, PipelineFacts DEF Effect, Appended, PipelineInv

\* A step of a handler that writes nothing.
LEMMA QuietEffect ==
    ASSUME PipelineInv, NEW w \in Workers, log' = log, offset' = offset, NoFault \/ Fault,
           work' \in [Workers -> Jobs \cup {NoWork}],
           \A v \in Workers \ {w} : work'[v] = work[v],
           lost' \in {lost, lost \cup {<<RoleOf[w], Id(w)>>}}, Id(w) \in Ids, NEW T
    PROVE  Effect(T, {}, {w})
  <1>1. <<RoleOf[w], Id(w)>> \in Roles \X Ids
    BY ConsumerAssumption
  <1>2. lost \subseteq lost' /\ lost' \subseteq (Roles \X Ids)
    BY <1>1 DEF PipelineInv
  <1>3. QED
    BY <1>2, LogUnchanged, FaultTypes, PipelineFacts DEF Effect, Appended

LEMMA ValidatorActsViews ==
    ASSUME PipelineInv, NEW w \in Validators, ValidatorActs(w)
    PROVE  Views /\ PipelineInv'
  <1>1. /\ w \in Workers /\ ShapeOK
        /\ UNCHANGED <<intakeVars, ingestVars, attributionVars, decideVars>>
    BY PipelineFacts DEF Validators, ValidatorActs
  <1>2. DedupNext
    BY DEF ValidatorActs, DedupNext
  <1>3. Effect({ForwardTo(RoleOf[w])}, {}, {w})
    <2>1. CASE Validate(w)
      BY <1>1, <2>1, JobShape, JobIds, QuietEffect DEF Validate, Busy
    <2>2. QED
      BY <1>1, <2>1, ForwardFailsEffect DEF ValidatorActs
  <1>4. QED
    BY <1>1, <1>2, <1>3, HandlerViews

LEMMA DedupActsViews ==
    ASSUME PipelineInv, NEW w \in Dedupers, DedupActs(w)
    PROVE  Views /\ PipelineInv'
  <1>1. /\ w \in Workers /\ ShapeOK /\ DedupStep(w)
        /\ UNCHANGED <<intakeVars, ingestVars, attributionVars, decideVars>>
    BY PipelineFacts DEF Dedupers, DedupActs
  <1>2. DedupNext
    BY <1>1 DEF DedupNext
  <1>3. {"lookup", "insert"} \subseteq WorkSteps
    BY DEF WorkSteps, HandlerSteps
  <1>4. Effect({ForwardTo(RoleOf[w])}, {}, {w})
    <2>1. CASE SeenOrMark(w)
      BY <1>1, <1>3, <2>1, JobShape, JobIds, QuietEffect DEF SeenOrMark, Busy
    <2>2. CASE Exists(w)
      BY <1>1, <1>3, <2>2, JobShape, JobIds, QuietEffect DEF Exists, Busy
    <2>3. CASE Insert(w)
      BY <1>1, <1>3, <2>3, JobShape, JobIds, QuietEffect DEF Insert, Busy
    <2>4. CASE DedupFails(w)
      BY <1>1, <2>4, JobShape, JobIds, QuietEffect DEF DedupFails, Busy
    <2>5. CASE DedupForwardFails(w)
      BY <1>1, <2>5, ForwardFailsEffect DEF DedupForwardFails
    <2>6. CASE ReplicaDies(w)
      BY <1>1, <2>6, JobShape, JobIds, QuietEffect DEF ReplicaDies, Drop
    <2>7. QED
      BY <1>1, <2>1, <2>2, <2>3, <2>4, <2>5, <2>6 DEF DedupStep
  <1>5. QED
    BY <1>1, <1>2, <1>4, HandlerViews

-----------------------------------------------------------------------------
(* Registry, attributors, sweeper and time                                 *)

WriterStill == UNCHANGED <<flush, cursor, uncommitted, stored, taken, passed>>

LEMMA RowWritten ==
    ASSUME PipelineInv, NEW i \in Ids, NEW arm \in Arms, WriteRow(i, arm)
    PROVE  RowsAppended
  <1>1. buffer["attributed"] \in Seq(Rows)
    BY PipelineFacts, KindFacts
  <1>2. <<i, arm>> \in Rows
    BY AttributionAssumption DEF Arms
  <1>3. Append(buffer["attributed"], <<i, arm>>) = buffer["attributed"] \o << <<i, arm>> >>
    BY <1>1, <1>2, AppendIsConcat
  <1>4. << <<i, arm>> >> \in Seq(Rows)
    BY <1>2
  <1>5. buffer' = [buffer EXCEPT !["attributed"] = @ \o << <<i, arm>> >>]
    BY <1>3 DEF WriteRow, AppendRow
  <1>6. QED
    BY <1>4, <1>5 DEF RowsAppended

\* What a handler of the attribution does outside its own variables.
LEMMA HandlerEffect ==
    ASSUME PipelineInv, NEW w \in Registries \cup Attributors,
           RegistryStep(w) \/ AttributorStep(w)
    PROVE  /\ Effect({}, {}, Registries \cup Attributors)
           /\ RowsAppended /\ WriterStill
           /\ KeysTyped'
  <1>1. /\ w \in Workers /\ ShapeOK /\ HandlerFrame /\ (NoFault \/ Fault) /\ work[w] # NoWork
        /\ \/ Done(w) \/ Failed(w)
           \/ \E step \in {"unregister", "register", "index"} : Goto(w, step)
    BY PipelineFacts
       DEF Registries, Attributors, RegistryStep, AttributorStep, RegisterExposure,
           RegisterExposureFails, GetExposure, GetExposureFails, DeleteExposure,
           DeleteExposureFails, RegisterConversion, RegisterConversionFails, IndexConversion,
           IndexConversionFails, Busy
  <1>2. work[w] \in Jobs /\ Id(w) \in Ids
    BY <1>1 DEF ShapeOK, Jobs, Messages, Id
  <1>3. {"unregister", "register", "index"} \subseteq WorkSteps
    BY DEF WorkSteps, HandlerSteps
  <1>4. /\ work' \in [Workers -> Jobs \cup {NoWork}]
        /\ \A v \in Workers \ {w} : work'[v] = work[v]
    BY <1>1, <1>3, JobShape
  <1>5. Effect({}, {}, {w})
    BY <1>1, <1>2, <1>4, QuietEffect DEF HandlerFrame
  <1>6. NoRow \/ \E arm \in Arms : WriteRow(Id(w), arm)
    BY DEF RegistryStep, AttributorStep, RegisterExposure,
           RegisterExposureFails, GetExposure, GetExposureFails, DeleteExposure,
           DeleteExposureFails, RegisterConversion, RegisterConversionFails, IndexConversion,
           IndexConversionFails, Arms
  <1>7. RowsAppended
    BY <1>2, <1>6, RowWritten, NoRows, PipelineFacts DEF NoRow
  <1>8. conversionKeys' \in {conversionKeys, [conversionKeys EXCEPT ![Decision(w)] = Id(w)]}
    BY DEF RegistryStep, AttributorStep, RegisterExposure,
           RegisterExposureFails, GetExposure, GetExposureFails, DeleteExposure,
           DeleteExposureFails, RegisterConversion, RegisterConversionFails, IndexConversion,
           IndexConversionFails, redisVars
  <1>9. KeysTyped'
    BY <1>1, <1>2, <1>8 DEF KeysTyped, PipelineInv, HandlerFrame
  <1>10. QED
    BY <1>1, <1>5, <1>7, <1>9 DEF Effect, HandlerFrame, WriterStill

\* Time and the sweeper move no worker.
LEMMA KeysEffect ==
    ASSUME PipelineInv, SweeperStep \/ TimePasses
    PROVE  /\ Effect({}, {}, Registries \cup Attributors)
           /\ RowsAppended /\ WriterStill
           /\ KeysTyped'
  <1>1. /\ UNCHANGED <<log, offset, work, lost>> /\ (NoFault \/ Fault) /\ WriterStill
    BY DEF SweeperStep, TimePasses, ListExpired, GetConversion, DeleteConversion,
           UnindexConversion, SweepFails, ExposureExpires, ConversionDue, ConversionExpires,
           TimeFrame, SweepFrame, topicVars, consumerVars, ingestVars, WriterStill
  <1>2. Effect({}, {}, Registries \cup Attributors)
    BY <1>1, LogUnchanged, FaultTypes, PipelineFacts DEF Effect, Appended, PipelineInv
  <1>3. KeysTyped /\ sweep \in SweepStates
    BY DEF PipelineInv, KeysTyped
  <1>4. NoConversion \notin Ids /\ NoSweep \in SweepStates
    BY AttributionAssumption DEF NoSweep, SweepStates
  <1>5. RowsAppended
    <2>1. CASE UNCHANGED buffer
      BY <2>1, NoRows, PipelineFacts
    <2>2. ASSUME GetConversion
          PROVE  RowsAppended
      <3>1. PICK d \in sweep.todo :
                IF conversionKeys[d] = NoConversion THEN NoRow ELSE WriteRow(conversionKeys[d], "bare")
        BY <2>2 DEF GetConversion
      <3>2. conversionKeys[d] \in Ids \cup {NoConversion}
        BY <1>3 DEF KeysTyped, SweepStates
      <3>3. QED
        BY <2>1, <3>1, <3>2, RowWritten DEF NoRow, Arms
    <2>3. QED
      BY <2>1, <2>2 DEF SweeperStep, TimePasses, ListExpired, DeleteConversion,
         UnindexConversion, SweepFails, ExposureExpires, ConversionDue, ConversionExpires,
         TimeFrame, NoRow, ingestVars
  <1>6. conversionKeys' \in [DecisionIds -> Ids \cup {NoConversion}]
    <2>1. \/ conversionKeys' = conversionKeys
          \/ \E d : conversionKeys' = [conversionKeys EXCEPT ![d] = NoConversion]
      BY DEF SweeperStep, TimePasses, ListExpired, GetConversion, DeleteConversion,
             UnindexConversion, SweepFails, ExposureExpires, ConversionDue, ConversionExpires,
             DropConversion
    <2>2. QED
      BY <1>3, <2>1 DEF KeysTyped
  <1>7. sweep' \in SweepStates
    <2>1. ASSUME NEW d, NextDecision(d)
          PROVE  sweep' \in SweepStates
      <3>1. [NoSweep EXCEPT !.todo = sweep.todo \ {d}, !.at = "get"] \in SweepStates
        BY <1>3, <1>4 DEF SweepStates
      <3>2. QED
        BY <1>4, <2>1, <3>1 DEF NextDecision
    <2>2. CASE ListExpired
      BY <1>3, <2>2 DEF ListExpired, SweepStates
    <2>3. CASE GetConversion
      <3>1. PICK d \in sweep.todo :
                sweep' = [sweep EXCEPT !.at = "del", !.decision = d, !.read = conversionKeys[d]]
        BY <2>3 DEF GetConversion
      <3>2. d \in DecisionIds /\ conversionKeys[d] \in Ids \cup {NoConversion}
        BY <1>3 DEF KeysTyped, SweepStates
      <3>3. QED
        BY <1>3, <3>1, <3>2 DEF SweepStates
    <2>4. CASE DeleteConversion
      BY <1>3, <2>4 DEF DeleteConversion, SweepStates
    <2>5. CASE UnindexConversion
      BY <2>1, <2>5 DEF UnindexConversion
    <2>6. CASE SweepFails
      BY <2>1, <2>6 DEF SweepFails
    <2>7. CASE TimePasses
      BY <1>3, <2>7 DEF TimePasses, ExposureExpires, ConversionDue, ConversionExpires, TimeFrame
    <2>8. QED
      BY <2>2, <2>3, <2>4, <2>5, <2>6, <2>7 DEF SweeperStep
  <1>8. QED
    BY <1>1, <1>2, <1>5, <1>6, <1>7 DEF KeysTyped

LEMMA AttributionActsViews ==
    ASSUME PipelineInv, AttributionActs
    PROVE  Views /\ PipelineInv'
  <1>1. UNCHANGED <<intakeVars, dedupVars, decideVars>> /\ AttributionNext
    BY DEF AttributionActs, AttributionNext
  <1>2. /\ Effect({}, {}, Registries \cup Attributors)
        /\ RowsAppended /\ WriterStill /\ KeysTyped'
    BY HandlerEffect, KeysEffect DEF AttributionActs
  <1>3. (Registries \cup Attributors) \cap (Validators \cup Dedupers) = {}
    BY DEF Registries, Attributors, Validators, Dedupers
  <1>4. IntakeView
    BY <1>1, <1>2, OutsideIntake
  <1>5. DedupView
    BY <1>1, <1>2, <1>3, OutsideDedup
  <1>6. IngestView
    BY <1>2, OutsideIngest DEF WriterStill
  <1>7. DecideView
    BY <1>1, <1>2, OutsideDecide
  <1>8. AttributionView
    BY <1>1 DEF AttributionView
  <1>9. QED
    BY <1>2, <1>4, <1>5, <1>6, <1>7, <1>8, ViewsKeep DEF Views, Effect

-----------------------------------------------------------------------------
(* The end of the process                                                  *)

LEMMA CrashEffect ==
    ASSUME PipelineInv, ConsumersDie, Fault, UNCHANGED <<log, offset>>
    PROVE  Effect({}, {}, Workers)
  <1>1. ASSUME NEW w \in Workers, work[w] # NoWork
        PROVE  <<RoleOf[w], work[w].msg.id>> \in Roles \X Ids
    BY <1>1, JobIds, PipelineFacts, ConsumerAssumption DEF Id
  <1>2. lost \subseteq lost' /\ lost' \subseteq (Roles \X Ids)
    BY <1>1 DEF ConsumersDie, PipelineInv
  <1>3. QED
    BY <1>2, LogUnchanged, FaultTypes, PipelineFacts DEF Effect, Appended, ConsumersDie

LEMMA AnalyticsCrashViews ==
    ASSUME PipelineInv, AnalyticsCrash
    PROVE  Views /\ PipelineInv'
  <1>1. /\ IntakeDies /\ ConsumersDie /\ DedupersDie /\ IngestersDie /\ AttributionDies /\ Fault
        /\ UNCHANGED <<log, offset, stored, decideVars>>
    BY DEF AnalyticsCrash
  <1>2. Effect({}, {}, Workers)
    BY <1>1, CrashEffect
  <1>3. IntakeView
    <2>1. CASE \E r \in Requests : call[r].at \notin Ended
      BY <1>1, <2>1 DEF IntakeView, IntakeNext, IntakeCrash
    <2>2. CASE \A r \in Requests : call[r].at \in Ended
      <3>1. call \in [Requests -> [at : Steps, next : Nat \ {0},
                                   claimed : Seq(Messages), results : Seq(Statuses)]]
        BY DEF PipelineInv, IntakeInv, IntakeShape, IntakeTypeOK
      <3>2. call' = call
        BY <1>1, <2>2, <3>1 DEF IntakeDies
      <3>3. \A r \in Requests : Claims(r) = {}
        BY <2>2 DEF Claims, Ended
      <3>4. UNCHANGED intakeVars
        BY <1>1, <3>2, <3>3 DEF IntakeDies, intakeVars
      <3>5. QED
        BY <1>2, <3>4, OutsideIntake
    <2>3. QED
      BY <2>1, <2>2
  <1>4. DedupView
    BY <1>1 DEF DedupView, DedupNext, DedupCrash
  <1>5. IngestView
    BY <1>1 DEF IngestView, IngestNext, IngestCrash
  <1>6. DecideView
    BY <1>1, <1>2, OutsideDecide
  <1>7. AttributionView
    BY <1>1 DEF AttributionView, AttributionCrash
  <1>8. KeysTyped'
    BY <1>1, AttributionAssumption
       DEF AttributionDies, redisVars, KeysTyped, PipelineInv, NoSweep, SweepStates
  <1>9. QED
    BY <1>2, <1>3, <1>4, <1>5, <1>6, <1>7, <1>8, ViewsKeep DEF Views, Effect

LEMMA AnalyticsStopsViews ==
    ASSUME PipelineInv, AnalyticsStops
    PROVE  Views /\ PipelineInv'
  <1>1. /\ Shutdown /\ DedupersDie /\ Fault /\ UNCHANGED <<log, offset>>
        /\ \A w \in Workers : work[w] = NoWork
        /\ UNCHANGED <<intakeVars, consumerVars, attributionVars, decideVars>>
    BY DEF AnalyticsStops, Shutdown
  <1>2. ConsumersDie
    <2>1. work' = work /\ lost' = lost
      BY <1>1 DEF consumerVars
    <2>2. work = [w \in Workers |-> NoWork]
      BY <1>1 DEF PipelineInv
    <2>3. {v \in Workers : work[v] # NoWork} = {}
      BY <1>1
    <2>4. QED
      BY <2>1, <2>2, <2>3 DEF ConsumersDie
  <1>3. Effect({}, {}, Workers)
    BY <1>1, <1>2, CrashEffect
  <1>4. Effect({}, {}, {})
    BY <1>1, <1>3 DEF Effect, consumerVars
  <1>5. IntakeView
    BY <1>1, <1>4, OutsideIntake
  <1>6. DedupView
    BY <1>1, <1>2 DEF DedupView, DedupNext, DedupCrash
  <1>7. IngestView
    BY <1>1 DEF IngestView, IngestNext
  <1>8. DecideView
    BY <1>1, <1>4, OutsideDecide
  <1>9. TopicsFed' => AttributionView
    BY <1>1, <1>4, OutsideAttribution
  <1>10. KeysTyped'
    BY <1>1 DEF attributionVars, KeysTyped, PipelineInv
  <1>11. QED
    BY <1>4, <1>5, <1>6, <1>7, <1>8, <1>9, <1>10, ViewsKeep DEF Views, Effect

-----------------------------------------------------------------------------
(* The composition                                                         *)

LEMMA PipelineStep ==
    ASSUME PipelineInv, [PipelineNext]_pipelineVars
    PROVE  Views /\ PipelineInv'
  <1>1. CASE UNCHANGED pipelineVars
    <2>1. UNCHANGED <<topicVars, intakeVars, consumerVars, dedupVars, ingestVars,
                      attributionVars, decideVars>>
      BY <1>1 DEF pipelineVars
    <2>2. Views
      BY <2>1 DEF Views, IntakeView, DedupView, IngestView, DecideView, AttributionView
    <2>3. work' = work /\ lost' = lost /\ KeysTyped'
      BY <2>1 DEF consumerVars, attributionVars, KeysTyped, PipelineInv
    <2>4. QED
      BY <2>2, <2>3, ViewsKeep DEF Views, PipelineInv
  <1>2. QED
    BY <1>1, IntakeActsViews, LoopActsViews, ValidatorActsViews, DedupActsViews,
       IngestActsViews, AttributionActsViews, RuntimeActsViews, AnalyticsCrashViews,
       AnalyticsStopsViews DEF PipelineNext

\* What a scenario starts with.
LEMMA PipelineStarts ==
    ASSUME NEW scenario \in PipelineScenarios, PipelineInit(scenario)
    PROVE  /\ log \in [Topics -> Seq(Messages)]
           /\ NoCopies(log["deduped"])
           /\ offset = [c \in Readers |-> 0]
           /\ faults \in 0..MaxFaults
           /\ scenario.workload \in Workloads /\ IntakeInit(scenario.workload)
           /\ scenario.written \in Revisions /\ scenario.loaded \in 0..scenario.written
           /\ DecideInit(scenario.loaded, scenario.written)
           /\ ConsumerInit /\ DedupInit /\ IngestInit /\ AttributionInit
  BY FaultAssumption DEF PipelineScenarios, PipelineInit, Revisions

LEMMA PipelineInvInit ==
    ASSUME NEW scenario \in PipelineScenarios, PipelineInit(scenario)
    PROVE  PipelineInv
  <1>1. IntakeInv
    BY PipelineStarts, BodyInit
  <1>2. IngestInv
    BY PipelineStarts, IngestInit0
  <1>3. DecideTypes
    <2>1. offset \in [Readers -> Nat]
      BY PipelineStarts
    <2>2. QED
      BY <2>1, PipelineStarts, DecideStarts DEF DecideInv
  <1>4. work \in [Workers -> Jobs \cup {NoWork}] /\ lost = {}
    BY PipelineStarts DEF ConsumerInit
  <1>5. KeysTyped
    BY PipelineStarts DEF AttributionInit, KeysTyped, NoSweep, SweepStates
  <1>6. QED
    BY <1>1, <1>2, <1>3, <1>4, <1>5 DEF PipelineInv

-----------------------------------------------------------------------------
(* What the intake accepts                                                 *)

Named(i) == DecisionOf[i] \in DecisionIds

\* An item has passed checkExposure when its key is asked for.
NamedRequest(r) ==
    request[r].topic = "exposures" =>
        /\ \A item \in ToSet(request[r].items) : item.ok => Named(item.id)
        /\ \A m \in ToSet(call[r].claimed) : Named(m.id)
        /\ call[r].at \in {"insert", "find", "replace"} => Item(r).ok

NamedInv ==
    /\ \A m \in ToSet(log["exposures"]) : Named(m.id)
    /\ \A r \in Requests : NamedRequest(r)

LEMMA NamedMove ==
    ASSUME IntakeShape, NEW r \in Requests, NamedRequest(r), NEW step \in Steps,
           MoveTo(r, step), request' = request,
           step \in {"insert", "find", "replace"} =>
               Item(r).ok \/ call[r].at \in {"insert", "find", "replace"}
    PROVE  NamedRequest(r)'
  BY MoveFacts DEF NamedRequest

LEMMA NamedAnswer ==
    ASSUME IntakeShape, NEW r \in Requests, NamedRequest(r), call[r].at \in Working,
           NEW s \in Statuses, NEW claimed \in BOOLEAN, Answer(r, s, claimed),
           request' = request, claimed => call[r].at \in {"insert", "find", "replace"}
    PROVE  NamedRequest(r)'
  <1>1. SUFFICES ASSUME request[r].topic = "exposures"
                 PROVE  NamedRequest(r)'
    BY DEF NamedRequest
  <1>2. /\ call'[r].at \in {"check", "publish"}
        /\ call'[r].claimed = IF claimed THEN Append(call[r].claimed, MessageOf(Item(r)))
                                         ELSE call[r].claimed
    BY AnswerFacts
  <1>3. ASSUME claimed
        PROVE  /\ MessageOf(Item(r)) \in Messages /\ Named(MessageOf(Item(r)).id)
    <2>1. MessageOf(Item(r)) \in Messages /\ Item(r).ok
      BY <1>1, <1>3, CallTypes DEF NamedRequest
    <2>2. Item(r) \in ToSet(request[r].items)
      <3>1. call[r].next \in 1..Len(request[r].items) /\ request[r].items \in Seq(Items)
        BY CallTypes DEF IntakeShape, InOrder
      <3>2. QED
        BY <3>1 DEF Item, ToSet
    <2>3. QED
      BY <1>1, <2>1, <2>2 DEF NamedRequest, MessageOf
  <1>4. ToSet(call'[r].claimed) \subseteq
            ToSet(call[r].claimed) \cup (IF claimed THEN {MessageOf(Item(r))} ELSE {})
    BY <1>2, <1>3, CallTypes, ToSetAppend
  <1>5. \A m \in ToSet(call'[r].claimed) : Named(m.id)
    BY <1>1, <1>3, <1>4 DEF NamedRequest
  <1>6. QED
    BY <1>1, <1>2, <1>5 DEF NamedRequest

LEMMA NamedStep ==
    ASSUME IntakeShape, NamedInv, IntakeView
    PROVE  NamedInv'
  <1>0. log \in [Topics -> Seq(Messages)] /\ "exposures" \in Topics /\ "exposures" \in Endpoints
    BY DEF IntakeShape, Topics, Endpoints
  <1>1. ASSUME NEW r \in Requests, RequestStep(r)
        PROVE  NamedInv'
    <2>1. request' = request /\ NamedRequest(r)
      BY <1>1 DEF RequestStep, Begin, Check, InsertKey, FindKey, ReplaceKey, StorageFails, Publish,
             PublishFails, Release, ReleaseFails, NamedInv
    <2>2. \/ \E step \in Steps :
                /\ MoveTo(r, step)
                /\ step \in {"insert", "find", "replace"} =>
                       Item(r).ok \/ call[r].at \in {"insert", "find", "replace"}
          \/ /\ call[r].at \in Working
             /\ \E s \in Statuses, claimed \in BOOLEAN :
                   /\ Answer(r, s, claimed)
                   /\ claimed => call[r].at \in {"insert", "find", "replace"}
      <3>1. {"check", "insert", "find", "replace", "publish", "release", "answered", "refused",
             "failed"} \subseteq Steps /\ Statuses = {"accepted", "duplicate", "rejected"}
        BY DEF Steps, Statuses
      <3>2. CASE Begin(r)
        BY <3>1, <3>2 DEF Begin
      <3>3. CASE Check(r)
        BY <3>1, <3>3 DEF Check, At, Working
      <3>4. CASE InsertKey(r)
        BY <3>1, <3>4 DEF InsertKey, At, Working
      <3>5. CASE FindKey(r)
        <4>1. CASE Abort(r)
          BY <3>1, <4>1 DEF Abort
        <4>2. \/ Abort(r)
              \/ MoveTo(r, "replace")
              \/ Answer(r, "duplicate", FALSE)
              \/ Answer(r, "rejected", FALSE)
          BY <3>5 DEF FindKey
        <4>3. call[r].at = "find"
          BY <3>5 DEF FindKey, At
        <4>4. QED
          BY <3>1, <4>1, <4>2, <4>3 DEF Working
      <3>6. CASE ReplaceKey(r)
        BY <3>1, <3>6 DEF ReplaceKey, At, Working
      <3>7. CASE StorageFails(r)
        BY <3>1, <3>7 DEF StorageFails, Abort
      <3>8. CASE Publish(r) \/ PublishFails(r) \/ Release(r) \/ ReleaseFails(r)
        BY <3>1, <3>8 DEF Publish, PublishFails, Release, ReleaseFails
      <3>9. QED
        BY <1>1, <3>2, <3>3, <3>4, <3>5, <3>6, <3>7, <3>8 DEF RequestStep
    <2>3. NamedRequest(r)' /\ OnlyCall(r)
      BY <2>1, <2>2, NamedMove, NamedAnswer, MoveFacts, AnswerFacts
    <2>4. \A q \in Requests : NamedRequest(q)'
      BY <2>1, <2>3 DEF OnlyCall, NamedRequest, NamedInv, Item
    <2>5. \A m \in ToSet(log'["exposures"]) : Named(m.id)
      <3>1. ASSUME NEW msgs \in Seq(Messages), ToSet(msgs) \subseteq ToSet(call[r].claimed),
                   Write(request[r].topic, msgs)
            PROVE  \A m \in ToSet(log'["exposures"]) : Named(m.id)
        <4>1. CASE request[r].topic = "exposures"
          <5>1. log'["exposures"] = log["exposures"] \o msgs
            BY <1>0, <3>1, <4>1 DEF Write
          <5>2. ToSet(log'["exposures"]) = ToSet(log["exposures"]) \cup ToSet(msgs)
            BY <1>0, <5>1, ToSetConcat
          <5>3. QED
            BY <2>1, <3>1, <4>1, <5>2 DEF NamedRequest, NamedInv
        <4>2. CASE request[r].topic # "exposures"
          <5>1. log'["exposures"] = log["exposures"]
            BY <1>0, <3>1, <4>2 DEF Write
          <5>2. QED
            BY <5>1 DEF NamedInv
        <4>3. QED
          BY <4>1, <4>2
      <3>2. call[r].claimed \in Seq(Messages)
        BY CallTypes
      <3>3. CASE Publish(r)
        BY <3>1, <3>2, <3>3 DEF Publish
      <3>4. CASE PublishFails(r)
        <4>1. PICK n \in 0..Len(call[r].claimed) :
                  Write(request[r].topic, SubSeq(call[r].claimed, 1, n))
          BY <3>4 DEF PublishFails
        <4>2. QED
          BY <3>1, <3>2, <4>1, ToSetPrefix
      <3>5. CASE UNCHANGED log
        BY <3>5 DEF NamedInv
      <3>6. QED
        BY <1>1, <3>3, <3>4, <3>5 DEF RequestStep, Begin, Check, InsertKey, FindKey, ReplaceKey,
           StorageFails, Release, ReleaseFails
    <2>6. QED
      BY <2>4, <2>5 DEF NamedInv
  <1>2. ASSUME UNCHANGED <<request, call>>, log'["exposures"] = log["exposures"]
        PROVE  NamedInv'
    BY <1>2 DEF NamedInv, NamedRequest, Item
  <1>3. ASSUME IntakeCrash
        PROVE  NamedInv'
    <2>1. /\ UNCHANGED <<log, request>>
          /\ call' = [r \in Requests |-> IF call[r].at \in Ended THEN call[r]
                                         ELSE [call[r] EXCEPT !.at = "failed"]]
      BY <1>3 DEF IntakeCrash, IntakeDies
    <2>2. ASSUME NEW r \in Requests
          PROVE  NamedRequest(r)'
      <3>1. call[r] \in [at : Steps, next : Nat \ {0},
                         claimed : Seq(Messages), results : Seq(Statuses)]
        BY DEF IntakeShape, IntakeTypeOK
      <3>2. call'[r].claimed = call[r].claimed
            /\ call'[r].at \notin {"insert", "find", "replace"}
        BY <2>1, <3>1 DEF Ended
      <3>3. QED
        BY <2>1, <3>2 DEF NamedInv, NamedRequest
    <2>3. QED
      BY <2>1, <2>2 DEF NamedInv
  <1>4. QED
    BY <1>0, <1>1, <1>2, <1>3 DEF IntakeView, IntakeNext, ExpireKey, Downstream, topicVars,
       intakeVars

LEMMA NamedInit ==
    ASSUME NEW scenario \in PipelineScenarios, PipelineInit(scenario)
    PROVE  NamedInv
  <1>1. \A m \in ToSet(log["exposures"]) : Named(m.id)
    BY DEF PipelineInit, PipelineScenarios, Named, IdsIn
  <1>2. ASSUME NEW r \in Requests
        PROVE  NamedRequest(r)
    <2>1. call[r] = NoCall /\ request = scenario.workload
      BY DEF PipelineInit, IntakeInit
    <2>2. ToSet(call[r].claimed) = {} /\ call[r].at = "idle"
      BY <2>1, ToSetEmpty DEF NoCall
    <2>3. QED
      BY <2>1, <2>2 DEF NamedRequest, PipelineScenarios, Named
  <1>3. QED
    BY <1>1, <1>2 DEF NamedInv

LEMMA NamedFeeds ==
    ASSUME PipelineInv, NamedInv, DedupedOnce
    PROVE  TopicsFed
  <1>1. log["exposures"] \in Seq(Messages) /\ log \in [Topics -> Seq(Messages)]
    BY PipelineFacts DEF Topics
  <1>2. \A k \in 1..Len(log["exposures"]) : log["exposures"][k] \in ToSet(log["exposures"])
    BY <1>1 DEF ToSet
  <1>3. QED
    BY <1>1, <1>2 DEF TopicsFed, NamedInv, Named, DedupedOnce

-----------------------------------------------------------------------------
(* The pipeline implements its components                                  *)

Feeding == PipelineInv /\ NamedInv

LEMMA FeedingInvariant == PipelineSpec => []Feeding
  <1>1. (\E scenario \in PipelineScenarios : PipelineInit(scenario)) => Feeding
    BY PipelineInvInit, NamedInit DEF Feeding
  <1>2. Feeding /\ [PipelineNext]_pipelineVars => Feeding'
    BY PipelineStep, NamedStep DEF Feeding, Views, PipelineInv, IntakeInv
  <1>3. QED
    BY <1>1, <1>2, PTL DEF PipelineSpec

\* The requests, consumers and crashes of one process are to the intake what
\* its own specification expects.
LEMMA IntakeImplemented == PipelineSpec => IntakeSpec
  <1>1. (\E scenario \in PipelineScenarios : PipelineInit(scenario)) =>
            /\ log \in [Topics -> Seq(Messages)]
            /\ \E workload \in Workloads : IntakeInit(workload)
    BY PipelineStarts
  <1>2. Feeding /\ [PipelineNext]_pipelineVars =>
            [IntakeNext \/ Downstream]_<<topicVars, intakeVars>>
    BY PipelineStep DEF Feeding, Views, IntakeView
  <1>3. QED
    BY <1>1, <1>2, FeedingInvariant, PTL DEF PipelineSpec, IntakeSpec

LEMMA DedupImplemented == PipelineSpec => DedupSpec
  <1>1. (\E scenario \in PipelineScenarios : PipelineInit(scenario)) =>
            /\ log \in [Topics -> Seq(Messages)]
            /\ NoCopies(log["deduped"])
            /\ offset = [c \in Readers |-> 0]
            /\ faults \in 0..MaxFaults
            /\ ConsumerInit
            /\ DedupInit
    BY PipelineStarts
  <1>2. Feeding /\ [PipelineNext]_pipelineVars =>
            [DedupNext \/ Elsewhere]_<<topicVars, consumerVars, dedupVars>>
    BY PipelineStep DEF Feeding, Views, DedupView
  <1>3. QED
    BY <1>1, <1>2, FeedingInvariant, PTL DEF PipelineSpec, DedupSpec

LEMMA IngestImplemented == PipelineSpec => IngestSpec
  <1>1. (\E scenario \in PipelineScenarios : PipelineInit(scenario)) =>
            /\ log \in [Topics -> Seq(Messages)]
            /\ offset = [c \in Readers |-> 0]
            /\ faults \in 0..MaxFaults
            /\ IngestInit
    BY PipelineStarts
  <1>2. Feeding /\ [PipelineNext]_pipelineVars =>
            [IngestNext \/ Arrivals]_<<topicVars, ingestVars>>
    BY PipelineStep DEF Feeding, Views, IngestView
  <1>3. QED
    BY <1>1, <1>2, FeedingInvariant, PTL DEF PipelineSpec, IngestSpec

LEMMA DecideImplemented == PipelineSpec => DecideSpec
  <1>1. (\E scenario \in PipelineScenarios : PipelineInit(scenario)) =>
            /\ log \in [Topics -> Seq(Messages)]
            /\ offset \in [Readers -> Nat]
            /\ faults \in 0..MaxFaults
            /\ \E written \in Revisions : \E loaded \in 0..written : DecideInit(loaded, written)
    <2>1. ASSUME offset = [c \in Readers |-> 0]
          PROVE  offset \in [Readers -> Nat]
      BY <2>1
    <2>2. QED
      BY <2>1, PipelineStarts
  <1>2. Feeding /\ [PipelineNext]_pipelineVars =>
            [DecideNext \/ OthersWrite]_<<topicVars, decideVars>>
    BY PipelineStep DEF Feeding, Views, DecideView
  <1>3. QED
    BY <1>1, <1>2, FeedingInvariant, PTL DEF PipelineSpec, DecideSpec

\* The topics bring the attribution what it relies on, because of what intake
\* and deduplication guarantee.
LEMMA TopicsAreFed == PipelineSpec => []TopicsFed
  <1>1. Feeding /\ DedupedOnce => TopicsFed
    BY NamedFeeds DEF Feeding
  <1>2. QED
    BY <1>1, FeedingInvariant, DedupImplemented, DeduplicatedTopic, PTL

LEMMA AttributionImplemented == PipelineSpec => AttributionSpec
  <1>1. (\E scenario \in PipelineScenarios : PipelineInit(scenario)) =>
            /\ offset = [c \in Readers |-> 0]
            /\ faults \in 0..MaxFaults
            /\ ConsumerInit
            /\ IngestInit
            /\ AttributionInit
    BY PipelineStarts
  <1>2. Feeding /\ TopicsFed' /\ [PipelineNext]_pipelineVars =>
            [\/ AttributionNext
             \/ AttributionLoop
             \/ AttributionCrash
             \/ Surroundings]_<<topicVars, consumerVars, ingestVars, attributionVars>>
    BY PipelineStep DEF Feeding, Views, AttributionView
  <1>3. QED
    BY <1>1, <1>2, FeedingInvariant, TopicsAreFed, PTL DEF PipelineSpec, AttributionSpec

\* Whatever the services do together, each of them sees only what its own
\* specification allows of its surroundings: the theorems about one component
\* are theorems about the pipeline.
THEOREM PipelineImplements ==
    PipelineSpec =>
        IntakeSpec /\ DedupSpec /\ IngestSpec /\ DecideSpec /\ AttributionSpec
  BY IntakeImplemented, DedupImplemented, IngestImplemented, DecideImplemented,
     AttributionImplemented

\* What POST /events/batch acknowledges, what the deduplication passes on, what
\* the writer takes, what a decision rests on and what happens to a conversion,
\* in the pipeline as a whole: for any number of requests, replicas, events and
\* failures, at whatever moment the process dies.
THEOREM PipelineSafe ==
    PipelineSpec =>
        /\ []OneBodyPerKey /\ []AcknowledgedIsPublished
        /\ []DedupedOnce /\ []PassedIsForwarded
        /\ []RowsKept
        /\ []RevisionIsLowerBound /\ []DecisionsWritten
        /\ []OneVerdict /\ []ConversionAccounted
  BY PipelineImplements, OneBody, AcknowledgedArrives, DeduplicatedTopic, NothingVanishes,
     RowsStay, DecidedOnReported, EveryDecisionWritten, VerdictIsOne, NoConversionVanishes

\* The process has one attributor: then an exposure attributes one conversion
\* in the pipeline as well.
COROLLARY PipelineUsesExposureOnce ==
    ASSUME \A v, w \in Attributors : v = w
    PROVE  PipelineSpec => []ExposureUsedOnce
  BY PipelineImplements, ExposureOnceAlone

-----------------------------------------------------------------------------
(* The way of an event                                                     *)

Behind(topic, position) == {log[topic][k].id : k \in 1..position}

\* What a topic holds, its reader has yet to read or has read.
LEMMA ReadOrAhead ==
    ASSUME log \in [Topics -> Seq(Messages)],
           NEW c, NEW t \in Topics, SourceOf(c) = t, NEW n \in Nat
    PROVE  IdsIn(log[t]) \subseteq Ahead(c, n) \cup Behind(t, n)
  <1>1. log[t] \in Seq(Messages) /\ Len(log[t]) \in Nat
    OBVIOUS
  <1>2. SUFFICES ASSUME NEW i \in IdsIn(log[t])
                 PROVE  i \in Ahead(c, n) \cup Behind(t, n)
    OBVIOUS
  <1>3. PICK k \in 1..Len(log[t]) : log[t][k].id = i
    BY <1>1 DEF IdsIn, ToSet
  <1>4. k \in 1..n \/ k \in (n + 1)..Len(log[t])
    BY <1>1, <1>3
  <1>5. QED
    BY <1>3, <1>4 DEF Ahead, Behind

\* The events that have come into one of the three topics.
Known == IdsIn(log["events"]) \cup IdsIn(log["validated"]) \cup IdsIn(log["deduped"])

LEMMA IdsInIds ==
    ASSUME log \in [Topics -> Seq(Messages)], NEW t \in Topics
    PROVE  IdsIn(log[t]) \subseteq Ids
  <1>1. ToSet(log[t]) \subseteq Messages
    BY DEF ToSet
  <1>2. QED
    BY <1>1 DEF IdsIn, Messages

\* Each stage has its account of what it has read; laid end to end they leave no
\* place between two stages.
LEMMA StagesMeet ==
    ASSUME log \in [Topics -> Seq(Messages)], offset \in [Readers -> Nat],
           cursor \in [Ingesters -> Nat], ReadIsValidated, PassedIsForwarded, RowsKept,
           "ch_events" \in Ingesters
    PROVE  Known \subseteq Poison \cup Arrived \cup LetGo \cup OnTheWay
  <1>. SUFFICES ASSUME NEW i \in Known, i \notin Poison
                PROVE  i \in Arrived \cup LetGo \cup OnTheWay
    OBVIOUS
  <1>0. i \in Ids
    BY IdsInIds DEF Known, Topics
  <1>1. /\ SourceOf("validator") = "events" /\ SourceOf("dedup") = "validated"
        /\ SourceOf("ch_events") = "deduped" /\ KindOf("ch_events") = "event"
        /\ {"events", "validated", "deduped"} \subseteq Topics
        /\ {"validator", "dedup", "ch_events"} \subseteq Readers
    BY DEF SourceOf, KindOf, Topics, Readers
  <1>2. /\ IdsIn(log["events"]) \subseteq Ahead("validator", offset["validator"])
                                        \cup Behind("events", offset["validator"])
        /\ IdsIn(log["validated"]) \subseteq Ahead("dedup", offset["dedup"])
                                           \cup Behind("validated", offset["dedup"])
        /\ IdsIn(log["deduped"]) \subseteq Ahead("ch_events", cursor["ch_events"])
                                         \cup Behind("deduped", cursor["ch_events"])
    <2>1. /\ offset["validator"] \in Nat /\ offset["dedup"] \in Nat
          /\ cursor["ch_events"] \in Nat
          /\ "events" \in Topics /\ "validated" \in Topics /\ "deduped" \in Topics
      BY <1>1
    <2>2. QED
      BY <1>1, <2>1, ReadOrAhead
  <1>3. ASSUME i \in IdsIn(log["deduped"])
        PROVE  i \in Arrived \cup LetGo \cup OnTheWay
    <2>1. i \in Ahead("ch_events", cursor["ch_events"]) \/ i \in Behind("deduped", cursor["ch_events"])
      BY <1>2, <1>3
    <2>2. CASE i \in Ahead("ch_events", cursor["ch_events"])
      BY <2>2 DEF OnTheWay
    <2>3. CASE i \in Behind("deduped", cursor["ch_events"])
      <3>1. i \in RowsUpTo("ch_events", cursor["ch_events"])
        BY <1>1, <2>3 DEF Behind, RowsUpTo
      <3>2. i \in stored["event"] \cup taken \cup passed \cup ToSet(buffer["event"])
                    \cup InFlight("event")
        BY <1>1, <3>1 DEF RowsKept
      <3>3. QED
        BY <3>2 DEF Arrived, LetGo, OnTheWay
    <2>4. QED
      BY <2>1, <2>2, <2>3
  <1>4. ASSUME i \in IdsIn(log["validated"])
        PROVE  i \in Arrived \cup LetGo \cup OnTheWay
    <2>1. i \in Ahead("dedup", offset["dedup"]) \/ i \in Behind("validated", offset["dedup"])
      BY <1>2, <1>4
    <2>2. CASE i \in Ahead("dedup", offset["dedup"])
      BY <2>2 DEF OnTheWay
    <2>3. CASE i \in Behind("validated", offset["dedup"])
      <3>1. \/ i \in IdsIn(log["deduped"])
            \/ i \in silenced
            \/ <<"dedup", i>> \in lost
            \/ \E w \in Dedupers : work[w] # NoWork /\ Id(w) = i
        BY <2>3 DEF Behind, PassedIsForwarded
      <3>2. <<"dedup", i>> \in lost => i \in LetGo
        BY <1>0 DEF LetGo
      <3>3. QED
        BY <1>3, <3>1, <3>2 DEF LetGo, OnTheWay
    <2>4. QED
      BY <2>1, <2>2, <2>3
  <1>5. CASE i \in Ahead("validator", offset["validator"])
    BY <1>5 DEF OnTheWay
  <1>6. CASE i \in Behind("events", offset["validator"])
    <2>1. \/ i \in IdsIn(log["validated"]) \cup IdsIn(log["dlq"])
          \/ <<"validator", i>> \in lost
          \/ \E w \in Validators : work[w] # NoWork /\ Id(w) = i
      BY <1>6 DEF Behind, ReadIsValidated
    <2>2. <<"validator", i>> \in lost => i \in LetGo
      BY <1>0 DEF LetGo
    <2>3. QED
      BY <1>4, <2>1, <2>2 DEF Arrived, LetGo, OnTheWay
  <1>7. QED
    BY <1>2, <1>3, <1>4, <1>5, <1>6 DEF Known

\* From the intake to ClickHouse no event gets lost between two consumers: it
\* has arrived, is before a consumer, with one or in the writer, or has gone one
\* of the ways that a failure opens.
THEOREM EventsAccounted == PipelineSpec => []NoEventVanishes
  <1>1. PipelineInv => /\ log \in [Topics -> Seq(Messages)] /\ offset \in [Readers -> Nat]
                       /\ cursor \in [Ingesters -> Nat]
    BY PipelineFacts DEF PipelineInv, IngestInv, IngestTypes, IngestTypeOK
  <1>2. PipelineInv /\ ReadIsValidated /\ PassedIsForwarded /\ RowsKept => NoEventVanishes
    BY <1>1, StagesMeet DEF NoEventVanishes, Known
  <1>3. PipelineSpec => []PipelineInv
    BY FeedingInvariant, PTL DEF Feeding
  <1>4. QED
    BY <1>2, <1>3, PipelineImplements, NothingUnread, NothingVanishes, RowsStay, PTL

-----------------------------------------------------------------------------
(* The pipeline delivers                                                   *)

DeliveryInv ==
    /\ PipelineInv /\ DedupInv
    /\ ValidatedInv /\ PassedIsForwarded /\ RowsKept
    /\ HandsFromTopics /\ RowsFromTopics

LEMMA DeliveryInvariant == PipelineSpec => []DeliveryInv
  <1>1. PipelineSpec => []PipelineInv
    BY FeedingInvariant, PTL DEF Feeding
  <1>2. QED
    BY <1>1, PipelineImplements, DedupInvariant, ValidatedInvariant, NothingVanishes, RowsStay,
       HandsHoldTopics, RowsHoldTopics, PTL DEF DeliveryInv

LEMMA DeliveryFacts ==
    ASSUME DeliveryInv
    PROVE  /\ log \in [Topics -> Seq(Messages)] /\ offset \in [Readers -> Nat]
           /\ cursor \in [Ingesters -> Nat]
           /\ IngestInv /\ DedupInv /\ PipelineInv
  BY PipelineFacts DEF DeliveryInv, PipelineInv, IngestInv, IngestTypes, IngestTypeOK

EventGone == LetGo \cup IdsIn(log["dlq"]) \cup Poison

ExposuresAhead ==
    Ahead("ch_exposures", cursor["ch_exposures"]) \cup ToSet(buffer["exposure"])
      \cup InFlight("exposure")
ExposureGone == taken \cup passed \cup Poison

LEMMA AheadIsKnown ==
    ASSUME log \in [Topics -> Seq(Messages)], NEW c, SourceOf(c) \in Topics, NEW n \in Nat
    PROVE  Ahead(c, n) \subseteq IdsIn(log[SourceOf(c)])
  <1>1. log[SourceOf(c)] \in Seq(Messages)
    OBVIOUS
  <1>2. \A k \in (n + 1)..Len(log[SourceOf(c)]) : k \in 1..Len(log[SourceOf(c)])
    BY <1>1
  <1>3. QED
    BY <1>1, <1>2 DEF Ahead, IdsIn, ToSet

\* In every state, an event of the three topics is on the way, stored or
\* released, and what is on the way has come from a topic; so with exposures.
EventsPlaced ==
    /\ OnTheWay \subseteq Known
    /\ Known \subseteq OnTheWay \cup stored["event"] \cup EventGone

ExposuresPlaced ==
    /\ ExposuresAhead \subseteq IdsIn(log["exposures"])
    /\ IdsIn(log["exposures"]) \subseteq ExposuresAhead \cup stored["exposure"] \cup ExposureGone

LEMMA EventsWhere ==
    ASSUME DeliveryInv, "ch_events" \in Ingesters
    PROVE  EventsPlaced
  <1>1. /\ SourceOf("validator") = "events" /\ SourceOf("dedup") = "validated"
        /\ SourceOf("ch_events") = "deduped" /\ KindOf("ch_events") = "event"
        /\ "events" \in Topics /\ "validated" \in Topics /\ "deduped" \in Topics
        /\ "validator" \in Readers /\ "dedup" \in Readers
    BY DEF SourceOf, KindOf, Topics, Readers
  <1>2. /\ offset["validator"] \in Nat /\ offset["dedup"] \in Nat /\ cursor["ch_events"] \in Nat
    BY <1>1, DeliveryFacts
  <1>3. /\ Ahead("validator", offset["validator"]) \subseteq Known
        /\ Ahead("dedup", offset["dedup"]) \subseteq Known
        /\ Ahead("ch_events", cursor["ch_events"]) \subseteq Known
    BY <1>1, <1>2, AheadIsKnown, DeliveryFacts DEF Known
  <1>4. \A w \in Validators \cup Dedupers : work[w] # NoWork => Id(w) \in Known
    BY DEF DeliveryInv, HandsFromTopics, Known
  <1>5. ToSet(buffer["event"]) \cup InFlight("event") \subseteq Known
    BY <1>1 DEF DeliveryInv, RowsFromTopics, Loose, Known
  <1>6. OnTheWay \subseteq Known
    BY <1>3, <1>4, <1>5 DEF OnTheWay
  <1>7. Known \subseteq Poison \cup Arrived \cup LetGo \cup OnTheWay
    BY DeliveryFacts, StagesMeet DEF DeliveryInv, ValidatedInv
  <1>8. QED
    BY <1>6, <1>7 DEF Arrived, EventGone, EventsPlaced

LEMMA ExposuresWhere ==
    ASSUME DeliveryInv, "ch_exposures" \in Ingesters
    PROVE  ExposuresPlaced
  <1>1. /\ SourceOf("ch_exposures") = "exposures" /\ KindOf("ch_exposures") = "exposure"
        /\ "exposures" \in Topics /\ "ch_exposures" \in Readers
    BY DEF SourceOf, KindOf, Topics, Readers
  <1>2. cursor["ch_exposures"] \in Nat
    BY DeliveryFacts
  <1>3. Ahead("ch_exposures", cursor["ch_exposures"]) \subseteq IdsIn(log["exposures"])
    BY <1>1, <1>2, AheadIsKnown, DeliveryFacts
  <1>4. ToSet(buffer["exposure"]) \cup InFlight("exposure") \subseteq IdsIn(log["exposures"])
    BY <1>1 DEF DeliveryInv, RowsFromTopics, Loose
  <1>5. IdsIn(log["exposures"]) \subseteq Ahead("ch_exposures", cursor["ch_exposures"])
                                        \cup Behind("exposures", cursor["ch_exposures"])
    BY <1>1, <1>2, ReadOrAhead, DeliveryFacts
  <1>6. Behind("exposures", cursor["ch_exposures"])
            \subseteq ExposuresAhead \cup stored["exposure"] \cup ExposureGone
    <2>. SUFFICES ASSUME NEW i \in Behind("exposures", cursor["ch_exposures"]), i \notin Poison
                  PROVE  i \in ExposuresAhead \cup stored["exposure"] \cup ExposureGone
      BY DEF ExposureGone
    <2>1. i \in RowsUpTo("ch_exposures", cursor["ch_exposures"])
      BY <1>1 DEF Behind, RowsUpTo
    <2>2. i \in stored["exposure"] \cup taken \cup passed \cup ToSet(buffer["exposure"])
                  \cup InFlight("exposure")
      BY <1>1, <2>1 DEF DeliveryInv, RowsKept
    <2>3. QED
      BY <2>2 DEF ExposuresAhead, ExposureGone
  <1>7. QED
    BY <1>3, <1>4, <1>5, <1>6 DEF ExposuresAhead, ExposuresPlaced

\* Only the intake writes to the topics the clients are answered for.
LEMMA OthersForward ==
    ASSUME PipelineInv, [PipelineNext]_pipelineVars, ~ IntakeActs
    PROVE  log'["events"] = log["events"] /\ log'["exposures"] = log["exposures"]
  <1>0. /\ "events" \in Topics /\ "exposures" \in Topics
        /\ Endpoints = {"events", "exposures"}
    BY DEF Topics, Endpoints
  <1>1. ASSUME NEW T, NEW G, NEW W, Effect(T, G, W), "events" \notin T, "exposures" \notin T
        PROVE  log'["events"] = log["events"] /\ log'["exposures"] = log["exposures"]
    BY <1>0, <1>1 DEF Effect
  <1>2. \A w \in Workers : ForwardTo(RoleOf[w]) \notin {"events", "exposures"}
    BY <1>0, RoleFacts
  <1>3. ASSUME NEW w \in Workers, LoopActs(w)
        PROVE  log'["events"] = log["events"] /\ log'["exposures"] = log["exposures"]
    <2>1. Effect({ForwardTo(RoleOf[w]), "dlq"}, {RoleOf[w]}, {w})
      BY <1>3, LoopEffect DEF LoopActs
    <2>2. QED
      BY <1>1, <1>2, <2>1
  <1>4. ASSUME NEW w \in Workers, ForwardFails(w)
        PROVE  log'["events"] = log["events"] /\ log'["exposures"] = log["exposures"]
    <2>1. Effect({ForwardTo(RoleOf[w])}, {}, {w})
      BY <1>4, ForwardFailsEffect
    <2>2. QED
      BY <1>1, <1>2, <2>1
  <1>5. CASE RuntimeActs
    <2>1. Effect({"decisions"}, {}, {})
      BY <1>5, RuntimeEffect
    <2>2. QED
      BY <1>1, <2>1
  <1>6. CASE AttributionActs
    <2>1. Effect({}, {}, Registries \cup Attributors)
      BY <1>6, HandlerEffect, KeysEffect DEF AttributionActs
    <2>2. QED
      BY <1>1, <2>1
  <1>7. ASSUME NEW w \in Validators, ValidatorActs(w)
        PROVE  log'["events"] = log["events"] /\ log'["exposures"] = log["exposures"]
    BY <1>4, <1>7 DEF ValidatorActs, Validate, Validators
  <1>8. ASSUME NEW w \in Dedupers, DedupActs(w)
        PROVE  log'["events"] = log["events"] /\ log'["exposures"] = log["exposures"]
    BY <1>4, <1>8 DEF DedupActs, DedupStep, SeenOrMark, Exists, Insert, DedupFails,
       DedupForwardFails, ReplicaDies, Dedupers
  <1>9. ASSUME NEW c \in Ingesters, IngestActs(c)
        PROVE  log' = log
    BY <1>9 DEF IngestActs, IngestStep, TakeMessage, TakePoison, Tick, TakeBuffer, SendRows,
       SendRowsFails, CommitRows, CommitRowsFails
  <1>10. AnalyticsCrash \/ AnalyticsStops \/ UNCHANGED pipelineVars => log' = log
    BY DEF AnalyticsCrash, AnalyticsStops, Shutdown, pipelineVars, topicVars
  <1>11. QED
    BY <1>3, <1>5, <1>6, <1>7, <1>8, <1>9, <1>10 DEF PipelineNext

\* A message is only passed on by a worker that has read it from the topic before.
LEMMA NothingNew ==
    ASSUME DeliveryInv, Appended, HandsMove, log'["events"] = log["events"]
    PROVE  Known' = Known
  <1>1. /\ "events" \in Topics /\ "validated" \in Topics /\ "deduped" \in Topics
        /\ log \in [Topics -> Seq(Messages)] /\ ShapeOK
    BY DeliveryFacts, PipelineFacts DEF Topics
  <1>2. Known \subseteq Known'
    BY <1>1, AppendedKeeps DEF Known
  <1>3. ASSUME NEW t \in Topics, Passes(t)
        PROVE  IdsIn(log'[t]) \subseteq IdsIn(log[t]) \cup Known
    <2>1. CASE log'[t] = log[t]
      BY <2>1
    <2>2. CASE log'[t] # log[t]
      <3>1. PICK w \in Handlers : work[w] # NoWork /\ log'[t] = log[t] \o <<work[w].msg>>
        BY <1>3, <2>2 DEF Passes
      <3>2. w \in Workers /\ work[w].msg \in Messages /\ log[t] \in Seq(Messages)
        BY <1>1, <3>1 DEF Handlers, Validators, Dedupers, ShapeOK, Jobs
      <3>3. Id(w) \in Known
        BY <3>1 DEF DeliveryInv, HandsFromTopics, Handlers, Known
      <3>4. log'[t] = Append(log[t], work[w].msg)
        BY <3>1, <3>2, AppendIsConcat
      <3>5. ToSet(log'[t]) \subseteq ToSet(log[t]) \cup {work[w].msg}
        BY <3>2, <3>4, ToSetAppend
      <3>6. QED
        BY <3>3, <3>5 DEF IdsIn, Id
    <2>3. QED
      BY <2>1, <2>2
  <1>4. Known' \subseteq Known
    <2>1. /\ IdsIn(log'["validated"]) \subseteq IdsIn(log["validated"]) \cup Known
          /\ IdsIn(log'["deduped"]) \subseteq IdsIn(log["deduped"]) \cup Known
      BY <1>1, <1>3 DEF HandsMove
    <2>2. QED
      BY <2>1 DEF Known
  <1>5. QED
    BY <1>2, <1>4

\* What was released, or stored, stays so; what is stored was loose.
LEMMA RecordsGrow ==
    ASSUME DeliveryInv, [PipelineNext]_pipelineVars
    PROVE  /\ Appended /\ HandsMove /\ RowsMove
           /\ EventGone \subseteq EventGone' /\ ExposureGone \subseteq ExposureGone'
  <1>1. DedupView /\ IngestView
    BY DeliveryFacts, PipelineStep DEF Views
  <1>2. [DedupNext \/ Elsewhere]_vars
    BY <1>1 DEF DedupView, vars
  <1>3. Appended /\ HandsMove
    BY <1>2, DedupStepAppends, HandsMoveStep, DeliveryFacts
  <1>4. silenced \subseteq silenced' /\ lost \subseteq lost'
    BY <1>2, RecordKept
  <1>5. RowsMove
    BY <1>1, RowsMoveStep, DeliveryFacts DEF IngestView
  <1>6. "dlq" \in Topics /\ IdsIn(log["dlq"]) \subseteq IdsIn(log'["dlq"])
    BY <1>3, AppendedKeeps, DeliveryFacts DEF Topics
  <1>7. EventGone \subseteq EventGone'
    BY <1>4, <1>5, <1>6 DEF EventGone, LetGo, RowsMove
  <1>8. QED
    BY <1>3, <1>5, <1>7 DEF ExposureGone, RowsMove

LEMMA ProgressStep ==
    ASSUME DeliveryInv, [PipelineNext]_pipelineVars, ~ IntakeActs,
           EventsPlaced, EventsPlaced', ExposuresPlaced, ExposuresPlaced'
    PROVE  EventWay!Progress /\ ExposureWay!Progress
  <1>1. /\ Appended /\ HandsMove /\ RowsMove
        /\ EventGone \subseteq EventGone' /\ ExposureGone \subseteq ExposureGone'
    BY RecordsGrow
  <1>2. log'["events"] = log["events"] /\ log'["exposures"] = log["exposures"]
    BY DeliveryFacts, OthersForward
  <1>3. Known' = Known
    BY <1>1, <1>2, NothingNew
  <1>4. "event" \in KindSet /\ "exposure" \in KindSet
    BY KindFacts
  <1>5. /\ Loose("event") \subseteq OnTheWay /\ Loose("exposure") \subseteq ExposuresAhead
    BY DEF Loose, OnTheWay, ExposuresAhead
  <1>6. EventWay!Progress
    <2>1. /\ stored["event"] \subseteq stored'["event"]
          /\ stored'["event"] \subseteq stored["event"] \cup OnTheWay
      BY <1>1, <1>4, <1>5 DEF RowsMove, StoresOnly
    <2>2. IdsIn(log'["events"]) = IdsIn(log["events"])
      BY <1>2
    <2>3. QED
      BY <1>1, <1>3, <2>1, <2>2 DEF EventWay!Progress, EventGone, EventsPlaced
  <1>7. ExposureWay!Progress
    <2>1. /\ stored["exposure"] \subseteq stored'["exposure"]
          /\ stored'["exposure"] \subseteq stored["exposure"] \cup ExposuresAhead
      BY <1>1, <1>4, <1>5 DEF RowsMove, StoresOnly
    <2>2. IdsIn(log'["exposures"]) = IdsIn(log["exposures"])
      BY <1>2
    <2>3. QED
      BY <1>1, <2>1, <2>2
         DEF ExposureWay!Progress, ExposuresAhead, ExposureGone, ExposuresPlaced
  <1>8. QED
    BY <1>6, <1>7

EventsInHand == {Id(w) : w \in {v \in Validators \cup Dedupers : work[v] # NoWork}}

Beyond(msgs, n) == {msgs[k].id : k \in (n + 1)..Len(msgs)}

LEMMA AcceptedAhead ==
    ASSUME NEW old \in Seq(Messages), NEW msgs \in Seq(Messages), NEW n \in Nat, n <= Len(old)
    PROVE  /\ IdsIn(old \o msgs) = IdsIn(old) \cup IdsIn(msgs)
           /\ Beyond(old \o msgs, n) = Beyond(old, n) \cup IdsIn(msgs)
           /\ IdsIn(msgs) \in SUBSET Ids
  <1>. DEFINE all == old \o msgs
  <1>1. /\ Len(all) = Len(old) + Len(msgs) /\ Len(old) \in Nat /\ Len(msgs) \in Nat
        /\ \A k \in 1..Len(old) : all[k] = old[k]
        /\ \A k \in 1..Len(msgs) : all[Len(old) + k] = msgs[k]
    OBVIOUS
  <1>2. IdsIn(all) = IdsIn(old) \cup IdsIn(msgs)
    BY ToSetConcat DEF IdsIn
  <1>. HIDE DEF all
  <1>3. Beyond(all, n) \subseteq Beyond(old, n) \cup IdsIn(msgs)
    <2>. SUFFICES ASSUME NEW k \in (n + 1)..Len(all)
                  PROVE  all[k].id \in Beyond(old, n) \cup IdsIn(msgs)
      BY DEF Beyond
    <2>1. CASE k <= Len(old)
      BY <1>1, <2>1 DEF Beyond
    <2>2. CASE k > Len(old)
      <3>1. k - Len(old) \in 1..Len(msgs) /\ Len(old) + (k - Len(old)) = k
        BY <1>1, <2>2
      <3>2. all[k] = msgs[k - Len(old)]
        BY <1>1, <3>1
      <3>3. QED
        BY <3>1, <3>2 DEF IdsIn, ToSet
    <2>3. QED
      BY <1>1, <2>1, <2>2
  <1>4. Beyond(old, n) \subseteq Beyond(all, n)
    <2>1. \A k \in (n + 1)..Len(old) : k \in (n + 1)..Len(all) /\ all[k] = old[k]
      BY <1>1
    <2>2. QED
      BY <2>1 DEF Beyond
  <1>5. IdsIn(msgs) \subseteq Beyond(all, n)
    <2>. SUFFICES ASSUME NEW k \in 1..Len(msgs)
                  PROVE  msgs[k].id \in Beyond(all, n)
      BY <1>1 DEF IdsIn, ToSet
    <2>1. Len(old) + k \in (n + 1)..Len(all) /\ all[Len(old) + k] = msgs[k]
      BY <1>1
    <2>2. QED
      BY <2>1 DEF Beyond
  <1>6. IdsIn(msgs) \in SUBSET Ids
    <2>1. ToSet(msgs) \subseteq Messages
      BY DEF ToSet
    <2>2. QED
      BY <2>1 DEF IdsIn, Messages
  <1>7. QED
    BY <1>2, <1>3, <1>4, <1>5, <1>6 DEF all

\* What a request publishes is accepted and before a consumer.
LEMMA AcceptStep ==
    ASSUME DeliveryInv, IntakeActs, "ch_events" \in Ingesters, "ch_exposures" \in Ingesters
    PROVE  EventWay!Accept /\ ExposureWay!Accept
  <1>1. /\ Appended /\ \A t \in Topics \ Endpoints : log'[t] = log[t]
        /\ offset' = offset
    <2>1. ASSUME NEW i \in Ids, ExpireKey(i)
          PROVE  log' = log /\ offset' = offset
      BY <2>1 DEF ExpireKey
    <2>2. QED
      BY <2>1, RequestEffect, LogUnchanged, DeliveryFacts DEF IntakeActs
  <1>2. UNCHANGED <<work, lost, silenced, buffer, flush, cursor, stored, taken, passed>>
    BY DEF IntakeActs, consumerVars, dedupVars, ingestVars
  <1>3. /\ "events" \in Topics /\ "exposures" \in Topics
        /\ log'["validated"] = log["validated"] /\ log'["deduped"] = log["deduped"]
        /\ log'["dlq"] = log["dlq"]
    BY <1>1 DEF Topics, Endpoints
  <1>4. /\ SourceOf("validator") = "events" /\ SourceOf("dedup") = "validated"
        /\ SourceOf("ch_events") = "deduped" /\ SourceOf("ch_exposures") = "exposures"
    BY DEF SourceOf
  <1>5. PICK events \in Seq(Messages) : log'["events"] = log["events"] \o events
    BY <1>1, <1>3 DEF Appended
  <1>6. PICK exposures \in Seq(Messages) : log'["exposures"] = log["exposures"] \o exposures
    BY <1>1, <1>3 DEF Appended
  <1>7. /\ log["events"] \in Seq(Messages) /\ log["exposures"] \in Seq(Messages)
        /\ offset["validator"] \in Nat /\ offset["validator"] <= Len(log["events"])
        /\ cursor["ch_exposures"] \in Nat /\ cursor["ch_exposures"] <= Len(log["exposures"])
    <2>1. "validator" \in Readers
      BY DEF Readers
    <2>2. offset["validator"] <= Len(log["events"])
      BY DEF DeliveryInv, ValidatedInv
    <2>3. cursor["ch_exposures"] <= Len(log["exposures"])
      BY <1>4, DeliveryFacts DEF IngestInv, ConsumerOK, CursorOK
    <2>4. QED
      BY <1>3, <2>1, <2>2, <2>3, DeliveryFacts
  <1>8. \A i : InFlight(i)' = InFlight(i)
    BY <1>2 DEF InFlight, Sending, FlushKind
  <1>9. EventWay!Accept
    <2>. DEFINE new == IdsIn(events)
    <2>1. /\ IdsIn(log'["events"]) = IdsIn(log["events"]) \cup new
          /\ Beyond(log'["events"], offset["validator"])
                = Beyond(log["events"], offset["validator"]) \cup new
          /\ new \in SUBSET Ids
      BY <1>5, <1>7, AcceptedAhead
    <2>. HIDE DEF new
    <2>2. /\ Ahead("validator", offset["validator"]) = Beyond(log["events"], offset["validator"])
          /\ Ahead("validator", offset["validator"])'
                = Beyond(log'["events"], offset["validator"])
      BY <1>1, <1>4 DEF Ahead, Beyond
    <2>3. /\ Ahead("dedup", offset["dedup"])' = Ahead("dedup", offset["dedup"])
          /\ Ahead("ch_events", cursor["ch_events"])' = Ahead("ch_events", cursor["ch_events"])
      BY <1>1, <1>2, <1>3, <1>4 DEF Ahead
    <2>4. EventsInHand' = EventsInHand
      BY <1>2 DEF EventsInHand, Id
    <2>5. OnTheWay' = OnTheWay \cup new
      <3>1. OnTheWay = Beyond(log["events"], offset["validator"])
                         \cup Ahead("dedup", offset["dedup"])
                         \cup Ahead("ch_events", cursor["ch_events"])
                         \cup EventsInHand \cup ToSet(buffer["event"]) \cup InFlight("event")
        BY <2>2 DEF OnTheWay, EventsInHand
      <3>2. OnTheWay' = Ahead("validator", offset["validator"])'
                         \cup Ahead("dedup", offset["dedup"])'
                         \cup Ahead("ch_events", cursor["ch_events"])'
                         \cup EventsInHand' \cup ToSet(buffer'["event"]) \cup InFlight("event")'
        BY DEF OnTheWay, EventsInHand
      <3>3. QED
        BY <1>2, <1>8, <2>1, <2>2, <2>3, <2>4, <3>1, <3>2
    <2>6. EventGone' = EventGone /\ stored'["event"] = stored["event"]
      BY <1>2, <1>3 DEF EventGone, LetGo
    <2>7. QED
      BY <2>1, <2>5, <2>6 DEF EventWay!Accept, EventGone
  <1>10. ExposureWay!Accept
    <2>. DEFINE new == IdsIn(exposures)
    <2>1. /\ IdsIn(log'["exposures"]) = IdsIn(log["exposures"]) \cup new
          /\ Beyond(log'["exposures"], cursor["ch_exposures"])
                = Beyond(log["exposures"], cursor["ch_exposures"]) \cup new
          /\ new \in SUBSET Ids
      BY <1>6, <1>7, AcceptedAhead
    <2>. HIDE DEF new
    <2>2. /\ Ahead("ch_exposures", cursor["ch_exposures"])
                = Beyond(log["exposures"], cursor["ch_exposures"])
          /\ Ahead("ch_exposures", cursor["ch_exposures"])'
                = Beyond(log'["exposures"], cursor["ch_exposures"])
      BY <1>2, <1>4 DEF Ahead, Beyond
    <2>3. ExposuresAhead' = ExposuresAhead \cup new
      BY <1>2, <1>8, <2>1, <2>2 DEF ExposuresAhead
    <2>4. ExposureGone' = ExposureGone /\ stored'["exposure"] = stored["exposure"]
      BY <1>2 DEF ExposureGone
    <2>5. QED
      BY <2>1, <2>3, <2>4 DEF ExposureWay!Accept, ExposuresAhead, ExposureGone
  <1>11. QED
    BY <1>9, <1>10

\* Before anything is read, all of both topics is ahead.
LEMMA DeliveryStarts ==
    ASSUME NEW scenario \in PipelineScenarios, PipelineInit(scenario),
           "ch_events" \in Ingesters, "ch_exposures" \in Ingesters
    PROVE  EventWay!Init /\ ExposureWay!Init
  <1>1. /\ log \in [Topics -> Seq(Messages)] /\ offset = [c \in Readers |-> 0] /\ IngestInit
    BY PipelineStarts
  <1>2. /\ "validator" \in Readers /\ "ch_exposures" \in Readers /\ "event" \in KindSet
        /\ "exposure" \in KindSet /\ "events" \in Topics /\ "exposures" \in Topics
        /\ SourceOf("validator") = "events" /\ SourceOf("ch_exposures") = "exposures"
    BY KindFacts DEF Readers, Topics, SourceOf
  <1>3. /\ offset["validator"] = 0 /\ cursor["ch_exposures"] = 0
        /\ stored["event"] = {} /\ stored["exposure"] = {}
    BY <1>1, <1>2 DEF IngestInit
  <1>4. /\ IdsIn(log["events"]) \subseteq Ahead("validator", 0) \cup Behind("events", 0)
        /\ IdsIn(log["exposures"]) \subseteq Ahead("ch_exposures", 0) \cup Behind("exposures", 0)
    BY <1>1, <1>2, ReadOrAhead
  <1>5. Behind("events", 0) = {} /\ Behind("exposures", 0) = {}
    BY DEF Behind
  <1>6. QED
    BY <1>3, <1>4, <1>5 DEF EventWay!Init, ExposureWay!Init, OnTheWay

\* The pipeline implements the delivery of what the intake publishes: at least one
\* copy of each event stays under way, over three consumers that each commit before
\* they act, until it is stored, dead-lettered or let go by a failure; so does
\* each exposure.  Nothing is stored that was not under way, and what is on
\* record is never taken back: for any number of replicas, messages and failures.
THEOREM EventsDelivered ==
    ASSUME "ch_events" \in Ingesters, "ch_exposures" \in Ingesters
    PROVE  PipelineSpec => ImplementsDelivery
  <1>1. (\E scenario \in PipelineScenarios : PipelineInit(scenario)) =>
            EventWay!Init /\ ExposureWay!Init
    BY DeliveryStarts
  <1>2. DeliveryInv => EventsPlaced /\ ExposuresPlaced
    BY EventsWhere, ExposuresWhere
  <1>3. /\ DeliveryInv /\ [PipelineNext]_pipelineVars
        /\ EventsPlaced /\ EventsPlaced' /\ ExposuresPlaced /\ ExposuresPlaced'
        => /\ EventWay!Accept \/ EventWay!Progress
           /\ ExposureWay!Accept \/ ExposureWay!Progress
    BY AcceptStep, ProgressStep
  <1>4. QED
    BY <1>1, <1>2, <1>3, DeliveryInvariant, PTL
       DEF PipelineSpec, ImplementsDelivery, EventWay!Spec, ExposureWay!Spec

\* The abstract specification is enough: whatever behaves as it allows has every
\* accepted event, and every accepted exposure, under way, stored or released.
THEOREM DeliveryLosesNothing ==
    ImplementsDelivery => []EventWay!NothingLost /\ []ExposureWay!NothingLost
  <1>1. EventWay!Spec => []EventWay!NothingLost
    <2>1. EventWay!Init => EventWay!NothingLost
      BY DEF EventWay!Init, EventWay!NothingLost
    <2>2. EventWay!NothingLost
          /\ [EventWay!Accept \/ EventWay!Progress]_<<IdsIn(log["events"]), OnTheWay,
                stored["event"], LetGo \cup IdsIn(log["dlq"]) \cup Poison>>
          => EventWay!NothingLost'
      BY DEF EventWay!Accept, EventWay!Progress, EventWay!NothingLost
    <2>3. QED
      BY <2>1, <2>2, PTL DEF EventWay!Spec
  <1>2. ExposureWay!Spec => []ExposureWay!NothingLost
    <2>1. ExposureWay!Init => ExposureWay!NothingLost
      BY DEF ExposureWay!Init, ExposureWay!NothingLost
    <2>2. ExposureWay!NothingLost
          /\ [ExposureWay!Accept \/ ExposureWay!Progress]_<<IdsIn(log["exposures"]), ExposuresAhead,
                stored["exposure"], ExposureGone>>
          => ExposureWay!NothingLost'
      BY DEF ExposureWay!Accept, ExposureWay!Progress, ExposureWay!NothingLost, ExposuresAhead,
             ExposureGone
    <2>3. QED
      BY <2>1, <2>2, PTL DEF ExposureWay!Spec, ExposuresAhead, ExposureGone
  <1>3. QED
    BY <1>1, <1>2 DEF ImplementsDelivery

-----------------------------------------------------------------------------
(* Type correctness                                                        *)

LEMMA DedupTypesStep ==
    ASSUME PipelineInv, DedupTypeOK, DedupView
    PROVE  DedupTypeOK'
  <1>1. ShapeOK /\ SeenCap \in Nat \ {0} /\ <<>> \in Seq(Ids) /\ Len(<<>>) = 0
    BY PipelineFacts, DedupAssumption
  <1>2. CASE UNCHANGED dedupVars
    BY <1>2 DEF dedupVars, DedupTypeOK
  <1>3. ASSUME NEW w \in Dedupers, DedupStep(w)
        PROVE  DedupTypeOK'
    <2>1. w \in Workers /\ work[w] # NoWork /\ Id(w) \in Ids
      <3>1. work[w] # NoWork
        BY <1>3 DEF DedupStep, SeenOrMark, Exists, Insert, DedupFails, DedupForwardFails,
           ForwardFails, ReplicaDies, Busy
      <3>2. QED
        BY <1>1, <3>1, JobIds DEF Dedupers
    <2>2. /\ dedupKeys' \subseteq dedupKeys \cup {Id(w)}
          /\ silenced' \subseteq silenced \cup {Id(w)}
      BY <1>3 DEF DedupStep, SeenOrMark, Exists, Insert, DedupFails, DedupForwardFails,
         ReplicaDies, dedupVars
    <2>3. \/ seen' = seen
          \/ seen' = [seen EXCEPT ![w] = Remember(seen[w], Id(w))]
          \/ seen' = [seen EXCEPT ![w] = <<>>]
      BY <1>3 DEF DedupStep, SeenOrMark, Exists, Insert, DedupFails, DedupForwardFails,
         ReplicaDies, dedupVars
    <2>4. Remember(seen[w], Id(w)) \in Seq(Ids) /\ Len(Remember(seen[w], Id(w))) <= SeenCap
      <3>1. seen[w] \in Seq(Ids) /\ Len(seen[w]) <= SeenCap
        BY DEF DedupTypeOK
      <3>2. /\ Append(seen[w], Id(w)) \in Seq(Ids)
            /\ Len(Append(seen[w], Id(w))) = Len(seen[w]) + 1
        BY <2>1, <3>1
      <3>3. Len(Tail(Append(seen[w], Id(w)))) = Len(seen[w])
        BY <3>2, <3>1
      <3>4. QED
        BY <1>1, <2>1, <3>1, <3>2, <3>3, RememberMarks DEF Remember
    <2>5. seen' \in [Dedupers -> Seq(Ids)] /\ \A v \in Dedupers : Len(seen'[v]) <= SeenCap
      <3>1. /\ seen \in [Dedupers -> Seq(Ids)]
            /\ \A v \in Dedupers : Len(seen[v]) <= SeenCap
        BY DEF DedupTypeOK
      <3>2. ASSUME NEW marks \in Seq(Ids), Len(marks) <= SeenCap,
                   seen' = [seen EXCEPT ![w] = marks]
            PROVE  seen' \in [Dedupers -> Seq(Ids)] /\ \A v \in Dedupers : Len(seen'[v]) <= SeenCap
        BY <3>1, <3>2
      <3>3. Len(<<>>) <= SeenCap
        BY <1>1
      <3>4. QED
        BY <1>1, <2>3, <2>4, <3>1, <3>2, <3>3
    <2>6. QED
      BY <2>1, <2>2, <2>5 DEF DedupTypeOK
  <1>4. CASE DedupCrash
    BY <1>1, <1>4 DEF DedupCrash, DedupersDie, DedupTypeOK
  <1>5. QED
    BY <1>2, <1>3, <1>4 DEF DedupView, DedupNext, Elsewhere, Validate, dedupVars

\* The variables of the attribution that AttributionInv says nothing about.
RestTyped ==
    /\ due \in [DecisionIds -> {"none", "waiting", "due"}]
    /\ chances \in [DecisionIds -> Nat]
    /\ forgotten \subseteq Ids
    /\ unsure \subseteq Ids

LEMMA RestTypesStep ==
    ASSUME PipelineInv, AttributionInv, RestTyped, AttributionView
    PROVE  RestTyped'
  <1>1. CASE UNCHANGED attributionVars
    BY <1>1 DEF attributionVars, RestTyped
  <1>2. ASSUME NEW w \in Registries \cup Attributors, RegistryStep(w) \/ AttributorStep(w)
        PROVE  RestTyped'
    <2>1. w \in Workers /\ work[w] # NoWork /\ Id(w) \in Ids
      <3>1. work[w] # NoWork
        BY <1>2 DEF RegistryStep, AttributorStep, RegisterExposure,
           RegisterExposureFails, GetExposure, GetExposureFails, DeleteExposure,
           DeleteExposureFails, RegisterConversion, RegisterConversionFails, IndexConversion,
           IndexConversionFails, Busy
      <3>2. QED
        BY <3>1, JobIds, PipelineFacts DEF Registries, Attributors
    <2>2. /\ due' \in {due, [due EXCEPT ![Decision(w)] = "waiting"]}
          /\ chances' \in {chances, [chances EXCEPT ![Decision(w)] = @ + 1]}
          /\ forgotten' = forgotten
          /\ unsure' \in {unsure, unsure \cup {Id(w)}}
      BY <1>2 DEF RegistryStep, AttributorStep, RegisterExposure,
         RegisterExposureFails, GetExposure, GetExposureFails, DeleteExposure,
         DeleteExposureFails, RegisterConversion, RegisterConversionFails, IndexConversion,
         IndexConversionFails, Chance, redisVars
    <2>3. QED
      BY <2>1, <2>2 DEF RestTyped
  <1>3. CASE SweeperStep \/ TimePasses
    <2>1. KeysTyped /\ chances' = chances /\ unsure' = unsure
      BY <1>3 DEF PipelineInv, SweeperStep, TimePasses, ListExpired, GetConversion,
         DeleteConversion, UnindexConversion, SweepFails, ExposureExpires, ConversionDue,
         ConversionExpires, TimeFrame, SweepFrame
    <2>2. \/ due' = due
          \/ \E d : \E s \in {"none", "due"} : due' = [due EXCEPT ![d] = s]
      BY <1>3 DEF SweeperStep, TimePasses, ListExpired, GetConversion,
         DeleteConversion, UnindexConversion, SweepFails, ExposureExpires, ConversionDue,
         ConversionExpires
    <2>3. \/ forgotten' = forgotten
          \/ \E d \in DecisionIds :
                forgotten' \subseteq forgotten \cup ({conversionKeys[d]} \ {NoConversion})
      <3>1. sweep.at = "del" => sweep.decision \in DecisionIds
        BY DEF AttributionInv, SweepInv
      <3>2. QED
        BY <1>3, <3>1 DEF SweeperStep, TimePasses, ListExpired, GetConversion,
           DeleteConversion, UnindexConversion, SweepFails, ExposureExpires, ConversionDue,
           ConversionExpires, DropConversion
    <2>4. forgotten' \subseteq Ids
      BY <2>1, <2>3 DEF RestTyped, KeysTyped
    <2>5. due' \in [DecisionIds -> {"none", "waiting", "due"}]
      BY <2>2 DEF RestTyped
    <2>6. QED
      BY <2>1, <2>4, <2>5 DEF RestTyped
  <1>4. CASE AttributionCrash
    <2>1. /\ UNCHANGED <<due, forgotten, unsure>>
          /\ chances' = [d \in DecisionIds |->
                           chances[d] + Cardinality({w \in Attributors :
                             Busy(w, "unregister") /\ Decision(w) = d})]
      BY <1>4 DEF AttributionCrash, AttributionDies, redisVars
    <2>2. IsFiniteSet(Attributors)
      BY AttributionAssumption, FS_Subset DEF Attributors
    <2>3. ASSUME NEW d \in DecisionIds
          PROVE  Cardinality({w \in Attributors : Busy(w, "unregister") /\ Decision(w) = d}) \in Nat
      <3>1. {w \in Attributors : Busy(w, "unregister") /\ Decision(w) = d} \subseteq Attributors
        OBVIOUS
      <3>2. QED
        BY <2>2, <3>1, FS_Subset, FS_CardinalityType
    <2>4. QED
      BY <2>1, <2>3 DEF RestTyped
  <1>5. CASE AttributionLoop \/ Surroundings
    BY <1>1, <1>5 DEF AttributionLoop, Surroundings
  <1>6. QED
    BY <1>1, <1>2, <1>3, <1>4, <1>5 DEF AttributionView, AttributionNext

TypesInv == DedupTypeOK /\ RestTyped /\ cast \subseteq Components

\* All components keep their types together, for every value of the constants:
\* the topics, the batch endpoints, the consumers, the deduplication, the writer,
\* the attribution and the runtime.
THEOREM PipelineTypes == PipelineSpec => []PipelineTypeOK
  <1>1. (\E scenario \in PipelineScenarios : PipelineInit(scenario)) => TypesInv
    <2>. SUFFICES ASSUME NEW scenario \in PipelineScenarios, PipelineInit(scenario)
                  PROVE  TypesInv
      OBVIOUS
    <2>1. log \in [Topics -> Seq(Messages)] /\ DedupInit /\ AttributionInit
      BY PipelineStarts
    <2>2. \A i \in IdsIn(log["deduped"]) : i \in Ids
      <3>1. ToSet(log["deduped"]) \subseteq Messages
        BY <2>1 DEF ToSet, Topics
      <3>2. QED
        BY <3>1 DEF IdsIn, Messages
    <2>3. DedupTypeOK
      BY <2>1, <2>2, DedupAssumption DEF DedupInit, DedupTypeOK
    <2>4. RestTyped
      BY <2>1 DEF AttributionInit, RestTyped
    <2>5. cast \subseteq Components
      BY DEF PipelineInit, PipelineScenarios
    <2>6. QED
      BY <2>3, <2>4, <2>5 DEF TypesInv
  <1>2. Feeding /\ AttributionInv /\ TopicsFed' /\ TypesInv /\ [PipelineNext]_pipelineVars
            => TypesInv'
    <2>. SUFFICES ASSUME Feeding, AttributionInv, TopicsFed', TypesInv,
                         [PipelineNext]_pipelineVars
                  PROVE  TypesInv'
      OBVIOUS
    <2>1. DedupTypeOK' /\ RestTyped'
      BY PipelineStep, DedupTypesStep, RestTypesStep DEF Feeding, Views, TypesInv
    <2>2. cast' = cast
      BY DEF PipelineNext, IntakeActs, LoopActs, ValidatorActs, DedupActs, IngestActs,
         AttributionActs, RuntimeActs, AnalyticsCrash, AnalyticsStops, pipelineVars
    <2>3. QED
      BY <2>1, <2>2 DEF TypesInv
  <1>3. Feeding /\ AttributionInv /\ TypesInv => PipelineTypeOK
    BY DEF Feeding, PipelineInv, IntakeInv, IntakeShape, IngestInv, IngestTypes, DecideTypes,
       AttributionInv, Shape, KeysTyped, SweepStates, TypesInv, RestTyped, PipelineTypeOK,
       ConsumerTypeOK, AttributionTypeOK
  <1>4. QED
    BY <1>1, <1>2, <1>3, FeedingInvariant, TopicsAreFed, AttributionImplemented,
       AttributionInvariant, PTL DEF PipelineSpec
=============================================================================
