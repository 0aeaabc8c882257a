-------------------------- MODULE AttributionProofs --------------------------
(***************************************************************************)
(* The attribution for any number of workers, decisions and failures.      *)
(*                                                                         *)
(* The offset hands every event to one attributor, once.  From there an    *)
(* event is either in that attributor's hands before its outcome is known  *)
(* (Early), or it has a row, or it is the pending conversion of its        *)
(* decision: VerdictInv says which of these exclude each other.            *)
(***************************************************************************)
EXTENDS Attribution, SequenceTheorems, FiniteSetTheorems, TLAPS

attributionState == <<topicVars, consumerVars, ingestVars, attributionVars>>

\* The events the group of the attributors has committed.
IdsRead == {log["deduped"][k].id : k \in 1..offset["attributor"]}

Holds(w, i) == work[w] # NoWork /\ Id(w) = i

\* Steps at which the event of an attributor is not decided yet.
Early == {"handle", "register", "unregister"}

AttributorSteps == Early \cup {"index", "dead"}

SweepStates ==
    [todo : SUBSET DecisionIds, at : {"list", "get", "del", "rem"},
     decision : DecisionIds \cup {NoDecision}, read : Ids \cup {NoConversion}]

Shape ==
    /\ TopicsFed
    /\ work \in [Workers -> Jobs \cup {NoWork}]
    /\ offset \in [Readers -> Nat]
    /\ offset["attributor"] <= Len(log["deduped"])
    /\ exposureKeys \subseteq DecisionIds
    /\ conversionKeys \in [DecisionIds -> Ids \cup {NoConversion}]
    /\ verdicts \in [Ids -> SUBSET Arms]
    /\ sweep \in SweepStates

\* What a registry handles names a decision.
Registering == \A w \in Registries : work[w] # NoWork => Decision(w) \in DecisionIds

\* What an attributor handles was read, and no other attributor handles it.
HandsInv ==
    /\ \A w \in Attributors : work[w] # NoWork =>
         /\ Id(w) \in IdsRead
         /\ work[w].at \in AttributorSteps
         /\ work[w].at \in {"register", "unregister", "index"} => Decision(w) \in DecisionIds
    /\ \A v, w \in Attributors :
         (work[v] # NoWork /\ work[w] # NoWork /\ Id(v) = Id(w)) => v = w

\* Rows and keys are those of events that were read.
ReadInv ==
    /\ \A i \in Ids : verdicts[i] # {} => i \in IdsRead
    /\ \A d \in DecisionIds : conversionKeys[d] # NoConversion =>
         conversionKeys[d] \in IdsRead /\ DecisionOf[conversionKeys[d]] = d

SweepInv ==
    /\ sweep.at \in {"del", "rem"} => sweep.decision \in DecisionIds
    /\ (sweep.at = "del" /\ sweep.read # NoConversion) => verdicts[sweep.read] # {}

\* With a row or a key the event is in nobody's hands any more, or is past the
\* step that wrote it.
VerdictInv ==
    /\ \A w \in Attributors, i \in Ids :
         (Holds(w, i) /\ "experiment" \in verdicts[i]) => work[w].at = "unregister"
    /\ \A d \in DecisionIds, i \in Ids \ unsure : conversionKeys[d] = i =>
         /\ "experiment" \notin verdicts[i]
         /\ \A w \in Attributors : Holds(w, i) => work[w].at \notin Early
    /\ \A i \in Ids \ unsure : "bare" \in verdicts[i] =>
         \A w \in Attributors : Holds(w, i) => work[w].at \notin Early

\* An event between two steps of its attributor has left a trace already.
TraceInv ==
    \A w \in Attributors : work[w] # NoWork =>
        /\ work[w].at = "unregister" => verdicts[Id(w)] # {}
        /\ work[w].at = "index" => \/ conversionKeys[Decision(w)] = Id(w)
                                   \/ verdicts[Id(w)] # {}
                                   \/ Id(w) \in forgotten

Accounted(i) ==
    \/ DecisionOf[i] = NoDecision
    \/ verdicts[i] # {}
    \/ conversionKeys[DecisionOf[i]] = i
    \/ i \in IdsIn(log["dlq"]) \cup forgotten
    \/ <<"attributor", i>> \in lost
    \/ \E w \in Attributors : work[w] # NoWork /\ Id(w) = i

AllAccounted == \A i \in IdsRead : Accounted(i)

AttributionInv ==
    /\ Shape
    /\ Registering
    /\ HandsInv
    /\ ReadInv
    /\ SweepInv
    /\ VerdictInv
    /\ OneVerdict
    /\ TraceInv
    /\ AllAccounted

LEMMA AttributorFacts ==
    /\ \A w \in Attributors : w \in Workers /\ RoleOf[w] = "attributor" /\ w \notin Registries
    /\ \A w \in Registries : w \in Workers /\ RoleOf[w] = "registry" /\ w \notin Attributors
BY DEF Attributors, Registries

LEMMA Constants ==
    /\ DecisionOf \in [Ids -> DecisionIds \cup {NoDecision}]
    /\ NoDecision \notin DecisionIds
    /\ NoConversion \notin Ids
    /\ NoWork \notin Jobs
BY AttributionAssumption, WorkAssumption

LEMMA InitHolds == AttributionSpec => AttributionInv
<1>. SUFFICES ASSUME AttributionSpec PROVE AttributionInv
  OBVIOUS
<1>1. /\ TopicsFed
      /\ offset = [c \in Readers |-> 0]
      /\ work = [w \in Workers |-> NoWork]
      /\ exposureKeys = {}
      /\ conversionKeys = [d \in DecisionIds |-> NoConversion]
      /\ sweep = NoSweep
      /\ verdicts = [i \in Ids |-> {}]
  BY DEF AttributionSpec, ConsumerInit, AttributionInit
<1>2. offset["attributor"] = 0
  BY <1>1 DEF Readers
<1>3. IdsRead = {}
  BY <1>2 DEF IdsRead
<1>4. NoSweep \in SweepStates
  BY DEF NoSweep, SweepStates
<1>5. Len(log["deduped"]) \in Nat
  BY <1>1 DEF TopicsFed, NoCopies, Topics
<1>6. Shape
  BY <1>1, <1>2, <1>4, <1>5 DEF Shape
<1>7. \A w \in Attributors \cup Registries : work[w] = NoWork
  BY <1>1, AttributorFacts
<1>8. OneVerdict /\ VerdictInv
  BY <1>1, <1>7, Constants DEF OneVerdict, VerdictInv, Holds, Arms
<1>9. SweepInv
  BY <1>1 DEF SweepInv, NoSweep
<1>10. ReadInv
  BY <1>1, <1>3, Constants DEF ReadInv
<1>. QED
  BY <1>3, <1>6, <1>7, <1>8, <1>9, <1>10
  DEF AttributionInv, Registering, HandsInv, TraceInv, AllAccounted

-----------------------------------------------------------------------------
(* What a step does to the jobs of the workers                             *)

OtherJobs(w) == \A v \in Workers : v # w => work'[v] = work[v]

\* w keeps its message and goes on with one of the steps.
Becomes(w, steps) ==
    /\ work' \in [Workers -> Jobs \cup {NoWork}]
    /\ OtherJobs(w)
    /\ work'[w] # NoWork
    /\ work'[w].msg = work[w].msg
    /\ work'[w].at \in steps

Ends(w) ==
    /\ work' \in [Workers -> Jobs \cup {NoWork}]
    /\ OtherJobs(w)
    /\ work'[w] = NoWork

LEMMA EndsShape ==
    ASSUME Shape, NEW w \in Workers, work' = [work EXCEPT ![w] = NoWork]
    PROVE  Ends(w)
BY DEF Shape, Ends, OtherJobs

LEMMA DoneShape ==
    ASSUME Shape, NEW w \in Attributors \cup Registries, Done(w)
    PROVE  Ends(w)
<1>1. w \in Workers /\ ForwardTo(RoleOf[w]) = "none"
  BY AttributorFacts DEF ForwardTo
<1>. QED  BY <1>1, EndsShape DEF Done

LEMMA GotoJob ==
    ASSUME Shape, NEW w \in Workers, work[w] # NoWork,
           NEW step \in WorkSteps, Goto(w, step)
    PROVE  Becomes(w, {step})
<1>1. work[w] \in Jobs /\ work' = [work EXCEPT ![w] = [work[w] EXCEPT !.at = step]]
  BY DEF Shape, Goto
<1>2. [work[w] EXCEPT !.at = step] \in Jobs
  BY <1>1 DEF Jobs
<1>3. work'[w] = [work[w] EXCEPT !.at = step] /\ work'[w] # NoWork
  BY <1>1, <1>2, Constants DEF Shape
<1>. QED  BY <1>1, <1>2, <1>3 DEF Shape, Becomes, OtherJobs, Jobs

LEMMA FailedJob ==
    ASSUME Shape, NEW w \in Attributors \cup Registries, work[w] # NoWork, Failed(w)
    PROVE  Becomes(w, {"handle", "dead"})
<1>. DEFINE again == [work[w] EXCEPT !.attempt = @ + 1, !.at = "handle"]
            dead == [work[w] EXCEPT !.at = "dead"]
<1>1. w \in Workers /\ work[w] \in Jobs /\ RoleOf[w] # "validator"
  BY AttributorFacts DEF Shape
<1>2. MaxAttempts \in Nat
  BY ConsumerAssumption
<1>3. work[w].attempt < MaxAttempts =>
        again \in Jobs /\ again.at = "handle" /\ again.msg = work[w].msg
  <2>. SUFFICES ASSUME work[w].attempt < MaxAttempts
                PROVE  again \in Jobs /\ again.at = "handle" /\ again.msg = work[w].msg
    OBVIOUS
  <2>1. work[w].attempt + 1 \in 1..MaxAttempts
    BY <1>1, <1>2 DEF Jobs
  <2>. QED  BY <1>1, <2>1 DEF Jobs, WorkSteps, HandlerSteps
<1>4. dead \in Jobs /\ dead.at = "dead" /\ dead.msg = work[w].msg
  BY <1>1 DEF Jobs, WorkSteps
<1>5. work' = [work EXCEPT ![w] = IF work[w].attempt < MaxAttempts THEN again ELSE dead]
  BY <1>1 DEF Failed, Retry
<1>6. work'[w] = (IF work[w].attempt < MaxAttempts THEN again ELSE dead)
  BY <1>1, <1>5 DEF Shape
<1>7. OtherJobs(w)
  BY <1>5 DEF Shape, OtherJobs
<1>. HIDE DEF again, dead
<1>8. work'[w] \in Jobs /\ work'[w] # NoWork /\ work'[w].at \in {"handle", "dead"}
        /\ work'[w].msg = work[w].msg
  BY <1>3, <1>4, <1>6, Constants
<1>9. work' \in [Workers -> Jobs \cup {NoWork}]
  BY <1>1, <1>3, <1>4, <1>5 DEF Shape
<1>. QED  BY <1>7, <1>8, <1>9 DEF Becomes

-----------------------------------------------------------------------------
(* Steps that only add messages, or touch nothing the invariant is about   *)

\* Messages are appended; what was read stays where it was.
LogGrows ==
    /\ TopicsFed'
    /\ Len(log["deduped"]) <= Len(log'["deduped"])
    /\ \A k \in 1..Len(log["deduped"]) : log'["deduped"][k] = log["deduped"][k]
    /\ IdsIn(log["dlq"]) \subseteq IdsIn(log'["dlq"])

\* The attributors, the keys of conversions and the rows stand still.
Aside ==
    /\ LogGrows
    /\ offset' \in [Readers -> Nat]
    /\ offset'["attributor"] = offset["attributor"]
    /\ work' \in [Workers -> Jobs \cup {NoWork}]
    /\ \A w \in Attributors : work'[w] = work[w]
    /\ Registering'
    /\ lost \subseteq lost'
    /\ exposureKeys' \subseteq DecisionIds
    /\ UNCHANGED <<conversionKeys, verdicts, forgotten, unsure>>
    /\ sweep' \in SweepStates
    /\ sweep' = sweep \/ sweep'.at \in {"list", "get"}

LEMMA ReadGrows ==
    ASSUME Shape, LogGrows, offset' = offset \/ offset'["attributor"] = offset["attributor"]
    PROVE  IdsRead' = IdsRead
<1>1. offset["attributor"] \in Nat /\ Len(log["deduped"]) \in Nat
  BY DEF Shape, TopicsFed, NoCopies, Readers, Topics
<1>2. \A k \in 1..offset["attributor"] : log'["deduped"][k] = log["deduped"][k]
  BY <1>1 DEF Shape, LogGrows
<1>3. offset'["attributor"] = offset["attributor"]
  OBVIOUS
<1>. QED  BY <1>2, <1>3 DEF IdsRead

LEMMA ReadIds ==
    ASSUME Shape
    PROVE  IdsRead \subseteq Ids
<1>. SUFFICES ASSUME NEW i \in IdsRead PROVE i \in Ids
  OBVIOUS
<1>1. PICK k \in 1..offset["attributor"] : i = log["deduped"][k].id
  BY DEF IdsRead
<1>2. log["deduped"] \in Seq(Messages) /\ offset["attributor"] \in Nat
  BY DEF Shape, TopicsFed, NoCopies, Topics, Readers
<1>3. offset["attributor"] <= Len(log["deduped"])
  BY DEF Shape
<1>4. k \in 1..Len(log["deduped"])
  BY <1>2, <1>3
<1>5. log["deduped"][k] \in Messages
  BY <1>2, <1>4
<1>. QED  BY <1>1, <1>5 DEF Messages

LEMMA AsideKeeps == AttributionInv /\ Aside => AttributionInv'
<1>. SUFFICES ASSUME AttributionInv, Aside PROVE AttributionInv'
  OBVIOUS
<1>. USE DEF AttributionInv
<1>1. IdsRead' = IdsRead
  BY ReadGrows DEF Aside
<1>2. /\ \A w \in Attributors : work'[w] = work[w]
      /\ conversionKeys' = conversionKeys /\ verdicts' = verdicts
      /\ forgotten' = forgotten /\ unsure' = unsure
  BY DEF Aside
<1>3. Shape'
  <2>1. log \in [Topics -> Seq(Messages)] /\ log' \in [Topics -> Seq(Messages)]
    BY DEF Shape, TopicsFed, NoCopies, Aside, LogGrows
  <2>2. /\ offset["attributor"] \in Nat
        /\ Len(log["deduped"]) \in Nat /\ Len(log'["deduped"]) \in Nat
    <3>1. "deduped" \in Topics /\ "attributor" \in Readers
      BY DEF Topics, Readers
    <3>2. offset \in [Readers -> Nat]
      BY DEF Shape
    <3>3. log["deduped"] \in Seq(Messages) /\ log'["deduped"] \in Seq(Messages)
      BY <2>1, <3>1
    <3>. HIDE DEF AttributionInv
    <3>. QED  BY <3>1, <3>2, <3>3
  <2>. QED  BY <2>2, <1>2 DEF Shape, Aside, LogGrows
<1>4. Registering'
  BY DEF Aside
<1>5. HandsInv'
  BY <1>1, <1>2 DEF HandsInv, Id, Decision
<1>6. ReadInv'
  BY <1>1, <1>2 DEF ReadInv
<1>7. SweepInv'
  BY <1>2 DEF SweepInv, Aside
<1>8. VerdictInv' /\ OneVerdict'
  BY <1>2 DEF VerdictInv, OneVerdict, Holds, Id
<1>9. TraceInv'
  BY <1>2 DEF TraceInv, Id, Decision
<1>10. AllAccounted'
  <2>. SUFFICES ASSUME NEW i \in IdsRead PROVE Accounted(i)'
    BY <1>1 DEF AllAccounted
  <2>1. Accounted(i)
    BY DEF AllAccounted
  <2>2. IdsIn(log["dlq"]) \subseteq IdsIn(log'["dlq"]) /\ lost \subseteq lost'
    BY DEF Aside, LogGrows
  <2>. QED  BY <2>1, <2>2, <1>2 DEF Accounted, Id
<1>. QED  BY <1>3, <1>4, <1>5, <1>6, <1>7, <1>8, <1>9, <1>10

LEMMA LogStays == Shape /\ UNCHANGED log => LogGrows
BY DEF Shape, LogGrows, TopicsFed, NoCopies

\* Where a registry has one message and nothing else of it has changed.
LEMMA RegistryMoves ==
    ASSUME AttributionInv, NEW w \in Registries,
           Ends(w) \/ (work[w] # NoWork /\ Becomes(w, {"handle", "dead"}))
    PROVE  /\ work' \in [Workers -> Jobs \cup {NoWork}]
           /\ \A v \in Attributors : work'[v] = work[v]
           /\ Registering'
<1>1. \A v \in Attributors \cup Registries : v # w => work'[v] = work[v]
  BY AttributorFacts DEF Ends, Becomes, OtherJobs
<1>2. work'[w] # NoWork => work'[w].msg = work[w].msg /\ work[w] # NoWork
  BY DEF Ends, Becomes
<1>3. \A v \in Registries : work'[v] # NoWork => DecisionOf[work'[v].msg.id] \in DecisionIds
  BY <1>1, <1>2 DEF AttributionInv, Registering, Id, Decision
<1>. QED  BY <1>1, <1>3, AttributorFacts DEF Ends, Becomes, Registering, Id, Decision

LEMMA RegistryKeeps ==
    ASSUME AttributionInv, NEW w \in Registries, RegistryStep(w)
    PROVE  AttributionInv'
<1>1. Shape /\ work[w] # NoWork /\ Decision(w) \in DecisionIds
  BY DEF AttributionInv, Registering, RegistryStep, RegisterExposure, RegisterExposureFails, Busy
<1>2. Ends(w) \/ Becomes(w, {"handle", "dead"})
  BY <1>1, DoneShape, FailedJob DEF RegistryStep, RegisterExposure, RegisterExposureFails
<1>3. exposureKeys' \subseteq DecisionIds
  BY <1>1 DEF Shape, RegistryStep, RegisterExposure, RegisterExposureFails
<1>4. UNCHANGED <<log, offset, lost, conversionKeys, verdicts, forgotten, unsure, sweep>>
  BY DEF RegistryStep, RegisterExposure, RegisterExposureFails, HandlerFrame, NoRow
<1>. QED
  BY <1>1, <1>2, <1>3, <1>4, RegistryMoves, LogStays, AsideKeeps DEF Aside, Shape

\* A message moves to the dead-letter topic.
LEMMA DeadGrows ==
    ASSUME Shape, NEW m \in Messages, Write("dlq", <<m>>)
    PROVE  LogGrows /\ m.id \in IdsIn(log'["dlq"])
<1>1. log \in [Topics -> Seq(Messages)] /\ "dlq" \in Topics
  BY DEF Shape, TopicsFed, NoCopies, Topics
<1>2. log["dlq"] \in Seq(Messages) /\ <<m>> \in Seq(Messages)
  BY <1>1
<1>3. /\ log' \in [Topics -> Seq(Messages)]
      /\ log'["dlq"] = log["dlq"] \o <<m>>
      /\ log'["deduped"] = log["deduped"] /\ log'["exposures"] = log["exposures"]
  BY <1>1, <1>2 DEF Write
<1>4. TopicsFed'
  BY <1>3 DEF Shape, TopicsFed, NoCopies
<1>5. ToSet(log'["dlq"]) = ToSet(log["dlq"]) \cup {m}
  <2>. DEFINE s == log["dlq"]
              t == log["dlq"] \o <<m>>
  <2>1. /\ Len(s) \in Nat /\ DOMAIN s = 1..Len(s) /\ DOMAIN t = 1..(Len(s) + 1)
        /\ \A k \in 1..Len(s) : t[k] = s[k]
        /\ t[Len(s) + 1] = m
    BY <1>2
  <2>. HIDE DEF s, t
  <2>2. 1..(Len(s) + 1) = (1..Len(s)) \cup {Len(s) + 1}
    BY <2>1
  <2>3. \A x : x \in ToSet(t) <=> (x \in ToSet(s) \/ x = m)
    BY <2>1, <2>2 DEF ToSet
  <2>. QED  BY <2>3, <1>3 DEF s, t
<1>6. IdsIn(log["dlq"]) \subseteq IdsIn(log'["dlq"]) /\ m.id \in IdsIn(log'["dlq"])
  BY <1>5 DEF IdsIn
<1>7. Len(log["deduped"]) \in Nat
  BY <1>1 DEF Topics
<1>. QED  BY <1>3, <1>4, <1>6, <1>7 DEF LogGrows

LEMMA RegistryLoopKeeps ==
    ASSUME AttributionInv, NEW w \in Registries, LoopStep(w),
           UNCHANGED <<ingestVars, attributionVars>>
    PROVE  AttributionInv'
<1>1. /\ Shape /\ Registering
      /\ w \in Workers /\ RoleOf[w] = "registry"
  BY AttributorFacts DEF AttributionInv
<1>2. /\ exposureKeys' \subseteq DecisionIds
      /\ UNCHANGED <<conversionKeys, verdicts, forgotten, unsure, sweep>>
      /\ sweep \in SweepStates
  BY <1>1 DEF Shape, attributionVars
<1>3. "registry" \in Readers /\ "attributor" \in Readers /\ offset \in [Readers -> Nat]
  BY <1>1 DEF Shape, Readers
<1>4. CASE ReadMessage(w)
  <2>. DEFINE m == log["exposures"][offset["registry"] + 1]
              job == [msg |-> m, attempt |-> 1, at |-> "handle"]
  <2>1. /\ offset["registry"] < Len(log["exposures"])
        /\ work' = [work EXCEPT ![w] = job]
        /\ offset' = [offset EXCEPT !["registry"] = @ + 1]
        /\ UNCHANGED <<log, lost>>
    BY <1>1, <1>4 DEF ReadMessage, SourceOf
  <2>2. log["exposures"] \in Seq(Messages)
    BY <1>1 DEF Shape, TopicsFed, NoCopies, Topics
  <2>3. offset["registry"] + 1 \in 1..Len(log["exposures"])
    BY <1>3, <2>1, <2>2
  <2>4. m \in Messages /\ DecisionOf[m.id] \in DecisionIds
    BY <1>1, <2>2, <2>3 DEF Shape, TopicsFed, NoCopies
  <2>5. job \in Jobs
    BY <2>4, ConsumerAssumption DEF Jobs, WorkSteps, HandlerSteps
  <2>6. work' \in [Workers -> Jobs \cup {NoWork}] /\ \A v \in Workers : v # w => work'[v] = work[v]
    BY <1>1, <2>1, <2>5 DEF Shape
  <2>7. work'[w] = job
    BY <1>1, <2>1 DEF Shape
  <2>8. \A v \in Attributors : work'[v] = work[v]
    BY <2>6, AttributorFacts
  <2>9. \A v \in Registries : work'[v] # NoWork => DecisionOf[work'[v].msg.id] \in DecisionIds
    BY <1>1, <2>4, <2>6, <2>7, AttributorFacts DEF Registering, Id, Decision
  <2>10. Registering'
    BY <2>9 DEF Registering, Id, Decision
  <2>11. offset' \in [Readers -> Nat] /\ offset'["attributor"] = offset["attributor"]
    BY <1>3, <2>1
  <2>. QED
    BY <1>1, <1>2, <2>1, <2>6, <2>8, <2>10, <2>11, LogStays, AsideKeeps DEF Aside
<1>5. CASE Forward(w)
  <2>1. Write("none", <<work[w].msg>>) /\ work' = [work EXCEPT ![w] = NoWork]
          /\ UNCHANGED <<offset, lost>>
    BY <1>1, <1>5 DEF Forward, ForwardTo
  <2>2. log' = log
    BY <1>1, <2>1 DEF Write, Shape, TopicsFed, NoCopies, Topics
  <2>3. Ends(w)
    BY <1>1, <2>1, EndsShape
  <2>. QED
    BY <1>1, <1>2, <1>3, <2>1, <2>2, <2>3, RegistryMoves, LogStays, AsideKeeps DEF Aside
<1>6. CASE SendDLQ(w)
  <2>1. /\ work[w] # NoWork /\ Write("dlq", <<work[w].msg>>)
        /\ work' = [work EXCEPT ![w] = NoWork] /\ UNCHANGED <<offset, lost>>
    BY <1>6 DEF SendDLQ, Busy
  <2>2. work[w].msg \in Messages
    BY <1>1, <2>1 DEF Shape, Jobs
  <2>3. Ends(w) /\ LogGrows
    BY <1>1, <2>1, <2>2, EndsShape, DeadGrows
  <2>. QED
    BY <1>2, <1>3, <2>1, <2>3, RegistryMoves, AsideKeeps DEF Aside
<1>7. CASE SendDLQFails(w)
  <2>1. /\ work' = [work EXCEPT ![w] = NoWork]
        /\ lost \subseteq lost' /\ UNCHANGED <<log, offset>>
    BY <1>7 DEF SendDLQFails
  <2>2. Ends(w)
    BY <1>1, <2>1, EndsShape
  <2>. QED
    BY <1>1, <1>2, <1>3, <2>1, <2>2, RegistryMoves, LogStays, AsideKeeps DEF Aside
<1>8. CASE ReadMessageFails(w)
  <2>1. /\ offset' = [offset EXCEPT !["registry"] = @ + 1]
        /\ UNCHANGED <<log, work>> /\ lost \subseteq lost'
    BY <1>1, <1>8 DEF ReadMessageFails
  <2>2. offset' \in [Readers -> Nat] /\ offset'["attributor"] = offset["attributor"]
    BY <1>3, <2>1
  <2>3. work' \in [Workers -> Jobs \cup {NoWork}] /\ Registering'
    BY <1>1, <2>1 DEF Shape, Registering, Id, Decision
  <2>. QED
    BY <1>1, <1>2, <2>1, <2>2, <2>3, LogStays, AsideKeeps DEF Aside
<1>. QED  BY <1>4, <1>5, <1>6, <1>7, <1>8 DEF LoopStep

LEMMA SurroundingsKeep == AttributionInv /\ Surroundings => AttributionInv'
<1>. SUFFICES ASSUME AttributionInv, Surroundings PROVE AttributionInv'
  OBVIOUS
<1>1. Shape /\ Registering
  BY DEF AttributionInv
<1>2. /\ \A t \in Topics : \E msgs \in Seq(Messages) : log'[t] = log[t] \o msgs
      /\ TopicsFed'
      /\ offset' \in [Readers -> Nat] /\ offset'["attributor"] = offset["attributor"]
      /\ work' \in [Workers -> Jobs \cup {NoWork}]
      /\ \A w \in Registries \cup Attributors : work'[w] = work[w]
      /\ lost \subseteq lost'
      /\ UNCHANGED attributionVars
  BY DEF Surroundings
<1>3. log \in [Topics -> Seq(Messages)] /\ "deduped" \in Topics /\ "dlq" \in Topics
  BY <1>1 DEF Shape, TopicsFed, NoCopies, Topics
<1>4. ASSUME NEW t \in Topics
      PROVE  /\ Len(log[t]) <= Len(log'[t])
             /\ \A k \in 1..Len(log[t]) : log'[t][k] = log[t][k]
             /\ IdsIn(log[t]) \subseteq IdsIn(log'[t])
  <2>1. PICK msgs \in Seq(Messages) : log'[t] = log[t] \o msgs
    BY <1>2
  <2>. DEFINE s == log[t]
              u == log[t] \o msgs
  <2>2. /\ Len(s) \in Nat /\ Len(u) \in Nat /\ Len(s) <= Len(u)
        /\ DOMAIN s = 1..Len(s) /\ DOMAIN u = 1..Len(u)
        /\ \A k \in 1..Len(s) : u[k] = s[k]
    BY <1>3
  <2>. HIDE DEF s, u
  <2>3. \A x : x \in ToSet(s) => x \in ToSet(u)
    BY <2>2 DEF ToSet
  <2>4. IdsIn(s) \subseteq IdsIn(u)
    BY <2>3 DEF IdsIn
  <2>. QED  BY <2>1, <2>2, <2>4 DEF s, u
<1>5. LogGrows
  BY <1>2, <1>3, <1>4 DEF LogGrows
<1>6. Registering'
  BY <1>1, <1>2 DEF Registering, Id, Decision
<1>. QED
  BY <1>1, <1>2, <1>5, <1>6, AsideKeeps DEF Aside, attributionVars, Shape

-----------------------------------------------------------------------------
(* Time and the sweeper                                                    *)

LEMMA NextDecisionShape ==
    ASSUME Shape, NEW d, NextDecision(d)
    PROVE  sweep' \in SweepStates /\ sweep'.at \in {"list", "get"}
<1>. DEFINE more == [NoSweep EXCEPT !.todo = sweep.todo \ {d}, !.at = "get"]
<1>1. sweep.todo \subseteq DecisionIds
  BY DEF Shape, SweepStates
<1>2. NoSweep \in SweepStates /\ NoSweep.at = "list"
  BY DEF NoSweep, SweepStates
<1>3. more \in SweepStates /\ more.at = "get"
  BY <1>1 DEF NoSweep, SweepStates
<1>4. sweep' \in {NoSweep, more}
  BY DEF NextDecision
<1>. QED  BY <1>2, <1>3, <1>4

\* The key of d is gone, and what it held is on record or has a row.
KeyGone(d) ==
    /\ conversionKeys' = [conversionKeys EXCEPT ![d] = NoConversion]
    /\ forgotten \subseteq forgotten'
    /\ conversionKeys[d] # NoConversion =>
         conversionKeys[d] \in forgotten' \/ verdicts[conversionKeys[d]] # {}
    /\ sweep' \in SweepStates
    /\ SweepInv'
    /\ UNCHANGED <<log, offset, work, lost, exposureKeys, verdicts, unsure>>

LEMMA KeyGoneKeeps ==
    ASSUME AttributionInv, NEW d \in DecisionIds, KeyGone(d)
    PROVE  AttributionInv'
<1>. USE DEF AttributionInv
<1>1. /\ \A e \in DecisionIds : e # d => conversionKeys'[e] = conversionKeys[e]
      /\ conversionKeys'[d] = NoConversion
      /\ conversionKeys' \in [DecisionIds -> Ids \cup {NoConversion}]
  BY DEF Shape, KeyGone
<1>2. /\ forgotten \subseteq forgotten'
      /\ log' = log /\ offset' = offset /\ work' = work /\ lost' = lost
      /\ exposureKeys' = exposureKeys /\ verdicts' = verdicts /\ unsure' = unsure
  BY DEF KeyGone
<1>3. IdsRead' = IdsRead
  BY <1>2 DEF IdsRead
<1>4. ASSUME NEW i \in Ids, NEW e \in DecisionIds, conversionKeys[e] = i
      PROVE  conversionKeys'[e] = i \/ verdicts[i] # {} \/ i \in forgotten'
  BY <1>1, <1>4, Constants DEF KeyGone
<1>5. Shape'
  BY <1>1, <1>2 DEF Shape, TopicsFed, NoCopies, KeyGone
<1>6. Registering' /\ HandsInv'
  BY <1>2, <1>3 DEF Registering, HandsInv, Id, Decision
<1>7. ReadInv'
  BY <1>1, <1>2, <1>3 DEF ReadInv
<1>8. VerdictInv' /\ OneVerdict'
  <2>1. \A e \in DecisionIds, i \in Ids : conversionKeys'[e] = i => conversionKeys[e] = i
    BY <1>1, Constants
  <2>. QED  BY <1>2, <2>1 DEF VerdictInv, OneVerdict, Holds, Id
<1>9. \A w \in Attributors : work[w] # NoWork => Id(w) \in Ids
  BY AttributorFacts DEF Shape, Id, Jobs, Messages
<1>10. TraceInv'
  <2>. SUFFICES ASSUME NEW w \in Attributors, work[w] # NoWork, work[w].at = "index"
                PROVE  \/ conversionKeys'[Decision(w)] = Id(w)
                       \/ verdicts[Id(w)] # {}
                       \/ Id(w) \in forgotten'
    BY <1>2 DEF TraceInv, Id, Decision
  <2>1. Decision(w) \in DecisionIds /\ Id(w) \in Ids
    BY <1>9 DEF HandsInv
  <2>2. \/ conversionKeys[Decision(w)] = Id(w)
        \/ verdicts[Id(w)] # {}
        \/ Id(w) \in forgotten
    BY DEF TraceInv
  <2>. QED  BY <1>2, <1>4, <2>1, <2>2
<1>11. AllAccounted'
  <2>. SUFFICES ASSUME NEW i \in IdsRead PROVE Accounted(i)'
    BY <1>3 DEF AllAccounted
  <2>1. Accounted(i)
    BY DEF AllAccounted
  <2>2. i \in Ids
    BY ReadIds
  <2>3. DecisionOf[i] \in DecisionIds \/ DecisionOf[i] = NoDecision
    BY <2>2, Constants
  <2>4. (DecisionOf[i] \in DecisionIds /\ conversionKeys[DecisionOf[i]] = i)
          => conversionKeys'[DecisionOf[i]] = i \/ verdicts[i] # {} \/ i \in forgotten'
    BY <1>4, <2>2
  <2>. QED  BY <1>2, <2>1, <2>3, <2>4 DEF Accounted, Id
<1>. QED  BY <1>5, <1>6, <1>7, <1>8, <1>10, <1>11 DEF KeyGone

\* What neither time nor the sweeper touches.
LEMMA TimeKeeps == AttributionInv /\ TimePasses => AttributionInv'
<1>. SUFFICES ASSUME AttributionInv, NEW d \in DecisionIds,
                     ExposureExpires(d) \/ ConversionDue(d) \/ ConversionExpires(d)
              PROVE  AttributionInv'
  BY DEF TimePasses
<1>1. Shape /\ Registering /\ SweepInv
  BY DEF AttributionInv
<1>2. UNCHANGED <<log, offset, work, lost, sweep, verdicts, unsure>>
  BY DEF ExposureExpires, ConversionDue, ConversionExpires, TimeFrame, topicVars, consumerVars
<1>3. CASE ExposureExpires(d) \/ ConversionDue(d)
  <2>1. exposureKeys' \subseteq DecisionIds /\ UNCHANGED <<conversionKeys, forgotten>>
    BY <1>1, <1>3 DEF ExposureExpires, ConversionDue, Shape
  <2>2. Registering'
    BY <1>1, <1>2 DEF Registering, Id, Decision
  <2>. QED
    BY <1>1, <1>2, <2>1, <2>2, LogStays, AsideKeeps DEF Aside, Shape
<1>4. CASE ConversionExpires(d)
  <2>1. SweepInv'
    BY <1>1, <1>2 DEF SweepInv
  <2>2. KeyGone(d)
    BY <1>1, <1>2, <1>4, <2>1 DEF ConversionExpires, KeyGone, Shape
  <2>. QED  BY <2>2, KeyGoneKeeps
<1>. QED  BY <1>3, <1>4

LEMMA GetConversionKeeps ==
    ASSUME AttributionInv, GetConversion PROVE AttributionInv'
<1>. USE DEF AttributionInv
<1>1. PICK d \in sweep.todo :
        /\ sweep' = [sweep EXCEPT !.at = "del", !.decision = d, !.read = conversionKeys[d]]
        /\ IF conversionKeys[d] = NoConversion THEN NoRow
                                               ELSE WriteRow(conversionKeys[d], "bare")
  BY DEF GetConversion
<1>2. /\ d \in DecisionIds
      /\ conversionKeys[d] \in Ids \cup {NoConversion}
      /\ verdicts \in [Ids -> SUBSET Arms]
      /\ sweep \in SweepStates
  BY DEF Shape, SweepStates
<1>3. UNCHANGED <<log, offset, work, lost, exposureKeys, unsure, conversionKeys, forgotten>>
  BY DEF GetConversion, SweepFrame, consumerVars
<1>4. /\ verdicts' \in [Ids -> SUBSET Arms]
      /\ \A i \in Ids : verdicts'[i] = IF i = conversionKeys[d] THEN verdicts[i] \cup {"bare"}
                                                                 ELSE verdicts[i]
  <2>1. CASE conversionKeys[d] = NoConversion
    BY <1>1, <1>2, <2>1, Constants DEF NoRow
  <2>2. CASE conversionKeys[d] # NoConversion
    <3>1. verdicts' = [verdicts EXCEPT ![conversionKeys[d]] = @ \cup {"bare"}]
      BY <1>1, <2>2 DEF WriteRow
    <3>. QED  BY <1>2, <2>2, <3>1 DEF Arms
  <2>. QED  BY <2>1, <2>2
<1>5. /\ sweep' \in SweepStates /\ sweep'.at = "del"
      /\ sweep'.decision = d /\ sweep'.read = conversionKeys[d]
  BY <1>1, <1>2 DEF SweepStates
<1>6. IdsRead' = IdsRead
  BY <1>3 DEF IdsRead
<1>7. Shape'
  BY <1>3, <1>4, <1>5 DEF Shape, TopicsFed, NoCopies
<1>8. Registering' /\ HandsInv'
  BY <1>3, <1>6 DEF Registering, HandsInv, Id, Decision
<1>9. ReadInv'
  <2>1. \A i \in Ids : verdicts'[i] # {} => i \in IdsRead
    BY <1>2, <1>4, Constants DEF ReadInv
  <2>. QED  BY <1>3, <1>6, <2>1 DEF ReadInv
<1>10. SweepInv'
  BY <1>2, <1>4, <1>5 DEF SweepInv
<1>11. \A i \in Ids : "experiment" \in verdicts'[i] <=> "experiment" \in verdicts[i]
  BY <1>4
<1>12. \A i \in Ids : "bare" \in verdicts'[i] => i = conversionKeys[d] \/ "bare" \in verdicts[i]
  BY <1>4
<1>13. VerdictInv'
  BY <1>2, <1>3, <1>11, <1>12 DEF VerdictInv, Holds, Id
<1>14. OneVerdict'
  <2>. SUFFICES ASSUME NEW i \in Ids, verdicts'[i] = Arms PROVE i \in unsure
    BY <1>3 DEF OneVerdict
  <2>1. "experiment" \in verdicts[i] /\ (i = conversionKeys[d] \/ "bare" \in verdicts[i])
    BY <1>11, <1>12 DEF Arms
  <2>2. CASE i = conversionKeys[d]
    BY <1>2, <2>1, <2>2 DEF VerdictInv
  <2>3. CASE "bare" \in verdicts[i]
    BY <1>2, <2>1, <2>3 DEF OneVerdict, Arms
  <2>. QED  BY <2>1, <2>2, <2>3
<1>15. \A i \in Ids : verdicts[i] # {} => verdicts'[i] # {}
  BY <1>4
<1>16. \A w \in Attributors : work[w] # NoWork => Id(w) \in Ids
  BY AttributorFacts DEF Shape, Id, Jobs, Messages
<1>17. TraceInv'
  BY <1>3, <1>15, <1>16 DEF TraceInv, Id, Decision
<1>18. AllAccounted'
  <2>. SUFFICES ASSUME NEW i \in IdsRead PROVE Accounted(i)'
    BY <1>6 DEF AllAccounted
  <2>1. Accounted(i)
    BY DEF AllAccounted
  <2>2. verdicts[i] # {} => verdicts'[i] # {}
    BY <1>4, ReadIds DEF Shape
  <2>. QED  BY <1>3, <2>1, <2>2 DEF Accounted, Id
<1>. QED  BY <1>7, <1>8, <1>9, <1>10, <1>13, <1>14, <1>17, <1>18

LEMMA SweeperKeeps == AttributionInv /\ SweeperStep => AttributionInv'
<1>. SUFFICES ASSUME AttributionInv, SweeperStep PROVE AttributionInv'
  OBVIOUS
<1>1. Shape /\ Registering /\ SweepInv
  BY DEF AttributionInv
<1>2. /\ UNCHANGED <<log, offset, work, lost, exposureKeys, unsure>>
      /\ sweep \in SweepStates /\ sweep.todo \subseteq DecisionIds
      /\ \/ sweep.at = "list"
         \/ sweep.at = "get"
         \/ sweep.at \in {"del", "rem"} /\ sweep.decision \in DecisionIds
  BY <1>1 DEF SweeperStep, ListExpired, GetConversion, DeleteConversion,
              UnindexConversion, SweepFails, SweepFrame, consumerVars, Shape, SweepStates, SweepInv
<1>3. ASSUME UNCHANGED <<conversionKeys, verdicts, forgotten>>,
             sweep' \in SweepStates, sweep'.at \in {"list", "get"}
      PROVE  AttributionInv'
  <2>1. Registering'
    BY <1>1, <1>2 DEF Registering, Id, Decision
  <2>. QED
    BY <1>1, <1>2, <1>3, <2>1, LogStays, AsideKeeps DEF Aside, Shape
<1>4. ASSUME sweep.at = "del", DropConversion(sweep.decision), UNCHANGED verdicts,
             sweep' \in SweepStates, sweep'.at \in {"list", "get", "rem"},
             sweep'.at = "rem" => sweep'.decision = sweep.decision
      PROVE  AttributionInv'
  <2>1. sweep.decision \in DecisionIds /\ SweepInv'
    BY <1>2, <1>4 DEF SweepInv
  <2>2. KeyGone(sweep.decision)
    BY <1>1, <1>2, <1>4, <2>1 DEF KeyGone, DropConversion, SweepInv
  <2>. QED  BY <2>1, <2>2, KeyGoneKeeps
<1>5. CASE ListExpired
  <2>1. /\ sweep' = [sweep EXCEPT !.todo = {d \in DecisionIds : due[d] = "due"}, !.at = "get"]
        /\ UNCHANGED <<conversionKeys, verdicts, forgotten>>
    BY <1>5 DEF ListExpired, NoRow
  <2>2. sweep' \in SweepStates /\ sweep'.at = "get"
    BY <1>2, <2>1 DEF SweepStates
  <2>. QED  BY <1>3, <2>1, <2>2
<1>6. CASE GetConversion
  BY <1>6, GetConversionKeeps
<1>7. CASE DeleteConversion
  <2>1. /\ sweep.at = "del" /\ DropConversion(sweep.decision) /\ UNCHANGED verdicts
        /\ sweep' = [sweep EXCEPT !.at = "rem"]
    BY <1>7 DEF DeleteConversion, NoRow
  <2>2. sweep' \in SweepStates /\ sweep'.at = "rem" /\ sweep'.decision = sweep.decision
    BY <1>2, <2>1 DEF SweepStates
  <2>. QED  BY <1>4, <2>1, <2>2
<1>8. CASE UnindexConversion
  <2>1. NextDecision(sweep.decision) /\ UNCHANGED <<conversionKeys, verdicts, forgotten>>
    BY <1>8 DEF UnindexConversion, NoRow
  <2>. QED  BY <1>1, <1>3, <2>1, NextDecisionShape
<1>9. CASE SweepFails
  <2>1. PICK d : NextDecision(d)
    BY <1>9 DEF SweepFails
  <2>2. sweep' \in SweepStates /\ sweep'.at \in {"list", "get"} /\ UNCHANGED verdicts
    BY <1>1, <1>9, <2>1, NextDecisionShape DEF SweepFails, NoRow
  <2>3. \/ UNCHANGED <<conversionKeys, forgotten>>
        \/ sweep.at = "del" /\ DropConversion(sweep.decision)
    BY <1>9 DEF SweepFails
  <2>. QED  BY <1>3, <1>4, <2>2, <2>3
<1>. QED  BY <1>5, <1>6, <1>7, <1>8, <1>9 DEF SweeperStep

-----------------------------------------------------------------------------
(* The attributors                                                         *)

\* A step of the handler of w: it may add a row for its event, make it the
\* pending conversion, or leave it unsure.
Turn(w) ==
    /\ work[w] # NoWork
    /\ Ends(w) \/ Becomes(w, AttributorSteps)
    /\ UNCHANGED <<log, offset, lost, sweep, forgotten>>
    /\ exposureKeys' \subseteq DecisionIds
    /\ verdicts' \in [Ids -> SUBSET Arms]
    /\ \A i \in Ids : verdicts[i] \subseteq verdicts'[i]
    /\ \A i \in Ids : i # Id(w) => verdicts'[i] = verdicts[i]
    /\ \/ conversionKeys' = conversionKeys
       \/ /\ Decision(w) \in DecisionIds
          /\ conversionKeys[Decision(w)] = NoConversion
          /\ conversionKeys' = [conversionKeys EXCEPT ![Decision(w)] = Id(w)]
    /\ unsure \subseteq unsure'
    /\ unsure' \subseteq unsure \cup {Id(w)}

Going(w, steps) == work'[w] # NoWork /\ work'[w].at \in steps

\* What it has to leave behind for this event.
Leaves(w, i) ==
    /\ Going(w, {"register", "unregister", "index"}) => DecisionOf[i] \in DecisionIds
    /\ (work'[w] # NoWork /\ "experiment" \in verdicts'[i]) => Going(w, {"unregister"})
    /\ i \notin unsure' =>
         /\ (DecisionOf[i] \in DecisionIds /\ conversionKeys'[DecisionOf[i]] = i) =>
              "experiment" \notin verdicts'[i] /\ ~Going(w, Early)
         /\ "bare" \in verdicts'[i] => ~Going(w, Early)
         /\ verdicts'[i] # Arms
    /\ Going(w, {"unregister"}) => verdicts'[i] # {}
    /\ (Going(w, {"index"}) \/ work'[w] = NoWork) =>
         \/ DecisionOf[i] = NoDecision
         \/ verdicts'[i] # {}
         \/ conversionKeys'[DecisionOf[i]] = i
         \/ i \in forgotten

LEMMA TurnKeeps ==
    ASSUME AttributionInv, NEW w \in Attributors, Turn(w), NEW i \in Ids, i = Id(w),
           Leaves(w, i)
    PROVE  AttributionInv'
<1>. USE DEF AttributionInv
<1>1. /\ UNCHANGED <<log, offset, lost, sweep, forgotten>>
      /\ IdsRead' = IdsRead
      /\ work[w] # NoWork
      /\ i \in IdsRead /\ DecisionOf[i] \in DecisionIds \cup {NoDecision}
  BY Constants DEF Turn, IdsRead, HandsInv
<1>2. /\ \A v \in Attributors : v # w => work'[v] = work[v]
      /\ \A v \in Registries : work'[v] = work[v]
      /\ work' \in [Workers -> Jobs \cup {NoWork}]
  BY AttributorFacts DEF Turn, Ends, Becomes, OtherJobs
<1>3. work'[w] # NoWork => work'[w].msg.id = i /\ work'[w].at \in AttributorSteps
  BY DEF Turn, Ends, Becomes, Id
<1>4. \A v \in Attributors : v # w /\ work[v] # NoWork => work[v].msg.id # i
  BY <1>1 DEF HandsInv, Id
<1>5. /\ conversionKeys' \in [DecisionIds -> Ids \cup {NoConversion}]
      /\ \A d \in DecisionIds : \/ conversionKeys'[d] = conversionKeys[d]
                                \/ /\ conversionKeys[d] = NoConversion
                                   /\ conversionKeys'[d] = i
                                   /\ d = DecisionOf[i]
  BY DEF Turn, Shape, Decision
<1>6. \A j \in Ids \ {i} : verdicts'[j] = verdicts[j] /\ (j \in unsure' <=> j \in unsure)
  BY DEF Turn
<1>7. \A v \in Attributors : work'[v] # NoWork => work'[v].msg.id \in Ids
  BY <1>2, AttributorFacts DEF Jobs, Messages
<1>8. Shape'
  BY <1>1, <1>2, <1>5 DEF Shape, Turn, TopicsFed, NoCopies
<1>9. Registering'
  BY <1>2 DEF Registering, Id, Decision
<1>10. HandsInv'
  <2>1. ASSUME NEW v \in Attributors, work'[v] # NoWork
        PROVE  /\ work'[v].msg.id \in IdsRead
               /\ work'[v].at \in AttributorSteps
               /\ work'[v].at \in {"register", "unregister", "index"}
                    => DecisionOf[work'[v].msg.id] \in DecisionIds
    <3>1. CASE v = w
      BY <1>1, <1>3, <2>1, <3>1 DEF Leaves, Going
    <3>2. CASE v # w
      BY <1>2, <2>1, <3>2 DEF HandsInv, Id, Decision
    <3>. QED  BY <3>1, <3>2
  <2>2. ASSUME NEW u \in Attributors, NEW v \in Attributors,
               work'[u] # NoWork, work'[v] # NoWork, work'[u].msg.id = work'[v].msg.id
        PROVE  u = v
    BY <1>2, <1>3, <1>4, <2>2 DEF HandsInv, Id
  <2>. QED  BY <1>1, <2>1, <2>2 DEF HandsInv, Id, Decision
<1>11. ReadInv'
  <2>1. \A j \in Ids : verdicts'[j] # {} => j \in IdsRead
    BY <1>1, <1>6 DEF ReadInv
  <2>2. \A d \in DecisionIds : conversionKeys'[d] # NoConversion =>
          conversionKeys'[d] \in IdsRead /\ DecisionOf[conversionKeys'[d]] = d
    BY <1>1, <1>5 DEF ReadInv
  <2>. QED  BY <1>1, <2>1, <2>2 DEF ReadInv
<1>12. \A j \in Ids : verdicts[j] # {} => verdicts'[j] # {}
  <2>1. verdicts[i] # {} => verdicts'[i] # {}
    BY DEF Turn
  <2>. QED  BY <1>6, <2>1
<1>13. SweepInv'
  BY <1>1, <1>12 DEF SweepInv, Shape, SweepStates
<1>14. VerdictInv'
  <2>1. ASSUME NEW v \in Attributors, NEW j \in Ids, work'[v] # NoWork, work'[v].msg.id = j,
               "experiment" \in verdicts'[j]
        PROVE  work'[v].at = "unregister"
    <3>1. CASE v = w
      BY <1>3, <2>1, <3>1 DEF Leaves, Going
    <3>2. CASE v # w
      BY <1>2, <1>4, <1>6, <2>1, <3>2 DEF VerdictInv, Holds, Id
    <3>. QED  BY <3>1, <3>2
  <2>2. ASSUME NEW d \in DecisionIds, NEW j \in Ids \ unsure', conversionKeys'[d] = j
        PROVE  /\ "experiment" \notin verdicts'[j]
               /\ \A v \in Attributors : (work'[v] # NoWork /\ work'[v].msg.id = j)
                                            => work'[v].at \notin Early
    <3>1. CASE j = i
      <4>1. d = DecisionOf[i]
        BY <1>5, <2>2, <3>1, Constants DEF ReadInv
      <4>2. "experiment" \notin verdicts'[i] /\ ~Going(w, Early)
        BY <2>2, <3>1, <4>1 DEF Leaves
      <4>. QED  BY <1>2, <1>4, <3>1, <4>2 DEF Going
    <3>2. CASE j # i
      <4>1. conversionKeys[d] = j /\ j \notin unsure /\ verdicts'[j] = verdicts[j]
        BY <1>5, <1>6, <2>2, <3>2
      <4>. QED  BY <1>2, <1>3, <3>2, <4>1 DEF VerdictInv, Holds, Id
    <3>. QED  BY <3>1, <3>2
  <2>3. ASSUME NEW j \in Ids \ unsure', "bare" \in verdicts'[j],
               NEW v \in Attributors, work'[v] # NoWork, work'[v].msg.id = j
        PROVE  work'[v].at \notin Early
    <3>1. CASE j = i
      <4>1. v = w
        BY <1>2, <1>4, <2>3, <3>1
      <4>. QED  BY <2>3, <3>1, <4>1 DEF Leaves, Going
    <3>2. CASE j # i
      BY <1>2, <1>3, <1>6, <2>3, <3>2 DEF VerdictInv, Holds, Id
    <3>. QED  BY <3>1, <3>2
  <2>. QED  BY <2>1, <2>2, <2>3 DEF VerdictInv, Holds, Id
<1>15. OneVerdict'
  BY <1>6 DEF OneVerdict, Leaves
<1>16. \A j \in Ids : (DecisionOf[j] \in DecisionIds /\ conversionKeys[DecisionOf[j]] = j)
                        => conversionKeys'[DecisionOf[j]] = j
  BY <1>5, Constants
<1>17. TraceInv'
  <2>1. ASSUME NEW v \in Attributors, work'[v] # NoWork
        PROVE  /\ work'[v].at = "unregister" => verdicts'[work'[v].msg.id] # {}
               /\ work'[v].at = "index" =>
                    \/ conversionKeys'[DecisionOf[work'[v].msg.id]] = work'[v].msg.id
                    \/ verdicts'[work'[v].msg.id] # {}
                    \/ work'[v].msg.id \in forgotten'
    <3>1. CASE v = w
      BY <1>1, <1>3, <2>1, <3>1, Constants DEF Leaves, Going
    <3>2. CASE v # w
      <4>1. work'[v] = work[v] /\ work[v].msg.id \in Ids
        BY <1>2, <1>7, <2>1, <3>2
      <4>2. work[v].at = "index" => DecisionOf[work[v].msg.id] \in DecisionIds
        BY <2>1, <4>1 DEF HandsInv, Id, Decision
      <4>. QED  BY <1>1, <1>12, <1>16, <2>1, <4>1, <4>2 DEF TraceInv, Id, Decision
    <3>. QED  BY <3>1, <3>2
  <2>. QED  BY <2>1 DEF TraceInv, Id, Decision
<1>18. AllAccounted'
  <2>. SUFFICES ASSUME NEW j \in IdsRead PROVE Accounted(j)'
    BY <1>1 DEF AllAccounted
  <2>1. Accounted(j) /\ j \in Ids /\ DecisionOf[j] \in DecisionIds \cup {NoDecision}
    BY ReadIds, Constants DEF AllAccounted
  <2>2. CASE j = i
    <3>1. CASE work'[w] # NoWork
      BY <1>3, <2>2, <3>1 DEF Accounted, Id
    <3>2. CASE work'[w] = NoWork
      BY <1>1, <2>2, <3>2 DEF Leaves, Accounted
    <3>. QED  BY <3>1, <3>2
  <2>3. CASE j # i
    <3>1. (\E v \in Attributors : work[v] # NoWork /\ work[v].msg.id = j)
             => \E v \in Attributors : work'[v] # NoWork /\ work'[v].msg.id = j
      BY <1>1, <1>2, <2>3 DEF Id
    <3>. QED  BY <1>1, <1>12, <1>16, <2>1, <3>1 DEF Accounted, Id
  <2>. QED  BY <2>2, <2>3
<1>. QED  BY <1>8, <1>9, <1>10, <1>11, <1>13, <1>14, <1>15, <1>17, <1>18

LEMMA AttributorShape ==
    ASSUME AttributionInv, NEW w \in Attributors, work[w] # NoWork
    PROVE  /\ Shape
           /\ w \in Attributors \cup Registries /\ w \in Workers
           /\ Id(w) \in Ids
           /\ Decision(w) = DecisionOf[Id(w)]
           /\ Decision(w) \in DecisionIds \cup {NoDecision}
<1>1. Shape /\ w \in Workers /\ work[w] \in Jobs
  BY AttributorFacts DEF AttributionInv, Shape
<1>2. Id(w) \in Ids
  BY <1>1 DEF Jobs, Messages, Id
<1>. QED  BY <1>1, <1>2, Constants DEF Decision

\* A turn without a row.
LEMMA QuietTurn ==
    ASSUME AttributionInv, NEW w \in Attributors, work[w] # NoWork, NoRow, HandlerFrame,
           Ends(w) \/ Becomes(w, AttributorSteps),
           exposureKeys' \subseteq exposureKeys,
           UNCHANGED <<conversionKeys, forgotten, unsure>>
    PROVE  Turn(w) /\ verdicts' = verdicts
BY DEF Turn, NoRow, HandlerFrame, AttributionInv, Shape

\* A handler that failed starts again, or gives the event up.
LEMMA FailedTurn ==
    ASSUME AttributionInv, NEW w \in Attributors, work[w] # NoWork, Failed(w)
    PROVE  /\ Becomes(w, {"handle", "dead"}) /\ Becomes(w, AttributorSteps)
           /\ work'[w] # NoWork
           /\ ~Going(w, {"register", "unregister", "index"})
BY AttributorShape, FailedJob DEF Becomes, Going, AttributorSteps, Early

LEMMA GetExposureKeeps ==
    ASSUME AttributionInv, NEW w \in Attributors, GetExposure(w) \/ GetExposureFails(w)
    PROVE  AttributionInv'
<1>. DEFINE i == Id(w)
<1>1. work[w] # NoWork /\ work[w].at = "handle"
  BY DEF GetExposure, GetExposureFails, Busy
<1>2. /\ Shape /\ w \in Attributors \cup Registries /\ w \in Workers
      /\ i \in Ids /\ Decision(w) = DecisionOf[i]
      /\ Decision(w) \in DecisionIds \cup {NoDecision}
  BY <1>1, AttributorShape
<1>3. /\ HandlerFrame
      /\ UNCHANGED <<exposureKeys, conversionKeys, forgotten, unsure>>
      /\ exposureKeys \subseteq DecisionIds /\ verdicts \in [Ids -> SUBSET Arms]
  BY <1>2 DEF GetExposure, GetExposureFails, redisVars, Shape
\* What is still in the handler has no row and no key.
<1>4. /\ "experiment" \notin verdicts[i]
      /\ i \notin unsure => /\ "bare" \notin verdicts[i]
                            /\ \A d \in DecisionIds : conversionKeys[d] # i
      /\ i \in unsure \/ verdicts[i] # Arms
  BY <1>1, <1>2 DEF AttributionInv, VerdictInv, Holds, Early, Arms
<1>. HIDE DEF i
<1>5. ASSUME NoRow, Ends(w) \/ Becomes(w, AttributorSteps), ~Going(w, {"unregister", "index"}),
             DecisionOf[i] = NoDecision \/ work'[w] # NoWork,
             Going(w, {"register"}) => DecisionOf[i] \in DecisionIds
      PROVE  AttributionInv'
  <2>1. Turn(w) /\ verdicts' = verdicts
    BY <1>1, <1>3, <1>5, QuietTurn
  <2>2. Leaves(w, i)
    BY <1>3, <1>4, <1>5, <2>1 DEF Leaves, Going, Arms
  <2>. QED  BY <1>2, <2>1, <2>2, TurnKeeps DEF i
<1>6. ASSUME NEW arm \in Arms, WriteRow(i, arm), Ends(w) \/ Becomes(w, {"unregister"}),
             arm = "experiment" => Becomes(w, {"unregister"}) /\ Decision(w) \in DecisionIds,
             arm = "bare" => Ends(w)
      PROVE  AttributionInv'
  <2>1. /\ verdicts' \in [Ids -> SUBSET Arms]
        /\ \A j \in Ids : verdicts[j] \subseteq verdicts'[j]
        /\ \A j \in Ids : j # i => verdicts'[j] = verdicts[j]
        /\ verdicts'[i] = verdicts[i] \cup {arm}
    BY <1>2, <1>3, <1>6 DEF WriteRow
  <2>2. Turn(w)
    BY <1>1, <1>3, <1>6, <2>1 DEF Turn, HandlerFrame, Becomes, AttributorSteps, Early, i
  <2>3. \/ arm = "experiment" /\ work'[w] # NoWork /\ work'[w].at = "unregister"
             /\ DecisionOf[i] \in DecisionIds
        \/ arm = "bare" /\ work'[w] = NoWork
    BY <1>2, <1>6 DEF Ends, Becomes, Arms
  <2>4. Leaves(w, i)
    <3>1. CASE arm = "experiment"
      <4>1. i \notin unsure => "bare" \notin verdicts'[i]
        BY <1>4, <2>1, <3>1
      <4>2. \A d \in DecisionIds : i \notin unsure => conversionKeys'[d] # i
        BY <1>3, <1>4
      <4>. QED  BY <1>3, <2>1, <2>3, <3>1, <4>1, <4>2 DEF Leaves, Going, Arms
    <3>2. CASE arm = "bare"
      BY <1>3, <1>4, <2>1, <2>3, <3>2 DEF Leaves, Going, Arms
    <3>. QED  BY <3>1, <3>2 DEF Arms
  <2>. QED  BY <1>2, <2>2, <2>4, TurnKeeps DEF i
<1>7. CASE GetExposureFails(w)
  BY <1>1, <1>5, <1>7, FailedTurn DEF GetExposureFails, Going
<1>8. CASE Decision(w) = NoDecision /\ Done(w) /\ NoRow
  BY <1>2, <1>5, <1>8, DoneShape DEF Ends, Going
<1>9. CASE Decision(w) \in exposureKeys /\ WriteRow(Id(w), "experiment") /\ Goto(w, "unregister")
  <2>1. Becomes(w, {"unregister"})
    BY <1>1, <1>2, <1>9, GotoJob DEF WorkSteps, HandlerSteps
  <2>. QED  BY <1>3, <1>6, <1>9, <2>1 DEF Arms, i
<1>10. CASE WriteRow(Id(w), "bare") /\ Done(w)
  <2>1. Ends(w)
    BY <1>2, <1>10, DoneShape
  <2>. QED  BY <1>6, <1>10, <2>1 DEF Arms, i
<1>11. CASE Decision(w) \in DecisionIds /\ Goto(w, "register") /\ NoRow
  <2>1. Becomes(w, {"register"})
    BY <1>1, <1>2, <1>11, GotoJob DEF WorkSteps, HandlerSteps
  <2>. QED  BY <1>2, <1>5, <1>11, <2>1 DEF Becomes, Going, AttributorSteps, Early
<1>. QED  BY <1>7, <1>8, <1>9, <1>10, <1>11 DEF GetExposure

LEMMA DeleteExposureKeeps ==
    ASSUME AttributionInv, NEW w \in Attributors, DeleteExposure(w) \/ DeleteExposureFails(w)
    PROVE  AttributionInv'
<1>1. work[w] # NoWork /\ work[w].at = "unregister"
  BY DEF DeleteExposure, DeleteExposureFails, Busy
<1>2. /\ Shape /\ w \in Attributors \cup Registries
      /\ Id(w) \in Ids
  BY <1>1, AttributorShape
<1>3. verdicts[Id(w)] # {} /\ OneVerdict /\ VerdictInv
  BY <1>1 DEF AttributionInv, TraceInv
<1>4. /\ NoRow /\ HandlerFrame /\ Done(w)
      /\ exposureKeys' \subseteq exposureKeys
      /\ UNCHANGED <<conversionKeys, forgotten, unsure>>
  BY DEF DeleteExposure, DeleteExposureFails
<1>5. Ends(w)
  BY <1>2, <1>4, DoneShape
<1>6. Turn(w) /\ verdicts' = verdicts
  BY <1>1, <1>4, <1>5, QuietTurn
<1>7. \A d \in DecisionIds, i \in Ids \ unsure :
        conversionKeys[d] = i => "experiment" \notin verdicts[i]
  BY <1>3 DEF VerdictInv
<1>8. Leaves(w, Id(w))
  BY <1>2, <1>3, <1>4, <1>5, <1>6, <1>7 DEF Leaves, Going, Ends, OneVerdict
<1>. QED  BY <1>2, <1>6, <1>8, TurnKeeps

LEMMA RegisterConversionKeeps ==
    ASSUME AttributionInv, NEW w \in Attributors,
           RegisterConversion(w) \/ RegisterConversionFails(w)
    PROVE  AttributionInv'
<1>. DEFINE i == Id(w)
<1>1. work[w] # NoWork /\ work[w].at = "register"
  BY DEF RegisterConversion, RegisterConversionFails, Busy
<1>2. /\ Shape /\ w \in Workers
      /\ i \in Ids /\ Decision(w) = DecisionOf[i] /\ Decision(w) \in DecisionIds
  BY <1>1, AttributorShape DEF AttributionInv, HandsInv
<1>3. /\ NoRow /\ HandlerFrame
      /\ UNCHANGED <<exposureKeys, forgotten>>
      /\ exposureKeys \subseteq DecisionIds /\ verdicts' = verdicts
      /\ verdicts \in [Ids -> SUBSET Arms]
  BY <1>2 DEF RegisterConversion, RegisterConversionFails, NoRow, Shape
<1>4. /\ "experiment" \notin verdicts[i]
      /\ i \notin unsure => /\ "bare" \notin verdicts[i]
                            /\ \A d \in DecisionIds : conversionKeys[d] # i
      /\ i \in unsure \/ verdicts[i] # Arms
  BY <1>1, <1>2 DEF AttributionInv, VerdictInv, Holds, Early, Arms
<1>. HIDE DEF i
<1>5. CASE Failed(w) /\ UNCHANGED <<conversionKeys, unsure>>
  <2>1. /\ Becomes(w, AttributorSteps) /\ work'[w] # NoWork
        /\ ~Going(w, {"register", "unregister", "index"})
    BY <1>1, <1>5, FailedTurn
  <2>2. Turn(w)
    BY <1>1, <1>3, <1>5, <2>1, QuietTurn
  <2>3. Leaves(w, i)
    BY <1>3, <1>4, <1>5, <2>1 DEF Leaves, Going, Arms
  <2>. QED  BY <1>2, <2>2, <2>3, TurnKeeps DEF i
<1>6. CASE /\ conversionKeys[Decision(w)] = NoConversion
           /\ conversionKeys' = [conversionKeys EXCEPT ![Decision(w)] = i]
           /\ \/ Goto(w, "index") /\ UNCHANGED unsure
              \/ Failed(w) /\ unsure' = unsure \cup {i}
  <2>1. Goto(w, "index") => Becomes(w, {"index"})
    BY <1>1, <1>2, GotoJob DEF WorkSteps, HandlerSteps
  <2>2. \/ Becomes(w, {"index"}) /\ UNCHANGED unsure
        \/ Becomes(w, {"handle", "dead"}) /\ unsure' = unsure \cup {i}
    BY <1>1, <1>6, <2>1, FailedTurn
  <2>3. Becomes(w, AttributorSteps)
    BY <2>2 DEF Becomes, AttributorSteps, Early
  <2>4. Turn(w)
    BY <1>1, <1>2, <1>3, <1>6, <2>2, <2>3 DEF Turn, HandlerFrame, i
  <2>5. conversionKeys'[DecisionOf[i]] = i
    BY <1>2, <1>6 DEF Shape
  <2>6. /\ work'[w] # NoWork /\ ~Going(w, {"unregister"})
        /\ i \in unsure' \/ ~Going(w, Early)
    BY <2>2 DEF Becomes, Going, Early
  <2>7. i \notin unsure' => i \notin unsure
    BY <2>2
  <2>8. Leaves(w, i)
    BY <1>2, <1>3, <1>4, <2>5, <2>6, <2>7 DEF Leaves, Going, Arms
  <2>. QED  BY <1>2, <2>4, <2>8, TurnKeeps DEF i
<1>. QED  BY <1>5, <1>6 DEF RegisterConversion, RegisterConversionFails, i

LEMMA IndexConversionKeeps ==
    ASSUME AttributionInv, NEW w \in Attributors,
           IndexConversion(w) \/ IndexConversionFails(w)
    PROVE  AttributionInv'
<1>. DEFINE i == Id(w)
<1>1. work[w] # NoWork /\ work[w].at = "index"
  BY DEF IndexConversion, IndexConversionFails, Busy
<1>2. /\ Shape /\ w \in Attributors \cup Registries
      /\ i \in Ids /\ Decision(w) = DecisionOf[i] /\ Decision(w) \in DecisionIds
  BY <1>1, AttributorShape DEF AttributionInv, HandsInv
<1>3. /\ NoRow /\ HandlerFrame
      /\ UNCHANGED <<exposureKeys, conversionKeys, forgotten>>
      /\ exposureKeys \subseteq DecisionIds /\ verdicts' = verdicts
      /\ verdicts \in [Ids -> SUBSET Arms]
  BY <1>2 DEF IndexConversion, IndexConversionFails, NoRow, Shape
<1>4. /\ "experiment" \notin verdicts[i]
      /\ \/ conversionKeys[DecisionOf[i]] = i
         \/ verdicts[i] # {}
         \/ i \in forgotten
  BY <1>1, <1>2 DEF AttributionInv, VerdictInv, TraceInv, Holds
<1>. HIDE DEF i
<1>5. \/ Ends(w) /\ UNCHANGED unsure
      \/ Becomes(w, {"handle", "dead"}) /\ unsure' = unsure \cup {i}
  BY <1>1, <1>2, DoneShape, FailedTurn DEF IndexConversion, IndexConversionFails, i
<1>6. Ends(w) \/ Becomes(w, AttributorSteps)
  BY <1>5 DEF Becomes, AttributorSteps, Early
<1>7. Turn(w)
  BY <1>1, <1>3, <1>5, <1>6 DEF Turn, HandlerFrame, i
<1>8. \/ work'[w] = NoWork
      \/ i \in unsure' /\ work'[w] # NoWork /\ work'[w].at \in {"handle", "dead"}
  BY <1>5 DEF Ends, Becomes
<1>9. Leaves(w, i)
  BY <1>3, <1>4, <1>8 DEF Leaves, Going, Arms
<1>. QED  BY <1>2, <1>7, <1>9, TurnKeeps DEF i

\* The next event of the topic: nobody has it, and nothing is known of it yet.
LEMMA ReadMessageKeeps ==
    ASSUME AttributionInv, NEW w \in Attributors, ReadMessage(w),
           UNCHANGED <<ingestVars, attributionVars>>
    PROVE  AttributionInv'
<1>. USE DEF AttributionInv
<1>1. w \in Workers /\ RoleOf[w] = "attributor" /\ "attributor" \in Readers /\ "deduped" \in Topics
  BY AttributorFacts DEF Readers, Topics
<1>. DEFINE n == offset["attributor"] + 1
            i == log["deduped"][n].id
            job == [msg |-> log["deduped"][n], attempt |-> 1, at |-> "handle"]
<1>2. /\ work[w] = NoWork
      /\ offset["attributor"] < Len(log["deduped"])
      /\ work' = [work EXCEPT ![w] = job]
      /\ offset' = [offset EXCEPT !["attributor"] = @ + 1]
      /\ UNCHANGED <<log, lost>>
  BY <1>1 DEF ReadMessage, SourceOf
<1>3. UNCHANGED <<exposureKeys, conversionKeys, verdicts, sweep, forgotten, unsure>>
  BY DEF attributionVars
<1>4. /\ log["deduped"] \in Seq(Messages)
      /\ offset \in [Readers -> Nat] /\ offset["attributor"] \in Nat
  BY <1>1 DEF Shape, TopicsFed, NoCopies
<1>5. n \in 1..Len(log["deduped"]) /\ log["deduped"][n] \in Messages /\ i \in Ids
  <2>1. n \in 1..Len(log["deduped"])
    BY <1>2, <1>4
  <2>2. log["deduped"][n] \in Messages
    BY <1>4, <2>1
  <2>. QED  BY <2>1, <2>2 DEF Messages
<1>6. job \in Jobs
  BY <1>5, ConsumerAssumption DEF Jobs, WorkSteps, HandlerSteps
<1>7. /\ work' \in [Workers -> Jobs \cup {NoWork}] /\ work'[w] = job /\ job # NoWork
      /\ \A v \in Attributors \cup Registries : v # w => work'[v] = work[v]
  BY <1>1, <1>2, <1>6, AttributorFacts, Constants DEF Shape
<1>8. offset' \in [Readers -> Nat] /\ offset'["attributor"] = n
  BY <1>1, <1>2, <1>4
<1>9. IdsRead' = IdsRead \cup {i}
  <2>1. 1..n = 1..offset["attributor"] \cup {n}
    BY <1>4
  <2>2. IdsRead' = {log["deduped"][k].id : k \in 1..n}
    BY <1>2, <1>8 DEF IdsRead
  <2>. QED  BY <2>1, <2>2 DEF IdsRead
<1>10. i \notin IdsRead
  <2>. SUFFICES ASSUME NEW k \in 1..offset["attributor"], log["deduped"][k].id = i
                PROVE  FALSE
    BY DEF IdsRead
  <2>1. k \in 1..Len(log["deduped"]) /\ k # n
    BY <1>4, <1>5
  <2>2. \A j, l \in 1..Len(log["deduped"]) :
          log["deduped"][j].id = log["deduped"][l].id => j = l
    BY DEF Shape, TopicsFed, NoCopies
  <2>. QED  BY <1>5, <2>1, <2>2
<1>11. job.at = "handle" /\ job.msg.id = i
  OBVIOUS
<1>12. offset'["attributor"] <= Len(log'["deduped"])
  BY <1>2, <1>5, <1>8
<1>. HIDE DEF job, i, n
<1>13. /\ verdicts[i] = {}
       /\ \A d \in DecisionIds : conversionKeys[d] # i
       /\ \A v \in Attributors : work[v] # NoWork => work[v].msg.id # i
  <2>1. verdicts[i] = {}
    BY <1>5, <1>10 DEF ReadInv
  <2>2. \A d \in DecisionIds : conversionKeys[d] # i
    BY <1>5, <1>10, Constants DEF ReadInv
  <2>. QED  BY <1>10, <2>1, <2>2 DEF HandsInv, Id
<1>14. Shape'
  BY <1>2, <1>3, <1>7, <1>8, <1>12 DEF Shape, TopicsFed, NoCopies
<1>15. Registering'
  BY <1>7, AttributorFacts DEF Registering, Id, Decision
<1>16. HandsInv'
  <2>1. ASSUME NEW v \in Attributors, work'[v] # NoWork
        PROVE  /\ work'[v].msg.id \in IdsRead'
               /\ work'[v].at \in AttributorSteps
               /\ work'[v].at \in {"register", "unregister", "index"}
                    => DecisionOf[work'[v].msg.id] \in DecisionIds
    <3>1. CASE v = w
      BY <1>7, <1>9, <1>11, <3>1 DEF AttributorSteps, Early
    <3>2. CASE v # w
      BY <1>7, <1>9, <2>1, <3>2 DEF HandsInv, Id, Decision
    <3>. QED  BY <3>1, <3>2
  <2>2. ASSUME NEW u \in Attributors, NEW v \in Attributors,
               work'[u] # NoWork, work'[v] # NoWork, work'[u].msg.id = work'[v].msg.id
        PROVE  u = v
    BY <1>7, <1>11, <1>13, <2>2 DEF HandsInv, Id
  <2>. QED  BY <2>1, <2>2 DEF HandsInv, Id, Decision
<1>17. ReadInv' /\ SweepInv' /\ OneVerdict'
  BY <1>3, <1>9 DEF ReadInv, SweepInv, OneVerdict
<1>18. VerdictInv'
  <2>1. ASSUME NEW v \in Attributors, NEW j \in Ids, work'[v] # NoWork, work'[v].msg.id = j
        PROVE  \/ v = w /\ j = i
               \/ v # w /\ work'[v] = work[v] /\ Holds(v, j)
    BY <1>7, <1>11, <2>1 DEF Holds, Id
  <2>2. ASSUME NEW v \in Attributors, NEW j \in Ids, work'[v] # NoWork, work'[v].msg.id = j
        PROVE  /\ "experiment" \in verdicts[j] => work'[v].at = "unregister"
               /\ j \notin unsure =>
                    /\ "bare" \in verdicts[j] => work'[v].at \notin Early
                    /\ \A d \in DecisionIds : conversionKeys[d] = j => work'[v].at \notin Early
    BY <1>13, <2>1, <2>2 DEF VerdictInv
  <2>3. \A d \in DecisionIds, j \in Ids \ unsure :
          conversionKeys[d] = j => "experiment" \notin verdicts[j]
    BY DEF VerdictInv
  <2>. QED  BY <1>3, <2>2, <2>3 DEF VerdictInv, Holds, Id
<1>19. TraceInv'
  <2>1. ASSUME NEW v \in Attributors, work'[v] # NoWork
        PROVE  \/ work'[v].at = "handle"
               \/ work'[v] = work[v] /\ work[v] # NoWork
    BY <1>7, <1>11, <2>1
  <2>. QED  BY <1>3, <2>1 DEF TraceInv, Id, Decision
<1>20. AllAccounted'
  <2>. SUFFICES ASSUME NEW j \in IdsRead \cup {i} PROVE Accounted(j)'
    BY <1>9 DEF AllAccounted
  <2>1. CASE j = i
    BY <1>7, <1>11, <2>1 DEF Accounted, Id
  <2>2. CASE j \in IdsRead
    <3>1. Accounted(j)
      BY <2>2 DEF AllAccounted
    <3>2. (\E v \in Attributors : work[v] # NoWork /\ work[v].msg.id = j)
             => \E v \in Attributors : work'[v] # NoWork /\ work'[v].msg.id = j
      BY <1>2, <1>7
    <3>. QED  BY <1>2, <1>3, <3>1, <3>2 DEF Accounted, Id
  <2>. QED  BY <2>1, <2>2
<1>. QED  BY <1>14, <1>15, <1>16, <1>17, <1>18, <1>19, <1>20

\* The commit of the next event fails: it is on record as lost, in no hands.
LEMMA ReadFailsKeeps ==
    ASSUME AttributionInv, NEW w \in Attributors, ReadMessageFails(w),
           UNCHANGED <<ingestVars, attributionVars>>
    PROVE  AttributionInv'
<1>. USE DEF AttributionInv
<1>1. w \in Workers /\ RoleOf[w] = "attributor" /\ "attributor" \in Readers /\ "deduped" \in Topics
  BY AttributorFacts DEF Readers, Topics
<1>. DEFINE n == offset["attributor"] + 1
            i == log["deduped"][n].id
<1>2. /\ offset["attributor"] < Len(log["deduped"])
      /\ offset' = [offset EXCEPT !["attributor"] = @ + 1]
      /\ lost' = lost \cup {<<"attributor", i>>}
      /\ UNCHANGED <<log, work>>
  BY <1>1 DEF ReadMessageFails, SourceOf
<1>3. UNCHANGED <<exposureKeys, conversionKeys, verdicts, sweep, forgotten, unsure>>
  BY DEF attributionVars
<1>4. /\ log["deduped"] \in Seq(Messages)
      /\ offset \in [Readers -> Nat] /\ offset["attributor"] \in Nat
  BY <1>1 DEF Shape, TopicsFed, NoCopies
<1>5. n \in 1..Len(log["deduped"])
  BY <1>2, <1>4
<1>6. offset' \in [Readers -> Nat] /\ offset'["attributor"] = n
  BY <1>1, <1>2, <1>4
<1>7. IdsRead' = IdsRead \cup {i}
  <2>1. 1..n = 1..offset["attributor"] \cup {n}
    BY <1>4
  <2>2. IdsRead' = {log["deduped"][k].id : k \in 1..n}
    BY <1>2, <1>6 DEF IdsRead
  <2>. QED  BY <2>1, <2>2 DEF IdsRead
<1>8. offset'["attributor"] <= Len(log'["deduped"])
  BY <1>2, <1>5, <1>6
<1>. HIDE DEF i, n
<1>9. Shape' /\ Registering'
  BY <1>2, <1>3, <1>6, <1>8 DEF Shape, TopicsFed, NoCopies, Registering, Id, Decision
<1>10. HandsInv'
  BY <1>2, <1>7 DEF HandsInv, Id, Decision
<1>11. ReadInv' /\ SweepInv' /\ OneVerdict'
  BY <1>3, <1>7 DEF ReadInv, SweepInv, OneVerdict
<1>12. VerdictInv' /\ TraceInv'
  BY <1>2, <1>3 DEF VerdictInv, TraceInv, Holds, Id, Decision
<1>13. AllAccounted'
  <2>. SUFFICES ASSUME NEW j \in IdsRead \cup {i} PROVE Accounted(j)'
    BY <1>7 DEF AllAccounted
  <2>1. CASE j = i
    BY <1>2, <2>1 DEF Accounted
  <2>2. CASE j \in IdsRead
    <3>1. Accounted(j)
      BY <2>2 DEF AllAccounted
    <3>. QED  BY <1>2, <1>3, <3>1 DEF Accounted, Id
  <2>. QED  BY <2>1, <2>2
<1>. QED  BY <1>9, <1>10, <1>11, <1>12, <1>13

\* An attributor gives its event up: it is in the dead-letter topic, or lost.
LEMMA GiveUpKeeps ==
    ASSUME AttributionInv, NEW w \in Attributors, work[w] # NoWork, Ends(w),
           LogGrows, lost \subseteq lost', UNCHANGED <<offset, attributionVars>>,
           Id(w) \in IdsIn(log'["dlq"]) \/ <<"attributor", Id(w)>> \in lost'
    PROVE  AttributionInv'
<1>. USE DEF AttributionInv
<1>1. /\ UNCHANGED <<exposureKeys, conversionKeys, verdicts, sweep, forgotten, unsure>>
      /\ IdsRead' = IdsRead
      /\ IdsIn(log["dlq"]) \subseteq IdsIn(log'["dlq"])
  BY ReadGrows DEF attributionVars, LogGrows
<1>2. /\ work' \in [Workers -> Jobs \cup {NoWork}]
      /\ \A v \in Attributors \cup Registries : v # w => work'[v] = work[v]
      /\ work'[w] = NoWork
  BY AttributorFacts DEF Ends, OtherJobs
<1>3. Shape'
  <2>1. /\ log["deduped"] \in Seq(Messages) /\ log'["deduped"] \in Seq(Messages)
        /\ offset["attributor"] \in Nat
    BY DEF Shape, TopicsFed, NoCopies, Topics, Readers, LogGrows
  <2>2. /\ Len(log["deduped"]) <= Len(log'["deduped"])
        /\ offset["attributor"] <= Len(log["deduped"])
    BY DEF Shape, LogGrows
  <2>3. offset["attributor"] <= Len(log'["deduped"])
    BY <2>1, <2>2
  <2>. QED  BY <1>1, <1>2, <2>3 DEF Shape, LogGrows
<1>4. Registering'
  BY <1>2, AttributorFacts DEF Registering, Id, Decision
<1>5. HandsInv'
  BY <1>1, <1>2 DEF HandsInv, Id, Decision
<1>6. ReadInv' /\ SweepInv' /\ OneVerdict'
  BY <1>1 DEF ReadInv, SweepInv, OneVerdict
<1>7. VerdictInv'
  BY <1>1, <1>2 DEF VerdictInv, Holds, Id
<1>8. TraceInv'
  BY <1>1, <1>2 DEF TraceInv, Id, Decision
<1>9. AllAccounted'
  <2>. SUFFICES ASSUME NEW j \in IdsRead PROVE Accounted(j)'
    BY <1>1 DEF AllAccounted
  <2>1. Accounted(j)
    BY DEF AllAccounted
  <2>2. ASSUME NEW v \in Attributors, work[v] # NoWork, Id(v) = j
        PROVE  \/ work'[v] # NoWork /\ work'[v].msg.id = j
               \/ j \in IdsIn(log'["dlq"]) \/ <<"attributor", j>> \in lost'
    BY <1>2, <2>2 DEF Id
  <2>. QED  BY <1>1, <2>1, <2>2 DEF Accounted, Id
<1>. QED  BY <1>3, <1>4, <1>5, <1>6, <1>7, <1>8, <1>9

LEMMA AttributorLoopKeeps ==
    ASSUME AttributionInv, NEW w \in Attributors, LoopStep(w),
           UNCHANGED <<ingestVars, attributionVars>>
    PROVE  AttributionInv'
<1>1. Shape /\ w \in Workers /\ RoleOf[w] = "attributor"
  BY AttributorFacts DEF AttributionInv
<1>2. CASE ReadMessage(w)
  BY <1>2, ReadMessageKeeps
<1>3. CASE Forward(w)
  BY <1>3 DEF Forward, Busy, AttributionInv, HandsInv, AttributorSteps, Early
<1>4. CASE SendDLQ(w)
  <2>1. /\ work[w] # NoWork /\ Write("dlq", <<work[w].msg>>)
        /\ work' = [work EXCEPT ![w] = NoWork] /\ UNCHANGED <<offset, lost>>
    BY <1>4 DEF SendDLQ, Busy
  <2>2. work[w].msg \in Messages
    BY <1>1, <2>1 DEF Shape, Jobs
  <2>3. Ends(w) /\ LogGrows /\ Id(w) \in IdsIn(log'["dlq"])
    BY <1>1, <2>1, <2>2, EndsShape, DeadGrows DEF Id
  <2>. QED  BY <2>1, <2>3, GiveUpKeeps
<1>5. CASE SendDLQFails(w)
  <2>1. /\ work[w] # NoWork /\ work' = [work EXCEPT ![w] = NoWork]
        /\ lost' = lost \cup {<<"attributor", Id(w)>>} /\ UNCHANGED <<log, offset>>
    BY <1>1, <1>5 DEF SendDLQFails, Busy, Id
  <2>2. Ends(w) /\ LogGrows
    BY <1>1, <2>1, EndsShape, LogStays
  <2>. QED  BY <2>1, <2>2, GiveUpKeeps
<1>6. CASE ReadMessageFails(w)
  BY <1>6, ReadFailsKeeps
<1>. QED  BY <1>2, <1>3, <1>4, <1>5, <1>6 DEF LoopStep

LEMMA CrashKeeps == AttributionInv /\ AttributionCrash => AttributionInv'
<1>. SUFFICES ASSUME AttributionInv, AttributionCrash PROVE AttributionInv'
  OBVIOUS
<1>. USE DEF AttributionInv
<1>1. /\ work' = [w \in Workers |-> NoWork]
      /\ lost' = lost \cup {<<RoleOf[w], work[w].msg.id>> : w \in {v \in Workers : work[v] # NoWork}}
      /\ sweep' = NoSweep
      /\ UNCHANGED <<log, offset, exposureKeys, conversionKeys, verdicts, forgotten, unsure>>
  BY DEF AttributionCrash, ConsumersDie, AttributionDies, redisVars
<1>2. IdsRead' = IdsRead
  BY <1>1 DEF IdsRead
<1>3. \A w \in Attributors \cup Registries : work'[w] = NoWork
  BY <1>1, AttributorFacts
<1>4. NoSweep \in SweepStates /\ NoSweep.at = "list"
  BY DEF NoSweep, SweepStates
<1>5. Shape'
  BY <1>1, <1>4 DEF Shape, TopicsFed, NoCopies
<1>6. Registering' /\ HandsInv' /\ TraceInv'
  BY <1>3 DEF Registering, HandsInv, TraceInv
<1>7. ReadInv' /\ SweepInv' /\ OneVerdict'
  BY <1>1, <1>2, <1>4 DEF ReadInv, SweepInv, OneVerdict
<1>8. VerdictInv'
  BY <1>1, <1>3 DEF VerdictInv, Holds
<1>9. AllAccounted'
  <2>. SUFFICES ASSUME NEW j \in IdsRead PROVE Accounted(j)'
    BY <1>2 DEF AllAccounted
  <2>1. Accounted(j)
    BY DEF AllAccounted
  <2>2. ASSUME NEW v \in Attributors, work[v] # NoWork, Id(v) = j
        PROVE  <<"attributor", j>> \in lost'
    BY <1>1, <2>2, AttributorFacts DEF Id
  <2>3. lost \subseteq lost'
    BY <1>1
  <2>. QED  BY <1>1, <2>1, <2>2, <2>3 DEF Accounted
<1>. QED  BY <1>5, <1>6, <1>7, <1>8, <1>9

-----------------------------------------------------------------------------
(* The theorems                                                            *)

AttributionStep ==
    AttributionNext \/ AttributionLoop \/ AttributionCrash \/ Surroundings

LEMMA StepKeeps ==
    AttributionInv /\ [AttributionStep]_attributionState => AttributionInv'
<1>. SUFFICES ASSUME AttributionInv, [AttributionStep]_attributionState
              PROVE  AttributionInv'
  OBVIOUS
<1>1. ASSUME NEW w \in Registries, RegistryStep(w) PROVE AttributionInv'
  BY <1>1, RegistryKeeps
<1>2. ASSUME NEW w \in Attributors, AttributorStep(w) PROVE AttributionInv'
  BY <1>2, GetExposureKeeps, DeleteExposureKeeps, RegisterConversionKeeps, IndexConversionKeeps
  DEF AttributorStep
<1>3. CASE SweeperStep \/ TimePasses
  BY <1>3, SweeperKeeps, TimeKeeps
<1>4. CASE AttributionLoop
  BY <1>4, RegistryLoopKeeps, AttributorLoopKeeps DEF AttributionLoop
<1>5. CASE AttributionCrash \/ Surroundings
  BY <1>5, CrashKeeps, SurroundingsKeep
<1>6. CASE UNCHANGED attributionState
  <2>1. UNCHANGED <<log, offset, work, lost, exposureKeys, conversionKeys, sweep, verdicts,
                    forgotten, unsure>>
    BY <1>6 DEF attributionState, topicVars, consumerVars, attributionVars
  <2>2. Registering'
    BY <2>1 DEF AttributionInv, Registering, Id, Decision
  <2>. QED
    BY <2>1, <2>2, LogStays, AsideKeeps DEF Aside, AttributionInv, Shape
<1>. QED  BY <1>1, <1>2, <1>3, <1>4, <1>5, <1>6 DEF AttributionStep, AttributionNext

LEMMA AttributionInvariant == AttributionSpec => []AttributionInv
<1>1. AttributionSpec => AttributionInv
  BY InitHolds
<1>2. AttributionInv /\ [AttributionStep]_attributionState => AttributionInv'
  BY StepKeeps
<1>. QED  BY <1>1, <1>2, PTL DEF AttributionSpec, AttributionStep, attributionState

\* No event has a row with its experiment and one without, unless Redis
\* answered its registration with an error after carrying it out: for any
\* number of attributors, although none of them holds a lock on a decision.
THEOREM VerdictIsOne == AttributionSpec => []OneVerdict
<1>1. AttributionInv => OneVerdict
  BY DEF AttributionInv
<1>. QED  BY <1>1, AttributionInvariant, PTL

\* No conversion vanishes between Redis, the sweeper and the attributors.
THEOREM NoConversionVanishes == AttributionSpec => []ConversionAccounted
<1>1. AttributionInv => ConversionAccounted
  <2>. SUFFICES ASSUME AttributionInv, NEW k \in 1..offset["attributor"]
                PROVE  Accounted(log["deduped"][k].id)
    BY DEF ConversionAccounted, Accounted
  <2>. QED  BY DEF AttributionInv, AllAccounted, IdsRead
<1>. QED  BY <1>1, AttributionInvariant, PTL

-----------------------------------------------------------------------------
(* Exposures                                                               *)

\* What a topic partitioned by decision gives its consumers, and what one
\* attributor has by itself.
OneHandPerDecision ==
    \A v, w \in Attributors :
        (work[v] # NoWork /\ work[w] # NoWork /\ Decision(v) = Decision(w)) => v = w

Unregisters(w, d) == work[w] # NoWork /\ work[w].at = "unregister" /\ Decision(w) = d

\* An exposure no attributor has used.
Spare(d) == d \in exposureKeys /\ \A w \in Attributors : ~Unregisters(w, d)

ChanceInv ==
    /\ chances \in [DecisionIds -> Nat]
    /\ \A d \in DecisionIds :
         /\ IsFiniteSet(AttributedTo(d))
         /\ Cardinality(AttributedTo(d)) <= chances[d]
         /\ Spare(d) => Cardinality(AttributedTo(d)) < chances[d]

\* No row with an experiment is written, and a new exposure is a chance.
ChancesGrow ==
    /\ \A i \in Ids : "experiment" \in verdicts'[i] <=> "experiment" \in verdicts[i]
    /\ chances' \in [DecisionIds -> Nat]
    /\ \A d \in DecisionIds :
         /\ chances[d] <= chances'[d]
         /\ Spare(d)' => (Spare(d) \/ chances[d] < chances'[d])

LEMMA ChancesGrowKeeps == ChanceInv /\ ChancesGrow => ChanceInv'
<1>. SUFFICES ASSUME ChanceInv, ChancesGrow PROVE ChanceInv'
  OBVIOUS
<1>1. ASSUME NEW d \in DecisionIds
      PROVE  AttributedTo(d)' = AttributedTo(d)
  BY DEF ChancesGrow, AttributedTo
<1>2. ASSUME NEW d \in DecisionIds
      PROVE  /\ IsFiniteSet(AttributedTo(d))
             /\ Cardinality(AttributedTo(d)) <= chances'[d]
             /\ Spare(d)' => Cardinality(AttributedTo(d)) < chances'[d]
  <2>1. IsFiniteSet(AttributedTo(d)) /\ Cardinality(AttributedTo(d)) \in Nat
    BY FS_CardinalityType DEF ChanceInv
  <2>2. chances[d] \in Nat /\ chances'[d] \in Nat
    BY DEF ChanceInv, ChancesGrow
  <2>. QED  BY <2>1, <2>2 DEF ChanceInv, ChancesGrow
<1>. QED  BY <1>1, <1>2 DEF ChanceInv, ChancesGrow

\* Keys at most lapse and no attributor leaves the step that deletes one.
LEMMA SpareStays ==
    ASSUME ChanceInv, exposureKeys' \subseteq exposureKeys,
           \A i \in Ids : "experiment" \in verdicts'[i] <=> "experiment" \in verdicts[i],
           chances' = chances,
           \A v \in Attributors : (work[v] # NoWork /\ work[v].at = "unregister")
                                    => work'[v] = work[v]
    PROVE  ChancesGrow
<1>1. ASSUME NEW d \in DecisionIds, d \in exposureKeys',
             \A v \in Attributors : ~(work'[v] # NoWork /\ work'[v].at = "unregister"
                                        /\ DecisionOf[work'[v].msg.id] = d)
      PROVE  Spare(d)
  BY <1>1 DEF Spare, Unregisters, Decision, Id
<1>2. ASSUME NEW d \in DecisionIds
      PROVE  chances[d] <= chances'[d]
  BY DEF ChanceInv
<1>. QED  BY <1>1, <1>2 DEF ChancesGrow, ChanceInv, Spare, Unregisters, Decision, Id

LEMMA RegistryChances ==
    ASSUME AttributionInv, ChanceInv, NEW w \in Registries, RegistryStep(w)
    PROVE  ChancesGrow
<1>1. Shape /\ work[w] # NoWork /\ verdicts' = verdicts
  BY DEF AttributionInv, RegistryStep, RegisterExposure, RegisterExposureFails, Busy, NoRow
<1>2. Ends(w) \/ Becomes(w, {"handle", "dead"})
  BY <1>1, DoneShape, FailedJob DEF RegistryStep, RegisterExposure, RegisterExposureFails
<1>3. \A v \in Attributors : work'[v] = work[v]
  BY <1>2, AttributorFacts DEF Ends, Becomes, OtherJobs
<1>4. CASE UNCHANGED <<exposureKeys, chances>>
  BY <1>1, <1>3, <1>4, SpareStays
<1>5. CASE exposureKeys' = exposureKeys \cup {Decision(w)} /\ Chance(Decision(w))
  <2>. DEFINE e == Decision(w)
  <2>1. e \in DecisionIds
    BY <1>1 DEF AttributionInv, Registering
  <2>. HIDE DEF e
  <2>2. /\ chances' \in [DecisionIds -> Nat]
        /\ \A d \in DecisionIds : chances'[d] = IF d = e THEN chances[d] + 1 ELSE chances[d]
    BY <1>5, <2>1 DEF ChanceInv, Chance, e
  <2>3. ASSUME NEW d \in DecisionIds, d # e, d \in exposureKeys',
               \A v \in Attributors : ~(work'[v] # NoWork /\ work'[v].at = "unregister"
                                          /\ DecisionOf[work'[v].msg.id] = d)
        PROVE  Spare(d)
    BY <1>3, <1>5, <2>3 DEF Spare, Unregisters, Decision, Id, e
  <2>4. \A d \in DecisionIds : chances[d] \in Nat
    BY DEF ChanceInv
  <2>5. \A d \in DecisionIds : chances[d] <= chances'[d] /\ (d = e => chances[d] < chances'[d])
    BY <2>2, <2>4
  <2>. QED  BY <1>1, <2>2, <2>3, <2>5 DEF ChancesGrow, Spare, Unregisters, Decision, Id
<1>. QED  BY <1>4, <1>5 DEF RegistryStep, RegisterExposure, RegisterExposureFails

LEMMA HandlerChances ==
    ASSUME AttributionInv, ChanceInv, NEW w \in Attributors,
           \/ GetExposureFails(w)
           \/ GetExposure(w) /\ (NoRow \/ WriteRow(Id(w), "bare"))
           \/ RegisterConversion(w) \/ RegisterConversionFails(w)
           \/ IndexConversion(w) \/ IndexConversionFails(w)
    PROVE  ChancesGrow
<1>1. /\ work[w] # NoWork /\ work[w].at # "unregister"
      /\ UNCHANGED <<exposureKeys, chances>>
  BY DEF GetExposureFails, GetExposure, RegisterConversion, RegisterConversionFails,
         IndexConversion, IndexConversionFails, Busy, redisVars
<1>2. Shape /\ w \in Workers /\ Id(w) \in Ids
  BY <1>1, AttributorShape
<1>3. NoRow \/ WriteRow(Id(w), "bare")
  BY DEF GetExposureFails, RegisterConversion, RegisterConversionFails,
         IndexConversion, IndexConversionFails
<1>4. \A i \in Ids : "experiment" \in verdicts'[i] <=> "experiment" \in verdicts[i]
  BY <1>2, <1>3 DEF NoRow, WriteRow, Shape
<1>5. \A v \in Workers : v # w => work'[v] = work[v]
  <2>1. \/ Done(w)
        \/ Failed(w)
        \/ Goto(w, "unregister") \/ Goto(w, "register") \/ Goto(w, "index")
    BY DEF GetExposureFails, GetExposure, RegisterConversion, RegisterConversionFails,
           IndexConversion, IndexConversionFails
  <2>2. Ends(w) \/ Becomes(w, {"handle", "dead"}) \/ Becomes(w, {"unregister"})
          \/ Becomes(w, {"register"}) \/ Becomes(w, {"index"})
    BY <1>1, <1>2, <2>1, DoneShape, FailedJob, GotoJob DEF WorkSteps, HandlerSteps
  <2>. QED  BY <2>2 DEF Ends, Becomes, OtherJobs
<1>6. \A v \in Attributors : (work[v] # NoWork /\ work[v].at = "unregister") => work'[v] = work[v]
  BY <1>1, <1>5, AttributorFacts
<1>. QED  BY <1>1, <1>4, <1>6, SpareStays

\* An attributor that finds the exposure uses the one spare chance.
LEMMA AttributionUsesChance ==
    ASSUME AttributionInv, ChanceInv, OneHandPerDecision, NEW w \in Attributors,
           GetExposure(w), WriteRow(Id(w), "experiment")
    PROVE  ChanceInv'
<1>. DEFINE e == Decision(w)
            i == Id(w)
<1>1. /\ work[w] # NoWork /\ work[w].at = "handle"
      /\ UNCHANGED <<exposureKeys, chances>>
      /\ verdicts' = [verdicts EXCEPT ![i] = @ \cup {"experiment"}]
  BY DEF GetExposure, Busy, redisVars, WriteRow
<1>2. /\ Shape /\ w \in Workers /\ i \in Ids /\ e = DecisionOf[i]
      /\ verdicts \in [Ids -> SUBSET Arms]
  BY <1>1, AttributorShape DEF Shape
<1>3. e \in exposureKeys /\ Goto(w, "unregister")
  <2>1. "experiment" \in verdicts'[i] /\ "experiment" \notin verdicts[i]
    BY <1>1, <1>2 DEF AttributionInv, VerdictInv, Holds
  <2>2. ~NoRow /\ ~WriteRow(i, "bare")
    <3>1. ASSUME WriteRow(i, "bare") PROVE FALSE
      <4>1. verdicts'[i] = verdicts[i] \cup {"bare"}
        BY <1>2, <3>1 DEF WriteRow
      <4>. QED  BY <2>1, <4>1
    <3>. QED  BY <2>1, <3>1 DEF NoRow
  <2>. QED  BY <2>2 DEF GetExposure
<1>4. e \in DecisionIds
  BY <1>2, <1>3 DEF Shape
<1>5. Becomes(w, {"unregister"})
  BY <1>1, <1>2, <1>3, GotoJob DEF WorkSteps, HandlerSteps
<1>6. /\ work'[w] # NoWork /\ work'[w].at = "unregister" /\ work'[w].msg.id = i
      /\ \A v \in Attributors : v # w => work'[v] = work[v]
  BY <1>5, AttributorFacts DEF Becomes, OtherJobs, Id
<1>7. Spare(e)
  BY <1>1, <1>3 DEF Spare, Unregisters, OneHandPerDecision
<1>. HIDE DEF e, i
<1>8. ASSUME NEW d \in DecisionIds
      PROVE  {j \in Ids : DecisionOf[j] = d /\ "experiment" \in verdicts'[j]}
               = IF d = e THEN AttributedTo(d) \cup {i} ELSE AttributedTo(d)
  BY <1>1, <1>2 DEF AttributedTo
<1>9. ASSUME NEW d \in DecisionIds
      PROVE  /\ IsFiniteSet(AttributedTo(d)) /\ Cardinality(AttributedTo(d)) \in Nat
             /\ IsFiniteSet(AttributedTo(d) \cup {i})
             /\ Cardinality(AttributedTo(d) \cup {i}) <= Cardinality(AttributedTo(d)) + 1
             /\ Cardinality(AttributedTo(d) \cup {i}) \in Nat
             /\ Cardinality(AttributedTo(d)) <= chances[d]
             /\ Spare(d) => Cardinality(AttributedTo(d)) < chances[d]
             /\ chances[d] \in Nat
  <2>1. /\ IsFiniteSet(AttributedTo(d))
        /\ Cardinality(AttributedTo(d)) <= chances[d]
        /\ Spare(d) => Cardinality(AttributedTo(d)) < chances[d]
        /\ chances[d] \in Nat
    BY DEF ChanceInv
  <2>2. Cardinality(AttributedTo(d)) \in Nat
    BY <2>1, FS_CardinalityType
  <2>3. /\ IsFiniteSet(AttributedTo(d) \cup {i})
        /\ Cardinality(AttributedTo(d) \cup {i}) =
             IF i \in AttributedTo(d) THEN Cardinality(AttributedTo(d))
                                      ELSE Cardinality(AttributedTo(d)) + 1
    BY <2>1, FS_AddElement
  <2>. QED  BY <2>1, <2>2, <2>3
<1>10. ASSUME NEW d \in DecisionIds, d # e, d \in exposureKeys',
              \A v \in Attributors : ~(work'[v] # NoWork /\ work'[v].at = "unregister"
                                         /\ DecisionOf[work'[v].msg.id] = d)
       PROVE  Spare(d)
  BY <1>1, <1>6, <1>10 DEF Spare, Unregisters, Decision, Id
<1>11. DecisionOf[work'[w].msg.id] = e
  BY <1>2, <1>6
<1>12. ASSUME NEW d \in DecisionIds
       PROVE  /\ IsFiniteSet(AttributedTo(d)')
              /\ Cardinality(AttributedTo(d)') <= chances[d]
              /\ Spare(d)' => Cardinality(AttributedTo(d)') < chances[d]
  <2>1. CASE d = e
    <3>1. AttributedTo(d)' = AttributedTo(d) \cup {i}
      BY <1>8, <2>1 DEF AttributedTo
    <3>2. ~Spare(d)'
      BY <1>6, <1>11, <2>1 DEF Spare, Unregisters, Decision, Id
    <3>3. Cardinality(AttributedTo(d) \cup {i}) <= chances[d]
      BY <1>7, <1>9, <2>1
    <3>. QED  BY <1>9, <3>1, <3>2, <3>3
  <2>2. CASE d # e
    <3>1. AttributedTo(d)' = AttributedTo(d)
      BY <1>8, <2>2 DEF AttributedTo
    <3>2. Spare(d)' => Spare(d)
      BY <1>10, <2>2 DEF Spare, Unregisters, Decision, Id
    <3>. QED  BY <1>9, <3>1, <3>2
  <2>. QED  BY <2>1, <2>2
<1>. QED  BY <1>1, <1>12 DEF ChanceInv

LEMMA DeleteExposureChances ==
    ASSUME AttributionInv, ChanceInv, NEW w \in Attributors,
           DeleteExposure(w) \/ DeleteExposureFails(w)
    PROVE  ChancesGrow
<1>. DEFINE e == Decision(w)
<1>1. work[w] # NoWork /\ work[w].at = "unregister" /\ verdicts' = verdicts
  BY DEF DeleteExposure, DeleteExposureFails, Busy, NoRow
<1>2. Shape /\ w \in Attributors \cup Registries /\ e \in DecisionIds
  BY <1>1, AttributorShape DEF AttributionInv, HandsInv
<1>3. \A v \in Attributors : v # w => work'[v] = work[v]
  <2>1. Ends(w)
    BY <1>2, DoneShape DEF DeleteExposure, DeleteExposureFails
  <2>. QED  BY <2>1, AttributorFacts DEF Ends, OtherJobs
<1>4. exposureKeys' \subseteq exposureKeys
  BY DEF DeleteExposure, DeleteExposureFails
<1>5. ASSUME NEW d \in DecisionIds, d # e, d \in exposureKeys',
             \A v \in Attributors : ~(work'[v] # NoWork /\ work'[v].at = "unregister"
                                        /\ DecisionOf[work'[v].msg.id] = d)
      PROVE  Spare(d)
  BY <1>3, <1>4, <1>5 DEF Spare, Unregisters, Decision, Id
<1>6. \/ e \notin exposureKeys' /\ chances' = chances
      \/ Chance(e)
  BY DEF DeleteExposure, DeleteExposureFails
<1>. HIDE DEF e
<1>7. /\ chances' \in [DecisionIds -> Nat]
      /\ \A d \in DecisionIds :
           /\ chances[d] <= chances'[d]
           /\ d = e => e \notin exposureKeys' \/ chances[d] < chances'[d]
  <2>1. \A d \in DecisionIds : chances[d] \in Nat
    BY DEF ChanceInv
  <2>2. CASE e \notin exposureKeys' /\ chances' = chances
    BY <2>1, <2>2 DEF ChanceInv
  <2>3. CASE Chance(e)
    <3>1. /\ chances' \in [DecisionIds -> Nat]
          /\ \A d \in DecisionIds : chances'[d] = IF d = e THEN chances[d] + 1 ELSE chances[d]
      BY <1>2, <2>3 DEF ChanceInv, Chance
    <3>. QED  BY <2>1, <3>1
  <2>. QED  BY <1>6, <2>2, <2>3
<1>. QED  BY <1>1, <1>5, <1>7 DEF ChancesGrow, Spare, Unregisters, Decision, Id

LEMMA TimeSweepChances ==
    ASSUME AttributionInv, ChanceInv, SweeperStep \/ TimePasses
    PROVE  ChancesGrow
<1>1. /\ UNCHANGED <<work, chances>> /\ exposureKeys' \subseteq exposureKeys
  BY DEF SweeperStep, ListExpired, GetConversion, DeleteConversion, UnindexConversion,
         SweepFails, SweepFrame, TimePasses, ExposureExpires, ConversionDue, ConversionExpires,
         TimeFrame, consumerVars
<1>2. verdicts' = verdicts \/ \E d \in sweep.todo :
        conversionKeys[d] # NoConversion /\ WriteRow(conversionKeys[d], "bare")
  BY DEF SweeperStep, ListExpired, GetConversion, DeleteConversion, UnindexConversion,
         SweepFails, TimePasses, ExposureExpires, ConversionDue, ConversionExpires,
         TimeFrame, NoRow
<1>3. \A i \in Ids : "experiment" \in verdicts'[i] <=> "experiment" \in verdicts[i]
  <2>1. verdicts \in [Ids -> SUBSET Arms]
    BY DEF AttributionInv, Shape
  <2>2. ASSUME NEW i, verdicts' = [verdicts EXCEPT ![i] = @ \cup {"bare"}]
        PROVE  \A j \in Ids : "experiment" \in verdicts'[j] <=> "experiment" \in verdicts[j]
    BY <2>1, <2>2
  <2>. QED  BY <1>2, <2>2 DEF WriteRow
<1>. QED  BY <1>1, <1>3, SpareStays

LEMMA LoopChances ==
    ASSUME AttributionInv, ChanceInv,
           AttributionLoop \/ Surroundings \/ UNCHANGED attributionState
    PROVE  ChancesGrow
<1>1. UNCHANGED <<exposureKeys, verdicts, chances>>
  BY DEF AttributionLoop, Surroundings, attributionState, attributionVars
<1>2. \A v \in Attributors : (work[v] # NoWork /\ work[v].at = "unregister") => work'[v] = work[v]
  <2>1. CASE AttributionLoop
    <3>1. PICK w \in Registries \cup Attributors : LoopStep(w)
      BY <2>1 DEF AttributionLoop
    <3>2. /\ work[w] = NoWork \/ work[w].at # "unregister"
          /\ w \in Workers /\ RoleOf[w] \in {"registry", "attributor"}
      BY <3>1, AttributorFacts DEF LoopStep, ReadMessage, ReadMessageFails, Forward, SendDLQ,
         SendDLQFails, Busy
    <3>3. \A v \in Workers : v # w => work'[v] = work[v]
      BY <3>1, <3>2 DEF LoopStep, ReadMessage, ReadMessageFails, Forward, SendDLQ,
         SendDLQFails, AttributionInv, Shape
    <3>. QED  BY <3>2, <3>3, AttributorFacts
  <2>2. CASE Surroundings
    BY <2>2 DEF Surroundings
  <2>3. CASE UNCHANGED attributionState
    BY <2>3 DEF attributionState, consumerVars
  <2>. QED  BY <2>1, <2>2, <2>3
<1>. QED  BY <1>1, <1>2, SpareStays

\* A crash before the deletion leaves the exposure for another conversion.
LEMMA CrashChances ==
    ASSUME AttributionInv, ChanceInv, OneHandPerDecision, AttributionCrash
    PROVE  ChancesGrow
<1>. DEFINE U(d) == {w \in Attributors : Busy(w, "unregister") /\ Decision(w) = d}
<1>1. /\ UNCHANGED <<exposureKeys, verdicts>>
      /\ chances' = [d \in DecisionIds |-> chances[d] + Cardinality(U(d))]
  BY DEF AttributionCrash, AttributionDies, redisVars
<1>2. ASSUME NEW d \in DecisionIds
      PROVE  \/ U(d) = {} /\ Cardinality(U(d)) = 0
             \/ Cardinality(U(d)) = 1
  <2>1. CASE U(d) = {}
    BY <2>1, FS_EmptySet
  <2>2. CASE U(d) # {}
    <3>1. PICK w : w \in U(d)
      BY <2>2
    <3>2. U(d) = {w}
      BY <3>1 DEF OneHandPerDecision, Busy
    <3>. QED  BY <3>2, FS_Singleton
  <2>. QED  BY <2>1, <2>2
<1>3. ASSUME NEW d \in DecisionIds
      PROVE  /\ chances[d] \in Nat /\ chances'[d] \in Nat /\ chances[d] <= chances'[d]
             /\ U(d) # {} => chances[d] < chances'[d]
  BY <1>1, <1>2 DEF ChanceInv
<1>4. ASSUME NEW d \in DecisionIds, d \in exposureKeys, U(d) = {}
      PROVE  Spare(d)
  BY <1>4 DEF Spare, Unregisters, Busy
<1>. HIDE DEF U
<1>5. chances' \in [DecisionIds -> Nat]
  BY <1>1, <1>3
<1>. QED  BY <1>1, <1>3, <1>4, <1>5 DEF ChancesGrow, Spare

LEMMA StepChances ==
    AttributionInv /\ ChanceInv /\ OneHandPerDecision
        /\ [AttributionStep]_attributionState => ChanceInv'
<1>. SUFFICES ASSUME AttributionInv, ChanceInv, OneHandPerDecision,
                     [AttributionStep]_attributionState
              PROVE  ChanceInv'
  OBVIOUS
<1>1. ASSUME NEW w \in Registries, RegistryStep(w) PROVE ChanceInv'
  BY <1>1, RegistryChances, ChancesGrowKeeps
<1>2. ASSUME NEW w \in Attributors, AttributorStep(w) PROVE ChanceInv'
  <2>1. CASE GetExposure(w)
    <3>1. NoRow \/ WriteRow(Id(w), "bare") \/ WriteRow(Id(w), "experiment")
      BY <2>1 DEF GetExposure
    <3>. QED
      BY <2>1, <3>1, HandlerChances, AttributionUsesChance, ChancesGrowKeeps
  <2>2. CASE DeleteExposure(w) \/ DeleteExposureFails(w)
    BY <2>2, DeleteExposureChances, ChancesGrowKeeps
  <2>. QED
    BY <1>2, <2>1, <2>2, HandlerChances, ChancesGrowKeeps DEF AttributorStep
<1>3. CASE SweeperStep \/ TimePasses
  BY <1>3, TimeSweepChances, ChancesGrowKeeps
<1>4. CASE AttributionLoop \/ Surroundings \/ UNCHANGED attributionState
  BY <1>4, LoopChances, ChancesGrowKeeps
<1>5. CASE AttributionCrash
  BY <1>5, CrashChances, ChancesGrowKeeps
<1>. QED  BY <1>1, <1>2, <1>3, <1>4, <1>5 DEF AttributionStep, AttributionNext

LEMMA InitChances == AttributionSpec => ChanceInv
<1>. SUFFICES ASSUME AttributionSpec PROVE ChanceInv
  OBVIOUS
<1>1. /\ exposureKeys = {} /\ verdicts = [i \in Ids |-> {}]
      /\ chances = [d \in DecisionIds |-> 0]
  BY DEF AttributionSpec, AttributionInit
<1>2. \A d \in DecisionIds : AttributedTo(d) = {} /\ ~Spare(d)
  BY <1>1 DEF AttributedTo, Spare
<1>. QED  BY <1>1, <1>2, FS_EmptySet DEF ChanceInv

\* An exposure attributes one conversion, whatever fails and is repeated and
\* whenever the process dies between the row and the deletion, as long as the
\* conversions of a decision are in one attributor's hands at a time.
THEOREM ExposureOnce ==
    AttributionSpec /\ []OneHandPerDecision => []ExposureUsedOnce
<1>1. AttributionSpec => ChanceInv
  BY InitChances
<1>2. AttributionInv /\ ChanceInv /\ OneHandPerDecision
        /\ [AttributionStep]_attributionState => ChanceInv'
  BY StepChances
<1>3. ChanceInv => ExposureUsedOnce
  BY DEF ChanceInv, ExposureUsedOnce
<1>. QED
  BY <1>1, <1>2, <1>3, AttributionInvariant, PTL
  DEF AttributionSpec, AttributionStep, attributionState

\* One process runs one attributor, so one replica is enough.
COROLLARY ExposureOnceAlone ==
    ASSUME \A v, w \in Attributors : v = w
    PROVE  AttributionSpec => []ExposureUsedOnce
<1>1. OneHandPerDecision
  BY DEF OneHandPerDecision
<1>. QED  BY <1>1, ExposureOnce, PTL
=============================================================================
