---------------------------- MODULE Attribution ----------------------------
(***************************************************************************)
(* Attribution of conversions to the exposure of their decision.  The      *)
(* registry keeps the exposure of a decision in Redis; the attributor      *)
(* either finds it and writes a row with the experiment, or leaves the     *)
(* conversion there as pending; the sweeper writes the pending ones that   *)
(* are due without an experiment.  The rows go to the shared writer of     *)
(* ClickHouseIngest.                                                       *)
(*                                                                         *)
(* Registry, attributor and sweeper share the keys of a decision and no    *)
(* lock.  Time is abstracted to two events of a pending conversion: its    *)
(* score in the sorted set is reached, and its key expires, which it does  *)
(* within the same second.                                                 *)
(***************************************************************************)
EXTENDS RetryConsumer, ClickHouseIngest

CONSTANTS
    DecisionIds,     \* decisions that exposures and conversions refer to
    NoDecision,      \* an event without decision_id
    NoConversion,    \* no pending conversion
    DecisionOf,      \* the decision_id in each event and exposure
    NeedsExposure    \* ids of events whose type has require_exposure

ASSUME AttributionAssumption ==
    /\ DecisionOf \in [Ids -> DecisionIds \cup {NoDecision}]
    /\ NoDecision \notin DecisionIds
    /\ NoConversion \notin Ids
    /\ NeedsExposure \subseteq Ids
    /\ Ids \X {"experiment", "bare"} \subseteq Rows
    /\ IsFiniteSet(Workers)

VARIABLES
    exposureKeys,    \* decisions with a key pending:exposure
    conversionKeys,  \* pending:conversion of each decision
    due,             \* pending:conversions: not indexed, waiting, or due
    sweep,           \* the sweeper: decisions it has listed, and its step
    verdicts,        \* the rows written for each event, with experiment or bare
    chances,         \* registrations of a decision's exposure, and the times
                     \* its key outlived an attribution
    forgotten,       \* events whose key expired, or was deleted unread
    unsure           \* events whose registration was answered with an error
                     \* after their key was stored

attributionVars == <<exposureKeys, conversionKeys, due, sweep, verdicts,
                     chances, forgotten, unsure>>
redisVars == <<exposureKeys, conversionKeys, due>>

Attributors == {w \in Workers : RoleOf[w] = "attributor"}
Registries == {w \in Workers : RoleOf[w] = "registry"}
Arms == {"experiment", "bare"}
NoSweep == [todo |-> {}, at |-> "list", decision |-> NoDecision, read |-> NoConversion]

AttributionTypeOK ==
    /\ exposureKeys \subseteq DecisionIds
    /\ conversionKeys \in [DecisionIds -> Ids \cup {NoConversion}]
    /\ due \in [DecisionIds -> {"none", "waiting", "due"}]
    /\ sweep \in [todo : SUBSET DecisionIds, at : {"list", "get", "del", "rem"},
                  decision : DecisionIds \cup {NoDecision}, read : Ids \cup {NoConversion}]
    /\ verdicts \in [Ids -> SUBSET Arms]
    /\ chances \in [DecisionIds -> Nat]
    /\ forgotten \subseteq Ids
    /\ unsure \subseteq Ids

AttributionInit ==
    /\ exposureKeys = {}
    /\ conversionKeys = [d \in DecisionIds |-> NoConversion]
    /\ due = [d \in DecisionIds |-> "none"]
    /\ sweep = NoSweep
    /\ verdicts = [i \in Ids |-> {}]
    /\ chances = [d \in DecisionIds |-> 0]
    /\ forgotten = {}
    /\ unsure = {}

Decision(w) == DecisionOf[Id(w)]

\* WriteAttributed: the row is in the writer's buffer, no more.
WriteRow(i, arm) ==
    /\ AppendRow("attributed", <<i, arm>>)
    /\ verdicts' = [verdicts EXCEPT ![i] = @ \cup {arm}]

NoRow == UNCHANGED <<buffer, verdicts>>

\* What a handler of these consumers leaves alone.
HandlerFrame ==
    UNCHANGED <<log, offset, lost, flush, cursor, uncommitted, stored, taken, passed, sweep>>

Chance(d) == chances' = [chances EXCEPT ![d] = @ + 1]

-----------------------------------------------------------------------------
(* ExposureRegistry.Handle *)

\* SET NX: nil, when the key exists, is an error like any other.
RegisterExposure(w) ==
    /\ Busy(w, "handle")
    /\ \/ /\ Decision(w) \notin exposureKeys
          /\ exposureKeys' = exposureKeys \cup {Decision(w)}
          /\ Chance(Decision(w))
          /\ Done(w)
       \/ /\ Decision(w) \in exposureKeys
          /\ Failed(w)
          /\ UNCHANGED <<exposureKeys, chances>>
    /\ NoFault
    /\ NoRow
    /\ HandlerFrame
    /\ UNCHANGED <<conversionKeys, due, forgotten, unsure>>

\* Redis answers with an error, before or after the SET.
RegisterExposureFails(w) ==
    /\ Busy(w, "handle")
    /\ \/ /\ Decision(w) \notin exposureKeys
          /\ exposureKeys' = exposureKeys \cup {Decision(w)}
          /\ Chance(Decision(w))
       \/ UNCHANGED <<exposureKeys, chances>>
    /\ Failed(w)
    /\ Fault
    /\ NoRow
    /\ HandlerFrame
    /\ UNCHANGED <<conversionKeys, due, forgotten, unsure>>

-----------------------------------------------------------------------------
(* Attributor.Handle *)

GetExposure(w) ==
    /\ Busy(w, "handle")
    /\ \/ /\ Decision(w) = NoDecision
          /\ Done(w)
          /\ NoRow
       \/ /\ Decision(w) \in exposureKeys
          /\ WriteRow(Id(w), "experiment")
          /\ Goto(w, "unregister")
       \/ /\ Decision(w) \in DecisionIds \ exposureKeys
          /\ Id(w) \notin NeedsExposure
          /\ WriteRow(Id(w), "bare")
          /\ Done(w)
       \/ /\ Decision(w) \in DecisionIds \ exposureKeys
          /\ Id(w) \in NeedsExposure
          /\ Goto(w, "register")
          /\ NoRow
    /\ NoFault
    /\ HandlerFrame
    /\ UNCHANGED <<redisVars, chances, forgotten, unsure>>

GetExposureFails(w) ==
    /\ Busy(w, "handle")
    /\ Decision(w) # NoDecision
    /\ Failed(w)
    /\ Fault
    /\ NoRow
    /\ HandlerFrame
    /\ UNCHANGED <<redisVars, chances, forgotten, unsure>>

\* Mutant: the exposure is left for other conversions.
DeleteExposureNot(w) ==
    /\ Busy(w, "unregister")
    /\ Done(w)
    /\ NoFault
    /\ NoRow
    /\ HandlerFrame
    /\ UNCHANGED <<redisVars, chances, forgotten, unsure>>

DeleteExposure(w) ==
    /\ Busy(w, "unregister")
    /\ exposureKeys' = exposureKeys \ {Decision(w)}
    /\ Done(w)
    /\ NoFault
    /\ NoRow
    /\ HandlerFrame
    /\ UNCHANGED <<conversionKeys, due, chances, forgotten, unsure>>

\* Mutant: the error of the deletion is returned.
DeleteExposureFailsReturned(w) ==
    /\ Busy(w, "unregister")
    /\ exposureKeys' \in {exposureKeys, exposureKeys \ {Decision(w)}}
    /\ Failed(w)
    /\ Fault
    /\ NoRow
    /\ HandlerFrame
    /\ UNCHANGED <<conversionKeys, due, chances, forgotten, unsure>>

\* Only a warning: the row is written, and a repetition would register the
\* conversion when the key is gone after all.
DeleteExposureFails(w) ==
    /\ Busy(w, "unregister")
    /\ \/ /\ exposureKeys' = exposureKeys \ {Decision(w)}
          /\ UNCHANGED chances
       \/ /\ Decision(w) \in exposureKeys
          /\ Chance(Decision(w))
          /\ UNCHANGED exposureKeys
    /\ Done(w)
    /\ Fault
    /\ NoRow
    /\ HandlerFrame
    /\ UNCHANGED <<conversionKeys, due, forgotten, unsure>>

\* Mutant: SET without NX.
RegisterConversionAnyway(w) ==
    /\ Busy(w, "register")
    /\ conversionKeys' = [conversionKeys EXCEPT ![Decision(w)] = Id(w)]
    /\ Goto(w, "index")
    /\ NoFault
    /\ NoRow
    /\ HandlerFrame
    /\ UNCHANGED <<exposureKeys, due, chances, forgotten, unsure>>

\* RegisterConversion, first half: SET NX.  The decision may have a pending
\* conversion already.
RegisterConversion(w) ==
    /\ Busy(w, "register")
    /\ \/ /\ conversionKeys[Decision(w)] = NoConversion
          /\ conversionKeys' = [conversionKeys EXCEPT ![Decision(w)] = Id(w)]
          /\ Goto(w, "index")
       \/ /\ conversionKeys[Decision(w)] # NoConversion
          /\ Failed(w)
          /\ UNCHANGED conversionKeys
    /\ NoFault
    /\ NoRow
    /\ HandlerFrame
    /\ UNCHANGED <<exposureKeys, due, chances, forgotten, unsure>>

RegisterConversionFails(w) ==
    /\ Busy(w, "register")
    /\ \/ UNCHANGED <<conversionKeys, unsure>>
       \/ /\ conversionKeys[Decision(w)] = NoConversion
          /\ conversionKeys' = [conversionKeys EXCEPT ![Decision(w)] = Id(w)]
          /\ unsure' = unsure \cup {Id(w)}
    /\ Failed(w)
    /\ Fault
    /\ NoRow
    /\ HandlerFrame
    /\ UNCHANGED <<exposureKeys, due, chances, forgotten>>

\* Second half: ZADD, which also moves the score of an older entry.
IndexConversion(w) ==
    /\ Busy(w, "index")
    /\ due' = [due EXCEPT ![Decision(w)] = "waiting"]
    /\ Done(w)
    /\ NoFault
    /\ NoRow
    /\ HandlerFrame
    /\ UNCHANGED <<exposureKeys, conversionKeys, chances, forgotten, unsure>>

IndexConversionFails(w) ==
    /\ Busy(w, "index")
    /\ due' \in {due, [due EXCEPT ![Decision(w)] = "waiting"]}
    /\ unsure' = unsure \cup {Id(w)}
    /\ Failed(w)
    /\ Fault
    /\ NoRow
    /\ HandlerFrame
    /\ UNCHANGED <<exposureKeys, conversionKeys, chances, forgotten>>

-----------------------------------------------------------------------------
(* Time *)

TimeFrame ==
    /\ NoFault
    /\ UNCHANGED <<topicVars, consumerVars, ingestVars, sweep, verdicts, chances, unsure>>

\* The attribution window of a decision passes.
ExposureExpires(d) ==
    /\ d \in exposureKeys
    /\ exposureKeys' = exposureKeys \ {d}
    /\ TimeFrame
    /\ UNCHANGED <<conversionKeys, due, forgotten>>

ConversionDue(d) ==
    /\ due[d] = "waiting"
    /\ due' = [due EXCEPT ![d] = "due"]
    /\ TimeFrame
    /\ UNCHANGED <<exposureKeys, conversionKeys, forgotten>>

\* The key outlives its score by less than a second, the sweeper comes once a
\* minute; a key that never was indexed expires as well.
ConversionExpires(d) ==
    /\ conversionKeys[d] # NoConversion
    /\ due[d] # "waiting"
    /\ conversionKeys' = [conversionKeys EXCEPT ![d] = NoConversion]
    /\ forgotten' = forgotten \cup {conversionKeys[d]}
    /\ TimeFrame
    /\ UNCHANGED <<exposureKeys, due>>

-----------------------------------------------------------------------------
(* Sweeper *)

SweepFrame ==
    UNCHANGED <<log, offset, consumerVars, flush, cursor, uncommitted, stored,
                taken, passed, exposureKeys, chances, unsure>>

\* ExpiredConversions.
ListExpired ==
    /\ sweep.at = "list"
    /\ LET expired == {d \in DecisionIds : due[d] = "due"}
       IN /\ expired # {}
          /\ sweep' = [sweep EXCEPT !.todo = expired, !.at = "get"]
    /\ NoFault
    /\ NoRow
    /\ SweepFrame
    /\ UNCHANGED <<conversionKeys, due, forgotten>>

\* The next decision of the list, or the end of the sweep.
NextDecision(d) ==
    sweep' = IF sweep.todo = {d} THEN NoSweep
                                 ELSE [NoSweep EXCEPT !.todo = sweep.todo \ {d}, !.at = "get"]

\* expireConversion: GetConversion, and the bare row when there is one.
GetConversion ==
    /\ sweep.at = "get"
    /\ \E d \in sweep.todo :
         /\ sweep' = [sweep EXCEPT !.at = "del", !.decision = d, !.read = conversionKeys[d]]
         /\ IF conversionKeys[d] = NoConversion THEN NoRow
                                                ELSE WriteRow(conversionKeys[d], "bare")
    /\ NoFault
    /\ SweepFrame
    /\ UNCHANGED <<conversionKeys, due, forgotten>>

\* DEL, whatever the key holds by now.
DropConversion(d) ==
    /\ conversionKeys' = [conversionKeys EXCEPT ![d] = NoConversion]
    /\ forgotten' = forgotten \cup ({conversionKeys[d]} \ {sweep.read, NoConversion})

DeleteConversion ==
    /\ sweep.at = "del"
    /\ DropConversion(sweep.decision)
    /\ sweep' = [sweep EXCEPT !.at = "rem"]
    /\ NoFault
    /\ NoRow
    /\ SweepFrame
    /\ UNCHANGED due

\* ZREM.
UnindexConversion ==
    /\ sweep.at = "rem"
    /\ due' = [due EXCEPT ![sweep.decision] = "none"]
    /\ NextDecision(sweep.decision)
    /\ NoFault
    /\ NoRow
    /\ SweepFrame
    /\ UNCHANGED <<conversionKeys, forgotten>>

\* A failed command ends the work on this decision until the next sweep.
SweepFails ==
    /\ sweep.at \in {"get", "del", "rem"}
    /\ \/ /\ sweep.at = "get"
          /\ \E d \in sweep.todo : NextDecision(d)
          /\ UNCHANGED <<conversionKeys, due, forgotten>>
       \/ /\ sweep.at = "del"
          /\ NextDecision(sweep.decision)
          /\ DropConversion(sweep.decision) \/ UNCHANGED <<conversionKeys, forgotten>>
          /\ UNCHANGED due
       \/ /\ sweep.at = "rem"
          /\ NextDecision(sweep.decision)
          /\ due' \in {due, [due EXCEPT ![sweep.decision] = "none"]}
          /\ UNCHANGED <<conversionKeys, forgotten>>
    /\ Fault
    /\ NoRow
    /\ SweepFrame

-----------------------------------------------------------------------------
(* The component *)

\* A restart: Redis keeps everything, the sweep is over.
AttributionDies ==
    /\ sweep' = NoSweep
    /\ chances' = [d \in DecisionIds |->
                     chances[d] + Cardinality({w \in Attributors :
                       Busy(w, "unregister") /\ Decision(w) = d})]
    /\ UNCHANGED <<redisVars, verdicts, forgotten, unsure>>

RegistryStep(w) == RegisterExposure(w) \/ RegisterExposureFails(w)

AttributorStep(w) ==
    \/ GetExposure(w)
    \/ GetExposureFails(w)
    \/ DeleteExposure(w)
    \/ DeleteExposureFails(w)
    \/ RegisterConversion(w)
    \/ RegisterConversionFails(w)
    \/ IndexConversion(w)
    \/ IndexConversionFails(w)

SweeperStep ==
    \/ ListExpired
    \/ GetConversion
    \/ DeleteConversion
    \/ UnindexConversion
    \/ SweepFails

TimePasses ==
    \E d \in DecisionIds :
        ExposureExpires(d) \/ ConversionDue(d) \/ ConversionExpires(d)

AttributionNext ==
    \/ \E w \in Registries : RegistryStep(w)
    \/ \E w \in Attributors : AttributorStep(w)
    \/ SweeperStep
    \/ TimePasses

AttributionCrash ==
    /\ ConsumersDie
    /\ AttributionDies
    /\ IngestersDie
    /\ Fault
    /\ UNCHANGED <<log, offset, stored>>

\* What the topics bring: each event once, as EventDedup forwards it, and
\* exposures that name a decision, as the intake requires.
TopicsFed ==
    /\ log \in [Topics -> Seq(Messages)]
    /\ NoCopies(log["deduped"])
    /\ \A k \in 1..Len(log["exposures"]) :
          DecisionOf[log["exposures"][k].id] \in DecisionIds

\* The rest of the service: messages arrive, other groups commit, other
\* workers act and lose messages, the writer is filled and flushed.
Surroundings ==
    /\ \A t \in Topics : \E msgs \in Seq(Messages) : log'[t] = log[t] \o msgs
    /\ TopicsFed'
    /\ offset' \in [Readers -> Nat]
    /\ \A c \in {"registry", "attributor"} : offset'[c] = offset[c]
    /\ work' \in [Workers -> Jobs \cup {NoWork}]
    /\ \A w \in Registries \cup Attributors : work'[w] = work[w]
    /\ lost \subseteq lost'
    /\ UNCHANGED attributionVars

AttributionLoop ==
    /\ \E w \in Registries \cup Attributors : LoopStep(w)
    /\ UNCHANGED <<ingestVars, attributionVars>>

AttributionSpec ==
    /\ TopicsFed
    /\ offset = [c \in Readers |-> 0]
    /\ faults \in 0..MaxFaults
    /\ ConsumerInit
    /\ IngestInit
    /\ AttributionInit
    /\ [][\/ AttributionNext
          \/ AttributionLoop
          \/ AttributionCrash
          \/ Surroundings]_<<topicVars, consumerVars, ingestVars, attributionVars>>

-----------------------------------------------------------------------------
(* Properties *)

AttributedTo(d) == {i \in Ids : DecisionOf[i] = d /\ "experiment" \in verdicts[i]}

\* One exposure attributes one conversion, although lookup and deletion are
\* two commands: more conversions than that need as many registrations, or a
\* key that outlived its deletion (a failed DEL, a restart in between).
ExposureUsedOnce ==
    \A d \in DecisionIds : Cardinality(AttributedTo(d)) <= chances[d]

\* An event never has a row with its experiment and a later one without, which
\* would replace it in ClickHouse: what is attributed is not pending - unless
\* the registration was reported as failed after its key had been stored.
OneVerdict ==
    \A i \in Ids : verdicts[i] = Arms => i \in unsure

\* A conversion whose offset the attributor has committed is in its hands, dead,
\* pending, handed to the shared writer (whose buffer a crash loses: RowsKept), or
\* gone in one of these ways: the key it was pending under expired or was deleted
\* unread, a commit or a dead-letter write failed, or the process died with it.
\* No step of the three actors drops one in any other way.
ConversionAccounted ==
    \A k \in 1..offset["attributor"] :
        LET i == log["deduped"][k].id
        IN \/ DecisionOf[i] = NoDecision
           \/ verdicts[i] # {}
           \/ conversionKeys[DecisionOf[i]] = i
           \/ i \in IdsIn(log["dlq"]) \cup forgotten
           \/ <<"attributor", i>> \in lost
           \/ \E w \in Attributors : work[w] # NoWork /\ Id(w) = i

\* "Expired ones are written without experiment and variant": when the sweeper
\* takes an expired decision off its list, a conversion that waited there and is
\* no longer pending has its row.
ExpiredAreWritten ==
    [][\A i \in forgotten :
          (due[DecisionOf[i]] = "due" /\ due'[DecisionOf[i]] = "none")
              => verdicts[i] # {}]_attributionVars
=============================================================================
