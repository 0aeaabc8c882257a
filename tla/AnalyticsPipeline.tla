------------------------- MODULE AnalyticsPipeline -------------------------
(***************************************************************************)
(* The services around Kafka: the intake of the analytics service, its     *)
(* consumers, attribution and ClickHouse writer, and the runtime that      *)
(* makes the decisions.  Each component acts on its own variables and on   *)
(* the topics; this module lets them run together.                         *)
(*                                                                         *)
(* cast names the components that act: the others stand still, as a slow   *)
(* or idle process would.                                                  *)
(***************************************************************************)
EXTENDS EventIntake, EventDedup, Attribution, Decide

VARIABLE cast

Components == {"intake", "dedup", "ingest", "attribution", "decide"}

pipelineVars == <<topicVars, intakeVars, consumerVars, dedupVars, ingestVars,
                  attributionVars, decideVars, cast>>

PipelineTypeOK ==
    /\ TopicsTypeOK
    /\ IntakeTypeOK
    /\ ConsumerTypeOK
    /\ DedupTypeOK
    /\ IngestTypeOK
    /\ AttributionTypeOK
    /\ DecideTypeOK
    /\ cast \subseteq Components

\* A scenario: who acts, what the clients send, what the topics hold, how many
\* failures may happen, what the runtime has loaded.
PipelineInit(scenario) ==
    /\ cast = scenario.cast
    /\ log = scenario.log
    /\ offset = [c \in Readers |-> 0]
    /\ faults = MaxFaults - scenario.faults
    /\ IntakeInit(scenario.workload)
    /\ ConsumerInit
    /\ DedupInit
    /\ IngestInit
    /\ AttributionInit
    /\ DecideInit(scenario.loaded, scenario.written)

\* What a scenario may be: topics that hold an event once when it is deduplicated,
\* and exposures that name a decision, as the intake requires of those it accepts;
\* a runtime that has loaded no later snapshot than Redis holds.
PipelineScenarios ==
    {scenario \in [cast : SUBSET Components, log : [Topics -> Seq(Messages)],
                   faults : 0..MaxFaults, workload : Workloads,
                   loaded : Revisions, written : Revisions] :
        /\ NoCopies(scenario.log["deduped"])
        /\ \A i \in IdsIn(scenario.log["exposures"]) : DecisionOf[i] \in DecisionIds
        /\ \A r \in Requests : scenario.workload[r].topic = "exposures" =>
              \A item \in ToSet(scenario.workload[r].items) :
                  item.ok => DecisionOf[item.id] \in DecisionIds
        /\ scenario.loaded <= scenario.written}

RoleInCast(w) ==
    IF RoleOf[w] \in {"registry", "attributor"} THEN "attribution" \in cast
                                                ELSE "dedup" \in cast

-----------------------------------------------------------------------------

IntakeActs ==
    /\ "intake" \in cast
    /\ \/ \E r \in Requests : RequestStep(r)
       \/ \E i \in Ids : ExpireKey(i)
    /\ UNCHANGED <<consumerVars, dedupVars, ingestVars, attributionVars,
                   decideVars, cast>>

LoopActs(w) ==
    /\ RoleInCast(w)
    /\ LoopStep(w)
    /\ UNCHANGED <<intakeVars, dedupVars, ingestVars, attributionVars,
                   decideVars, cast>>

ValidatorActs(w) ==
    /\ RoleInCast(w)
    /\ \/ Validate(w)
       \/ ForwardFails(w) /\ UNCHANGED dedupVars
    /\ UNCHANGED <<intakeVars, ingestVars, attributionVars, decideVars,
                   cast>>

DedupActs(w) ==
    /\ RoleInCast(w)
    /\ DedupStep(w)
    /\ UNCHANGED <<intakeVars, ingestVars, attributionVars, decideVars,
                   cast>>

IngestActs(c) ==
    /\ "ingest" \in cast
    /\ IngestStep(c)
    /\ UNCHANGED <<intakeVars, consumerVars, dedupVars, attributionVars,
                   decideVars, cast>>

AttributionActs ==
    /\ "attribution" \in cast
    /\ \/ \E w \in Registries : RegistryStep(w)
       \/ \E w \in Attributors : AttributorStep(w)
       \/ SweeperStep
       \/ TimePasses
    /\ UNCHANGED <<intakeVars, dedupVars, decideVars, cast>>

RuntimeActs ==
    /\ "decide" \in cast
    /\ DecideNext
    /\ UNCHANGED <<intakeVars, consumerVars, dedupVars, ingestVars,
                   attributionVars, cast>>

\* One process runs intake, consumers, attribution and writer: it dies whole.
AnalyticsCrash ==
    /\ \/ \E r \in Requests : call[r].at \notin Ended
       \/ \E w \in Workers : work[w] # NoWork
       \/ Pending > 0
       \/ \E c \in Ingesters : Flushing(c) \/ uncommitted[c] # {}
       \/ sweep # NoSweep
    /\ IntakeDies
    /\ ConsumersDie
    /\ DedupersDie
    /\ IngestersDie
    /\ AttributionDies
    /\ Fault
    /\ UNCHANGED <<log, offset, stored, decideVars, cast>>

\* An orderly stop: the server has answered its requests and the consumers
\* have ended before the last flush.
AnalyticsStops ==
    /\ "ingest" \in cast
    /\ \A r \in Requests : call[r].at \in Ended
    /\ \A w \in Workers : work[w] = NoWork
    /\ sweep = NoSweep
    /\ Shutdown
    /\ DedupersDie
    /\ UNCHANGED <<intakeVars, consumerVars, attributionVars, decideVars,
                   cast>>

PipelineNext ==
    \/ IntakeActs
    \/ \E w \in Workers : LoopActs(w)
    \/ \E w \in Validators : ValidatorActs(w)
    \/ \E w \in Dedupers : DedupActs(w)
    \/ \E c \in Ingesters : IngestActs(c)
    \/ AttributionActs
    \/ RuntimeActs
    \/ AnalyticsCrash
    \/ AnalyticsStops

PipelineSpec ==
    /\ \E scenario \in PipelineScenarios : PipelineInit(scenario)
    /\ [][PipelineNext]_pipelineVars

\* The goroutines of the process run as long as it lives: requests, consumer
\* loops and ingest consumers are never starved.
WorkerProgress(w) ==
    LoopActs(w) \/ (w \in Validators /\ ValidatorActs(w)) \/ (w \in Dedupers /\ DedupActs(w))

PipelineFairness ==
    /\ \A w \in Workers : WF_pipelineVars(WorkerProgress(w))
    /\ \A c \in Ingesters :
          WF_pipelineVars("ingest" \in cast /\ IngestProgress(c)
            /\ UNCHANGED <<intakeVars, consumerVars, dedupVars, attributionVars,
                           decideVars, cast>>)

-----------------------------------------------------------------------------
(* Properties of the composition *)

\* The ways on which the code lets go of an event: its mark or row in the
\* deduplication, a commit or a dead-letter write that failed or a worker that
\* was stopped in one of the first two consumers, the shared writer, the commit
\* of a poison message.
LetGo ==
    silenced \cup {i \in Ids : <<"validator", i>> \in lost \/ <<"dedup", i>> \in lost}
      \cup taken \cup passed

Arrived == stored["event"] \cup IdsIn(log["dlq"])

\* The events a group has yet to read from its topic.
Ahead(c, position) == {log[SourceOf(c)][k].id : k \in (position + 1)..Len(log[SourceOf(c)])}

\* Where an event is between the intake and ClickHouse: before one of the
\* three consumers, in the hands of one of the first two, or in the writer.
OnTheWay ==
    Ahead("validator", offset["validator"])
      \cup Ahead("dedup", offset["dedup"])
      \cup Ahead("ch_events", cursor["ch_events"])
      \cup {Id(w) : w \in {v \in Validators \cup Dedupers : work[v] # NoWork}}
      \cup ToSet(buffer["event"])
      \cup InFlight("event")

\* An event that Kafka has taken from the intake has arrived, is on its way or
\* was let go, at every moment and across all three consumers, though each of
\* them commits, marks, buffers and fails by rules of its own.  (Events of
\* which no row can be made are dropped by the last one.)
NoEventVanishes ==
    "ch_events" \in Ingesters =>
        \A i \in IdsIn(log["events"]) \ Poison : i \in Arrived \cup LetGo \cup OnTheWay

\* The pipeline delivers what the intake publishes: whatever the consumers, the
\* writer and their failures do, each step accepts or moves on as EventDelivery
\* allows.  Events pass three consumers, exposures go straight to the writer.
\* An item of which no row can be made (Poison) is none to deliver.
EventWay == INSTANCE EventDelivery WITH
    Items <- Ids,
    accepted <- IdsIn(log["events"]),
    underway <- OnTheWay,
    stored <- stored["event"],
    released <- LetGo \cup IdsIn(log["dlq"]) \cup Poison

ExposureWay == INSTANCE EventDelivery WITH
    Items <- Ids,
    accepted <- IdsIn(log["exposures"]),
    underway <- Ahead("ch_exposures", cursor["ch_exposures"])
                  \cup ToSet(buffer["exposure"]) \cup InFlight("exposure"),
    stored <- stored["exposure"],
    released <- taken \cup passed \cup Poison

ImplementsDelivery == EventWay!Spec /\ ExposureWay!Spec

\* Every event in Kafka reaches ClickHouse or the dead-letter topic in the
\* end, through validation, deduplication and batches, across failures and
\* restarts - or goes one of the ways above, which each need a failure.
EventsArrive ==
    ({"dedup", "ingest"} \subseteq cast) =>
        \A i \in Ids : (i \in IdsIn(log["events"])) ~> (i \in Arrived \cup LetGo)
=============================================================================
