------------------------ MODULE MCAnalyticsPipeline ------------------------
(***************************************************************************)
(* Small instances of the pipeline.  Each scenario gives one component,    *)
(* or a few that interact, the inputs on which their hazards show; the     *)
(* state spaces add up instead of multiplying.                             *)
(***************************************************************************)
EXTENDS AnalyticsPipeline, Targeting

CONSTANTS
    a, b,             \* identities: events, exposures and decisions
    bad,              \* an event the validator or append() refuses
    h1, h2,           \* bodies
    r1, r2,           \* batch requests
    val, ded1, ded2, reg, att,
    d                 \* a decision_id in the events

MCRoleOf ==
    [w \in Workers |-> CASE w = val -> "validator"
                         [] w \in {ded1, ded2} -> "dedup"
                         [] w = reg -> "registry"
                         [] w = att -> "attributor"]

MCDecisionOf == [i \in Ids |-> IF i \in {a, b} THEN d ELSE NoDecision]
MCRows == Ids \cup (Ids \X Arms)

(* The runtime *)
Adult == CmpNode("age", ">=", Number(2))
MCContent ==
    [r \in 1..MaxRevision |->
       [flag |-> r >= 1,
        experiment |-> IF r = 2 THEN NoExperiment
                       ELSE [targeting |-> Adult, allocation |-> 4, weights |-> <<1, 3>>]]]
MCSubjectOf ==
    [r \in Callers |-> [f \in {"age", "plan"} |-> IF r = a THEN Number(3) ELSE Missing]]
MCPositionOf == [r \in Callers |-> 2]

(* Scenarios *)
Msg(i, h) == [id |-> i, hash |-> h]
Good(i, h) == [id |-> i, hash |-> h, ok |-> TRUE]
Faulty(i, h) == [id |-> i, hash |-> h, ok |-> FALSE]
Batch(topic, items) == [topic |-> topic, items |-> items]
NoBatch == Batch("events", <<>>)
Empty == [t \in Topics |-> <<>>]
Work(one, two) == [r \in Requests |-> IF r = r1 THEN one ELSE two]

Quiet == [cast |-> {}, log |-> Empty, faults |-> 0, workload |-> Work(NoBatch, NoBatch),
          loaded |-> 1, written |-> 1]

\* Two batches compete for two keys, with equal and different bodies.
Claiming(second) ==
    [Quiet EXCEPT !.cast = {"intake"}, !.faults = 2,
       !.workload = Work(Batch("events", <<Good(a, h1), Good(b, h1)>>),
                         Batch("exposures", <<second, Faulty(a, h2), Good(a, h1)>>))]

\* Copies of two events, one after the other, and one that is refused.
Deduplicating ==
    [Quiet EXCEPT !.cast = {"dedup"}, !.faults = 2,
       !.log = [Empty EXCEPT !["events"] = <<Msg(a, h1), Msg(bad, h1), Msg(a, h1), Msg(b, h1)>>]]

\* Two consumers of the writer, a poison message between two rows.
Buffering ==
    [Quiet EXCEPT !.cast = {"ingest"}, !.faults = 1,
       !.log = [Empty EXCEPT !["deduped"] = <<Msg(a, h1), Msg(bad, h1), Msg(b, h1)>>,
                             !["exposures"] = <<Msg(a, h1)>>]]

\* Two conversions and two exposures of one decision.
Attributing(conversions, exposures) ==
    [Quiet EXCEPT !.cast = {"attribution"}, !.faults = 1,
       !.log = [Empty EXCEPT !["deduped"] = conversions, !["exposures"] = exposures]]

\* A new snapshot arrives; or the first requests meet an empty memory.
Deciding(loaded, written, budget) ==
    [Quiet EXCEPT !.cast = {"decide"}, !.faults = budget, !.loaded = loaded, !.written = written]

\* A batch through the whole pipeline.
EndToEnd ==
    [Quiet EXCEPT !.cast = {"intake", "dedup", "ingest", "attribution"},
       !.workload = Work(Batch("events", <<Good(a, h1)>>), NoBatch)]

\* Two events from Kafka to ClickHouse, with failures.
Arriving ==
    [Quiet EXCEPT !.cast = {"dedup", "ingest"}, !.faults = 1,
       !.log = [Empty EXCEPT !["events"] = <<Msg(a, h1), Msg(bad, h1)>>]]

Scenarios ==
    {Claiming(Good(b, h1)), Claiming(Good(b, h2)), Deduplicating, Buffering,
     Attributing(<<Msg(a, h1), Msg(b, h1)>>, <<Msg(a, h1)>>),
     Attributing(<<Msg(a, h1)>>, <<Msg(a, h1), Msg(b, h1)>>),
     Deciding(1, 1, 1), Deciding(0, 2, 0), EndToEnd, Arriving}

\* The scenarios are among those the theorems are about.
ASSUME ScenariosAllowed == Scenarios \subseteq PipelineScenarios

MCInit == \E scenario \in Scenarios : PipelineInit(scenario)

MCSpec == MCInit /\ [][PipelineNext]_pipelineVars /\ PipelineFairness
=============================================================================
