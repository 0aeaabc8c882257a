---------------------------- MODULE KafkaTopics ----------------------------
(***************************************************************************)
(* The Kafka topics of the analytics pipeline, as the services use them:   *)
(* a topic is a log, and a consumer group has one committed offset in it.  *)
(* Partitions are left out: messages of one topic that never meet in a     *)
(* partition never meet in one consumer, so the model keeps the partition  *)
(* in which they do.                                                       *)
(*                                                                         *)
(* A message is an identity (event_id or decision_id) and a body, of which *)
(* only equality matters: the request hash stands for it.                  *)
(***************************************************************************)
EXTENDS FaultBudget, Sequences, SequencesExt

CONSTANTS
    Ids,        \* event and decision identities
    Hashes      \* request hashes: bodies that can be told apart

VARIABLES
    log,        \* the messages of each topic
    offset      \* how many messages of its topic each group has committed

topicVars == <<log, offset, faults>>

Topics == {"events", "exposures", "decisions", "validated", "deduped", "dlq"}
Messages == [id : Ids, hash : Hashes]

Readers == {"validator", "dedup", "registry", "attributor",
            "ch_events", "ch_exposures", "ch_decisions"}

\* The topic each consumer of StartPipeline reads.
SourceOf(c) ==
    CASE c = "validator" -> "events"
      [] c = "dedup" -> "validated"
      [] c \in {"attributor", "ch_events"} -> "deduped"
      [] c \in {"registry", "ch_exposures"} -> "exposures"
      [] c = "ch_decisions" -> "decisions"

TopicsTypeOK ==
    /\ log \in [Topics -> Seq(Messages)]
    /\ offset \in [Readers -> Nat]
    /\ FaultsTypeOK

Write(t, msgs) == log' = [log EXCEPT ![t] = @ \o msgs]

\* WriteMessages may report an error after the broker has stored a part of
\* the batch; the caller cannot tell.
WriteFails(t, msgs) == \E n \in 0..Len(msgs) : Write(t, SubSeq(msgs, 1, n))

IdsIn(msgs) == {m.id : m \in ToSet(msgs)}

NoCopies(msgs) == \A j, k \in 1..Len(msgs) : msgs[j].id = msgs[k].id => j = k
=============================================================================
