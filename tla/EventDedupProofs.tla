-------------------------- MODULE EventDedupProofs --------------------------
(***************************************************************************)
(* DedupedOnce and PassedIsForwarded for any number of replicas, copies of *)
(* events and failures.                                                    *)
(*                                                                         *)
(* The table of keys is the arbiter: a replica forwards an id only if its  *)
(* own INSERT has added the row, and it forwards it once.  So no two       *)
(* replicas forward the same id, and none an id that is in the topic; and  *)
(* whose row it has added is in its hands until it is in the topic, dead   *)
(* or on record as lost.                                                   *)
(***************************************************************************)
EXTENDS EventDedup, SequenceTheorems, TLAPS

vars == <<topicVars, consumerVars, dedupVars>>

\* The state the argument looks at.
ShapeOK ==
    /\ log \in [Topics -> Seq(Messages)]
    /\ work \in [Workers -> Jobs \cup {NoWork}]

Forwarding(w) == work[w] # NoWork /\ work[w].at = "forward"

\* The rows cover the topic.
RowsCoverTopic ==
    \A k \in 1..Len(log["deduped"]) : log["deduped"][k].id \in dedupKeys

\* A message about to be forwarded has its row, is not in the topic, and no other
\* replica is about to forward it.
ForwardersOwn ==
    \A w \in Dedupers : Forwarding(w) =>
        /\ Id(w) \in dedupKeys
        /\ \A k \in 1..Len(log["deduped"]) : log["deduped"][k].id # Id(w)
        /\ \A v \in Dedupers : (v # w /\ Forwarding(v)) => Id(v) # Id(w)

IInv ==
    /\ ShapeOK
    /\ RowsCoverTopic
    /\ ForwardersOwn
    /\ DedupedOnce

LEMMA InitInvariant == DedupSpec => IInv
<1>. SUFFICES ASSUME DedupSpec PROVE IInv
  OBVIOUS
<1>1. log \in [Topics -> Seq(Messages)] /\ DedupedOnce
  BY DEF DedupSpec, DedupedOnce
<1>2. work = [w \in Workers |-> NoWork]
  BY DEF DedupSpec, ConsumerInit
<1>3. ShapeOK
  BY <1>1, <1>2 DEF ShapeOK
<1>4. RowsCoverTopic
  <2>1. log["deduped"] \in Seq(Messages) /\ dedupKeys = IdsIn(log["deduped"])
    BY <1>1 DEF Topics, DedupSpec, DedupInit
  <2>2. \A k \in 1..Len(log["deduped"]) : log["deduped"][k] \in ToSet(log["deduped"])
    BY <2>1 DEF ToSet
  <2>. QED  BY <2>1, <2>2 DEF RowsCoverTopic, IdsIn
<1>5. \A w \in Dedupers : ~Forwarding(w)
  BY <1>2 DEF Dedupers, Forwarding
<1>. QED  BY <1>1, <1>3, <1>4, <1>5 DEF IInv, ForwardersOwn

-----------------------------------------------------------------------------
(* What a step of one worker leaves alone, and the shape it preserves *)

Others(w) == \A v \in Workers : v # w => work'[v] = work[v]

LEMMA DropShape ==
    ASSUME ShapeOK, NEW w \in Workers, work' = [work EXCEPT ![w] = NoWork]
    PROVE  /\ work' \in [Workers -> Jobs \cup {NoWork}]
           /\ Others(w)
           /\ work'[w] = NoWork
BY DEF ShapeOK, Others

LEMMA GotoShape ==
    ASSUME ShapeOK, NEW w \in Workers, work[w] # NoWork,
           NEW step \in WorkSteps, Goto(w, step)
    PROVE  /\ work' \in [Workers -> Jobs \cup {NoWork}]
           /\ Others(w)
           /\ work'[w] # NoWork
           /\ work'[w].at = step
           /\ work'[w].msg = work[w].msg
<1>1. work[w] \in Jobs /\ work' = [work EXCEPT ![w] = [work[w] EXCEPT !.at = step]]
  BY DEF ShapeOK, Goto
<1>2. [work[w] EXCEPT !.at = step] \in Jobs
  BY <1>1 DEF Jobs
<1>3. work'[w] = [work[w] EXCEPT !.at = step] /\ work'[w] # NoWork
  BY <1>1, <1>2, WorkAssumption DEF ShapeOK
<1>. QED  BY <1>1, <1>2, <1>3 DEF ShapeOK, Others, Jobs

LEMMA RetryShape ==
    ASSUME ShapeOK, NEW w \in Workers, work[w] # NoWork, Retry(w)
    PROVE  /\ work' \in [Workers -> Jobs \cup {NoWork}]
           /\ Others(w)
           /\ work'[w].at # "forward"
<1>. DEFINE again == [work[w] EXCEPT !.attempt = @ + 1, !.at = "handle"]
            dead == [work[w] EXCEPT !.at = "dead"]
<1>1. work[w] \in Jobs
  BY DEF ShapeOK
<1>2. MaxAttempts \in Nat
  BY ConsumerAssumption
<1>3. work[w].attempt < MaxAttempts => again \in Jobs /\ again.at # "forward"
  <2>. SUFFICES ASSUME work[w].attempt < MaxAttempts
                PROVE  again \in Jobs /\ again.at # "forward"
    OBVIOUS
  <2>1. work[w].attempt + 1 \in 1..MaxAttempts
    BY <1>1, <1>2 DEF Jobs
  <2>. QED  BY <1>1, <2>1 DEF Jobs, WorkSteps, HandlerSteps
<1>4. dead \in Jobs /\ dead.at # "forward"
  BY <1>1 DEF Jobs, WorkSteps
<1>5. work' = [work EXCEPT ![w] = IF work[w].attempt < MaxAttempts THEN again ELSE dead]
  BY DEF Retry
<1>. QED  BY <1>3, <1>4, <1>5 DEF ShapeOK, Others

LEMMA FailedShape ==
    ASSUME ShapeOK, NEW w \in Workers, work[w] # NoWork, Failed(w)
    PROVE  /\ work' \in [Workers -> Jobs \cup {NoWork}]
           /\ Others(w)
           /\ work'[w].at # "forward"
<1>1. CASE RoleOf[w] = "validator"
  BY <1>1, GotoShape DEF Failed, Bury, WorkSteps
<1>2. CASE RoleOf[w] # "validator"
  BY <1>2, RetryShape DEF Failed
<1>. QED  BY <1>1, <1>2

\* A message read, in a topic of messages.
LEMMA ReadShape ==
    ASSUME ShapeOK, offset \in [Readers -> Nat], NEW w \in Validators \cup Dedupers,
           ReadMessage(w)
    PROVE  /\ work' \in [Workers -> Jobs \cup {NoWork}]
           /\ Others(w)
           /\ work'[w].at = "handle"
           /\ offset' \in [Readers -> Nat]
<1>. DEFINE c == RoleOf[w]
            job == [msg |-> log[SourceOf(c)][offset[c] + 1], attempt |-> 1, at |-> "handle"]
<1>1. w \in Workers /\ c \in Readers /\ SourceOf(c) \in Topics
  BY DEF Validators, Dedupers, Readers, SourceOf, Topics
<1>2. /\ offset[c] < Len(log[SourceOf(c)])
      /\ work' = [work EXCEPT ![w] = job]
      /\ offset' = [offset EXCEPT ![c] = @ + 1]
  BY DEF ReadMessage
<1>3. job.msg \in Messages
  BY <1>1, <1>2 DEF ShapeOK
<1>4. job \in Jobs
  BY <1>3, ConsumerAssumption DEF Jobs, WorkSteps, HandlerSteps
<1>. QED  BY <1>1, <1>2, <1>4 DEF ShapeOK, Others

\* A message fetched whose commit failed: it is on record as lost.
LEMMA ReadFailsShape ==
    ASSUME offset \in [Readers -> Nat], NEW w \in Validators \cup Dedupers,
           ReadMessageFails(w)
    PROVE  /\ UNCHANGED <<log, work>>
           /\ offset' \in [Readers -> Nat]
           /\ RoleOf[w] \in Readers
           /\ offset' = [offset EXCEPT ![RoleOf[w]] = @ + 1]
           /\ lost' = lost \cup
                {<<RoleOf[w], log[SourceOf(RoleOf[w])][offset[RoleOf[w]] + 1].id>>}
BY DEF ReadMessageFails, Validators, Dedupers, Readers

LEMMA WriteShape ==
    ASSUME ShapeOK, NEW t \in Topics, NEW msgs \in Seq(Messages), Write(t, msgs)
    PROVE  /\ log' \in [Topics -> Seq(Messages)]
           /\ log'[t] = log[t] \o msgs
           /\ \A s \in Topics : s # t => log'[s] = log[s]
<1>1. log[t] \o msgs \in Seq(Messages)
  BY ConcatProperties DEF ShapeOK
<1>. QED  BY <1>1 DEF ShapeOK, Write

\* What a failed write of one message leaves: nothing, or the message.
LEMMA WriteFailsShape ==
    ASSUME ShapeOK, NEW t \in Topics, NEW m \in Messages, WriteFails(t, <<m>>)
    PROVE  /\ log' \in [Topics -> Seq(Messages)]
           /\ log'[t] \in {log[t], log[t] \o <<m>>}
           /\ \A s \in Topics : s # t => log'[s] = log[s]
<1>1. PICK n \in 0..1 : Write(t, SubSeq(<<m>>, 1, n))
  BY DEF WriteFails
<1>2. <<m>> \in Seq(Messages) /\ Len(<<m>>) = 1
  OBVIOUS
<1>3. CASE n = 0
  <2>1. SubSeq(<<m>>, 1, 0) = <<>>
    BY <1>2, SubSeqEmpty
  <2>2. Write(t, <<>>)
    BY <1>1, <1>3, <2>1
  <2>3. log[t] \o <<>> = log[t]
    BY ConcatEmptySeq DEF ShapeOK
  <2>4. <<>> \in Seq(Messages)
    OBVIOUS
  <2>. QED  BY <2>2, <2>3, <2>4, WriteShape
<1>4. CASE n = 1
  <2>1. SubSeq(<<m>>, 1, 1) = <<m>>
    BY <1>2, SubSeqFull
  <2>2. Write(t, <<m>>)
    BY <1>1, <1>4, <2>1
  <2>. QED  BY <1>2, <2>2, WriteShape
<1>. QED  BY <1>3, <1>4

-----------------------------------------------------------------------------
(* The three ways a step can touch the deduplicated topic *)

\* Nobody starts to forward and nothing is written.
LEMMA KeptInvariant ==
    ASSUME IInv, ShapeOK', log'["deduped"] = log["deduped"], dedupKeys \subseteq dedupKeys',
           \A w \in Dedupers : Forwarding(w)' => Forwarding(w) /\ work'[w].msg = work[w].msg
    PROVE  IInv'
<1>1. RowsCoverTopic' /\ DedupedOnce'
  BY DEF IInv, RowsCoverTopic, DedupedOnce, NoCopies
<1>2. ForwardersOwn'
  BY DEF IInv, ForwardersOwn, Id, Dedupers
<1>. QED  BY <1>1, <1>2 DEF IInv

\* A replica has added the row and will forward.
LEMMA OwnsInvariant ==
    ASSUME IInv, ShapeOK', log' = log, NEW w \in Dedupers, Others(w),
           Id(w) \notin dedupKeys, dedupKeys' = dedupKeys \cup {Id(w)},
           work'[w].msg = work[w].msg
    PROVE  IInv'
<1>1. RowsCoverTopic' /\ DedupedOnce'
  BY DEF IInv, RowsCoverTopic, DedupedOnce, NoCopies
<1>2. ForwardersOwn'
  <2>1. Id(w)' = Id(w)
    BY DEF Id
  <2>2. \A v \in Dedupers : v # w => Id(v)' = Id(v) /\ (Forwarding(v)' => Forwarding(v))
    BY DEF Others, Dedupers, Id, Forwarding
  <2>3. \A v \in Dedupers : Forwarding(v) => Id(v) # Id(w)
    BY DEF IInv, ForwardersOwn
  <2>4. \A k \in 1..Len(log["deduped"]) : log["deduped"][k].id # Id(w)
    BY DEF IInv, RowsCoverTopic
  <2>. QED  BY <2>1, <2>2, <2>3, <2>4 DEF IInv, ForwardersOwn
<1>. QED  BY <1>1, <1>2 DEF IInv

\* A replica has forwarded, or tried to: the message may be in the topic now, and
\* the replica will not forward it again.
LEMMA ForwardInvariant ==
    ASSUME IInv, ShapeOK', NEW w \in Dedupers, Forwarding(w), Others(w),
           log'["deduped"] \in {log["deduped"], log["deduped"] \o <<work[w].msg>>},
           dedupKeys' = dedupKeys,
           ~Forwarding(w)'
    PROVE  IInv'
<1>. DEFINE D == log["deduped"]
            m == work[w].msg
<1>1. D \in Seq(Messages) /\ m \in Messages /\ m.id = Id(w)
  BY DEF IInv, ShapeOK, Topics, Forwarding, Dedupers, Jobs, Id
<1>2. \A v \in Dedupers : Forwarding(v)' => /\ v # w
                                            /\ Forwarding(v)
                                            /\ Id(v)' = Id(v)
  BY DEF Others, Dedupers, Id, Forwarding
<1>3. CASE log'["deduped"] = D
  <2>1. \A v \in Dedupers : Forwarding(v)' => Forwarding(v) /\ work'[v].msg = work[v].msg
    BY DEF Others, Dedupers, Forwarding
  <2>. QED  BY <1>3, <2>1, KeptInvariant
<1>4. CASE log'["deduped"] = D \o <<m>>
  <2>1. /\ Len(log'["deduped"]) = Len(D) + 1
        /\ Len(D) \in Nat
        /\ \A k \in 1..Len(D) : log'["deduped"][k] = D[k]
        /\ log'["deduped"][Len(D) + 1] = m
    BY <1>1, <1>4
  <2>2. \A k \in 1..Len(log'["deduped"]) :
           k \in 1..Len(D) \/ (k = Len(D) + 1 /\ log'["deduped"][k].id = Id(w))
    BY <1>1, <2>1
  <2>3. /\ Id(w) \in dedupKeys
        /\ \A k \in 1..Len(D) : D[k].id # Id(w)
        /\ \A v \in Dedupers : (v # w /\ Forwarding(v)) => Id(v) # Id(w)
    BY DEF IInv, ForwardersOwn
  <2>4. RowsCoverTopic'
    BY <2>1, <2>2, <2>3 DEF IInv, RowsCoverTopic
  <2>5. DedupedOnce'
    BY <2>1, <2>2, <2>3 DEF IInv, DedupedOnce, NoCopies
  <2>6. ForwardersOwn'
    BY <1>2, <2>1, <2>2, <2>3 DEF IInv, ForwardersOwn
  <2>. QED  BY <2>4, <2>5, <2>6 DEF IInv
<1>. QED  BY <1>3, <1>4

-----------------------------------------------------------------------------
(* The actions *)

\* Positions are numbers, so that what a worker reads is a message of the topic.
DedupInv == IInv /\ offset \in [Readers -> Nat]

LEMMA ValidatorKeeps ==
    ASSUME IInv, NEW w \in Validators, work' \in [Workers -> Jobs \cup {NoWork}], Others(w),
           log' \in [Topics -> Seq(Messages)], log'["deduped"] = log["deduped"],
           UNCHANGED dedupKeys
    PROVE  IInv'
<1>1. \A v \in Dedupers : work'[v] = work[v]
  BY DEF Others, Validators, Dedupers
<1>. QED  BY <1>1, KeptInvariant DEF ShapeOK, Forwarding

LEMMA WorkerKeeps ==
    ASSUME IInv, NEW w \in Dedupers, work' \in [Workers -> Jobs \cup {NoWork}], Others(w),
           work'[w] = NoWork \/ work'[w].at # "forward",
           log' \in [Topics -> Seq(Messages)], log'["deduped"] = log["deduped"],
           dedupKeys \subseteq dedupKeys'
    PROVE  IInv'
<1>1. \A v \in Dedupers : Forwarding(v)' => Forwarding(v) /\ work'[v].msg = work[v].msg
  BY DEF Others, Dedupers, Forwarding
<1>. QED  BY <1>1, KeptInvariant DEF ShapeOK

LEMMA ValidateInvariant ==
    ASSUME IInv, NEW w \in Validators, Validate(w)
    PROVE  IInv'
<1>1. w \in Workers /\ RoleOf[w] = "validator" /\ ShapeOK /\ work[w] # NoWork
  BY DEF Validators, IInv, Validate, Busy
<1>2. UNCHANGED <<log, dedupKeys>>
  BY DEF Validate, dedupVars
<1>3. Goto(w, "dead") \/ Goto(w, "forward")
  BY <1>1 DEF Validate, Bury, Done, ForwardTo
<1>4. work' \in [Workers -> Jobs \cup {NoWork}] /\ Others(w)
  BY <1>1, <1>3, GotoShape DEF WorkSteps
<1>. QED  BY <1>1, <1>2, <1>4, ValidatorKeeps DEF ShapeOK

LEMMA ValidatorForwardFails ==
    ASSUME IInv, NEW w \in Validators, ForwardFails(w), UNCHANGED dedupVars
    PROVE  IInv'
<1>1. w \in Workers /\ RoleOf[w] = "validator" /\ ShapeOK /\ work[w] # NoWork
  BY DEF Validators, IInv, ForwardFails, Busy
<1>2. work[w].msg \in Messages /\ ForwardTo(RoleOf[w]) = "validated"
  BY <1>1 DEF ShapeOK, Jobs, ForwardTo
<1>3. work' \in [Workers -> Jobs \cup {NoWork}] /\ Others(w)
  BY <1>1, FailedShape DEF ForwardFails
<1>4. log' \in [Topics -> Seq(Messages)] /\ log'["deduped"] = log["deduped"]
  BY <1>1, <1>2, WriteFailsShape DEF ForwardFails, Topics
<1>. QED  BY <1>3, <1>4, ValidatorKeeps DEF dedupVars

LEMMA SeenInvariant ==
    ASSUME IInv, NEW w \in Dedupers, SeenOrMark(w)
    PROVE  IInv'
<1>1. w \in Workers /\ ShapeOK /\ work[w] # NoWork /\ UNCHANGED <<log, dedupKeys>>
  BY DEF Dedupers, IInv, SeenOrMark, Busy
<1>2. Drop(w) \/ Goto(w, "lookup")
  BY DEF SeenOrMark
<1>3. /\ work' \in [Workers -> Jobs \cup {NoWork}]
      /\ Others(w)
      /\ work'[w] = NoWork \/ work'[w].at # "forward"
  BY <1>1, <1>2, GotoShape, DropShape DEF Drop, WorkSteps, HandlerSteps
<1>. QED  BY <1>1, <1>3, WorkerKeeps DEF ShapeOK

LEMMA ExistsInvariant ==
    ASSUME IInv, NEW w \in Dedupers, Exists(w)
    PROVE  IInv'
<1>1. w \in Workers /\ ShapeOK /\ work[w] # NoWork /\ UNCHANGED <<log, dedupKeys>>
  BY DEF Dedupers, IInv, Exists, Busy, dedupVars
<1>2. Drop(w) \/ Goto(w, "insert")
  BY DEF Exists
<1>3. /\ work' \in [Workers -> Jobs \cup {NoWork}]
      /\ Others(w)
      /\ work'[w] = NoWork \/ work'[w].at # "forward"
  BY <1>1, <1>2, GotoShape, DropShape DEF Drop, WorkSteps, HandlerSteps
<1>. QED  BY <1>1, <1>3, WorkerKeeps DEF ShapeOK

LEMMA InsertInvariant ==
    ASSUME IInv, NEW w \in Dedupers, Insert(w)
    PROVE  IInv'
<1>1. /\ w \in Workers /\ RoleOf[w] = "dedup" /\ ShapeOK /\ work[w] # NoWork
      /\ log' = log /\ dedupKeys' = dedupKeys \cup {Id(w)}
  BY DEF Dedupers, IInv, Insert, Busy
<1>2. CASE Id(w) \in dedupKeys
  <2>1. /\ work' \in [Workers -> Jobs \cup {NoWork}] /\ Others(w) /\ work'[w] = NoWork
    BY <1>1, <1>2, DropShape DEF Insert, Drop
  <2>. QED  BY <1>1, <2>1, WorkerKeeps DEF ShapeOK
<1>3. CASE Id(w) \notin dedupKeys
  <2>1. Goto(w, "forward")
    BY <1>1, <1>3 DEF Insert, Done, ForwardTo
  <2>2. /\ work' \in [Workers -> Jobs \cup {NoWork}] /\ Others(w)
        /\ work'[w].msg = work[w].msg
    BY <1>1, <2>1, GotoShape DEF WorkSteps
  <2>. QED  BY <1>1, <1>3, <2>2, OwnsInvariant DEF ShapeOK
<1>. QED  BY <1>2, <1>3

LEMMA FailsInvariant ==
    ASSUME IInv, NEW w \in Dedupers, DedupFails(w)
    PROVE  IInv'
<1>1. w \in Workers /\ ShapeOK /\ work[w] # NoWork /\ log' = log
  BY DEF Dedupers, IInv, DedupFails, Busy
<1>2. dedupKeys \subseteq dedupKeys'
  BY DEF DedupFails
<1>3. /\ work' \in [Workers -> Jobs \cup {NoWork}] /\ Others(w) /\ work'[w].at # "forward"
  BY <1>1, RetryShape DEF DedupFails
<1>. QED  BY <1>1, <1>2, <1>3, WorkerKeeps DEF ShapeOK

LEMMA DedupForwardFailsInvariant ==
    ASSUME IInv, NEW w \in Dedupers, DedupForwardFails(w)
    PROVE  IInv'
<1>1. /\ w \in Workers /\ RoleOf[w] = "dedup" /\ ShapeOK /\ work[w] # NoWork
      /\ Forwarding(w) /\ dedupKeys' = dedupKeys
  BY DEF Dedupers, IInv, DedupForwardFails, ForwardFails, Busy, Forwarding
<1>2. work[w].msg \in Messages /\ ForwardTo(RoleOf[w]) = "deduped"
  BY <1>1 DEF ShapeOK, Jobs, ForwardTo
<1>3. /\ work' \in [Workers -> Jobs \cup {NoWork}] /\ Others(w) /\ work'[w].at # "forward"
  BY <1>1, FailedShape DEF DedupForwardFails, ForwardFails
<1>4. /\ log' \in [Topics -> Seq(Messages)]
      /\ log'["deduped"] \in {log["deduped"], log["deduped"] \o <<work[w].msg>>}
  BY <1>1, <1>2, WriteFailsShape DEF DedupForwardFails, ForwardFails, Topics
<1>5. ShapeOK' /\ ~Forwarding(w)'
  BY <1>3, <1>4 DEF ShapeOK, Forwarding
<1>. QED  BY <1>1, <1>3, <1>4, <1>5, ForwardInvariant

LEMMA ReplicaInvariant ==
    ASSUME IInv, NEW w \in Dedupers, ReplicaDies(w)
    PROVE  IInv'
<1>1. w \in Workers /\ ShapeOK /\ UNCHANGED <<log, dedupKeys>>
  BY DEF Dedupers, IInv, ReplicaDies
<1>2. work' \in [Workers -> Jobs \cup {NoWork}] /\ Others(w) /\ work'[w] = NoWork
  BY <1>1, DropShape DEF ReplicaDies
<1>. QED  BY <1>1, <1>2, WorkerKeeps DEF ShapeOK

LEMMA LoopInvariant ==
    ASSUME DedupInv, NEW w \in Validators \cup Dedupers, LoopStep(w), UNCHANGED dedupVars
    PROVE  IInv'
<1>1. w \in Workers /\ IInv /\ ShapeOK /\ dedupKeys' = dedupKeys
  BY DEF Validators, Dedupers, DedupInv, IInv, dedupVars
<1>2. ASSUME work' \in [Workers -> Jobs \cup {NoWork}], Others(w),
             work'[w] = NoWork \/ work'[w].at # "forward",
             log' \in [Topics -> Seq(Messages)], log'["deduped"] = log["deduped"]
      PROVE  IInv'
  BY <1>1, <1>2, ValidatorKeeps, WorkerKeeps
<1>3. CASE ReadMessage(w)
  <2>1. log' = log
    BY <1>3 DEF ReadMessage
  <2>. QED  BY <1>1, <1>2, <1>3, <2>1, ReadShape DEF DedupInv, ShapeOK
<1>4. CASE Forward(w)
  <2>1. /\ work[w] \in Jobs /\ work[w].msg \in Messages /\ Forwarding(w)
        /\ work' = [work EXCEPT ![w] = NoWork]
    BY <1>1, <1>4 DEF Forward, Busy, ShapeOK, Jobs, Forwarding
  <2>2. /\ work' \in [Workers -> Jobs \cup {NoWork}] /\ Others(w) /\ work'[w] = NoWork
    BY <1>1, <2>1, DropShape
  <2>3. <<work[w].msg>> \in Seq(Messages)
    BY <2>1
  <2>4. CASE w \in Validators
    <3>1. Write("validated", <<work[w].msg>>)
      BY <1>4, <2>4 DEF Forward, ForwardTo, Validators
    <3>2. log' \in [Topics -> Seq(Messages)] /\ log'["deduped"] = log["deduped"]
      BY <1>1, <2>3, <3>1, WriteShape DEF Topics
    <3>. QED  BY <1>2, <2>2, <3>2
  <2>5. CASE w \in Dedupers
    <3>1. Write("deduped", <<work[w].msg>>)
      BY <1>4, <2>5 DEF Forward, ForwardTo, Dedupers
    <3>2. /\ log' \in [Topics -> Seq(Messages)]
          /\ log'["deduped"] = log["deduped"] \o <<work[w].msg>>
      BY <1>1, <2>3, <3>1, WriteShape DEF Topics
    <3>3. ShapeOK' /\ ~Forwarding(w)'
      BY <2>2, <3>2 DEF ShapeOK, Forwarding
    <3>. QED  BY <1>1, <2>1, <2>2, <2>5, <3>2, <3>3, ForwardInvariant
  <2>. QED  BY <2>4, <2>5
<1>5. CASE SendDLQ(w)
  <2>1. <<work[w].msg>> \in Seq(Messages)
    BY <1>1, <1>5 DEF SendDLQ, Busy, ShapeOK, Jobs
  <2>2. log' \in [Topics -> Seq(Messages)] /\ log'["deduped"] = log["deduped"]
    BY <1>1, <1>5, <2>1, WriteShape DEF SendDLQ, Topics
  <2>. QED  BY <1>1, <1>2, <1>5, <2>2, DropShape DEF SendDLQ
<1>6. CASE SendDLQFails(w)
  <2>1. log' = log
    BY <1>6 DEF SendDLQFails
  <2>. QED  BY <1>1, <1>2, <1>6, <2>1, DropShape DEF SendDLQFails, ShapeOK
<1>7. CASE ReadMessageFails(w)
  <2>1. UNCHANGED <<log, work>>
    BY <1>7, ReadFailsShape DEF DedupInv
  <2>. QED  BY <1>1, <2>1, KeptInvariant DEF ShapeOK, Forwarding
<1>. QED  BY <1>3, <1>4, <1>5, <1>6, <1>7 DEF LoopStep

LEMMA CrashInvariant ==
    ASSUME IInv, DedupCrash
    PROVE  IInv'
<1>1. /\ work' = [w \in Workers |-> NoWork]
      /\ UNCHANGED <<log, dedupKeys>>
  BY DEF DedupCrash, ConsumersDie, DedupersDie
<1>2. \A w \in Dedupers : ~Forwarding(w)'
  BY <1>1 DEF Dedupers, Forwarding
<1>3. ShapeOK'
  BY <1>1 DEF IInv, ShapeOK
<1>. QED  BY <1>1, <1>2, <1>3, KeptInvariant

LEMMA ElsewhereInvariant ==
    ASSUME DedupInv, Elsewhere
    PROVE  DedupInv'
<1>1. ShapeOK' /\ dedupKeys' = dedupKeys
  BY DEF Elsewhere, ShapeOK, dedupVars
<1>2. IInv'
  BY <1>1, KeptInvariant DEF DedupInv, Elsewhere, Forwarding
<1>. QED  BY <1>2 DEF DedupInv, Elsewhere

LEMMA OffsetInvariant ==
    ASSUME DedupInv, DedupNext
    PROVE  (offset \in [Readers -> Nat])'
<1>1. ASSUME NEW w \in Validators \cup Dedupers, LoopStep(w)
      PROVE  (offset \in [Readers -> Nat])'
  BY <1>1, ReadShape, ReadFailsShape
     DEF LoopStep, DedupInv, IInv, Forward, SendDLQ, SendDLQFails
<1>2. ASSUME UNCHANGED offset
      PROVE  (offset \in [Readers -> Nat])'
  BY <1>2 DEF DedupInv
<1>. QED
  BY <1>1, <1>2 DEF DedupNext, Validate, ForwardFails, DedupStep, SeenOrMark, Exists, Insert,
     DedupFails, DedupForwardFails, ReplicaDies, DedupCrash

\* No replica forwards what another has forwarded: any number of replicas, copies
\* and failures.
THEOREM DedupInvariant == DedupSpec => []DedupInv
<1>1. DedupSpec => DedupInv
  BY InitInvariant DEF DedupSpec, DedupInv
<1>2. DedupInv /\ [DedupNext \/ Elsewhere]_vars => DedupInv'
  <2>. SUFFICES ASSUME DedupInv, [DedupNext \/ Elsewhere]_vars PROVE DedupInv'
    OBVIOUS
  <2>1. CASE DedupNext
    <3>1. ASSUME NEW w \in Dedupers, DedupStep(w) PROVE IInv'
      BY <3>1, SeenInvariant, ExistsInvariant, InsertInvariant, FailsInvariant,
         DedupForwardFailsInvariant, ReplicaInvariant DEF DedupStep, DedupInv
    <3>2. IInv'
      BY <2>1, <3>1, ValidateInvariant, ValidatorForwardFails, LoopInvariant, CrashInvariant
         DEF DedupNext, DedupInv
    <3>. QED  BY <2>1, <3>2, OffsetInvariant DEF DedupInv
  <2>2. CASE UNCHANGED vars
    BY <2>2 DEF vars, topicVars, consumerVars, dedupVars, DedupInv, IInv, ShapeOK,
       RowsCoverTopic, ForwardersOwn, Forwarding, Id, DedupedOnce, NoCopies
  <2>3. CASE Elsewhere
    BY <2>3, ElsewhereInvariant
  <2>. QED  BY <2>1, <2>2, <2>3
<1>. QED  BY <1>1, <1>2, PTL DEF DedupSpec, vars

\* The deduplicated topic carries an event at most once, however often it was
\* published and whatever failed (DedupStore.Handle).
THEOREM DeduplicatedTopic == DedupSpec => []DedupedOnce
<1>1. DedupInv => DedupedOnce
  BY DEF DedupInv, IInv
<1>. QED  BY DedupInvariant, <1>1, PTL

-----------------------------------------------------------------------------
(* Nothing that was passed on disappears without a failure *)

\* An event is forwarded, will be, or is known to have met a failure.
Settled(i) ==
    \/ i \in IdsIn(log["deduped"])
    \/ i \in silenced
    \/ <<"dedup", i>> \in lost
    \/ \E w \in Dedupers : Forwarding(w) /\ Id(w) = i

\* The mark in a memory belongs to an event that is settled, or to the one its
\* replica works on.
MarksKnown ==
    \A w \in Dedupers, i \in Ids :
        Contains(seen[w], i) =>
            \/ Settled(i)
            \/ work[w] # NoWork /\ work[w].at \in {"lookup", "insert"} /\ Id(w) = i

\* A row belongs to an event that is settled.
RowsKnown == \A i \in dedupKeys : Settled(i)

\* Only what has failed becomes a dead letter.
DeadFailed == \A w \in Dedupers : Busy(w, "dead") => Id(w) \in silenced

ReadSoFar == offset["dedup"] <= Len(log["validated"])

PassedInv ==
    /\ seen \in [Dedupers -> Seq(Ids)]
    /\ MarksKnown
    /\ RowsKnown
    /\ DeadFailed
    /\ ReadSoFar
    /\ PassedIsForwarded

LEMMA IdsInOne ==
    ASSUME NEW s \in Seq(Messages), NEW m \in Messages
    PROVE  IdsIn(s \o <<m>>) = IdsIn(s) \cup {m.id}
<1>. DEFINE t == s \o <<m>>
<1>1. /\ t \in Seq(Messages) /\ Len(t) = Len(s) + 1 /\ Len(s) \in Nat
      /\ \A k \in 1..Len(s) : t[k] = s[k]
      /\ t[Len(s) + 1] = m
      /\ DOMAIN s = 1..Len(s) /\ DOMAIN t = 1..Len(t)
  OBVIOUS
<1>. HIDE DEF t
<1>2. ToSet(t) = ToSet(s) \cup {m}
  <2>1. 1..Len(t) = (1..Len(s)) \cup {Len(s) + 1}
    BY <1>1
  <2>. QED  BY <1>1, <2>1 DEF ToSet
<1>3. IdsIn(t) = IdsIn(s) \cup {m.id}
  BY <1>2 DEF IdsIn
<1>. QED  BY <1>3 DEF t

\* The bounded memory holds what it held, and the new mark.
LEMMA RememberMarks ==
    ASSUME NEW marks \in Seq(Ids), NEW i \in Ids
    PROVE  /\ Remember(marks, i) \in Seq(Ids)
           /\ \A j : Contains(Remember(marks, i), j) => Contains(marks, j) \/ j = i
<1>. DEFINE longer == Append(marks, i)
<1>1. /\ longer \in Seq(Ids)
      /\ Len(longer) = Len(marks) + 1 /\ Len(marks) \in Nat
      /\ \A k \in 1..Len(marks) : longer[k] = marks[k]
      /\ longer[Len(marks) + 1] = i
  OBVIOUS
<1>2. \A j : Contains(longer, j) => Contains(marks, j) \/ j = i
  BY <1>1 DEF Contains
<1>3. /\ Tail(longer) \in Seq(Ids) /\ Len(Tail(longer)) = Len(longer) - 1
      /\ \A k \in 1..Len(Tail(longer)) : Tail(longer)[k] = longer[k + 1]
  BY <1>1
<1>. HIDE DEF longer
<1>4. \A j : Contains(Tail(longer), j) => Contains(longer, j)
  BY <1>1, <1>3 DEF Contains
<1>5. Remember(marks, i) \in {longer, Tail(longer)}
  BY DEF Remember, longer
<1>. QED  BY <1>1, <1>2, <1>3, <1>4, <1>5

\* What is settled stays so while replica w takes a step.
LEMMA EventStaysSettled ==
    ASSUME NEW w \in Dedupers, NEW i, i = Id(w), Others(w),
           IdsIn(log["deduped"]) \subseteq IdsIn(log'["deduped"]),
           silenced \subseteq silenced', lost \subseteq lost',
           Forwarding(w) => Settled(i)'
    PROVE  \A j : Settled(j) => Settled(j)'
<1>. SUFFICES ASSUME NEW j, Settled(j) PROVE Settled(j)'
  OBVIOUS
<1>1. CASE \E v \in Dedupers : Forwarding(v) /\ Id(v) = j
  <2>1. PICK v \in Dedupers : Forwarding(v) /\ Id(v) = j
    BY <1>1
  <2>2. CASE v = w
    BY <2>1, <2>2
  <2>3. CASE v # w
    BY <2>1, <2>3 DEF Others, Forwarding, Id, Dedupers, Settled
  <2>. QED  BY <2>2, <2>3
<1>2. CASE ~ \E v \in Dedupers : Forwarding(v) /\ Id(v) = j
  BY <1>2 DEF Settled
<1>. QED  BY <1>1, <1>2

\* Replica w goes on with its message, or lets go of one that is settled.
LEMMA WorkerPassed ==
    ASSUME PassedInv, NEW w \in Dedupers, NEW i \in Ids, i = Id(w), work[w] # NoWork,
           Others(w),
           IdsIn(log["deduped"]) \subseteq IdsIn(log'["deduped"]),
           silenced \subseteq silenced', lost \subseteq lost',
           log'["validated"] = log["validated"], offset'["dedup"] = offset["dedup"],
           seen' \in [Dedupers -> Seq(Ids)],
           \A v \in Dedupers : v # w => seen'[v] = seen[v],
           \A j : Contains(seen'[w], j) => Contains(seen[w], j) \/ j = i,
           Forwarding(w) => Settled(i)',
           \A j \in dedupKeys' : j \in dedupKeys \/ (j = i /\ Settled(i)'),
           \/ Settled(i) \/ Settled(i)'
           \/ /\ work'[w] # NoWork
              /\ work'[w].at \in {"lookup", "insert"}
              /\ work'[w].msg = work[w].msg,
           Busy(w, "dead")' => i \in silenced' /\ work'[w].msg = work[w].msg
    PROVE  PassedInv'
<1>1. \A j : Settled(j) => Settled(j)'
  BY EventStaysSettled
<1>2. \/ Settled(i)'
      \/ work'[w] # NoWork /\ work'[w].at \in {"lookup", "insert"} /\ Id(w)' = i
  BY <1>1 DEF Id
<1>3. \A v \in Dedupers : v # w => work'[v] = work[v] /\ Id(v)' = Id(v)
  BY DEF Others, Dedupers, Id
<1>4. MarksKnown'
  <2>. SUFFICES ASSUME NEW v \in Dedupers, NEW j \in Ids, Contains(seen'[v], j)
                PROVE  \/ Settled(j)'
                       \/ /\ work'[v] # NoWork
                          /\ work'[v].at \in {"lookup", "insert"}
                          /\ Id(v)' = j
    BY DEF MarksKnown
  <2>1. CASE v # w
    BY <1>1, <1>3, <2>1 DEF PassedInv, MarksKnown
  <2>2. CASE v = w
    <3>1. CASE j = i
      BY <1>2, <2>2, <3>1
    <3>2. CASE j # i
      BY <1>1, <2>2, <3>2 DEF PassedInv, MarksKnown
    <3>. QED  BY <3>1, <3>2
  <2>. QED  BY <2>1, <2>2
<1>5. RowsKnown'
  BY <1>1 DEF PassedInv, RowsKnown
<1>6. DeadFailed'
  BY <1>3 DEF PassedInv, DeadFailed, Busy, Id
<1>7. ReadSoFar'
  BY DEF PassedInv, ReadSoFar
<1>8. PassedIsForwarded'
  <2>. SUFFICES ASSUME NEW k \in 1..offset["dedup"], NEW j, j = log["validated"][k].id
                PROVE  \/ Settled(j)'
                       \/ \E v \in Dedupers : work'[v] # NoWork /\ Id(v)' = j
    <3>1. 1..offset'["dedup"] = 1..offset["dedup"] /\ log'["validated"] = log["validated"]
      OBVIOUS
    <3>2. ASSUME \A k \in 1..offset["dedup"] :
                     \/ Settled(log["validated"][k].id)'
                     \/ \E v \in Dedupers : work'[v] # NoWork /\ Id(v)' = log'["validated"][k].id
          PROVE  PassedIsForwarded'
      BY <3>1, <3>2 DEF PassedIsForwarded, Settled, Id, Forwarding
    <3>. QED  BY <3>1, <3>2
  <2>1. Settled(j) \/ \E v \in Dedupers : work[v] # NoWork /\ Id(v) = j
    BY DEF PassedInv, PassedIsForwarded, Settled
  <2>2. CASE Settled(j)
    BY <1>1, <2>2
  <2>3. ASSUME NEW v \in Dedupers, work[v] # NoWork, Id(v) = j
        PROVE  \/ Settled(j)'
               \/ \E u \in Dedupers : work'[u] # NoWork /\ Id(u)' = j
    BY <1>2, <1>3, <2>3
  <2>. QED  BY <2>1, <2>2, <2>3
<1>. QED  BY <1>4, <1>5, <1>6, <1>7, <1>8 DEF PassedInv

LEMMA BusyTypes ==
    ASSUME ShapeOK, NEW w \in Dedupers, work[w] # NoWork
    PROVE  /\ w \in Workers /\ RoleOf[w] = "dedup"
           /\ work[w] \in Jobs /\ work[w].msg \in Messages /\ Id(w) \in Ids
BY DEF ShapeOK, Dedupers, Jobs, Messages, Id

\* A failed attempt starts again or becomes a dead letter, with the same message.
LEMMA RetryKeeps ==
    ASSUME ShapeOK, NEW w \in Dedupers, work[w] # NoWork, Retry(w)
    PROVE  Others(w) /\ work'[w].msg = work[w].msg
<1>1. work[w] \in Jobs
  BY BusyTypes
<1>2. Others(w)
  BY RetryShape, BusyTypes
<1>3. work' = [work EXCEPT ![w] = IF work[w].attempt < MaxAttempts
                                  THEN [work[w] EXCEPT !.attempt = work[w].attempt + 1,
                                                       !.at = "handle"]
                                  ELSE [work[w] EXCEPT !.at = "dead"]]
  BY DEF Retry
<1>. QED  BY <1>1, <1>2, <1>3 DEF ShapeOK, Dedupers, Jobs

LEMMA SeenPassed ==
    ASSUME ShapeOK, PassedInv, NEW w \in Dedupers, SeenOrMark(w)
    PROVE  PassedInv'
<1>. DEFINE i == Id(w)
<1>1. /\ work[w] # NoWork /\ work[w].at = "handle" /\ i \in Ids /\ w \in Workers
      /\ seen[w] \in Seq(Ids)
  BY BusyTypes DEF SeenOrMark, Busy, PassedInv
<1>2. UNCHANGED <<log, offset, lost, dedupKeys, silenced>>
  BY DEF SeenOrMark
<1>3. ~Forwarding(w)
  BY <1>1 DEF Forwarding
<1>4. CASE Contains(seen[w], i) /\ Drop(w) /\ UNCHANGED seen
  <2>1. Settled(i)
    BY <1>1, <1>4 DEF PassedInv, MarksKnown
  <2>2. Others(w) /\ work'[w] = NoWork
    BY <1>1, <1>4, DropShape DEF Drop
  <2>3. ~Busy(w, "dead")'
    BY <2>2 DEF Busy
  <2>. HIDE DEF i
  <2>. QED  BY <1>1, <1>2, <1>3, <1>4, <2>1, <2>2, <2>3, WorkerPassed DEF PassedInv, i
<1>5. CASE Goto(w, "lookup") /\ seen' = [seen EXCEPT ![w] = Remember(seen[w], i)]
  <2>1. /\ Others(w) /\ work'[w] # NoWork /\ work'[w].at = "lookup"
        /\ work'[w].msg = work[w].msg
    BY <1>1, <1>5, GotoShape DEF WorkSteps, HandlerSteps
  <2>2. /\ seen' \in [Dedupers -> Seq(Ids)]
        /\ \A v \in Dedupers : v # w => seen'[v] = seen[v]
        /\ \A j : Contains(seen'[w], j) => Contains(seen[w], j) \/ j = i
    BY <1>1, <1>5, RememberMarks DEF PassedInv
  <2>3. ~Busy(w, "dead")'
    BY <2>1 DEF Busy
  <2>. HIDE DEF i
  <2>. QED  BY <1>1, <1>2, <1>3, <2>1, <2>2, <2>3, WorkerPassed DEF PassedInv, i
<1>. QED  BY <1>4, <1>5 DEF SeenOrMark

LEMMA ExistsPassed ==
    ASSUME ShapeOK, PassedInv, NEW w \in Dedupers, Exists(w)
    PROVE  PassedInv'
<1>. DEFINE i == Id(w)
<1>1. /\ work[w] # NoWork /\ work[w].at = "lookup" /\ i \in Ids /\ w \in Workers
      /\ UNCHANGED <<log, offset, lost, seen, dedupKeys, silenced>>
  BY BusyTypes DEF Exists, Busy, dedupVars
<1>2. ~Forwarding(w)
  BY <1>1 DEF Forwarding
<1>3. CASE i \in dedupKeys /\ Drop(w)
  <2>1. Settled(i)
    BY <1>3 DEF PassedInv, RowsKnown
  <2>2. Others(w) /\ work'[w] = NoWork
    BY <1>1, <1>3, DropShape DEF Drop
  <2>3. ~Busy(w, "dead")'
    BY <2>2 DEF Busy
  <2>. HIDE DEF i
  <2>. QED  BY <1>1, <1>2, <2>1, <2>2, <2>3, WorkerPassed DEF PassedInv, i
<1>4. CASE Goto(w, "insert")
  <2>1. /\ Others(w) /\ work'[w] # NoWork /\ work'[w].at = "insert"
        /\ work'[w].msg = work[w].msg
    BY <1>1, <1>4, GotoShape DEF WorkSteps, HandlerSteps
  <2>2. ~Busy(w, "dead")'
    BY <2>1 DEF Busy
  <2>. HIDE DEF i
  <2>. QED  BY <1>1, <1>2, <2>1, <2>2, WorkerPassed DEF PassedInv, i
<1>. QED  BY <1>3, <1>4 DEF Exists

LEMMA InsertPassed ==
    ASSUME ShapeOK, PassedInv, NEW w \in Dedupers, Insert(w)
    PROVE  PassedInv'
<1>. DEFINE i == Id(w)
<1>1. /\ work[w] # NoWork /\ work[w].at = "insert" /\ i \in Ids /\ w \in Workers
      /\ RoleOf[w] = "dedup"
      /\ UNCHANGED <<log, offset, lost, seen, silenced>>
      /\ dedupKeys' = dedupKeys \cup {i}
  BY BusyTypes DEF Insert, Busy
<1>2. ~Forwarding(w)
  BY <1>1 DEF Forwarding
<1>3. CASE i \in dedupKeys /\ Drop(w)
  <2>1. Settled(i)
    BY <1>3 DEF PassedInv, RowsKnown
  <2>2. Others(w) /\ work'[w] = NoWork
    BY <1>1, <1>3, DropShape DEF Drop
  <2>3. ~Busy(w, "dead")' /\ dedupKeys' = dedupKeys
    BY <1>1, <1>3, <2>2 DEF Busy
  <2>. HIDE DEF i
  <2>. QED  BY <1>1, <1>2, <2>1, <2>2, <2>3, WorkerPassed DEF PassedInv, i
<1>4. CASE Done(w)
  <2>1. Goto(w, "forward")
    BY <1>1, <1>4 DEF Done, ForwardTo
  <2>2. /\ Others(w) /\ work'[w] # NoWork /\ work'[w].at = "forward"
        /\ work'[w].msg = work[w].msg
    BY <1>1, <2>1, GotoShape DEF WorkSteps
  <2>3. Forwarding(w)' /\ Id(w)' = i
    BY <2>2 DEF Forwarding, Id
  <2>4. \A j : j = i => Settled(j)'
    BY <2>3 DEF Settled
  <2>5. ~Busy(w, "dead")'
    BY <2>2 DEF Busy
  <2>. HIDE DEF i
  <2>. QED  BY <1>1, <1>2, <2>2, <2>4, <2>5, WorkerPassed DEF PassedInv, i
<1>. QED  BY <1>3, <1>4 DEF Insert

\* A step that fails is on record, so its event is settled.
LEMMA FailurePassed ==
    ASSUME ShapeOK, PassedInv, NEW w \in Dedupers, work[w] # NoWork,
           Others(w), work'[w] = NoWork \/ work'[w].msg = work[w].msg,
           IdsIn(log["deduped"]) \subseteq IdsIn(log'["deduped"]),
           log'["validated"] = log["validated"],
           silenced \subseteq silenced', lost \subseteq lost',
           Id(w) \in silenced' \/ <<"dedup", Id(w)>> \in lost',
           work'[w] = NoWork \/ Id(w) \in silenced',
           dedupKeys' \subseteq dedupKeys \cup {Id(w)},
           UNCHANGED offset,
           seen' \in [Dedupers -> Seq(Ids)],
           \A v \in Dedupers : v # w => seen'[v] = seen[v],
           \A j : Contains(seen'[w], j) => Contains(seen[w], j)
    PROVE  PassedInv'
<1>. DEFINE i == Id(w)
<1>1. i \in Ids
  BY BusyTypes
<1>2. \A j : j = i => Settled(j)'
  BY DEF Settled
<1>3. Busy(w, "dead")' => i \in silenced' /\ work'[w].msg = work[w].msg
  BY DEF Busy
<1>4. \A j \in dedupKeys' : j \in dedupKeys \/ j = i
  OBVIOUS
<1>. HIDE DEF i
<1>. QED  BY <1>1, <1>2, <1>3, <1>4, WorkerPassed DEF i

LEMMA FailsPassed ==
    ASSUME ShapeOK, PassedInv, NEW w \in Dedupers, DedupFails(w)
    PROVE  PassedInv'
<1>1. /\ work[w] # NoWork /\ Retry(w) /\ UNCHANGED <<log, offset, lost, seen>>
      /\ silenced' = silenced \cup {Id(w)}
      /\ dedupKeys' \subseteq dedupKeys \cup {Id(w)}
  BY DEF DedupFails, Busy
<1>2. Others(w) /\ work'[w].msg = work[w].msg
  BY <1>1, RetryKeeps
<1>. QED  BY <1>1, <1>2, FailurePassed DEF PassedInv

LEMMA DedupForwardFailsPassed ==
    ASSUME ShapeOK, PassedInv, NEW w \in Dedupers, DedupForwardFails(w)
    PROVE  PassedInv'
<1>1. /\ work[w] # NoWork /\ Failed(w) /\ UNCHANGED <<offset, lost, seen, dedupKeys>>
      /\ silenced' = silenced \cup {Id(w)}
      /\ WriteFails(ForwardTo(RoleOf[w]), <<work[w].msg>>)
  BY DEF DedupForwardFails, ForwardFails, Busy
<1>2. Retry(w) /\ work[w].msg \in Messages /\ WriteFails("deduped", <<work[w].msg>>)
  BY <1>1, BusyTypes DEF Failed, ForwardTo
<1>3. Others(w) /\ work'[w].msg = work[w].msg
  BY <1>1, <1>2, RetryKeeps
<1>4. /\ log'["deduped"] \in {log["deduped"], log["deduped"] \o <<work[w].msg>>}
      /\ log'["validated"] = log["validated"]
      /\ log["deduped"] \in Seq(Messages)
  BY <1>2, WriteFailsShape DEF Topics, ShapeOK
<1>5. IdsIn(log["deduped"]) \subseteq IdsIn(log'["deduped"])
  BY <1>2, <1>4, IdsInOne
<1>. QED  BY <1>1, <1>3, <1>4, <1>5, FailurePassed DEF PassedInv

LEMMA ReplicaPassed ==
    ASSUME ShapeOK, PassedInv, NEW w \in Dedupers, ReplicaDies(w)
    PROVE  PassedInv'
<1>1. /\ work[w] # NoWork /\ w \in Workers /\ RoleOf[w] = "dedup"
      /\ work' = [work EXCEPT ![w] = NoWork]
      /\ lost' = lost \cup {<<"dedup", Id(w)>>}
      /\ seen' = [seen EXCEPT ![w] = <<>>]
      /\ UNCHANGED <<log, offset, dedupKeys, silenced>>
  BY BusyTypes DEF ReplicaDies
<1>2. Others(w) /\ work'[w] = NoWork
  BY <1>1, DropShape
<1>3. /\ seen' \in [Dedupers -> Seq(Ids)]
      /\ \A v \in Dedupers : v # w => seen'[v] = seen[v]
      /\ \A j : ~Contains(seen'[w], j)
  BY <1>1 DEF PassedInv, Contains
<1>. QED  BY <1>1, <1>2, <1>3, FailurePassed DEF PassedInv

LEMMA LoopPassed ==
    ASSUME ShapeOK, PassedInv, NEW w \in Dedupers, UNCHANGED dedupVars,
           Forward(w) \/ SendDLQ(w) \/ SendDLQFails(w)
    PROVE  PassedInv'
<1>. DEFINE i == Id(w)
<1>1. /\ work[w] # NoWork /\ w \in Workers /\ RoleOf[w] = "dedup"
      /\ work[w].msg \in Messages /\ i \in Ids /\ i = work[w].msg.id
      /\ work' = [work EXCEPT ![w] = NoWork]
      /\ UNCHANGED <<offset, seen, dedupKeys, silenced>>
  BY BusyTypes DEF Forward, SendDLQ, SendDLQFails, Busy, dedupVars, Id
<1>2. Others(w) /\ work'[w] = NoWork
  BY <1>1, DropShape
<1>3. ~Busy(w, "dead")' /\ <<work[w].msg>> \in Seq(Messages)
  BY <1>1, <1>2 DEF Busy
<1>4. CASE Forward(w)
  <2>1. Write("deduped", <<work[w].msg>>) /\ UNCHANGED lost
    BY <1>1, <1>4 DEF Forward, ForwardTo
  <2>2. /\ log'["deduped"] = log["deduped"] \o <<work[w].msg>>
        /\ log'["validated"] = log["validated"]
        /\ log["deduped"] \in Seq(Messages)
    BY <1>3, <2>1, WriteShape DEF Topics, ShapeOK
  <2>3. IdsIn(log'["deduped"]) = IdsIn(log["deduped"]) \cup {i}
    BY <1>1, <2>2, IdsInOne
  <2>4. \A j : j = i => Settled(j)'
    BY <2>3 DEF Settled
  <2>. HIDE DEF i
  <2>. QED  BY <1>1, <1>2, <1>3, <2>1, <2>2, <2>3, <2>4, WorkerPassed DEF PassedInv, i
<1>5. CASE SendDLQ(w) \/ SendDLQFails(w)
  <2>1. Settled(i) /\ ~Forwarding(w)
    BY <1>5 DEF SendDLQ, SendDLQFails, PassedInv, DeadFailed, Settled, Forwarding, Busy
  <2>2. lost \subseteq lost'
    BY <1>5 DEF SendDLQ, SendDLQFails
  <2>3. log'["deduped"] = log["deduped"] /\ log'["validated"] = log["validated"]
    <3>1. CASE SendDLQ(w)
      BY <1>3, <3>1, WriteShape DEF SendDLQ, Topics
    <3>2. CASE SendDLQFails(w)
      BY <3>2 DEF SendDLQFails
    <3>. QED  BY <1>5, <3>1, <3>2
  <2>. HIDE DEF i
  <2>. QED  BY <1>1, <1>2, <1>3, <2>1, <2>2, <2>3, WorkerPassed DEF PassedInv, i
<1>. QED  BY <1>4, <1>5

\* Whatever else is read, written and lost, a replica is left alone.
LEMMA BystanderPassed ==
    ASSUME PassedInv, UNCHANGED dedupVars, lost \subseteq lost',
           \A v \in Dedupers : work'[v] = work[v],
           log'["deduped"] = log["deduped"],
           log["validated"] \in Seq(Messages), log'["validated"] \in Seq(Messages),
           Len(log["validated"]) <= Len(log'["validated"]),
           \A k \in 1..Len(log["validated"]) : log'["validated"][k] = log["validated"][k],
           offset["dedup"] \in Nat, offset'["dedup"] = offset["dedup"]
    PROVE  PassedInv'
<1>1. \A v \in Dedupers : Id(v)' = Id(v) /\ (Forwarding(v)' <=> Forwarding(v))
  BY DEF Id, Forwarding
<1>2. \A j : Settled(j) => Settled(j)'
  BY <1>1 DEF Settled, dedupVars
<1>3. MarksKnown' /\ RowsKnown'
  BY <1>1, <1>2 DEF PassedInv, MarksKnown, RowsKnown, dedupVars
<1>4. DeadFailed' /\ ReadSoFar'
  <2>1. DeadFailed'
    BY <1>1 DEF PassedInv, DeadFailed, Busy, dedupVars
  <2>2. Len(log["validated"]) \in Nat /\ Len(log'["validated"]) \in Nat
    OBVIOUS
  <2>3. ReadSoFar'
    BY <2>2 DEF PassedInv, ReadSoFar
  <2>. QED  BY <2>1, <2>3
<1>5. \A k \in 1..offset["dedup"] : log'["validated"][k] = log["validated"][k]
  BY DEF PassedInv, ReadSoFar
<1>6. \A k \in 1..offset["dedup"] :
          \/ Settled(log["validated"][k].id)
          \/ \E v \in Dedupers : work[v] # NoWork /\ Id(v) = log["validated"][k].id
  BY DEF PassedInv, PassedIsForwarded, Settled, Forwarding
<1>7. PassedIsForwarded'
  <2>1. \A k \in 1..offset["dedup"] : \A j : j = log["validated"][k].id =>
            \/ Settled(j)'
            \/ \E v \in Dedupers : work'[v] # NoWork /\ Id(v)' = j
    BY <1>1, <1>2, <1>6
  <2>. QED  BY <1>5, <2>1 DEF PassedIsForwarded, Settled, Id, Forwarding
<1>. QED  BY <1>3, <1>4, <1>7 DEF PassedInv, dedupVars

\* A replica reads the next event: it is the one it holds.
LEMMA ReadPassed ==
    ASSUME DedupInv, PassedInv, NEW w \in Dedupers, ReadMessage(w), UNCHANGED dedupVars
    PROVE  PassedInv'
<1>. DEFINE n == offset["dedup"] + 1
            m == log["validated"][n]
            job == [msg |-> m, attempt |-> 1, at |-> "handle"]
<1>1. /\ w \in Workers /\ RoleOf[w] = "dedup" /\ SourceOf("dedup") = "validated"
      /\ ShapeOK /\ offset["dedup"] \in Nat /\ "dedup" \in Readers
  BY DEF Dedupers, DedupInv, IInv, SourceOf, Readers
<1>2. /\ work[w] = NoWork /\ offset["dedup"] < Len(log["validated"])
      /\ work' = [work EXCEPT ![w] = job]
      /\ offset' = [offset EXCEPT !["dedup"] = n]
      /\ UNCHANGED <<log, lost>>
  BY <1>1 DEF ReadMessage
<1>3. log["validated"] \in Seq(Messages)
  BY <1>1 DEF ShapeOK, Topics
<1>4. m \in Messages
  BY <1>1, <1>2, <1>3
<1>5. job \in Jobs
  BY <1>4, ConsumerAssumption DEF Jobs, WorkSteps, HandlerSteps
<1>6. work'[w] = job /\ work'[w] # NoWork /\ \A v \in Dedupers \ {w} : work'[v] = work[v]
  BY <1>1, <1>2, <1>5, WorkAssumption DEF ShapeOK, Dedupers
<1>7. offset'["dedup"] = n /\ n <= Len(log["validated"])
  BY <1>1, <1>2, <1>3 DEF DedupInv
<1>. HIDE DEF job, m
<1>8. /\ work'[w].at = "handle" /\ Id(w)' = m.id
  BY <1>6 DEF job, Id
<1>9. \A v \in Dedupers \ {w} : Id(v)' = Id(v) /\ (Forwarding(v)' <=> Forwarding(v))
  BY <1>6 DEF Id, Forwarding
<1>10. ~Forwarding(w) /\ ~Busy(w, "dead")'
  BY <1>2, <1>8 DEF Forwarding, Busy
<1>11. \A j : Settled(j) => Settled(j)'
  BY <1>2, <1>9, <1>10 DEF Settled, dedupVars
<1>12. MarksKnown'
  <2>1. \A v \in Dedupers, j \in Ids : Contains(seen[v], j) =>
            \/ Settled(j)'
            \/ v # w /\ work[v] # NoWork /\ work[v].at \in {"lookup", "insert"} /\ Id(v) = j
    BY <1>2, <1>11 DEF PassedInv, MarksKnown
  <2>. QED  BY <1>6, <1>9, <2>1 DEF MarksKnown, dedupVars
<1>13. RowsKnown'
  BY <1>11 DEF PassedInv, RowsKnown, dedupVars
<1>14. DeadFailed'
  BY <1>6, <1>9, <1>10 DEF PassedInv, DeadFailed, Busy, dedupVars
<1>15. ReadSoFar'
  BY <1>2, <1>7 DEF ReadSoFar
<1>16. \A k \in 1..n : \A j : j = log["validated"][k].id =>
           \/ Settled(j)'
           \/ \E v \in Dedupers : work'[v] # NoWork /\ Id(v)' = j
  <2>. SUFFICES ASSUME NEW k \in 1..n, NEW j, j = log["validated"][k].id
                PROVE  \/ Settled(j)'
                       \/ \E v \in Dedupers : work'[v] # NoWork /\ Id(v)' = j
    OBVIOUS
  <2>1. CASE k = n
    BY <1>6, <1>8, <2>1 DEF m
  <2>2. CASE k # n
    <3>1. k \in 1..offset["dedup"]
      BY <1>1, <2>2
    <3>2. Settled(j) \/ \E v \in Dedupers : work[v] # NoWork /\ Id(v) = j
      BY <3>1 DEF PassedInv, PassedIsForwarded, Settled
    <3>. QED  BY <1>2, <1>6, <1>9, <1>11, <3>2
  <2>. QED  BY <2>1, <2>2
<1>17. PassedIsForwarded'
  BY <1>2, <1>7, <1>16 DEF PassedIsForwarded, Settled, Id, Forwarding
<1>. QED  BY <1>12, <1>13, <1>14, <1>15, <1>17 DEF PassedInv, dedupVars

\* The commit of the event a replica fetched fails: it is settled as lost.
LEMMA ReadFailsPassed ==
    ASSUME DedupInv, PassedInv, NEW w \in Dedupers, ReadMessageFails(w), UNCHANGED dedupVars
    PROVE  PassedInv'
<1>. DEFINE n == offset["dedup"] + 1
            m == log["validated"][n]
<1>1. /\ w \in Workers /\ RoleOf[w] = "dedup" /\ SourceOf("dedup") = "validated"
      /\ ShapeOK /\ offset["dedup"] \in Nat /\ "dedup" \in Readers
      /\ log["validated"] \in Seq(Messages)
  BY DEF Dedupers, DedupInv, IInv, SourceOf, Readers, ShapeOK, Topics
<1>2. /\ offset["dedup"] < Len(log["validated"])
      /\ UNCHANGED <<log, work>>
      /\ lost' = lost \cup {<<"dedup", m.id>>}
      /\ offset'["dedup"] = n
  BY <1>1, ReadFailsShape DEF ReadMessageFails, DedupInv
<1>. HIDE DEF m
<1>3. \A v \in Dedupers : Id(v)' = Id(v) /\ (Forwarding(v)' <=> Forwarding(v))
  BY <1>2 DEF Id, Forwarding
<1>4. \A j : Settled(j) => Settled(j)'
  BY <1>2, <1>3 DEF Settled, dedupVars
<1>5. \A j : j = m.id => Settled(j)'
  BY <1>2 DEF Settled
<1>6. MarksKnown' /\ RowsKnown' /\ DeadFailed'
  BY <1>2, <1>3, <1>4 DEF PassedInv, MarksKnown, RowsKnown, DeadFailed, Busy, dedupVars
<1>7. ReadSoFar'
  BY <1>1, <1>2 DEF ReadSoFar
<1>8. \A k \in 1..n : \A j : j = log["validated"][k].id =>
          \/ Settled(j)'
          \/ \E v \in Dedupers : work'[v] # NoWork /\ Id(v)' = j
  <2>. SUFFICES ASSUME NEW k \in 1..n, NEW j, j = log["validated"][k].id
                PROVE  \/ Settled(j)'
                       \/ \E v \in Dedupers : work'[v] # NoWork /\ Id(v)' = j
    OBVIOUS
  <2>1. CASE k = n
    BY <1>5, <2>1 DEF m
  <2>2. CASE k # n
    <3>1. k \in 1..offset["dedup"]
      BY <1>1, <2>2
    <3>2. Settled(j) \/ \E v \in Dedupers : work[v] # NoWork /\ Id(v) = j
      BY <3>1 DEF PassedInv, PassedIsForwarded, Settled
    <3>. QED  BY <1>2, <1>3, <1>4, <3>2
  <2>. QED  BY <2>1, <2>2
<1>9. PassedIsForwarded'
  BY <1>2, <1>8 DEF PassedIsForwarded, Settled, Id, Forwarding
<1>. QED  BY <1>6, <1>7, <1>9 DEF PassedInv, dedupVars

\* The validator appends to the topic, and touches nothing else that counts.
LEMMA ValidatorPassed ==
    ASSUME DedupInv, PassedInv, NEW w \in Validators,
           Validate(w) \/ ForwardFails(w) \/ LoopStep(w),
           UNCHANGED dedupVars
    PROVE  PassedInv'
<1>1. /\ w \in Workers /\ RoleOf[w] = "validator" /\ ShapeOK
      /\ offset \in [Readers -> Nat] /\ "validator" \in Readers
      /\ log["validated"] \in Seq(Messages) /\ log["deduped"] \in Seq(Messages)
  BY DEF Validators, DedupInv, IInv, ShapeOK, Readers, Topics
<1>2. work[w] # NoWork => work[w].msg \in Messages /\ <<work[w].msg>> \in Seq(Messages)
  BY <1>1 DEF ShapeOK, Jobs
<1>3. ASSUME Others(w), lost \subseteq lost', offset'["dedup"] = offset["dedup"],
             log'["deduped"] = log["deduped"],
             \/ log'["validated"] = log["validated"]
             \/ /\ work[w] # NoWork
                /\ log'["validated"] = log["validated"] \o <<work[w].msg>>
      PROVE  PassedInv'
  <2>1. \A v \in Dedupers : work'[v] = work[v]
    BY <1>3 DEF Others, Validators, Dedupers
  <2>2. offset["dedup"] \in Nat
    BY <1>1 DEF Readers
  <2>3. /\ log'["validated"] \in Seq(Messages)
        /\ Len(log["validated"]) <= Len(log'["validated"])
        /\ \A k \in 1..Len(log["validated"]) : log'["validated"][k] = log["validated"][k]
    <3>1. \A t, one \in Seq(Messages) :
             /\ t \o one \in Seq(Messages)
             /\ Len(t) <= Len(t \o one)
             /\ \A k \in 1..Len(t) : (t \o one)[k] = t[k]
      OBVIOUS
    <3>2. CASE log'["validated"] = log["validated"]
      BY <1>1, <3>2
    <3>3. CASE work[w] # NoWork /\ log'["validated"] = log["validated"] \o <<work[w].msg>>
      BY <1>1, <1>2, <3>1, <3>3
    <3>. QED  BY <1>3, <3>2, <3>3
  <2>. QED  BY <1>1, <1>3, <2>1, <2>2, <2>3, BystanderPassed
<1>4. CASE Validate(w)
  <2>1. work[w] # NoWork /\ (Goto(w, "dead") \/ Goto(w, "forward"))
    BY <1>1, <1>4 DEF Validate, Bury, Done, ForwardTo, Busy
  <2>2. Others(w) /\ UNCHANGED <<log, offset, lost>>
    BY <1>1, <1>4, <2>1, GotoShape DEF Validate, WorkSteps
  <2>. QED  BY <1>3, <2>2
<1>5. CASE ForwardFails(w)
  <2>1. /\ work[w] # NoWork /\ Goto(w, "dead") /\ UNCHANGED <<offset, lost>>
        /\ WriteFails("validated", <<work[w].msg>>)
    BY <1>1, <1>5 DEF ForwardFails, Busy, Failed, Bury, ForwardTo
  <2>2. Others(w)
    BY <1>1, <2>1, GotoShape DEF WorkSteps
  <2>3. /\ log'["validated"] \in {log["validated"], log["validated"] \o <<work[w].msg>>}
        /\ log'["deduped"] = log["deduped"]
    BY <1>1, <1>2, <2>1, WriteFailsShape DEF Topics
  <2>. QED  BY <1>3, <2>1, <2>2, <2>3
<1>6. CASE ReadMessage(w)
  <2>1. Others(w) /\ UNCHANGED <<log, lost>>
    BY <1>1, <1>6, ReadShape DEF ReadMessage
  <2>2. offset'["dedup"] = offset["dedup"]
    BY <1>1, <1>6 DEF ReadMessage, Readers
  <2>. QED  BY <1>3, <2>1, <2>2
<1>8. CASE ReadMessageFails(w)
  <2>1. Others(w) /\ log' = log /\ lost \subseteq lost'
    BY <1>1, <1>8, ReadFailsShape DEF Others
  <2>2. offset'["dedup"] = offset["dedup"]
    BY <1>1, <1>8, ReadFailsShape DEF Readers
  <2>. QED  BY <1>3, <2>1, <2>2
<1>7. CASE Forward(w) \/ SendDLQ(w) \/ SendDLQFails(w)
  <2>1. work[w] # NoWork /\ work' = [work EXCEPT ![w] = NoWork] /\ UNCHANGED offset
    BY <1>7 DEF Forward, SendDLQ, SendDLQFails, Busy
  <2>2. Others(w) /\ lost \subseteq lost'
    BY <1>1, <1>7, <2>1, DropShape DEF Forward, SendDLQ, SendDLQFails
  <2>3. CASE Forward(w)
    <3>1. Write("validated", <<work[w].msg>>)
      BY <1>1, <2>3 DEF Forward, ForwardTo
    <3>2. /\ log'["validated"] = log["validated"] \o <<work[w].msg>>
          /\ log'["deduped"] = log["deduped"]
      BY <1>1, <1>2, <2>1, <3>1, WriteShape DEF Topics
    <3>. QED  BY <1>3, <2>1, <2>2, <3>2
  <2>4. CASE SendDLQ(w)
    <3>1. log'["validated"] = log["validated"] /\ log'["deduped"] = log["deduped"]
      BY <1>1, <1>2, <2>1, <2>4, WriteShape DEF SendDLQ, Topics
    <3>. QED  BY <1>3, <2>1, <2>2, <3>1
  <2>5. CASE SendDLQFails(w)
    BY <1>3, <2>1, <2>2, <2>5 DEF SendDLQFails
  <2>. QED  BY <1>7, <2>3, <2>4, <2>5
<1>. QED  BY <1>4, <1>5, <1>6, <1>7, <1>8 DEF LoopStep

\* After a crash every event that was held is on record as lost.
LEMMA CrashPassed ==
    ASSUME ShapeOK, PassedInv, DedupCrash
    PROVE  PassedInv'
<1>1. /\ work' = [w \in Workers |-> NoWork]
      /\ seen' = [w \in Dedupers |-> <<>>]
      /\ UNCHANGED <<log, offset, dedupKeys, silenced>>
      /\ lost' = lost \cup {<<RoleOf[w], work[w].msg.id>> :
                               w \in {v \in Workers : work[v] # NoWork}}
  BY DEF DedupCrash, ConsumersDie, DedupersDie
<1>2. \A w \in Dedupers : /\ work[w] # NoWork => <<"dedup", Id(w)>> \in lost'
                          /\ work'[w] = NoWork
  BY <1>1 DEF Dedupers, Id
<1>3. \A j : Settled(j) => Settled(j)'
  BY <1>1, <1>2 DEF Settled, Forwarding
<1>4. MarksKnown' /\ DeadFailed' /\ seen' \in [Dedupers -> Seq(Ids)]
  <2>1. \A w \in Dedupers : seen'[w] = <<>> /\ ~Busy(w, "dead")'
    BY <1>1, <1>2 DEF Busy
  <2>2. \A j : ~Contains(<<>>, j)
    BY DEF Contains
  <2>. QED  BY <1>1, <2>1, <2>2 DEF MarksKnown, DeadFailed
<1>5. RowsKnown' /\ ReadSoFar'
  BY <1>1, <1>3 DEF PassedInv, RowsKnown, ReadSoFar
<1>6. \A k \in 1..offset["dedup"] : \A j : j = log["validated"][k].id => Settled(j)'
  BY <1>2, <1>3 DEF PassedInv, PassedIsForwarded, Settled
<1>7. PassedIsForwarded'
  BY <1>1, <1>6 DEF PassedIsForwarded, Settled, Id, Forwarding
<1>. QED  BY <1>4, <1>5, <1>7 DEF PassedInv

LEMMA PassedStep ==
    ASSUME DedupInv, PassedInv, [DedupNext \/ Elsewhere]_vars
    PROVE  PassedInv'
<1>1. ShapeOK
  BY DEF DedupInv, IInv
<1>2. ASSUME NEW w \in Dedupers, DedupStep(w)
      PROVE  PassedInv'
  BY <1>1, <1>2, SeenPassed, ExistsPassed, InsertPassed, FailsPassed,
     DedupForwardFailsPassed, ReplicaPassed DEF DedupStep
<1>3. ASSUME NEW w \in Dedupers, LoopStep(w), UNCHANGED dedupVars
      PROVE  PassedInv'
  BY <1>1, <1>3, LoopPassed, ReadPassed, ReadFailsPassed DEF LoopStep
<1>4. ASSUME \/ Elsewhere
             \/ UNCHANGED vars
      PROVE  PassedInv'
  <2>1. log["validated"] \in Seq(Messages) /\ offset["dedup"] \in Nat
    BY <1>1 DEF ShapeOK, Topics, DedupInv, Readers
  <2>2. /\ UNCHANGED dedupVars /\ lost \subseteq lost'
        /\ \A v \in Dedupers : work'[v] = work[v]
        /\ log'["deduped"] = log["deduped"]
        /\ log'["validated"] = log["validated"]
        /\ offset'["dedup"] = offset["dedup"]
    BY <1>4 DEF Elsewhere, vars, topicVars, consumerVars
  <2>. QED  BY <2>1, <2>2, BystanderPassed
<1>. QED
  BY <1>1, <1>2, <1>3, <1>4, ValidatorPassed, CrashPassed DEF DedupNext, Validate

\* An event the validator has passed on reaches the deduplicated topic, is on its
\* way there, or has met a failed step or a stopped worker: neither the mark of a
\* bounded memory nor the row of another replica ever hides an event for good
\* without one (DedupStore.Handle, SeenOrMark, Insert).
THEOREM NothingVanishes == DedupSpec => []PassedIsForwarded
<1>1. DedupSpec => PassedInv
  <2>. SUFFICES ASSUME DedupSpec PROVE PassedInv
    OBVIOUS
  <2>1. /\ log \in [Topics -> Seq(Messages)]
        /\ offset = [c \in Readers |-> 0]
        /\ seen = [w \in Dedupers |-> <<>>]
        /\ dedupKeys = IdsIn(log["deduped"])
        /\ work = [w \in Workers |-> NoWork]
    BY DEF DedupSpec, DedupInit, ConsumerInit
  <2>2. MarksKnown /\ RowsKnown /\ DeadFailed
    BY <2>1 DEF MarksKnown, RowsKnown, DeadFailed, Contains, Busy, Dedupers, Settled
  <2>3. offset["dedup"] = 0 /\ Len(log["validated"]) \in Nat
    BY <2>1 DEF Readers, Topics
  <2>4. ReadSoFar /\ PassedIsForwarded
    BY <2>3 DEF ReadSoFar, PassedIsForwarded
  <2>. QED  BY <2>1, <2>2, <2>4 DEF PassedInv
<1>2. DedupInv /\ PassedInv /\ [DedupNext \/ Elsewhere]_vars => PassedInv'
  BY PassedStep
<1>3. PassedInv => PassedIsForwarded
  BY DEF PassedInv
<1>. QED  BY <1>1, <1>2, <1>3, DedupInvariant, PTL DEF DedupSpec, vars

-----------------------------------------------------------------------------
(* Nothing the validator has read disappears                               *)

\* Topics are logs: a step appends messages.
Appended ==
    /\ log' \in [Topics -> Seq(Messages)]
    /\ \A t \in Topics : \E msgs \in Seq(Messages) : log'[t] = log[t] \o msgs

LEMMA LogUnchanged ==
    ASSUME log \in [Topics -> Seq(Messages)], log' = log
    PROVE  Appended
  <1>1. \A t \in Topics : log[t] \in Seq(Messages) /\ log'[t] = log[t] \o <<>>
    BY ConcatEmptySeq
  <1>2. <<>> \in Seq(Messages)
    OBVIOUS
  <1>3. QED
    BY <1>1, <1>2 DEF Appended

LEMMA LogWritten ==
    ASSUME log \in [Topics -> Seq(Messages)], NEW t, NEW msgs \in Seq(Messages), Write(t, msgs)
    PROVE  Appended /\ \A s \in Topics \ {t} : log'[s] = log[s]
  <1>1. CASE t \notin Topics
    <2>1. log' = log
      BY <1>1 DEF Write
    <2>2. QED
      BY <2>1, LogUnchanged
  <1>2. CASE t \in Topics
    <2>1. log[t] \in Seq(Messages) /\ log[t] \o msgs \in Seq(Messages)
      BY <1>2, ConcatProperties
    <2>2. /\ log' \in [Topics -> Seq(Messages)]
          /\ log'[t] = log[t] \o msgs
          /\ \A s \in Topics \ {t} : log'[s] = log[s]
      BY <1>2, <2>1 DEF Write
    <2>3. \A s \in Topics \ {t} : log'[s] = log[s] \o <<>> /\ <<>> \in Seq(Messages)
      BY <2>2, ConcatEmptySeq
    <2>4. QED
      BY <2>2, <2>3 DEF Appended
  <1>3. QED
    BY <1>1, <1>2

LEMMA LogTried ==
    ASSUME log \in [Topics -> Seq(Messages)], NEW t, NEW msgs \in Seq(Messages), WriteFails(t, msgs)
    PROVE  Appended /\ \A s \in Topics \ {t} : log'[s] = log[s]
  <1>1. PICK n \in 0..Len(msgs) : Write(t, SubSeq(msgs, 1, n))
    BY DEF WriteFails
  <1>2. SubSeq(msgs, 1, n) \in Seq(Messages)
    <2>1. n \in Int /\ \A i \in 1..n : msgs[i] \in Messages
      OBVIOUS
    <2>2. QED
      BY <2>1, SubSeqProperties
  <1>3. QED
    BY <1>1, <1>2, LogWritten

LEMMA AppendedKeeps ==
    ASSUME log \in [Topics -> Seq(Messages)], Appended, NEW t \in Topics
    PROVE  /\ log[t] \in Seq(Messages) /\ log'[t] \in Seq(Messages)
           /\ Len(log[t]) \in Nat /\ Len(log[t]) <= Len(log'[t])
           /\ \A k \in 1..Len(log[t]) : log'[t][k] = log[t][k]
           /\ IdsIn(log[t]) \subseteq IdsIn(log'[t])
  <1>1. PICK msgs \in Seq(Messages) : log'[t] = log[t] \o msgs
    BY DEF Appended
  <1>2. /\ log[t] \in Seq(Messages) /\ log'[t] \in Seq(Messages)
        /\ Len(log[t]) \in Nat /\ Len(log[t]) <= Len(log'[t]) /\ Len(log'[t]) \in Nat
        /\ \A k \in 1..Len(log[t]) : log'[t][k] = log[t][k]
    BY <1>1
  <1>3. ToSet(log[t]) \subseteq ToSet(log'[t])
    BY <1>2 DEF ToSet
  <1>4. QED
    BY <1>2, <1>3 DEF IdsIn

\* Every step of the two consumers appends to the topics.
LEMMA DedupAppends ==
    ASSUME ShapeOK, DedupNext
    PROVE  Appended
  <1>1. log \in [Topics -> Seq(Messages)]
    BY DEF ShapeOK
  <1>2. ASSUME NEW w \in Workers, work[w] # NoWork
        PROVE  <<work[w].msg>> \in Seq(Messages)
    <2>1. work[w].msg \in Messages
      BY <1>2 DEF ShapeOK, Jobs
    <2>2. QED
      BY <2>1
  <1>3. ASSUME NEW w \in Workers, ForwardFails(w)
        PROVE  Appended
    BY <1>1, <1>2, <1>3, LogTried DEF ForwardFails, Busy
  <1>4. ASSUME NEW w \in Workers, LoopStep(w)
        PROVE  Appended
    <2>1. CASE Forward(w)
      BY <1>1, <1>2, <2>1, LogWritten DEF Forward, Busy
    <2>2. CASE SendDLQ(w)
      BY <1>1, <1>2, <2>2, LogWritten DEF SendDLQ, Busy
    <2>3. CASE ReadMessage(w) \/ ReadMessageFails(w) \/ SendDLQFails(w)
      BY <1>1, <2>3, LogUnchanged DEF ReadMessage, ReadMessageFails, SendDLQFails
    <2>4. QED
      BY <1>4, <2>1, <2>2, <2>3 DEF LoopStep
  <1>5. ASSUME NEW w \in Dedupers, DedupStep(w)
        PROVE  Appended
    <2>1. CASE DedupForwardFails(w)
      BY <1>3, <2>1 DEF DedupForwardFails, Dedupers
    <2>2. CASE UNCHANGED log
      BY <1>1, <2>2, LogUnchanged
    <2>3. QED
      BY <1>5, <2>1, <2>2 DEF DedupStep, SeenOrMark, Exists, Insert, DedupFails, ReplicaDies
  <1>6. CASE UNCHANGED log
    BY <1>1, <1>6, LogUnchanged
  <1>7. QED
    BY <1>3, <1>4, <1>5, <1>6 DEF DedupNext, Validate, DedupCrash, Validators, Dedupers

LEMMA DedupStepAppends ==
    ASSUME DedupInv, [DedupNext \/ Elsewhere]_vars
    PROVE  Appended
  <1>1. ShapeOK /\ log \in [Topics -> Seq(Messages)]
    BY DEF DedupInv, IInv, ShapeOK
  <1>2. CASE DedupNext
    BY <1>1, <1>2, DedupAppends
  <1>3. CASE Elsewhere
    BY <1>3 DEF Elsewhere, Appended
  <1>4. CASE UNCHANGED vars
    BY <1>1, <1>4, LogUnchanged DEF vars, topicVars
  <1>5. QED
    BY <1>2, <1>3, <1>4

\* An event has left the validator.
Handed(i) ==
    \/ i \in IdsIn(log["validated"]) \cup IdsIn(log["dlq"])
    \/ <<"validator", i>> \in lost

InHands(i) == \E w \in Validators : work[w] # NoWork /\ Id(w) = i

ValidatedInv == offset["validator"] <= Len(log["events"]) /\ ReadIsValidated

\* A step that reads nothing: what a validator lets go of, it has handed on.
LEMMA HandsKeep ==
    ASSUME ValidatedInv, log \in [Topics -> Seq(Messages)], Appended, lost \subseteq lost',
           offset["validator"] \in Nat, offset'["validator"] = offset["validator"],
           \A i : InHands(i) => InHands(i)' \/ Handed(i)'
    PROVE  ValidatedInv'
  <1>1. /\ Len(log["events"]) \in Nat /\ log'["events"] \in Seq(Messages)
        /\ Len(log["events"]) <= Len(log'["events"])
        /\ \A k \in 1..Len(log["events"]) : log'["events"][k] = log["events"][k]
    BY AppendedKeeps DEF Topics
  <1>2. \A i : Handed(i) => Handed(i)'
    BY AppendedKeeps DEF Handed, Topics
  <1>3. \A k \in 1..offset["validator"] : \A i : i = log["events"][k].id =>
            Handed(i)' \/ InHands(i)'
    BY <1>2 DEF ValidatedInv, ReadIsValidated, Handed, InHands
  <1>4. \A k \in 1..offset["validator"] : log'["events"][k] = log["events"][k]
    BY <1>1 DEF ValidatedInv
  <1>5. ReadIsValidated'
    BY <1>3, <1>4 DEF ReadIsValidated, Handed, InHands, Id
  <1>6. offset'["validator"] <= Len(log'["events"])
    <2>1. Len(log'["events"]) \in Nat
      BY <1>1
    <2>2. QED
      BY <1>1, <2>1 DEF ValidatedInv
  <1>7. QED
    BY <1>5, <1>6 DEF ValidatedInv

\* A validator that works on its message holds it, or has handed it on.
LEMMA ValidatorHands ==
    ASSUME ShapeOK, NEW w \in Validators, work[w] # NoWork, Appended,
           Validate(w) \/ ForwardFails(w) \/ Forward(w) \/ SendDLQ(w) \/ SendDLQFails(w)
    PROVE  /\ \A i : InHands(i) => InHands(i)' \/ Handed(i)'
           /\ lost \subseteq lost' /\ offset' = offset
  <1>1. /\ w \in Workers /\ RoleOf[w] = "validator"
        /\ work[w].msg \in Messages /\ <<work[w].msg>> \in Seq(Messages)
    <2>1. work[w].msg \in Messages
      BY DEF ShapeOK, Jobs, Validators
    <2>2. QED
      BY <2>1 DEF Validators
  <1>2. lost \subseteq lost' /\ offset' = offset
    BY DEF Validate, ForwardFails, Forward, SendDLQ, SendDLQFails
  <1>3. Others(w) /\ (\/ work'[w] # NoWork /\ work'[w].msg = work[w].msg
                      \/ \A i : i = work[w].msg.id => Handed(i)')
    <2>1. CASE Validate(w)
      <3>1. Goto(w, "dead") \/ Goto(w, "forward")
        BY <1>1, <2>1 DEF Validate, Bury, Done, ForwardTo
      <3>2. QED
        BY <1>1, <3>1, GotoShape DEF WorkSteps
    <2>2. CASE ForwardFails(w)
      <3>1. Goto(w, "dead")
        BY <1>1, <2>2 DEF ForwardFails, Failed, Bury
      <3>2. QED
        BY <1>1, <3>1, GotoShape DEF WorkSteps
    <2>3. CASE Forward(w)
      <3>1. Write("validated", <<work[w].msg>>) /\ work' = [work EXCEPT ![w] = NoWork]
        BY <1>1, <2>3 DEF Forward, ForwardTo
      <3>2. log'["validated"] = log["validated"] \o <<work[w].msg>>
        BY <1>1, <3>1, WriteShape DEF Topics
      <3>3. work[w].msg.id \in IdsIn(log'["validated"])
        BY <1>1, <3>2, IdsInOne DEF ShapeOK, Topics
      <3>4. \A i : i = work[w].msg.id => Handed(i)'
        BY <3>3 DEF Handed
      <3>5. QED
        BY <1>1, <3>1, <3>4, DropShape
    <2>4. CASE SendDLQ(w)
      <3>1. Write("dlq", <<work[w].msg>>) /\ work' = [work EXCEPT ![w] = NoWork]
        BY <2>4 DEF SendDLQ
      <3>2. log'["dlq"] = log["dlq"] \o <<work[w].msg>>
        BY <1>1, <3>1, WriteShape DEF Topics
      <3>3. work[w].msg.id \in IdsIn(log'["dlq"])
        BY <1>1, <3>2, IdsInOne DEF ShapeOK, Topics
      <3>4. \A i : i = work[w].msg.id => Handed(i)'
        BY <3>3 DEF Handed
      <3>5. QED
        BY <1>1, <3>1, <3>4, DropShape
    <2>5. CASE SendDLQFails(w)
      <3>1. /\ work' = [work EXCEPT ![w] = NoWork]
            /\ lost' = lost \cup {<<"validator", work[w].msg.id>>}
        BY <1>1, <2>5 DEF SendDLQFails
      <3>2. \A i : i = work[w].msg.id => Handed(i)'
        BY <3>1 DEF Handed
      <3>3. QED
        BY <1>1, <3>1, <3>2, DropShape
    <2>6. QED
      BY <2>1, <2>2, <2>3, <2>4, <2>5
  <1>4. \A i : InHands(i) => InHands(i)' \/ Handed(i)'
    <2>1. SUFFICES ASSUME NEW i, NEW v \in Validators, work[v] # NoWork, Id(v) = i
                   PROVE  InHands(i)' \/ Handed(i)'
      BY DEF InHands
    <2>2. CASE v = w
      BY <1>3, <2>1, <2>2 DEF InHands, Id
    <2>3. CASE v # w
      BY <1>3, <2>1, <2>3 DEF InHands, Id, Others, Validators
    <2>4. QED
      BY <2>2, <2>3
  <1>5. QED
    BY <1>2, <1>4

\* A validator reads the next event: it is in its hands.
LEMMA ValidatorReads ==
    ASSUME DedupInv, ValidatedInv, NEW w \in Validators, ReadMessage(w)
    PROVE  ValidatedInv'
  <1>1. /\ w \in Workers /\ RoleOf[w] = "validator" /\ SourceOf("validator") = "events"
        /\ ShapeOK /\ offset \in [Readers -> Nat] /\ "validator" \in Readers
        /\ log["events"] \in Seq(Messages)
    BY DEF Validators, DedupInv, IInv, SourceOf, Readers, ShapeOK, Topics
  <1>. DEFINE n == offset["validator"] + 1
              job == [msg |-> log["events"][n], attempt |-> 1, at |-> "handle"]
  <1>2. /\ work[w] = NoWork /\ offset["validator"] < Len(log["events"])
        /\ work' = [work EXCEPT ![w] = job] /\ offset'["validator"] = n
        /\ UNCHANGED <<log, lost>>
    BY <1>1 DEF ReadMessage
  <1>3. job \in Jobs
    <2>1. log["events"][n] \in Messages
      BY <1>1, <1>2
    <2>2. QED
      BY <2>1, ConsumerAssumption DEF Jobs, WorkSteps, HandlerSteps
  <1>4. work'[w] = job /\ work'[w] # NoWork /\ \A v \in Validators \ {w} : work'[v] = work[v]
    BY <1>1, <1>2, <1>3, WorkAssumption DEF ShapeOK, Validators
  <1>5. \A i : InHands(i) => InHands(i)'
    BY <1>2, <1>4 DEF InHands, Id
  <1>6. \A i : i = log["events"][n].id => InHands(i)'
    BY <1>2, <1>4 DEF InHands, Id
  <1>7. \A k \in 1..n : \A i : i = log["events"][k].id => Handed(i)' \/ InHands(i)'
    <2>1. SUFFICES ASSUME NEW k \in 1..n, NEW i, i = log["events"][k].id
                   PROVE  Handed(i)' \/ InHands(i)'
      OBVIOUS
    <2>2. CASE k = n
      BY <1>2, <1>6, <2>1, <2>2
    <2>3. CASE k # n
      <3>1. k \in 1..offset["validator"]
        BY <1>1, <2>3
      <3>2. Handed(i) \/ InHands(i)
        BY <2>1, <3>1 DEF ValidatedInv, ReadIsValidated, Handed, InHands
      <3>3. QED
        BY <1>2, <1>5, <3>2 DEF Handed
    <2>4. QED
      BY <2>2, <2>3
  <1>8. ReadIsValidated'
    BY <1>2, <1>7 DEF ReadIsValidated, Handed, InHands, Id
  <1>9. n <= Len(log["events"])
    BY <1>1, <1>2
  <1>10. QED
    BY <1>2, <1>8, <1>9 DEF ValidatedInv

\* Its commit fails: the event is on record as lost.
LEMMA ValidatorReadFails ==
    ASSUME DedupInv, ValidatedInv, NEW w \in Validators, ReadMessageFails(w)
    PROVE  ValidatedInv'
  <1>1. /\ RoleOf[w] = "validator" /\ SourceOf("validator") = "events"
        /\ offset["validator"] \in Nat /\ log["events"] \in Seq(Messages)
    BY DEF Validators, DedupInv, IInv, SourceOf, Readers, ShapeOK, Topics
  <1>. DEFINE n == offset["validator"] + 1
              m == log["events"][n]
  <1>2. /\ offset["validator"] < Len(log["events"])
        /\ UNCHANGED <<log, work>>
        /\ lost' = lost \cup {<<"validator", m.id>>}
        /\ offset'["validator"] = n
    BY <1>1, ReadFailsShape DEF ReadMessageFails, DedupInv, Readers
  <1>. HIDE DEF m
  <1>3. \A i : (Handed(i) => Handed(i)') /\ (InHands(i) => InHands(i)')
    BY <1>2 DEF Handed, InHands, Id
  <1>4. \A k \in 1..n : \A i : i = log["events"][k].id => Handed(i)' \/ InHands(i)'
    <2>1. SUFFICES ASSUME NEW k \in 1..n, NEW i, i = log["events"][k].id
                   PROVE  Handed(i)' \/ InHands(i)'
      OBVIOUS
    <2>2. CASE k = n
      BY <1>2, <2>1, <2>2 DEF Handed, m
    <2>3. CASE k # n
      <3>1. k \in 1..offset["validator"]
        BY <1>1, <2>3
      <3>2. Handed(i) \/ InHands(i)
        BY <2>1, <3>1 DEF ValidatedInv, ReadIsValidated, Handed, InHands
      <3>3. QED
        BY <1>3, <3>2
    <2>4. QED
      BY <2>2, <2>3
  <1>5. ReadIsValidated'
    BY <1>2, <1>4 DEF ReadIsValidated, Handed, InHands, Id
  <1>6. n <= Len(log["events"])
    BY <1>1, <1>2
  <1>7. QED
    BY <1>2, <1>5, <1>6 DEF ValidatedInv

LEMMA ValidatedStep ==
    ASSUME DedupInv, ValidatedInv, [DedupNext \/ Elsewhere]_vars
    PROVE  ValidatedInv'
  <1>1. ShapeOK /\ log \in [Topics -> Seq(Messages)] /\ offset["validator"] \in Nat
    BY DEF DedupInv, IInv, ShapeOK, Readers
  <1>2. Appended
    BY DedupStepAppends
  <1>3. ASSUME lost \subseteq lost', offset'["validator"] = offset["validator"],
               \A v \in Validators : work'[v] = work[v]
        PROVE  ValidatedInv'
    BY <1>1, <1>2, <1>3, HandsKeep DEF InHands, Id
  <1>4. ASSUME NEW w \in Validators, Validate(w) \/ ForwardFails(w) \/ LoopStep(w)
        PROVE  ValidatedInv'
    <2>1. CASE ReadMessage(w)
      BY <2>1, ValidatorReads
    <2>4. CASE ReadMessageFails(w)
      BY <2>4, ValidatorReadFails
    <2>2. CASE ~ReadMessage(w) /\ ~ReadMessageFails(w)
      <3>1. work[w] # NoWork
            /\ (Validate(w) \/ ForwardFails(w) \/ Forward(w) \/ SendDLQ(w) \/ SendDLQFails(w))
        BY <1>4, <2>2 DEF LoopStep, Validate, ForwardFails, Forward, SendDLQ, SendDLQFails, Busy
      <3>2. /\ \A i : InHands(i) => InHands(i)' \/ Handed(i)'
            /\ lost \subseteq lost' /\ offset' = offset
        BY <1>1, <1>2, <3>1, ValidatorHands
      <3>3. QED
        BY <1>1, <1>2, <3>2, HandsKeep
    <2>3. QED
      BY <2>1, <2>2, <2>4
  <1>5. ASSUME NEW w \in Dedupers, DedupStep(w) \/ LoopStep(w)
        PROVE  ValidatedInv'
    <2>1. w \in Workers /\ RoleOf[w] = "dedup" /\ w \notin Validators
      BY DEF Dedupers, Validators
    <2>2. \A v \in Validators : work'[v] = work[v]
      <3>1. \A v \in Workers : v # w => work'[v] = work[v]
        BY <1>1, <1>5, <2>1 DEF DedupStep, LoopStep, SeenOrMark, Exists, Insert, DedupFails,
           DedupForwardFails, ReplicaDies, ReadMessage, ReadMessageFails, Forward, ForwardFails, SendDLQ,
           SendDLQFails, Goto, Drop, Done, Failed, Bury, Retry, ShapeOK
      <3>2. QED
        BY <2>1, <3>1 DEF Validators
    <2>3. lost \subseteq lost'
      BY <1>5 DEF DedupStep, LoopStep, SeenOrMark, Exists, Insert, DedupFails,
         DedupForwardFails, ReplicaDies, ReadMessage, ReadMessageFails, Forward, ForwardFails,
         SendDLQ, SendDLQFails
    <2>4. offset'["validator"] = offset["validator"]
      BY <1>1, <1>5, <2>1 DEF DedupStep, LoopStep, SeenOrMark, Exists, Insert, DedupFails,
         DedupForwardFails, ReplicaDies, ReadMessage, ReadMessageFails, Forward, ForwardFails, SendDLQ,
         SendDLQFails, DedupInv, Readers
    <2>5. QED
      BY <1>3, <2>2, <2>3, <2>4
  <1>6. CASE DedupCrash
    <2>1. /\ UNCHANGED <<log, offset>>
          /\ lost' = lost \cup {<<RoleOf[v], work[v].msg.id>> :
                                  v \in {u \in Workers : work[u] # NoWork}}
      BY <1>6 DEF DedupCrash, ConsumersDie
    <2>2. \A i : InHands(i) => Handed(i)'
      BY <2>1 DEF InHands, Handed, Id, Validators
    <2>3. QED
      BY <1>1, <1>2, <2>1, <2>2, HandsKeep
  <1>7. CASE Elsewhere \/ UNCHANGED vars
    BY <1>3, <1>7 DEF Elsewhere, vars, topicVars, consumerVars
  <1>8. QED
    BY <1>4, <1>5, <1>6, <1>7 DEF DedupNext

LEMMA ValidatedInvariant == DedupSpec => []ValidatedInv
  <1>1. DedupSpec => ValidatedInv
    <2>1. SUFFICES ASSUME DedupSpec PROVE ValidatedInv
      OBVIOUS
    <2>2. log \in [Topics -> Seq(Messages)] /\ offset = [c \in Readers |-> 0]
      BY <2>1 DEF DedupSpec
    <2>3. offset["validator"] = 0 /\ Len(log["events"]) \in Nat
      BY <2>2 DEF Readers, Topics
    <2>4. QED
      BY <2>3 DEF ValidatedInv, ReadIsValidated
  <1>2. DedupInv /\ ValidatedInv /\ [DedupNext \/ Elsewhere]_vars => ValidatedInv'
    BY ValidatedStep
  <1>3. QED
    BY <1>1, <1>2, DedupInvariant, PTL DEF DedupSpec, vars

\* The validator commits an event before it looks at it.  Of those it has read,
\* each is passed on, dead-lettered or in hand, unless the commit or the write to
\* the dead-letter topic has failed or the process was stopped - the three ways
\* to lose one, and no other (Consumer.Run, Validator.Handle).
THEOREM NothingUnread == DedupSpec => []ReadIsValidated
  <1>1. ValidatedInv => ReadIsValidated
    BY DEF ValidatedInv
  <1>2. QED
    BY <1>1, ValidatedInvariant, PTL

-----------------------------------------------------------------------------
(* Where the messages in hand come from                                    *)

Handlers == Validators \cup Dedupers

InAHand(i) == \E w \in Handlers : work[w] # NoWork /\ Id(w) = i

\* A worker holds what it has read from its own topic.
HandsFromTopics ==
    /\ \A w \in Validators : work[w] # NoWork => Id(w) \in IdsIn(log["events"])
    /\ \A w \in Dedupers : work[w] # NoWork => Id(w) \in IdsIn(log["validated"])

\* A worker keeps its message, lets go of it or reads the next one.
Kept(w) == work[w] # NoWork /\ work'[w].msg = work[w].msg
Read(w) ==
    LET c == RoleOf[w]
    IN offset[c] < Len(log[SourceOf(c)]) /\ work'[w].msg = log[SourceOf(c)][offset[c] + 1]
HandMoves(w) == work'[w] = NoWork \/ Kept(w) \/ Read(w)

\* Only what is in hand is passed on.
Passes(t) ==
    \/ log'[t] = log[t]
    \/ \E w \in Handlers : work[w] # NoWork /\ log'[t] = log[t] \o <<work[w].msg>>

HandsMove ==
    /\ \A w \in Handlers : HandMoves(w)
    /\ Passes("validated") /\ Passes("deduped")

LEMMA JobMoves ==
    ASSUME ShapeOK, NEW w \in Workers, work[w] # NoWork,
           \/ Drop(w) \/ Done(w) \/ Failed(w) \/ Retry(w) \/ Bury(w)
           \/ \E step \in WorkSteps : Goto(w, step)
    PROVE  Others(w) /\ HandMoves(w)
  <1>1. /\ work[w] \in Jobs /\ Others(w)
        /\ work[w].attempt \in 1..MaxAttempts /\ MaxAttempts \in Nat
    BY ConsumerAssumption DEF ShapeOK, Jobs, Drop, Done, Failed, Retry, Bury, Goto, Others
  <1>2. CASE Drop(w) \/ (Done(w) /\ ForwardTo(RoleOf[w]) = "none")
    <2>1. work' = [work EXCEPT ![w] = NoWork]
      BY <1>2 DEF Drop, Done
    <2>2. QED
      BY <1>1, <2>1 DEF HandMoves, ShapeOK
  <1>3. CASE \/ Bury(w) \/ (\E step \in WorkSteps : Goto(w, step))
             \/ (Done(w) /\ ForwardTo(RoleOf[w]) # "none")
             \/ (Failed(w) /\ RoleOf[w] = "validator")
    <2>1. PICK step \in WorkSteps : Goto(w, step)
      BY <1>3 DEF Bury, Done, Failed, WorkSteps
    <2>2. QED
      BY <1>1, <2>1, GotoShape DEF HandMoves, Kept
  <1>4. CASE Retry(w) \/ (Failed(w) /\ RoleOf[w] # "validator")
    <2>1. work'[w].msg = work[w].msg
      BY <1>1, <1>4 DEF Failed, Retry, ShapeOK, Jobs
    <2>2. QED
      BY <1>1, <2>1 DEF HandMoves, Kept
  <1>5. QED
    BY <1>2, <1>3, <1>4

\* One worker acts, the others hold what they held.
LEMMA OneHandMoves ==
    ASSUME NEW w \in Handlers, Others(w), HandMoves(w), \A v \in Handlers : v \in Workers,
           \A t \in {"validated", "deduped"} :
               \/ log'[t] = log[t]
               \/ work[w] # NoWork /\ log'[t] = log[t] \o <<work[w].msg>>
    PROVE  HandsMove
  <1>1. \A v \in Handlers \ {w} : HandMoves(v)
    BY DEF Others, HandMoves, Kept
  <1>2. Passes("validated") /\ Passes("deduped")
    BY DEF Passes
  <1>3. QED
    BY <1>1, <1>2 DEF HandsMove

LEMMA HandsMoveStep ==
    ASSUME DedupInv, [DedupNext \/ Elsewhere]_vars
    PROVE  HandsMove
  <1>1. ShapeOK /\ \A w \in Handlers : w \in Workers
    BY DEF DedupInv, IInv, Handlers, Validators, Dedupers
  <1>2. ASSUME NEW w \in Handlers, ReadMessage(w)
        PROVE  HandsMove
    <2>1. Others(w) /\ log' = log
      BY <1>1, <1>2, ReadShape DEF DedupInv, ReadMessage, Handlers
    <2>2. Read(w)
      BY <1>1, <1>2 DEF ReadMessage, Read, ShapeOK
    <2>3. QED
      BY <1>1, <2>1, <2>2, OneHandMoves DEF HandMoves
  <1>12. ASSUME NEW w \in Handlers, ReadMessageFails(w)
         PROVE  HandsMove
    <2>1. Others(w) /\ log' = log /\ work'[w] = NoWork
      BY <1>12 DEF ReadMessageFails, Others
    <2>2. QED
      BY <1>1, <2>1, OneHandMoves DEF HandMoves
  <1>3. ASSUME NEW w \in Handlers, work[w] # NoWork, Forward(w) \/ ForwardFails(w)
        PROVE  HandsMove
    <2>1. work[w].msg \in Messages /\ <<work[w].msg>> \in Seq(Messages)
          /\ ForwardTo(RoleOf[w]) \in {"validated", "deduped"}
      BY <1>1, <1>3 DEF ShapeOK, Jobs, Handlers, Validators, Dedupers, ForwardTo
    <2>2. Others(w) /\ HandMoves(w)
      BY <1>1, <1>3, JobMoves DEF Forward, ForwardFails, Drop
    <2>3. \A t \in {"validated", "deduped"} :
             log'[t] = log[t] \/ log'[t] = log[t] \o <<work[w].msg>>
      <3>1. /\ "validated" \in Topics /\ "deduped" \in Topics
        BY DEF Topics
      <3>2. QED
        BY <1>1, <1>3, <2>1, <3>1, WriteShape, WriteFailsShape DEF Forward, ForwardFails
    <2>4. QED
      BY <1>1, <1>3, <2>2, <2>3, OneHandMoves
  <1>4. ASSUME NEW w \in Handlers, work[w] # NoWork, SendDLQ(w) \/ SendDLQFails(w)
        PROVE  HandsMove
    <2>1. work[w].msg \in Messages /\ <<work[w].msg>> \in Seq(Messages)
      BY <1>1, <1>4 DEF ShapeOK, Jobs
    <2>2. Others(w) /\ HandMoves(w)
      BY <1>1, <1>4, JobMoves DEF SendDLQ, SendDLQFails, Drop
    <2>3. log'["validated"] = log["validated"] /\ log'["deduped"] = log["deduped"]
      <3>1. "dlq" \in Topics /\ "validated" \in Topics /\ "deduped" \in Topics
        BY DEF Topics
      <3>2. QED
        BY <1>1, <1>4, <2>1, <3>1, WriteShape DEF SendDLQ, SendDLQFails
    <2>4. QED
      BY <1>1, <2>2, <2>3, OneHandMoves
  <1>5. ASSUME NEW w \in Handlers, work[w] # NoWork, log' = log,
               \/ Drop(w) \/ Done(w) \/ Retry(w) \/ Bury(w)
               \/ \E step \in WorkSteps : Goto(w, step)
        PROVE  HandsMove
    BY <1>1, <1>5, JobMoves, OneHandMoves
  <1>6. ASSUME NEW w \in Handlers, LoopStep(w)
        PROVE  HandsMove
    BY <1>2, <1>3, <1>4, <1>6, <1>12 DEF LoopStep, Forward, SendDLQ, SendDLQFails, Busy
  <1>7. ASSUME NEW w \in Validators, Validate(w) \/ ForwardFails(w)
        PROVE  HandsMove
    BY <1>3, <1>5, <1>7 DEF Validate, ForwardFails, Busy, Handlers
  <1>8. ASSUME NEW w \in Dedupers, DedupStep(w)
        PROVE  HandsMove
    <2>1. CASE SeenOrMark(w) \/ Exists(w) \/ Insert(w) \/ DedupFails(w)
      <3>1. /\ work[w] # NoWork /\ log' = log
            /\ \/ Drop(w) \/ Done(w) \/ Retry(w)
               \/ \E step \in WorkSteps : Goto(w, step)
        BY <2>1 DEF SeenOrMark, Exists, Insert, DedupFails, Busy, WorkSteps, HandlerSteps
      <3>2. QED
        BY <1>5, <3>1 DEF Handlers
    <2>2. CASE DedupForwardFails(w)
      BY <1>3, <2>2 DEF DedupForwardFails, ForwardFails, Busy, Handlers
    <2>3. CASE ReplicaDies(w)
      BY <1>5, <2>3 DEF ReplicaDies, Drop, Handlers
    <2>4. QED
      BY <1>8, <2>1, <2>2, <2>3 DEF DedupStep
  <1>9. CASE DedupCrash
    BY <1>1, <1>9 DEF DedupCrash, ConsumersDie, HandsMove, HandMoves, Passes
  <1>10. CASE Elsewhere \/ UNCHANGED vars
    BY <1>10 DEF Elsewhere, vars, topicVars, consumerVars, HandsMove, HandMoves, Kept, Passes,
       Handlers
  <1>11. QED
    BY <1>6, <1>7, <1>8, <1>9, <1>10 DEF DedupNext, Handlers

LEMMA HandsFromTopicsStep ==
    ASSUME DedupInv, HandsFromTopics, HandsMove, Appended
    PROVE  HandsFromTopics'
  <1>1. /\ log \in [Topics -> Seq(Messages)] /\ "events" \in Topics /\ "validated" \in Topics
        /\ offset["validator"] \in Nat /\ offset["dedup"] \in Nat
        /\ SourceOf("validator") = "events" /\ SourceOf("dedup") = "validated"
    BY DEF DedupInv, IInv, ShapeOK, Topics, Readers, SourceOf
  <1>2. /\ IdsIn(log["events"]) \subseteq IdsIn(log'["events"])
        /\ IdsIn(log["validated"]) \subseteq IdsIn(log'["validated"])
    BY <1>1, AppendedKeeps
  <1>3. ASSUME NEW t \in Topics, NEW n \in Nat, n < Len(log[t])
        PROVE  log[t][n + 1].id \in IdsIn(log[t])
    <2>1. log[t] \in Seq(Messages) /\ n + 1 \in 1..Len(log[t])
      BY <1>1, <1>3
    <2>2. QED
      BY <2>1 DEF IdsIn, ToSet
  <1>4. ASSUME NEW w \in Validators, work'[w] # NoWork
        PROVE  work'[w].msg.id \in IdsIn(log'["events"])
    <2>1. Kept(w) \/ Read(w)
      BY <1>4 DEF HandsMove, HandMoves, Handlers
    <2>2. QED
      BY <1>1, <1>2, <1>3, <2>1 DEF Kept, Read, Validators, HandsFromTopics, Id
  <1>5. ASSUME NEW w \in Dedupers, work'[w] # NoWork
        PROVE  work'[w].msg.id \in IdsIn(log'["validated"])
    <2>1. Kept(w) \/ Read(w)
      BY <1>5 DEF HandsMove, HandMoves, Handlers
    <2>2. QED
      BY <1>1, <1>2, <1>3, <2>1 DEF Kept, Read, Dedupers, HandsFromTopics, Id
  <1>6. QED
    BY <1>4, <1>5 DEF HandsFromTopics, Id

\* A validator or a deduplicator never holds a message that was not read from
\* its own topic, through every crash, restart and rebalance of its group.
THEOREM HandsHoldTopics == DedupSpec => []HandsFromTopics
  <1>1. DedupSpec => HandsFromTopics
    <2>1. SUFFICES ASSUME DedupSpec PROVE HandsFromTopics
      OBVIOUS
    <2>2. work = [w \in Workers |-> NoWork]
      BY <2>1 DEF DedupSpec, ConsumerInit
    <2>3. QED
      BY <2>2 DEF HandsFromTopics, Validators, Dedupers
  <1>2. DedupInv /\ HandsFromTopics /\ [DedupNext \/ Elsewhere]_vars => HandsFromTopics'
    BY HandsMoveStep, DedupStepAppends, HandsFromTopicsStep
  <1>3. QED
    BY <1>1, <1>2, DedupInvariant, PTL DEF DedupSpec, vars

\* What was let go stays on record.
LEMMA RecordKept ==
    ASSUME [DedupNext \/ Elsewhere]_vars
    PROVE  silenced \subseteq silenced' /\ lost \subseteq lost'
  BY DEF DedupNext, Elsewhere, Validate, ForwardFails, DedupStep, SeenOrMark, Exists, Insert,
         DedupFails, DedupForwardFails, ReplicaDies, LoopStep, ReadMessage, ReadMessageFails,
         Forward, SendDLQ,
         SendDLQFails, DedupCrash, ConsumersDie, DedupersDie, dedupVars, consumerVars, vars
=============================================================================
