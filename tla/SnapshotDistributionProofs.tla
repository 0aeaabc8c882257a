--------------------- MODULE SnapshotDistributionProofs ---------------------
(***************************************************************************)
(* Safety of the distribution of snapshots, for any number of runtimes and *)
(* faults and any capacity of the request channel.                         *)
(***************************************************************************)
EXTENDS SnapshotDistribution, TLAPS

\* The steps of a runtime leave the panel, Redis and the topic alone.
RuntimeStep ==
    \E r \in Runtimes :
        \/ PollRevision(r)
        \/ MissKey(r)
        \/ ReadMessage(r)
        \/ RestartRuntime(r)
        \/ \E g \in Sources : Goroutine(r, g) \/ FetchFails(r, g)

LEMMA RuntimeKeepsStores ==
    ASSUME RuntimeStep
    PROVE  UNCHANGED <<panel, stores>>
  BY DEF RuntimeStep, PollRevision, MissKey, ReadMessage, RestartRuntime, Goroutine,
         FetchFails, Fetch, Check, StoreFlags, StoreExps, StoreRev, Run

-----------------------------------------------------------------------------
(* Type correctness.                                                       *)

LEMMA SnapshotFields ==
    ASSUME NEW s \in Snapshots
    PROVE  /\ s.flags \in 0..MaxChanges
           /\ s.exps \in 0..MaxChanges
           /\ s.rev \in 0..MaxRevision /\ s.rev \in Nat
           /\ \A n \in 0..MaxChanges : /\ [s EXCEPT !.flags = n] \in Snapshots
                                       /\ [s EXCEPT !.exps = n] \in Snapshots
           /\ \A n \in 0..MaxRevision : [s EXCEPT !.rev = n] \in Snapshots
           /\ \A n \in 0..MaxChanges, v \in 0..MaxRevision :
                  [s EXCEPT !.exps = n, !.rev = v] \in Snapshots
  <1>1. s.rev \in 0..MaxRevision
    BY DEF Snapshots
  <1>2. s.rev \in Nat
    BY <1>1, DistributionAssumption
  <1>3. QED
    BY <1>2 DEF Snapshots

LEMMA EmptySnapshot == NoSnapshot \in Snapshots /\ NoSnapshot.rev = 0
  BY DistributionAssumption DEF NoSnapshot, Snapshots

Jobs == [step : JobSteps, snap : Snapshots]

LEMMA JobTypes ==
    /\ Idle \in Jobs /\ Idle.snap = NoSnapshot
    /\ \A step \in JobSteps : /\ [Idle EXCEPT !.step = step] \in Jobs
                              /\ [Idle EXCEPT !.step = step].snap = NoSnapshot
    /\ \A j \in Jobs, step \in JobSteps :
           /\ [j EXCEPT !.step = step] \in Jobs
           /\ [j EXCEPT !.step = step].snap = j.snap
    /\ \A step \in JobSteps, s \in Snapshots : [step |-> step, snap |-> s] \in Jobs
  BY EmptySnapshot DEF Jobs, Idle, JobSteps

\* A goroutine's record stays one when it moves to the job j.
LEMMA RunType ==
    ASSUME TypeOK, NEW r \in Runtimes, NEW g \in Sources, NEW j \in Jobs, Run(r, g, j)
    PROVE  job' \in [Runtimes -> [Sources -> Jobs]]
  BY DEF Run, TypeOK, Jobs

LEMMA WorkerFields ==
    ASSUME TypeOK
    PROVE  worker.snap \in Snapshots /\ worker.step \in WorkerSteps
  BY DEF TypeOK

LEMMA AdvanceType ==
    ASSUME TypeOK, NEW step \in WorkerSteps \ {"idle"}, NEW snap \in Snapshots,
           Advance(step, snap)
    PROVE  /\ worker' \in [step : WorkerSteps, snap : Snapshots, ok : BOOLEAN]
           /\ serving' \in BOOLEAN
           /\ UNCHANGED <<db, unnotified, queue, mem, job, faults>>
  <1>1. After(step) \in WorkerSteps
    BY DEF After, WorkerSteps
  <1>2. worker' \in [step : WorkerSteps, snap : Snapshots, ok : BOOLEAN]
    BY <1>1, EmptySnapshot DEF Advance
  <1>3. serving' \in BOOLEAN
    BY DEF Advance
  <1>4. QED
    BY <1>2, <1>3 DEF Advance

LEMMA WorkerType ==
    ASSUME TypeOK, ListFlags \/ ListExperiments \/ StorePayload \/ StoreRevision \/ Publish
    PROVE  TypeOK'
  <1>1. CASE ListFlags
    <2>1. [worker.snap EXCEPT !.flags = db.flags] \in Snapshots
      BY WorkerFields, SnapshotFields DEF TypeOK, Tables
    <2>2. QED
      BY <1>1, <2>1, AdvanceType DEF ListFlags, TypeOK, WorkerSteps, stores
  <1>2. CASE ListExperiments
    <2>1. clock + 1 \in 0..MaxRevision
      BY <1>2, DistributionAssumption DEF ListExperiments, TypeOK
    <2>2. [worker.snap EXCEPT !.exps = db.exps, !.rev = clock + 1] \in Snapshots
      BY <2>1, WorkerFields, SnapshotFields DEF TypeOK, Tables
    <2>3. QED
      BY <1>2, <2>1, <2>2, AdvanceType DEF ListExperiments, TypeOK, WorkerSteps, stores
  <1>3. CASE StorePayload
    BY <1>3, WorkerFields, AdvanceType DEF StorePayload, TypeOK, WorkerSteps
  <1>4. CASE StoreRevision
    BY <1>4, WorkerFields, SnapshotFields, AdvanceType DEF StoreRevision, TypeOK, WorkerSteps
  <1>5. CASE Publish
    BY <1>5, WorkerFields, AdvanceType DEF Publish, TypeOK, WorkerSteps
  <1>6. QED
    BY <1>1, <1>2, <1>3, <1>4, <1>5

LEMMA FaultType ==
    ASSUME TypeOK, Fault
    PROVE  faults' \in 0..MaxFaults
  BY DistributionAssumption DEF Fault, TypeOK

LEMMA RemainsType ==
    ASSUME TypeOK, Remains
    PROVE  payload' \in Snapshots /\ revKey' \in 0..MaxRevision /\ topic' \in SUBSET Snapshots
  BY WorkerFields, SnapshotFields DEF Remains, TypeOK, stores

LEMMA PanelType ==
    ASSUME TypeOK, Commit \/ Notify \/ Abandon \/ TakeRequest \/ RefreshFails \/ RestartPanel
    PROVE  TypeOK'
  <1>1. CASE Commit
    <2>1. PICK tables \in {{"flags"}, {"exps"}, {"flags", "exps"}} :
              /\ \A t \in tables : db[t] < MaxChanges
              /\ db' = [t \in DOMAIN db |-> IF t \in tables THEN db[t] + 1 ELSE db[t]]
      BY <1>1 DEF Commit
    <2>2. db' = [flags |-> IF "flags" \in tables THEN db.flags + 1 ELSE db.flags,
                 exps |-> IF "exps" \in tables THEN db.exps + 1 ELSE db.exps]
      BY <2>1 DEF TypeOK, Tables
    <2>3. db' \in Tables
      BY <2>1, <2>2, DistributionAssumption DEF TypeOK, Tables
    <2>4. QED
      BY <1>1, <2>3 DEF Commit, TypeOK, stores
  <1>2. CASE Notify
    BY <1>2, DistributionAssumption DEF Notify, TypeOK, stores
  <1>3. CASE Abandon
    BY <1>3, FaultType DEF Abandon, TypeOK, stores
  <1>4. CASE TakeRequest
    <2>1. worker' \in [step : WorkerSteps, snap : Snapshots, ok : BOOLEAN]
      BY <1>4 DEF TakeRequest, TypeOK, WorkerSteps
    <2>2. queue' \in 0..QueueCap
      BY <1>4, DistributionAssumption DEF TakeRequest, TypeOK
    <2>3. QED
      BY <1>4, <2>1, <2>2 DEF TakeRequest, TypeOK, stores
  <1>5. CASE RefreshFails
    <2>1. worker' \in [step : WorkerSteps, snap : Snapshots, ok : BOOLEAN]
      BY <1>5, EmptySnapshot DEF RefreshFails, WorkerSteps
    <2>2. payload' \in Snapshots /\ revKey' \in 0..MaxRevision /\ topic' \in SUBSET Snapshots
      BY <1>5, RemainsType DEF RefreshFails
    <2>3. QED
      BY <1>5, <2>1, <2>2, FaultType DEF RefreshFails, TypeOK
  <1>6. CASE RestartPanel
    <2>1. worker' \in [step : WorkerSteps, snap : Snapshots, ok : BOOLEAN]
      BY <1>6, EmptySnapshot DEF RestartPanel, WorkerSteps
    <2>2. queue' \in 0..QueueCap /\ unnotified' \in Nat
      BY <1>6, DistributionAssumption DEF RestartPanel
    <2>3. faults' \in 0..MaxFaults
      BY <1>6, FaultType DEF RestartPanel
    <2>4. QED
      BY <1>6, <2>1, <2>2, <2>3 DEF RestartPanel, TypeOK, stores
  <1>7. QED
    BY <1>1, <1>2, <1>3, <1>4, <1>5, <1>6

LEMMA RuntimeType ==
    ASSUME TypeOK, RuntimeStep
    PROVE  TypeOK'
  <1>1. PICK r \in Runtimes :
            \/ PollRevision(r)
            \/ MissKey(r)
            \/ ReadMessage(r)
            \/ RestartRuntime(r)
            \/ \E g \in Sources : Goroutine(r, g) \/ FetchFails(r, g)
    BY DEF RuntimeStep
  <1>2. /\ \A g \in Sources : /\ job[r][g] \in Jobs /\ job[r][g].snap \in Snapshots
                               /\ job[r][g].step \in JobSteps
        /\ mem[r] \in Snapshots
    BY DEF TypeOK, Jobs
  <1>3. payload \in Snapshots /\ topic \subseteq Snapshots
    BY DEF TypeOK
  <1>4. /\ db' \in Tables /\ unnotified' \in Nat /\ missed' \in BOOLEAN
        /\ queue' \in 0..QueueCap /\ serving' \in BOOLEAN
        /\ worker' \in [step : WorkerSteps, snap : Snapshots, ok : BOOLEAN]
        /\ clock' \in 0..MaxRevision /\ payload' \in Snapshots
        /\ revKey' \in 0..MaxRevision /\ topic' \in SUBSET Snapshots
    BY RuntimeKeepsStores DEF TypeOK, panel, stores
  <1>5. /\ mem' \in [Runtimes -> Snapshots]
        /\ job' \in [Runtimes -> [Sources -> Jobs]]
        /\ faults' \in 0..MaxFaults
    <2>1. CASE PollRevision(r) \/ MissKey(r)
      <3>1. PICK g \in Sources : Run(r, g, [Idle EXCEPT !.step = "fetch"])
        BY <2>1 DEF PollRevision, MissKey, Sources
      <3>2. [Idle EXCEPT !.step = "fetch"] \in Jobs
        BY JobTypes DEF JobSteps
      <3>3. UNCHANGED <<mem, faults>>
        BY <2>1 DEF PollRevision, MissKey
      <3>4. QED
        BY <3>1, <3>2, <3>3, RunType DEF TypeOK
    <2>2. CASE ReadMessage(r)
      <3>1. PICK record \in topic : Run(r, "kafka", [step |-> "check", snap |-> record])
        BY <2>2 DEF ReadMessage
      <3>2. [step |-> "check", snap |-> record] \in Jobs
        BY <1>3, <3>1, JobTypes DEF JobSteps
      <3>3. UNCHANGED <<mem, faults>>
        BY <2>2 DEF ReadMessage
      <3>4. QED
        BY <3>1, <3>2, <3>3, RunType DEF TypeOK, Sources
    <2>3. CASE RestartRuntime(r)
      <3>1. mem' \in [Runtimes -> Snapshots]
        BY <2>3, <1>3, EmptySnapshot DEF RestartRuntime, TypeOK
      <3>2. job' \in [Runtimes -> [Sources -> Jobs]]
        BY <2>3, JobTypes DEF RestartRuntime, TypeOK, Jobs
      <3>3. QED
        BY <2>3, <3>1, <3>2, FaultType DEF RestartRuntime
    <2>4. ASSUME NEW g \in Sources, Fetch(r, g) \/ FetchFails(r, g) \/ Check(r, g)
          PROVE  /\ mem' = mem /\ faults' \in 0..MaxFaults
                 /\ job' \in [Runtimes -> [Sources -> Jobs]]
      <3>1. mem' = mem /\ faults' \in 0..MaxFaults
        BY <2>4, FaultType DEF Fetch, FetchFails, Check, TypeOK
      <3>2. PICK j \in Jobs : Run(r, g, j)
        <4>1. CASE Fetch(r, g)
          <5>1. [step |-> "check", snap |-> payload] \in Jobs
            BY <1>3, JobTypes DEF JobSteps
          <5>2. QED
            BY <4>1, <5>1, JobTypes DEF Fetch
        <4>2. CASE FetchFails(r, g)
          BY <4>2, JobTypes DEF FetchFails
        <4>3. CASE Check(r, g)
          <5>1. [job[r][g] EXCEPT !.step = "store_flags"] \in Jobs
            BY <1>2, JobTypes DEF JobSteps
          <5>2. QED
            BY <4>3, <5>1, JobTypes DEF Check
        <4>4. QED
          BY <2>4, <4>1, <4>2, <4>3
      <3>3. QED
        BY <3>1, <3>2, RunType
    <2>5. ASSUME NEW g \in Sources, StoreFlags(r, g) \/ StoreExps(r, g) \/ StoreRev(r, g)
          PROVE  /\ mem' \in [Runtimes -> Snapshots] /\ faults' = faults
                 /\ job' \in [Runtimes -> [Sources -> Jobs]]
      <3>. DEFINE j == job[r][g]
      <3>1. faults' = faults
        BY <2>5 DEF StoreFlags, StoreExps, StoreRev
      <3>2. mem' \in [Runtimes -> Snapshots]
        <4>1. /\ [mem[r] EXCEPT !.flags = j.snap.flags] \in Snapshots
              /\ [mem[r] EXCEPT !.exps = j.snap.exps] \in Snapshots
              /\ [mem[r] EXCEPT !.rev = j.snap.rev] \in Snapshots
          BY <1>2, SnapshotFields
        <4>2. \E s \in Snapshots : mem' = [mem EXCEPT ![r] = s]
          BY <2>5, <4>1 DEF StoreFlags, StoreExps, StoreRev
        <4>3. QED
          BY <4>2 DEF TypeOK
      <3>3. PICK k \in Jobs : Run(r, g, k)
        <4>1. /\ [j EXCEPT !.step = "store_exps"] \in Jobs
              /\ [j EXCEPT !.step = "store_rev"] \in Jobs
          BY <1>2, JobTypes DEF JobSteps
        <4>2. QED
          BY <2>5, <4>1, JobTypes DEF StoreFlags, StoreExps, StoreRev
      <3>4. QED
        BY <3>1, <3>2, <3>3, RunType
    <2>6. QED
      BY <1>1, <2>1, <2>2, <2>3, <2>4, <2>5 DEF Goroutine, TypeOK
  <1>6. QED
    BY <1>4, <1>5 DEF TypeOK, Jobs

LEMMA TypeInit == Init => TypeOK
  <1>. SUFFICES ASSUME Init PROVE TypeOK
    OBVIOUS
  <1>1. /\ db \in Tables /\ unnotified \in Nat /\ queue \in 0..QueueCap
        /\ clock \in 0..MaxRevision /\ revKey \in 0..MaxRevision
        /\ faults \in 0..MaxFaults
    BY DistributionAssumption DEF Init, Tables
  <1>2. /\ worker \in [step : WorkerSteps, snap : Snapshots, ok : BOOLEAN]
        /\ payload \in Snapshots /\ topic \in SUBSET Snapshots
        /\ mem \in [Runtimes -> Snapshots]
    BY EmptySnapshot DEF Init, WorkerSteps
  <1>3. job \in [Runtimes -> [Sources -> Jobs]]
    BY JobTypes DEF Init
  <1>4. QED
    BY <1>1, <1>2, <1>3 DEF Init, TypeOK, Jobs

LEMMA NextCases ==
    ASSUME Next
    PROVE  \/ Commit \/ Notify \/ Abandon \/ TakeRequest \/ RefreshFails \/ RestartPanel
           \/ ListFlags \/ ListExperiments \/ StorePayload \/ StoreRevision \/ Publish
           \/ RuntimeStep
  BY DEF Next, Refresher, RuntimeStep

LEMMA TypeStep == TypeOK /\ [Next]_vars => TypeOK'
  <1>1. ASSUME TypeOK, Next PROVE TypeOK'
    BY <1>1, NextCases, PanelType, WorkerType, RuntimeType
  <1>2. ASSUME TypeOK, UNCHANGED vars PROVE TypeOK'
    BY <1>2 DEF TypeOK, vars
  <1>3. QED
    BY <1>1, <1>2

\* Every reachable state of the panel, of the stores and of the runtimes is well typed.
THEOREM DistributionTypes == Spec => []TypeOK
  BY TypeInit, TypeStep, PTL DEF Spec
-----------------------------------------------------------------------------
(* Nothing is announced, published or served that Redis does not hold.     *)

\* A snapshot that is built is newer than what the two keys hold until it is
\* stored; from then on the revision key is not ahead of it.
WorkerInOrder ==
    /\ payload.rev <= clock
    /\ revKey <= clock
    /\ worker.step = "store_payload" =>
           /\ payload.rev <= worker.snap.rev
           /\ revKey < worker.snap.rev
           /\ worker.snap.rev <= clock
    /\ worker.step # "store_payload" => worker.snap.rev <= payload.rev
    /\ worker.step \in {"store_revision", "publish"} => revKey <= payload.rev

\* No copy of a snapshot, on its way or in a memory, is newer than the stored one.
CopiesStored ==
    /\ \A record \in topic : record.rev <= payload.rev
    /\ \A r \in Runtimes : mem[r].rev <= payload.rev
    /\ \A r \in Runtimes, g \in Sources : job[r][g].snap.rev <= payload.rev

StoredInv == TypeOK /\ WorkerInOrder /\ RevisionIsStored /\ CopiesStored

LEMMA StoredInit == Init => StoredInv
  <1>. SUFFICES ASSUME Init PROVE WorkerInOrder /\ RevisionIsStored /\ CopiesStored
    BY TypeInit DEF StoredInv
  <1>1. payload.rev = 0 /\ clock = 0 /\ revKey = 0
    BY EmptySnapshot DEF Init
  <1>2. WorkerInOrder /\ RevisionIsStored
    BY <1>1, EmptySnapshot DEF Init, WorkerInOrder, RevisionIsStored
  <1>3. CopiesStored
    BY <1>1, EmptySnapshot, JobTypes DEF Init, CopiesStored
  <1>4. QED
    BY <1>2, <1>3

\* The stored snapshot only gets newer: copies stay behind it.
LEMMA StoredWorker ==
    ASSUME StoredInv, ListFlags \/ ListExperiments \/ StorePayload \/ StoreRevision \/ Publish
    PROVE  StoredInv'
  <1>1. TypeOK' /\ TypeOK
    BY WorkerType DEF StoredInv
  <1>2. /\ payload \in Snapshots /\ payload' \in Snapshots /\ worker.snap \in Snapshots
        /\ \A record \in topic : record \in Snapshots
        /\ \A r \in Runtimes : mem[r] \in Snapshots
        /\ \A r \in Runtimes, g \in Sources : job[r][g].snap \in Snapshots
    BY <1>1 DEF TypeOK
  <1>3. /\ payload.rev \in Nat /\ payload'.rev \in Nat /\ worker.snap.rev \in Nat
        /\ clock \in Nat /\ revKey \in Nat
        /\ \A record \in topic : record.rev \in Nat
        /\ \A r \in Runtimes : mem[r].rev \in Nat
        /\ \A r \in Runtimes, g \in Sources : job[r][g].snap.rev \in Nat
    <2>1. clock \in Nat /\ revKey \in Nat
      BY <1>1, DistributionAssumption DEF TypeOK
    <2>2. QED
      BY <1>2, <2>1, SnapshotFields
  <1>4. mem' = mem /\ job' = job
    BY DEF ListFlags, ListExperiments, StorePayload, StoreRevision, Publish, Advance
  <1>5. CASE ListFlags
    <2>1. /\ worker.step = "list_flags" /\ worker'.step = "list_exps" /\ ~worker'.ok
          /\ worker'.snap = [worker.snap EXCEPT !.flags = db.flags]
          /\ UNCHANGED <<clock, stores>>
      BY <1>5 DEF ListFlags, Advance, After
    <2>2. worker'.snap.rev = worker.snap.rev
      BY <1>2, <2>1 DEF Snapshots
    <2>3. WorkerInOrder' /\ CopiesStored'
      BY <1>4, <2>1, <2>2 DEF StoredInv, WorkerInOrder, CopiesStored, stores
    <2>4. RevisionIsStored'
      BY <1>3, <2>1, <2>2 DEF StoredInv, WorkerInOrder, RevisionIsStored, stores
    <2>5. QED
      BY <1>1, <2>3, <2>4 DEF StoredInv
  <1>6. CASE ListExperiments
    <2>1. /\ worker'.step = "store_payload" /\ clock' = clock + 1 /\ ~worker'.ok
          /\ worker'.snap = [worker.snap EXCEPT !.exps = db.exps, !.rev = clock + 1]
          /\ UNCHANGED stores
      BY <1>6 DEF ListExperiments, Advance, After
    <2>2. worker'.snap.rev = clock + 1
      BY <1>2, <2>1 DEF Snapshots
    <2>3. QED
      BY <1>1, <1>3, <1>4, <2>1, <2>2
         DEF StoredInv, WorkerInOrder, RevisionIsStored, CopiesStored, stores
  <1>7. CASE StorePayload
    <2>1. /\ worker.step = "store_payload" /\ worker'.step = "store_revision"
          /\ worker'.snap = worker.snap /\ payload' = worker.snap
          /\ UNCHANGED <<clock, revKey, topic>>
      BY <1>7 DEF StorePayload, Advance, After
    <2>2. payload.rev <= payload'.rev /\ payload'.rev <= clock
      BY <2>1 DEF StoredInv, WorkerInOrder
    <2>3. CopiesStored'
      BY <1>3, <1>4, <2>1, <2>2 DEF StoredInv, CopiesStored
    <2>4. WorkerInOrder' /\ RevisionIsStored'
      BY <1>3, <2>1, <2>2 DEF StoredInv, WorkerInOrder, RevisionIsStored
    <2>5. QED
      BY <1>1, <2>3, <2>4 DEF StoredInv
  <1>8. CASE StoreRevision
    <2>1. /\ worker.step = "store_revision" /\ worker'.step = "publish"
          /\ worker'.snap = worker.snap /\ revKey' = worker.snap.rev
          /\ UNCHANGED <<clock, payload, topic>>
      BY <1>8 DEF StoreRevision, Advance, After
    <2>2. QED
      BY <1>1, <1>3, <1>4, <2>1 DEF StoredInv, WorkerInOrder, RevisionIsStored, CopiesStored
  <1>9. CASE Publish
    <2>1. /\ worker.step = "publish" /\ worker'.step = "idle"
          /\ worker'.snap = NoSnapshot /\ topic' = topic \cup {worker.snap}
          /\ UNCHANGED <<clock, payload, revKey>>
      BY <1>9 DEF Publish, Advance, After
    <2>2. QED
      BY <1>1, <1>3, <1>4, <2>1, EmptySnapshot DEF StoredInv, WorkerInOrder, RevisionIsStored, CopiesStored
  <1>10. QED
    BY <1>5, <1>6, <1>7, <1>8, <1>9

\* A refresh that fails leaves the payload at least as new, and no copy newer.
LEMMA StoredRefreshFails ==
    ASSUME StoredInv, RefreshFails
    PROVE  StoredInv'
  <1>1. TypeOK' /\ TypeOK
    BY PanelType DEF StoredInv
  <1>2. /\ payload.rev \in Nat /\ payload'.rev \in Nat /\ worker.snap.rev \in Nat
        /\ clock \in Nat /\ revKey \in Nat
        /\ \A record \in topic : record.rev \in Nat
        /\ \A r \in Runtimes : mem[r].rev \in Nat
        /\ \A r \in Runtimes, g \in Sources : job[r][g].snap.rev \in Nat
    <2>1. /\ payload \in Snapshots /\ payload' \in Snapshots /\ worker.snap \in Snapshots
          /\ \A record \in topic : record \in Snapshots
          /\ \A r \in Runtimes : mem[r] \in Snapshots
          /\ \A r \in Runtimes, g \in Sources : job[r][g].snap \in Snapshots
      BY <1>1 DEF TypeOK
    <2>2. clock \in Nat /\ revKey \in Nat
      BY <1>1, DistributionAssumption DEF TypeOK
    <2>3. QED
      BY <2>1, <2>2, SnapshotFields
  <1>3. /\ worker'.step = "idle" /\ worker'.snap.rev = 0 /\ ~worker'.ok
        /\ UNCHANGED <<clock, mem, job>>
    BY EmptySnapshot DEF RefreshFails
  <1>4. Remains
    BY DEF RefreshFails
  <1>5. payload.rev <= payload'.rev /\ payload'.rev <= clock /\ revKey' <= clock
    BY <1>2, <1>4 DEF Remains, stores, StoredInv, WorkerInOrder
  <1>6. revKey' \in Nat
    BY <1>2, <1>4 DEF Remains, stores
  <1>7. WorkerInOrder' /\ RevisionIsStored'
    BY <1>2, <1>3, <1>5, <1>6 DEF WorkerInOrder, RevisionIsStored
  <1>8. \A record \in topic' : record.rev <= payload'.rev
    BY <1>2, <1>4, <1>5 DEF Remains, stores, StoredInv, WorkerInOrder, CopiesStored
  <1>9. CopiesStored'
    BY <1>2, <1>3, <1>5, <1>8 DEF StoredInv, CopiesStored
  <1>10. QED
    BY <1>1, <1>7, <1>9 DEF StoredInv

LEMMA StoredPanel ==
    ASSUME StoredInv,
           Commit \/ Notify \/ Abandon \/ TakeRequest \/ RefreshFails \/ RestartPanel
    PROVE  StoredInv'
  <1>1. CASE RefreshFails
    BY <1>1, StoredRefreshFails
  <1>2. CASE Commit \/ Notify \/ Abandon \/ TakeRequest \/ RestartPanel
    <2>1. TypeOK' /\ TypeOK
      BY <1>2, PanelType DEF StoredInv
    <2>2. UNCHANGED <<clock, stores, mem, job>>
      BY <1>2 DEF Commit, Notify, Abandon, TakeRequest, RestartPanel
    <2>3. payload.rev \in Nat /\ revKey \in Nat
      <3>1. payload \in Snapshots /\ revKey \in Nat
        BY <2>1, DistributionAssumption DEF TypeOK
      <3>2. QED
        BY <3>1, SnapshotFields
    <2>4. \/ worker' = worker
          \/ /\ worker'.step = "list_flags" /\ ~worker'.ok
             /\ worker'.snap = NoSnapshot \/ (worker'.snap = worker.snap /\ worker.step = "idle")
      <3>1. CASE TakeRequest
        BY <2>1, <3>1 DEF TakeRequest, TypeOK
      <3>2. CASE RestartPanel
        BY <3>2 DEF RestartPanel
      <3>3. CASE Commit \/ Notify \/ Abandon
        BY <3>3 DEF Commit, Notify, Abandon
      <3>4. QED
        BY <1>2, <3>1, <3>2, <3>3
    <2>5. WorkerInOrder' /\ CopiesStored'
      BY <2>2, <2>3, <2>4, EmptySnapshot DEF StoredInv, WorkerInOrder, CopiesStored, stores
    <2>6. RevisionIsStored'
      BY <2>2, <2>3, <2>4, EmptySnapshot
         DEF StoredInv, WorkerInOrder, RevisionIsStored, stores
    <2>7. QED
      BY <2>1, <2>5, <2>6 DEF StoredInv
  <1>3. QED
    BY <1>1, <1>2

\* What a goroutine fetches, reads or stores is a copy of a stored snapshot.
LEMMA StoredRuntime ==
    ASSUME StoredInv, RuntimeStep
    PROVE  StoredInv'
  <1>1. TypeOK' /\ TypeOK
    BY RuntimeType DEF StoredInv
  <1>2. UNCHANGED <<panel, stores>>
    BY RuntimeKeepsStores
  <1>3. payload.rev \in Nat /\ NoSnapshot.rev <= payload.rev
    <2>1. payload \in Snapshots
      BY <1>1 DEF TypeOK
    <2>2. payload.rev \in Nat
      BY <2>1, SnapshotFields
    <2>3. QED
      BY <2>2, EmptySnapshot
  <1>4. PICK r \in Runtimes :
            \/ PollRevision(r)
            \/ MissKey(r)
            \/ ReadMessage(r)
            \/ RestartRuntime(r)
            \/ \E g \in Sources : Goroutine(r, g) \/ FetchFails(r, g)
    BY DEF RuntimeStep
  <1>5. ASSUME NEW g \in Sources, NEW j, Run(r, g, j), j.snap.rev <= payload.rev
        PROVE  \A q \in Runtimes, h \in Sources : job'[q][h].snap.rev <= payload.rev
    BY <1>1, <1>5 DEF Run, TypeOK, StoredInv, CopiesStored
  <1>6. /\ \A q \in Runtimes, h \in Sources : job'[q][h].snap.rev <= payload.rev
        /\ \A q \in Runtimes : mem'[q].rev <= payload.rev
    <2>1. CASE PollRevision(r) \/ MissKey(r)
      <3>1. PICK g \in Sources : Run(r, g, [Idle EXCEPT !.step = "fetch"])
        BY <2>1 DEF PollRevision, MissKey, Sources
      <3>2. [Idle EXCEPT !.step = "fetch"].snap.rev <= payload.rev
        BY <1>3, JobTypes DEF JobSteps
      <3>3. mem' = mem
        BY <2>1 DEF PollRevision, MissKey
      <3>4. QED
        BY <1>5, <3>1, <3>2, <3>3 DEF StoredInv, CopiesStored
    <2>2. CASE ReadMessage(r)
      <3>1. PICK record \in topic : Run(r, "kafka", [step |-> "check", snap |-> record])
        BY <2>2 DEF ReadMessage
      <3>2. mem' = mem /\ record.rev <= payload.rev
        BY <2>2, <3>1 DEF ReadMessage, StoredInv, CopiesStored
      <3>3. QED
        BY <1>5, <3>1, <3>2 DEF StoredInv, CopiesStored, Sources
    <2>3. CASE RestartRuntime(r)
      <3>1. PICK s \in {payload, NoSnapshot} : mem' = [mem EXCEPT ![r] = s]
        BY <2>3 DEF RestartRuntime
      <3>2. s.rev <= payload.rev
        BY <1>3, <3>1
      <3>3. job' = [job EXCEPT ![r] = [g \in Sources |-> Idle]]
        BY <2>3 DEF RestartRuntime
      <3>4. Idle.snap.rev <= payload.rev
        BY <1>3, JobTypes
      <3>5. QED
        BY <1>1, <3>1, <3>2, <3>3, <3>4 DEF TypeOK, StoredInv, CopiesStored
    <2>4. ASSUME NEW g \in Sources, Fetch(r, g) \/ FetchFails(r, g) \/ Check(r, g)
          PROVE  <1>6!1 /\ <1>6!2
      <3>1. mem' = mem
        BY <2>4 DEF Fetch, FetchFails, Check
      <3>2. PICK j : Run(r, g, j) /\ j.snap.rev <= payload.rev
        <4>1. Idle.snap.rev <= payload.rev
          BY <1>3, JobTypes
        <4>2. [step |-> "check", snap |-> payload].snap.rev <= payload.rev
          BY <1>3
        <4>3. [job[r][g] EXCEPT !.step = "store_flags"].snap.rev <= payload.rev
          <5>1. job[r][g] \in Jobs /\ job[r][g].snap.rev <= payload.rev
            BY <1>1 DEF TypeOK, Jobs, StoredInv, CopiesStored
          <5>2. QED
            BY <5>1, JobTypes DEF JobSteps
        <4>4. QED
          BY <2>4, <4>1, <4>2, <4>3 DEF Fetch, FetchFails, Check
      <3>3. QED
        BY <1>5, <3>1, <3>2 DEF StoredInv, CopiesStored
    <2>5. ASSUME NEW g \in Sources, StoreFlags(r, g) \/ StoreExps(r, g) \/ StoreRev(r, g)
          PROVE  <1>6!1 /\ <1>6!2
      <3>. DEFINE j == job[r][g]
      <3>1. j \in Jobs /\ mem[r] \in Snapshots /\ j.snap.rev <= payload.rev
        BY <1>1 DEF TypeOK, Jobs, StoredInv, CopiesStored
      <3>2. PICK k : Run(r, g, k) /\ k.snap.rev <= payload.rev
        <4>1. /\ [j EXCEPT !.step = "store_exps"].snap.rev <= payload.rev
              /\ [j EXCEPT !.step = "store_rev"].snap.rev <= payload.rev
          BY <3>1, JobTypes DEF JobSteps
        <4>2. Idle.snap.rev <= payload.rev
          BY <1>3, JobTypes
        <4>3. QED
          BY <2>5, <4>1, <4>2 DEF StoreFlags, StoreExps, StoreRev
      <3>3. PICK s : mem' = [mem EXCEPT ![r] = s] /\ s.rev <= payload.rev
        <4>1. /\ [mem[r] EXCEPT !.flags = j.snap.flags].rev = mem[r].rev
              /\ [mem[r] EXCEPT !.exps = j.snap.exps].rev = mem[r].rev
              /\ [mem[r] EXCEPT !.rev = j.snap.rev].rev = j.snap.rev
          BY <3>1 DEF Snapshots
        <4>2. mem[r].rev <= payload.rev
          BY DEF StoredInv, CopiesStored
        <4>3. QED
          BY <2>5, <3>1, <4>1, <4>2 DEF StoreFlags, StoreExps, StoreRev
      <3>4. QED
        BY <1>1, <1>5, <3>2, <3>3 DEF TypeOK, StoredInv, CopiesStored
    <2>6. QED
      BY <1>4, <2>1, <2>2, <2>3, <2>4, <2>5 DEF Goroutine
  <1>7. QED
    BY <1>1, <1>2, <1>6
       DEF StoredInv, WorkerInOrder, RevisionIsStored, CopiesStored, panel, stores

LEMMA StoredStep == StoredInv /\ [Next]_vars => StoredInv'
  <1>1. ASSUME StoredInv, Next PROVE StoredInv'
    BY <1>1, NextCases, StoredPanel, StoredWorker, StoredRuntime
  <1>2. ASSUME StoredInv, UNCHANGED vars PROVE StoredInv'
    BY <1>2 DEF StoredInv, TypeOK, WorkerInOrder, RevisionIsStored, CopiesStored, vars
  <1>3. QED
    BY <1>1, <1>2

\* Through failures and restarts, the revision key is ahead of the stored
\* snapshot only after a refresh whose pipeline failed half-way, until the next
\* refresh that succeeds.
THEOREM RevisionStored == Spec => []RevisionIsStored
  <1>1. StoredInv => RevisionIsStored
    BY DEF StoredInv
  <1>2. QED
    BY <1>1, StoredInit, StoredStep, PTL DEF Spec

\* However many runtimes, polls, deliveries and requests race, no runtime
\* serves a revision that Redis has not held.
THEOREM MemoryStored == Spec => []MemoryIsStored
  <1>1. StoredInv => MemoryIsStored
    BY DEF StoredInv, CopiesStored, MemoryIsStored
  <1>2. QED
    BY <1>1, StoredInit, StoredStep, PTL DEF Spec
-----------------------------------------------------------------------------
(* The last refresh comes after the last change.                           *)

\* No committed change waits for a refresh that has yet to start.
Requested == unnotified = 0 /\ ~missed /\ queue = 0

\* Once every change is requested and taken, what the worker has read, and what
\* it has stored, is what the database holds.
ReadsCurrent ==
    Requested =>
        /\ worker.step \in {"list_exps", "store_payload"} => worker.snap.flags = db.flags
        /\ worker.step = "store_payload" => worker.snap.exps = db.exps
        /\ (worker.step \in {"store_revision", "publish"}
               \/ (worker.step = "idle" /\ worker.ok))
                  => payload.flags = db.flags /\ payload.exps = db.exps

CurrentInv == TypeOK /\ ReadsCurrent

LEMMA CurrentWorker ==
    ASSUME CurrentInv, ListFlags \/ ListExperiments \/ StorePayload \/ StoreRevision \/ Publish
    PROVE  ReadsCurrent'
  <1>1. worker.snap \in Snapshots
    BY DEF CurrentInv, TypeOK
  <1>2. UNCHANGED <<db, unnotified, queue>>
    BY DEF ListFlags, ListExperiments, StorePayload, StoreRevision, Publish, Advance
  <1>3. CASE ListFlags
    <2>1. /\ worker'.step = "list_exps"
          /\ worker'.snap = [worker.snap EXCEPT !.flags = db.flags]
      BY <1>3 DEF ListFlags, Advance, After
    <2>2. worker'.snap.flags = db.flags
      BY <1>1, <2>1 DEF Snapshots
    <2>3. QED
      BY <1>2, <2>1, <2>2 DEF ReadsCurrent
  <1>4. CASE ListExperiments
    <2>1. /\ worker.step = "list_exps" /\ worker'.step = "store_payload"
          /\ worker'.snap = [worker.snap EXCEPT !.exps = db.exps, !.rev = clock + 1]
          /\ missed' = missed
      BY <1>4 DEF ListExperiments, Advance, After
    <2>2. worker'.snap.flags = worker.snap.flags /\ worker'.snap.exps = db.exps
      BY <1>1, <2>1 DEF Snapshots
    <2>3. QED
      BY <1>2, <2>1, <2>2 DEF CurrentInv, ReadsCurrent, Requested
  <1>5. CASE StorePayload
    <2>1. /\ worker.step = "store_payload" /\ worker'.step = "store_revision"
          /\ payload' = worker.snap /\ missed' = missed
      BY <1>5 DEF StorePayload, Advance, After
    <2>2. QED
      BY <1>2, <2>1 DEF CurrentInv, ReadsCurrent, Requested
  <1>6. CASE StoreRevision \/ Publish
    <2>1. /\ worker.step \in {"store_revision", "publish"}
          /\ worker'.step \in {"publish", "idle"}
          /\ payload' = payload /\ missed' = missed
      BY <1>6 DEF StoreRevision, Publish, Advance, After
    <2>2. QED
      BY <1>2, <2>1 DEF CurrentInv, ReadsCurrent, Requested
  <1>7. QED
    BY <1>3, <1>4, <1>5, <1>6

LEMMA CurrentPanel ==
    ASSUME CurrentInv,
           Commit \/ Notify \/ Abandon \/ TakeRequest \/ RefreshFails \/ RestartPanel
    PROVE  ReadsCurrent'
  <1>1. CASE Commit
    BY <1>1 DEF Commit, ReadsCurrent, Requested, CurrentInv, TypeOK
  <1>2. CASE Notify
    \* A request is dropped only when others are still in the channel.
    <2>1. queue' > 0
      BY <1>2, DistributionAssumption DEF Notify, CurrentInv, TypeOK
    <2>2. QED
      BY <2>1 DEF ReadsCurrent, Requested
  <1>3. CASE Abandon
    BY <1>3 DEF Abandon, ReadsCurrent, Requested
  <1>4. CASE TakeRequest
    <2>1. worker'.step = "list_flags"
      BY <1>4 DEF TakeRequest, CurrentInv, TypeOK
    <2>2. QED
      BY <2>1 DEF ReadsCurrent
  <1>5. CASE RefreshFails \/ RestartPanel
    <2>1. worker'.step \in {"idle", "list_flags"} /\ worker'.ok = FALSE
      BY <1>5 DEF RefreshFails, RestartPanel
    <2>2. QED
      BY <2>1 DEF ReadsCurrent
  <1>6. QED
    BY <1>1, <1>2, <1>3, <1>4, <1>5

LEMMA CurrentStep == CurrentInv /\ [Next]_vars => CurrentInv'
  <1>1. ASSUME CurrentInv, RuntimeStep \/ UNCHANGED vars PROVE ReadsCurrent'
    <2>1. UNCHANGED <<db, unnotified, missed, queue, worker, payload>>
      BY <1>1, RuntimeKeepsStores DEF panel, stores, vars
    <2>2. QED
      BY <1>1, <2>1 DEF CurrentInv, ReadsCurrent, Requested
  <1>2. ASSUME CurrentInv, [Next]_vars PROVE ReadsCurrent'
    BY <1>1, <1>2, NextCases, CurrentPanel, CurrentWorker
  <1>3. QED
    BY <1>2, TypeStep DEF CurrentInv

\* Whatever is dropped at a full channel, lost in a crash or read in between two
\* changes, a panel that has settled leaves the database in Redis.
THEOREM RedisSettled == Spec => []SettledRedis
  <1>1. Init => CurrentInv
    BY TypeInit DEF Init, CurrentInv, ReadsCurrent
  <1>2. CurrentInv => SettledRedis
    BY DEF CurrentInv, ReadsCurrent, Requested, SettledRedis, Settled
  <1>3. QED
    BY <1>1, <1>2, CurrentStep, PTL DEF Spec
=============================================================================
