------------------------ MODULE SnapshotDistribution ------------------------
(***************************************************************************)
(* How a committed change of a flag or an experiment reaches the runtimes: *)
(* the panel's refresher rebuilds the whole snapshot, writes it to two     *)
(* Redis keys and publishes it to Kafka; every runtime keeps a copy in     *)
(* memory that three kinds of goroutines replace - the revision poll, the  *)
(* Kafka subscription and the requests that miss a key.                    *)
(*                                                                         *)
(* The flags and the experiments of the database are counters of their     *)
(* changes, so a snapshot says which state of each table it carries.       *)
(* There is one panel process; its clock does not go backwards.            *)
(***************************************************************************)
EXTENDS Naturals

CONSTANTS
    Runtimes,     \* runtime processes, all in one Kafka consumer group
    QueueCap,     \* refreshBufferSize
    MaxChanges,   \* bound: changes of the flags and of the experiments table
    MaxRevision,  \* bound: snapshots built
    MaxFaults     \* bound: failed operations and crashes

ASSUME DistributionAssumption ==
    /\ QueueCap \in Nat \ {0}
    /\ MaxChanges \in Nat
    /\ MaxRevision \in Nat \ {0}
    /\ MaxFaults \in Nat

VARIABLES
    db,          \* the two tables: how often each has changed
    unnotified,  \* committed changes whose handler has not called Refresh yet
    missed,      \* a change was committed but Refresh was never called for it
    queue,       \* refresh requests in the channel
    serving,     \* the panel's bootstrap refresh has ended
    worker,      \* the refresh under way, and whether the last one succeeded
    clock,       \* the latest revision built
    payload,     \* labp:runtime:snapshot
    revKey,      \* labp:runtime:snapshot:rev
    topic,       \* the snapshots published to Kafka
    mem,         \* the snapshot in the memory of a runtime: flags, exps, rev
    job,         \* what each goroutine of a runtime is doing
    faults       \* failed operations and crashes so far

panel == <<db, unnotified, missed, queue, serving, worker, clock>>
stores == <<payload, revKey, topic>>
vars == <<db, unnotified, missed, queue, serving, worker, clock, payload,
          revKey, topic, mem, job, faults>>

Tables == [flags : 0..MaxChanges, exps : 0..MaxChanges]
Snapshots == [flags : 0..MaxChanges, exps : 0..MaxChanges, rev : 0..MaxRevision]
NoSnapshot == [flags |-> 0, exps |-> 0, rev |-> 0]

Sources == {"poll", "kafka", "miss"}
Idle == [step |-> "idle", snap |-> NoSnapshot]

WorkerSteps == {"idle", "list_flags", "list_exps", "store_payload",
                "store_revision", "publish"}
JobSteps == {"idle", "fetch", "check", "store_flags", "store_exps", "store_rev"}

\* The panel and a runtime start with Redis and the topic empty.
Init ==
    /\ db = [flags |-> 0, exps |-> 0]
    /\ unnotified = 0
    /\ missed = FALSE
    /\ queue = 0
    /\ serving = FALSE
    /\ worker = [step |-> "list_flags", snap |-> NoSnapshot, ok |-> FALSE]
    /\ clock = 0
    /\ payload = NoSnapshot
    /\ revKey = 0
    /\ topic = {}
    /\ mem = [r \in Runtimes |-> NoSnapshot]
    /\ job = [r \in Runtimes |-> [g \in Sources |-> Idle]]
    /\ faults = 0

Fault == faults < MaxFaults /\ faults' = faults + 1

-----------------------------------------------------------------------------
(* The panel: handlers that commit, and the refresher's worker.            *)

\* A handler commits a change of flags, of experiments, or of both (Complete
\* and the rollbacks move default_value and the status in one transaction).
Commit ==
    /\ serving
    /\ \E tables \in {{"flags"}, {"exps"}, {"flags", "exps"}} :
           /\ \A t \in tables : db[t] < MaxChanges
           /\ db' = [t \in DOMAIN db |-> IF t \in tables THEN db[t] + 1 ELSE db[t]]
    /\ unnotified' = unnotified + 1
    /\ UNCHANGED <<missed, queue, serving, worker, clock, stores, mem, job, faults>>

\* Mutant: an unbuffered channel, whose request is dropped while a refresh runs.
NotifyUnbuffered ==
    /\ unnotified > 0
    /\ unnotified' = unnotified - 1
    /\ queue' = IF queue = 0 /\ worker.step = "idle" THEN 1 ELSE queue
    /\ UNCHANGED <<db, missed, serving, worker, clock, stores, mem, job, faults>>

\* Mutant: an unbounded channel.
NotifyUnbounded ==
    /\ unnotified > 0
    /\ unnotified' = unnotified - 1
    /\ queue' = queue + 1
    /\ UNCHANGED <<db, missed, serving, worker, clock, stores, mem, job, faults>>

\* RefresherImpl.Refresh: a request is dropped when the channel is full.
Notify ==
    /\ unnotified > 0
    /\ unnotified' = unnotified - 1
    /\ queue' = IF queue < QueueCap THEN queue + 1 ELSE queue
    /\ UNCHANGED <<db, missed, serving, worker, clock, stores, mem, job, faults>>

\* Start, Pause, Resume and Flags.Update read the row again after the commit;
\* if that read fails (the client is gone, the database is) they return early.
Abandon ==
    /\ unnotified > 0
    /\ Fault
    /\ unnotified' = unnotified - 1
    /\ missed' = TRUE
    /\ UNCHANGED <<db, queue, serving, worker, clock, stores, mem, job>>

\* The worker receives from the channel and starts doRefresh.
TakeRequest ==
    /\ serving
    /\ worker.step = "idle"
    /\ queue > 0
    /\ clock < MaxRevision
    /\ queue' = queue - 1
    /\ worker' = [worker EXCEPT !.step = "list_flags", !.ok = FALSE]
    /\ UNCHANGED <<db, unnotified, missed, serving, clock, stores, mem, job, faults>>

\* Mutants of SetWithContext: the revision key is written before the snapshot;
\* the snapshot is published before it is stored.
RevisionFirst(step) ==
    CASE step = "list_flags" -> "list_exps"
      [] step = "list_exps" -> "store_revision"
      [] step = "store_revision" -> "store_payload"
      [] step = "store_payload" -> "publish"
      [] step = "publish" -> "idle"
PublishFirst(step) ==
    CASE step = "list_flags" -> "list_exps"
      [] step = "list_exps" -> "publish"
      [] step = "publish" -> "store_payload"
      [] step = "store_payload" -> "store_revision"
      [] step = "store_revision" -> "idle"

\* The order of doRefresh and of SetWithContext.
After(step) ==
    CASE step = "list_flags" -> "list_exps"
      [] step = "list_exps" -> "store_payload"
      [] step = "store_payload" -> "store_revision"
      [] step = "store_revision" -> "publish"
      [] step = "publish" -> "idle"

\* The worker ends a step with the snapshot snap; a completed bootstrap refresh
\* lets the panel serve.
Advance(step, snap) ==
    /\ worker.step = step
    /\ worker' = [step |-> After(step), ok |-> After(step) = "idle",
                  snap |-> IF After(step) = "idle" THEN NoSnapshot ELSE snap]
    /\ serving' = (serving \/ After(step) = "idle")
    /\ UNCHANGED <<db, unnotified, queue, mem, job, faults>>

ListFlags ==
    /\ Advance("list_flags", [worker.snap EXCEPT !.flags = db.flags])
    /\ missed' = FALSE
    /\ UNCHANGED <<clock, stores>>

\* ListExperiments, in a read of its own; then Build stamps the revision.
ListExperiments ==
    /\ clock < MaxRevision
    /\ clock' = clock + 1
    /\ Advance("list_exps", [worker.snap EXCEPT !.exps = db.exps, !.rev = clock + 1])
    /\ UNCHANGED <<missed, stores>>

StorePayload ==
    /\ Advance("store_payload", worker.snap)
    /\ payload' = worker.snap
    /\ UNCHANGED <<missed, clock, revKey, topic>>

StoreRevision ==
    /\ Advance("store_revision", worker.snap)
    /\ revKey' = worker.snap.rev
    /\ UNCHANGED <<missed, clock, payload, topic>>

Publish ==
    /\ Advance("publish", worker.snap)
    /\ topic' = topic \cup {worker.snap}
    /\ UNCHANGED <<missed, clock, payload, revKey>>

\* What a step that fails leaves in the stores: nothing, or what it was asked to
\* do when only the answer was lost.  The two SETs go out in one pipeline before
\* either is answered, so the revision may be set although the payload is not.
Remains ==
    \/ /\ worker.step \in {"list_flags", "list_exps"}
       /\ UNCHANGED stores
    \/ /\ worker.step = "store_payload"
       /\ payload' \in {payload, worker.snap}
       /\ revKey' \in {revKey, worker.snap.rev}
       /\ UNCHANGED topic
    \/ /\ worker.step = "store_revision"
       /\ revKey' \in {revKey, worker.snap.rev}
       /\ UNCHANGED <<payload, topic>>
    \/ /\ worker.step = "publish"
       /\ topic' \in {topic, topic \cup {worker.snap}}
       /\ UNCHANGED <<payload, revKey>>

\* A failed read or write, or the timeout of the refresh: the error is logged,
\* the request is not queued again.  The panel serves even if it was the bootstrap.
RefreshFails ==
    /\ worker.step # "idle"
    /\ Fault
    /\ Remains
    /\ worker' = [step |-> "idle", snap |-> NoSnapshot, ok |-> FALSE]
    /\ serving' = TRUE
    /\ UNCHANGED <<db, unnotified, missed, queue, clock, mem, job>>

\* A crash loses the channel and the handlers; the restarted panel refreshes
\* before it listens.
RestartPanel ==
    /\ Fault
    /\ unnotified' = 0
    /\ missed' = FALSE
    /\ queue' = 0
    /\ serving' = FALSE
    /\ worker' = [step |-> "list_flags", snap |-> NoSnapshot, ok |-> FALSE]
    /\ UNCHANGED <<db, clock, stores, mem, job>>

-----------------------------------------------------------------------------
(* A runtime: the goroutines of its Reader.                                *)

Run(r, g, j) == job' = [job EXCEPT ![r][g] = j]

\* revalidateOnce: the revision key has moved, so Refresh will run.
PollRevision(r) ==
    /\ job[r]["poll"].step = "idle"
    /\ revKey > mem[r].rev
    /\ Run(r, "poll", [Idle EXCEPT !.step = "fetch"])
    /\ UNCHANGED <<panel, stores, mem, faults>>

\* A request asks for a flag, or for an experiment of a flag, that the memory
\* does not hold: Refresh, whatever the revision.
MissKey(r) ==
    /\ job[r]["miss"].step = "idle"
    /\ Run(r, "miss", [Idle EXCEPT !.step = "fetch"])
    /\ UNCHANGED <<panel, stores, mem, faults>>

\* loadFromRedis; an absent key is an error.
Fetch(r, g) ==
    /\ job[r][g].step = "fetch"
    /\ Run(r, g, IF payload = NoSnapshot THEN Idle
                 ELSE [step |-> "check", snap |-> payload])
    /\ UNCHANGED <<panel, stores, mem, faults>>

FetchFails(r, g) ==
    /\ job[r][g].step = "fetch"
    /\ Fault
    /\ Run(r, g, Idle)
    /\ UNCHANGED <<panel, stores, mem>>

\* ReadMessage hands a record to one member of the group.  The group is
\* assigned late and starts at the log end, and a reassignment reads again what
\* was not committed: any record, once more or never.
ReadMessage(r) ==
    /\ job[r]["kafka"].step = "idle"
    /\ \E record \in topic : Run(r, "kafka", [step |-> "check", snap |-> record])
    /\ UNCHANGED <<panel, stores, mem, faults>>

\* Mutant: a snapshot of another revision is taken for a newer one.
OtherRevision(current, remote) == remote # current

\* newerRevision.
NewerRevision(current, remote) == remote > current

\* Refresh and applyRecord compare, then store.
Check(r, g) ==
    LET j == job[r][g] IN
    /\ j.step = "check"
    /\ Run(r, g, IF NewerRevision(mem[r].rev, j.snap.rev)
                 THEN [j EXCEPT !.step = "store_flags"] ELSE Idle)
    /\ UNCHANGED <<panel, stores, mem, faults>>

\* store: three atomics, each written on its own.
StoreFlags(r, g) ==
    LET j == job[r][g] IN
    /\ j.step = "store_flags"
    /\ mem' = [mem EXCEPT ![r].flags = j.snap.flags]
    /\ Run(r, g, [j EXCEPT !.step = "store_exps"])
    /\ UNCHANGED <<panel, stores, faults>>

StoreExps(r, g) ==
    LET j == job[r][g] IN
    /\ j.step = "store_exps"
    /\ mem' = [mem EXCEPT ![r].exps = j.snap.exps]
    /\ Run(r, g, [j EXCEPT !.step = "store_rev"])
    /\ UNCHANGED <<panel, stores, faults>>

StoreRev(r, g) ==
    LET j == job[r][g] IN
    /\ j.step = "store_rev"
    /\ mem' = [mem EXCEPT ![r].rev = j.snap.rev]
    /\ Run(r, g, Idle)
    /\ UNCHANGED <<panel, stores, faults>>

\* A crash; NewReader then loads the snapshot of Redis, or nothing.
RestartRuntime(r) ==
    /\ Fault
    /\ mem' \in {[mem EXCEPT ![r] = s] : s \in {payload, NoSnapshot}}
    /\ job' = [job EXCEPT ![r] = [g \in Sources |-> Idle]]
    /\ UNCHANGED <<panel, stores>>

-----------------------------------------------------------------------------
Refresher ==
    \/ TakeRequest
    \/ ListFlags
    \/ ListExperiments
    \/ StorePayload
    \/ StoreRevision
    \/ Publish

Goroutine(r, g) ==
    \/ Fetch(r, g)
    \/ Check(r, g)
    \/ StoreFlags(r, g)
    \/ StoreExps(r, g)
    \/ StoreRev(r, g)

Next ==
    \/ Commit
    \/ Notify
    \/ Abandon
    \/ Refresher
    \/ RefreshFails
    \/ RestartPanel
    \/ \E r \in Runtimes :
           \/ PollRevision(r)
           \/ MissKey(r)
           \/ ReadMessage(r)
           \/ RestartRuntime(r)
           \/ \E g \in Sources : Goroutine(r, g) \/ FetchFails(r, g)

Spec == Init /\ [][Next]_vars

\* The worker, a handler that has committed, the ticker of the poll and a
\* goroutine that runs all get their turn; Kafka and requests need not.
Fairness ==
    /\ WF_vars(Refresher)
    /\ WF_vars(Notify)
    /\ \A r \in Runtimes :
           /\ WF_vars(PollRevision(r))
           /\ \A g \in Sources : WF_vars(Goroutine(r, g))

FairSpec == Spec /\ Fairness

-----------------------------------------------------------------------------
(* Properties.                                                             *)

\* Every variable stays in its type.
TypeOK ==
    /\ db \in Tables
    /\ unnotified \in Nat
    /\ missed \in BOOLEAN
    /\ queue \in 0..QueueCap
    /\ serving \in BOOLEAN
    /\ worker \in [step : WorkerSteps, snap : Snapshots, ok : BOOLEAN]
    /\ clock \in 0..MaxRevision
    /\ payload \in Snapshots
    /\ revKey \in 0..MaxRevision
    /\ topic \in SUBSET Snapshots
    /\ mem \in [Runtimes -> Snapshots]
    /\ job \in [Runtimes -> [Sources -> [step : JobSteps, snap : Snapshots]]]
    /\ faults \in 0..MaxFaults

\* The panel has nothing left to publish: no committed change waits for its
\* refresh or lost it, every request was taken, and the last refresh succeeded.
Settled ==
    /\ serving
    /\ unnotified = 0
    /\ ~missed
    /\ queue = 0
    /\ worker.step = "idle"
    /\ worker.ok

\* Dropping a request when the channel is full, losing the channel in a crash
\* or reading the two tables at different moments never leaves an outdated or
\* mixed snapshot behind: the last refresh comes after the last change.
SettledRedis ==
    Settled => payload.flags = db.flags /\ payload.exps = db.exps

\* The revision key announces a snapshot that Redis does not hold only as the
\* remains of a refresh that failed half-way: no refresh under way put it there,
\* and none has succeeded since.
RevisionIsStored ==
    revKey > payload.rev => ~worker.ok /\ worker.snap.rev # revKey

\* "Redis is the source of truth, Kafka is the notification channel": no
\* runtime serves a revision that a restart could not load again.
MemoryIsStored == \A r \in Runtimes : mem[r].rev <= payload.rev

\* "The reader polls the cheap revision key ... and pulls the payload only when
\* the revision actually moved": without a single Kafka delivery, and even if a
\* slow goroutine puts an older revision back, every runtime ends up with the
\* revision that Redis announces, or with the one it holds when it announces one
\* that it does not hold.
RevisionConverges ==
    <>[](\A r \in Runtimes : mem[r].rev >= revKey \/ mem[r].rev >= payload.rev)

\* "Reader keeps the latest snapshot in memory": once a runtime is idle with
\* the revision of Redis, its flags and experiments are those of that revision.
WholeSnapshot ==
    \A r \in Runtimes :
        (/\ \A g \in Sources : job[r][g].step = "idle"
         /\ mem[r].rev = payload.rev)
            => mem[r] = payload
=============================================================================
