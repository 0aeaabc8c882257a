--------------------- MODULE ExperimentLifecycleProofs ---------------------
(***************************************************************************)
(* Theorems about the experiment aggregate, for every set of experiments,  *)
(* flags, users and requests and for every bound: its types, what the      *)
(* optimistic lock and the unique index guarantee, and that they implement *)
(* one lease per flag.                                                     *)
(***************************************************************************)
EXTENDS ExperimentLifecycleRefinement, TLAPS

-----------------------------------------------------------------------------
(* Type correctness.                                                       *)

\* Only an experiment that exists has a lock, a review and a current version.
RowExists ==
    \A e \in Experiments :
        IF status[e] = "none"
        THEN version[e] = 0 /\ \A n \in Versions : review[e][n] = "none"
        ELSE cur[e] \in Versions

\* What a request has seen is not ahead of the row's lock, whose value is v.  A
\* request that creates a version sends what it has seen, and has moved the lock
\* once itself when it is about to open a review.
Behind(r, v) ==
    /\ r.seen <= v
    /\ r.step = "create_version" => r.lock <= v
    /\ r.step = "open_review" => r.lock < v

\* A request in flight is about an experiment that exists, and has seen no later
\* version of it.
RequestsBehind ==
    \A c \in Requests :
        req[c].step \in Steps => /\ status[req[c].exp] # "none"
                                 /\ Behind(req[c], version[req[c].exp])

TypeInv == TypeOK /\ RowExists /\ RequestsBehind

\* A bound admits the small numbers the actions start from.
LEMMA Bounds ==
    ASSUME LifecycleAssumption
    PROVE  /\ {0, 1} \subseteq 0..MaxLock
           /\ {0, 1} \subseteq 0..MaxVersions
           /\ 1 \in Versions
           /\ Versions \subseteq 0..MaxVersions
  BY DEF LifecycleAssumption, Versions

\* A request in flight is told from an idle slot by its step.
LEMMA RequestTypes ==
    ASSUME LifecycleAssumption, TypeOK
    PROVE  /\ \A step \in Steps, e \in Experiments, u \in Users :
                  status[e] # "none" => Request(step, e, u) \in RequestRecords
           /\ \A c \in Requests :
                  req[c].step \in Steps => /\ req[c] \in RequestRecords
                                           /\ req[c].exp \in Experiments
                                           /\ req[c].user \in Users
  BY DEF LifecycleAssumption, TypeOK, Request, RequestRecords, Contents,
         Decisions, NoRequest, Steps, Existing

\* The edits handlers make to what they hold.
LEMMA EditTypes ==
    ASSUME NEW r \in RequestRecords
    PROVE  /\ \A ver \in 0..MaxVersions, content \in Contents :
                  [r EXCEPT !.ver = ver, !.content = content] \in RequestRecords
           /\ \A content \in Contents : [r EXCEPT !.content = content] \in RequestRecords
           /\ \A step \in Steps, lock \in 0..MaxLock :
                  [r EXCEPT !.step = step, !.lock = lock] \in RequestRecords
           /\ \A lock \in 0..MaxLock, ver \in 0..MaxVersions, to \in Existing :
                  [r EXCEPT !.lock = lock, !.ver = ver, !.to = to] \in RequestRecords
           /\ \A ver \in 0..MaxVersions : [r EXCEPT !.ver = ver] \in RequestRecords
           /\ \A step \in Steps : [r EXCEPT !.step = step] \in RequestRecords
           /\ \A lock \in 0..MaxLock, to \in Existing :
                  [r EXCEPT !.lock = lock, !.to = to] \in RequestRecords
           /\ \A lock \in 0..MaxLock, to \in Existing, guard \in {"keep", "set", "clear"} :
                  [r EXCEPT !.lock = lock, !.to = to, !.guard = guard] \in RequestRecords
           /\ \A step \in Steps, seen \in 0..MaxLock, from \in Existing,
                 guard \in {"keep", "set", "clear"} :
                  [r EXCEPT !.step = step, !.seen = seen, !.from = from, !.guard = guard]
                      \in RequestRecords
           /\ \A step \in Steps, seen \in 0..MaxLock, from \in Existing :
                  [r EXCEPT !.step = step, !.seen = seen, !.from = from] \in RequestRecords
           /\ \A step \in Steps, to \in Existing :
                  [r EXCEPT !.step = step, !.to = to] \in RequestRecords
           /\ \A lock \in 0..MaxLock, verdict \in Decisions :
                  [r EXCEPT !.lock = lock, !.verdict = verdict] \in RequestRecords
           /\ \A lock \in 0..MaxLock, ver \in 0..MaxVersions,
                 verdict \in {"approve", "request_changes", "reject"} :
                  [r EXCEPT !.lock = lock, !.ver = ver, !.verdict = verdict]
                      \in RequestRecords
  BY Zenon DEF RequestRecords

\* What a client sends, and the version a row has, are locks.
LEMMA SentTypes ==
    ASSUME LifecycleAssumption, TypeOK, NEW e \in Experiments
    PROVE  /\ Sent(e) \subseteq 0..MaxLock
           /\ version[e] \in 0..MaxLock
           /\ version[e] <= version[e]
  BY DEF LifecycleAssumption, TypeOK, Sent

\* Storing a record about an experiment that exists, or freeing the slot.
LEMMA HoldType ==
    ASSUME TypeOK, RequestsBehind, NEW c \in Requests,
           NEW r \in RequestRecords \cup {NoRequest}, Hold(c, r),
           r # NoRequest => status'[r.exp] # "none" /\ Behind(r, version'[r.exp]),
           version' \in [Experiments -> 0..MaxLock],
           \A e \in Experiments : /\ status'[e] = "none" => status[e] = "none"
                                  /\ version[e] <= version'[e]
    PROVE  /\ req' \in [Requests -> RequestRecords \cup {NoRequest}]
           /\ RequestsBehind'
  <1>1. req' \in [Requests -> RequestRecords \cup {NoRequest}]
    BY DEF TypeOK, Hold
  <1>2. ASSUME NEW d \in Requests, req'[d].step \in Steps
        PROVE  status'[req'[d].exp] # "none" /\ Behind(req'[d], version'[req'[d].exp])
    <2>1. CASE d = c
      BY <1>2, <2>1 DEF TypeOK, Hold, NoRequest, Steps
    <2>2. CASE d # c
      <3>1. req'[d] = req[d] /\ req[d] \in RequestRecords
        BY <1>2, <2>2 DEF TypeOK, Hold, NoRequest, Steps
      <3>2. /\ req[d].exp \in Experiments
            /\ req[d].lock \in 0..MaxLock /\ req[d].seen \in 0..MaxLock
            /\ status[req[d].exp] # "none"
            /\ Behind(req[d], version[req[d].exp])
        BY <1>2, <3>1 DEF RequestsBehind, RequestRecords
      <3>3. Behind(req[d], version'[req[d].exp])
        BY <3>2 DEF Behind, TypeOK
      <3>4. QED
        BY <3>1, <3>2, <3>3
    <2>3. QED
      BY <2>1, <2>2
  <1>3. QED
    BY <1>1, <1>2 DEF RequestsBehind

\* The transactions that leave the requests alone.
LEMMA NoHoldType ==
    ASSUME TypeOK, RequestsBehind, UNCHANGED req,
           version' \in [Experiments -> 0..MaxLock],
           \A e \in Experiments : /\ status'[e] = "none" => status[e] = "none"
                                  /\ version[e] <= version'[e]
    PROVE  RequestsBehind'
  <1>1. ASSUME NEW d \in Requests, req[d].step \in Steps
        PROVE  status'[req[d].exp] # "none" /\ Behind(req[d], version'[req[d].exp])
    <2>1. req[d] \in RequestRecords
      BY <1>1 DEF TypeOK, NoRequest, Steps
    <2>2. /\ req[d].exp \in Experiments
          /\ req[d].lock \in 0..MaxLock /\ req[d].seen \in 0..MaxLock
          /\ status[req[d].exp] # "none"
          /\ Behind(req[d], version[req[d].exp])
      BY <1>1, <2>1 DEF RequestsBehind, RequestRecords
    <2>3. QED
      BY <2>2 DEF Behind, TypeOK
  <1>2. QED
    BY <1>1 DEF RequestsBehind

LEMMA AuditType ==
    ASSUME TypeOK, NEW e \in Experiments, NEW u \in Users, NEW to \in Statuses,
           NEW g \in BOOLEAN, version[e] + 1 \in 0..MaxLock, Audit(e, u, to, g)
    PROVE  auditTail' \in [Experiments -> AuditRecords]
  BY DEF TypeOK, Audit, AuditRecords

\* A bump stays within its bound.
LEMMA BumpType ==
    ASSUME LifecycleAssumption, TypeOK, NEW e \in Experiments, Bump(e)
    PROVE  /\ version' \in [Experiments -> 0..MaxLock]
           /\ version[e] + 1 \in 0..MaxLock
           /\ version'[e] = version[e] + 1
           /\ \A other \in Experiments \ {e} : version'[other] = version[other]
           /\ \A other \in Experiments : version[other] <= version'[other]
  BY DEF LifecycleAssumption, TypeOK, Bump

\* The value of a variant is a legal default value.
LEMMA SetDefaultType ==
    ASSUME LifecycleAssumption, TypeOK, NEW e \in Experiments, cur[e] \in Versions,
           NEW pick \in {"control", "winner"}, SetDefault(e, pick)
    PROVE  flagDefault' \in [Flags -> FlagValues]
  <1>1. variants[e][cur[e]] \in Contents /\ FlagOf[e] \in Flags
    BY DEF LifecycleAssumption, TypeOK
  <1>2. QED
    BY <1>1 DEF TypeOK, SetDefault, FlagValues

LEMMA CreateType ==
    ASSUME LifecycleAssumption, TypeInv,
           NEW c \in Requests, NEW u \in Users, NEW e \in Experiments,
           NEW content \in Contents, Create(c, u, e, content)
    PROVE  TypeInv'
  <1>. DEFINE r == [Request("set_variants", e, u) EXCEPT
                       !.lock = 1, !.seen = 1, !.from = "draft", !.to = "draft",
                       !.ver = 1, !.content = content]
  <1>. USE LifecycleAssumption DEF TypeInv
  <1>1. r \in RequestRecords /\ r.exp = e /\ Behind(r, 1)
    <2>1. r \in RequestRecords
      BY Bounds DEF Request, RequestRecords, Steps, Existing, Statuses, Decisions
    <2>2. r.exp = e /\ r.seen = 1 /\ r.step = "set_variants"
      BY DEF Request
    <2>3. QED
      BY <2>1, <2>2 DEF Behind
  <1>2. status' \in [Experiments -> Statuses] /\ status'[e] = "draft"
    BY DEF Create, CreateExperiment, TypeOK, Statuses
  <1>3. /\ req' \in [Requests -> RequestRecords \cup {NoRequest}]
        /\ RequestsBehind'
    <2>1. /\ version' \in [Experiments -> 0..MaxLock]
          /\ version'[e] = 1
          /\ \A other \in Experiments :
                 /\ status'[other] = "none" => status[other] = "none"
                 /\ version[other] <= version'[other]
      BY <1>2, Bounds DEF Create, CreateExperiment, TypeOK, RowExists
    <2>2. Hold(c, IF content = NoVariants THEN NoRequest ELSE r)
      BY DEF Create, CreateExperiment
    <2>3. QED
      BY <1>1, <1>2, <2>1, <2>2, HoldType
  <1>4. auditTail' \in [Experiments -> AuditRecords]
    <2>1. version[e] + 1 \in 0..MaxLock /\ "draft" \in Statuses
      BY Bounds DEF Create, CreateExperiment, RowExists, TypeOK, Statuses
    <2>2. Audit(e, u, "draft", FALSE)
      BY DEF Create, CreateExperiment
    <2>3. QED
      BY <2>1, <2>2, AuditType
  <1>5. RowExists'
    BY Bounds DEF Create, CreateExperiment, TypeOK, RowExists, Statuses
  <1>6. TypeOK'
    BY <1>2, <1>3, <1>4, Bounds DEF Create, CreateExperiment, TypeOK, flag
  <1>7. QED
    BY <1>3, <1>5, <1>6

-----------------------------------------------------------------------------
(* Type correctness: the steps that store nothing.                         *)

LEMMA ReadStep ==
    ASSUME TypeInv, UNCHANGED stored, NEW c \in Requests,
           NEW r \in RequestRecords \cup {NoRequest}, Hold(c, r),
           r # NoRequest => status[r.exp] # "none" /\ Behind(r, version[r.exp])
    PROVE  TypeInv'
  <1>1. TypeOK /\ RowExists /\ RequestsBehind /\ UNCHANGED <<status, version>>
    BY DEF TypeInv, stored, row
  <1>2. /\ version' \in [Experiments -> 0..MaxLock]
        /\ \A e \in Experiments : version[e] <= version'[e]
    BY <1>1 DEF TypeOK
  <1>3. req' \in [Requests -> RequestRecords \cup {NoRequest}] /\ RequestsBehind'
    BY <1>1, <1>2, HoldType
  <1>4. QED
    BY <1>1, <1>3 DEF TypeInv, TypeOK, RowExists, stored, row, flag

LEMMA ReadForTransitionType ==
    ASSUME LifecycleAssumption, TypeOK, NEW r \in RequestRecords, status[r.exp] # "none"
    PROVE  /\ ReadForTransition(r) \in RequestRecords
           /\ ReadForTransition(r).exp = r.exp
           /\ Behind(ReadForTransition(r), version[r.exp])
           /\ ReadForTransition(r).step = "transition"
  <1>1. /\ status[r.exp] \in Existing
        /\ version[r.exp] \in 0..MaxLock /\ version[r.exp] <= version[r.exp]
    BY SentTypes DEF TypeOK, RequestRecords, Existing
  <1>2. ReadForTransition(r) \in RequestRecords
    BY <1>1, EditTypes DEF ReadForTransition, Steps
  <1>3. /\ ReadForTransition(r).exp = r.exp
        /\ ReadForTransition(r).seen = version[r.exp]
        /\ ReadForTransition(r).step = "transition"
    BY DEF ReadForTransition, RequestRecords
  <1>4. QED
    BY <1>1, <1>2, <1>3 DEF Behind

\* The first reads of the handlers.
LEMMA ReadType ==
    ASSUME LifecycleAssumption, TypeInv,
           NEW c \in Requests, NEW u \in Users, NEW e \in Experiments
    PROVE  /\ \A content \in Contents : CreateVersionRead(c, u, e, content) => TypeInv'
           /\ \A content \in VariantSets : SetVariantsRead(c, u, e, content) => TypeInv'
           /\ \A lock \in Sent(e) :
                /\ SubmitRead(c, u, e, lock) => TypeInv'
                /\ ResumeRead(c, u, e, lock) => TypeInv'
                /\ \A to \in Statuses : TransitionRequest(c, u, e, lock, to) => TypeInv'
                /\ InternalPauseRead(c, u, e, lock) => TypeInv'
                /\ \A verdict \in Decisions : CompleteRead(c, u, e, lock, verdict) => TypeInv'
                /\ \A n \in Versions, verdict \in {"approve", "request_changes", "reject"} :
                       ActRead(c, u, e, lock, n, verdict) => TypeInv'
  <1>. DEFINE Stored(r) == /\ Hold(c, r)
                           /\ r.exp = e
                           /\ status[e] # "none"
                           /\ Behind(r, version[e])
                           /\ UNCHANGED stored
  <1>1. /\ TypeOK
        /\ cur[e] \in 0..MaxVersions
        /\ version[e] <= version[e] /\ Sent(e) \subseteq 0..MaxLock
        /\ VariantSets \subseteq Contents
        /\ \A step \in Steps : /\ status[e] # "none" => Request(step, e, u) \in RequestRecords
                               /\ Request(step, e, u).exp = e
    BY RequestTypes, SentTypes DEF TypeInv, TypeOK, Contents, Request
  <1>2. \A r \in RequestRecords : Stored(r) => TypeInv'
    BY ReadStep
  <1>3. ASSUME NEW content \in Contents, CreateVersionRead(c, u, e, content)
        PROVE  TypeInv'
    <2>. DEFINE r == [Request("create_version", e, u) EXCEPT !.content = content]
    <2>1. status[e] # "none" /\ Hold(c, r) /\ UNCHANGED stored
      BY <1>3 DEF CreateVersionRead, Versionable
    <2>2. r \in RequestRecords
      BY <1>1, <2>1, EditTypes DEF Steps
    <2>3. r.exp = e /\ Behind(r, version[e])
      BY <1>1 DEF Request, Behind
    <2>4. QED
      BY <1>2, <2>1, <2>2, <2>3
  <1>4. ASSUME NEW content \in VariantSets, SetVariantsRead(c, u, e, content)
        PROVE  TypeInv'
    <2>. DEFINE r == [Request("set_variants", e, u) EXCEPT
                        !.ver = cur[e], !.content = content]
    <2>1. status[e] # "none" /\ Hold(c, r) /\ UNCHANGED stored
      BY <1>4 DEF SetVariantsRead
    <2>2. r \in RequestRecords
      BY <1>1, <2>1, EditTypes DEF Steps
    <2>3. r.exp = e /\ Behind(r, version[e])
      BY <1>1 DEF Request, Behind
    <2>4. QED
      BY <1>2, <2>1, <2>2, <2>3
  <1>5. ASSUME NEW lock \in Sent(e), SubmitRead(c, u, e, lock)
        PROVE  TypeInv'
    <2>. DEFINE r == [Request("submit_review", e, u) EXCEPT
                        !.lock = lock, !.ver = cur[e], !.to = "review"]
    <2>1. status[e] # "none" /\ Hold(c, r) /\ UNCHANGED stored
      BY <1>5 DEF SubmitRead
    <2>2. r \in RequestRecords
      BY <1>1, <2>1, EditTypes DEF Steps, Existing, Statuses
    <2>3. r.exp = e /\ Behind(r, version[e])
      BY <1>1 DEF Request, Behind
    <2>4. QED
      BY <1>2, <2>1, <2>2, <2>3
  <1>6. ASSUME NEW lock \in Sent(e), ResumeRead(c, u, e, lock)
        PROVE  TypeInv'
    <2>. DEFINE r == [Request("transition_read", e, u) EXCEPT !.lock = lock, !.to = "running"]
    <2>1. status[e] # "none" /\ Hold(c, r) /\ UNCHANGED stored
      BY <1>6 DEF ResumeRead
    <2>2. r \in RequestRecords
      BY <1>1, <2>1, EditTypes DEF Steps, Existing, Statuses
    <2>3. r.exp = e /\ Behind(r, version[e])
      BY <1>1 DEF Request, Behind
    <2>4. QED
      BY <1>2, <2>1, <2>2, <2>3
  <1>7. ASSUME NEW lock \in Sent(e), NEW to \in Statuses,
               TransitionRequest(c, u, e, lock, to)
        PROVE  TypeInv'
    <2>. DEFINE r == [Request("transition_read", e, u) EXCEPT !.lock = lock, !.to = to]
    <2>1. r.exp = e
      BY DEF Request
    <2>2. to \in Existing
      BY <1>7 DEF TransitionRequest, Existing, Statuses
    <2>3. /\ TransitionGuards(r)
          /\ Hold(c, ReadForTransition(r))
          /\ UNCHANGED stored
      BY <1>7, Zenon DEF TransitionRequest
    <2>4. status[e] # "none"
      BY <2>1, <2>3 DEF TransitionGuards, Edges
    <2>5. r \in RequestRecords
      BY <1>1, <2>2, <2>4, EditTypes DEF Steps
    <2>. HIDE DEF r
    <2>6. /\ ReadForTransition(r) \in RequestRecords
          /\ ReadForTransition(r).exp = e
          /\ Behind(ReadForTransition(r), version[e])
      BY <1>1, <2>1, <2>4, <2>5, ReadForTransitionType DEF Behind
    <2>7. QED
      BY <1>2, <2>3, <2>4, <2>6
  <1>8. ASSUME NEW lock \in Sent(e), InternalPauseRead(c, u, e, lock)
        PROVE  TypeInv'
    <2>. DEFINE r == [Request("transition", e, u) EXCEPT
                        !.lock = lock, !.to = "paused", !.guard = "set"]
    <2>1. status[e] # "none" /\ Hold(c, r) /\ UNCHANGED stored
      BY <1>8 DEF InternalPauseRead, Edges
    <2>2. r \in RequestRecords
      BY <1>1, <2>1, EditTypes DEF Steps, Existing, Statuses
    <2>3. r.exp = e /\ Behind(r, version[e])
      BY <1>1 DEF Request, Behind
    <2>4. QED
      BY <1>2, <2>1, <2>2, <2>3
  <1>9. ASSUME NEW lock \in Sent(e), NEW verdict \in Decisions,
               CompleteRead(c, u, e, lock, verdict)
        PROVE  TypeInv'
    <2>. DEFINE r == [Request("complete", e, u) EXCEPT !.lock = lock, !.verdict = verdict]
    <2>1. status[e] # "none" /\ Hold(c, r) /\ UNCHANGED stored
      BY <1>9 DEF CompleteRead, Active
    <2>2. r \in RequestRecords
      BY <1>1, <2>1, EditTypes DEF Steps
    <2>3. r.exp = e /\ Behind(r, version[e])
      BY <1>1 DEF Request, Behind
    <2>4. QED
      BY <1>2, <2>1, <2>2, <2>3
  <1>10. ASSUME NEW lock \in Sent(e), NEW n \in Versions,
                NEW verdict \in {"approve", "request_changes", "reject"},
                ActRead(c, u, e, lock, n, verdict)
         PROVE  TypeInv'
    <2>. DEFINE r == [Request("act", e, u) EXCEPT
                        !.lock = lock, !.ver = n, !.verdict = verdict]
    <2>1. status[e] # "none" /\ Hold(c, r) /\ UNCHANGED stored
      BY <1>10 DEF ActRead, TypeInv, RowExists
    <2>2. r \in RequestRecords
      BY <1>1, <2>1, Bounds, EditTypes DEF Steps
    <2>3. r.exp = e /\ Behind(r, version[e])
      BY <1>1 DEF Request, Behind
    <2>4. QED
      BY <1>2, <2>1, <2>2, <2>3
  <1>11. QED
    BY <1>3, <1>4, <1>5, <1>6, <1>7, <1>8, <1>9, <1>10

\* The later reads, and the end of a request that fails.
LEMMA LaterReadType ==
    ASSUME LifecycleAssumption, TypeInv, NEW c \in Requests
    PROVE  /\ TransitionRead(c) => TypeInv'
           /\ ApplyReviewOutcome(c) => TypeInv'
           /\ Fail(c) => TypeInv'
  <1>. DEFINE r == req[c]
  <1>1. TypeOK /\ RequestsBehind
    BY DEF TypeInv
  <1>2. ASSUME TransitionRead(c)
        PROVE  TypeInv'
    <2>1. /\ r \in RequestRecords
          /\ status[r.exp] # "none"
      BY <1>1, <1>2, RequestTypes DEF TransitionRead, Steps, RequestsBehind
    <2>2. /\ ReadForTransition(r) \in RequestRecords
          /\ ReadForTransition(r).exp = r.exp
          /\ Behind(ReadForTransition(r), version[r.exp])
      BY <1>1, <2>1, ReadForTransitionType DEF Behind
    <2>3. Hold(c, ReadForTransition(r)) /\ UNCHANGED stored
      BY <1>2, Zenon DEF TransitionRead
    <2>4. QED
      BY <2>1, <2>2, <2>3, ReadStep
  <1>3. ASSUME ApplyReviewOutcome(c)
        PROVE  TypeInv'
    <2>. DEFINE x == [r EXCEPT !.step = "transition", !.seen = version[r.exp],
                               !.from = status[r.exp]]
    <2>1. /\ r \in RequestRecords
          /\ status[r.exp] # "none"
      BY <1>1, <1>3, RequestTypes DEF ApplyReviewOutcome, Steps, RequestsBehind
    <2>2. /\ status[r.exp] \in Existing
          /\ version[r.exp] \in 0..MaxLock /\ version[r.exp] <= version[r.exp]
      BY <1>1, <2>1, SentTypes DEF TypeOK, RequestRecords, Existing
    <2>3. x \in RequestRecords
      BY <2>1, <2>2, EditTypes DEF Steps
    <2>4. x.exp = r.exp /\ Behind(x, version[r.exp])
      BY <2>1, <2>2 DEF RequestRecords, Behind
    <2>5. Hold(c, x) /\ UNCHANGED stored
      BY <1>3 DEF ApplyReviewOutcome
    <2>6. QED
      BY <2>1, <2>3, <2>4, <2>5, ReadStep
  <1>4. ASSUME Fail(c)
        PROVE  TypeInv'
    BY <1>4, ReadStep DEF Fail, Finish
  <1>5. QED
    BY <1>2, <1>3, <1>4

-----------------------------------------------------------------------------
(* Type correctness: the transactions.                                     *)

\* What a transaction knows of the request it belongs to.
LEMMA Owned ==
    ASSUME LifecycleAssumption, TypeInv, NEW c \in Requests, req[c].step \in Steps
    PROVE  /\ req[c] \in RequestRecords
           /\ req[c].exp \in Experiments
           /\ req[c].user \in Users
           /\ req[c].lock \in 0..MaxLock
           /\ req[c].seen \in 0..MaxLock
           /\ req[c].to \in Existing
           /\ req[c].ver \in 0..MaxVersions
           /\ req[c].content \in Contents
           /\ status[req[c].exp] # "none"
           /\ cur[req[c].exp] \in Versions
           /\ version[req[c].exp] \in 0..MaxLock
           /\ Behind(req[c], version[req[c].exp])
  <1>1. TypeOK /\ RequestsBehind /\ RowExists
    BY DEF TypeInv
  <1>2. /\ req[c] \in RequestRecords
        /\ status[req[c].exp] # "none"
        /\ Behind(req[c], version[req[c].exp])
    BY <1>1, RequestTypes DEF RequestsBehind
  <1>3. req[c].exp \in Experiments
    BY <1>2 DEF RequestRecords
  <1>4. version[req[c].exp] \in 0..MaxLock /\ cur[req[c].exp] \in Versions
    BY <1>1, <1>2, <1>3 DEF TypeOK, RowExists
  <1>5. QED
    BY <1>2, <1>4 DEF RequestRecords

LEMMA UpdateDraftType ==
    ASSUME LifecycleAssumption, TypeInv, NEW u \in Users, NEW e \in Experiments,
           UpdateDraft(u, e)
    PROVE  TypeInv'
  <1>1. TypeOK /\ RowExists /\ RequestsBehind /\ UNCHANGED <<status, req>>
    BY DEF TypeInv, UpdateDraft
  <1>2. Bump(e) /\ status[e] # "none"
    BY DEF UpdateDraft
  <1>3. RequestsBehind'
    BY <1>1, <1>2, BumpType, NoHoldType
  <1>4. TypeOK'
    BY <1>1, <1>2, BumpType DEF UpdateDraft, TypeOK, flag
  <1>5. RowExists'
    BY <1>1, <1>2, BumpType DEF UpdateDraft, RowExists
  <1>6. QED
    BY <1>3, <1>4, <1>5 DEF TypeInv

LEMMA SetVariantsType ==
    ASSUME LifecycleAssumption, TypeInv, NEW c \in Requests, SetVariants(c)
    PROVE  TypeInv'
  <1>. DEFINE r == req[c]
  <1>1. TypeOK /\ RowExists /\ RequestsBehind /\ UNCHANGED status
    BY DEF TypeInv, SetVariants
  <1>2. r.exp \in Experiments /\ r.content \in Contents /\ status[r.exp] # "none"
    BY Owned DEF SetVariants, Steps
  <1>3. Bump(r.exp)
    BY DEF SetVariants
  <1>4. req' \in [Requests -> RequestRecords \cup {NoRequest}] /\ RequestsBehind'
    BY <1>1, <1>2, <1>3, BumpType, HoldType DEF SetVariants, Finish
  <1>5. variants' \in [Experiments -> [Versions -> Contents]]
    BY <1>1, <1>2 DEF SetVariants, TypeOK
  <1>6. TypeOK'
    BY <1>1, <1>2, <1>3, <1>4, <1>5, BumpType DEF SetVariants, TypeOK, flag
  <1>7. RowExists'
    BY <1>1, <1>2, <1>3, BumpType DEF RowExists, SetVariants
  <1>8. QED
    BY <1>4, <1>6, <1>7 DEF TypeInv

\* The record a handler goes on with once its version exists.
LEMMA VariantsNextType ==
    ASSUME LifecycleAssumption, NEW r \in RequestRecords, NEW v \in 0..MaxLock,
           r.lock < v, r.seen <= v
    PROVE  /\ VariantsNext(r) \in RequestRecords \cup {NoRequest}
           /\ VariantsNext(r) # NoRequest => /\ VariantsNext(r).exp = r.exp
                                             /\ Behind(VariantsNext(r), v)
  <1>1. r.lock + 1 \in 0..MaxLock /\ r.lock + 1 <= v
    BY DEF RequestRecords, LifecycleAssumption
  <1>2. VariantsNext(r) \in RequestRecords \cup {NoRequest}
    BY <1>1, EditTypes DEF VariantsNext, Steps
  <1>3. VariantsNext(r) # NoRequest => /\ VariantsNext(r).exp = r.exp
                                       /\ Behind(VariantsNext(r), v)
    BY <1>1 DEF VariantsNext, RequestRecords, Behind
  <1>4. QED
    BY <1>2, <1>3

LEMMA InsertReviewType ==
    ASSUME TypeOK, NEW e \in Experiments, NEW n, InsertReview(e, n)
    PROVE  review' \in [Experiments -> [Versions -> ReviewStatuses]]
  <1>1. "open" \in ReviewStatuses
    BY DEF ReviewStatuses
  <1>2. [review[e] EXCEPT ![n] = "open"] \in [Versions -> ReviewStatuses]
    BY <1>1 DEF TypeOK
  <1>3. review' = [review EXCEPT ![e] = [review[e] EXCEPT ![n] = "open"]]
    BY DEF InsertReview, TypeOK
  <1>4. QED
    BY <1>2, <1>3 DEF TypeOK

LEMMA OpenReviewType ==
    ASSUME LifecycleAssumption, TypeInv, NEW c \in Requests, OpenReview(c)
    PROVE  TypeInv'
  <1>. DEFINE r == req[c]
  <1>1. TypeOK /\ RowExists /\ RequestsBehind /\ UNCHANGED <<status, version>>
    BY DEF TypeInv, OpenReview, row
  <1>2. /\ r \in RequestRecords
        /\ r.exp \in Experiments
        /\ status[r.exp] # "none"
        /\ version[r.exp] \in 0..MaxLock
        /\ r.lock < version[r.exp] /\ r.seen <= version[r.exp]
    BY Owned DEF OpenReview, Steps, Behind
  <1>3. /\ VariantsNext(r) \in RequestRecords \cup {NoRequest}
        /\ VariantsNext(r) # NoRequest => /\ VariantsNext(r).exp = r.exp
                                          /\ Behind(VariantsNext(r), version[r.exp])
    BY <1>2, VariantsNextType
  <1>4. \A e \in Experiments : version[e] <= version'[e]
    BY <1>1 DEF TypeOK
  <1>5. version' \in [Experiments -> 0..MaxLock]
    BY <1>1 DEF TypeOK
  <1>6. req' \in [Requests -> RequestRecords \cup {NoRequest}] /\ RequestsBehind'
    <2>1. Hold(c, VariantsNext(r))
      BY DEF OpenReview
    <2>2. QED
      BY <1>1, <1>2, <1>3, <1>4, <1>5, <2>1, HoldType
  <1>7. review' \in [Experiments -> [Versions -> ReviewStatuses]]
    BY <1>1, <1>2, InsertReviewType DEF OpenReview
  <1>8. TypeOK'
    BY <1>1, <1>6, <1>7 DEF OpenReview, TypeOK, flag, row
  <1>9. RowExists'
    BY <1>1, <1>2 DEF RowExists, OpenReview, InsertReview, TypeOK, row
  <1>10. QED
    BY <1>6, <1>8, <1>9 DEF TypeInv

LEMMA SubmitReviewType ==
    ASSUME LifecycleAssumption, TypeInv, NEW c \in Requests, SubmitReview(c)
    PROVE  TypeInv'
  <1>. DEFINE r == req[c]
              x == [r EXCEPT !.step = "transition_read"]
  <1>1. TypeOK /\ RowExists /\ RequestsBehind /\ UNCHANGED <<status, version>>
    BY DEF TypeInv, SubmitReview, row
  <1>2. /\ r \in RequestRecords
        /\ r.exp \in Experiments
        /\ status[r.exp] # "none"
        /\ r.seen <= version[r.exp]
    BY Owned DEF SubmitReview, Steps, Behind
  <1>3. x \in RequestRecords
    BY <1>2, EditTypes DEF Steps
  <1>4. x.exp = r.exp /\ Behind(x, version[r.exp])
    BY <1>2 DEF RequestRecords, Behind
  <1>5. /\ version' \in [Experiments -> 0..MaxLock]
        /\ \A e \in Experiments : version[e] <= version'[e]
    BY <1>1 DEF TypeOK
  <1>6. req' \in [Requests -> RequestRecords \cup {NoRequest}] /\ RequestsBehind'
    <2>1. Hold(c, x)
      BY DEF SubmitReview
    <2>2. QED
      BY <1>1, <1>2, <1>3, <1>4, <1>5, <2>1, HoldType
  <1>7. review' \in [Experiments -> [Versions -> ReviewStatuses]]
    BY <1>1, <1>2, InsertReviewType DEF SubmitReview, TypeOK
  <1>8. TypeOK'
    BY <1>1, <1>6, <1>7 DEF SubmitReview, TypeOK, flag, row
  <1>9. RowExists'
    BY <1>1, <1>2 DEF RowExists, SubmitReview, InsertReview, TypeOK, row
  <1>10. QED
    BY <1>6, <1>8, <1>9 DEF TypeInv

LEMMA UpdateFlagType ==
    ASSUME LifecycleAssumption, TypeInv, NEW f \in Flags, UpdateFlag(f) \/ DeleteFlag(f)
    PROVE  TypeInv'
  <1>1. /\ TypeOK /\ RowExists /\ RequestsBehind
        /\ UNCHANGED <<row, variants, review, approvals, auditTail, outbox, req>>
    BY DEF TypeInv, UpdateFlag, DeleteFlag
  <1>2. /\ version' \in [Experiments -> 0..MaxLock]
        /\ \A e \in Experiments : version[e] <= version'[e]
    BY <1>1 DEF TypeOK, row
  <1>3. RequestsBehind'
    BY <1>1, <1>2, NoHoldType DEF row
  <1>4. ByHand \in FlagValues
    BY DEF ByHand, FlagValues, Contents
  <1>5. flagDefault' \in [Flags -> FlagValues] /\ flagDeleted' \in [Flags -> BOOLEAN]
    <2>1. CASE UpdateFlag(f)
      BY <1>1, <1>4, <2>1 DEF UpdateFlag, TypeOK
    <2>2. CASE DeleteFlag(f)
      BY <1>1, <2>2 DEF DeleteFlag, TypeOK
    <2>3. QED
      BY <2>1, <2>2
  <1>6. TypeOK'
    BY <1>1, <1>5 DEF TypeOK, row
  <1>7. RowExists'
    BY <1>1 DEF RowExists, row
  <1>8. QED
    BY <1>3, <1>6, <1>7 DEF TypeInv

LEMMA CreateVersionType ==
    ASSUME LifecycleAssumption, TypeInv, NEW c \in Requests, CreateVersion(c)
    PROVE  TypeInv'
  <1>. DEFINE r == req[c]
              e == r.exp
              next == [r EXCEPT !.ver = cur[e] + 1]
              held == IF r.from = "review" THEN [next EXCEPT !.step = "open_review"]
                                           ELSE VariantsNext(next)
  <1>1. TypeOK /\ RowExists /\ RequestsBehind
    BY DEF TypeInv
  <1>2. /\ r \in RequestRecords /\ e \in Experiments /\ r.user \in Users
        /\ status[e] # "none"
        /\ version[e] \in 0..MaxLock
        /\ r.lock \in 0..MaxLock /\ r.seen \in 0..MaxLock
        /\ r.lock <= version[e] /\ r.seen <= version[e]
    BY Owned DEF CreateVersion, Steps, Behind
  <1>3. /\ Bump(e)
        /\ cur[e] < MaxVersions
        /\ cur' = [cur EXCEPT ![e] = @ + 1]
        /\ Hold(c, held)
        /\ UNCHANGED <<guardrail, variants, review, approvals, outbox, flag>>
    BY DEF CreateVersion
  <1>4. cur[e] + 1 \in Versions /\ cur[e] + 1 \in 0..MaxVersions
    BY <1>1, <1>2, <1>3 DEF TypeOK, LifecycleAssumption, Versions
  <1>5. /\ status' \in [Experiments -> Statuses]
        /\ decision' \in [Experiments -> Decisions]
        /\ auditTail' \in [Experiments -> AuditRecords]
        /\ \A other \in Experiments : status'[other] = "none" <=> status[other] = "none"
    <2>1. CASE r.from \in ResetStatuses
      <3>1. ResetToDraft(e, r.user)
        BY <2>1 DEF CreateVersion
      <3>2. guardrail[e] \in BOOLEAN /\ "draft" \in Statuses /\ "none" \in Decisions
        BY <1>1, <1>2 DEF TypeOK, Statuses, Decisions
      <3>3. auditTail' \in [Experiments -> AuditRecords]
        BY <1>1, <1>2, <1>3, <3>1, <3>2, BumpType, AuditType DEF ResetToDraft
      <3>4. QED
        BY <1>1, <1>2, <3>1, <3>2, <3>3 DEF ResetToDraft, TypeOK
    <2>2. CASE r.from \notin ResetStatuses
      BY <1>1, <2>2 DEF CreateVersion, TypeOK
    <2>3. QED
      BY <2>1, <2>2
  <1>6. next \in RequestRecords /\ next.exp = e /\ next.lock = r.lock /\ next.seen = r.seen
    <2>1. next \in RequestRecords
      BY <1>2, <1>4, EditTypes
    <2>2. next.exp = e /\ next.lock = r.lock /\ next.seen = r.seen
      BY <1>2 DEF RequestRecords
    <2>3. QED
      BY <2>1, <2>2
  <1>7. version'[e] \in 0..MaxLock /\ r.lock < version'[e] /\ r.seen <= version'[e]
    BY <1>1, <1>2, <1>3, BumpType DEF TypeOK
  <1>8. /\ held \in RequestRecords \cup {NoRequest}
        /\ held # NoRequest => held.exp = e /\ Behind(held, version'[e])
    <2>. HIDE DEF next
    <2>1. CASE r.from = "review"
      <3>. DEFINE x == [next EXCEPT !.step = "open_review"]
      <3>1. x \in RequestRecords
        BY <1>6, EditTypes DEF Steps
      <3>2. x.exp = e /\ x.lock = r.lock /\ x.seen = r.seen /\ x.step = "open_review"
        BY <1>6 DEF RequestRecords
      <3>3. Behind(x, version'[e])
        BY <1>2, <1>7, <3>2 DEF Behind
      <3>4. QED
        BY <2>1, <3>1, <3>2, <3>3
    <2>2. CASE r.from # "review"
      BY <1>6, <1>7, <2>2, VariantsNextType
    <2>3. QED
      BY <2>1, <2>2
  <1>9. req' \in [Requests -> RequestRecords \cup {NoRequest}] /\ RequestsBehind'
    <2>. HIDE DEF held
    <2>1. QED
      BY <1>1, <1>2, <1>3, <1>5, <1>8, BumpType, HoldType
  <1>10. TypeOK'
    <2>1. cur' \in [Experiments -> 0..MaxVersions]
      BY <1>1, <1>2, <1>3, <1>4 DEF TypeOK
    <2>2. QED
      BY <1>1, <1>2, <1>3, <1>5, <1>9, <2>1, BumpType DEF TypeOK, flag
  <1>11. RowExists'
    <2>1. \A other \in Experiments \ {e} : cur'[other] = cur[other]
      BY <1>1, <1>2, <1>3 DEF TypeOK
    <2>2. cur'[e] \in Versions
      BY <1>1, <1>2, <1>3, <1>4 DEF TypeOK
    <2>3. QED
      BY <1>1, <1>2, <1>3, <1>5, <2>1, <2>2, BumpType DEF RowExists
  <1>12. QED
    BY <1>9, <1>10, <1>11 DEF TypeInv

\* What Transition, RollbackToControl and Complete have in common: they move
\* the row of one experiment and leave its versions alone.
LEMMA RowMoveType ==
    ASSUME LifecycleAssumption, TypeInv, NEW e \in Experiments, NEW u \in Users,
           NEW to \in Existing, NEW g \in BOOLEAN, status[e] # "none",
           Bump(e), Audit(e, u, to, g),
           status' = [status EXCEPT ![e] = to],
           guardrail' = [guardrail EXCEPT ![e] = g],
           decision' \in [Experiments -> Decisions],
           flagDefault' \in [Flags -> FlagValues],
           UNCHANGED <<cur, variants, review, approvals, outbox, flagDeleted>>,
           \/ UNCHANGED req
           \/ \E c \in Requests : Finish(c)
    PROVE  TypeInv'
  <1>1. TypeOK /\ RowExists /\ RequestsBehind
    BY DEF TypeInv
  <1>2. to \in Statuses /\ to # "none"
    BY DEF Existing
  <1>3. /\ status' \in [Experiments -> Statuses]
        /\ \A other \in Experiments : status'[other] = "none" <=> status[other] = "none"
    BY <1>1, <1>2 DEF TypeOK
  <1>4. auditTail' \in [Experiments -> AuditRecords]
    BY <1>1, <1>2, BumpType, AuditType
  <1>5. req' \in [Requests -> RequestRecords \cup {NoRequest}] /\ RequestsBehind'
    <2>1. CASE UNCHANGED req
      BY <1>1, <1>3, <2>1, BumpType, NoHoldType DEF TypeOK
    <2>2. ASSUME NEW c \in Requests, Finish(c)
          PROVE  req' \in [Requests -> RequestRecords \cup {NoRequest}] /\ RequestsBehind'
      BY <1>1, <1>3, <2>2, BumpType, HoldType DEF Finish
    <2>3. QED
      BY <2>1, <2>2
  <1>6. guardrail' \in [Experiments -> BOOLEAN]
    BY <1>1 DEF TypeOK
  <1>7. TypeOK'
    BY <1>1, <1>3, <1>4, <1>5, <1>6, BumpType DEF TypeOK
  <1>8. RowExists'
    BY <1>1, <1>3, BumpType DEF RowExists
  <1>9. QED
    BY <1>5, <1>7, <1>8 DEF TypeInv

LEMMA TransitionType ==
    ASSUME LifecycleAssumption, TypeInv, NEW c \in Requests, Transition(c)
    PROVE  TypeInv'
  <1>. DEFINE r == req[c]
              e == r.exp
              g == CASE r.guard = "set" -> TRUE
                     [] r.guard = "clear" -> FALSE
                     [] OTHER -> guardrail[e]
  <1>1. /\ r \in RequestRecords /\ e \in Experiments /\ r.user \in Users
        /\ r.to \in Existing
        /\ status[e] # "none"
    BY Owned DEF Transition, Steps
  <1>2. TypeOK
    BY DEF TypeInv
  <1>3. g \in BOOLEAN
    BY <1>1, <1>2 DEF TypeOK
  <1>4. /\ Bump(e)
        /\ Audit(e, r.user, r.to, g)
        /\ status' = [status EXCEPT ![e] = r.to]
        /\ guardrail' = [guardrail EXCEPT ![e] = g]
        /\ Finish(c)
        /\ UNCHANGED <<cur, decision, variants, review, approvals, outbox, flag>>
    BY DEF Transition
  <1>5. /\ decision' \in [Experiments -> Decisions]
        /\ flagDefault' \in [Flags -> FlagValues]
    BY <1>2, <1>4 DEF TypeOK, flag
  <1>. HIDE DEF g, r
  <1>6. QED
    BY <1>1, <1>3, <1>4, <1>5, RowMoveType DEF flag

LEMMA RollbackType ==
    ASSUME LifecycleAssumption, TypeInv, NEW u \in Users, NEW e \in Experiments,
           RollbackToControl(u, e)
    PROVE  TypeInv'
  <1>1. /\ TypeOK
        /\ status[e] # "none"
        /\ cur[e] \in Versions
        /\ "paused" \in Existing
    BY DEF TypeInv, RowExists, RollbackToControl, Existing, Statuses
  <1>2. flagDefault' \in [Flags -> FlagValues]
    BY <1>1, SetDefaultType DEF RollbackToControl
  <1>3. decision' \in [Experiments -> Decisions]
    BY <1>1 DEF RollbackToControl, TypeOK
  <1>4. QED
    BY <1>1, <1>2, <1>3, RowMoveType DEF RollbackToControl

LEMMA CompleteType ==
    ASSUME LifecycleAssumption, TypeInv, NEW c \in Requests, Complete(c)
    PROVE  TypeInv'
  <1>. DEFINE r == req[c]
              e == r.exp
  <1>1. /\ r \in RequestRecords /\ e \in Experiments /\ r.user \in Users
        /\ status[e] # "none"
        /\ cur[e] \in Versions
    BY Owned DEF Complete, Steps
  <1>2. TypeOK /\ "completed" \in Existing
    BY DEF TypeInv, Existing, Statuses
  <1>3. /\ Bump(e)
        /\ Audit(e, r.user, "completed", guardrail[e])
        /\ status' = [status EXCEPT ![e] = "completed"]
        /\ decision' = [decision EXCEPT ![e] = r.verdict]
        /\ Finish(c)
        /\ UNCHANGED <<cur, guardrail, variants, review, approvals, outbox, flagDeleted>>
    BY DEF Complete
  <1>4. guardrail[e] \in BOOLEAN /\ guardrail' = [guardrail EXCEPT ![e] = guardrail[e]]
    BY <1>1, <1>2, <1>3 DEF TypeOK
  <1>5. \/ r.verdict = "no_effect" /\ UNCHANGED flagDefault
        \/ r.verdict = "rollback" /\ SetDefault(e, "control")
        \/ r.verdict = "rollout_winner" /\ SetDefault(e, "winner")
    BY DEF Complete
  <1>6. flagDefault' \in [Flags -> FlagValues]
    BY <1>1, <1>2, <1>5, SetDefaultType DEF TypeOK
  <1>7. decision' \in [Experiments -> Decisions]
    BY <1>2, <1>3, <1>5 DEF TypeOK, Decisions
  <1>. HIDE DEF r
  <1>8. QED
    BY <1>1, <1>2, <1>3, <1>4, <1>6, <1>7, RowMoveType

LEMMA ActOnReviewType ==
    ASSUME LifecycleAssumption, TypeInv, NEW c \in Requests, ActOnReview(c)
    PROVE  TypeInv'
  <1>. DEFINE r == req[c]
              outcome == Outcome(r)
              x == [r EXCEPT !.step = "apply_read", !.to = TargetOf(outcome)]
  <1>1. TypeOK /\ RowExists /\ RequestsBehind /\ UNCHANGED <<status, version>>
    BY DEF TypeInv, ActOnReview, row
  <1>2. /\ r \in RequestRecords /\ r.exp \in Experiments /\ r.user \in Users
        /\ status[r.exp] # "none"
        /\ r.seen <= version[r.exp]
    BY Owned DEF ActOnReview, Steps, Behind
  <1>3. outcome \in {"open", "approved", "rejected", "changes_requested"}
    BY DEF Outcome
  <1>. HIDE DEF outcome
  <1>4. outcome # "open" => x \in RequestRecords /\ x.exp = r.exp /\ Behind(x, version[r.exp])
    <2>1. outcome # "open" => TargetOf(outcome) \in Existing
      BY <1>3 DEF TargetOf, Existing, Statuses
    <2>2. outcome # "open" => x \in RequestRecords
      BY <1>2, <2>1, EditTypes DEF Steps
    <2>3. x.exp = r.exp /\ x.seen = r.seen /\ x.step = "apply_read"
      BY <1>2 DEF RequestRecords
    <2>4. QED
      BY <1>2, <2>2, <2>3 DEF Behind
  <1>5. /\ version' \in [Experiments -> 0..MaxLock]
        /\ \A e \in Experiments : version[e] <= version'[e]
    BY <1>1 DEF TypeOK
  <1>6. req' \in [Requests -> RequestRecords \cup {NoRequest}] /\ RequestsBehind'
    <2>. HIDE DEF x
    <2>1. Hold(c, IF outcome = "open" THEN NoRequest ELSE x)
      BY DEF ActOnReview, outcome, x
    <2>2. QED
      BY <1>1, <1>2, <1>4, <1>5, <2>1, HoldType
  <1>7. review' \in [Experiments -> [Versions -> ReviewStatuses]]
    <2>1. outcome \in ReviewStatuses
      BY <1>3 DEF ReviewStatuses
    <2>2. review' = [review EXCEPT ![r.exp][r.ver] = outcome]
      BY DEF ActOnReview, outcome
    <2>3. QED
      BY <1>1, <1>2, <2>1, <2>2 DEF TypeOK
  <1>8. approvals' \in [Experiments -> [Versions -> SUBSET Users]]
    <2>. DEFINE A == approvals[r.exp]
                B == [A EXCEPT ![r.ver] = A[r.ver] \cup {r.user}]
    <2>1. A \in [Versions -> SUBSET Users]
      BY <1>1, <1>2 DEF TypeOK
    <2>2. B \in [Versions -> SUBSET Users]
      <3>1. CASE r.ver \in Versions
        BY <1>2, <2>1, <3>1
      <3>2. CASE r.ver \notin Versions
        <4>1. B = A
          BY <2>1, <3>2
        <4>2. QED
          BY <2>1, <4>1
      <3>3. QED
        BY <3>1, <3>2
    <2>3. approvals' = [approvals EXCEPT ![r.exp] = B] \/ approvals' = approvals
      BY DEF ActOnReview
    <2>. HIDE DEF B
    <2>4. QED
      BY <1>1, <1>2, <2>2, <2>3 DEF TypeOK
  <1>9. TypeOK'
    BY <1>1, <1>6, <1>7, <1>8 DEF ActOnReview, TypeOK, flag, row
  <1>10. RowExists'
    <2>1. \A e \in Experiments : status[e] = "none" => review'[e] = review[e]
      BY <1>1, <1>2 DEF ActOnReview, TypeOK
    <2>2. QED
      BY <1>1, <2>1 DEF RowExists, ActOnReview, row
  <1>11. QED
    BY <1>6, <1>9, <1>10 DEF TypeInv

-----------------------------------------------------------------------------
\* Every step keeps the types and the invariants the types rest on.
LEMMA TypeStep ==
    ASSUME LifecycleAssumption, TypeInv, [Next]_vars
    PROVE  TypeInv'
  <1>1. ASSUME NEW c \in Requests, NEW u \in Users, NEW e \in Experiments, Arrive(c, u, e)
        PROVE  TypeInv'
    BY <1>1, CreateType, ReadType DEF Arrive, Contents, Decisions
  <1>2. ASSUME NEW c \in Requests, Proceed(c)
        PROVE  TypeInv'
    BY <1>2, SetVariantsType, CreateVersionType, OpenReviewType, SubmitReviewType,
       LaterReadType, TransitionType, CompleteType, ActOnReviewType DEF Proceed
  <1>3. ASSUME NEW u \in Users, NEW e \in Experiments,
               UpdateDraft(u, e) \/ RollbackToControl(u, e)
        PROVE  TypeInv'
    BY <1>3, UpdateDraftType, RollbackType
  <1>4. ASSUME NEW f \in Flags, UpdateFlag(f) \/ DeleteFlag(f)
        PROVE  TypeInv'
    BY <1>4, UpdateFlagType
  <1>5. CASE UNCHANGED vars
    BY <1>5 DEF TypeInv, TypeOK, RowExists, RequestsBehind, Behind, vars
  <1>6. QED
    BY <1>1, <1>2, <1>3, <1>4, <1>5 DEF Next

LEMMA TypeInit ==
    ASSUME LifecycleAssumption, Init
    PROVE  TypeInv
  <1>1. RowExists /\ RequestsBehind
    BY DEF Init, RowExists, RequestsBehind, NoRequest, Steps
  <1>2. auditTail \in [Experiments -> AuditRecords]
    BY DEF Init, AuditRecords, LifecycleAssumption, Statuses
  <1>3. flagDefault \in [Flags -> FlagValues]
    BY DEF Init, FlagValues, ByHand, Contents
  <1>4. TypeOK
    BY <1>2, <1>3 DEF Init, TypeOK, LifecycleAssumption, Statuses, Decisions,
       ReviewStatuses, Contents
  <1>5. QED
    BY <1>1, <1>4 DEF TypeInv

\* Type correctness, with the strengthening the later theorems use.
THEOREM TypeInvariant == Spec => []TypeInv
  <1>. USE LifecycleAssumption
  <1>1. Init => TypeInv
    BY TypeInit
  <1>2. TypeInv /\ [Next]_vars => TypeInv'
    BY TypeStep
  <1>3. QED
    BY <1>1, <1>2, PTL DEF Spec

\* Every variable stays in its type, whatever the constants are.
THEOREM TypeCorrect == Spec => []TypeOK
  <1>1. TypeInv => TypeOK
    BY DEF TypeInv
  <1>2. QED
    BY <1>1, TypeInvariant, PTL

-----------------------------------------------------------------------------
(* The optimistic lock, the unique index and the lease                     *)

\* A step leaves every experiment but e as it was.
OnlyRow(e) ==
    \A other \in Experiments \ {e} :
        /\ version'[other] = version[other]
        /\ status'[other] = status[other]
        /\ cur'[other] = cur[other]
        /\ guardrail'[other] = guardrail[other]
        /\ decision'[other] = decision[other]
        /\ variants'[other] = variants[other]

\* A transaction on the row of e: it moves the lock of e by one and touches no
\* other experiment; it activates e only if the flag was e's, or free.
RowCommit(e) ==
    /\ version'[e] = version[e] + 1
    /\ OnlyRow(e)
    /\ status'[e] \in Active => status[e] \in Active \/ FlagFree(e)

LEMMA CreateCommit ==
    ASSUME LifecycleAssumption, TypeInv,
           NEW c \in Requests, NEW u \in Users, NEW e \in Experiments,
           NEW content \in Contents, Create(c, u, e, content)
    PROVE  RowCommit(e)
  BY DEF Create, CreateExperiment, TypeInv, TypeOK, RowExists, RowCommit, OnlyRow, Active

LEMMA UpdateDraftCommit ==
    ASSUME LifecycleAssumption, TypeInv, NEW u \in Users, NEW e \in Experiments,
           UpdateDraft(u, e)
    PROVE  RowCommit(e)
  BY BumpType DEF UpdateDraft, TypeInv, RowCommit, OnlyRow

LEMMA SetVariantsCommit ==
    ASSUME LifecycleAssumption, TypeInv, NEW c \in Requests, SetVariants(c)
    PROVE  RowCommit(req[c].exp)
  <1>. DEFINE e == req[c].exp
  <1>1. e \in Experiments /\ TypeOK
    BY Owned DEF SetVariants, Steps, TypeInv
  <1>2. \A other \in Experiments \ {e} : variants'[other] = variants[other]
    BY <1>1 DEF SetVariants, TypeOK
  <1>3. Bump(e) /\ UNCHANGED <<status, cur, guardrail, decision>>
    BY DEF SetVariants
  <1>4. QED
    BY <1>1, <1>2, <1>3, BumpType DEF RowCommit, OnlyRow

LEMMA CreateVersionCommit ==
    ASSUME LifecycleAssumption, TypeInv, NEW c \in Requests, CreateVersion(c)
    PROVE  RowCommit(req[c].exp)
  <1>. DEFINE r == req[c]
              e == r.exp
  <1>1. e \in Experiments /\ TypeOK
    BY Owned DEF CreateVersion, Steps, TypeInv
  <1>2. /\ Bump(e)
        /\ cur' = [cur EXCEPT ![e] = @ + 1]
        /\ ResetToDraft(e, r.user) \/ UNCHANGED <<status, decision, auditTail>>
        /\ UNCHANGED <<guardrail, variants>>
    BY DEF CreateVersion
  <1>3. /\ \A other \in Experiments \ {e} : /\ status'[other] = status[other]
                                           /\ decision'[other] = decision[other]
                                           /\ cur'[other] = cur[other]
        /\ status'[e] \in Active => status[e] \in Active
    BY <1>1, <1>2 DEF ResetToDraft, TypeOK, Active
  <1>4. QED
    BY <1>1, <1>2, <1>3, BumpType DEF RowCommit, OnlyRow

LEMMA TransitionCommit ==
    ASSUME LifecycleAssumption, TypeInv, NEW c \in Requests, Transition(c)
    PROVE  RowCommit(req[c].exp)
  <1>. DEFINE r == req[c]
              e == r.exp
  <1>1. e \in Experiments /\ TypeOK
    BY Owned DEF Transition, Steps, TypeInv
  <1>2. PICK g : guardrail' = [guardrail EXCEPT ![e] = g]
    BY DEF Transition
  <1>3. /\ Bump(e)
        /\ UniqueActive(r)
        /\ status' = [status EXCEPT ![e] = r.to]
        /\ UNCHANGED <<cur, decision, variants>>
    BY DEF Transition
  <1>4. QED
    BY <1>1, <1>2, <1>3, BumpType DEF RowCommit, OnlyRow, UniqueActive, TypeOK

LEMMA RollbackCommit ==
    ASSUME LifecycleAssumption, TypeInv, NEW u \in Users, NEW e \in Experiments,
           RollbackToControl(u, e)
    PROVE  RowCommit(e)
  <1>1. TypeOK /\ status[e] \in Active /\ Bump(e)
    BY DEF TypeInv, RollbackToControl, Active
  <1>2. QED
    BY <1>1, BumpType DEF RollbackToControl, RowCommit, OnlyRow, TypeOK

LEMMA CompleteCommit ==
    ASSUME LifecycleAssumption, TypeInv, NEW c \in Requests, Complete(c)
    PROVE  RowCommit(req[c].exp)
  <1>. DEFINE r == req[c]
              e == r.exp
  <1>1. e \in Experiments /\ TypeOK
    BY Owned DEF Complete, Steps, TypeInv
  <1>2. /\ Bump(e)
        /\ status' = [status EXCEPT ![e] = "completed"]
        /\ decision' = [decision EXCEPT ![e] = r.verdict]
        /\ UNCHANGED <<cur, guardrail, variants>>
    BY DEF Complete
  <1>3. QED
    BY <1>1, <1>2, BumpType DEF RowCommit, OnlyRow, TypeOK, Active

\* A step leaves every row alone, or it is one transaction on one row.
LEMMA RowStep ==
    ASSUME LifecycleAssumption, TypeInv, [Next]_vars
    PROVE  \/ UNCHANGED <<row, variants>>
           \/ \E e \in Experiments : RowCommit(e)
  <1>. DEFINE Goal == \/ UNCHANGED <<row, variants>>
                      \/ \E e \in Experiments : RowCommit(e)
  <1>1. ASSUME NEW c \in Requests, NEW u \in Users, NEW e \in Experiments, Arrive(c, u, e)
        PROVE  Goal
    <2>1. ASSUME NEW content \in Contents, Create(c, u, e, content)
          PROVE  Goal
      BY <2>1, CreateCommit
    <2>2. CASE ~ \E content \in Contents : Create(c, u, e, content)
      BY <1>1, <2>2 DEF Arrive, CreateVersionRead, SetVariantsRead, SubmitRead, ResumeRead,
         TransitionRequest, InternalPauseRead, CompleteRead, ActRead, stored
    <2>3. QED
      BY <2>1, <2>2
  <1>2. ASSUME NEW c \in Requests, Proceed(c)
        PROVE  Goal
    <2>1. req[c].step \in Steps => req[c].exp \in Experiments
      BY Owned
    <2>2. CASE SetVariants(c) \/ CreateVersion(c) \/ Transition(c) \/ Complete(c)
      <3>1. req[c].step \in Steps /\ RowCommit(req[c].exp)
        BY <2>2, SetVariantsCommit, CreateVersionCommit, TransitionCommit, CompleteCommit
           DEF SetVariants, CreateVersion, Transition, Complete, Steps
      <3>2. QED
        BY <2>1, <3>1
    <2>3. CASE OpenReview(c) \/ SubmitReview(c) \/ TransitionRead(c) \/ ActOnReview(c)
                   \/ ApplyReviewOutcome(c) \/ Fail(c)
      BY <2>3 DEF OpenReview, SubmitReview, TransitionRead, ActOnReview,
         ApplyReviewOutcome, Fail, stored
    <2>4. QED
      BY <1>2, <2>2, <2>3 DEF Proceed
  <1>3. ASSUME NEW u \in Users, NEW e \in Experiments,
               UpdateDraft(u, e) \/ RollbackToControl(u, e)
        PROVE  Goal
    BY <1>3, UpdateDraftCommit, RollbackCommit
  <1>4. ASSUME NEW f \in Flags, UpdateFlag(f) \/ DeleteFlag(f)
        PROVE  Goal
    BY <1>4 DEF UpdateFlag, DeleteFlag
  <1>5. CASE UNCHANGED vars
    BY <1>5 DEF vars, row
  <1>6. QED
    BY <1>1, <1>2, <1>3, <1>4, <1>5 DEF Next

-----------------------------------------------------------------------------
(* One active experiment per flag.                                         *)

LEMMA OneActiveStep ==
    ASSUME LifecycleAssumption, TypeInv, OneActivePerFlag, [Next]_vars
    PROVE  OneActivePerFlag'
  <1>1. CASE UNCHANGED <<row, variants>>
    BY <1>1 DEF OneActivePerFlag, row
  <1>2. ASSUME NEW e \in Experiments, RowCommit(e)
        PROVE  OneActivePerFlag'
    <2>1. /\ \A other \in Experiments \ {e} : status'[other] = status[other]
          /\ status'[e] \in Active => status[e] \in Active \/ FlagFree(e)
      BY <1>2 DEF RowCommit, OnlyRow
    <2>2. ASSUME NEW other \in Experiments \ {e}, FlagOf[other] = FlagOf[e],
                 status'[e] \in Active
          PROVE  status'[other] \notin Active
      BY <2>1, <2>2 DEF OneActivePerFlag, FlagFree
    <2>3. QED
      BY <2>1, <2>2 DEF OneActivePerFlag
  <1>3. QED
    BY <1>1, <1>2, RowStep

\* However starts, resumes, rollbacks and resets interleave, two experiments of
\* one flag never run or pause at the same time.
THEOREM FlagExclusive == Spec => []OneActivePerFlag
  <1>. USE LifecycleAssumption
  <1>1. Init => OneActivePerFlag
    BY DEF Init, OneActivePerFlag, Active
  <1>2. TypeInv /\ OneActivePerFlag /\ [Next]_vars => OneActivePerFlag'
    BY OneActiveStep
  <1>3. QED
    BY <1>1, <1>2, TypeInvariant, PTL DEF Spec

-----------------------------------------------------------------------------
(* The optimistic lock.                                                    *)

\* "Increments on every mutation", by one and for one experiment at a time.
THEOREM LockCounts == Spec => VersionCountsMutations
  <1>. USE LifecycleAssumption
  <1>. DEFINE Counted(e) ==
         /\ version'[e] \in {version[e], version[e] + 1}
         /\ <<status[e], cur[e], guardrail[e], decision[e], variants[e]>>'
                # <<status[e], cur[e], guardrail[e], decision[e], variants[e]>>
                => version'[e] = version[e] + 1
  <1>1. ASSUME TypeInv, [Next]_vars
        PROVE  \A e \in Experiments : Counted(e)
    <2>1. CASE UNCHANGED <<row, variants>>
      BY <2>1 DEF row
    <2>2. ASSUME NEW e \in Experiments, RowCommit(e)
          PROVE  \A other \in Experiments : Counted(other)
      BY <2>2 DEF RowCommit, OnlyRow
    <2>3. QED
      BY <1>1, <2>1, <2>2, RowStep
  <1>2. TypeInv /\ [Next]_vars => [\A e \in Experiments : Counted(e)]_vars
    BY <1>1
  <1>3. QED
    BY <1>2, TypeInvariant, PTL DEF Spec, VersionCountsMutations

\* The status and the mark a request holds are those of the row.
SeesRow(r) ==
    /\ r.from = status[r.exp]
    /\ (r.from = "paused" /\ r.to = "running" /\ guardrail[r.exp]) => r.guard = "clear"

\* A request about to commit sees the row as it is, if nothing has moved the
\* lock since it looked; the outcome of a review starts nothing.
Fresh(r) ==
    /\ (r.step \in {"transition", "complete"} /\ r.seen = version[r.exp]) => SeesRow(r)
    /\ r.step = "apply_read" => r.to # "running"

FreshInv == \A c \in Requests : Fresh(req[c])

\* A slot a step leaves alone stays fresh where the lock moves with the row.
LEMMA KeepFresh ==
    ASSUME LifecycleAssumption, TypeInv, FreshInv,
           NEW d \in Requests, req'[d] = req[d],
           \A e \in Experiments :
               /\ version[e] <= version'[e]
               /\ version'[e] = version[e] => /\ status'[e] = status[e]
                                              /\ guardrail'[e] = guardrail[e]
    PROVE  Fresh(req[d])'
  <1>1. ASSUME req[d].step \in {"transition", "complete"},
               req[d].seen = version'[req[d].exp]
        PROVE  SeesRow(req[d])'
    <2>1. /\ req[d].exp \in Experiments
          /\ req[d].seen \in 0..MaxLock
          /\ version[req[d].exp] \in 0..MaxLock
          /\ version'[req[d].exp] \in Nat => version[req[d].exp] <= req[d].seen
          /\ req[d].seen <= version[req[d].exp]
      BY <1>1, Owned DEF Steps, Behind
    <2>2. version'[req[d].exp] = version[req[d].exp]
      BY <1>1, <2>1
    <2>3. QED
      BY <1>1, <2>1, <2>2 DEF FreshInv, Fresh, SeesRow
  <1>2. req[d].step = "apply_read" => req[d].to # "running"
    BY DEF FreshInv, Fresh
  <1>3. QED
    BY <1>1, <1>2 DEF Fresh

\* What a first read stores is fresh.
LEMMA ReadFresh ==
    ASSUME LifecycleAssumption, TypeInv, NEW c \in Requests, NEW u \in Users,
           NEW e \in Experiments, Arrive(c, u, e)
    PROVE  \E r : Hold(c, r) /\ Fresh(r)'
  <1>. DEFINE Goal == \E r : Hold(c, r) /\ Fresh(r)'
              IsFresh(r) == /\ r.step # "apply_read"
                            /\ r.step = "transition" \/ r.step = "complete" => SeesRow(r)
  <1>1. ASSUME NEW r, Hold(c, r), UNCHANGED stored, IsFresh(r)
        PROVE  Goal
    <2>1. Fresh(r)'
      BY <1>1 DEF Fresh, SeesRow, stored, row
    <2>2. QED
      BY <1>1, <2>1
  <1>2. ASSUME NEW content \in Contents, Create(c, u, e, content)
        PROVE  Goal
    <2>. DEFINE r == [Request("set_variants", e, u) EXCEPT
                        !.lock = 1, !.seen = 1, !.from = "draft", !.to = "draft",
                        !.ver = 1, !.content = content]
    <2>1. r.step = "set_variants" /\ NoRequest.step = "idle"
      BY DEF Request, NoRequest
    <2>2. Hold(c, IF content = NoVariants THEN NoRequest ELSE r)
      BY <1>2 DEF Create, CreateExperiment
    <2>. HIDE DEF r
    <2>3. QED
      BY <2>1, <2>2 DEF Fresh
  <1>3. ASSUME NEW content \in Contents, CreateVersionRead(c, u, e, content)
        PROVE  Goal
    <2>. DEFINE r == [Request("create_version", e, u) EXCEPT !.content = content]
    <2>1. r.step = "create_version"
      BY DEF Request
    <2>2. QED
      BY <1>1, <1>3, <2>1 DEF CreateVersionRead
  <1>4. ASSUME NEW content \in VariantSets, SetVariantsRead(c, u, e, content)
        PROVE  Goal
    <2>. DEFINE r == [Request("set_variants", e, u) EXCEPT
                        !.ver = cur[e], !.content = content]
    <2>1. r.step = "set_variants"
      BY DEF Request
    <2>2. QED
      BY <1>1, <1>4, <2>1 DEF SetVariantsRead
  <1>5. ASSUME NEW lock \in Sent(e), SubmitRead(c, u, e, lock)
        PROVE  Goal
    <2>. DEFINE r == [Request("submit_review", e, u) EXCEPT
                        !.lock = lock, !.ver = cur[e], !.to = "review"]
    <2>1. r.step = "submit_review"
      BY DEF Request
    <2>2. QED
      BY <1>1, <1>5, <2>1 DEF SubmitRead
  <1>6. ASSUME NEW lock \in Sent(e), ResumeRead(c, u, e, lock)
        PROVE  Goal
    <2>. DEFINE r == [Request("transition_read", e, u) EXCEPT !.lock = lock, !.to = "running"]
    <2>1. r.step = "transition_read"
      BY DEF Request
    <2>2. QED
      BY <1>1, <1>6, <2>1 DEF ResumeRead
  <1>7. ASSUME NEW lock \in Sent(e), NEW to \in Statuses,
               TransitionRequest(c, u, e, lock, to)
        PROVE  Goal
    <2>. DEFINE r == [Request("transition_read", e, u) EXCEPT !.lock = lock, !.to = to]
                x == ReadForTransition(r)
    <2>1. x.step = "transition" /\ SeesRow(x)
      BY DEF ReadForTransition, Request, SeesRow
    <2>2. Hold(c, x) /\ UNCHANGED stored
      BY <1>7, Zenon DEF TransitionRequest
    <2>. HIDE DEF r, x
    <2>3. QED
      BY <1>1, <2>1, <2>2
  <1>8. ASSUME NEW lock \in Sent(e), InternalPauseRead(c, u, e, lock)
        PROVE  Goal
    <2>. DEFINE r == [Request("transition", e, u) EXCEPT
                        !.lock = lock, !.to = "paused", !.guard = "set"]
    <2>1. r.step = "transition" /\ SeesRow(r)
      BY DEF Request, SeesRow
    <2>2. QED
      BY <1>1, <1>8, <2>1 DEF InternalPauseRead
  <1>9. ASSUME NEW lock \in Sent(e), NEW verdict \in Decisions,
               CompleteRead(c, u, e, lock, verdict)
        PROVE  Goal
    <2>. DEFINE r == [Request("complete", e, u) EXCEPT !.lock = lock, !.verdict = verdict]
    <2>1. r.step = "complete" /\ SeesRow(r)
      BY DEF Request, SeesRow
    <2>2. QED
      BY <1>1, <1>9, <2>1 DEF CompleteRead
  <1>10. ASSUME NEW lock \in Sent(e), NEW n \in Versions,
                NEW verdict \in {"approve", "request_changes", "reject"},
                ActRead(c, u, e, lock, n, verdict)
         PROVE  Goal
    <2>. DEFINE r == [Request("act", e, u) EXCEPT
                        !.lock = lock, !.ver = n, !.verdict = verdict]
    <2>1. r.step = "act"
      BY DEF Request
    <2>2. QED
      BY <1>1, <1>10, <2>1 DEF ActRead
  <1>. HIDE DEF Goal
  <1>11. Goal
    BY <1>2, <1>3, <1>4, <1>5, <1>6, <1>7, <1>8, <1>9, <1>10 DEF Arrive
  <1>12. QED
    BY <1>11 DEF Goal

\* So is what a later step of a request stores.
LEMMA ProceedFresh ==
    ASSUME LifecycleAssumption, TypeInv, FreshInv, NEW c \in Requests, Proceed(c)
    PROVE  \E r : Hold(c, r) /\ Fresh(r)'
  <1>. DEFINE Goal == \E r : Hold(c, r) /\ Fresh(r)'
              r == req[c]
  <1>1. NoRequest.step = "idle"
    BY DEF NoRequest
  <1>2. \A x : x.step \notin {"transition", "complete", "apply_read"} => Fresh(x)'
    BY DEF Fresh
  <1>3. CASE SetVariants(c) \/ Transition(c) \/ Complete(c) \/ Fail(c)
    BY <1>1, <1>2, <1>3 DEF SetVariants, Transition, Complete, Fail, Finish
  <1>4. \A x \in RequestRecords :
            VariantsNext(x).step \notin {"transition", "complete", "apply_read"}
    BY <1>1 DEF VariantsNext, RequestRecords
  <1>5. CASE CreateVersion(c)
    <2>. DEFINE next == [r EXCEPT !.ver = cur[r.exp] + 1]
                x == [next EXCEPT !.step = "open_review"]
    <2>1. r \in RequestRecords /\ cur[r.exp] + 1 \in 0..MaxVersions
      <3>1. r \in RequestRecords /\ r.exp \in Experiments
        BY <1>5, Owned DEF CreateVersion, Steps
      <3>2. QED
        BY <1>5, <3>1 DEF CreateVersion, TypeInv, TypeOK, LifecycleAssumption
    <2>2. next \in RequestRecords
      BY <2>1, EditTypes
    <2>3. x.step = "open_review"
      BY <2>1 DEF RequestRecords
    <2>4. Hold(c, IF r.from = "review" THEN x ELSE VariantsNext(next))
      BY <1>5 DEF CreateVersion
    <2>. HIDE DEF next, x
    <2>5. QED
      BY <1>2, <1>4, <2>2, <2>3, <2>4
  <1>6. CASE OpenReview(c)
    <2>1. r \in RequestRecords
      BY <1>6, Owned DEF OpenReview, Steps
    <2>2. QED
      BY <1>2, <1>4, <1>6, <2>1 DEF OpenReview
  <1>7. CASE SubmitReview(c)
    <2>. DEFINE x == [r EXCEPT !.step = "transition_read"]
    <2>1. r \in RequestRecords
      BY <1>7, Owned DEF SubmitReview, Steps
    <2>2. x.step = "transition_read"
      BY <2>1 DEF RequestRecords
    <2>3. QED
      BY <1>2, <1>7, <2>2 DEF SubmitReview
  <1>8. CASE TransitionRead(c)
    <2>. DEFINE x == ReadForTransition(r)
    <2>1. r \in RequestRecords
      BY <1>8, Owned DEF TransitionRead, Steps
    <2>2. x.step = "transition" /\ SeesRow(x)
      BY <2>1 DEF ReadForTransition, RequestRecords, SeesRow
    <2>3. Hold(c, x) /\ UNCHANGED <<status, guardrail>>
      BY <1>8, Zenon DEF TransitionRead, stored, row
    <2>. HIDE DEF x
    <2>4. QED
      BY <2>2, <2>3 DEF Fresh, SeesRow
  <1>9. CASE ApplyReviewOutcome(c)
    <2>. DEFINE x == [r EXCEPT !.step = "transition", !.seen = version[r.exp],
                               !.from = status[r.exp]]
    <2>1. r \in RequestRecords
      BY <1>9, Owned DEF ApplyReviewOutcome, Steps
    <2>2. r.to # "running"
      BY <1>9 DEF ApplyReviewOutcome, FreshInv, Fresh
    <2>3. x.step = "transition" /\ SeesRow(x)
      BY <2>1, <2>2 DEF RequestRecords, SeesRow
    <2>4. Hold(c, x) /\ UNCHANGED <<status, guardrail>>
      BY <1>9 DEF ApplyReviewOutcome, stored, row
    <2>. HIDE DEF x
    <2>5. QED
      BY <2>3, <2>4 DEF Fresh, SeesRow
  <1>10. CASE ActOnReview(c)
    <2>. DEFINE x == [r EXCEPT !.step = "apply_read", !.to = TargetOf(Outcome(r))]
    <2>1. r \in RequestRecords
      BY <1>10, Owned DEF ActOnReview, Steps
    <2>2. x.step = "apply_read" /\ x.to = TargetOf(Outcome(r))
      BY <2>1 DEF RequestRecords
    <2>3. Hold(c, IF Outcome(r) = "open" THEN NoRequest ELSE x)
      BY <1>10 DEF ActOnReview
    <2>4. Outcome(r) # "open" => TargetOf(Outcome(r)) # "running"
      BY DEF Outcome, TargetOf
    <2>. HIDE DEF x
    <2>5. \A y : y.step = "apply_read" /\ y.to # "running" => Fresh(y)'
      BY DEF Fresh
    <2>6. \A y : Hold(c, y) /\ Fresh(y)' => Goal
      OBVIOUS
    <2>. HIDE DEF Goal
    <2>7. CASE Outcome(r) = "open"
      BY <1>1, <1>2, <2>3, <2>6, <2>7
    <2>8. CASE Outcome(r) # "open"
      BY <2>2, <2>3, <2>4, <2>5, <2>6, <2>8
    <2>9. QED
      BY <2>7, <2>8
  <1>. HIDE DEF Goal
  <1>11. QED
    BY <1>3, <1>5, <1>6, <1>7, <1>8, <1>9, <1>10 DEF Proceed

LEMMA FreshStep ==
    ASSUME LifecycleAssumption, TypeInv, FreshInv, [Next]_vars
    PROVE  FreshInv'
  <1>1. \A e \in Experiments :
            /\ version[e] <= version'[e]
            /\ version'[e] = version[e] => /\ status'[e] = status[e]
                                           /\ guardrail'[e] = guardrail[e]
    <2>1. version \in [Experiments -> 0..MaxLock]
      BY DEF TypeInv, TypeOK
    <2>2. CASE UNCHANGED <<row, variants>>
      BY <2>1, <2>2 DEF row
    <2>3. ASSUME NEW e \in Experiments, RowCommit(e)
          PROVE  \A other \in Experiments :
                     /\ version[other] <= version'[other]
                     /\ version'[other] = version[other] =>
                            /\ status'[other] = status[other]
                            /\ guardrail'[other] = guardrail[other]
      BY <2>1, <2>3 DEF RowCommit, OnlyRow
    <2>4. QED
      BY <2>2, <2>3, RowStep
  <1>2. ASSUME NEW c \in Requests, \E r : Hold(c, r) /\ Fresh(r)'
        PROVE  FreshInv'
    <2>1. PICK r : Hold(c, r) /\ Fresh(r)'
      BY <1>2
    <2>2. /\ req'[c] = r
          /\ \A d \in Requests \ {c} : req'[d] = req[d]
      BY <2>1 DEF Hold, TypeInv, TypeOK
    <2>3. \A d \in Requests \ {c} : Fresh(req[d])'
      BY <1>1, <2>2, KeepFresh
    <2>4. Fresh(req[c])'
      BY <2>1, <2>2 DEF Fresh, SeesRow
    <2>5. QED
      BY <2>3, <2>4 DEF FreshInv
  <1>3. ASSUME UNCHANGED req
        PROVE  FreshInv'
    BY <1>1, <1>3, KeepFresh DEF FreshInv
  <1>4. \/ \E c \in Requests : \E r : Hold(c, r) /\ Fresh(r)'
        \/ UNCHANGED req
    BY ReadFresh, ProceedFresh
       DEF Next, UpdateDraft, RollbackToControl, UpdateFlag, DeleteFlag, vars
  <1>5. QED
    BY <1>2, <1>3, <1>4

\* What a handler read without a lock - the status and the guardrail mark - is
\* still true when its version matches at the commit, whatever other requests did
\* in between, unless the client sent a version ahead of the row that was read
\* (transition, Complete and ApplyReviewOutcome leave the comparison to the
\* transaction).
THEOREM LockFresh == Spec => []LockMeansFresh
  <1>. USE LifecycleAssumption
  <1>1. Init => FreshInv
    BY DEF Init, FreshInv, Fresh, NoRequest
  <1>2. TypeInv /\ FreshInv /\ [Next]_vars => FreshInv'
    BY FreshStep
  <1>3. TypeInv /\ FreshInv => LockMeansFresh
    <2>1. ASSUME TypeInv, FreshInv, NEW c \in Requests,
                 req[c].step \in {"transition", "complete"},
                 LockHolds(req[c]), req[c].lock <= req[c].seen
          PROVE  SeesRow(req[c])
      <3>1. /\ req[c].seen <= version[req[c].exp] /\ req[c].lock = version[req[c].exp]
            /\ req[c].seen \in 0..MaxLock /\ version[req[c].exp] \in 0..MaxLock
        BY <2>1, Owned DEF Steps, Behind, LockHolds
      <3>2. req[c].seen = version[req[c].exp]
        BY <2>1, <3>1
      <3>3. QED
        BY <2>1, <3>2 DEF FreshInv, Fresh
    <2>2. QED
      BY <2>1 DEF LockMeansFresh, SeesRow
  <1>4. QED
    BY <1>1, <1>2, <1>3, TypeInvariant, PTL DEF Spec

-----------------------------------------------------------------------------
(* The lease of a flag.                                                    *)

\* Who holds the lease of each flag.
holders == [f \in Flags |-> HolderOf(f)]

\* The lease of a flag is its one active experiment's, or nobody's.
LEMMA HolderKnown ==
    ASSUME LifecycleAssumption, OneActivePerFlag, NEW e \in Experiments
    PROVE  /\ status[e] \in Active => HolderOf(FlagOf[e]) = e
           /\ status[e] \notin Active /\ FlagFree(e) => HolderOf(FlagOf[e]) = Nobody
  <1>1. \A x \in Experiments :
            FlagOf[x] = FlagOf[e] /\ status[x] \in Active /\ status[e] \in Active => x = e
    BY DEF OneActivePerFlag
  <1>2. CASE status[e] \in Active
    BY <1>1, <1>2 DEF HolderOf
  <1>3. CASE status[e] \notin Active /\ FlagFree(e)
    BY <1>3 DEF HolderOf, FlagFree
  <1>4. QED
    BY <1>2, <1>3

\* So it is after a step.
LEMMA HolderKnownNext ==
    ASSUME LifecycleAssumption, OneActivePerFlag', NEW e \in Experiments
    PROVE  /\ status'[e] \in Active => HolderOf(FlagOf[e])' = e
           /\ status'[e] \notin Active /\ FlagFree(e)' => HolderOf(FlagOf[e])' = Nobody
  <1>1. \A x \in Experiments :
            FlagOf[x] = FlagOf[e] /\ status'[x] \in Active /\ status'[e] \in Active => x = e
    BY DEF OneActivePerFlag
  <1>2. CASE status'[e] \in Active
    BY <1>1, <1>2 DEF HolderOf
  <1>3. CASE status'[e] \notin Active /\ FlagFree(e)'
    BY <1>3 DEF HolderOf, FlagFree
  <1>4. QED
    BY <1>2, <1>3

\* The lease of a flag moves only with the activity of its experiments.
LEMMA HolderKept ==
    ASSUME LifecycleAssumption, OneActivePerFlag, OneActivePerFlag', NEW f \in Flags,
           \A x \in Experiments :
               FlagOf[x] = f => (status'[x] \in Active <=> status[x] \in Active)
    PROVE  HolderOf(f)' = HolderOf(f)
  <1>1. CASE \E x \in Experiments : FlagOf[x] = f /\ status[x] \in Active
    <2>1. PICK x \in Experiments : FlagOf[x] = f /\ status[x] \in Active
      BY <1>1
    <2>2. QED
      BY <2>1, HolderKnown, HolderKnownNext
  <1>2. CASE ~ \E x \in Experiments : FlagOf[x] = f /\ status[x] \in Active
    BY <1>2 DEF HolderOf
  <1>3. QED
    BY <1>1, <1>2

LEMMA LeaseStep ==
    ASSUME LifecycleAssumption, TypeInv, OneActivePerFlag, OneActivePerFlag', [Next]_vars
    PROVE  [Lease!Next]_holders
  <1>1. ASSUME UNCHANGED status
        PROVE  UNCHANGED holders
    BY <1>1, HolderKept DEF holders
  <1>2. ASSUME NEW e \in Experiments, RowCommit(e)
        PROVE  [Lease!Next]_holders
    <2>. DEFINE f == FlagOf[e]
    <2>1. /\ f \in Flags
          /\ \A x \in Experiments \ {e} : status'[x] = status[x]
          /\ FlagFree(e)' <=> FlagFree(e)
          /\ status'[e] \in Active => status[e] \in Active \/ FlagFree(e)
      BY <1>2 DEF RowCommit, OnlyRow, FlagFree, LifecycleAssumption
    <2>2. \A g \in Flags \ {f} : HolderOf(g)' = HolderOf(g)
      BY <2>1, HolderKept
    <2>3. CASE status'[e] \in Active <=> status[e] \in Active
      <3>1. HolderOf(f)' = HolderOf(f)
        BY <2>1, <2>3, HolderKept
      <3>2. QED
        BY <2>2, <3>1 DEF holders
    <2>4. CASE status'[e] \in Active /\ status[e] \notin Active
      <3>1. HolderOf(f) = Nobody /\ HolderOf(f)' = e
        BY <2>1, <2>4, HolderKnown, HolderKnownNext
      <3>2. Lease!Acquire(e)
        BY <2>1, <2>2, <3>1 DEF Lease!Acquire
      <3>3. QED
        BY <3>2 DEF Lease!Next
    <2>5. CASE status'[e] \notin Active /\ status[e] \in Active
      <3>1. FlagFree(e)
        BY <2>5 DEF OneActivePerFlag, FlagFree
      <3>2. HolderOf(f) = e /\ HolderOf(f)' = Nobody
        BY <2>1, <2>5, <3>1, HolderKnown, HolderKnownNext
      <3>3. Lease!Release(e)
        BY <2>1, <2>2, <3>2 DEF Lease!Release
      <3>4. QED
        BY <3>3 DEF Lease!Next
    <2>6. QED
      BY <2>3, <2>4, <2>5
  <1>3. QED
    BY <1>1, <1>2, RowStep DEF row

\* However starts, pauses, resumes, completions, rollbacks and resets of the
\* experiments of a flag interleave, they acquire and release its lease in turn.
THEOREM LeaseImplemented == Spec => ImplementsLease
  <1>. USE LifecycleAssumption
  <1>1. Init => Lease!Init
    BY DEF Init, Lease!Init, HolderOf, Active
  <1>2. TypeInv /\ OneActivePerFlag /\ OneActivePerFlag' /\ [Next]_vars => [Lease!Next]_holders
    BY LeaseStep
  <1>3. QED
    BY <1>1, <1>2, TypeInvariant, FlagExclusive, PTL
       DEF Spec, ImplementsLease, Lease!Spec, holders
=============================================================================
