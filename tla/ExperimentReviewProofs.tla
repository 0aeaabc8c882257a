----------------------- MODULE ExperimentReviewProofs -----------------------
(***************************************************************************)
(* What happens to an experiment between its creation and its archive, for *)
(* every value of the constants: its audit trail, its completion decision, *)
(* its reviews and their approvals, the guardrail mark and the variants.   *)
(*                                                                         *)
(* The argument is about the requests in flight: each holds a target and a *)
(* state it read without a lock, and RequestsSound says what is known of   *)
(* them however many other requests commit in between.                     *)
(*                                                                         *)
(* Three of the theorems name the one interleaving that breaks the rule    *)
(* they are about: a resume that commits a version ahead of the row it     *)
(* read (CommitsAhead), and a version created of a row that has moved      *)
(* since its handler read it (Overtaken).                                  *)
(***************************************************************************)
EXTENDS ExperimentLifecycleProofs

-----------------------------------------------------------------------------
(* The inductive invariant.                                                *)

\* A vote is on a version, and is one of the three.
ActSound(r) ==
    r.step = "act" => /\ r.ver \in Versions
                      /\ r.verdict \in {"approve", "request_changes", "reject"}

\* A transition never completes an experiment, and approves it only after a
\* review was approved.
TargetSound(r) ==
    /\ r.step \in {"submit_review", "transition_read", "apply_read", "transition"} =>
           /\ r.to # "completed"
           /\ r.to = "approved" => \E n \in Versions : review[r.exp][n] = "approved"
    /\ r.step = "apply_read" => r.to # "running"

\* What is about to be committed is an edge from the status that was read.
CommitSound(r) ==
    /\ r.step = "transition" => <<r.from, r.to>> \in Edges
    /\ r.step = "complete" => r.from \in Active

\* A resume of the row it has read has seen the guardrail mark of the row.
MarkSound(r) ==
    (/\ r.step = "transition"
     /\ r.seen = version[r.exp]
     /\ r.from = "paused"
     /\ r.to = "running"
     /\ guardrail[r.exp]) => r.guard = "clear" /\ r.user \in Admins

\* CreateVersion has compared the client's version with the row, and accepted
\* the status it then saw.
NewSound(r) ==
    r.step = "create_version" =>
        /\ r.lock = r.seen
        /\ r.from \in Versionable
        /\ r.seen = version[r.exp] => r.from = status[r.exp]

\* The version a request expects when it stores its variants.
Expected(r) == IF r.step = "set_variants" THEN r.lock ELSE r.lock + 1

\* Variants that can still be stored are not those of a running experiment, and
\* belong to a draft or to a version that has none: the one the request created.
FillSound(r) ==
    r.step \in {"set_variants", "open_review"} =>
        /\ r.ver \in 1..cur[r.exp]
        /\ Expected(r) <= version[r.exp]
        /\ Expected(r) = version[r.exp] =>
               /\ status[r.exp] # "running"
               /\ status[r.exp] = "draft" \/ variants[r.exp][r.ver] = NoVariants

Sound(r) ==
    /\ ActSound(r) /\ TargetSound(r) /\ CommitSound(r)
    /\ MarkSound(r) /\ NewSound(r) /\ FillSound(r)

RequestsSound == \A c \in Requests : Sound(req[c])

\* An experiment is created without the mark of a guardrail pause, and with its
\* first version.
CreatedClean ==
    \A e \in Experiments : status[e] = "none" => ~guardrail[e] /\ cur[e] = 0

\* The versions to come have no variants yet.
FutureEmpty ==
    \A e \in Experiments, n \in Versions : n > cur[e] => variants[e][n] = NoVariants

ReviewInv ==
    /\ FreshInv
    /\ RequestsSound
    /\ CreatedClean
    /\ FutureEmpty
    /\ AuditCurrent
    /\ DecisionMatchesStatus
    /\ ApprovedHasReview
    /\ ApprovalQuorum

-----------------------------------------------------------------------------
(* What a step does to the status of an experiment.                        *)

\* User u moves e to the status "to"; the mark becomes g and the decision d.
Moved(e, u, to, g, d) ==
    /\ RowCommit(e)
    /\ status'[e] = to
    /\ guardrail'[e] = g
    /\ decision'[e] = d
    /\ Audit(e, u, to, g)

\* Why it may: the experiment is new, a new version replaces a reviewed one,
\* the status graph has the edge, or the experiment is completed.
MayMove(e, u, to, g, d) ==
    \/ status[e] = "none" /\ to = "draft" /\ g = FALSE /\ d = decision[e]
    \/ /\ status[e] \in ResetStatuses \/ Overtaken(e)
       /\ to = "draft" /\ g = guardrail[e] /\ d = "none"
    \/ /\ <<status[e], to>> \in Edges
       /\ to # "completed"
       /\ to = "approved" => \E n \in Versions : review[e][n] = "approved"
       /\ status[e] = "paused" /\ to = "running" /\ guardrail[e] =>
              (u \in Admins /\ ~g) \/ CommitsAhead(e)
       /\ d = decision[e]
    \/ status[e] \in Active /\ to = "completed" /\ g = guardrail[e] /\ d # "none"

\* Where the edges of the status graph lead.
LEMMA EdgeFacts ==
    ASSUME NEW from, NEW to, <<from, to>> \in Edges
    PROVE  /\ to # "none" /\ from # "none"
           /\ from # "archived"
           /\ from = "completed" <=> to = "archived"
           /\ to \in {"running", "paused"} => from \in {"approved", "running", "paused"}
  BY DEF Edges

Move(e) ==
    \E u \in Users, to \in Existing, g \in BOOLEAN, d \in Decisions :
        Moved(e, u, to, g, d) /\ MayMove(e, u, to, g, d)

\* The row of e changes, but neither its status nor anything audited.
Edit(e) ==
    /\ status[e] # "none"
    /\ RowCommit(e)
    /\ UNCHANGED <<status, guardrail, decision, auditTail>>

LEMMA CreateMove ==
    ASSUME LifecycleAssumption, TypeInv, CreatedClean,
           NEW c \in Requests, NEW u \in Users, NEW e \in Experiments,
           NEW content \in Contents, Create(c, u, e, content)
    PROVE  Move(e)
  <1>1. /\ TypeOK
        /\ status[e] = "none"
        /\ status' = [status EXCEPT ![e] = "draft"]
        /\ Audit(e, u, "draft", FALSE)
        /\ UNCHANGED <<guardrail, decision>>
    BY DEF Create, CreateExperiment, TypeInv
  <1>2. Moved(e, u, "draft", FALSE, decision[e])
    BY <1>1, CreateCommit DEF Moved, TypeOK, CreatedClean
  <1>3. "draft" \in Existing /\ decision[e] \in Decisions
    BY <1>1 DEF Existing, Statuses, TypeOK
  <1>4. QED
    BY <1>1, <1>2, <1>3 DEF Move, MayMove

\* A version is created of the row as it was read, or the read is outdated.
LEMMA CreateVersionFresh ==
    ASSUME LifecycleAssumption, TypeInv, NEW c \in Requests, Sound(req[c]), CreateVersion(c)
    PROVE  /\ req[c].from \in Versionable
           /\ status[req[c].exp] = req[c].from \/ Overtaken(req[c].exp)
  <1>. DEFINE r == req[c]
              e == r.exp
              next == [r EXCEPT !.ver = cur[e] + 1]
  <1>1. /\ r \in RequestRecords /\ e \in Experiments /\ r.step = "create_version"
        /\ cur[e] + 1 \in 0..MaxVersions /\ cur[e] \in Nat
        /\ TypeOK
    BY Owned DEF CreateVersion, Steps, TypeInv, TypeOK, LifecycleAssumption, Versions
  <1>2. next \in RequestRecords
    BY <1>1, EditTypes
  <1>3. [next EXCEPT !.step = "open_review"].step = "open_review"
    BY <1>2 DEF RequestRecords
  <1>4. VariantsNext(next).step # "create_version"
    BY <1>2 DEF VariantsNext, NoRequest, RequestRecords
  <1>5. Hold(c, IF r.from = "review" THEN [next EXCEPT !.step = "open_review"]
                ELSE VariantsNext(next))
    BY DEF CreateVersion
  <1>6. req'[c].step # "create_version"
    <2>1. \A x : x.step # "create_version" /\ Hold(c, x) => req'[c].step # "create_version"
      BY <1>1 DEF Hold, TypeOK
    <2>. HIDE DEF next
    <2>2. QED
      BY <1>3, <1>4, <1>5, <2>1
  <1>7. cur'[e] # cur[e]
    BY <1>1 DEF CreateVersion, TypeOK
  <1>8. r.from \in Versionable /\ (r.seen = version[e] => status[e] = r.from)
    BY <1>1 DEF Sound, NewSound
  <1>. HIDE DEF next
  <1>9. QED
    BY <1>1, <1>6, <1>7, <1>8 DEF Overtaken

LEMMA CreateVersionMove ==
    ASSUME LifecycleAssumption, TypeInv, NEW c \in Requests, Sound(req[c]), CreateVersion(c)
    PROVE  Move(req[c].exp) \/ Edit(req[c].exp)
  <1>. DEFINE r == req[c]
              e == r.exp
  <1>1. /\ TypeOK /\ e \in Experiments /\ r.user \in Users
        /\ status[e] # "none" /\ RowCommit(e)
    BY Owned, CreateVersionCommit DEF CreateVersion, Steps, TypeInv
  <1>2. CASE r.from \in ResetStatuses
    <2>1. ResetToDraft(e, r.user) /\ UNCHANGED guardrail
      BY <1>2 DEF CreateVersion
    <2>2. Moved(e, r.user, "draft", guardrail[e], "none")
      BY <1>1, <2>1 DEF ResetToDraft, Moved, TypeOK
    <2>3. "draft" \in Existing /\ "none" \in Decisions /\ guardrail[e] \in BOOLEAN
      BY <1>1 DEF Existing, Statuses, Decisions, TypeOK
    <2>4. status[e] \in ResetStatuses \/ Overtaken(e)
      BY <1>2, CreateVersionFresh
    <2>5. QED
      BY <1>1, <2>2, <2>3, <2>4 DEF Move, MayMove
  <1>3. CASE r.from \notin ResetStatuses
    BY <1>1, <1>3 DEF CreateVersion, Edit
  <1>4. QED
    BY <1>2, <1>3

LEMMA TransitionMove ==
    ASSUME LifecycleAssumption, TypeInv, NEW c \in Requests, Sound(req[c]), Transition(c)
    PROVE  Move(req[c].exp)
  <1>. DEFINE r == req[c]
              e == r.exp
              g == CASE r.guard = "set" -> TRUE
                     [] r.guard = "clear" -> FALSE
                     [] OTHER -> guardrail[e]
  <1>1. /\ TypeOK /\ e \in Experiments /\ r.user \in Users /\ r.to \in Existing
        /\ RowCommit(e)
    BY Owned, TransitionCommit DEF Transition, Steps, TypeInv
  <1>2. /\ r.step = "transition"
        /\ status[e] = r.from
        /\ r.lock = version[e]
        /\ status' = [status EXCEPT ![e] = r.to]
        /\ guardrail' = [guardrail EXCEPT ![e] = g]
        /\ Audit(e, r.user, r.to, g)
        /\ UNCHANGED decision
    BY DEF Transition, LockHolds
  <1>3. g \in BOOLEAN /\ decision[e] \in Decisions
    BY <1>1 DEF TypeOK
  <1>4. r.guard = "clear" => ~g
    OBVIOUS
  <1>. HIDE DEF g
  <1>5. Moved(e, r.user, r.to, g, decision[e])
    BY <1>1, <1>2 DEF Moved, TypeOK
  <1>6. CommitsAhead(e) \/ r.seen = version[e]
    <2>1. /\ r.seen \in 0..MaxLock /\ version[e] \in 0..MaxLock
          /\ r.seen <= version[e]
      BY <1>2, Owned DEF Steps, Behind
    <2>2. req'[c] = NoRequest
      BY <1>1 DEF Transition, Finish, Hold, TypeOK
    <2>3. QED
      BY <1>2, <2>1, <2>2 DEF CommitsAhead
  <1>7. MayMove(e, r.user, r.to, g, decision[e])
    BY <1>2, <1>4, <1>6 DEF MayMove, Sound, TargetSound, CommitSound, MarkSound
  <1>8. QED
    BY <1>1, <1>3, <1>5, <1>7 DEF Move

LEMMA RollbackMove ==
    ASSUME LifecycleAssumption, TypeInv, NEW u \in Users, NEW e \in Experiments,
           RollbackToControl(u, e)
    PROVE  Move(e)
  <1>1. /\ TypeOK
        /\ status[e] = "running"
        /\ status' = [status EXCEPT ![e] = "paused"]
        /\ guardrail' = [guardrail EXCEPT ![e] = TRUE]
        /\ Audit(e, u, "paused", TRUE)
        /\ UNCHANGED decision
    BY DEF RollbackToControl, TypeInv
  <1>2. Moved(e, u, "paused", TRUE, decision[e])
    BY <1>1, RollbackCommit DEF Moved, TypeOK
  <1>3. "paused" \in Existing /\ decision[e] \in Decisions /\ <<"running", "paused">> \in Edges
    BY <1>1 DEF Existing, Statuses, TypeOK, Edges
  <1>4. QED
    BY <1>1, <1>2, <1>3 DEF Move, MayMove

LEMMA CompleteMove ==
    ASSUME LifecycleAssumption, TypeInv, NEW c \in Requests, Sound(req[c]), Complete(c)
    PROVE  Move(req[c].exp)
  <1>. DEFINE r == req[c]
              e == r.exp
  <1>1. /\ TypeOK /\ e \in Experiments /\ r.user \in Users
        /\ RowCommit(e)
    BY Owned, CompleteCommit DEF Complete, Steps, TypeInv
  <1>2. /\ r.step = "complete"
        /\ status[e] = r.from
        /\ r.verdict \in {"no_effect", "rollback", "rollout_winner"}
        /\ status' = [status EXCEPT ![e] = "completed"]
        /\ decision' = [decision EXCEPT ![e] = r.verdict]
        /\ Audit(e, r.user, "completed", guardrail[e])
        /\ UNCHANGED guardrail
    BY DEF Complete
  <1>3. Moved(e, r.user, "completed", guardrail[e], r.verdict)
    BY <1>1, <1>2 DEF Moved, TypeOK
  <1>4. /\ "completed" \in Existing /\ guardrail[e] \in BOOLEAN
        /\ r.verdict \in Decisions /\ r.verdict # "none"
    BY <1>1, <1>2 DEF Existing, Statuses, Decisions, TypeOK
  <1>5. MayMove(e, r.user, "completed", guardrail[e], r.verdict)
    BY <1>2, <1>4 DEF MayMove, Sound, CommitSound
  <1>6. QED
    BY <1>1, <1>3, <1>4, <1>5 DEF Move

\* A step moves one experiment along, edits one, or leaves every row alone.
LEMMA MoveStep ==
    ASSUME LifecycleAssumption, TypeInv, CreatedClean, RequestsSound, [Next]_vars
    PROVE  \/ UNCHANGED <<row, variants, auditTail>>
           \/ \E e \in Experiments : Move(e) \/ Edit(e)
  <1>. DEFINE Goal == \/ UNCHANGED <<row, variants, auditTail>>
                      \/ \E e \in Experiments : Move(e) \/ Edit(e)
  <1>1. ASSUME NEW c \in Requests, NEW u \in Users, NEW e \in Experiments, Arrive(c, u, e)
        PROVE  Goal
    <2>1. ASSUME NEW content \in Contents, Create(c, u, e, content)
          PROVE  Goal
      BY <2>1, CreateMove
    <2>2. CASE ~ \E content \in Contents : Create(c, u, e, content)
      BY <1>1, <2>2 DEF Arrive, CreateVersionRead, SetVariantsRead, SubmitRead, ResumeRead,
         TransitionRequest, InternalPauseRead, CompleteRead, ActRead, stored
    <2>3. QED
      BY <2>1, <2>2
  <1>2. ASSUME NEW c \in Requests, Proceed(c)
        PROVE  Goal
    <2>1. (req[c].step \in Steps => req[c].exp \in Experiments) /\ Sound(req[c])
      BY Owned DEF RequestsSound
    <2>2. CASE CreateVersion(c) \/ Transition(c) \/ Complete(c)
      <3>1. req[c].step \in Steps
        BY <2>2 DEF CreateVersion, Transition, Complete, Steps
      <3>2. Move(req[c].exp) \/ Edit(req[c].exp)
        BY <2>1, <2>2, CreateVersionMove, TransitionMove, CompleteMove
      <3>3. QED
        BY <2>1, <3>1, <3>2
    <2>3. CASE SetVariants(c)
      <3>1. req[c].step \in Steps /\ Edit(req[c].exp)
        BY <2>3, Owned, SetVariantsCommit DEF SetVariants, Steps, Edit
      <3>2. QED
        BY <2>1, <3>1
    <2>4. CASE OpenReview(c) \/ SubmitReview(c) \/ TransitionRead(c) \/ ActOnReview(c)
                   \/ ApplyReviewOutcome(c) \/ Fail(c)
      BY <2>4 DEF OpenReview, SubmitReview, TransitionRead, ActOnReview,
         ApplyReviewOutcome, Fail, stored
    <2>5. QED
      BY <1>2, <2>2, <2>3, <2>4 DEF Proceed
  <1>3. ASSUME NEW u \in Users, NEW e \in Experiments,
               UpdateDraft(u, e) \/ RollbackToControl(u, e)
        PROVE  Goal
    BY <1>3, UpdateDraftCommit, RollbackMove DEF UpdateDraft, Edit
  <1>4. ASSUME NEW f \in Flags, UpdateFlag(f) \/ DeleteFlag(f)
        PROVE  Goal
    BY <1>4 DEF UpdateFlag, DeleteFlag
  <1>5. CASE UNCHANGED vars
    BY <1>5 DEF vars, row
  <1>6. QED
    BY <1>1, <1>2, <1>3, <1>4, <1>5 DEF Next

-----------------------------------------------------------------------------
(* What a step leaves as it was.                                           *)

\* Where the lock stands still so does everything requests have read.
RowsKept ==
    \A e \in Experiments :
        /\ version[e] <= version'[e]
        /\ cur[e] <= cur'[e]
        /\ version'[e] = version[e] => /\ status'[e] = status[e]
                                      /\ guardrail'[e] = guardrail[e]
                                      /\ variants'[e] = variants[e]

\* A closed review, and its approvals, stay as they are.
ClosedKept ==
    \A e \in Experiments, n \in Versions :
        review[e][n] \notin {"none", "open"}
            => review'[e][n] = review[e][n] /\ approvals'[e][n] = approvals[e][n]

\* The current version of an experiment only grows.
LEMMA CurStep ==
    ASSUME LifecycleAssumption, TypeInv, CreatedClean, [Next]_vars
    PROVE  \/ UNCHANGED cur
           \/ \E e \in Experiments :
                  /\ cur[e] + 1 \in Versions
                  /\ cur' = [cur EXCEPT ![e] = cur[e] + 1]
                  /\ UNCHANGED variants
  <1>. DEFINE Goal == \/ UNCHANGED cur
                      \/ \E e \in Experiments :
                             /\ cur[e] + 1 \in Versions
                             /\ cur' = [cur EXCEPT ![e] = cur[e] + 1]
                             /\ UNCHANGED variants
  <1>1. ASSUME NEW c \in Requests, NEW u \in Users, NEW e \in Experiments, Arrive(c, u, e)
        PROVE  Goal
    <2>1. ASSUME NEW content \in Contents, Create(c, u, e, content)
          PROVE  Goal
      <3>1. cur[e] = 0 /\ cur' = [cur EXCEPT ![e] = 1] /\ UNCHANGED variants
        BY <2>1 DEF Create, CreateExperiment, CreatedClean
      <3>2. cur[e] + 1 = 1 /\ 1 \in Versions
        BY <3>1, Bounds
      <3>3. QED
        BY <3>1, <3>2
    <2>2. CASE ~ \E content \in Contents : Create(c, u, e, content)
      BY <1>1, <2>2 DEF Arrive, CreateVersionRead, SetVariantsRead, SubmitRead, ResumeRead,
         TransitionRequest, InternalPauseRead, CompleteRead, ActRead, stored, row
    <2>3. QED
      BY <2>1, <2>2
  <1>2. ASSUME NEW c \in Requests, Proceed(c)
        PROVE  Goal
    <2>1. CASE CreateVersion(c)
      <3>. DEFINE e == req[c].exp
      <3>1. e \in Experiments /\ TypeOK
        BY <2>1, Owned DEF CreateVersion, Steps, TypeInv
      <3>2. cur[e] < MaxVersions /\ cur' = [cur EXCEPT ![e] = cur[e] + 1] /\ UNCHANGED variants
        BY <2>1 DEF CreateVersion
      <3>3. cur[e] + 1 \in Versions
        BY <3>1, <3>2 DEF TypeOK, Versions, LifecycleAssumption
      <3>4. QED
        BY <3>1, <3>2, <3>3
    <2>2. CASE ~CreateVersion(c)
      BY <1>2, <2>2 DEF Proceed, SetVariants, OpenReview, SubmitReview, TransitionRead,
         Transition, Complete, ActOnReview, ApplyReviewOutcome, Fail, stored, row
    <2>3. QED
      BY <2>1, <2>2
  <1>3. ASSUME NEW u \in Users, NEW e \in Experiments,
               UpdateDraft(u, e) \/ RollbackToControl(u, e)
        PROVE  Goal
    BY <1>3 DEF UpdateDraft, RollbackToControl
  <1>4. ASSUME NEW f \in Flags, UpdateFlag(f) \/ DeleteFlag(f)
        PROVE  Goal
    BY <1>4 DEF UpdateFlag, DeleteFlag, row
  <1>5. CASE UNCHANGED vars
    BY <1>5 DEF vars
  <1>6. QED
    BY <1>1, <1>2, <1>3, <1>4, <1>5 DEF Next

LEMMA RowsKeptStep ==
    ASSUME LifecycleAssumption, TypeInv, CreatedClean, [Next]_vars
    PROVE  RowsKept
  <1>1. version \in [Experiments -> 0..MaxLock] /\ cur \in [Experiments -> 0..MaxVersions]
    BY DEF TypeInv, TypeOK
  <1>2. \A e \in Experiments : cur[e] <= cur'[e]
    BY <1>1, CurStep DEF LifecycleAssumption
  <1>3. CASE UNCHANGED <<row, variants>>
    BY <1>1, <1>2, <1>3 DEF RowsKept, row
  <1>4. ASSUME NEW e \in Experiments, RowCommit(e)
        PROVE  RowsKept
    BY <1>1, <1>2, <1>4 DEF RowsKept, RowCommit, OnlyRow
  <1>5. QED
    BY <1>3, <1>4, RowStep

\* What a step does to the reviews: nothing, a new one, or a vote.
LEMMA ReviewStep ==
    ASSUME LifecycleAssumption, TypeInv, [Next]_vars
    PROVE  \/ UNCHANGED <<review, approvals>>
           \/ \E e \in Experiments, n \in 0..MaxVersions :
                  /\ review[e][n] = "none"
                  /\ InsertReview(e, n)
                  /\ UNCHANGED approvals
           \/ \E c \in Requests : ActOnReview(c)
  <1>. DEFINE Goal == \/ UNCHANGED <<review, approvals>>
                      \/ \E e \in Experiments, n \in 0..MaxVersions :
                             /\ review[e][n] = "none"
                             /\ InsertReview(e, n)
                             /\ UNCHANGED approvals
                      \/ \E c \in Requests : ActOnReview(c)
  <1>1. ASSUME NEW c \in Requests, NEW u \in Users, NEW e \in Experiments, Arrive(c, u, e)
        PROVE  Goal
    BY <1>1 DEF Arrive, Create, CreateVersionRead, SetVariantsRead, SubmitRead, ResumeRead,
       TransitionRequest, InternalPauseRead, CompleteRead, ActRead, stored
  <1>2. ASSUME NEW c \in Requests, Proceed(c)
        PROVE  Goal
    <2>1. CASE OpenReview(c) \/ SubmitReview(c)
      <3>1. req[c].exp \in Experiments /\ req[c].ver \in 0..MaxVersions
        BY <2>1, Owned DEF OpenReview, SubmitReview, Steps
      <3>2. QED
        BY <2>1, <3>1 DEF OpenReview, SubmitReview
    <2>2. CASE ~(OpenReview(c) \/ SubmitReview(c))
      BY <1>2, <2>2 DEF Proceed, SetVariants, CreateVersion, TransitionRead, Transition,
         Complete, ApplyReviewOutcome, Fail, stored
    <2>3. QED
      BY <2>1, <2>2
  <1>3. ASSUME NEW u \in Users, NEW e \in Experiments,
               UpdateDraft(u, e) \/ RollbackToControl(u, e)
        PROVE  Goal
    BY <1>3 DEF UpdateDraft, RollbackToControl
  <1>4. ASSUME NEW f \in Flags, UpdateFlag(f) \/ DeleteFlag(f)
        PROVE  Goal
    BY <1>4 DEF UpdateFlag, DeleteFlag
  <1>5. CASE UNCHANGED vars
    BY <1>5 DEF vars
  <1>6. QED
    BY <1>1, <1>2, <1>3, <1>4, <1>5 DEF Next

\* A vote changes one review, which is open, and adds its reviewer or nobody.
LEMMA VoteStep ==
    ASSUME LifecycleAssumption, TypeInv, NEW c \in Requests, Sound(req[c]), ActOnReview(c)
    PROVE  LET e == req[c].exp
               n == req[c].ver
           IN /\ e \in Experiments /\ n \in Versions
              /\ review[e][n] = "open"
              /\ review'[e][n] = Outcome(req[c])
              /\ req[c].verdict = "approve" =>
                     approvals'[e][n] = approvals[e][n] \cup {req[c].user}
              /\ \A x \in Experiments, m \in Versions :
                     x # e \/ m # n => /\ review'[x][m] = review[x][m]
                                      /\ approvals'[x][m] = approvals[x][m]
  <1>. DEFINE r == req[c]
              e == r.exp
              n == r.ver
              o == Outcome(r)
  <1>1. e \in Experiments /\ n \in Versions /\ TypeOK
    BY Owned DEF ActOnReview, Steps, Sound, ActSound, TypeInv
  <1>2. /\ review[e][n] = "open"
        /\ review' = [review EXCEPT ![e][n] = o]
        /\ approvals' = IF r.verdict = "approve"
                        THEN [approvals EXCEPT ![e][n] = approvals[e][n] \cup {r.user}]
                        ELSE approvals
    BY DEF ActOnReview, Undecided
  <1>. HIDE DEF o
  <1>3. QED
    BY <1>1, <1>2 DEF TypeOK, o

LEMMA ClosedKeptStep ==
    ASSUME LifecycleAssumption, TypeInv, RequestsSound, [Next]_vars
    PROVE  ClosedKept
  <1>1. CASE UNCHANGED <<review, approvals>>
    BY <1>1 DEF ClosedKept
  <1>2. ASSUME NEW e \in Experiments, NEW n \in 0..MaxVersions,
               review[e][n] = "none", InsertReview(e, n), UNCHANGED approvals
        PROVE  ClosedKept
    BY <1>2 DEF ClosedKept, InsertReview, TypeInv, TypeOK
  <1>3. ASSUME NEW c \in Requests, ActOnReview(c)
        PROVE  ClosedKept
    BY <1>3, VoteStep DEF ClosedKept, RequestsSound
  <1>4. QED
    BY <1>1, <1>2, <1>3, ReviewStep

-----------------------------------------------------------------------------
(* The rows: audit trail, decision, reviews and variants.                  *)

\* What the lemmas below have in common: a step from a state of the invariant.
LEMMA StepFacts ==
    ASSUME LifecycleAssumption, TypeInv, ReviewInv, [Next]_vars
    PROVE  /\ RowsKept
           /\ ClosedKept
           /\ \/ UNCHANGED <<row, variants, auditTail>>
              \/ \E e \in Experiments : Move(e) \/ Edit(e)
  BY RowsKeptStep, ClosedKeptStep, MoveStep DEF ReviewInv

\* What an experiment that a step moves looks like before and after.
LEMMA MoveFacts ==
    ASSUME TypeInv, NEW e \in Experiments, Move(e)
    PROVE  /\ OnlyRow(e)
           /\ version'[e] = version[e] + 1
           /\ status'[e] \in Existing
           /\ auditTail'[e].status = status'[e]
           /\ auditTail'[e].guardrail = guardrail'[e]
           /\ auditTail'[e].version = version'[e]
           /\ \A x \in Experiments \ {e} : auditTail'[x] = auditTail[x]
           /\ auditTail'[e].actor \in Users
           /\ MayMove(e, auditTail'[e].actor, status'[e], guardrail'[e], decision'[e])
  <1>1. PICK u \in Users, to \in Existing, g \in BOOLEAN, d \in Decisions :
            Moved(e, u, to, g, d) /\ MayMove(e, u, to, g, d)
    BY DEF Move
  <1>2. /\ auditTail'[e] = [actor |-> u, status |-> to, version |-> version[e] + 1,
                            guardrail |-> g]
        /\ \A x \in Experiments \ {e} : auditTail'[x] = auditTail[x]
    BY <1>1 DEF Moved, Audit, TypeInv, TypeOK
  <1>3. QED
    BY <1>1, <1>2 DEF Moved, RowCommit

LEMMA AuditStep ==
    ASSUME LifecycleAssumption, TypeInv, ReviewInv, [Next]_vars
    PROVE  AuditCurrent'
  <1>1. version \in [Experiments -> 0..MaxLock] /\ version' \in [Experiments -> 0..MaxLock]
    BY TypeStep DEF TypeInv, TypeOK
  <1>2. auditTail \in [Experiments -> AuditRecords]
    BY DEF TypeInv, TypeOK
  <1>3. CASE UNCHANGED <<row, auditTail>>
    BY <1>3 DEF ReviewInv, AuditCurrent, row
  <1>4. ASSUME NEW e \in Experiments, Move(e)
        PROVE  AuditCurrent'
    BY <1>1, <1>4, MoveFacts DEF ReviewInv, AuditCurrent, OnlyRow
  <1>5. ASSUME NEW e \in Experiments, Edit(e)
        PROVE  AuditCurrent'
    BY <1>1, <1>2, <1>5 DEF ReviewInv, AuditCurrent, Edit, RowCommit, OnlyRow, AuditRecords
  <1>6. QED
    BY <1>3, <1>4, <1>5, StepFacts

LEMMA DecisionStep ==
    ASSUME LifecycleAssumption, TypeInv, ReviewInv, [Next]_vars
    PROVE  DecisionMatchesStatus'
  <1>1. CASE UNCHANGED row
    BY <1>1 DEF ReviewInv, DecisionMatchesStatus, row
  <1>2. ASSUME NEW e \in Experiments, Move(e)
        PROVE  DecisionMatchesStatus'
    <2>1. decision'[e] # "none" <=> status'[e] \in {"completed", "archived"}
      BY <1>2, MoveFacts, EdgeFacts
         DEF ReviewInv, DecisionMatchesStatus, MayMove, Active
    <2>2. QED
      BY <1>2, <2>1, MoveFacts DEF ReviewInv, DecisionMatchesStatus, OnlyRow
  <1>3. ASSUME NEW e \in Experiments, Edit(e)
        PROVE  DecisionMatchesStatus'
    BY <1>3 DEF ReviewInv, DecisionMatchesStatus, Edit
  <1>4. QED
    BY <1>1, <1>2, <1>3, StepFacts

LEMMA ApprovedStep ==
    ASSUME LifecycleAssumption, TypeInv, ReviewInv, [Next]_vars
    PROVE  ApprovedHasReview'
  <1>1. \A e \in Experiments :
            (\E n \in Versions : review[e][n] = "approved")
                => \E n \in Versions : review'[e][n] = "approved"
    BY StepFacts DEF ClosedKept
  <1>2. CASE UNCHANGED status
    BY <1>1, <1>2 DEF ReviewInv, ApprovedHasReview
  <1>3. ASSUME NEW e \in Experiments, Move(e)
        PROVE  ApprovedHasReview'
    <2>. DEFINE Late == {"approved", "running", "paused", "completed", "archived"}
    <2>1. status'[e] \in Late => status[e] \in Late \/ status'[e] = "approved"
      BY <1>3, MoveFacts, EdgeFacts DEF MayMove, Active
    <2>2. status'[e] = "approved" => \E n \in Versions : review[e][n] = "approved"
      BY <1>3, MoveFacts DEF MayMove
    <2>3. QED
      BY <1>1, <1>3, <2>1, <2>2, MoveFacts DEF ReviewInv, ApprovedHasReview, OnlyRow
  <1>4. QED
    BY <1>2, <1>3, StepFacts DEF row, Edit

LEMMA CleanStep ==
    ASSUME LifecycleAssumption, TypeInv, ReviewInv, [Next]_vars
    PROVE  CreatedClean'
  <1>1. CASE UNCHANGED row
    BY <1>1 DEF ReviewInv, CreatedClean, row
  <1>2. ASSUME NEW e \in Experiments, Move(e)
        PROVE  CreatedClean'
    BY <1>2, MoveFacts DEF ReviewInv, CreatedClean, OnlyRow, Existing
  <1>3. ASSUME NEW e \in Experiments, Edit(e)
        PROVE  CreatedClean'
    BY <1>3 DEF ReviewInv, CreatedClean, Edit, RowCommit, OnlyRow
  <1>4. QED
    BY <1>1, <1>2, <1>3, StepFacts

\* Variants are stored by SetVariants alone.
LEMMA VariantsStep ==
    ASSUME [Next]_vars
    PROVE  UNCHANGED variants \/ \E c \in Requests : SetVariants(c)
  <1>1. ASSUME NEW c \in Requests, NEW u \in Users, NEW e \in Experiments, Arrive(c, u, e)
        PROVE  UNCHANGED variants
    BY <1>1 DEF Arrive, Create, CreateVersionRead, SetVariantsRead, SubmitRead, ResumeRead,
       TransitionRequest, InternalPauseRead, CompleteRead, ActRead, stored
  <1>2. ASSUME NEW c \in Requests, Proceed(c)
        PROVE  UNCHANGED variants \/ SetVariants(c)
    BY <1>2 DEF Proceed, CreateVersion, OpenReview, SubmitReview, TransitionRead, Transition,
       Complete, ActOnReview, ApplyReviewOutcome, Fail, stored
  <1>3. QED
    BY <1>1, <1>2 DEF Next, UpdateDraft, RollbackToControl, UpdateFlag, DeleteFlag, vars

LEMMA FutureStep ==
    ASSUME LifecycleAssumption, TypeInv, ReviewInv, [Next]_vars
    PROVE  FutureEmpty'
  <1>1. /\ cur \in [Experiments -> 0..MaxVersions]
        /\ variants \in [Experiments -> [Versions -> Contents]]
        /\ Versions \subseteq Nat
    BY DEF TypeInv, TypeOK, Versions
  <1>2. CASE UNCHANGED variants
    <2>1. \A e \in Experiments : cur[e] \in Nat /\ cur'[e] \in Nat /\ cur[e] <= cur'[e]
      BY <1>1, TypeStep, StepFacts DEF RowsKept, TypeInv, TypeOK
    <2>2. QED
      BY <1>1, <1>2, <2>1 DEF ReviewInv, FutureEmpty
  <1>3. ASSUME NEW c \in Requests, SetVariants(c)
        PROVE  FutureEmpty'
    <2>1. /\ req[c].exp \in Experiments
          /\ req[c].ver \in 1..cur[req[c].exp]
      BY <1>3, Owned DEF SetVariants, Steps, ReviewInv, RequestsSound, Sound, FillSound
    <2>2. /\ variants' = [variants EXCEPT ![req[c].exp][req[c].ver] = req[c].content]
          /\ UNCHANGED cur
      BY <1>3 DEF SetVariants
    <2>3. \A e \in Experiments, n \in Versions :
              n > cur[e] => variants'[e][n] = variants[e][n]
      BY <1>1, <2>1, <2>2
    <2>4. QED
      BY <2>2, <2>3 DEF ReviewInv, FutureEmpty
  <1>4. QED
    BY <1>2, <1>3, VariantsStep

LEMMA QuorumStep ==
    ASSUME LifecycleAssumption, TypeInv, ReviewInv, [Next]_vars
    PROVE  ApprovalQuorum'
  <1>1. CASE UNCHANGED <<review, approvals>>
    BY <1>1 DEF ReviewInv, ApprovalQuorum
  <1>2. ASSUME NEW e \in Experiments, NEW n \in 0..MaxVersions,
               InsertReview(e, n), UNCHANGED approvals
        PROVE  ApprovalQuorum'
    <2>1. \A x \in Experiments, m \in Versions :
              review'[x][m] = "approved" => review[x][m] = "approved"
      BY <1>2 DEF InsertReview, TypeInv, TypeOK
    <2>2. QED
      BY <1>2, <2>1 DEF ReviewInv, ApprovalQuorum
  <1>3. ASSUME NEW c \in Requests, ActOnReview(c)
        PROVE  ApprovalQuorum'
    <2>. DEFINE r == req[c]
                e == r.exp
                n == r.ver
                A == approvals[e][n] \cup {r.user}
    <2>1. /\ review'[e][n] = Outcome(r)
          /\ r.verdict = "approve" => approvals'[e][n] = A
          /\ \A x \in Experiments, m \in Versions :
                 x # e \/ m # n => /\ review'[x][m] = review[x][m]
                                  /\ approvals'[x][m] = approvals[x][m]
      BY <1>3, VoteStep DEF ReviewInv, RequestsSound
    <2>2. Outcome(r) = "approved" =>
              r.verdict = "approve" /\ Cardinality(A) >= Threshold(r.user)
      <3>1. r.verdict \in {"approve", "request_changes", "reject"}
        BY <1>3 DEF ReviewInv, RequestsSound, Sound, ActSound, ActOnReview
      <3>2. QED
        BY <3>1 DEF Outcome
    <2>3. Cardinality(A) >= Threshold(r.user) =>
              Cardinality(A) >= MinApprovals \/ A \cap Admins # {}
      BY DEF Threshold
    <2>. HIDE DEF A
    <2>4. \A x \in Experiments, m \in Versions :
              x = e /\ m = n /\ review'[x][m] = "approved" =>
                  \/ Cardinality(approvals'[x][m]) >= MinApprovals
                  \/ approvals'[x][m] \cap Admins # {}
      BY <2>1, <2>2, <2>3
    <2>5. QED
      BY <2>1, <2>4 DEF ReviewInv, ApprovalQuorum
  <1>4. QED
    BY <1>1, <1>2, <1>3, ReviewStep

-----------------------------------------------------------------------------
(* The requests.                                                           *)

\* A request a step does not touch stays sound.
LEMMA KeepSound ==
    ASSUME LifecycleAssumption, TypeInv, TypeInv', RequestsSound, RowsKept, ClosedKept,
           NEW d \in Requests, req'[d] = req[d]
    PROVE  Sound(req[d])'
  <1>. DEFINE r == req[d]
              e == r.exp
  <1>1. Sound(r)
    BY DEF RequestsSound
  <1>2. r.step \in Steps => /\ e \in Experiments
                            /\ r.lock \in 0..MaxLock
                            /\ r.seen \in 0..MaxLock
                            /\ version[e] \in 0..MaxLock
                            /\ Behind(r, version[e])
                            /\ cur[e] \in Versions
    BY Owned
  <1>3. r.step \in Steps => /\ version[e] <= version'[e]
                            /\ cur[e] <= cur'[e]
                            /\ version'[e] = version[e] => /\ status'[e] = status[e]
                                                          /\ guardrail'[e] = guardrail[e]
                                                          /\ variants'[e] = variants[e]
                            /\ \A n \in Versions :
                                   review[e][n] = "approved" => review'[e][n] = "approved"
    BY <1>2 DEF RowsKept, ClosedKept
  <1>4. ActSound(r)' /\ CommitSound(r)'
    BY <1>1 DEF Sound, ActSound, CommitSound
  <1>5. TargetSound(r)'
    BY <1>1, <1>3 DEF Sound, TargetSound, Steps
  <1>6. r.step \in Steps => /\ version'[e] \in 0..MaxLock
                            /\ cur'[e] \in Nat
                            /\ guardrail[e] \in BOOLEAN /\ guardrail'[e] \in BOOLEAN
    BY <1>2 DEF TypeInv, TypeOK
  <1>7. MarkSound(r)'
    <2>1. r.step = "transition" /\ r.seen = version'[e] => version'[e] = version[e]
      BY <1>2, <1>3, <1>6 DEF Steps, Behind
    <2>2. QED
      BY <1>1, <1>3, <1>6, <2>1 DEF Sound, MarkSound, Steps
  <1>8. NewSound(r)'
    <2>1. r.step = "create_version" /\ r.seen = version'[e] => version'[e] = version[e]
      BY <1>2, <1>3, <1>6 DEF Steps, Behind
    <2>2. QED
      BY <1>1, <1>3, <2>1 DEF Sound, NewSound, Steps
  <1>9. FillSound(r)'
    <2>1. r.step \in {"set_variants", "open_review"} =>
              /\ r.ver \in 1..cur'[e]
              /\ Expected(r) <= version'[e]
              /\ Expected(r) = version'[e] => version'[e] = version[e]
      BY <1>1, <1>2, <1>3, <1>6 DEF Sound, FillSound, Expected, Steps, Versions
    <2>2. QED
      BY <1>1, <1>3, <2>1 DEF Sound, FillSound, Expected, Steps
  <1>10. QED
    BY <1>4, <1>5, <1>7, <1>8, <1>9 DEF Sound

\* What a first read stores is sound.
LEMMA ArriveSound ==
    ASSUME LifecycleAssumption, TypeInv, NEW c \in Requests, NEW u \in Users,
           NEW e \in Experiments, Arrive(c, u, e)
    PROVE  \E r : Hold(c, r) /\ Sound(r)'
  <1>. DEFINE Goal == \E r : Hold(c, r) /\ Sound(r)'
  <1>. USE DEF Request
  <1>1. ASSUME NEW r, Hold(c, r), UNCHANGED stored, Sound(r)
        PROVE  Goal
    <2>1. Sound(r)'
      BY <1>1
         DEF Sound, ActSound, TargetSound, CommitSound, MarkSound, NewSound, FillSound,
              Expected, stored, row
    <2>2. QED
      BY <1>1, <2>1
  <1>2. TypeOK /\ RowExists
    BY DEF TypeInv
  <1>3. ASSUME NEW r, r.step \notin Steps
        PROVE  Sound(r) /\ Sound(r)'
    BY <1>3
       DEF Sound, ActSound, TargetSound, CommitSound, MarkSound, NewSound, FillSound,
            Expected, Steps
  <1>4. ASSUME NEW content \in Contents, Create(c, u, e, content)
        PROVE  Goal
    <2>. DEFINE r == [Request("set_variants", e, u) EXCEPT
                        !.lock = 1, !.seen = 1, !.from = "draft", !.to = "draft",
                        !.ver = 1, !.content = content]
    <2>1. r.step = "set_variants" /\ r.exp = e /\ r.ver = 1 /\ r.lock = 1
      OBVIOUS
    <2>2. status'[e] = "draft" /\ cur'[e] = 1 /\ version'[e] = 1
      BY <1>2, <1>4 DEF Create, CreateExperiment, TypeOK
    <2>3. Hold(c, IF content = NoVariants THEN NoRequest ELSE r)
      BY <1>4 DEF Create, CreateExperiment
    <2>. HIDE DEF r
    <2>4. \A x : x.step = "set_variants" /\ x.exp = e /\ x.ver = 1 /\ x.lock = 1
                  => Sound(x)'
      BY <2>2
         DEF Sound, ActSound, TargetSound, CommitSound, MarkSound, NewSound, FillSound, Expected
    <2>5. NoRequest.step \notin Steps
      BY DEF NoRequest, Steps
    <2>6. QED
      BY <1>3, <2>1, <2>3, <2>4, <2>5
  <1>5. ASSUME NEW content \in Contents, CreateVersionRead(c, u, e, content)
        PROVE  Goal
    <2>. DEFINE r == [Request("create_version", e, u) EXCEPT !.content = content]
    <2>1. /\ r.step = "create_version" /\ r.exp = e /\ r.from = status[e]
          /\ r.lock = version[e] /\ r.seen = version[e]
      OBVIOUS
    <2>2. status[e] \in Versionable /\ Hold(c, r) /\ UNCHANGED stored
      BY <1>5 DEF CreateVersionRead
    <2>. HIDE DEF r
    <2>3. Sound(r)
      BY <2>1, <2>2
         DEF Sound, ActSound, TargetSound, CommitSound, MarkSound, NewSound, FillSound
    <2>4. QED
      BY <1>1, <2>2, <2>3
  <1>6. ASSUME NEW content \in VariantSets, SetVariantsRead(c, u, e, content)
        PROVE  Goal
    <2>. DEFINE r == [Request("set_variants", e, u) EXCEPT
                        !.ver = cur[e], !.content = content]
    <2>1. r.step = "set_variants" /\ r.exp = e /\ r.ver = cur[e] /\ r.lock = version[e]
      OBVIOUS
    <2>2. status[e] = "draft" /\ Hold(c, r) /\ UNCHANGED stored
      BY <1>6 DEF SetVariantsRead
    <2>3. cur[e] \in 1..cur[e] /\ version[e] <= version[e]
      BY <1>2, <2>2 DEF RowExists, Versions, TypeOK
    <2>4. Sound(r)
      BY <2>1, <2>2, <2>3
         DEF Sound, ActSound, TargetSound, CommitSound, MarkSound, NewSound, FillSound, Expected
    <2>5. QED
      BY <1>1, <2>2, <2>4
  <1>7. ASSUME NEW lock \in Sent(e), SubmitRead(c, u, e, lock)
        PROVE  Goal
    <2>. DEFINE r == [Request("submit_review", e, u) EXCEPT
                        !.lock = lock, !.ver = cur[e], !.to = "review"]
    <2>1. r.step = "submit_review" /\ r.to = "review"
      OBVIOUS
    <2>2. Sound(r)
      BY <2>1
         DEF Sound, ActSound, TargetSound, CommitSound, MarkSound, NewSound, FillSound, Expected
    <2>3. QED
      BY <1>1, <1>7, <2>2 DEF SubmitRead
  <1>8. ASSUME NEW lock \in Sent(e), ResumeRead(c, u, e, lock)
        PROVE  Goal
    <2>. DEFINE r == [Request("transition_read", e, u) EXCEPT !.lock = lock, !.to = "running"]
    <2>1. r.step = "transition_read" /\ r.to = "running"
      OBVIOUS
    <2>2. Sound(r)
      BY <2>1
         DEF Sound, ActSound, TargetSound, CommitSound, MarkSound, NewSound, FillSound, Expected
    <2>3. QED
      BY <1>1, <1>8, <2>2 DEF ResumeRead
  <1>9. ASSUME NEW lock \in Sent(e), NEW to \in Statuses,
               TransitionRequest(c, u, e, lock, to)
        PROVE  Goal
    <2>. DEFINE r == [Request("transition_read", e, u) EXCEPT !.lock = lock, !.to = to]
                x == ReadForTransition(r)
    <2>1. r.exp = e /\ r.to = to /\ r.user = u
      OBVIOUS
    <2>2. /\ x.exp = r.exp /\ x.from = status[r.exp] /\ x.to = r.to /\ x.user = r.user
          /\ x.step = "transition"
          /\ status[r.exp] = "paused" /\ r.to = "running" /\ guardrail[r.exp]
                => x.guard = "clear"
      BY DEF ReadForTransition
    <2>3. /\ to \in {"running", "paused", "archived"}
          /\ TransitionGuards(r)
          /\ Hold(c, x)
          /\ UNCHANGED stored
      BY <1>9, Zenon DEF TransitionRequest
    <2>. HIDE DEF r, x
    <2>4. Sound(x)
      BY <2>1, <2>2, <2>3 DEF TransitionGuards,
         Sound, ActSound, TargetSound, CommitSound, MarkSound, NewSound, FillSound, Expected
    <2>5. QED
      BY <1>1, <2>3, <2>4
  <1>10. ASSUME NEW lock \in Sent(e), InternalPauseRead(c, u, e, lock)
        PROVE  Goal
    <2>. DEFINE r == [Request("transition", e, u) EXCEPT
                        !.lock = lock, !.to = "paused", !.guard = "set"]
    <2>1. r.step = "transition" /\ r.from = status[e] /\ r.to = "paused"
      OBVIOUS
    <2>2. <<status[e], "paused">> \in Edges /\ Hold(c, r) /\ UNCHANGED stored
      BY <1>10 DEF InternalPauseRead
    <2>. HIDE DEF r
    <2>3. Sound(r)
      BY <2>1, <2>2
         DEF Sound, ActSound, TargetSound, CommitSound, MarkSound, NewSound, FillSound, Expected
    <2>4. QED
      BY <1>1, <2>2, <2>3
  <1>11. ASSUME NEW lock \in Sent(e), NEW verdict \in Decisions,
                CompleteRead(c, u, e, lock, verdict)
        PROVE  Goal
    <2>. DEFINE r == [Request("complete", e, u) EXCEPT !.lock = lock, !.verdict = verdict]
    <2>1. r.step = "complete" /\ r.from = status[e]
      OBVIOUS
    <2>2. status[e] \in Active /\ Hold(c, r) /\ UNCHANGED stored
      BY <1>11 DEF CompleteRead
    <2>. HIDE DEF r
    <2>3. Sound(r)
      BY <2>1, <2>2
         DEF Sound, ActSound, TargetSound, CommitSound, MarkSound, NewSound, FillSound, Expected
    <2>4. QED
      BY <1>1, <2>2, <2>3
  <1>12. ASSUME NEW lock \in Sent(e), NEW n \in Versions,
                NEW verdict \in {"approve", "request_changes", "reject"},
                ActRead(c, u, e, lock, n, verdict)
         PROVE  Goal
    <2>. DEFINE r == [Request("act", e, u) EXCEPT
                        !.lock = lock, !.ver = n, !.verdict = verdict]
    <2>1. r.step = "act" /\ r.ver = n /\ r.verdict = verdict
      OBVIOUS
    <2>. HIDE DEF r
    <2>2. Sound(r)
      BY <2>1
         DEF Sound, ActSound, TargetSound, CommitSound, MarkSound, NewSound, FillSound, Expected
    <2>3. Hold(c, r) /\ UNCHANGED stored
      BY <1>12 DEF ActRead, r
    <2>4. QED
      BY <1>1, <2>2, <2>3
  <1>. HIDE DEF Goal
  <1>13. Goal
    BY <1>4, <1>5, <1>6, <1>7, <1>8, <1>9, <1>10, <1>11, <1>12 DEF Arrive
  <1>14. QED
    BY <1>13 DEF Goal

\* The record with which a handler goes on to store variants.
LEMMA VariantsNextSound ==
    ASSUME LifecycleAssumption, NEW r \in RequestRecords,
           r.ver \in 1..cur'[r.exp],
           r.lock + 1 <= version'[r.exp],
           r.lock + 1 = version'[r.exp] =>
               /\ status'[r.exp] # "running"
               /\ status'[r.exp] = "draft" \/ variants'[r.exp][r.ver] = NoVariants
    PROVE  Sound(VariantsNext(r))'
  <1>1. CASE r.content = NoVariants
    BY <1>1 DEF VariantsNext, NoRequest, Sound, ActSound, TargetSound, CommitSound,
       MarkSound, NewSound, FillSound, Expected
  <1>2. CASE r.content # NoVariants
    <2>. DEFINE x == [r EXCEPT !.step = "set_variants", !.lock = r.lock + 1]
    <2>1. x.step = "set_variants" /\ x.exp = r.exp /\ x.ver = r.ver /\ x.lock = r.lock + 1
      BY DEF RequestRecords
    <2>2. VariantsNext(r) = x
      BY <1>2 DEF VariantsNext
    <2>. HIDE DEF x
    <2>3. Sound(x)'
      BY <2>1
         DEF Sound, ActSound, TargetSound, CommitSound, MarkSound, NewSound, FillSound, Expected
    <2>4. QED
      BY <2>2, <2>3
  <1>3. QED
    BY <1>1, <1>2

\* So is what a later step of a request stores.
LEMMA ProceedSound ==
    ASSUME LifecycleAssumption, TypeInv, ReviewInv, NEW c \in Requests, Proceed(c)
    PROVE  \E r : Hold(c, r) /\ Sound(r)'
  <1>. DEFINE Goal == \E r : Hold(c, r) /\ Sound(r)'
              r == req[c]
              e == r.exp
  <1>1. Sound(r) /\ TypeOK /\ ClosedKept
    BY ClosedKeptStep DEF ReviewInv, RequestsSound, TypeInv, Next
  <1>2. r.step \in Steps => /\ r \in RequestRecords /\ e \in Experiments
                            /\ cur[e] \in Versions
                            /\ version[e] \in 0..MaxLock
                            /\ r.lock \in 0..MaxLock
                            /\ Behind(r, version[e])
    BY Owned
  <1>3. \A x : x.step \notin Steps => Sound(x)'
    BY
       DEF Sound, ActSound, TargetSound, CommitSound, MarkSound, NewSound, FillSound,
            Expected, Steps
  <1>4. CASE SetVariants(c) \/ Transition(c) \/ Complete(c) \/ Fail(c)
    <2>1. NoRequest.step \notin Steps
      BY DEF NoRequest, Steps
    <2>2. QED
      BY <1>3, <1>4, <2>1 DEF SetVariants, Transition, Complete, Fail, Finish
  <1>5. CASE CreateVersion(c)
    <2>. DEFINE next == [r EXCEPT !.ver = cur[e] + 1]
                x == [next EXCEPT !.step = "open_review"]
    <2>1. /\ r \in RequestRecords /\ e \in Experiments
          /\ cur[e] + 1 \in Versions /\ cur[e] + 1 > cur[e]
          /\ cur[e] + 1 \in 0..MaxVersions
      <3>1. r.step \in Steps /\ cur[e] < MaxVersions
        BY <1>5 DEF CreateVersion, Steps
      <3>2. QED
        BY <1>2, <3>1 DEF LifecycleAssumption, Versions
    <2>2. /\ cur' = [cur EXCEPT ![e] = cur[e] + 1]
          /\ UNCHANGED variants
          /\ Hold(c, IF r.from = "review" THEN x ELSE VariantsNext(next))
      BY <1>5 DEF CreateVersion
    <2>3. cur'[e] = cur[e] + 1 /\ variants'[e][cur[e] + 1] = NoVariants
      BY <1>1, <2>1, <2>2 DEF TypeOK, ReviewInv, FutureEmpty
    <2>4. /\ next \in RequestRecords
          /\ next.exp = e /\ next.ver = cur[e] + 1 /\ next.lock = r.lock
      <3>1. next \in RequestRecords
        BY <2>1, EditTypes
      <3>2. next.exp = e /\ next.ver = cur[e] + 1 /\ next.lock = r.lock
        BY <2>1 DEF RequestRecords
      <3>3. QED
        BY <3>1, <3>2
    <2>5. x.step = "open_review" /\ x.exp = e /\ x.ver = cur[e] + 1 /\ x.lock = r.lock
      BY <2>1 DEF RequestRecords
    <2>. HIDE DEF next, x
    <2>6. cur[e] + 1 \in 1..cur'[e]
      BY <2>1, <2>3 DEF Versions
    <2>7. /\ r.lock + 1 <= version'[e]
          /\ r.lock + 1 = version'[e] => status'[e] # "running"
      <3>1. /\ r.step = "create_version" /\ version' = [version EXCEPT ![e] = version[e] + 1]
            /\ r.lock <= version[e]
        BY <1>2, <1>5 DEF CreateVersion, Bump, Behind, Steps
      <3>2. version'[e] = version[e] + 1 /\ version[e] \in Nat /\ r.lock \in Nat
        BY <1>1, <1>2, <2>1, <3>1 DEF TypeOK, Steps
      <3>3. r.lock = version[e] => r.from = status[e] /\ r.from # "running"
        BY <1>1, <3>1 DEF Sound, NewSound, Versionable
      <3>4. status'[e] = "draft" \/ status'[e] = status[e]
        BY <1>1, <1>5, <2>1 DEF CreateVersion, ResetToDraft, TypeOK
      <3>5. QED
        BY <3>1, <3>2, <3>3, <3>4
    <2>8. \A y : y.step = "open_review" /\ y.exp = e /\ y.ver = cur[e] + 1 /\ y.lock = r.lock
                  => Sound(y)'
      BY <2>3, <2>6, <2>7
         DEF Sound, ActSound, TargetSound, CommitSound, MarkSound, NewSound, FillSound, Expected
    <2>9. \A y \in RequestRecords :
              y.exp = e /\ y.ver = cur[e] + 1 /\ y.lock = r.lock => Sound(VariantsNext(y))'
      BY <2>3, <2>6, <2>7, VariantsNextSound
    <2>10. QED
      BY <2>2, <2>4, <2>5, <2>8, <2>9
  <1>6. CASE OpenReview(c)
    <2>1. /\ r.step = "open_review" /\ r \in RequestRecords
          /\ Hold(c, VariantsNext(r))
          /\ UNCHANGED <<row, variants>>
      BY <1>2, <1>6 DEF OpenReview, Steps
    <2>2. r.ver \in 1..cur[r.exp]
      BY <1>1, <2>1 DEF Sound, FillSound
    <2>3. \A y \in RequestRecords : y = r => Sound(VariantsNext(y))'
      <3>. SUFFICES ASSUME NEW y \in RequestRecords, y = r
                    PROVE  Sound(VariantsNext(y))'
        OBVIOUS
      <3>1. Sound(y)
        BY <1>1
      <3>2. QED
        BY <2>1, <2>2, <3>1, VariantsNextSound DEF Sound, FillSound, Expected, row
    <2>4. QED
      BY <2>1, <2>3
  <1>7. CASE SubmitReview(c)
    <2>. DEFINE x == [r EXCEPT !.step = "transition_read"]
    <2>1. r.step = "submit_review" /\ r \in RequestRecords /\ e \in Experiments
      BY <1>2, <1>7 DEF SubmitReview, Steps
    <2>2. x.step = "transition_read" /\ x.exp = e /\ x.to = r.to
      BY <2>1 DEF RequestRecords
    <2>. HIDE DEF x
    <2>3. \A y : y.step = "transition_read" /\ y.exp = e /\ y.to = r.to => Sound(y)'
      BY <1>1, <2>1 DEF ClosedKept,
         Sound, ActSound, TargetSound, CommitSound, MarkSound, NewSound, FillSound, Expected
    <2>4. Hold(c, x)
      BY <1>7 DEF SubmitReview, x
    <2>5. QED
      BY <2>2, <2>3, <2>4
  <1>8. CASE TransitionRead(c)
    <2>. DEFINE x == ReadForTransition(r)
    <2>1. r.step = "transition_read" /\ r \in RequestRecords
      BY <1>2, <1>8 DEF TransitionRead, Steps
    <2>2. /\ x.exp = e /\ x.from = status[e] /\ x.to = r.to /\ x.user = r.user
          /\ x.step = "transition"
          /\ status[e] = "paused" /\ r.to = "running" /\ guardrail[e] => x.guard = "clear"
      BY <2>1 DEF ReadForTransition, RequestRecords
    <2>3. TransitionGuards(r) /\ Hold(c, x) /\ UNCHANGED stored
      BY <1>8, Zenon DEF TransitionRead
    <2>. HIDE DEF x
    <2>4. ASSUME NEW y, y.step = "transition", y.exp = e, y.from = status[e], y.to = r.to,
                 y.user = r.user,
                 status[e] = "paused" /\ r.to = "running" /\ guardrail[e] => y.guard = "clear"
          PROVE  Sound(y)'
      BY <1>1, <2>1, <2>3, <2>4 DEF TransitionGuards, stored, row,
         Sound, ActSound, TargetSound, CommitSound, MarkSound, NewSound, FillSound, Expected
    <2>5. QED
      BY <2>2, <2>3, <2>4
  <1>9. CASE ApplyReviewOutcome(c)
    <2>. DEFINE x == [r EXCEPT !.step = "transition", !.seen = version[e],
                               !.from = status[e]]
    <2>1. r.step = "apply_read" /\ r \in RequestRecords
      BY <1>2, <1>9 DEF ApplyReviewOutcome, Steps
    <2>2. x.step = "transition" /\ x.exp = e /\ x.from = status[e] /\ x.to = r.to
      BY <2>1 DEF RequestRecords
    <2>3. <<status[e], r.to>> \in Edges /\ Hold(c, x) /\ UNCHANGED stored
      BY <1>9 DEF ApplyReviewOutcome
    <2>. HIDE DEF x
    <2>4. ASSUME NEW y, y.step = "transition", y.exp = e, y.from = status[e], y.to = r.to
          PROVE  Sound(y)'
      BY <1>1, <2>1, <2>3, <2>4 DEF stored, row,
         Sound, ActSound, TargetSound, CommitSound, MarkSound, NewSound, FillSound, Expected
    <2>5. QED
      BY <2>2, <2>3, <2>4
  <1>10. CASE ActOnReview(c)
    <2>. DEFINE o == Outcome(r)
                x == [r EXCEPT !.step = "apply_read", !.to = TargetOf(o)]
    <2>1. r.step = "act" /\ r \in RequestRecords
      BY <1>2, <1>10 DEF ActOnReview, Steps
    <2>2. x.step = "apply_read" /\ x.exp = e /\ x.to = TargetOf(o)
      BY <2>1 DEF RequestRecords
    <2>3. Hold(c, IF o = "open" THEN NoRequest ELSE x)
      BY <1>10 DEF ActOnReview
    <2>4. /\ e \in Experiments /\ r.ver \in Versions
          /\ review'[e][r.ver] = o
      BY <1>1, <1>10, VoteStep
    <2>5. o \in {"open", "approved", "rejected", "changes_requested"}
      BY DEF Outcome
    <2>. HIDE DEF o, x
    <2>6. o # "open" => /\ TargetOf(o) \in {"approved", "draft", "rejected"}
                        /\ TargetOf(o) = "approved" => o = "approved"
      BY <2>5 DEF TargetOf
    <2>7. ASSUME NEW y, o # "open", y.step = "apply_read", y.exp = e, y.to = TargetOf(o)
          PROVE  Sound(y)'
      BY <2>4, <2>6, <2>7
         DEF Sound, ActSound, TargetSound, CommitSound, MarkSound, NewSound, FillSound, Expected
    <2>8. NoRequest.step \notin Steps
      BY DEF NoRequest, Steps
    <2>9. QED
      BY <1>3, <2>2, <2>3, <2>7, <2>8
  <1>. HIDE DEF Goal
  <1>11. QED
    BY <1>4, <1>5, <1>6, <1>7, <1>8, <1>9, <1>10 DEF Proceed

LEMMA SoundStep ==
    ASSUME LifecycleAssumption, TypeInv, ReviewInv, [Next]_vars
    PROVE  RequestsSound'
  <1>1. RowsKept /\ ClosedKept /\ TypeInv' /\ RequestsSound
    BY StepFacts, TypeStep DEF ReviewInv
  <1>2. ASSUME NEW c \in Requests, \E r : Hold(c, r) /\ Sound(r)'
        PROVE  RequestsSound'
    <2>1. PICK r : Hold(c, r) /\ Sound(r)'
      BY <1>2
    <2>2. /\ req'[c] = r
          /\ \A d \in Requests \ {c} : req'[d] = req[d]
      BY <2>1 DEF Hold, TypeInv, TypeOK
    <2>3. \A d \in Requests \ {c} : Sound(req[d])'
      <3>. SUFFICES ASSUME NEW d \in Requests \ {c}
                    PROVE  Sound(req[d])'
        OBVIOUS
      <3>1. QED
        BY <1>1, <2>2, KeepSound
    <2>4. Sound(req[c])'
      BY <2>1, <2>2
         DEF Sound, ActSound, TargetSound, CommitSound, MarkSound, NewSound, FillSound, Expected
    <2>5. QED
      BY <2>3, <2>4 DEF RequestsSound
  <1>3. ASSUME UNCHANGED req
        PROVE  RequestsSound'
    BY <1>1, <1>3, KeepSound DEF RequestsSound
  <1>4. \/ \E c \in Requests : \E r : Hold(c, r) /\ Sound(r)'
        \/ UNCHANGED req
    BY ArriveSound, ProceedSound
       DEF Next, UpdateDraft, RollbackToControl, UpdateFlag, DeleteFlag, vars
  <1>5. QED
    BY <1>2, <1>3, <1>4

-----------------------------------------------------------------------------
(* The theorems.                                                           *)

LEMMA ReviewInit ==
    ASSUME LifecycleAssumption, Init
    PROVE  ReviewInv
  <1>1. FreshInv /\ RequestsSound
    BY DEF Init, FreshInv, Fresh, RequestsSound, NoRequest,
       Sound, ActSound, TargetSound, CommitSound, MarkSound, NewSound, FillSound, Expected
  <1>2. CreatedClean /\ FutureEmpty /\ DecisionMatchesStatus
    BY DEF Init, CreatedClean, FutureEmpty, DecisionMatchesStatus
  <1>3. AuditCurrent
    <2>. SUFFICES ASSUME NEW e \in Experiments
                  PROVE  /\ auditTail[e].status = status[e]
                         /\ auditTail[e].guardrail = guardrail[e]
                         /\ auditTail[e].version <= version[e]
      BY DEF AuditCurrent
    <2>1. auditTail[e] = [actor |-> OwnerOf[e], status |-> "none",
                          version |-> 0, guardrail |-> FALSE]
      BY DEF Init
    <2>2. status[e] = "none" /\ version[e] = 0 /\ guardrail[e] = FALSE
      BY DEF Init
    <2>3. auditTail[e].status = status[e] /\ auditTail[e].version <= version[e]
      BY <2>1, <2>2
    <2>4. auditTail[e].guardrail = FALSE
      <3>1. \A g : [actor |-> OwnerOf[e], status |-> "none",
                    version |-> 0, guardrail |-> g].guardrail = g
        OBVIOUS
      <3>2. QED
        BY <2>1, <3>1, Zenon
    <2>5. auditTail[e].guardrail = guardrail[e]
      BY <2>2, <2>4, Zenon
    <2>6. QED
      BY <2>3, <2>5
  <1>4. ApprovedHasReview /\ ApprovalQuorum
    BY DEF Init, ApprovedHasReview, ApprovalQuorum
  <1>5. QED
    BY <1>1, <1>2, <1>3, <1>4 DEF ReviewInv

LEMMA ReviewInvStep ==
    ASSUME LifecycleAssumption, TypeInv, ReviewInv, [Next]_vars
    PROVE  ReviewInv'
  <1>1. FreshInv'
    BY FreshStep DEF ReviewInv
  <1>2. QED
    BY <1>1, SoundStep, CleanStep, FutureStep, AuditStep, DecisionStep, ApprovedStep,
       QuorumStep DEF ReviewInv

\* What requests in flight hold, what the rows say and what the reviews say
\* agree in every reachable state, for any number of requests and experiments.
THEOREM ReviewInvariant == Spec => []ReviewInv
  <1>. USE LifecycleAssumption
  <1>1. Init => ReviewInv
    BY ReviewInit
  <1>2. TypeInv /\ ReviewInv /\ [Next]_vars => ReviewInv'
    BY ReviewInvStep
  <1>3. QED
    BY <1>1, <1>2, TypeInvariant, PTL DEF Spec

\* The last audit record of an experiment tells its status and its guardrail
\* mark: no transaction of any handler changes one without the other.
THEOREM AuditTells == Spec => []AuditCurrent
  <1>1. ReviewInv => AuditCurrent
    BY DEF ReviewInv
  <1>2. QED
    BY <1>1, ReviewInvariant, PTL

\* A decision is stored exactly while the experiment is over, though a reset by
\* CreateVersion may race with Complete.
THEOREM DecisionMatches == Spec => []DecisionMatchesStatus
  <1>1. ReviewInv => DecisionMatchesStatus
    BY DEF ReviewInv
  <1>2. QED
    BY <1>1, ReviewInvariant, PTL

\* No interleaving of requests takes an experiment past review unless a review
\* of one of its versions was approved.
THEOREM ReviewedBeforeRun == Spec => []ApprovedHasReview
  <1>1. ReviewInv => ApprovedHasReview
    BY DEF ReviewInv
  <1>2. QED
    BY <1>1, ReviewInvariant, PTL

\* An approved review has enough distinct approvals, or an admin's, whatever
\* order the reviewers' votes are counted in.
THEOREM QuorumHolds == Spec => []ApprovalQuorum
  <1>1. ReviewInv => ApprovalQuorum
    BY DEF ReviewInv
  <1>2. QED
    BY <1>1, ReviewInvariant, PTL

\* A closed review, and who approved it, never changes again: the upsert of an
\* approval and the update of the status happen under a check that it is open.
THEOREM ReviewFinal == Spec => ClosedReviewFinal
  <1>. USE LifecycleAssumption
  <1>1. TypeInv /\ ReviewInv /\ [Next]_vars => [ClosedKept]_vars
    BY StepFacts
  <1>2. QED
    BY <1>1, TypeInvariant, ReviewInvariant, PTL DEF Spec, ClosedReviewFinal, ClosedKept

\* Only an admin resumes an experiment a guardrail paused, and resuming removes
\* the mark, though the mark was read without a lock; what a client that sends a
\* version ahead of the row commits is the exception, and the only one.
THEOREM GuardrailHolds == Spec => GuardrailHeld
  <1>. USE LifecycleAssumption
  <1>. DEFINE Override(e) ==
         (status[e] = "paused" /\ guardrail[e] /\ status'[e] = "running")
             => \/ auditTail'[e].actor \in Admins /\ ~guardrail'[e]
                \/ CommitsAhead(e)
  <1>1. ASSUME TypeInv, ReviewInv, [Next]_vars
        PROVE  \A e \in Experiments : Override(e)
    <2>1. CASE UNCHANGED status
      BY <2>1
    <2>2. ASSUME NEW e \in Experiments, Move(e)
          PROVE  \A x \in Experiments : Override(x)
      <3>1. MayMove(e, auditTail'[e].actor, status'[e], guardrail'[e], decision'[e])
        BY <1>1, <2>2, MoveFacts
      <3>2. Override(e)
        BY <3>1 DEF MayMove
      <3>3. \A x \in Experiments \ {e} : status'[x] = status[x]
        BY <1>1, <2>2, MoveFacts DEF OnlyRow
      <3>4. QED
        BY <3>2, <3>3
    <2>3. QED
      BY <1>1, <2>1, <2>2, StepFacts DEF row, Edit
  <1>2. TypeInv /\ ReviewInv /\ [Next]_vars => [\A e \in Experiments : Override(e)]_vars
    BY <1>1
  <1>3. QED
    BY <1>2, TypeInvariant, ReviewInvariant, PTL DEF Spec, GuardrailHeld

\* Variants that a version has are replaced in draft only: SetVariants checks
\* the status without a lock, and the version of the lock makes that enough.
THEOREM VariantsStable == Spec => FilledVersionStable
  <1>. USE LifecycleAssumption
  <1>. DEFINE Stable(e, n) ==
         (variants[e][n] # NoVariants /\ variants'[e][n] # variants[e][n])
             => status[e] = "draft"
  <1>1. ASSUME TypeInv, ReviewInv, [Next]_vars
        PROVE  \A e \in Experiments, n \in Versions : Stable(e, n)
    <2>1. CASE UNCHANGED variants
      BY <2>1
    <2>2. ASSUME NEW c \in Requests, SetVariants(c)
          PROVE  \A e \in Experiments, n \in Versions : Stable(e, n)
      <3>. DEFINE r == req[c]
      <3>1. /\ r.step = "set_variants"
            /\ version[r.exp] = r.lock
            /\ variants' = [variants EXCEPT ![r.exp][r.ver] = r.content]
        BY <2>2 DEF SetVariants, LockHolds
      <3>2. status[r.exp] = "draft" \/ variants[r.exp][r.ver] = NoVariants
        BY <1>1, <3>1 DEF ReviewInv, RequestsSound, Sound, FillSound, Expected
      <3>3. variants \in [Experiments -> [Versions -> Contents]]
        BY <1>1 DEF TypeInv, TypeOK
      <3>4. \A e \in Experiments, n \in Versions :
                e # r.exp \/ n # r.ver => variants'[e][n] = variants[e][n]
        BY <3>1, <3>3
      <3>5. QED
        BY <3>2, <3>4
    <2>3. QED
      BY <1>1, <2>1, <2>2, VariantsStep
  <1>2. TypeInv /\ ReviewInv /\ [Next]_vars
            => [\A e \in Experiments, n \in Versions : Stable(e, n)]_vars
    BY <1>1
  <1>3. QED
    BY <1>2, TypeInvariant, ReviewInvariant, PTL DEF Spec, FilledVersionStable

\* The default of a flag is written by an admin's update, by a guardrail
\* rollback and by the completion of an experiment.
LEMMA DefaultStep ==
    ASSUME [Next]_vars
    PROVE  \/ UNCHANGED flagDefault
           \/ \E f \in Flags : UpdateFlag(f)
           \/ \E u \in Users, e \in Experiments : RollbackToControl(u, e)
           \/ \E c \in Requests : Complete(c)
  <1>1. ASSUME NEW c \in Requests, NEW u \in Users, NEW e \in Experiments, Arrive(c, u, e)
        PROVE  UNCHANGED flagDefault
    BY <1>1 DEF Arrive, Create, CreateVersionRead, SetVariantsRead, SubmitRead, ResumeRead,
       TransitionRequest, InternalPauseRead, CompleteRead, ActRead, stored, flag
  <1>2. ASSUME NEW c \in Requests, Proceed(c)
        PROVE  UNCHANGED flagDefault \/ Complete(c)
    BY <1>2 DEF Proceed, CreateVersion, OpenReview, SetVariants, SubmitReview, TransitionRead,
       Transition, ActOnReview, ApplyReviewOutcome, Fail, stored, flag
  <1>3. QED
    BY <1>1, <1>2 DEF Next, UpdateDraft, DeleteFlag, flag, vars

\* A variant's value becomes a default only in the transaction that completes
\* or pauses the experiment of the flag that was active until then, though
\* Complete checked that it is active before it took any lock.
THEOREM DefaultFollowsActive == Spec => DefaultMovedByActive
  <1>. USE LifecycleAssumption
  <1>. DEFINE By(f, e) == /\ FlagOf[e] = f
                          /\ status[e] \in Active
                          /\ status'[e] \in {"completed", "paused"}
                          /\ auditTail'[e] # auditTail[e]
                          /\ flagDefault'[f].set = variants[e][cur[e]]
              Justified(f) == (flagDefault'[f] # flagDefault[f] /\ flagDefault'[f] # ByHand)
                                  => \E e \in Experiments : By(f, e)
  <1>1. ASSUME TypeInv, ReviewInv, NEW e \in Experiments, NEW u, NEW to, NEW g, NEW pick,
               status[e] \in Active,
               status' = [status EXCEPT ![e] = to], to \in {"completed", "paused"},
               Audit(e, u, to, g), SetDefault(e, pick)
        PROVE  \A f \in Flags : Justified(f)
    <2>1. /\ flagDefault' = [flagDefault EXCEPT ![FlagOf[e]] =
                                [set |-> variants[e][cur[e]], pick |-> pick]]
          /\ flagDefault \in [Flags -> FlagValues]
          /\ FlagOf[e] \in Flags
      BY <1>1 DEF SetDefault, TypeInv, TypeOK, LifecycleAssumption
    <2>2. auditTail'[e].version = version[e] + 1
      BY <1>1 DEF Audit, TypeInv, TypeOK
    <2>3. auditTail[e].version \in 0..MaxLock /\ version[e] \in 0..MaxLock
          /\ auditTail[e].version <= version[e]
      BY <1>1 DEF ReviewInv, AuditCurrent, TypeInv, TypeOK, AuditRecords
    <2>4. auditTail'[e] # auditTail[e]
      BY <2>2, <2>3
    <2>5. status'[e] = to
      BY <1>1 DEF TypeInv, TypeOK
    <2>6. flagDefault'[FlagOf[e]].set = variants[e][cur[e]]
      BY <2>1
    <2>7. By(FlagOf[e], e)
      BY <1>1, <2>4, <2>5, <2>6
    <2>8. \A f \in Flags : f # FlagOf[e] => flagDefault'[f] = flagDefault[f]
      BY <2>1
    <2>. HIDE DEF By
    <2>9. QED
      BY <2>7, <2>8
  <1>2. ASSUME TypeInv, ReviewInv, [Next]_vars
        PROVE  \A f \in Flags : Justified(f)
    <2>1. CASE UNCHANGED flagDefault
      BY <2>1
    <2>2. ASSUME NEW f \in Flags, UpdateFlag(f)
          PROVE  \A x \in Flags : Justified(x)
      BY <1>2, <2>2 DEF UpdateFlag, TypeInv, TypeOK
    <2>3. ASSUME NEW u \in Users, NEW e \in Experiments, RollbackToControl(u, e)
          PROVE  \A f \in Flags : Justified(f)
      <3>1. /\ status[e] \in Active
            /\ status' = [status EXCEPT ![e] = "paused"]
            /\ Audit(e, u, "paused", TRUE)
            /\ SetDefault(e, "control")
        BY <2>3 DEF RollbackToControl, Active
      <3>. HIDE DEF Justified
      <3>2. QED
        BY <1>1, <1>2, <3>1
    <2>4. ASSUME NEW c \in Requests, Complete(c)
          PROVE  \A f \in Flags : Justified(f)
      <3>. DEFINE e == req[c].exp
      <3>1. req[c].step = "complete" /\ e \in Experiments
        BY <1>2, <2>4, Owned DEF Complete, Steps
      <3>2. /\ status[e] \in Active
            /\ status' = [status EXCEPT ![e] = "completed"]
            /\ Audit(e, req[c].user, "completed", guardrail[e])
            /\ UNCHANGED flagDefault \/ \E pick : SetDefault(e, pick)
        BY <1>2, <2>4, <3>1 DEF Complete, ReviewInv, RequestsSound, Sound, CommitSound
      <3>. HIDE DEF Justified
      <3>3. CASE UNCHANGED flagDefault
        BY <2>1, <3>3
      <3>4. ASSUME NEW pick, SetDefault(e, pick)
            PROVE  \A f \in Flags : Justified(f)
        BY <1>1, <1>2, <3>1, <3>2, <3>4
      <3>5. QED
        BY <3>2, <3>3, <3>4
    <2>5. QED
      BY <1>2, <2>1, <2>2, <2>3, <2>4, DefaultStep
  <1>3. TypeInv /\ ReviewInv /\ [Next]_vars => [\A f \in Flags : Justified(f)]_vars
    BY <1>2
  <1>4. QED
    BY <1>3, TypeInvariant, ReviewInvariant, PTL DEF Spec, DefaultMovedByActive

\* The status follows its graph, or falls back to draft when a new version
\* replaces an approved or a rejected one; a version created of an outdated read,
\* and nothing else, resets other statuses.
THEOREM GraphFollowed == Spec => StatusFollowsGraph
  <1>. USE LifecycleAssumption
  <1>. DEFINE Follows(e) ==
         status'[e] # status[e] =>
             \/ <<status[e], status'[e]>> \in
                    Edges \cup {<<"none", "draft">>, <<"approved", "draft">>,
                                <<"rejected", "draft">>}
             \/ Overtaken(e) /\ status'[e] = "draft"
  <1>1. ASSUME TypeInv, ReviewInv, [Next]_vars
        PROVE  \A e \in Experiments : Follows(e)
    <2>1. CASE UNCHANGED status
      BY <2>1
    <2>2. ASSUME NEW e \in Experiments, Move(e)
          PROVE  \A x \in Experiments : Follows(x)
      <3>1. MayMove(e, auditTail'[e].actor, status'[e], guardrail'[e], decision'[e])
        BY <1>1, <2>2, MoveFacts
      <3>2. status[e] \in Active => <<status[e], "completed">> \in Edges
        BY DEF Active, Edges
      <3>3. Follows(e)
        BY <3>1, <3>2 DEF MayMove, ResetStatuses
      <3>4. \A x \in Experiments \ {e} : status'[x] = status[x]
        BY <1>1, <2>2, MoveFacts DEF OnlyRow
      <3>5. QED
        BY <3>3, <3>4
    <2>3. QED
      BY <1>1, <2>1, <2>2, StepFacts DEF row, Edit
  <1>2. TypeInv /\ ReviewInv /\ [Next]_vars => [\A e \in Experiments : Follows(e)]_vars
    BY <1>1
  <1>3. QED
    BY <1>2, TypeInvariant, ReviewInvariant, PTL DEF Spec, StatusFollowsGraph

\* The version number moves when an experiment or a version of it is created.
LEMMA VersionMoves ==
    ASSUME LifecycleAssumption, TypeInv, ReviewInv, [Next]_vars,
           NEW e \in Experiments, cur'[e] # cur[e]
    PROVE  status[e] # "running" \/ Overtaken(e)
  <1>. DEFINE Goal == status[e] # "running" \/ Overtaken(e)
  <1>1. TypeOK
    BY DEF TypeInv
  <1>2. ASSUME NEW c \in Requests, NEW u \in Users, NEW x \in Experiments, Arrive(c, u, x)
        PROVE  Goal
    <2>1. ASSUME NEW content \in Contents, Create(c, u, x, content)
          PROVE  Goal
      <3>1. x = e
        BY <1>1, <2>1 DEF Create, CreateExperiment, TypeOK
      <3>2. QED
        BY <2>1, <3>1 DEF Create, CreateExperiment
    <2>2. QED
      BY <1>2, <2>1 DEF Arrive, CreateVersionRead, SetVariantsRead, SubmitRead, ResumeRead,
         TransitionRequest, InternalPauseRead, CompleteRead, ActRead, stored, row
  <1>3. ASSUME NEW c \in Requests, CreateVersion(c)
        PROVE  Goal
    <2>1. req[c].exp = e
      BY <1>1, <1>3 DEF CreateVersion, TypeOK
    <2>2. Sound(req[c])
      BY DEF ReviewInv, RequestsSound
    <2>3. QED
      BY <1>3, <2>1, <2>2, CreateVersionFresh DEF Versionable
  <1>4. ASSUME NEW c \in Requests, Proceed(c)
        PROVE  Goal
    BY <1>3, <1>4 DEF Proceed, SetVariants, OpenReview, SubmitReview, TransitionRead,
       Transition, Complete, ActOnReview, ApplyReviewOutcome, Fail, stored, row
  <1>5. ASSUME NEW f \in Flags, UpdateFlag(f) \/ DeleteFlag(f)
        PROVE  Goal
    BY <1>5 DEF UpdateFlag, DeleteFlag, row
  <1>6. ASSUME NEW u \in Users, NEW x \in Experiments,
               UpdateDraft(u, x) \/ RollbackToControl(u, x)
        PROVE  Goal
    BY <1>6 DEF UpdateDraft, RollbackToControl
  <1>7. CASE UNCHANGED vars
    BY <1>7 DEF vars
  <1>8. QED
    BY <1>2, <1>4, <1>5, <1>6, <1>7 DEF Next

\* Which version of a running experiment is current, and the variants of all of
\* its versions, stand still while it runs: no request that read the row before
\* it was started reaches it, but one that creates a version of that outdated read.
THEOREM RunningStays == Spec => RunningVersionHeld
  <1>. USE LifecycleAssumption
  <1>. DEFINE Stays(e) == status[e] = "running" =>
                              \/ cur'[e] = cur[e] /\ variants'[e] = variants[e]
                              \/ Overtaken(e)
  <1>1. ASSUME TypeInv, ReviewInv, [Next]_vars, NEW e \in Experiments
        PROVE  Stays(e)
    <2>1. cur'[e] = cur[e] \/ status[e] # "running" \/ Overtaken(e)
      BY <1>1, VersionMoves
    <2>2. ASSUME NEW c \in Requests, SetVariants(c), variants'[e] # variants[e]
          PROVE  status[e] # "running"
      <3>1. req[c].exp = e
        BY <1>1, <2>2 DEF SetVariants, TypeInv, TypeOK
      <3>2. Sound(req[c])
        BY <1>1 DEF ReviewInv, RequestsSound
      <3>3. QED
        BY <2>2, <3>1, <3>2 DEF SetVariants, LockHolds, Sound, FillSound, Expected
    <2>3. QED
      BY <1>1, <2>1, <2>2, VariantsStep
  <1>2. TypeInv /\ ReviewInv /\ [Next]_vars => [\A e \in Experiments : Stays(e)]_vars
    BY <1>1
  <1>3. QED
    BY <1>2, TypeInvariant, ReviewInvariant, PTL DEF Spec, RunningVersionHeld

=============================================================================
