------------------------ MODULE ExperimentLifecycle ------------------------
(***************************************************************************)
(* The experiment aggregate of the panel service: the experiments row, its *)
(* versions and their variants, the reviews of those versions, the audit   *)
(* trail and the flag the experiment varies.                               *)
(*                                                                         *)
(* A request is a process.  Its handler reads rows without a lock, decides *)
(* from what it read, and commits one or more transactions later; every    *)
(* read and every transaction is a step of its own, so requests interleave *)
(* between them.  A transaction is one step: it locks the experiments row  *)
(* (or updates it under a WHERE on status and version).                    *)
(*                                                                         *)
(* CreateVersion and SetVariants compare the client's version with the row *)
(* they read; the other handlers leave that to the transaction, so a value *)
(* ahead of the row they read is taken, and may match by then.  A value    *)
(* already stale at the first read can commit nothing but the review of a  *)
(* Submit or of an Act, and those also arise when the row moves after the  *)
(* read; so what a client sends is at least the row's version at that read.*)
(***************************************************************************)
EXTENDS Naturals, FiniteSets

CONSTANTS
    Experiments,   \* experiment ids
    Flags,         \* flag ids
    FlagOf,        \* the flag an experiment varies
    Users,         \* authenticated callers
    OwnerOf,       \* the user that creates (and owns) an experiment
    Admins,        \* users with the admin role
    Approvers,     \* users the owner's approver group lets act on a review
    MinApprovals,  \* the group's threshold
    VariantSets,   \* complete sets of variants, each passing ValidateVariants
    Requests,      \* requests in flight
    MaxVersions,   \* bound: version_num of an experiment
    MaxLock,       \* bound: the optimistic-lock counter of an experiment
    MaxAhead       \* bound: how far a client's version is ahead of the row

NoVariants == "no_variants"

ASSUME LifecycleAssumption ==
    /\ FlagOf \in [Experiments -> Flags]
    /\ OwnerOf \in [Experiments -> Users]
    /\ Admins \subseteq Users
    /\ Approvers \subseteq Users
    /\ MinApprovals \in Nat \ {0}
    /\ NoVariants \notin VariantSets
    /\ MaxVersions \in Nat \ {0}
    /\ MaxLock \in Nat \ {0}
    /\ MaxAhead \in Nat

VARIABLES
    status,       \* experiments.status; "none" before the INSERT
    version,      \* experiments.version, the optimistic lock
    cur,          \* version_num of current_version_id, also MAX(version_num)
    guardrail,    \* experiments.guardrail_paused
    decision,     \* experiments.completion_decision
    variants,     \* the variants rows of each version
    review,       \* reviews.status of each version; "none" without a review
    approvals,    \* reviewers whose decision on the review is "approve"
    auditTail,    \* the latest audit record of each experiment
    outbox,       \* experiments whose experiment.created message is stored
    flagDefault,  \* flags.default_value
    flagDeleted,  \* flags.deleted_at IS NOT NULL
    req           \* the requests in flight

row == <<status, version, cur, guardrail, decision>>
flag == <<flagDefault, flagDeleted>>
stored == <<row, variants, review, approvals, auditTail, outbox, flag>>
vars == <<status, version, cur, guardrail, decision, variants, review,
          approvals, auditTail, outbox, flagDefault, flagDeleted, req>>

Statuses == {"none", "draft", "review", "approved", "running", "paused",
             "completed", "archived", "rejected"}
Existing == Statuses \ {"none"}
ReviewStatuses == {"none", "open", "approved", "changes_requested", "rejected"}
Decisions == {"none", "rollout_winner", "rollback", "no_effect"}
Versions == 1..MaxVersions
Contents == VariantSets \cup {NoVariants}
Active == {"running", "paused"}

\* Mutant: an experiment may start without waiting for its approval.
EdgesStartFromReview ==
    {<<"draft", "review">>, <<"review", "approved">>, <<"review", "draft">>,
     <<"review", "rejected">>, <<"review", "running">>, <<"approved", "running">>,
     <<"running", "paused">>, <<"running", "completed">>,
     <<"paused", "running">>, <<"paused", "completed">>,
     <<"completed", "archived">>}

\* ValidateTransition.
Edges == {<<"draft", "review">>,
          <<"review", "approved">>, <<"review", "draft">>, <<"review", "rejected">>,
          <<"approved", "running">>,
          <<"running", "paused">>, <<"running", "completed">>,
          <<"paused", "running">>, <<"paused", "completed">>,
          <<"completed", "archived">>}

\* A default value: typed in by an admin, or the value of a variant.
FlagValues == [set : Contents, pick : {"by_hand", "control", "winner"}]
ByHand == [set |-> NoVariants, pick |-> "by_hand"]

AuditRecords == [actor : Users, status : Statuses, version : 0..MaxLock,
                 guardrail : BOOLEAN]

Steps == {"create_version", "open_review", "set_variants", "submit_review",
          "transition_read", "act", "apply_read", "transition", "complete"}

\* lock: the version the client sent; seen: the row's version when the handler
\* last read it, which the code does not keep; guard: what Transition does with
\* guardrail_paused (nil, *true, *false).
RequestRecords ==
    [step : Steps, exp : Experiments, user : Users, lock : 0..MaxLock,
     seen : 0..MaxLock, from : Existing, to : Existing, guard : {"keep", "set", "clear"},
     ver : 0..MaxVersions, content : Contents,
     verdict : Decisions \cup {"approve", "request_changes", "reject"}]

NoRequest == [step |-> "idle"]

\* Mutants: the status switch of CreateVersion is missing; a paused experiment
\* is reset as well.
VersionableAlways == Existing
ResetPausedToo == {"approved", "paused", "rejected"}

\* Statuses Service.CreateVersion accepts, and those it resets to draft.
Versionable == {"draft", "review", "approved", "paused", "rejected"}
ResetStatuses == {"approved", "rejected"}

\* The versions a client may send to a handler that does not compare them.
Sent(e) == {n \in version[e]..MaxLock : n <= version[e] + MaxAhead}

\* What a handler holds after its first read of the row.
Request(step, e, u) ==
    [step |-> step, exp |-> e, user |-> u, lock |-> version[e],
     seen |-> version[e], from |-> status[e], to |-> status[e], guard |-> "keep",
     ver |-> 0, content |-> NoVariants, verdict |-> "none"]

Hold(c, r) == req' = [req EXCEPT ![c] = r]
Finish(c) == Hold(c, NoRequest)

MayEdit(u, e) == u \in Admins \/ u = OwnerOf[e]

\* Mutant: paused experiments are not counted.
FlagFreeIgnoresPaused(e) ==
    \A other \in Experiments \ {e} :
        FlagOf[other] = FlagOf[e] => status[other] # "running"

\* CountActiveByFlag = 0: no other experiment of the flag runs or is paused.
FlagFree(e) ==
    \A other \in Experiments \ {e} :
        FlagOf[other] = FlagOf[e] => status[other] \notin Active

Init ==
    /\ status = [e \in Experiments |-> "none"]
    /\ version = [e \in Experiments |-> 0]
    /\ cur = [e \in Experiments |-> 0]
    /\ guardrail = [e \in Experiments |-> FALSE]
    /\ decision = [e \in Experiments |-> "none"]
    /\ variants = [e \in Experiments |-> [n \in Versions |-> NoVariants]]
    /\ review = [e \in Experiments |-> [n \in Versions |-> "none"]]
    /\ approvals = [e \in Experiments |-> [n \in Versions |-> {}]]
    /\ auditTail = [e \in Experiments |->
                      [actor |-> OwnerOf[e], status |-> "none",
                       version |-> 0, guardrail |-> FALSE]]
    /\ outbox = {}
    /\ flagDefault = [f \in Flags |-> ByHand]
    /\ flagDeleted = [f \in Flags |-> FALSE]
    /\ req = [c \in Requests |-> NoRequest]

-----------------------------------------------------------------------------
(* The row updates every transaction is made of.                           *)

\* Mutant: an update that forgets the optimistic lock.
BumpForgotten(e) == version[e] < MaxLock /\ UNCHANGED version

\* version = version + 1, within the bound.
Bump(e) ==
    /\ version[e] < MaxLock
    /\ version' = [version EXCEPT ![e] = @ + 1]

\* Mutant: the record repeats the guardrail mark from before the change.
AuditStaleMark(e, u, to, g) ==
    auditTail' = [auditTail EXCEPT ![e] =
                    [actor |-> u, status |-> to, version |-> version[e] + 1,
                     guardrail |-> guardrail[e]]]

\* appendExperimentStateAudit, in the transaction that changes the row.
Audit(e, u, to, g) ==
    auditTail' = [auditTail EXCEPT ![e] =
                    [actor |-> u, status |-> to, version |-> version[e] + 1,
                     guardrail |-> g]]

\* Mutants: the WHERE version = $n is missing; the unique index is missing.
LockIgnored(r) == TRUE
NoUniqueIndex(r) == TRUE

\* The client's version still is the row's, under the row lock.
LockHolds(r) == version[r.exp] = r.lock

\* uniq_active_experiment_per_flag.
UniqueActive(r) == r.to \in Active => FlagFree(r.exp)

\* Mutant: the value comes from the first version instead of the current one.
SetDefaultFirstVersion(e, pick) ==
    /\ variants[e][cur[e]] # NoVariants
    /\ flagDefault' = [flagDefault EXCEPT ![FlagOf[e]] =
                          [set |-> variants[e][1], pick |-> pick]]

\* setFlagDefaultToControl and setFlagDefaultToWinner: the value comes from
\* the variants of the current version, which must exist.
SetDefault(e, pick) ==
    /\ variants[e][cur[e]] # NoVariants
    /\ flagDefault' = [flagDefault EXCEPT ![FlagOf[e]] =
                          [set |-> variants[e][cur[e]], pick |-> pick]]

\* CreateReview of the reviews repository.
InsertReview(e, n) == review' = [review EXCEPT ![e][n] = "open"]

-----------------------------------------------------------------------------
(* Drafting: Create, UpdateDraft, SetVariants, CreateVersion.              *)

\* CreateExperiment: the row, its first version, the audit record and the
\* outbox message in one transaction.
CreateExperiment(u, e) ==
    /\ status[e] = "none"
    /\ status' = [status EXCEPT ![e] = "draft"]
    /\ version' = [version EXCEPT ![e] = 1]
    /\ cur' = [cur EXCEPT ![e] = 1]
    /\ Audit(e, u, "draft", FALSE)
    /\ outbox' = outbox \cup {e}

\* Create: variants, when given, are a second transaction that expects version 1.
Create(c, u, e, content) ==
    /\ req[c] = NoRequest
    /\ u = OwnerOf[e]
    /\ ~flagDeleted[FlagOf[e]]
    /\ CreateExperiment(u, e)
    /\ Hold(c, IF content = NoVariants THEN NoRequest
               ELSE [Request("set_variants", e, u) EXCEPT
                       !.lock = 1, !.seen = 1, !.from = "draft", !.to = "draft",
                       !.ver = 1, !.content = content])
    /\ UNCHANGED <<guardrail, decision, variants, review, approvals, flag>>

\* UpdateDraft: one UPDATE that checks status and version itself.
UpdateDraft(u, e) ==
    /\ MayEdit(u, e)
    /\ status[e] = "draft"
    /\ Bump(e)
    /\ UNCHANGED <<status, cur, guardrail, decision, variants, review,
                   approvals, auditTail, outbox, flag, req>>

\* Service.SetVariants up to its transaction: the status is checked here only.
SetVariantsRead(c, u, e, content) ==
    /\ req[c] = NoRequest
    /\ MayEdit(u, e)
    /\ status[e] = "draft"
    /\ ~flagDeleted[FlagOf[e]]
    /\ Hold(c, [Request("set_variants", e, u) EXCEPT
                  !.ver = cur[e], !.content = content])
    /\ UNCHANGED stored

\* Repository.SetVariants: bump under WHERE version, then replace the rows.
SetVariants(c) ==
    LET r == req[c] IN
    /\ r.step = "set_variants"
    /\ LockHolds(r)
    /\ Bump(r.exp)
    /\ variants' = [variants EXCEPT ![r.exp][r.ver] = r.content]
    /\ Finish(c)
    /\ UNCHANGED <<status, cur, guardrail, decision, review, approvals,
                   auditTail, outbox, flag>>

\* Service.CreateVersion up to its first transaction.
CreateVersionRead(c, u, e, content) ==
    /\ req[c] = NoRequest
    /\ MayEdit(u, e)
    /\ status[e] \in Versionable
    /\ ~flagDeleted[FlagOf[e]]
    /\ Hold(c, [Request("create_version", e, u) EXCEPT !.content = content])
    /\ UNCHANGED stored

\* After the version exists (and its review, in review): the variants, if any,
\* expecting the version that was read plus one.
VariantsNext(r) == IF r.content = NoVariants THEN NoRequest
                   ELSE [r EXCEPT !.step = "set_variants", !.lock = r.lock + 1]

\* Mutant: the completion columns survive the reset.
ResetKeepsDecision(e, u) ==
    /\ status' = [status EXCEPT ![e] = "draft"]
    /\ Audit(e, u, "draft", guardrail[e])
    /\ UNCHANGED decision

\* The reset of CreateVersion, with its audit record.
ResetToDraft(e, u) ==
    /\ status' = [status EXCEPT ![e] = "draft"]
    /\ decision' = [decision EXCEPT ![e] = "none"]
    /\ Audit(e, u, "draft", guardrail[e])

\* Repository.CreateVersion: locks the row but rechecks neither its status nor
\* its version; resets to draft on what the unlocked read saw.
CreateVersion(c) ==
    LET r == req[c]
        e == r.exp
        next == [r EXCEPT !.ver = cur[e] + 1]
    IN
    /\ r.step = "create_version"
    /\ cur[e] < MaxVersions
    /\ cur' = [cur EXCEPT ![e] = @ + 1]
    /\ Bump(e)
    /\ IF r.from \in ResetStatuses
       THEN ResetToDraft(e, r.user)
       ELSE UNCHANGED <<status, decision, auditTail>>
    /\ Hold(c, IF r.from = "review" THEN [next EXCEPT !.step = "open_review"]
               ELSE VariantsNext(next))
    /\ UNCHANGED <<guardrail, variants, review, approvals, outbox, flag>>

\* CreateVersion of an experiment read in review also opens a review.
OpenReview(c) ==
    LET r == req[c] IN
    /\ r.step = "open_review"
    /\ review[r.exp][r.ver] = "none"
    /\ InsertReview(r.exp, r.ver)
    /\ Hold(c, VariantsNext(r))
    /\ UNCHANGED <<row, variants, approvals, auditTail, outbox, flag>>

-----------------------------------------------------------------------------
(* Transitions: Submit, Start, Pause, Resume, Archive, InternalPause.      *)

\* Service.Submit: checkReady and currentVersion, whatever the status.
SubmitRead(c, u, e, lock) ==
    /\ req[c] = NoRequest
    /\ status[e] # "none"
    /\ MayEdit(u, e)
    /\ variants[e][cur[e]] # NoVariants
    /\ ~flagDeleted[FlagOf[e]]
    /\ Hold(c, [Request("submit_review", e, u) EXCEPT
                  !.lock = lock, !.ver = cur[e], !.to = "review"])
    /\ UNCHANGED stored

\* ... then CreateReview, where ErrReviewExists is not an error.
SubmitReview(c) ==
    LET r == req[c] IN
    /\ r.step = "submit_review"
    /\ IF review[r.exp][r.ver] = "none" THEN InsertReview(r.exp, r.ver)
                                        ELSE UNCHANGED review
    /\ Hold(c, [r EXCEPT !.step = "transition_read"])
    /\ UNCHANGED <<row, variants, approvals, auditTail, outbox, flag>>

\* Mutant: nobody asks who resumes after a guardrail pause.
TransitionGuardsAnyone(r) ==
    LET e == r.exp IN
    /\ <<status[e], r.to>> \in Edges
    /\ r.to = "running" => FlagFree(e)

\* Service.transition up to repo.Transition, for a request r.
TransitionGuards(r) ==
    LET e == r.exp IN
    /\ <<status[e], r.to>> \in Edges
    /\ r.to = "running" => FlagFree(e)
    /\ (status[e] = "paused" /\ r.to = "running" /\ guardrail[e])
            => r.user \in Admins

ReadForTransition(r) ==
    LET e == r.exp IN
    [r EXCEPT !.step = "transition", !.seen = version[e], !.from = status[e],
              !.guard = IF status[e] = "paused" /\ r.to = "running" /\ guardrail[e]
                        THEN "clear" ELSE "keep"]

\* Start, Pause and Archive are a single call of transition; Start also takes a
\* paused experiment, without the look at the review that Resume takes.
TransitionRequest(c, u, e, lock, to) ==
    LET r == [Request("transition_read", e, u) EXCEPT !.lock = lock, !.to = to] IN
    /\ req[c] = NoRequest
    /\ MayEdit(u, e)
    /\ to \in {"running", "paused", "archived"}
    /\ TransitionGuards(r)
    /\ Hold(c, ReadForTransition(r))
    /\ UNCHANGED stored

\* Resume reads the row and the review of the current version, then calls
\* transition; a version that never had a review is let through.
ResumeRead(c, u, e, lock) ==
    /\ req[c] = NoRequest
    /\ MayEdit(u, e)
    /\ status[e] = "paused"
    /\ review[e][cur[e]] \in {"none", "approved"}
    /\ Hold(c, [Request("transition_read", e, u) EXCEPT !.lock = lock, !.to = "running"])
    /\ UNCHANGED stored

\* transition reads the row again after Submit or Resume did.
TransitionRead(c) ==
    LET r == req[c] IN
    /\ r.step = "transition_read"
    /\ TransitionGuards(r)
    /\ Hold(c, ReadForTransition(r))
    /\ UNCHANGED stored

\* InternalPause: guardrailTransition, for admins.
InternalPauseRead(c, u, e, lock) ==
    /\ req[c] = NoRequest
    /\ u \in Admins
    /\ <<status[e], "paused">> \in Edges
    /\ Hold(c, [Request("transition", e, u) EXCEPT
                  !.lock = lock, !.to = "paused", !.guard = "set"])
    /\ UNCHANGED stored

\* Repository.Transition: row lock, status and version rechecked, unique index.
Transition(c) ==
    LET r == req[c]
        e == r.exp
        g == CASE r.guard = "set" -> TRUE
               [] r.guard = "clear" -> FALSE
               [] OTHER -> guardrail[e]
    IN
    /\ r.step = "transition"
    /\ status[e] = r.from
    /\ LockHolds(r)
    /\ UniqueActive(r)
    /\ status' = [status EXCEPT ![e] = r.to]
    /\ guardrail' = [guardrail EXCEPT ![e] = g]
    /\ Bump(e)
    /\ Audit(e, r.user, r.to, g)
    /\ Finish(c)
    /\ UNCHANGED <<cur, decision, variants, review, approvals, outbox, flag>>

\* Mutant: the automatic rollback does not move the optimistic lock.
RollbackUnversioned(u, e) ==
    /\ u \in Admins
    /\ status[e] = "running"
    /\ SetDefault(e, "control")
    /\ status' = [status EXCEPT ![e] = "paused"]
    /\ guardrail' = [guardrail EXCEPT ![e] = TRUE]
    /\ Audit(e, u, "paused", TRUE)
    /\ UNCHANGED <<version, cur, decision, variants, review, approvals, outbox,
                   flagDeleted, req>>

\* InternalRollback is one transaction: RollbackToControl.
RollbackToControl(u, e) ==
    /\ u \in Admins
    /\ status[e] = "running"
    /\ SetDefault(e, "control")
    /\ status' = [status EXCEPT ![e] = "paused"]
    /\ guardrail' = [guardrail EXCEPT ![e] = TRUE]
    /\ Bump(e)
    /\ Audit(e, u, "paused", TRUE)
    /\ UNCHANGED <<cur, decision, variants, review, approvals, outbox,
                   flagDeleted, req>>

\* Service.Complete and Rollout up to the transaction.
CompleteRead(c, u, e, lock, verdict) ==
    /\ req[c] = NoRequest
    /\ MayEdit(u, e)
    /\ status[e] \in Active
    /\ Hold(c, [Request("complete", e, u) EXCEPT !.lock = lock, !.verdict = verdict])
    /\ UNCHANGED stored

\* completeNoEffect, completeRolloutWinner, completeRollbackToControl.  The
\* version that matches identifies the variants the winner was chosen from.
Complete(c) ==
    LET r == req[c]
        e == r.exp
    IN
    /\ r.step = "complete"
    /\ status[e] = r.from
    /\ LockHolds(r)
    /\ \/ r.verdict = "no_effect" /\ UNCHANGED flagDefault
       \/ r.verdict = "rollback" /\ SetDefault(e, "control")
       \/ r.verdict = "rollout_winner" /\ SetDefault(e, "winner")
    /\ status' = [status EXCEPT ![e] = "completed"]
    /\ decision' = [decision EXCEPT ![e] = r.verdict]
    /\ Bump(e)
    /\ Audit(e, r.user, "completed", guardrail[e])
    /\ Finish(c)
    /\ UNCHANGED <<cur, guardrail, variants, review, approvals, outbox, flagDeleted>>

-----------------------------------------------------------------------------
(* Reviews.                                                                *)

\* Mutant: the group's threshold is not consulted.
ThresholdOfOne(u) == 1

Threshold(u) == IF u \in Admins THEN 1 ELSE MinApprovals

\* Act: the review is open and the caller eligible, both read without a lock.
ActRead(c, u, e, lock, n, verdict) ==
    /\ req[c] = NoRequest
    /\ review[e][n] = "open"
    /\ u \in Admins \cup Approvers
    /\ Hold(c, [Request("act", e, u) EXCEPT
                  !.lock = lock, !.ver = n, !.verdict = verdict])
    /\ UNCHANGED stored

\* The review status an action leads to.
Outcome(r) ==
    CASE r.verdict = "reject" -> "rejected"
      [] r.verdict = "request_changes" -> "changes_requested"
      [] OTHER ->
            IF Cardinality(approvals[r.exp][r.ver] \cup {r.user}) >= Threshold(r.user)
            THEN "approved" ELSE "open"

\* Mutant: the review status is passed on as the experiment status.
TargetUnmapped(outcome) == outcome

\* The experiment status a closed review asks for.
TargetOf(outcome) == CASE outcome = "approved" -> "approved"
                       [] outcome = "changes_requested" -> "draft"
                       [] outcome = "rejected" -> "rejected"

\* Mutant: the review is not read again under its lock.
UndecidedUnlocked(r) == r.user \notin approvals[r.exp][r.ver]

\* Under the lock of the review row: still open, and the first action of this
\* reviewer (uq_approvals_reviewer).
Undecided(r) ==
    /\ review[r.exp][r.ver] = "open"
    /\ r.user \notin approvals[r.exp][r.ver]

\* ActOnReview: the review row is locked and must still be open.
ActOnReview(c) ==
    LET r == req[c]
        outcome == Outcome(r)
    IN
    /\ r.step = "act"
    /\ Undecided(r)
    /\ review' = [review EXCEPT ![r.exp][r.ver] = outcome]
    /\ approvals' = IF r.verdict = "approve"
                    THEN [approvals EXCEPT ![r.exp][r.ver] = @ \cup {r.user}]
                    ELSE approvals
    /\ Hold(c, IF outcome = "open" THEN NoRequest
               ELSE [r EXCEPT !.step = "apply_read", !.to = TargetOf(outcome)])
    /\ UNCHANGED <<row, variants, auditTail, outbox, flag>>

\* ApplyReviewOutcome reads the row; its transaction is Transition.
ApplyReviewOutcome(c) ==
    LET r == req[c] IN
    /\ r.step = "apply_read"
    /\ <<status[r.exp], r.to>> \in Edges
    /\ Hold(c, [r EXCEPT !.step = "transition", !.seen = version[r.exp],
                         !.from = status[r.exp]])
    /\ UNCHANGED stored

-----------------------------------------------------------------------------
(* Flags.                                                                  *)

\* Flags.Update changes default_value by hand.
UpdateFlag(f) ==
    /\ ~flagDeleted[f]
    /\ flagDefault' = [flagDefault EXCEPT ![f] = ByHand]
    /\ UNCHANGED <<row, variants, review, approvals, auditTail, outbox,
                   flagDeleted, req>>

\* Flags.Delete: soft delete unless an active experiment references the flag.
DeleteFlag(f) ==
    /\ ~flagDeleted[f]
    /\ \A e \in Experiments : FlagOf[e] = f => status[e] \notin Active
    /\ flagDeleted' = [flagDeleted EXCEPT ![f] = TRUE]
    /\ UNCHANGED <<row, variants, review, approvals, auditTail, outbox,
                   flagDefault, req>>

\* A failed check, a database error, a cancelled request or a crash of the
\* panel ends a request between two of its transactions.
Fail(c) ==
    /\ req[c] # NoRequest
    /\ Finish(c)
    /\ UNCHANGED stored

-----------------------------------------------------------------------------
Arrive(c, u, e) ==
    \/ \E content \in Contents :
           \/ Create(c, u, e, content)
           \/ CreateVersionRead(c, u, e, content)
    \/ \E content \in VariantSets : SetVariantsRead(c, u, e, content)
    \/ \E lock \in Sent(e) :
           \/ SubmitRead(c, u, e, lock)
           \/ ResumeRead(c, u, e, lock)
           \/ \E to \in Statuses : TransitionRequest(c, u, e, lock, to)
           \/ InternalPauseRead(c, u, e, lock)
           \/ \E verdict \in Decisions \ {"none"} : CompleteRead(c, u, e, lock, verdict)
           \/ \E n \in Versions, verdict \in {"approve", "request_changes", "reject"} :
                  ActRead(c, u, e, lock, n, verdict)

Proceed(c) ==
    \/ SetVariants(c)
    \/ CreateVersion(c)
    \/ OpenReview(c)
    \/ SubmitReview(c)
    \/ TransitionRead(c)
    \/ Transition(c)
    \/ Complete(c)
    \/ ActOnReview(c)
    \/ ApplyReviewOutcome(c)
    \/ Fail(c)

Next ==
    \/ \E c \in Requests, u \in Users, e \in Experiments : Arrive(c, u, e)
    \/ \E c \in Requests : Proceed(c)
    \/ \E u \in Users, e \in Experiments : UpdateDraft(u, e) \/ RollbackToControl(u, e)
    \/ \E f \in Flags : UpdateFlag(f) \/ DeleteFlag(f)

Spec == Init /\ [][Next]_vars

-----------------------------------------------------------------------------
(* Properties.                                                             *)

\* Every variable stays in its type.
TypeOK ==
    /\ status \in [Experiments -> Statuses]
    /\ version \in [Experiments -> 0..MaxLock]
    /\ cur \in [Experiments -> 0..MaxVersions]
    /\ guardrail \in [Experiments -> BOOLEAN]
    /\ decision \in [Experiments -> Decisions]
    /\ variants \in [Experiments -> [Versions -> Contents]]
    /\ review \in [Experiments -> [Versions -> ReviewStatuses]]
    /\ approvals \in [Experiments -> [Versions -> SUBSET Users]]
    /\ auditTail \in [Experiments -> AuditRecords]
    /\ outbox \in SUBSET Experiments
    /\ flagDefault \in [Flags -> FlagValues]
    /\ flagDeleted \in [Flags -> BOOLEAN]
    /\ req \in [Requests -> RequestRecords \cup {NoRequest}]

\* "Only one running or paused experiment may reference the same flag": the
\* unlocked CountActiveByFlag is backed by the unique index at the commit.
OneActivePerFlag ==
    \A e, other \in Experiments :
        (/\ e # other
         /\ FlagOf[e] = FlagOf[other]
         /\ status[e] \in Active) => status[other] \notin Active

\* The latest audit record always tells the status and the guardrail mark of
\* the row: no path changes them without a record in the same transaction.
AuditCurrent ==
    \A e \in Experiments :
        /\ auditTail[e].status = status[e]
        /\ auditTail[e].guardrail = guardrail[e]
        /\ auditTail[e].version <= version[e]

\* A completion decision is stored exactly while the experiment is over, even
\* when a racing CreateVersion drags a completed experiment back to draft.
DecisionMatchesStatus ==
    \A e \in Experiments :
        decision[e] # "none" <=> status[e] \in {"completed", "archived"}

\* Nothing gets past review unless a review of one of its versions was
\* approved, through whatever mix of resets and concurrent requests.
ApprovedHasReview ==
    \A e \in Experiments :
        status[e] \in {"approved", "running", "paused", "completed", "archived"}
            => \E n \in Versions : review[e][n] = "approved"

\* A review is approved by enough distinct reviewers or by an admin, however
\* the approvals of several reviewers interleave.
ApprovalQuorum ==
    \A e \in Experiments, n \in Versions :
        review[e][n] = "approved" =>
            \/ Cardinality(approvals[e][n]) >= MinApprovals
            \/ approvals[e][n] \cap Admins # {}

\* What a handler read without a lock is still true when its version matches
\* at the commit - status and guardrail mark, hence the decision it took on
\* them - provided the client sent no version ahead of the row that was read.
LockMeansFresh ==
    \A c \in Requests :
        LET r == req[c] IN
        (/\ r.step \in {"transition", "complete"}
         /\ LockHolds(r)
         /\ r.lock <= r.seen) =>
            /\ r.from = status[r.exp]
            /\ (r.from = "paused" /\ r.to = "running" /\ guardrail[r.exp])
                   => r.guard = "clear"

\* Every mutation of the row or of its variants moves the optimistic lock by
\* one ("increments on every mutation"); nothing moves it by more, or back.
VersionCountsMutations ==
    [][\A e \in Experiments :
          /\ version'[e] \in {version[e], version[e] + 1}
          /\ <<status[e], cur[e], guardrail[e], decision[e], variants[e]>>'
                # <<status[e], cur[e], guardrail[e], decision[e], variants[e]>>
                => version'[e] = version[e] + 1]_vars

\* A transition of e commits whose client sent a version ahead of the row that
\* its handler read.
CommitsAhead(e) ==
    \E c \in Requests :
        LET r == req[c] IN
        /\ r.step = "transition"
        /\ r.exp = e
        /\ r.seen < r.lock
        /\ req'[c] = NoRequest

\* The mark of a guardrail pause is read without a lock, yet no interleaving
\* lets anyone but an admin resume, and a resume clears it: the one way around
\* is a version ahead of the row, which matches once others have moved it.
GuardrailHeld ==
    [][\A e \in Experiments :
          (status[e] = "paused" /\ guardrail[e] /\ status'[e] = "running")
              => \/ auditTail'[e].actor \in Admins /\ ~guardrail'[e]
                 \/ CommitsAhead(e)]_vars

\* "A pause initiated by a guardrail requires an admin override to resume."
GuardrailNeedsAdmin ==
    [][\A e \in Experiments :
          (status[e] = "paused" /\ guardrail[e] /\ status'[e] = "running")
              => auditTail'[e].actor \in Admins]_vars

\* A closed review, and who approved it, never changes again.
ClosedReviewFinal ==
    [][\A e \in Experiments, n \in Versions :
          review[e][n] \notin {"none", "open"}
              => review'[e][n] = review[e][n] /\ approvals'[e][n] = approvals[e][n]]_vars

\* A variant's value becomes the default of a flag only in the transaction
\* that takes the flag's active experiment out of running or paused, or pauses
\* it, and comes from the version current at that moment.
DefaultMovedByActive ==
    [][\A f \in Flags :
          (flagDefault'[f] # flagDefault[f] /\ flagDefault'[f] # ByHand) =>
              \E e \in Experiments :
                  /\ FlagOf[e] = f
                  /\ status[e] \in Active
                  /\ status'[e] \in {"completed", "paused"}
                  /\ auditTail'[e] # auditTail[e]
                  /\ flagDefault'[f].set = variants[e][cur[e]]]_vars

\* Once a version has its variants they are replaced in draft only, so what
\* was submitted is what is approved and run.
FilledVersionStable ==
    [][\A e \in Experiments, n \in Versions :
          (variants[e][n] # NoVariants /\ variants'[e][n] # variants[e][n])
              => status[e] = "draft"]_vars

\* A version is created of a row that is no longer the one its handler read:
\* Repository.CreateVersion rechecks nothing under the lock.
Overtaken(e) ==
    \E c \in Requests :
        LET r == req[c] IN
        /\ r.step = "create_version"
        /\ r.exp = e
        /\ r.seen # version[e]
        /\ req'[c] # r
        /\ cur'[e] # cur[e]

\* The status moves along ValidateTransition, or back to draft when a new
\* version replaces an approved or a rejected one, whatever requests overlap;
\* only a version created of an outdated read resets other statuses too.
StatusFollowsGraph ==
    [][\A e \in Experiments :
          status'[e] # status[e] =>
              \/ <<status[e], status'[e]>> \in
                     Edges \cup {<<"none", "draft">>, <<"approved", "draft">>,
                                 <<"rejected", "draft">>}
              \/ Overtaken(e) /\ status'[e] = "draft"]_vars

\* What a running experiment distributes does not change while it runs, nor
\* does the version that runs, but for a version created of an outdated read:
\* nobody else's draft, submit, review or variants reach it.
RunningVersionHeld ==
    [][\A e \in Experiments :
          status[e] = "running" =>
              \/ cur'[e] = cur[e] /\ variants'[e] = variants[e]
              \/ Overtaken(e)]_vars

\* "Not allowed for running experiments": no version is created of one.
RunningVersionFixed ==
    [][\A e \in Experiments :
          status[e] = "running" =>
              cur'[e] = cur[e] /\ variants'[e] = variants[e]]_vars

\* "Review before launch": the version an approved experiment starts with is
\* a version whose review was approved.
LaunchedVersionReviewed ==
    [][\A e \in Experiments :
          (status[e] = "approved" /\ status'[e] = "running")
              => review[e][cur[e]] = "approved"]_vars

\* "Reaching it approves the experiment": an approved review of the current
\* version does not leave the experiment waiting in review.
ApprovalReachesExperiment ==
    \A e \in Experiments :
        (/\ status[e] = "review"
         /\ review[e][cur[e]] = "approved")
            => \E c \in Requests : req[c] # NoRequest /\ req[c].exp = e
=============================================================================
