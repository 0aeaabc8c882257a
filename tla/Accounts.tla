------------------------------ MODULE Accounts ------------------------------
(***************************************************************************)
(* Users and sessions of the panel.  A JWT carries the role its user had   *)
(* at login; it is honoured while Redis knows it.  Role changes and        *)
(* deletions must therefore revoke the user's sessions, and must leave an  *)
(* admin.  None of the handlers holds a transaction across its statements: *)
(* every read, write and Redis command below is a step of its own.         *)
(*                                                                         *)
(* A session is known by its user, the role in its claims and the login    *)
(* that stored it; e-mail, password and avatar are left out.  Of the four  *)
(* roles the model keeps two: admin, and one that is not.                  *)
(***************************************************************************)
EXTENDS FaultBudget, FiniteSets

CONSTANTS
    Users,
    Calls   \* API calls and process starts; a login's call names its token

ASSUME UsersFinite == IsFiniteSet(Users)

VARIABLES
    account,    \* the row of each user: its role, "deleted" or "absent"
    sessions,   \* the tokens Redis knows
    call,       \* the handlers' local state
    miscounted, \* ghost: a removal of an admin rested on an outdated read
    excused     \* ghost: users whose old sessions no revocation may reach

accountVars == <<account, sessions, call, miscounted, excused>>

Roles == {"admin", "approver"}
Standings == Roles \cup {"deleted", "absent"}
Tokens == [user : Users, role : Roles, login : Calls]

CallRecords ==
    [kind : {"idle", "login", "create", "bootstrap", "update", "delete"},
     by : Users, target : Users, role : Roles,
     step : {"new", "read", "count", "create", "write", "store", "scan", "del", "done"},
     current : Standings,       \* the standing the handler has read
     keys : SUBSET Tokens,      \* what SCAN returned
     stale : BOOLEAN,           \* ghost: the target was written since it was read
     outrun : BOOLEAN]          \* ghost: an account was written since the count

AccountsTypeOK ==
    /\ account \in [Users -> Standings]
    /\ sessions \subseteq Tokens
    /\ call \in [Calls -> CallRecords]
    /\ miscounted \in BOOLEAN
    /\ excused \subseteq Users

Task(kind, by, target, role) ==
    [kind |-> kind, by |-> by, target |-> target, role |-> role, step |-> "new",
     current |-> "absent", keys |-> {}, stale |-> FALSE, outrun |-> FALSE]

AccountsInit(standing, tokens, tasks) ==
    /\ account = standing
    /\ sessions = tokens
    /\ call = tasks
    /\ miscounted = FALSE
    /\ excused = {}

Live(u) == account[u] \in Roles
Admins == {u \in Users : account[u] = "admin"}

At(c, kinds, step) == call[c].kind \in kinds /\ call[c].step = step
GoTo(c, step) == call' = [call EXCEPT ![c].step = step]

OnlyCalls == UNCHANGED <<account, sessions, miscounted, excused, faults>>

-----------------------------------------------------------------------------
(* The middleware: Redis knows the token, its claims hold the role. *)

SessionActive(t) == t \in sessions

\* The routes of users belong to adminGroup.  A refused call changes nothing.
Authorize(c) ==
    /\ At(c, {"create", "update", "delete"}, "new")
    /\ \E t \in Tokens :
          SessionActive(t) /\ t.user = call[c].by /\ t.role = "admin"
    /\ GoTo(c, IF call[c].kind = "create" THEN "create" ELSE "read")
    /\ OnlyCalls

-----------------------------------------------------------------------------
(* Login and logout *)

GetCredentials(c) ==
    /\ At(c, {"login"}, "new")
    /\ LET u == call[c].by
       IN  call' = [call EXCEPT ![c].current = account[u],
                                ![c].step = IF Live(u) THEN "store" ELSE "done"]
    /\ OnlyCalls

StoreSession(c) ==
    /\ At(c, {"login"}, "store")
    /\ sessions' = sessions \cup
          {[user |-> call[c].by, role |-> call[c].current, login |-> c]}
    /\ excused' = IF call[c].stale THEN excused \cup {call[c].by} ELSE excused
    /\ GoTo(c, "done")
    /\ NoFault
    /\ UNCHANGED <<account, miscounted>>

\* The failure is only logged: the client holds a token nobody knows.
StoreSessionFails(c) ==
    /\ At(c, {"login"}, "store")
    /\ Fault
    /\ GoTo(c, "done")
    /\ UNCHANGED <<account, sessions, miscounted, excused>>

\* Logout, or the end of the session's time to live.
EndSession(t) ==
    /\ t \in sessions
    /\ sessions' = sessions \ {t}
    /\ NoFault
    /\ UNCHANGED <<account, call, miscounted, excused>>

-----------------------------------------------------------------------------
(* New accounts *)

\* EnsureBootstrapAdmin counts the users that are not deleted.
CountUsers(c) ==
    /\ At(c, {"bootstrap"}, "new")
    /\ GoTo(c, IF \E u \in Users : Live(u) THEN "done" ELSE "create")
    /\ OnlyCalls

\* The unique e-mail also covers deleted users: ErrConflict.
CreateUser(c) ==
    /\ At(c, {"create", "bootstrap"}, "create")
    /\ LET u == call[c].target
       IN  account' = IF account[u] = "absent"
                      THEN [account EXCEPT ![u] = call[c].role]
                      ELSE account
    /\ GoTo(c, "done")
    /\ NoFault
    /\ UNCHANGED <<sessions, miscounted, excused>>

-----------------------------------------------------------------------------
(* Update (of the role) and Delete *)

RemovesAdmin(c, standing) ==
    /\ standing = "admin"
    /\ call[c].kind = "delete" \/ call[c].role # "admin"

\* ErrSelfRoleChange, ErrSelfDelete
ActsOnItself(c) ==
    /\ call[c].by = call[c].target
    /\ call[c].kind = "delete" \/ account[call[c].target] # call[c].role

GetTarget(c) ==
    /\ At(c, {"update", "delete"}, "read")
    /\ LET u == call[c].target
       IN  call' = [call EXCEPT
                ![c].current = account[u],
                ![c].step = IF ~Live(u) \/ ActsOnItself(c) THEN "done"
                            ELSE IF RemovesAdmin(c, account[u]) THEN "count"
                            ELSE "write"]
    /\ OnlyCalls

\* Mutant: the last admin counts as two.
CountAdminsOffByOne(c) ==
    /\ At(c, {"update", "delete"}, "count")
    /\ GoTo(c, IF Cardinality(Admins) < 1 THEN "done" ELSE "write")
    /\ OnlyCalls

\* ErrLastAdmin
CountAdmins(c) ==
    /\ At(c, {"update", "delete"}, "count")
    /\ GoTo(c, IF Cardinality(Admins) <= 1 THEN "done" ELSE "write")
    /\ OnlyCalls

\* What a write of user u makes of the other handlers: their reads are outdated.
Overtaken(c, u) ==
    [d \in Calls |->
       IF d = c THEN call[c]
       ELSE [call[d] EXCEPT
               !.stale = @ \/ (call[d].target = u /\ call[d].step \in {"count", "write", "store"}),
               !.outrun = @ \/ (call[d].step = "write")]]

\* Mutant: only deletions revoke sessions.
MustRevokeDeleted(c) == call[c].kind = "delete"

\* The sessions are revoked when the role read before is not the new one.
MustRevoke(c) == call[c].kind = "delete" \/ call[c].current # call[c].role

WriteAccount(c) ==
    /\ At(c, {"update", "delete"}, "write")
    /\ LET u == call[c].target
       IN  IF Live(u)
           THEN /\ account' = [account EXCEPT
                       ![u] = IF call[c].kind = "delete" THEN "deleted" ELSE call[c].role]
                /\ call' = [Overtaken(c, u) EXCEPT
                       ![c].step = IF MustRevoke(c) THEN "scan" ELSE "done"]
                /\ miscounted' = (miscounted \/ (RemovesAdmin(c, account[u])
                                                   /\ (call[c].stale \/ call[c].outrun)))
                /\ excused' = IF call[c].stale /\ ~MustRevoke(c)
                              THEN excused \cup {u} ELSE excused
           ELSE GoTo(c, "done") /\ UNCHANGED <<account, miscounted, excused>>
    /\ NoFault
    /\ UNCHANGED sessions

ScanSessions(c) ==
    /\ At(c, {"update", "delete"}, "scan")
    /\ LET found == {t \in sessions : t.user = call[c].target}
       IN  call' = [call EXCEPT ![c].keys = found,
                                ![c].step = IF found = {} THEN "done" ELSE "del"]
    /\ OnlyCalls

DeleteSessions(c) ==
    /\ At(c, {"update", "delete"}, "del")
    /\ sessions' = sessions \ call[c].keys
    /\ call' = [call EXCEPT ![c].keys = {}, ![c].step = "done"]
    /\ NoFault
    /\ UNCHANGED <<account, miscounted, excused>>

\* A failing SCAN or DEL is only logged; a restart forgets the rest of any handler.
HandlerStops(c) ==
    /\ call[c].step \notin {"new", "done"}
    /\ Fault
    /\ excused' = IF call[c].step \in {"scan", "del"}
                  THEN excused \cup {call[c].target} ELSE excused
    /\ call' = [call EXCEPT ![c].keys = {}, ![c].step = "done"]
    /\ UNCHANGED <<account, sessions, miscounted>>

AccountStep(c) ==
    \/ Authorize(c)
    \/ GetCredentials(c)
    \/ StoreSession(c)
    \/ StoreSessionFails(c)
    \/ CountUsers(c)
    \/ CreateUser(c)
    \/ GetTarget(c)
    \/ CountAdmins(c)
    \/ WriteAccount(c)
    \/ ScanSessions(c)
    \/ DeleteSessions(c)
    \/ HandlerStops(c)

AccountsNext ==
    \/ \E c \in Calls : AccountStep(c)
    \/ \E t \in sessions : EndSession(t)

\* Calls that have not begun; a login stores a session of its own user.
AccountTasks ==
    [Calls -> {task \in {Task(kind, by, target, role) :
                            kind \in {"idle", "login", "create", "bootstrap", "update", "delete"},
                            by \in Users, target \in Users, role \in Roles} :
                 /\ task.kind = "login" => task.by = task.target
                 /\ task.kind = "bootstrap" => task.role = "admin"}]

\* A database with an admin, or an empty one; sessions with the roles of their users.
AccountsStart ==
    \E standing \in [Users -> Standings], tasks \in AccountTasks, tokens \in SUBSET Tokens :
        /\ AccountsInit(standing, tokens, tasks)
        /\ (\E u \in Users : standing[u] # "absent") => \E u \in Users : standing[u] = "admin"
        /\ \A t \in tokens : standing[t.user] = t.role

\* Failures elsewhere may use up the budget meanwhile.
AccountsSpec ==
    /\ AccountsStart
    /\ faults \in 0..MaxFaults
    /\ [][AccountsNext]_accountVars

-----------------------------------------------------------------------------

\* Once there are users there is an admin among them ("keep at least one active
\* admin"), unless a handler removed one on reads that another write has outdated.
AdminRemains ==
    (\E u \in Users : account[u] # "absent") => Admins # {} \/ miscounted

\* The role in a session is the present role of its user, or the session is about
\* to be revoked.  It survives only a failed revocation, a login that read the role
\* before the change, or two changes of one user that overlapped.
SessionRoleFresh ==
    \A t \in sessions :
        \/ account[t.user] = t.role
        \/ t.user \in excused
        \/ \E c \in Calls :
              /\ call[c].kind # "login"
              /\ call[c].target = t.user
              /\ call[c].step = "scan" \/ t \in call[c].keys
=============================================================================
