------------------------ MODULE AdministrationProofs ------------------------
(***************************************************************************)
(* Accounts, approver groups, the idempotency middleware and the outbox,   *)
(* for any number of users, calls, groups, changes, posts, publishers,     *)
(* rows and failures: type correctness, AdminRemains, SessionRoleFresh,    *)
(* GroupHasQuorum, ReplaySameAnswer and GivenUpLast; and that the panel    *)
(* they make up implements each of them.                                   *)
(*                                                                         *)
(* The components decide on what they have read in statements that         *)
(* nothing protects.  The proofs say what a handler that has not been      *)
(* overtaken may conclude from its reads: for a call, that its target      *)
(* still is what was read and the admins that were counted are still       *)
(* there (LocalInv); for a change of a group, that the threshold is the    *)
(* row's and the members it has counted are still enough (Sound); for a    *)
(* publisher, that the row it holds is nobody else's (RelayInv).           *)
(* Additions only help.                                                    *)
(***************************************************************************)
EXTENDS PanelAdministration, FiniteSetTheorems, WellFoundedInduction, TLAPS

-----------------------------------------------------------------------------
(* Users, calls and sessions                                               *)

Someone == \E u \in Users : account[u] # "absent"

OtherAdmin(u) == \E v \in Users : v # u /\ account[v] = "admin"

\* What the handler of a call may rely on.
Relies(rec) ==
    /\ rec.kind = "login" => rec.by = rec.target
    /\ rec.kind = "bootstrap" => rec.role = "admin"
    /\ rec.step \in {"count", "write", "store"} =>
          /\ rec.current \in Roles
          /\ account[rec.target] # "absent"
          /\ rec.stale \/ account[rec.target] = rec.current
    /\ (rec.step = "create" /\ rec.kind = "create") => Someone
    /\ (/\ rec.step = "write"
        /\ rec.current = "admin"
        /\ rec.kind = "delete" \/ rec.role # "admin") =>
          rec.stale \/ rec.outrun \/ OtherAdmin(rec.target)
    /\ rec.keys # {} => rec.step = "del"

LocalInv == \A c \in Calls : Relies(call[c])

SessionsKnown == \A t \in sessions : account[t.user] # "absent"

IInv ==
    /\ AccountsTypeOK
    /\ LocalInv
    /\ SessionsKnown
    /\ AdminRemains
    /\ SessionRoleFresh

\* A call is still to revoke the session.
Revoking(t) ==
    \E c \in Calls :
        /\ call[c].kind # "login"
        /\ call[c].target = t.user
        /\ call[c].step = "scan" \/ t \in call[c].keys

LEMMA InitInvariant == AccountsStart => IInv
<1>. SUFFICES ASSUME NEW standing \in [Users -> Standings], NEW tasks \in AccountTasks,
                     NEW tokens \in SUBSET Tokens,
                     AccountsInit(standing, tokens, tasks),
                     (\E u \in Users : standing[u] # "absent") =>
                        \E u \in Users : standing[u] = "admin",
                     \A t \in tokens : standing[t.user] = t.role
              PROVE  IInv
  BY DEF AccountsStart
<1>. USE DEF AccountsInit
<1>1. \A c \in Calls : /\ call[c] \in CallRecords
                       /\ call[c].step = "new"
                       /\ call[c].keys = {}
                       /\ call[c].kind = "login" => call[c].by = call[c].target
                       /\ call[c].kind = "bootstrap" => call[c].role = "admin"
  <2>. SUFFICES ASSUME NEW c \in Calls
                PROVE  /\ call[c] \in CallRecords
                       /\ call[c].step = "new"
                       /\ call[c].keys = {}
                       /\ call[c].kind = "login" => call[c].by = call[c].target
                       /\ call[c].kind = "bootstrap" => call[c].role = "admin"
    OBVIOUS
  <2>1. PICK kind \in {"idle", "login", "create", "bootstrap", "update", "delete"},
             by \in Users, target \in Users, role \in Roles :
               call[c] = Task(kind, by, target, role)
    BY DEF AccountTasks
  <2>2. Task(kind, by, target, role) \in CallRecords
    BY DEF Task, CallRecords, Standings, Tokens
  <2>3. /\ call[c].kind = "login" => call[c].by = call[c].target
        /\ call[c].kind = "bootstrap" => call[c].role = "admin"
    BY DEF AccountTasks
  <2>. QED  BY <2>1, <2>2, <2>3 DEF Task
<1>2. call \in [Calls -> CallRecords]
  <2>1. DOMAIN call = Calls /\ call = [c \in Calls |-> call[c]]
    BY DEF AccountTasks
  <2>. QED  BY <1>1, <2>1
<1>3. AccountsTypeOK
  BY <1>2 DEF AccountsTypeOK
<1>4. LocalInv
  BY <1>1 DEF LocalInv, Relies
<1>5. SessionsKnown
  <2>1. \A t \in Tokens : t.role # "absent"
    BY DEF Tokens, Roles
  <2>. QED  BY <2>1 DEF SessionsKnown
<1>6. AdminRemains
  BY DEF AdminRemains, Admins
<1>7. SessionRoleFresh
  BY DEF SessionRoleFresh
<1>. QED  BY <1>3, <1>4, <1>5, <1>6, <1>7 DEF IInv

\* Records of other calls, and the constant fields of this one.
Moves(c, rec) ==
    /\ rec \in CallRecords
    /\ call' = [call EXCEPT ![c] = rec]
    /\ rec.kind = call[c].kind
    /\ rec.target = call[c].target
    /\ rec.keys = call[c].keys

LEMMA MoveFacts ==
    ASSUME IInv, NEW c \in Calls, NEW rec, Moves(c, rec)
    PROVE  /\ call' \in [Calls -> CallRecords]
           /\ call'[c] = rec
           /\ \A d \in Calls : d # c => call'[d] = call[d]
BY DEF Moves, IInv, AccountsTypeOK

\* A step of one handler that leaves accounts and sessions alone and is not part
\* of a revocation.
LEMMA HandlerMoves ==
    ASSUME IInv, NEW c \in Calls, NEW rec, Moves(c, rec), Relies(rec),
           call[c].step # "scan",
           UNCHANGED <<account, sessions, miscounted, excused>>
    PROVE  IInv'
<1>1. /\ call' \in [Calls -> CallRecords]
      /\ call'[c] = rec
      /\ \A d \in Calls : d # c => call'[d] = call[d]
  BY MoveFacts
<1>2. AccountsTypeOK'
  BY <1>1 DEF IInv, AccountsTypeOK
<1>3. LocalInv'
  <2>1. \A r : Relies(r) => Relies(r)'
    BY DEF Relies, Someone, OtherAdmin
  <2>. QED  BY <1>1, <2>1 DEF IInv, LocalInv
<1>4. SessionsKnown' /\ AdminRemains'
  BY DEF IInv, SessionsKnown, AdminRemains, Admins
<1>5. SessionRoleFresh'
  <2>1. \A d \in Calls : /\ call'[d].kind = call[d].kind
                         /\ call'[d].target = call[d].target
                         /\ call'[d].keys = call[d].keys
                         /\ call[d].step = "scan" => call'[d].step = "scan"
    BY <1>1 DEF Moves
  <2>. QED  BY <2>1 DEF IInv, SessionRoleFresh
<1>. QED  BY <1>2, <1>3, <1>4, <1>5 DEF IInv

LEMMA AuthorizeInvariant ==
    ASSUME IInv, NEW c \in Calls, Authorize(c)
    PROVE  IInv'
<1>. DEFINE rec == [call[c] EXCEPT !.step = IF call[c].kind = "create" THEN "create" ELSE "read"]
<1>1. Moves(c, rec)
  BY DEF Authorize, At, GoTo, Moves, IInv, AccountsTypeOK, CallRecords
<1>2. Someone
  <2>1. PICK t \in sessions : t.user = call[c].by
    BY DEF Authorize, SessionActive
  <2>2. call[c].by \in Users
    BY DEF IInv, AccountsTypeOK, CallRecords
  <2>. QED  BY <2>1, <2>2 DEF IInv, SessionsKnown, Someone
<1>3. Relies(rec)
  <2>1. Relies(call[c]) /\ call[c] \in CallRecords /\ call[c].step = "new"
    BY DEF IInv, LocalInv, AccountsTypeOK, Authorize, At
  <2>. QED  BY <1>2, <2>1 DEF Relies, CallRecords
<1>. QED  BY <1>1, <1>3, HandlerMoves DEF Authorize, At, OnlyCalls

LEMMA CredentialsInvariant ==
    ASSUME IInv, NEW c \in Calls, GetCredentials(c)
    PROVE  IInv'
<1>. DEFINE u == call[c].by
            rec == [call[c] EXCEPT !.current = account[u],
                                   !.step = IF Live(u) THEN "store" ELSE "done"]
<1>1. /\ Relies(call[c]) /\ call[c] \in CallRecords /\ u \in Users
      /\ call[c].step = "new" /\ call[c].kind = "login"
  BY DEF IInv, LocalInv, AccountsTypeOK, GetCredentials, At, CallRecords
<1>2. Moves(c, rec)
  BY <1>1 DEF GetCredentials, Moves, IInv, AccountsTypeOK, CallRecords
<1>3. Relies(rec)
  BY <1>1 DEF Relies, CallRecords, Live, Roles
<1>. QED  BY <1>1, <1>2, <1>3, HandlerMoves DEF GetCredentials, OnlyCalls

LEMMA TargetInvariant ==
    ASSUME IInv, NEW c \in Calls, GetTarget(c)
    PROVE  IInv'
<1>. DEFINE u == call[c].target
            rec == [call[c] EXCEPT
                      !.current = account[u],
                      !.step = IF ~Live(u) \/ ActsOnItself(c) THEN "done"
                               ELSE IF RemovesAdmin(c, account[u]) THEN "count"
                               ELSE "write"]
<1>1. /\ Relies(call[c]) /\ call[c] \in CallRecords /\ u \in Users
      /\ call[c].step = "read"
  BY DEF IInv, LocalInv, AccountsTypeOK, GetTarget, At, CallRecords
<1>2. Moves(c, rec)
  BY <1>1 DEF GetTarget, Moves, IInv, AccountsTypeOK, CallRecords
<1>3. Relies(rec)
  BY <1>1 DEF Relies, CallRecords, Live, Roles, RemovesAdmin
<1>. QED  BY <1>1, <1>2, <1>3, HandlerMoves DEF GetTarget, OnlyCalls

\* Two admins are two users: one of them is not the target.
LEMMA SecondAdmin ==
    ASSUME ~(Cardinality(Admins) <= 1), NEW u
    PROVE  OtherAdmin(u)
<1>1. IsFiniteSet(Admins)
  BY UsersFinite, FS_Subset DEF Admins
<1>2. SUFFICES ASSUME Admins \subseteq {u} PROVE FALSE
  BY DEF OtherAdmin, Admins
<1>3. IsFiniteSet({u}) /\ Cardinality({u}) = 1
  BY FS_Singleton
<1>4. Cardinality(Admins) <= Cardinality({u})
  BY <1>2, <1>3, FS_Subset
<1>. QED  BY <1>3, <1>4

LEMMA CountInvariant ==
    ASSUME IInv, NEW c \in Calls, CountAdmins(c)
    PROVE  IInv'
<1>. DEFINE rec == [call[c] EXCEPT !.step = IF Cardinality(Admins) <= 1 THEN "done" ELSE "write"]
<1>1. Relies(call[c]) /\ call[c] \in CallRecords /\ call[c].step = "count"
  BY DEF IInv, LocalInv, AccountsTypeOK, CountAdmins, At
<1>2. Moves(c, rec)
  BY <1>1 DEF CountAdmins, GoTo, Moves, IInv, AccountsTypeOK, CallRecords
<1>3. ~(Cardinality(Admins) <= 1) => OtherAdmin(call[c].target)
  BY SecondAdmin
<1>4. Relies(rec)
  BY <1>1, <1>3 DEF Relies, CallRecords
<1>. QED  BY <1>1, <1>2, <1>4, HandlerMoves DEF CountAdmins, OnlyCalls

LEMMA CountUsersInvariant ==
    ASSUME IInv, NEW c \in Calls, CountUsers(c)
    PROVE  IInv'
<1>. DEFINE rec == [call[c] EXCEPT !.step = IF \E u \in Users : Live(u) THEN "done" ELSE "create"]
<1>1. /\ Relies(call[c]) /\ call[c] \in CallRecords
      /\ call[c].step = "new" /\ call[c].kind = "bootstrap"
  BY DEF IInv, LocalInv, AccountsTypeOK, CountUsers, At
<1>2. Moves(c, rec)
  BY <1>1 DEF CountUsers, GoTo, Moves, IInv, AccountsTypeOK, CallRecords
<1>3. Relies(rec)
  BY <1>1 DEF Relies, CallRecords
<1>. QED  BY <1>1, <1>2, <1>3, HandlerMoves DEF CountUsers, OnlyCalls

LEMMA StoreFailsInvariant ==
    ASSUME IInv, NEW c \in Calls, StoreSessionFails(c)
    PROVE  IInv'
<1>. DEFINE rec == [call[c] EXCEPT !.step = "done"]
<1>1. Relies(call[c]) /\ call[c] \in CallRecords /\ call[c].step = "store"
  BY DEF IInv, LocalInv, AccountsTypeOK, StoreSessionFails, At
<1>2. Moves(c, rec)
  BY <1>1 DEF StoreSessionFails, GoTo, Moves, IInv, AccountsTypeOK, CallRecords
<1>3. Relies(rec)
  BY <1>1 DEF Relies, CallRecords
<1>. QED  BY <1>1, <1>2, <1>3, HandlerMoves DEF StoreSessionFails

LEMMA StoreInvariant ==
    ASSUME IInv, NEW c \in Calls, StoreSession(c)
    PROVE  IInv'
<1>. DEFINE rec == [call[c] EXCEPT !.step = "done"]
            t == [user |-> call[c].by, role |-> call[c].current, login |-> c]
<1>1. /\ Relies(call[c]) /\ call[c] \in CallRecords
      /\ call[c].step = "store" /\ call[c].kind = "login"
  BY DEF IInv, LocalInv, AccountsTypeOK, StoreSession, At
<1>2. Moves(c, rec)
  BY <1>1 DEF StoreSession, GoTo, Moves, IInv, AccountsTypeOK, CallRecords
<1>3. Relies(rec)
  BY <1>1 DEF Relies, CallRecords
<1>4. /\ call' \in [Calls -> CallRecords]
      /\ call'[c] = rec
      /\ \A d \in Calls : d # c => call'[d] = call[d]
  BY <1>2, MoveFacts
<1>5. /\ call[c].by \in Users
      /\ call[c].by = call[c].target
      /\ call[c].current \in Roles
      /\ account[call[c].by] # "absent"
      /\ call[c].stale \/ account[call[c].by] = call[c].current
  BY <1>1 DEF Relies, CallRecords
<1>6. t \in Tokens /\ sessions' = sessions \cup {t}
  BY <1>5 DEF Tokens, StoreSession
<1>7. excused' \subseteq Users /\ excused \subseteq excused'
  BY <1>5 DEF StoreSession, IInv, AccountsTypeOK
<1>8. AccountsTypeOK'
  BY <1>4, <1>6, <1>7 DEF IInv, AccountsTypeOK, StoreSession
<1>9. LocalInv'
  <2>1. \A r : Relies(r) => Relies(r)'
    BY DEF Relies, Someone, OtherAdmin, StoreSession
  <2>. QED  BY <1>3, <1>4, <2>1 DEF IInv, LocalInv
<1>10. SessionsKnown' /\ AdminRemains'
  BY <1>5, <1>6 DEF IInv, SessionsKnown, AdminRemains, Admins, StoreSession
<1>11. SessionRoleFresh'
  <2>1. \A d \in Calls : /\ call'[d].kind = call[d].kind
                         /\ call'[d].target = call[d].target
                         /\ call'[d].keys = call[d].keys
                         /\ call[d].step = "scan" => call'[d].step = "scan"
    BY <1>1, <1>2, <1>4 DEF Moves
  <2>2. account[t.user] = t.role \/ t.user \in excused'
    BY <1>5 DEF StoreSession
  <2>3. \A s \in sessions : \/ account[s.user] = s.role
                            \/ s.user \in excused
                            \/ Revoking(s)
    BY DEF IInv, SessionRoleFresh, Revoking
  <2>4. \A s : Revoking(s) => Revoking(s)'
    BY <2>1 DEF Revoking
  <2>. QED
    BY <1>6, <1>7, <2>2, <2>3, <2>4 DEF SessionRoleFresh, Revoking, StoreSession
<1>. QED  BY <1>8, <1>9, <1>10, <1>11 DEF IInv

LEMMA CreateInvariant ==
    ASSUME IInv, NEW c \in Calls, CreateUser(c)
    PROVE  IInv'
<1>. DEFINE rec == [call[c] EXCEPT !.step = "done"]
            u == call[c].target
<1>1. /\ Relies(call[c]) /\ call[c] \in CallRecords /\ call[c].step = "create"
      /\ u \in Users /\ call[c].role \in Roles
      /\ call[c].kind \in {"create", "bootstrap"}
  BY DEF IInv, LocalInv, AccountsTypeOK, CreateUser, At, CallRecords
<1>2. Moves(c, rec)
  BY <1>1 DEF CreateUser, GoTo, Moves, IInv, AccountsTypeOK, CallRecords
<1>3. /\ call' \in [Calls -> CallRecords]
      /\ call'[c] = rec
      /\ \A d \in Calls : d # c => call'[d] = call[d]
  BY <1>2, MoveFacts
<1>4. /\ \A v \in Users : account[v] # "absent" => account'[v] = account[v]
      /\ account' \in [Users -> Standings]
      /\ account[u] = "absent" => account'[u] = call[c].role
      /\ \A v \in Users : v # u => account'[v] = account[v]
      /\ account[u] # "absent" => account' = account
  BY <1>1 DEF CreateUser, IInv, AccountsTypeOK, Standings
<1>5. AccountsTypeOK'
  BY <1>3, <1>4 DEF IInv, AccountsTypeOK, CreateUser
<1>6. LocalInv'
  <2>1. ASSUME NEW d \in Calls, NEW r \in CallRecords, Relies(r)
        PROVE  Relies(r)'
    <3>1. r.target \in Users
      BY DEF CallRecords
    <3>2. Someone => Someone'
      BY <1>4 DEF Someone
    <3>3. OtherAdmin(r.target) => OtherAdmin(r.target)'
      BY <1>4 DEF OtherAdmin
    <3>. QED  BY <2>1, <3>1, <3>2, <3>3, <1>4 DEF Relies
  <2>2. Relies(rec)
    BY <1>1 DEF Relies, CallRecords
  <2>3. rec \in CallRecords
    BY <1>2 DEF Moves
  <2>. QED  BY <1>3, <2>1, <2>2, <2>3 DEF IInv, LocalInv, AccountsTypeOK
<1>7. SessionsKnown'
  BY <1>4 DEF IInv, SessionsKnown, AccountsTypeOK, Tokens, CreateUser
<1>8. AdminRemains'
  <2>1. CASE Someone
    <3>1. Admins # {} \/ miscounted
      BY <2>1 DEF IInv, AdminRemains, Someone
    <3>2. Admins \subseteq Admins'
      BY <1>4 DEF Admins
    <3>. QED  BY <3>1, <3>2 DEF AdminRemains, CreateUser
  <2>2. CASE ~Someone
    <3>1. call[c].role = "admin"
      BY <1>1, <2>2 DEF Relies
    <3>2. account'[u] = "admin"
      BY <1>1, <1>4, <2>2, <3>1 DEF Someone
    <3>. QED  BY <1>1, <3>2 DEF AdminRemains, Admins
  <2>. QED  BY <2>1, <2>2
<1>9. SessionRoleFresh'
  <2>1. \A d \in Calls : /\ call'[d].kind = call[d].kind
                         /\ call'[d].target = call[d].target
                         /\ call'[d].keys = call[d].keys
                         /\ call[d].step = "scan" => call'[d].step = "scan"
    BY <1>1, <1>2, <1>3 DEF Moves
  <2>2. \A s \in sessions : account'[s.user] = account[s.user]
    BY <1>4 DEF IInv, SessionsKnown, AccountsTypeOK, Tokens
  <2>. QED  BY <2>1, <2>2 DEF IInv, SessionRoleFresh, CreateUser
<1>. QED  BY <1>5, <1>6, <1>7, <1>8, <1>9 DEF IInv

LEMMA ScanInvariant ==
    ASSUME IInv, NEW c \in Calls, ScanSessions(c)
    PROVE  IInv'
<1>. DEFINE found == {t \in sessions : t.user = call[c].target}
            rec == [call[c] EXCEPT !.keys = found,
                                   !.step = IF found = {} THEN "done" ELSE "del"]
<1>1. /\ Relies(call[c]) /\ call[c] \in CallRecords /\ call[c].step = "scan"
  BY DEF IInv, LocalInv, AccountsTypeOK, ScanSessions, At
<1>2. rec \in CallRecords
  BY <1>1 DEF IInv, AccountsTypeOK, CallRecords
<1>3. /\ call' \in [Calls -> CallRecords]
      /\ call'[c] = rec
      /\ \A d \in Calls : d # c => call'[d] = call[d]
  BY <1>2 DEF ScanSessions, IInv, AccountsTypeOK
<1>4. UNCHANGED <<account, sessions, miscounted, excused>>
  BY DEF ScanSessions, OnlyCalls
<1>5. Relies(rec)
  BY <1>1 DEF Relies, CallRecords
<1>6. AccountsTypeOK'
  BY <1>3, <1>4 DEF IInv, AccountsTypeOK
<1>7. LocalInv'
  <2>1. \A r : Relies(r) => Relies(r)'
    BY <1>4 DEF Relies, Someone, OtherAdmin
  <2>. QED  BY <1>3, <1>5, <2>1 DEF IInv, LocalInv
<1>8. SessionsKnown' /\ AdminRemains'
  BY <1>4 DEF IInv, SessionsKnown, AdminRemains, Admins
<1>9. SessionRoleFresh'
  <2>1. /\ call'[c].kind = call[c].kind
        /\ call'[c].target = call[c].target
        /\ call'[c].keys = found
    BY <1>1, <1>3 DEF CallRecords
  <2>2. \A s \in sessions : Revoking(s) => Revoking(s)'
    <3>. SUFFICES ASSUME NEW s \in sessions, NEW d \in Calls,
                         call[d].kind # "login", call[d].target = s.user,
                         call[d].step = "scan" \/ s \in call[d].keys
                  PROVE  Revoking(s)'
      BY DEF Revoking
    <3>1. CASE d = c
      BY <2>1, <3>1 DEF Revoking
    <3>2. CASE d # c
      BY <1>3, <3>2 DEF Revoking
    <3>. QED  BY <3>1, <3>2
  <2>3. \A s \in sessions : account[s.user] = s.role \/ s.user \in excused \/ Revoking(s)
    BY DEF IInv, SessionRoleFresh, Revoking
  <2>. QED  BY <1>4, <2>2, <2>3 DEF SessionRoleFresh, Revoking
<1>. QED  BY <1>6, <1>7, <1>8, <1>9 DEF IInv

\* A handler forgets its keys: those sessions are gone, or their user is excused.
LEMMA ForgetInvariant ==
    ASSUME IInv, NEW c \in Calls,
           call' = [call EXCEPT ![c].keys = {}, ![c].step = "done"],
           UNCHANGED <<account, miscounted>>,
           sessions' \subseteq sessions,
           excused \subseteq excused', excused' \subseteq Users,
           \A s \in sessions' :
              (call[c].target = s.user /\ (call[c].step = "scan" \/ s \in call[c].keys))
                 => s.user \in excused'
    PROVE  IInv'
<1>. DEFINE rec == [call[c] EXCEPT !.keys = {}, !.step = "done"]
<1>1. Relies(call[c]) /\ call[c] \in CallRecords
  BY DEF IInv, LocalInv, AccountsTypeOK
<1>2. rec \in CallRecords
  BY <1>1 DEF CallRecords
<1>3. /\ call' \in [Calls -> CallRecords]
      /\ call'[c] = rec
      /\ \A d \in Calls : d # c => call'[d] = call[d]
  BY <1>2 DEF IInv, AccountsTypeOK
<1>4. Relies(rec)
  BY <1>1 DEF Relies, CallRecords
<1>5. AccountsTypeOK'
  BY <1>3 DEF IInv, AccountsTypeOK
<1>6. LocalInv'
  <2>1. \A r : Relies(r) => Relies(r)'
    BY DEF Relies, Someone, OtherAdmin
  <2>. QED  BY <1>3, <1>4, <2>1 DEF IInv, LocalInv
<1>7. SessionsKnown' /\ AdminRemains'
  BY DEF IInv, SessionsKnown, AdminRemains, Admins
<1>8. SessionRoleFresh'
  <2>1. \A s \in sessions' : Revoking(s) => s.user \in excused' \/ Revoking(s)'
    <3>. SUFFICES ASSUME NEW s \in sessions', NEW d \in Calls,
                         call[d].kind # "login", call[d].target = s.user,
                         call[d].step = "scan" \/ s \in call[d].keys
                  PROVE  s.user \in excused' \/ Revoking(s)'
      BY DEF Revoking
    <3>1. CASE d = c
      BY <3>1
    <3>2. CASE d # c
      BY <1>3, <3>2 DEF Revoking
    <3>. QED  BY <3>1, <3>2
  <2>2. \A s \in sessions : account[s.user] = s.role \/ s.user \in excused \/ Revoking(s)
    BY DEF IInv, SessionRoleFresh, Revoking
  <2>. QED  BY <2>1, <2>2 DEF SessionRoleFresh, Revoking
<1>. QED  BY <1>5, <1>6, <1>7, <1>8 DEF IInv

LEMMA DeleteInvariant ==
    ASSUME IInv, NEW c \in Calls, DeleteSessions(c)
    PROVE  IInv'
<1>1. /\ call[c].step = "del"
      /\ sessions' = sessions \ call[c].keys
      /\ call' = [call EXCEPT ![c].keys = {}, ![c].step = "done"]
      /\ UNCHANGED <<account, miscounted, excused>>
  BY DEF DeleteSessions, At
<1>2. excused' \subseteq Users
  BY <1>1 DEF IInv, AccountsTypeOK
<1>. QED  BY <1>1, <1>2, ForgetInvariant

LEMMA StopInvariant ==
    ASSUME IInv, NEW c \in Calls, HandlerStops(c)
    PROVE  IInv'
<1>1. Relies(call[c]) /\ call[c] \in CallRecords
  BY DEF IInv, LocalInv, AccountsTypeOK
<1>2. /\ call' = [call EXCEPT ![c].keys = {}, ![c].step = "done"]
      /\ UNCHANGED <<account, sessions, miscounted>>
      /\ excused' = IF call[c].step \in {"scan", "del"}
                    THEN excused \cup {call[c].target} ELSE excused
  BY DEF HandlerStops
<1>3. excused \subseteq excused' /\ excused' \subseteq Users
  BY <1>1, <1>2 DEF IInv, AccountsTypeOK, CallRecords
<1>4. \A s \in sessions' :
         (call[c].target = s.user /\ (call[c].step = "scan" \/ s \in call[c].keys))
            => s.user \in excused'
  BY <1>1, <1>2 DEF Relies
<1>. QED  BY <1>2, <1>3, <1>4, ForgetInvariant

LEMMA EndInvariant ==
    ASSUME IInv, NEW t \in sessions, EndSession(t)
    PROVE  IInv'
<1>1. sessions' \subseteq sessions /\ UNCHANGED <<account, call, miscounted, excused>>
  BY DEF EndSession
<1>2. AccountsTypeOK' /\ SessionsKnown' /\ AdminRemains' /\ SessionRoleFresh'
  BY <1>1 DEF IInv, AccountsTypeOK, SessionsKnown, AdminRemains, Admins, SessionRoleFresh
<1>3. LocalInv'
  BY <1>1 DEF IInv, LocalInv, Relies, Someone, OtherAdmin
<1>. QED  BY <1>2, <1>3 DEF IInv

\* A write of the target makes every read another handler has done outdated.
LEMMA WriteInvariant ==
    ASSUME IInv, NEW c \in Calls, WriteAccount(c), Live(call[c].target)
    PROVE  IInv'
<1>. DEFINE u == call[c].target
            standing == IF call[c].kind = "delete" THEN "deleted" ELSE call[c].role
            rec == [call[c] EXCEPT !.step = IF MustRevoke(c) THEN "scan" ELSE "done"]
<1>1. /\ Relies(call[c]) /\ call[c] \in CallRecords
      /\ call[c].kind \in {"update", "delete"} /\ call[c].step = "write"
      /\ u \in Users
  BY DEF IInv, LocalInv, AccountsTypeOK, WriteAccount, At, CallRecords
<1>2. /\ account' = [account EXCEPT ![u] = standing]
      /\ call' = [Overtaken(c, u) EXCEPT ![c].step = IF MustRevoke(c) THEN "scan" ELSE "done"]
      /\ miscounted' = (miscounted \/ (RemovesAdmin(c, account[u])
                                         /\ (call[c].stale \/ call[c].outrun)))
      /\ excused' = IF call[c].stale /\ ~MustRevoke(c) THEN excused \cup {u} ELSE excused
      /\ UNCHANGED sessions
  BY DEF WriteAccount
<1>3. standing \in Standings /\ standing # "absent"
  BY <1>1 DEF CallRecords, Standings, Roles
<1>4. /\ account' \in [Users -> Standings]
      /\ account'[u] = standing
      /\ \A v \in Users : v # u => account'[v] = account[v]
      /\ \A v \in Users : account[v] # "absent" => account'[v] # "absent"
  BY <1>1, <1>2, <1>3 DEF IInv, AccountsTypeOK
<1>5. account[u] # "absent"
  BY DEF Live, Roles
<1>6. /\ DOMAIN call' = Calls
      /\ call'[c] = rec
      /\ rec \in CallRecords
      /\ call' = [d \in Calls |-> call'[d]]
  BY <1>1, <1>2 DEF Overtaken, CallRecords
<1>7. \A d \in Calls : d # c =>
         /\ call'[d] = [call[d] EXCEPT
               !.stale = @ \/ (call[d].target = u /\ call[d].step \in {"count", "write", "store"}),
               !.outrun = @ \/ (call[d].step = "write")]
         /\ call[d] \in CallRecords
  BY <1>2 DEF Overtaken, IInv, AccountsTypeOK
<1>8. \A d \in Calls : d # c =>
         /\ call'[d] \in CallRecords
         /\ call'[d].kind = call[d].kind /\ call'[d].by = call[d].by
         /\ call'[d].target = call[d].target /\ call'[d].role = call[d].role
         /\ call'[d].step = call[d].step /\ call'[d].current = call[d].current
         /\ call'[d].keys = call[d].keys
         /\ call[d].stale => call'[d].stale
         /\ (call[d].target = u /\ call[d].step \in {"count", "write", "store"}) => call'[d].stale
         /\ call[d].step = "write" => call'[d].outrun
  <2>. TAKE d \in Calls
  <2>. HAVE d # c
  <2>. DEFINE stale == call[d].stale \/ (call[d].target = u /\ call[d].step \in {"count", "write", "store"})
              outrun == call[d].outrun \/ (call[d].step = "write")
  <2>1. call'[d] = [call[d] EXCEPT !.stale = stale, !.outrun = outrun] /\ call[d] \in CallRecords
    BY <1>7
  <2>2. stale \in BOOLEAN /\ outrun \in BOOLEAN
    BY <2>1 DEF CallRecords
  <2>. HIDE DEF stale, outrun
  <2>3. /\ call'[d] \in CallRecords
        /\ call'[d].kind = call[d].kind /\ call'[d].by = call[d].by
        /\ call'[d].target = call[d].target /\ call'[d].role = call[d].role
        /\ call'[d].step = call[d].step /\ call'[d].current = call[d].current
        /\ call'[d].keys = call[d].keys
        /\ call'[d].stale = stale /\ call'[d].outrun = outrun
    BY <2>1, <2>2 DEF CallRecords
  <2>. QED  BY <2>3 DEF stale, outrun
<1>9. AccountsTypeOK'
  <2>1. call' \in [Calls -> CallRecords]
    BY <1>6, <1>8
  <2>2. excused' \subseteq Users
    BY <1>1, <1>2 DEF IInv, AccountsTypeOK
  <2>3. miscounted' \in BOOLEAN
    BY <1>2 DEF IInv, AccountsTypeOK
  <2>. QED  BY <1>2, <1>4, <2>1, <2>2, <2>3 DEF IInv, AccountsTypeOK
<1>10. LocalInv'
  <2>1. ASSUME NEW d \in Calls, d # c
        PROVE  Relies(call[d])'
    <3>1. Relies(call[d]) /\ call[d].target \in Users
      BY <1>7, <2>1 DEF IInv, LocalInv, CallRecords
    <3>2. Someone'
      BY <1>1, <1>3, <1>4 DEF Someone
    <3>3. call[d].step \in {"count", "write", "store"} =>
             call'[d].stale \/ account'[call[d].target] = call[d].current
      BY <1>4, <1>8, <2>1, <3>1 DEF Relies
    <3>. QED  BY <1>4, <1>8, <2>1, <3>1, <3>2, <3>3 DEF Relies
  <2>2. Relies(call[c])'
    BY <1>1, <1>6 DEF Relies, CallRecords
  <2>. QED  BY <2>1, <2>2 DEF LocalInv
<1>11. SessionsKnown'
  BY <1>2, <1>4 DEF IInv, SessionsKnown, AccountsTypeOK, Tokens
<1>12. AdminRemains'
  <2>. SUFFICES ASSUME ~miscounted'
                PROVE  \E v \in Users : account'[v] = "admin"
    BY DEF AdminRemains, Admins
  <2>1. PICK v \in Users : account[v] = "admin"
    BY <1>1, <1>2, <1>5 DEF IInv, AdminRemains, Admins, AccountsTypeOK
  <2>2. CASE RemovesAdmin(c, account[u])
    <3>1. ~call[c].stale /\ ~call[c].outrun
      BY <1>2, <2>2
    <3>2. OtherAdmin(u)
      BY <1>1, <2>2, <3>1 DEF Relies, RemovesAdmin
    <3>. QED  BY <1>4, <3>2 DEF OtherAdmin
  <2>3. CASE ~RemovesAdmin(c, account[u])
    BY <1>1, <1>4, <2>1, <2>3 DEF RemovesAdmin
  <2>. QED  BY <2>2, <2>3
<1>13. SessionRoleFresh'
  <2>. SUFFICES ASSUME NEW s \in sessions
                PROVE  account'[s.user] = s.role \/ s.user \in excused' \/ Revoking(s)'
    BY <1>2 DEF SessionRoleFresh, Revoking
  <2>1. s.user \in Users
    BY DEF IInv, AccountsTypeOK, Tokens
  <2>2. Revoking(s) => Revoking(s)'
    <3>. SUFFICES ASSUME NEW d \in Calls,
                         call[d].kind # "login", call[d].target = s.user,
                         call[d].step = "scan" \/ s \in call[d].keys
                  PROVE  Revoking(s)'
      BY DEF Revoking
    <3>1. d # c
      BY <1>1 DEF Relies
    <3>. QED  BY <1>8, <3>1 DEF Revoking
  <2>3. account[s.user] = s.role \/ s.user \in excused \/ Revoking(s)
    BY DEF IInv, SessionRoleFresh, Revoking
  <2>4. excused \subseteq excused'
    BY <1>2
  <2>5. CASE s.user # u
    BY <1>4, <2>1, <2>2, <2>3, <2>4, <2>5
  <2>6. CASE s.user = u /\ MustRevoke(c)
    <3>1. call'[c].kind # "login" /\ call'[c].target = s.user /\ call'[c].step = "scan"
      BY <1>1, <1>6, <2>6 DEF CallRecords
    <3>. QED  BY <3>1 DEF Revoking
  <2>7. CASE s.user = u /\ ~MustRevoke(c)
    <3>1. call[c].stale => u \in excused'
      BY <1>2, <2>7
    <3>2. ~call[c].stale => account'[u] = account[u]
      BY <1>1, <1>4, <2>7 DEF Relies, MustRevoke
    <3>. QED  BY <2>2, <2>3, <2>4, <2>7, <3>1, <3>2
  <2>. QED  BY <2>5, <2>6, <2>7
<1>. QED  BY <1>9, <1>10, <1>11, <1>12, <1>13 DEF IInv

\* The target is gone meanwhile: ErrNotFound.
LEMMA WriteRefusedInvariant ==
    ASSUME IInv, NEW c \in Calls, WriteAccount(c), ~Live(call[c].target)
    PROVE  IInv'
<1>. DEFINE rec == [call[c] EXCEPT !.step = "done"]
<1>1. Relies(call[c]) /\ call[c] \in CallRecords /\ call[c].step = "write"
  BY DEF IInv, LocalInv, AccountsTypeOK, WriteAccount, At
<1>2. Moves(c, rec)
  BY <1>1 DEF WriteAccount, GoTo, Moves, IInv, AccountsTypeOK, CallRecords
<1>3. Relies(rec)
  BY <1>1 DEF Relies, CallRecords
<1>. QED  BY <1>1, <1>2, <1>3, HandlerMoves DEF WriteAccount

LEMMA StepInvariant ==
    ASSUME IInv, [AccountsNext]_accountVars
    PROVE  IInv'
<1>1. ASSUME NEW c \in Calls, AccountStep(c)
      PROVE  IInv'
  <2>1. CASE WriteAccount(c)
    BY <2>1, WriteInvariant, WriteRefusedInvariant
  <2>. QED
    BY <1>1, <2>1, AuthorizeInvariant, CredentialsInvariant, StoreInvariant,
       StoreFailsInvariant, CountUsersInvariant, CreateInvariant, TargetInvariant,
       CountInvariant, ScanInvariant, DeleteInvariant, StopInvariant DEF AccountStep
<1>2. ASSUME NEW t \in sessions, EndSession(t)
      PROVE  IInv'
  BY <1>2, EndInvariant
<1>3. CASE UNCHANGED accountVars
  BY <1>3 DEF accountVars, IInv, AccountsTypeOK, LocalInv, Relies, Someone, OtherAdmin,
     SessionsKnown, AdminRemains, Admins, SessionRoleFresh
<1>. QED  BY <1>1, <1>2, <1>3 DEF AccountsNext

\* What a handler may conclude from its reads holds in every reachable state, for
\* any number of users, calls and failures.
THEOREM AccountsInvariant == AccountsSpec => []IInv
<1>1. IInv /\ [AccountsNext]_accountVars => IInv'
  BY StepInvariant
<1>. QED  BY InitInvariant, <1>1, PTL DEF AccountsSpec

\* Service.Update and Service.Delete leave an admin, whatever runs beside them,
\* except when a write overtakes a handler between its count and its own write.
THEOREM AdminAlwaysRemains == AccountsSpec => []AdminRemains
<1>1. IInv => AdminRemains
  BY DEF IInv
<1>. QED  BY AccountsInvariant, <1>1, PTL

\* No session keeps a role its user has lost, except where a revocation has failed
\* or two handlers of the same user overlapped.
THEOREM RolesFresh == AccountsSpec => []SessionRoleFresh
<1>1. IInv => SessionRoleFresh
  BY DEF IInv
<1>. QED  BY AccountsInvariant, <1>1, PTL

-----------------------------------------------------------------------------
(* Approver groups                                                         *)

Size(g) == Cardinality(group[g].members)

\* What the transaction of a change may conclude.
Sound(rec) ==
    /\ rec.kind \in {"create", "update"} => rec.min > 0
    /\ (rec.kind = "add" /\ rec.step = "insert") => Exists(rec.group)
    /\ (rec.kind = "remove" /\ rec.step \in {"threshold", "count", "commit"}) => Exists(rec.group)
    /\ (rec.kind = "remove" /\ rec.step \in {"count", "commit"}) =>
          rec.overtaken \/ rec.min = group[rec.group].min
    /\ (rec.kind = "remove" /\ rec.step = "commit") =>
          rec.overtaken \/ rec.min <= Cardinality(group[rec.group].members \ {rec.user})
    /\ (rec.kind = "update" /\ rec.step = "commit") =>
          rec.overtaken \/ rec.min <= Size(rec.group)

MembersOfGroups == \A g \in Groups : group[g].members # {} => Exists(g)

GroupInv ==
    /\ GroupsTypeOK
    /\ MembersOfGroups
    /\ \A x \in Changes : Sound(change[x])

LEMMA Sizes ==
    ASSUME NEW S \in SUBSET Users, NEW T \in SUBSET S
    PROVE  /\ Cardinality(T) <= Cardinality(S)
           /\ Cardinality(T) \in Nat
           /\ Cardinality(S) \in Nat
<1>1. IsFiniteSet(S) /\ IsFiniteSet(T)
  BY UsersFinite, FS_Subset
<1>. QED  BY <1>1, FS_Subset, FS_CardinalityType

LEMMA GroupInitInvariant == GroupsStart => GroupInv
<1>. SUFFICES ASSUME GroupsStart PROVE GroupInv
  OBVIOUS
<1>1. change \in [Changes -> ChangeRecords]
  BY DEF GroupsStart, GroupTasks
<1>2. \A x \in Changes : change[x].step = "new" /\ change[x].min > 0
  BY DEF GroupsStart, GroupTasks
<1>3. MembersOfGroups
  BY DEF GroupsStart, MembersOfGroups
<1>. QED  BY <1>1, <1>2, <1>3 DEF GroupInv, Sound, GroupsStart, GroupsTypeOK

-----------------------------------------------------------------------------
(* Steps that change no group *)

LEMMA ProceedInvariant ==
    ASSUME GroupInv, NEW x \in Changes, NEW rec \in ChangeRecords, Sound(rec),
           change' = [change EXCEPT ![x] = rec], UNCHANGED group
    PROVE  GroupInv'
<1>1. GroupsTypeOK' /\ MembersOfGroups'
  BY DEF GroupInv, GroupsTypeOK, MembersOfGroups, Exists
<1>2. \A r : Sound(r) => Sound(r)'
  BY DEF Sound, Exists, Size
<1>. QED  BY <1>1, <1>2 DEF GroupInv, GroupsTypeOK

LEMMA ReadsInvariant ==
    ASSUME GroupInv, NEW x \in Changes,
           \/ UpdateRow(x) \/ CountForUpdate(x) \/ DeleteMember(x) \/ ReadThreshold(x)
           \/ CountForRemoval(x) \/ CheckMember(x) \/ RollBack(x)
    PROVE  GroupInv'
<1>. DEFINE r == change[x]
            g == r.group
<1>1. /\ r \in ChangeRecords /\ Sound(r) /\ g \in Groups
      /\ group[g].min \in Nat /\ group[g].members \subseteq Users
  BY DEF GroupInv, GroupsTypeOK, ChangeRecords
<1>2. ASSUME NEW step \in {"new", "insert", "threshold", "count", "commit", "done"},
             Proceed(x, step), UNCHANGED group, Sound([r EXCEPT !.step = step])
      PROVE  GroupInv'
  <2>1. [r EXCEPT !.step = step] \in ChangeRecords
    BY <1>1 DEF ChangeRecords
  <2>. QED  BY <1>2, <2>1, ProceedInvariant DEF Proceed
<1>3. CASE UpdateRow(x)
  <2>1. Sound([r EXCEPT !.step = "count"])
    BY <1>1, <1>3 DEF UpdateRow, Doing, Sound, ChangeRecords
  <2>. QED  BY <1>2, <1>3, <2>1 DEF UpdateRow
<1>4. CASE CountForUpdate(x)
  <2>. DEFINE step == IF r.min > Cardinality(group[g].members) THEN "done" ELSE "commit"
  <2>1. Cardinality(group[g].members) \in Nat /\ r.min \in Nat
    BY <1>1, Sizes DEF ChangeRecords
  <2>2. Sound([r EXCEPT !.step = step])
    BY <1>1, <1>4, <2>1 DEF CountForUpdate, Doing, Sound, ChangeRecords, Size
  <2>. QED  BY <1>2, <1>4, <2>2 DEF CountForUpdate
<1>5. CASE DeleteMember(x)
  <2>. DEFINE step == IF r.user \in group[g].members THEN "threshold" ELSE "done"
  <2>1. r.user \in group[g].members => Exists(g)
    BY <1>1 DEF GroupInv, MembersOfGroups
  <2>2. Sound([r EXCEPT !.step = step])
    BY <1>1, <1>5, <2>1 DEF DeleteMember, Doing, Sound, ChangeRecords
  <2>. QED  BY <1>2, <1>5, <2>2 DEF DeleteMember
<1>6. CASE ReadThreshold(x)
  <2>. DEFINE rec == [r EXCEPT !.min = group[g].min, !.step = "count"]
  <2>1. rec \in ChangeRecords
    BY <1>1 DEF ChangeRecords
  <2>2. Sound(rec)
    BY <1>1, <1>6 DEF ReadThreshold, Doing, Sound, ChangeRecords
  <2>3. change' = [change EXCEPT ![x] = rec] /\ UNCHANGED group
    BY <1>6 DEF ReadThreshold
  <2>. QED  BY <2>1, <2>2, <2>3, ProceedInvariant
<1>7. CASE CountForRemoval(x)
  <2>. DEFINE step == IF r.min > Cardinality(Remaining(x)) THEN "done" ELSE "commit"
  <2>1. Cardinality(Remaining(x)) \in Nat /\ r.min \in Nat
    BY <1>1, Sizes DEF ChangeRecords, Remaining
  <2>2. Sound([r EXCEPT !.step = step])
    BY <1>1, <1>7, <2>1 DEF CountForRemoval, Doing, Sound, ChangeRecords, Remaining
  <2>. QED  BY <1>2, <1>7, <2>2 DEF CountForRemoval
<1>8. CASE CheckMember(x)
  <2>. DEFINE step == IF Exists(g) /\ account[r.user] = "approver" THEN "insert" ELSE "done"
  <2>1. Sound([r EXCEPT !.step = step])
    BY <1>1, <1>8 DEF CheckMember, Doing, Sound, ChangeRecords
  <2>. QED  BY <1>2, <1>8, <2>1 DEF CheckMember
<1>9. CASE RollBack(x)
  <2>1. Sound([r EXCEPT !.step = "done"])
    BY <1>1 DEF Sound, ChangeRecords
  <2>. QED  BY <1>2, <1>9, <2>1 DEF RollBack
<1>. QED  BY <1>3, <1>4, <1>5, <1>6, <1>7, <1>8, <1>9

-----------------------------------------------------------------------------
(* Steps that change one group *)

OnlyGroup(g) ==
    /\ group' \in [Groups -> [min : Nat, members : SUBSET Users]]
    /\ \A h \in Groups : h # g => group'[h] = group[h]

\* A call that is over concludes nothing.
LEMMA DoneSound ==
    ASSUME NEW r \in ChangeRecords, Sound(r)
    PROVE  Sound([r EXCEPT !.step = "done"])'
BY DEF Sound, ChangeRecords

\* A group appears, or gets members: what others have concluded stays true.
LEMMA GrowInvariant ==
    ASSUME GroupInv, NEW x \in Changes, NEW g \in Groups, OnlyGroup(g),
           group[g].members \subseteq group'[g].members,
           group'[g].min = group[g].min \/ (~Exists(g) /\ group[g].members = group'[g].members),
           group'[g].min > 0,
           Proceed(x, "done")
    PROVE  GroupInv'
<1>1. change \in [Changes -> ChangeRecords]
  BY DEF GroupInv, GroupsTypeOK
<1>2. GroupsTypeOK'
  <2>1. [change[x] EXCEPT !.step = "done"] \in ChangeRecords
    BY <1>1 DEF ChangeRecords
  <2>. QED  BY <1>1, <2>1 DEF GroupsTypeOK, OnlyGroup, Proceed
<1>3. MembersOfGroups'
  BY DEF GroupInv, MembersOfGroups, OnlyGroup, Exists
<1>4. ASSUME NEW r \in ChangeRecords, Sound(r)
      PROVE  Sound(r)'
  <2>1. r.group \in Groups /\ r.min \in Nat
    BY DEF ChangeRecords
  <2>2. Exists(r.group) => Exists(r.group)' /\ group'[r.group].min = group[r.group].min
    BY <2>1 DEF OnlyGroup, Exists
  <2>3. /\ group[r.group].members \subseteq group'[r.group].members
        /\ group'[r.group].members \subseteq Users
    BY <2>1 DEF OnlyGroup
  <2>4. /\ Size(r.group) \in Nat /\ Size(r.group)' \in Nat
        /\ Size(r.group) <= Size(r.group)'
    BY <2>3, Sizes DEF Size
  <2>. DEFINE before == Cardinality(group[r.group].members \ {r.user})
              after == Cardinality(group'[r.group].members \ {r.user})
  <2>5. before \in Nat /\ after \in Nat /\ before <= after
    <3>1. /\ group[r.group].members \ {r.user} \subseteq group'[r.group].members \ {r.user}
          /\ group'[r.group].members \ {r.user} \subseteq Users
      BY <2>3
    <3>. QED  BY <3>1, Sizes
  <2>. HIDE DEF before, after
  <2>6. /\ (r.kind = "remove" /\ r.step = "commit") => r.overtaken \/ r.min <= before
    BY <1>4 DEF Sound, before
  <2>7. (r.kind = "remove" /\ r.step = "commit") => r.overtaken \/ r.min <= after
    BY <2>1, <2>5, <2>6
  <2>8. (r.kind = "update" /\ r.step = "commit") => r.overtaken \/ r.min <= Size(r.group)'
    BY <1>4, <2>1, <2>4 DEF Sound
  <2>9. (r.kind = "remove" /\ r.step \in {"threshold", "count", "commit"}) => Exists(r.group)'
    BY <1>4, <2>2 DEF Sound
  <2>10. (r.kind = "remove" /\ r.step \in {"count", "commit"}) =>
            r.overtaken \/ r.min = group'[r.group].min
    BY <1>4, <2>2 DEF Sound
  <2>11. (r.kind = "add" /\ r.step = "insert") => Exists(r.group)'
    BY <1>4, <2>2 DEF Sound
  <2>. QED  BY <1>4, <2>7, <2>8, <2>9, <2>10, <2>11 DEF Sound, after
<1>5. \A y \in Changes : Sound(change[y])'
  <2>. TAKE y \in Changes
  <2>1. CASE y = x
    <3>1. change'[x] = [change[x] EXCEPT !.step = "done"] /\ change[x] \in ChangeRecords
      BY <1>1 DEF Proceed
    <3>. QED  BY <2>1, <3>1, DoneSound DEF GroupInv
  <2>2. CASE y # x
    <3>1. change'[y] = change[y] /\ change[y] \in ChangeRecords
      BY <1>1, <2>2 DEF Proceed
    <3>. QED  BY <1>4, <3>1 DEF GroupInv
  <2>. QED  BY <2>1, <2>2
<1>. QED  BY <1>2, <1>3, <1>5 DEF GroupInv

\* A commit: whoever has concluded something about this group is overtaken.
LEMMA CommitInvariant ==
    ASSUME GroupInv, NEW x \in Changes, change' = Committed(x), OnlyGroup(change[x].group),
           change[x].kind \in {"update", "remove"},
           change[x].kind = "remove" =>
              group'[change[x].group].min = group[change[x].group].min,
           change[x].kind = "remove" =>
              group'[change[x].group].members \subseteq group[change[x].group].members,
           change[x].kind = "update" => group'[change[x].group].min > 0
    PROVE  GroupInv'
<1>. DEFINE g == change[x].group
<1>1. change \in [Changes -> ChangeRecords] /\ g \in Groups
  BY DEF GroupInv, GroupsTypeOK, ChangeRecords
<1>2. \A y \in Changes :
         IF y = x THEN change'[y] = [change[x] EXCEPT !.step = "done"]
         ELSE change'[y] = [change[y] EXCEPT !.overtaken = change[y].overtaken \/
               (/\ change[y].group = g
                /\ \/ change[y].step = "commit"
                   \/ Doing(y, "remove", "count") /\ change[x].kind = "update")]
  BY DEF Committed
<1>3. \A y \in Changes : change'[y] \in ChangeRecords
  <2>1. \A r \in ChangeRecords, mark \in BOOLEAN : [r EXCEPT !.overtaken = mark] \in ChangeRecords
    BY DEF ChangeRecords
  <2>2. \A r \in ChangeRecords : r.overtaken \in BOOLEAN /\ [r EXCEPT !.step = "done"] \in ChangeRecords
    BY DEF ChangeRecords
  <2>. TAKE y \in Changes
  <2>3. change[y] \in ChangeRecords /\ change[x] \in ChangeRecords
    BY <1>1
  <2>4. CASE y = x
    BY <1>2, <2>2, <2>3, <2>4
  <2>5. CASE y # x
    <3>. DEFINE mark == change[y].overtaken \/
                          (/\ change[y].group = g
                           /\ \/ change[y].step = "commit"
                              \/ Doing(y, "remove", "count") /\ change[x].kind = "update")
    <3>1. mark \in BOOLEAN
      BY <2>2, <2>3
    <3>2. change'[y] = [change[y] EXCEPT !.overtaken = mark]
      BY <1>2, <2>5
    <3>. HIDE DEF mark
    <3>. QED  BY <2>1, <2>3, <3>1, <3>2
  <2>. QED  BY <2>4, <2>5
<1>4. GroupsTypeOK'
  <2>1. change' = [y \in Changes |-> change'[y]]
    BY DEF Committed
  <2>. QED  BY <1>3, <2>1 DEF GroupsTypeOK, OnlyGroup
<1>5. \A h \in Groups : Exists(h) => Exists(h)'
  BY DEF OnlyGroup, Exists
<1>6. MembersOfGroups'
  BY <1>1, <1>5 DEF GroupInv, MembersOfGroups, OnlyGroup, Exists
<1>7. \A y \in Changes : Sound(change[y])'
  <2>. TAKE y \in Changes
  <2>1. CASE y = x
    <3>1. change'[x] = [change[x] EXCEPT !.step = "done"] /\ change[x] \in ChangeRecords
      BY <1>1, <1>2
    <3>. QED  BY <2>1, <3>1, DoneSound DEF GroupInv
  <2>2. CASE y # x
    <3>. PICK r \in ChangeRecords : r = change[y]
      BY <1>1
    <3>. DEFINE mark == r.overtaken \/
                          (/\ r.group = g
                           /\ \/ r.step = "commit"
                              \/ Doing(y, "remove", "count") /\ change[x].kind = "update")
    <3>1. /\ Sound(r) /\ r.group \in Groups
          /\ change'[y] = [r EXCEPT !.overtaken = mark]
          /\ mark \in BOOLEAN
      BY <1>1, <1>2, <2>2 DEF GroupInv, ChangeRecords
    <3>2. Exists(r.group) => Exists(r.group)'
      BY <1>5, <3>1
    <3>3. CASE r.group # g
      <4>1. group'[r.group] = group[r.group] /\ mark = r.overtaken
        BY <3>1, <3>3 DEF OnlyGroup, ChangeRecords
      <4>2. Sound(r)'
        BY <3>1, <3>2, <4>1 DEF Sound, Size
      <4>3. change'[y] = r
        BY <3>1, <4>1 DEF ChangeRecords
      <4>. QED  BY <4>2, <4>3
    <3>4. CASE r.group = g
      <4>1. r.step = "commit" => mark
        BY <3>4
      <4>2. (r.kind = "remove" /\ r.step = "count") =>
               mark \/ r.min = group'[r.group].min
        <5>1. CASE change[x].kind = "update"
          BY <3>4, <5>1 DEF Doing
        <5>2. CASE change[x].kind = "remove"
          BY <3>1, <3>4, <5>2 DEF Sound
        <5>. QED  BY <5>1, <5>2
      <4>3. PICK next \in ChangeRecords : next = change'[y]
        BY <1>3
      <4>. HIDE DEF mark
      <4>4. /\ next.kind = r.kind /\ next.step = r.step /\ next.min = r.min
            /\ next.group = r.group /\ next.user = r.user
            /\ next.overtaken = mark
        BY <3>1, <4>3 DEF ChangeRecords
      <4>5. Sound(next)'
        BY <3>1, <3>2, <4>1, <4>2, <4>4 DEF Sound
      <4>. QED  BY <4>3, <4>5
    <3>. QED  BY <3>3, <3>4
  <2>. QED  BY <2>1, <2>2
<1>. QED  BY <1>4, <1>6, <1>7 DEF GroupInv

-----------------------------------------------------------------------------
(* The five writes: they keep the invariant, and the quorum *)

QuorumKept == \A g \in Groups : Quorum(g) => Quorum(g)' \/ CommitsOvertaken

LEMMA QuorumMonotone ==
    ASSUME GroupInv, NEW g \in Groups, OnlyGroup(g), Quorum(g) => Quorum(g)' \/ CommitsOvertaken
    PROVE  QuorumKept
BY DEF QuorumKept, OnlyGroup, Quorum, Exists

LEMMA CreateStep ==
    ASSUME GroupInv, NEW x \in Changes, CreateGroup(x)
    PROVE  GroupInv' /\ QuorumKept
<1>. PICK g \in Groups : g = change[x].group
  BY DEF GroupInv, GroupsTypeOK, ChangeRecords
<1>1. /\ g \in Groups /\ change[x].min \in Nat /\ change[x].min > 0 /\ ~Exists(g)
      /\ group \in [Groups -> [min : Nat, members : SUBSET Users]]
  BY DEF GroupInv, GroupsTypeOK, ChangeRecords, Sound, CreateGroup, Doing
<1>2. OnlyGroup(g) /\ group'[g].members = group[g].members /\ group'[g].min = change[x].min
  BY <1>1 DEF CreateGroup, OnlyGroup
<1>3. GroupInv'
  BY <1>1, <1>2, GrowInvariant DEF CreateGroup
<1>4. QuorumKept
  BY <1>1, <1>2, QuorumMonotone DEF Quorum
<1>. QED  BY <1>3, <1>4

LEMMA InsertStep ==
    ASSUME GroupInv, NEW x \in Changes, InsertMember(x)
    PROVE  GroupInv' /\ QuorumKept
<1>. PICK g \in Groups : g = change[x].group
  BY DEF GroupInv, GroupsTypeOK, ChangeRecords
<1>1. /\ g \in Groups /\ change[x].user \in Users /\ Exists(g)
      /\ group \in [Groups -> [min : Nat, members : SUBSET Users]]
  BY DEF GroupInv, GroupsTypeOK, ChangeRecords, Sound, InsertMember, Doing
<1>2. /\ OnlyGroup(g) /\ group'[g].members = group[g].members \cup {change[x].user}
      /\ group'[g].min = group[g].min
  BY <1>1 DEF InsertMember, OnlyGroup
<1>3. GroupInv'
  BY <1>1, <1>2, GrowInvariant DEF InsertMember, Exists
<1>4. Size(g) \in Nat /\ Size(g)' \in Nat /\ Size(g) <= Size(g)'
  <2>1. group[g].members \subseteq group'[g].members /\ group'[g].members \subseteq Users
    BY <1>1, <1>2
  <2>. QED  BY <2>1, Sizes DEF Size
<1>5. group[g].min \in Nat
  BY <1>1
<1>6. Quorum(g) => Quorum(g)'
  BY <1>2, <1>4, <1>5 DEF Quorum, Exists, Size
<1>7. QuorumKept
  BY <1>1, <1>2, <1>6, QuorumMonotone
<1>. QED  BY <1>3, <1>7

LEMMA CommitUpdateStep ==
    ASSUME GroupInv, NEW x \in Changes, CommitUpdate(x)
    PROVE  GroupInv' /\ QuorumKept
<1>. PICK g \in Groups : g = change[x].group
  BY DEF GroupInv, GroupsTypeOK, ChangeRecords
<1>1. /\ g \in Groups /\ change[x].min \in Nat /\ change[x].min > 0
      /\ change[x].kind = "update" /\ change[x].step = "commit"
      /\ change[x].overtaken \/ change[x].min <= Size(g)
      /\ group \in [Groups -> [min : Nat, members : SUBSET Users]]
  BY DEF GroupInv, GroupsTypeOK, ChangeRecords, Sound, CommitUpdate, Doing
<1>2. /\ OnlyGroup(g) /\ group'[g].members = group[g].members
      /\ group'[g].min = change[x].min
      /\ change' = Committed(x)
  BY <1>1 DEF CommitUpdate, OnlyGroup
<1>3. GroupInv'
  BY <1>1, <1>2, CommitInvariant
<1>4. change'[x].step = "done"
  BY <1>2 DEF Committed, GroupInv, GroupsTypeOK, ChangeRecords
<1>5. change[x].overtaken => CommitsOvertaken
  BY <1>1, <1>4 DEF CommitsOvertaken
<1>6. Size(g) \in Nat
  BY <1>1, Sizes DEF Size
<1>7. ~change[x].overtaken => Quorum(g)'
  BY <1>1, <1>2, <1>6 DEF Quorum, Exists, Size
<1>8. QuorumKept
  BY <1>1, <1>2, <1>5, <1>7, QuorumMonotone
<1>. QED  BY <1>3, <1>8

LEMMA CommitRemovalStep ==
    ASSUME GroupInv, NEW x \in Changes, CommitRemoval(x)
    PROVE  GroupInv' /\ QuorumKept
<1>. PICK g \in Groups : g = change[x].group
  BY DEF GroupInv, GroupsTypeOK, ChangeRecords
<1>. DEFINE rest == group[g].members \ {change[x].user}
<1>1. /\ g \in Groups /\ change[x].min \in Nat /\ Exists(g)
      /\ change[x].kind = "remove" /\ change[x].step = "commit"
      /\ change[x].overtaken \/ (change[x].min = group[g].min /\ change[x].min <= Cardinality(rest))
      /\ group \in [Groups -> [min : Nat, members : SUBSET Users]]
  BY DEF GroupInv, GroupsTypeOK, ChangeRecords, Sound, CommitRemoval, Doing
<1>2. /\ OnlyGroup(g) /\ group'[g].members = rest
      /\ group'[g].min = group[g].min
      /\ change' = Committed(x)
  BY <1>1 DEF CommitRemoval, Remaining, OnlyGroup
<1>3. GroupInv'
  BY <1>1, <1>2, CommitInvariant
<1>4. change'[x].step = "done"
  BY <1>2 DEF Committed, GroupInv, GroupsTypeOK, ChangeRecords
<1>5. change[x].overtaken => CommitsOvertaken
  BY <1>1, <1>4 DEF CommitsOvertaken
<1>6. Cardinality(rest) \in Nat
  <2>1. rest \subseteq Users
    BY <1>1
  <2>. QED  BY <2>1, Sizes
<1>7. ~change[x].overtaken => Quorum(g)'
  BY <1>1, <1>2, <1>6 DEF Quorum, Exists
<1>8. QuorumKept
  BY <1>1, <1>2, <1>5, <1>7, QuorumMonotone
<1>. QED  BY <1>3, <1>8

LEMMA GroupStepsKeep ==
    ASSUME GroupInv, NEW x \in Changes, GroupStep(x)
    PROVE  GroupInv' /\ QuorumKept
<1>1. CASE \/ UpdateRow(x) \/ CountForUpdate(x) \/ DeleteMember(x) \/ ReadThreshold(x)
           \/ CountForRemoval(x) \/ CheckMember(x) \/ RollBack(x)
  <2>1. UNCHANGED group
    BY <1>1 DEF UpdateRow, CountForUpdate, DeleteMember, ReadThreshold, CountForRemoval,
       CheckMember, RollBack
  <2>2. QuorumKept
    BY <2>1 DEF QuorumKept, Quorum, Exists
  <2>. QED  BY <1>1, <2>2, ReadsInvariant
<1>. QED
  BY <1>1, CreateStep, InsertStep, CommitUpdateStep, CommitRemovalStep DEF GroupStep

\* What an undisturbed transaction has concluded holds until it commits.
THEOREM GroupsInvariant == GroupsSpec => []GroupInv
<1>1. GroupInv /\ [\E x \in Changes : GroupStep(x)]_groupVars => GroupInv'
  <2>. SUFFICES ASSUME GroupInv, [\E x \in Changes : GroupStep(x)]_groupVars PROVE GroupInv'
    OBVIOUS
  <2>1. CASE \E x \in Changes : GroupStep(x)
    BY <2>1, GroupStepsKeep
  <2>2. CASE UNCHANGED groupVars
    BY <2>2 DEF groupVars, GroupInv, GroupsTypeOK, MembersOfGroups, Sound, Exists, Size
  <2>. QED  BY <2>1, <2>2
<1>. QED  BY GroupInitInvariant, <1>1, PTL DEF GroupsSpec

\* No change of a group takes away its ability to reach its threshold, unless
\* another change was committed behind its reads (UpdateGroup, RemoveMember).
THEOREM QuorumStays == GroupsSpec => GroupHasQuorum
<1>1. GroupInv /\ [\E x \in Changes : GroupStep(x)]_groupVars => [QuorumKept]_groupVars
  BY GroupStepsKeep
<1>2. [QuorumKept]_groupVars <=>
        [\A g \in Groups : Quorum(g) => Quorum(g)' \/ CommitsOvertaken]_<<group, change>>
  BY DEF QuorumKept, groupVars
<1>. QED  BY GroupsInvariant, <1>1, <1>2, PTL DEF GroupsSpec, GroupHasQuorum

-----------------------------------------------------------------------------
(* The idempotency middleware: the stored record always names a post that  *)
(* has run to its end with the record's body, and a replay has copied that *)
(* name while the record's epoch lasts.  SET NX keeps the record of an     *)
(* epoch, and epochs only grow.                                            *)

\* Post a has run for key k with body b, and its answer no longer changes.
Ran(a, k, b) ==
    /\ a \in Posts
    /\ post[a].key = k
    /\ post[a].body = b
    /\ post[a].answer = a
    /\ post[a].step = "answered"

StoreAnswers == \A r \in Posts : post[r].step = "store" => post[r].answer = r

RecordsRan ==
    \A k \in Keys : stored[k] # NoRecord => Ran(stored[k].answer, k, stored[k].body)

ReplaysRan ==
    \A r \in Posts : post[r].step = "replayed" =>
        /\ Ran(post[r].answer, post[r].key, post[r].body)
        /\ post[r].epoch <= epoch[post[r].key]

ReplaysCurrent ==
    \A r \in Posts :
        (post[r].step = "replayed" /\ post[r].epoch = epoch[post[r].key]) =>
            /\ stored[post[r].key] # NoRecord
            /\ stored[post[r].key].answer = post[r].answer

ReplaysAgree ==
    \A q, r \in Posts :
        (/\ post[q].step = "replayed"
         /\ post[r].step = "replayed"
         /\ post[q].key = post[r].key
         /\ post[q].epoch = post[r].epoch) => post[q].answer = post[r].answer

AnswerInv ==
    /\ IdempotencyTypeOK
    /\ StoreAnswers
    /\ RecordsRan
    /\ ReplaysRan
    /\ ReplaysCurrent
    /\ ReplaysAgree

\* A record that can be found is one of KeyRecords: NoRecord names no post.
LEMMA FoundIsRecord ==
    ASSUME IdempotencyTypeOK, NEW k \in Keys, stored[k] # NoRecord
    PROVE  stored[k] \in KeyRecords
BY DEF IdempotencyTypeOK

LEMMA AnswersInit ==
    ASSUME NEW posts \in PostWorkloads, IdempotencyInit(posts)
    PROVE  AnswerInv
<1>1. \A r \in Posts : \E k \in Keys, b \in Bodies : post[r] = Post(k, b)
  BY DEF IdempotencyInit, PostWorkloads
<1>2. post \in [Posts -> PostRecords]
  <2>1. \A k \in Keys, b \in Bodies : Post(k, b) \in PostRecords
    BY DEF Post, PostRecords, Steps
  <2>. QED  BY <2>1 DEF IdempotencyInit, PostWorkloads
<1>3. \A r \in Posts : post[r].step = "new"
  <2>. SUFFICES ASSUME NEW r \in Posts PROVE post[r].step = "new"
    OBVIOUS
  <2>1. PICK k \in Keys, b \in Bodies : post[r] = Post(k, b)
    BY <1>1
  <2>. QED  BY <2>1 DEF Post
<1>. QED
  BY <1>2, <1>3 DEF AnswerInv, IdempotencyInit, IdempotencyTypeOK, StoreAnswers, RecordsRan,
     ReplaysRan, ReplaysCurrent, ReplaysAgree

\* A step of post r that leaves the table alone and neither runs nor replays.
LEMMA PostMoves ==
    ASSUME AnswerInv, NEW r \in Posts, NEW step \in Steps \ {"store", "replayed"},
           post[r].step \in {"new", "run", "run_unstored", "store"},
           post' = [post EXCEPT ![r].step = step],
           UNCHANGED <<stored, epoch>>
    PROVE  AnswerInv'
<1>1. IdempotencyTypeOK'
  BY DEF AnswerInv, IdempotencyTypeOK, PostRecords
<1>2. \A q \in Posts : q # r => post'[q] = post[q]
  BY DEF AnswerInv, IdempotencyTypeOK
<1>3. post'[r].step = step
  BY DEF AnswerInv, IdempotencyTypeOK, PostRecords
<1>4. \A a, k, b : Ran(a, k, b) => Ran(a, k, b)'
  BY <1>2 DEF Ran
<1>. QED
  BY <1>1, <1>2, <1>3, <1>4 DEF AnswerInv, StoreAnswers, RecordsRan, ReplaysRan, ReplaysCurrent,
     ReplaysAgree

LEMMA ReplayInvariant ==
    ASSUME AnswerInv, NEW r \in Posts, LookupReplays(r)
    PROVE  AnswerInv'
<1>. USE DEF LookupReplays, Found
<1>1. post[r].key \in Keys /\ stored[post[r].key] \in KeyRecords
  BY FoundIsRecord DEF AnswerInv, IdempotencyTypeOK, PostRecords
<1>2. /\ post'[r].step = "replayed"
      /\ post'[r].answer = stored[post[r].key].answer
      /\ post'[r].epoch = epoch[post[r].key]
      /\ post'[r].key = post[r].key
      /\ post'[r].body = post[r].body
  BY DEF AnswerInv, IdempotencyTypeOK, PostRecords
<1>3. \A q \in Posts : q # r => post'[q] = post[q]
  BY DEF AnswerInv, IdempotencyTypeOK
<1>4. \A a, k, b : Ran(a, k, b) => Ran(a, k, b)'
  BY <1>3 DEF Ran
<1>5. Ran(post'[r].answer, post[r].key, post[r].body)
  BY <1>1, <1>2 DEF AnswerInv, RecordsRan
<1>6. IdempotencyTypeOK'
  <2>1. epoch[post[r].key] \in Nat
    BY <1>1 DEF AnswerInv, IdempotencyTypeOK
  <2>2. stored[post[r].key].answer \in Posts
    BY <1>1 DEF KeyRecords
  <2>3. post' \in [Posts -> PostRecords]
    <3>1. post'[r] \in PostRecords
      BY <1>2, <2>1, <2>2 DEF AnswerInv, IdempotencyTypeOK, PostRecords, Steps
    <3>. QED  BY <3>1, <1>3 DEF AnswerInv, IdempotencyTypeOK
  <2>. QED  BY <2>3 DEF AnswerInv, IdempotencyTypeOK
<1>7. StoreAnswers' /\ RecordsRan'
  BY <1>2, <1>3, <1>4 DEF AnswerInv, StoreAnswers, RecordsRan
<1>8. ReplaysRan'
  <2>1. epoch[post[r].key] <= epoch[post[r].key]
    BY <1>1 DEF AnswerInv, IdempotencyTypeOK
  <2>. QED  BY <1>2, <1>3, <1>4, <1>5, <2>1 DEF AnswerInv, ReplaysRan
<1>9. ReplaysCurrent'
  BY <1>2, <1>3 DEF AnswerInv, ReplaysCurrent
<1>10. ReplaysAgree'
  <2>. SUFFICES ASSUME NEW q \in Posts, NEW p \in Posts,
                       post'[q].step = "replayed", post'[p].step = "replayed",
                       post'[q].key = post'[p].key, post'[q].epoch = post'[p].epoch
                PROVE  post'[q].answer = post'[p].answer
    BY DEF ReplaysAgree
  <2>1. \A x \in Posts :
           (/\ post[x].step = "replayed"
            /\ post[x].key = post[r].key
            /\ post[x].epoch = epoch[post[r].key]) =>
              post[x].answer = stored[post[r].key].answer
    BY DEF AnswerInv, ReplaysCurrent
  <2>2. CASE q = r /\ p = r
    BY <2>2
  <2>3. CASE q # r /\ p = r
    <3>1. post'[q] = post[q] /\ post'[p] = post'[r]
      BY <2>3, <1>3
    <3>. QED  BY <3>1, <2>1, <1>2
  <2>4. CASE q = r /\ p # r
    <3>1. post'[p] = post[p] /\ post'[q] = post'[r]
      BY <2>4, <1>3
    <3>. QED  BY <3>1, <2>1, <1>2
  <2>5. CASE q # r /\ p # r
    <3>1. post'[q] = post[q] /\ post'[p] = post[p]
      BY <2>5, <1>3
    <3>. QED  BY <3>1 DEF AnswerInv, ReplaysAgree
  <2>. QED  BY <2>2, <2>3, <2>4, <2>5
<1>. QED  BY <1>6, <1>7, <1>8, <1>9, <1>10 DEF AnswerInv

LEMMA RunInvariant ==
    ASSUME AnswerInv, NEW r \in Posts, RunSucceeds(r)
    PROVE  AnswerInv'
<1>. USE DEF RunSucceeds
<1>1. /\ post'[r].step \in {"store", "answered"}
      /\ post'[r].answer = r
  BY DEF AnswerInv, IdempotencyTypeOK, PostRecords
<1>2. \A q \in Posts : q # r => post'[q] = post[q]
  BY DEF AnswerInv, IdempotencyTypeOK
<1>3. \A a, k, b : Ran(a, k, b) => Ran(a, k, b)'
  BY <1>2 DEF Ran
<1>4. IdempotencyTypeOK'
  <2>1. post' \in [Posts -> PostRecords]
    <3>1. post'[r] \in PostRecords
      BY DEF AnswerInv, IdempotencyTypeOK, PostRecords, Steps
    <3>. QED  BY <3>1, <1>2 DEF AnswerInv, IdempotencyTypeOK
  <2>. QED  BY <2>1 DEF AnswerInv, IdempotencyTypeOK
<1>5. StoreAnswers'
  BY <1>1, <1>2 DEF AnswerInv, StoreAnswers
<1>6. RecordsRan'
  BY <1>3 DEF AnswerInv, RecordsRan
<1>7. \A q \in Posts : post'[q].step = "replayed" => post'[q] = post[q]
  BY <1>1, <1>2
<1>8. ReplaysRan' /\ ReplaysCurrent'
  BY <1>3, <1>7 DEF AnswerInv, ReplaysRan, ReplaysCurrent
<1>9. ReplaysAgree'
  <2>. SUFFICES ASSUME NEW q \in Posts, NEW p \in Posts,
                       post'[q].step = "replayed", post'[p].step = "replayed",
                       post'[q].key = post'[p].key, post'[q].epoch = post'[p].epoch
                PROVE  post'[q].answer = post'[p].answer
    BY DEF ReplaysAgree
  <2>1. post'[q] = post[q] /\ post'[p] = post[p]
    BY <1>7
  <2>. QED  BY <2>1 DEF AnswerInv, ReplaysAgree
<1>. QED  BY <1>4, <1>5, <1>6, <1>8, <1>9 DEF AnswerInv

LEMMA AnswerStored ==
    ASSUME AnswerInv, NEW r \in Posts, Store(r)
    PROVE  AnswerInv'
<1>. USE DEF Store, Become
<1>1. /\ post'[r].step = "answered"
      /\ post'[r].answer = r
      /\ post'[r].key = post[r].key
      /\ post'[r].body = post[r].body
      /\ post[r].key \in Keys
      /\ post[r].answer = r
  BY DEF AnswerInv, IdempotencyTypeOK, PostRecords, StoreAnswers
<1>2. \A q \in Posts : q # r => post'[q] = post[q]
  BY DEF AnswerInv, IdempotencyTypeOK
<1>3. \A a, k, b : Ran(a, k, b) => Ran(a, k, b)'
  BY <1>2 DEF Ran
<1>4. \A k \in Keys : stored[k] # NoRecord => stored'[k] = stored[k]
  BY DEF SetNX, Found, AnswerInv, IdempotencyTypeOK
<1>5. \A k \in Keys : stored'[k] # stored[k] =>
         k = post[r].key /\ stored'[k] = [body |-> post[r].body, answer |-> r]
  BY <1>1 DEF SetNX, Found, AnswerInv, IdempotencyTypeOK
<1>6. IdempotencyTypeOK'
  <2>1. post' \in [Posts -> PostRecords]
    BY DEF AnswerInv, IdempotencyTypeOK, PostRecords, Steps
  <2>2. [body |-> post[r].body, answer |-> r] \in KeyRecords
    BY DEF AnswerInv, IdempotencyTypeOK, PostRecords, KeyRecords
  <2>3. stored' \in [Keys -> KeyRecords \cup {NoRecord}]
    BY <1>1, <2>2 DEF AnswerInv, IdempotencyTypeOK, SetNX
  <2>. QED  BY <2>1, <2>3 DEF AnswerInv, IdempotencyTypeOK
<1>7. RecordsRan'
  <2>1. Ran(r, post[r].key, post[r].body)'
    BY <1>1 DEF Ran
  <2>. QED  BY <1>3, <1>5, <2>1, <1>1 DEF AnswerInv, RecordsRan
<1>8. ReplaysCurrent'
  <2>1. \A q \in Posts : post'[q].step = "replayed" =>
           post'[q] = post[q] /\ post[q].key \in Keys
    BY <1>1, <1>2 DEF AnswerInv, IdempotencyTypeOK, PostRecords
  <2>. QED  BY <2>1, <1>4 DEF AnswerInv, ReplaysCurrent
<1>. QED
  BY <1>1, <1>2, <1>3, <1>6, <1>7, <1>8 DEF AnswerInv, StoreAnswers, ReplaysRan, ReplaysAgree

LEMMA LapseInvariant ==
    ASSUME AnswerInv, NEW k \in Keys, RecordLapses(k)
    PROVE  AnswerInv'
<1>. USE DEF RecordLapses
<1>1. \A j \in Keys : j # k => stored'[j] = stored[j] /\ epoch'[j] = epoch[j]
  BY DEF AnswerInv, IdempotencyTypeOK
<1>2. stored'[k] = NoRecord /\ epoch'[k] = epoch[k] + 1 /\ epoch[k] \in Nat
  BY DEF AnswerInv, IdempotencyTypeOK
<1>3. IdempotencyTypeOK'
  BY <1>2 DEF AnswerInv, IdempotencyTypeOK
<1>4. \A r \in Posts : post[r].key \in Keys /\ post[r].epoch \in Nat /\ epoch[post[r].key] \in Nat
  BY DEF AnswerInv, IdempotencyTypeOK, PostRecords
<1>5. StoreAnswers' /\ ReplaysAgree' /\ (\A a, j, b : Ran(a, j, b) => Ran(a, j, b)')
  BY DEF AnswerInv, StoreAnswers, ReplaysAgree, Ran
<1>6. RecordsRan'
  BY <1>1, <1>2, <1>5 DEF AnswerInv, RecordsRan
<1>7. ReplaysRan'
  <2>1. \A r \in Posts : post[r].epoch <= epoch[post[r].key] => post[r].epoch <= epoch'[post[r].key]
    BY <1>1, <1>2, <1>4
  <2>. QED  BY <2>1, <1>5 DEF AnswerInv, ReplaysRan
<1>8. ReplaysCurrent'
  <2>. SUFFICES ASSUME NEW r \in Posts, post[r].step = "replayed",
                       post[r].epoch = epoch'[post[r].key]
                PROVE  /\ stored'[post[r].key] # NoRecord
                       /\ stored'[post[r].key].answer = post[r].answer
    BY DEF ReplaysCurrent
  <2>1. post[r].key # k
    <3>1. post[r].epoch <= epoch[post[r].key]
      BY DEF AnswerInv, ReplaysRan
    <3>. QED  BY <3>1, <1>2, <1>4
  <2>. QED  BY <2>1, <1>1, <1>4 DEF AnswerInv, ReplaysCurrent
<1>. QED  BY <1>3, <1>5, <1>6, <1>7, <1>8 DEF AnswerInv

LEMMA AnswersStep ==
    ASSUME AnswerInv, [IdempotencyNext]_idempotencyVars
    PROVE  AnswerInv'
<1>1. CASE UNCHANGED idempotencyVars
  BY <1>1 DEF idempotencyVars, AnswerInv, IdempotencyTypeOK, StoreAnswers, RecordsRan,
     ReplaysRan, ReplaysCurrent, ReplaysAgree, Ran
<1>2. ASSUME NEW r \in Posts, PostStep(r)
      PROVE  AnswerInv'
  <2>. USE PostMoves DEF Steps, Become
  <2>1. CASE LookupMisses(r)     BY <2>1 DEF LookupMisses
  <2>2. CASE LookupConflicts(r)  BY <2>2 DEF LookupConflicts
  <2>3. CASE LookupFails(r)      BY <2>3 DEF LookupFails
  <2>4. CASE RunRefuses(r)       BY <2>4 DEF RunRefuses
  <2>5. CASE StoreFails(r)       BY <2>5 DEF StoreFails
  <2>6. CASE PostLost(r)         BY <2>6 DEF PostLost
  <2>7. CASE LookupReplays(r)    BY <2>7, ReplayInvariant
  <2>8. CASE RunSucceeds(r)      BY <2>8, RunInvariant
  <2>9. CASE Store(r)            BY <2>9, AnswerStored
  <2>. QED
    BY <1>2, <2>1, <2>2, <2>3, <2>4, <2>5, <2>6, <2>7, <2>8, <2>9 DEF PostStep
<1>. QED  BY <1>1, <1>2, LapseInvariant DEF IdempotencyNext

THEOREM IdempotencyInvariant == IdempotencySpec => []AnswerInv
<1>1. IdempotencySpec => AnswerInv
  BY AnswersInit DEF IdempotencySpec
<1>2. AnswerInv /\ [IdempotencyNext]_idempotencyVars => AnswerInv'
  BY AnswersStep
<1>. QED  BY <1>1, <1>2, PTL DEF IdempotencySpec

\* All replays of a key give the answer of one run of the same request, however
\* many requests and failures there are.
THEOREM ReplaysAreOne == IdempotencySpec => []ReplaySameAnswer
<1>1. AnswerInv => ReplaySameAnswer
  BY DEF AnswerInv, ReplaysRan, ReplaysAgree, Ran, ReplaySameAnswer
<1>. QED  BY <1>1, IdempotencyInvariant, PTL

-----------------------------------------------------------------------------
(* The outbox                                                              *)

\* A row is given up with its last attempt, and marked with its message sent.
RowSound(n) ==
    /\ row[n].status \in {"absent", "pending"} => row[n].attempts < MaxTries
    /\ row[n].status = "published" => n \in sent
    /\ row[n].status = "dead" => row[n].attempts = MaxTries

\* A publisher that is not idle holds a row nobody has decided, and has sent its
\* message before it marks the row.
HoldSound(p) ==
    relay[p] # Idle =>
        /\ relay[p].row \in OutboxRows
        /\ row[relay[p].row].status = "pending"
        /\ relay[p].step = "mark" => relay[p].row \in sent

\* SKIP LOCKED: a row has one publisher at a time.
OneHolder ==
    \A p, q \in Publishers : p # q /\ relay[p] # Idle => relay[p].row # relay[q].row

RelayInv ==
    /\ OutboxTypeOK
    /\ \A n \in OutboxRows : RowSound(n)
    /\ \A p \in Publishers : HoldSound(p)
    /\ OneHolder

LEMMA OldestRow ==
    ASSUME NEW T, T \subseteq OutboxRows, T # {}
    PROVE  Min(T) \in T
<1>. DEFINE R == {p \in Nat \X Nat : p[1] < p[2]}
<1>1. IsWellFoundedOn(R, Nat)
  <2>1. OpToRel(<, Nat) = R
    BY Zenon DEF OpToRel
  <2>. QED  BY <2>1, NatLessThanWellFounded, Zenon
<1>2. T \subseteq Nat
  BY OutboxAssumption DEF OutboxRows
<1>3. PICK k \in T : \A j \in T : ~ (<<j, k>> \in R)
  <2>. HIDE DEF R
  <2>. QED  BY <1>1, <1>2, WFMin
<1>4. \A j \in T : k <= j
  <2>. SUFFICES ASSUME NEW j \in T PROVE k <= j
    OBVIOUS
  <2>1. j < k => <<j, k>> \in R
    BY <1>2
  <2>. HIDE DEF R
  <2>. QED  BY <1>2, <1>3, <2>1
<1>. QED  BY <1>4 DEF Min

LEMMA ClaimKeeps ==
    ASSUME RelayInv, NEW p \in Publishers, Claim(p)
    PROVE  RelayInv'
<1>. DEFINE n == Min(Claimable)
<1>1. n \in OutboxRows /\ row[n].status = "pending" /\ \A q \in Publishers : relay[q].row # n
  <2>1. n \in Claimable
    BY OldestRow DEF Claim, Claimable
  <2>. QED  BY <2>1 DEF Claimable, Claimed
<1>2. /\ relay' = [relay EXCEPT ![p] = [row |-> n, step |-> "publish"]]
      /\ UNCHANGED <<row, sent, topicKnown>>
  BY DEF Claim
<1>. HIDE DEF n
<1>3. /\ relay'[p] = [row |-> n, step |-> "publish"]
      /\ \A q \in Publishers \ {p} : relay'[q] = relay[q]
  BY <1>2 DEF RelayInv, OutboxTypeOK
<1>4. OutboxTypeOK'
  BY <1>1, <1>2, OutboxAssumption DEF RelayInv, OutboxTypeOK, OutboxRows
<1>5. \A m \in OutboxRows : RowSound(m)'
  BY <1>2 DEF RelayInv, RowSound
<1>6. \A q \in Publishers : HoldSound(q)'
  BY <1>1, <1>2, <1>3 DEF RelayInv, HoldSound, Idle
<1>7. OneHolder'
  <2>. SUFFICES ASSUME NEW q \in Publishers, NEW o \in Publishers, q # o, relay'[q] # Idle
                PROVE  relay'[q].row # relay'[o].row
    BY DEF OneHolder
  <2>. QED  BY <1>1, <1>3 DEF RelayInv, OneHolder
<1>. QED  BY <1>4, <1>5, <1>6, <1>7 DEF RelayInv

\* A publisher goes on with its row, whose message may be with the broker by now.
LEMMA WorkKeeps ==
    ASSUME RelayInv, NEW p \in Publishers,
           relay[p] # Idle, relay[p].step # "mark",
           NEW step \in {"publish", "ensure", "again", "mark", "failed"},
           RelayStep(p, step), UNCHANGED row, topicKnown' \in BOOLEAN,
           sent' = sent \/ sent' = sent \cup {relay[p].row},
           step = "mark" => relay[p].row \in sent'
    PROVE  RelayInv'
<1>1. /\ relay[p].row \in OutboxRows
      /\ row[relay[p].row].status = "pending"
      /\ relay \in [Publishers -> [row : 0..LastRow,
                                   step : {"idle", "publish", "ensure", "again", "mark", "failed"}]]
  BY DEF RelayInv, HoldSound, OutboxTypeOK
<1>2. /\ relay'[p] = [row |-> relay[p].row, step |-> step]
      /\ \A q \in Publishers \ {p} : relay'[q] = relay[q]
  BY <1>1 DEF RelayStep
<1>3. sent \subseteq sent' /\ sent' \subseteq OutboxRows
  BY <1>1 DEF RelayInv, OutboxTypeOK
<1>4. OutboxTypeOK'
  BY <1>1, <1>3 DEF RelayInv, OutboxTypeOK, RelayStep
<1>5. \A n \in OutboxRows : RowSound(n)'
  BY <1>3 DEF RelayInv, RowSound
<1>6. \A q \in Publishers : HoldSound(q)'
  BY <1>1, <1>2, <1>3 DEF RelayInv, HoldSound
<1>7. OneHolder'
  <2>. SUFFICES ASSUME NEW q \in Publishers, NEW o \in Publishers, q # o, relay'[q] # Idle
                PROVE  relay'[q].row # relay'[o].row
    BY DEF OneHolder
  <2>1. relay[q] # Idle /\ relay'[q].row = relay[q].row /\ relay'[o].row = relay[o].row
    BY <1>2
  <2>. QED  BY <2>1 DEF RelayInv, OneHolder
<1>. QED  BY <1>4, <1>5, <1>6, <1>7 DEF RelayInv

\* A publisher lets its row go: decided, put off, or as it was.
LEMMA ReleaseKeeps ==
    ASSUME RelayInv, NEW p \in Publishers, relay[p] # Idle,
           relay' = [relay EXCEPT ![p] = Idle],
           NEW rec \in RowRecords,
           row' = [row EXCEPT ![relay[p].row] = rec],
           rec.status \in {"absent", "pending"} => rec.attempts < MaxTries,
           rec.status = "published" => relay[p].row \in sent,
           rec.status = "dead" => rec.attempts = MaxTries,
           UNCHANGED <<sent, topicKnown>>
    PROVE  RelayInv'
<1>. DEFINE n == relay[p].row
<1>1. n \in OutboxRows
  BY DEF RelayInv, HoldSound
<1>2. /\ row'[n] = rec
      /\ \A m \in OutboxRows \ {n} : row'[m] = row[m]
      /\ relay'[p] = Idle
      /\ \A q \in Publishers \ {p} : relay'[q] = relay[q]
  BY <1>1 DEF RelayInv, OutboxTypeOK
<1>3. OutboxTypeOK'
  <2>1. Idle \in [row : 0..LastRow,
                  step : {"idle", "publish", "ensure", "again", "mark", "failed"}]
    BY OutboxAssumption DEF Idle
  <2>. QED  BY <1>1, <2>1 DEF RelayInv, OutboxTypeOK
<1>4. \A m \in OutboxRows : RowSound(m)'
  BY <1>2 DEF RelayInv, RowSound
<1>5. \A q \in Publishers : HoldSound(q)'
  <2>. SUFFICES ASSUME NEW q \in Publishers, relay'[q] # Idle PROVE HoldSound(q)'
    BY DEF HoldSound
  <2>1. q # p /\ relay'[q] = relay[q] /\ relay[q].row # n
    BY <1>2 DEF RelayInv, OneHolder
  <2>. QED  BY <1>2, <2>1 DEF RelayInv, HoldSound
<1>6. OneHolder'
  <2>. SUFFICES ASSUME NEW q \in Publishers, NEW o \in Publishers, q # o, relay'[q] # Idle
                PROVE  relay'[q].row # relay'[o].row
    BY DEF OneHolder
  <2>1. q # p /\ relay'[q] = relay[q] /\ relay[q].row \in OutboxRows
    BY <1>2 DEF RelayInv, HoldSound
  <2>2. relay'[o].row = 0 \/ relay'[o].row = relay[o].row
    BY <1>2 DEF Idle
  <2>. QED  BY <1>2, <2>1, <2>2 DEF RelayInv, OneHolder, OutboxRows
<1>. QED  BY <1>3, <1>4, <1>5, <1>6 DEF RelayInv

\* A row changes that no publisher decides on: it appears, or its time comes.
LEMMA RowKeeps ==
    ASSUME RelayInv, NEW n \in OutboxRows, Enqueue(n) \/ BackoffPasses(n)
    PROVE  RelayInv'
<1>1. row \in [OutboxRows -> RowRecords]
  BY DEF RelayInv, OutboxTypeOK
<1>2. /\ row' \in [OutboxRows -> RowRecords]
      /\ row'[n].attempts = row[n].attempts
      /\ \/ row[n].status = "absent" /\ row'[n].status = "pending"
         \/ row'[n].status = row[n].status
      /\ \A m \in OutboxRows \ {n} : row'[m] = row[m]
      /\ UNCHANGED <<sent, relay, topicKnown>>
  BY <1>1 DEF Enqueue, BackoffPasses, RowRecords
<1>3. OutboxTypeOK'
  BY <1>2 DEF RelayInv, OutboxTypeOK
<1>4. ASSUME NEW m \in OutboxRows PROVE RowSound(m)'
  BY <1>2 DEF RelayInv, RowSound
<1>5. ASSUME NEW q \in Publishers PROVE HoldSound(q)'
  BY <1>2 DEF RelayInv, HoldSound
<1>6. OneHolder'
  BY <1>2 DEF RelayInv, OneHolder
<1>. QED  BY <1>3, <1>4, <1>5, <1>6 DEF RelayInv

LEMMA RelayStepKeeps ==
    ASSUME RelayInv, NEW p \in Publishers, ProcessOne(p) \/ RelayFaults(p)
    PROVE  RelayInv'
<1>1. /\ relay[p] # Idle =>
            /\ relay[p].row \in OutboxRows
            /\ row[relay[p].row].status = "pending"
            /\ row[relay[p].row] \in RowRecords
            /\ row[relay[p].row].attempts < MaxTries
            /\ relay[p].step = "mark" => relay[p].row \in sent
      /\ topicKnown \in BOOLEAN
      /\ row \in [OutboxRows -> RowRecords]
  BY DEF RelayInv, HoldSound, RowSound, OutboxTypeOK
<1>2. CASE Claim(p)
  BY <1>2, ClaimKeeps
<1>3. CASE PublishMessage(p)
  BY <1>1, <1>3, WorkKeeps DEF PublishMessage, Idle
<1>4. CASE PublishFindsNoTopic(p)
  BY <1>1, <1>4, WorkKeeps DEF PublishFindsNoTopic, Idle
<1>5. CASE PublishRefused(p)
  BY <1>1, <1>5, WorkKeeps DEF PublishRefused, Idle
<1>6. CASE PublishFails(p)
  BY <1>1, <1>6, WorkKeeps DEF PublishFails, Idle
<1>7. CASE EnsureTopic(p)
  BY <1>1, <1>7, WorkKeeps DEF EnsureTopic, Idle
<1>8. CASE EnsureFails(p)
  BY <1>1, <1>8, WorkKeeps DEF EnsureFails, Idle
<1>9. CASE MarkPublished(p)
  <2>. DEFINE n == relay[p].row
              rec == [row[n] EXCEPT !.status = "published"]
  <2>1. relay[p] # Idle /\ relay[p].step = "mark"
    BY <1>9 DEF MarkPublished, Idle
  <2>2. rec \in RowRecords /\ rec.status = "published"
    BY <1>1, <2>1 DEF RowRecords
  <2>3. row' = [row EXCEPT ![n] = rec]
    BY <1>9 DEF MarkPublished
  <2>4. relay' = [relay EXCEPT ![p] = Idle] /\ UNCHANGED <<sent, topicKnown>>
    BY <1>9 DEF MarkPublished
  <2>. HIDE DEF rec
  <2>. QED  BY <1>1, <2>1, <2>2, <2>3, <2>4, ReleaseKeeps
<1>10. CASE MarkAttempt(p)
  <2>. DEFINE n == relay[p].row
              rec == AfterFailure(row[n])
  <2>1. relay[p] # Idle
    BY <1>10 DEF MarkAttempt, Idle
  <2>2. /\ rec \in RowRecords
        /\ rec.status \in {"absent", "pending"} => rec.attempts < MaxTries
        /\ rec.status = "dead" => rec.attempts = MaxTries
        /\ rec.status # "published"
    <3>. DEFINE old == row[n]
    <3>1. /\ old \in RowRecords /\ old.status = "pending"
          /\ old.attempts + 1 \in 0..MaxTries
          /\ old.attempts + 1 >= MaxTries => old.attempts + 1 = MaxTries
      BY <1>1, <2>1, OutboxAssumption DEF RowRecords
    <3>. HIDE DEF old
    <3>2. CASE old.attempts + 1 >= MaxTries
      <4>1. AfterFailure(old) = [old EXCEPT !.attempts = old.attempts + 1, !.status = "dead"]
        BY <3>2 DEF AfterFailure
      <4>. QED  BY <3>1, <3>2, <4>1 DEF RowRecords, old
    <3>3. CASE ~(old.attempts + 1 >= MaxTries)
      <4>1. AfterFailure(old) = [old EXCEPT !.attempts = old.attempts + 1, !.due = FALSE]
        BY <3>3 DEF AfterFailure
      <4>2. old.attempts + 1 < MaxTries
        BY <3>1, <3>3, OutboxAssumption
      <4>. QED  BY <3>1, <4>1, <4>2 DEF RowRecords, old
    <3>. QED  BY <3>2, <3>3
  <2>3. row' = [row EXCEPT ![n] = rec]
    BY <1>10 DEF MarkAttempt
  <2>4. relay' = [relay EXCEPT ![p] = Idle] /\ UNCHANGED <<sent, topicKnown>>
    BY <1>10 DEF MarkAttempt
  <2>. HIDE DEF rec
  <2>. QED  BY <2>1, <2>2, <2>3, <2>4, ReleaseKeeps
<1>11. CASE RelayRollsBack(p)
  <2>. DEFINE n == relay[p].row
              rec == row[n]
  <2>1. /\ relay[p] # Idle
        /\ relay' = [relay EXCEPT ![p] = Idle]
        /\ UNCHANGED <<row, sent, topicKnown>>
    BY <1>11 DEF RelayRollsBack
  <2>2. /\ rec \in RowRecords /\ rec.status = "pending" /\ rec.attempts < MaxTries
        /\ row' = [row EXCEPT ![n] = rec]
    BY <1>1, <2>1
  <2>. HIDE DEF rec
  <2>. QED  BY <2>1, <2>2, ReleaseKeeps
<1>. QED  BY <1>2, <1>3, <1>4, <1>5, <1>6, <1>7, <1>8, <1>9, <1>10, <1>11
             DEF ProcessOne, RelayFaults

\* Whoever holds a row, and whatever has failed, rows and publishers agree.
THEOREM OutboxInvariant == OutboxSpec => []RelayInv
<1>1. OutboxInit => RelayInv
  <2>. SUFFICES ASSUME OutboxInit PROVE RelayInv
    OBVIOUS
  <2>1. /\ NoRow \in RowRecords /\ NoRow.status = "absent" /\ NoRow.attempts < MaxTries
        /\ Idle \in [row : 0..LastRow,
                     step : {"idle", "publish", "ensure", "again", "mark", "failed"}]
    BY OutboxAssumption DEF NoRow, RowRecords, Idle
  <2>2. OutboxTypeOK
    BY <2>1 DEF OutboxInit, OutboxTypeOK
  <2>3. \A n \in OutboxRows : RowSound(n)
    BY <2>1 DEF OutboxInit, RowSound
  <2>. QED  BY <2>2, <2>3 DEF OutboxInit, RelayInv, HoldSound, OneHolder
<1>2. RelayInv /\ [OutboxNext]_outboxVars => RelayInv'
  <2>. SUFFICES ASSUME RelayInv, [OutboxNext]_outboxVars PROVE RelayInv'
    OBVIOUS
  <2>1. CASE UNCHANGED outboxVars
    BY <2>1 DEF outboxVars, RelayInv, OutboxTypeOK, RowSound, HoldSound, OneHolder
  <2>2. CASE OutboxNext
    BY <2>2, RelayStepKeeps, RowKeeps DEF OutboxNext
  <2>. QED  BY <2>1, <2>2
<1>. QED  BY <1>1, <1>2, PTL DEF OutboxSpec

\* The relay marks a row published only after the broker has stored it, and dead
\* only after maxAttempts failures, for any number of publishers, rows and crashes.
THEOREM OutboxKeepsRows == OutboxSpec => []GivenUpLast
<1>1. RelayInv => GivenUpLast
  BY DEF RelayInv, RowSound, GivenUpLast
<1>. QED  BY OutboxInvariant, <1>1, PTL

-----------------------------------------------------------------------------
(* The panel: the components side by side, each on its own variables.      *)

LEMMA PanelStarts ==
    ASSUME NEW scenario \in PanelScenarios, PanelInit(scenario)
    PROVE  /\ AccountsStart
           /\ GroupsStart
           /\ \E posts \in PostWorkloads : IdempotencyInit(posts)
           /\ OutboxInit
           /\ FaultsTypeOK
           /\ cast \subseteq {"accounts", "groups", "idempotency", "outbox"}
<1>1. /\ scenario.cast \subseteq {"accounts", "groups", "idempotency", "outbox"}
      /\ scenario.faults \in 0..MaxFaults
      /\ scenario.standing \in [Users -> Standings] /\ scenario.tokens \in SUBSET Tokens
      /\ scenario.tasks \in AccountTasks
      /\ scenario.groups \in [Groups -> [min : Nat, members : SUBSET Users]]
      /\ scenario.changes \in [Changes -> GroupTasks]
      /\ scenario.posts \in PostWorkloads
      /\ (\E u \in Users : scenario.standing[u] # "absent")
            => \E u \in Users : scenario.standing[u] = "admin"
      /\ \A t \in scenario.tokens : scenario.standing[t.user] = t.role
      /\ \A g \in Groups : scenario.groups[g].members # {} => scenario.groups[g].min > 0
  BY DEF PanelScenarios
<1>2. AccountsStart
  BY <1>1 DEF PanelInit, AccountsStart
<1>3. GroupsStart
  BY <1>1 DEF PanelInit, GroupsInit, GroupsStart, Exists
<1>4. FaultsTypeOK
  BY <1>1, FaultAssumption DEF PanelInit, FaultsTypeOK
<1>. QED  BY <1>1, <1>2, <1>3, <1>4 DEF PanelInit

\* A step of the panel is a step of one component, or of none.
LEMMA PanelStep ==
    ASSUME [PanelNext]_panelVars
    PROVE  /\ [AccountsNext]_accountVars
           /\ [\E x \in Changes : GroupStep(x)]_groupVars
           /\ [IdempotencyNext]_idempotencyVars
           /\ [OutboxNext]_outboxVars
           /\ UNCHANGED cast
<1>1. CASE AccountsAct
  BY <1>1 DEF AccountsAct
<1>2. CASE GroupsAct
  BY <1>2 DEF GroupsAct
<1>3. CASE IdempotencyActs
  BY <1>3 DEF IdempotencyActs
<1>4. CASE (\E p \in Publishers : RelayActs(p)) \/ (\E n \in OutboxRows : TimePasses(n))
             \/ OutboxActs
  BY <1>4 DEF RelayActs, TimePasses, OutboxActs, OutboxNext
<1>5. CASE UNCHANGED panelVars
  BY <1>5 DEF panelVars
<1>. QED  BY <1>1, <1>2, <1>3, <1>4, <1>5 DEF PanelNext

\* A step takes at most one unit of the budget.
LEMMA BudgetStep ==
    ASSUME FaultsTypeOK, [PanelNext]_panelVars
    PROVE  FaultsTypeOK'
<1>1. NoFault \/ Fault => FaultsTypeOK'
  BY FaultAssumption DEF NoFault, Fault, FaultsTypeOK
<1>2. ASSUME NEW c \in Calls, AccountStep(c)
      PROVE  NoFault \/ Fault
  BY <1>2 DEF AccountStep, Authorize, GetCredentials, StoreSession, StoreSessionFails,
     CountUsers, CreateUser, GetTarget, CountAdmins, WriteAccount, ScanSessions,
     DeleteSessions, HandlerStops, OnlyCalls, NoFault
<1>3. ASSUME NEW x \in Changes, GroupStep(x)
      PROVE  NoFault \/ Fault
  BY <1>3 DEF GroupStep, CreateGroup, UpdateRow, CountForUpdate, CommitUpdate, DeleteMember,
     ReadThreshold, CountForRemoval, CommitRemoval, CheckMember, InsertMember, RollBack
<1>4. CASE AccountsAct
  BY <1>1, <1>2, <1>4 DEF AccountsAct, AccountsNext, EndSession
<1>5. CASE GroupsAct
  BY <1>1, <1>3, <1>5 DEF GroupsAct
<1>6. CASE IdempotencyActs
  BY <1>1, <1>6 DEF IdempotencyActs, IdempotencyNext, PostStep, LookupMisses,
     LookupConflicts, LookupReplays, LookupFails, RunSucceeds, RunRefuses, Store,
     StoreFails, PostLost, RecordLapses
<1>7. CASE (\E p \in Publishers : RelayActs(p)) \/ (\E n \in OutboxRows : TimePasses(n))
             \/ OutboxActs
  BY <1>1, <1>7 DEF RelayActs, TimePasses, OutboxActs, ProcessOne, RelayFaults, Claim,
     PublishMessage, PublishFindsNoTopic, PublishRefused, EnsureTopic, MarkPublished,
     MarkAttempt, PublishFails, EnsureFails, RelayRollsBack, Enqueue, BackoffPasses
<1>8. CASE UNCHANGED panelVars
  BY <1>8 DEF panelVars, FaultsTypeOK
<1>. QED  BY <1>4, <1>5, <1>6, <1>7, <1>8 DEF PanelNext

\* The panel implements each of its components.
THEOREM PanelImplements ==
    PanelSpec => AccountsSpec /\ GroupsSpec /\ IdempotencySpec /\ OutboxSpec
<1>. DEFINE Start == \E scenario \in PanelScenarios : PanelInit(scenario)
            Posted == \E posts \in PostWorkloads : IdempotencyInit(posts)
<1>1. Start => AccountsStart /\ GroupsStart /\ Posted /\ OutboxInit /\ faults \in 0..MaxFaults
  BY PanelStarts DEF FaultsTypeOK
<1>2. [PanelNext]_panelVars =>
          /\ [AccountsNext]_accountVars
          /\ [\E x \in Changes : GroupStep(x)]_groupVars
          /\ [IdempotencyNext]_idempotencyVars
          /\ [OutboxNext]_outboxVars
  BY PanelStep
<1>. QED  BY <1>1, <1>2, PTL
             DEF PanelSpec, AccountsSpec, GroupsSpec, IdempotencySpec, OutboxSpec

\* Every variable of the panel keeps its type, for any scenario.
THEOREM PanelTypes == PanelSpec => []PanelTypeOK
<1>. DEFINE Start == \E scenario \in PanelScenarios : PanelInit(scenario)
            Rest == FaultsTypeOK /\ cast \subseteq {"accounts", "groups", "idempotency", "outbox"}
<1>1. Start => Rest
  BY PanelStarts
<1>2. Rest /\ [PanelNext]_panelVars => Rest'
  BY BudgetStep, PanelStep
<1>3. IInv /\ GroupInv /\ AnswerInv /\ RelayInv /\ Rest => PanelTypeOK
  BY DEF IInv, GroupInv, AnswerInv, RelayInv, PanelTypeOK
<1>. QED  BY <1>1, <1>2, <1>3, PanelImplements, AccountsInvariant, GroupsInvariant,
             IdempotencyInvariant, OutboxInvariant, PTL DEF PanelSpec

\* So what each component keeps the panel keeps, whichever of them act.
COROLLARY PanelSafe ==
    PanelSpec => /\ [](AdminRemains /\ SessionRoleFresh /\ ReplaySameAnswer /\ GivenUpLast)
                 /\ GroupHasQuorum
BY PanelImplements, AdminAlwaysRemains, RolesFresh, ReplaysAreOne, OutboxKeepsRows,
   QuorumStays, PTL
=============================================================================
