----------------------- MODULE MCPanelAdministration -----------------------
(***************************************************************************)
(* Small instances of the panel: one scenario for each hazard.  The round  *)
(* trip of targeting expressions, which meets no other part of the panel,  *)
(* is checked beside them.                                                 *)
(***************************************************************************)
EXTENDS PanelAdministration, TargetingRoundTrip

CONSTANTS
    ann, bob, cy,   \* users
    c1, c2, c3,     \* calls
    team,           \* an approver group
    x1, x2, x3,     \* calls of the group handlers
    k1, k2,         \* idempotency keys
    b1, b2,         \* bodies
    q1, q2, q3, q4  \* requests with idempotency keys

NoUsers == [u \in Users |-> "absent"]
Busy(first, second, third) ==
    [c \in Calls |-> CASE c = c1 -> first [] c = c2 -> second [] OTHER -> third]
IdleCall == Task("idle", ann, ann, "approver")

Changing(first, second, third) ==
    [x \in Changes |-> CASE x = x1 -> first [] x = x2 -> second [] OTHER -> third]
IdleChange == Change("idle", team, ann, 1)

\* Three posts of one key and body, and another one.
Posting(other) == [q \in Posts |-> IF q = q4 THEN other ELSE Post(k1, b1)]

Quiet ==
    [cast |-> {}, faults |-> 0,
     standing |-> NoUsers, tokens |-> {}, tasks |-> Busy(IdleCall, IdleCall, IdleCall),
     groups |-> [h \in Groups |-> [min |-> 0, members |-> {}]],
     changes |-> Changing(IdleChange, IdleChange, IdleChange),
     posts |-> Posting(Post(k1, b1))]

Session(user, role) == [user |-> user, role |-> role, login |-> c3]

(* Accounts *)
Staff(standing, first, second, third, budget) ==
    [Quiet EXCEPT !.cast = {"accounts"}, !.faults = budget,
       !.standing = [NoUsers EXCEPT ![ann] = "admin", ![bob] = standing],
       !.tokens = {Session(ann, "admin")}
                  \cup (IF standing = "admin" THEN {Session(bob, "admin")} ELSE {}),
       !.tasks = Busy(first, second, third)]

PairTasks ==
    {Task("update", ann, bob, role) : role \in Roles}
        \cup {Task("update", bob, ann, "approver"), Task("delete", bob, ann, "approver"),
              Task("delete", ann, bob, "approver"), Task("delete", ann, ann, "approver"),
              Task("login", bob, bob, "approver"), Task("create", ann, cy, "approver")}

\* Any two of the calls and a login of the user they change.
Administration ==
    {Staff(standing, first, second, Task("login", bob, bob, "approver"), 1) :
        standing \in Roles, first \in PairTasks, second \in PairTasks}

\* Two replicas start on an empty table; the admin then logs in.
FirstStart ==
    {[Quiet EXCEPT !.cast = {"accounts"}, !.faults = 1,
        !.tasks = Busy(Task("bootstrap", ann, ann, "admin"),
                       Task("bootstrap", ann, ann, "admin"),
                       Task("login", ann, ann, "approver"))]}

(* Approver groups *)
Reviewers(min, members, first, second, third) ==
    [Quiet EXCEPT !.cast = {"groups"}, !.faults = 1,
       !.standing = [u \in Users |-> IF u = cy THEN "admin" ELSE "approver"],
       !.groups = [h \in Groups |-> [min |-> min, members |-> members]],
       !.changes = Changing(first, second, third)]

Grouping ==
    {Reviewers(1, {ann, bob}, Change("remove", team, ann, 1), second, third) :
        second \in {Change("remove", team, bob, 1), Change("remove", team, ann, 1)},
        third \in {Change("update", team, ann, 2), Change("add", team, cy, 1)}}
    \cup {Reviewers(0, {}, Change("create", team, ann, 1), Change("add", team, ann, 1),
                    Change("update", team, ann, 2)),
          Reviewers(2, {ann, bob}, Change("update", team, ann, 1), Change("update", team, ann, 3),
                    Change("remove", team, bob, 1)),
          Reviewers(1, {ann}, Change("add", team, bob, 1), Change("update", team, ann, 2),
                    Change("remove", team, ann, 1))}

(* An admin demotes an approver while a group takes the approver in. *)
Joining ==
    [Reviewers(1, {ann}, Change("add", team, bob, 1), IdleChange, IdleChange) EXCEPT
       !.cast = {"accounts", "groups"},
       !.standing = [NoUsers EXCEPT ![ann] = "admin", ![bob] = "approver"],
       !.tokens = {Session(ann, "admin")},
       !.tasks = Busy(Task("update", ann, bob, "admin"), IdleCall, IdleCall)]

(* Idempotency keys *)
Retrying ==
    {[Quiet EXCEPT !.cast = {"idempotency"}, !.faults = 2,
        !.posts = Posting(other)] :
        other \in {Post(k1, b1), Post(k1, b2), Post(k2, b1)}}

(* The outbox *)
Relaying == [Quiet EXCEPT !.cast = {"outbox"}, !.faults = 2]

Scenarios ==
    Administration \cup FirstStart \cup Grouping \cup Retrying \cup {Joining, Relaying}

\* The scenarios are among those the theorems are about.
ASSUME ScenariosAllowed == Scenarios \subseteq PanelScenarios

(* Targeting expressions: every kind of leaf, and all combinations two levels deep *)
MCSubjects ==
    [{"age", "plan"} -> {Number(1), Text(1, 1), Text(5, NotNumeric), Bool(1), Null, Missing}]

Adult == CmpNode("age", "<", Number(2))
LeafNodes ==
    {Adult, CmpNode("plan", ">=", Bool(1)),
     CmpNode("plan", "==", Null), CmpNode("age", "!=", Unprintable(4)),
     InNode("plan", {Text(1, 1), Null}, FALSE), InNode("plan", {Number(1)}, TRUE)}
Combine(S, T) ==
    S \cup {NotNode(n) : n \in S}
      \cup UNION {{AndNode(l, r), OrNode(l, r), AndNode(r, l), OrNode(r, l)} : l \in S, r \in T}
Expressions ==
    Combine(Combine(LeafNodes, LeafNodes), {Adult, InNode("plan", {Text(1, 1), Null}, FALSE)})

MCInit ==
    \/ /\ \E scenario \in Scenarios : PanelInit(scenario)
       /\ TargetingInit({Adult})
    \/ PanelInit(Quiet) /\ TargetingInit(Expressions)

MCNext ==
    \/ PanelNext /\ UNCHANGED targetingVars
    \/ cast = {} /\ TargetingNext /\ UNCHANGED panelVars

MCSpec == MCInit /\ [][MCNext]_<<panelVars, targetingVars>> /\ PanelFairness
=============================================================================
