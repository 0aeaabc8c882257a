--------------------------- MODULE ApproverGroups ---------------------------
(***************************************************************************)
(* Approver groups: members and a threshold of approvals.  UpdateGroup and *)
(* RemoveMember change a row first, then read what the change leaves, and  *)
(* roll back below the threshold.  They run at READ COMMITTED: a statement *)
(* sees what is committed when it starts and what its own transaction did. *)
(***************************************************************************)
EXTENDS Accounts

CONSTANTS Groups, Changes  \* Changes: calls of the group handlers

VARIABLES
    group,  \* threshold (0: no row) and members
    change  \* the handlers' transactions

groupVars == <<group, change>>

ChangeRecords ==
    [kind : {"idle", "create", "update", "add", "remove"},
     group : Groups, user : Users, min : Nat,
     step : {"new", "insert", "threshold", "count", "commit", "done"},
     overtaken : BOOLEAN]   \* ghost: a change was committed behind its reads

GroupsTypeOK ==
    /\ group \in [Groups -> [min : Nat, members : SUBSET Users]]
    /\ change \in [Changes -> ChangeRecords]

Change(kind, g, user, min) ==
    [kind |-> kind, group |-> g, user |-> user, min |-> min, step |-> "new",
     overtaken |-> FALSE]

GroupsInit(rows, tasks) ==
    /\ group = rows
    /\ change = tasks

Exists(g) == group[g].min > 0
Quorum(g) == Exists(g) /\ Cardinality(group[g].members) >= group[g].min

Doing(x, kind, step) == change[x].kind = kind /\ change[x].step = step
Proceed(x, step) == change' = [change EXCEPT ![x].step = step]

\* The transaction holds a lock: on the group's row, or on the member's.
Holds(x, kind) ==
    change[x].kind = kind /\ change[x].step \in {"threshold", "count", "commit"}

MemberLocked(g, u) ==
    \E x \in Changes : Holds(x, "remove") /\ change[x].group = g /\ change[x].user = u

\* Commit of x: what the others have read of the group is outdated.
Committed(x) ==
    [y \in Changes |->
       IF y = x THEN [change[x] EXCEPT !.step = "done"]
       ELSE [change[y] EXCEPT !.overtaken = @ \/
               (/\ change[y].group = change[x].group
                /\ \/ change[y].step = "commit"
                   \/ Doing(y, "remove", "count") /\ change[x].kind = "update")]]

-----------------------------------------------------------------------------

CreateGroup(x) ==
    /\ Doing(x, "create", "new")
    /\ ~Exists(change[x].group)
    /\ group' = [group EXCEPT ![change[x].group].min = change[x].min]
    /\ Proceed(x, "done")
    /\ NoFault

\* UPDATE takes the row lock and waits for another update of the group.
UpdateRow(x) ==
    /\ Doing(x, "update", "new")
    /\ Exists(change[x].group)
    /\ ~\E y \in Changes : Holds(y, "update") /\ change[y].group = change[x].group
    /\ Proceed(x, "count")
    /\ NoFault
    /\ UNCHANGED group

CountForUpdate(x) ==
    /\ Doing(x, "update", "count")
    /\ Proceed(x, IF change[x].min > Cardinality(group[change[x].group].members)
                  THEN "done" ELSE "commit")
    /\ NoFault
    /\ UNCHANGED group

CommitUpdate(x) ==
    /\ Doing(x, "update", "commit")
    /\ group' = [group EXCEPT ![change[x].group].min = change[x].min]
    /\ change' = Committed(x)
    /\ NoFault

DeleteMember(x) ==
    /\ Doing(x, "remove", "new")
    /\ LET g == change[x].group IN
          /\ ~MemberLocked(g, change[x].user)
          /\ Proceed(x, IF change[x].user \in group[g].members THEN "threshold" ELSE "done")
    /\ NoFault
    /\ UNCHANGED group

\* SELECT min_approvals takes no lock.
ReadThreshold(x) ==
    /\ Doing(x, "remove", "threshold")
    /\ change' = [change EXCEPT ![x].min = group[change[x].group].min, ![x].step = "count"]
    /\ NoFault
    /\ UNCHANGED group

Remaining(x) == group[change[x].group].members \ {change[x].user}

\* Mutant: the count still includes the member that goes.
CountForRemovalAll(x) ==
    /\ Doing(x, "remove", "count")
    /\ Proceed(x, IF change[x].min > Cardinality(group[change[x].group].members)
                  THEN "done" ELSE "commit")
    /\ NoFault
    /\ UNCHANGED group

CountForRemoval(x) ==
    /\ Doing(x, "remove", "count")
    /\ Proceed(x, IF change[x].min > Cardinality(Remaining(x)) THEN "done" ELSE "commit")
    /\ NoFault
    /\ UNCHANGED group

CommitRemoval(x) ==
    /\ Doing(x, "remove", "commit")
    /\ group' = [group EXCEPT ![change[x].group].members = Remaining(x)]
    /\ change' = Committed(x)
    /\ NoFault

\* AddMember reads the group and the user's role, then inserts.
CheckMember(x) ==
    /\ Doing(x, "add", "new")
    /\ Proceed(x, IF Exists(change[x].group) /\ account[change[x].user] = "approver"
                  THEN "insert" ELSE "done")
    /\ NoFault
    /\ UNCHANGED group

\* A duplicate changes nothing; a row being deleted is waited for.
InsertMember(x) ==
    /\ Doing(x, "add", "insert")
    /\ ~MemberLocked(change[x].group, change[x].user)
    /\ group' = [group EXCEPT ![change[x].group].members = @ \cup {change[x].user}]
    /\ Proceed(x, "done")
    /\ NoFault

\* An error or a restart rolls the transaction back.
RollBack(x) ==
    /\ change[x].step \notin {"new", "done"}
    /\ Fault
    /\ Proceed(x, "done")
    /\ UNCHANGED group

GroupStep(x) ==
    \/ CreateGroup(x)
    \/ UpdateRow(x)
    \/ CountForUpdate(x)
    \/ CommitUpdate(x)
    \/ DeleteMember(x)
    \/ ReadThreshold(x)
    \/ CountForRemoval(x)
    \/ CommitRemoval(x)
    \/ CheckMember(x)
    \/ InsertMember(x)
    \/ RollBack(x)

\* Calls that have not begun.
GroupTasks ==
    {x \in ChangeRecords : x.min > 0 /\ x.step = "new" /\ ~x.overtaken}

\* Groups with valid thresholds, members only in groups that exist.
GroupsStart ==
    /\ group \in [Groups -> [min : Nat, members : SUBSET Users]]
    /\ \A g \in Groups : group[g].members # {} => Exists(g)
    /\ change \in [Changes -> GroupTasks]

\* Accounts change meanwhile as they like.
GroupsSpec ==
    /\ GroupsStart
    /\ [][\E x \in Changes : GroupStep(x)]_groupVars

-----------------------------------------------------------------------------

CommitsOvertaken ==
    \E x \in Changes :
        change[x].overtaken /\ change[x].step = "commit" /\ change'[x].step = "done"

\* A group that can reach its threshold keeps that ability: no commit of a new
\* threshold or of a removal takes it away, unless another change of the group was
\* committed between the transaction's reads and its commit.
GroupHasQuorum ==
    [][\A g \in Groups : Quorum(g) => Quorum(g)' \/ CommitsOvertaken]_<<group, change>>
=============================================================================
