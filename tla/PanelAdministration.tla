------------------------ MODULE PanelAdministration ------------------------
(***************************************************************************)
(* The parts of the panel around the experiments: accounts and sessions,   *)
(* approver groups (whose members are accounts), the idempotency           *)
(* middleware in front of every writing route, and the outbox relay behind *)
(* every domain transaction.  Each acts on its own variables; cast names   *)
(* those that act, the others stand still.                                 *)
(***************************************************************************)
EXTENDS ApproverGroups, Idempotency, OutboxDelivery

VARIABLE cast

panelVars == <<accountVars, groupVars, idempotencyVars, outboxVars, faults, cast>>

PanelTypeOK ==
    /\ AccountsTypeOK
    /\ GroupsTypeOK
    /\ IdempotencyTypeOK
    /\ OutboxTypeOK
    /\ FaultsTypeOK
    /\ cast \subseteq {"accounts", "groups", "idempotency", "outbox"}

\* A scenario: who acts, the rows and sessions there are, the calls under way,
\* how many failures may happen.
PanelInit(scenario) ==
    /\ cast = scenario.cast
    /\ faults = MaxFaults - scenario.faults
    /\ AccountsInit(scenario.standing, scenario.tokens, scenario.tasks)
    /\ GroupsInit(scenario.groups, scenario.changes)
    /\ IdempotencyInit(scenario.posts)
    /\ OutboxInit

\* What a scenario may be: an empty database or one with an admin, sessions with
\* the roles of their users, groups whose members are in a group that exists, and
\* calls that have not begun.
PanelScenarios ==
    {scenario \in [cast : SUBSET {"accounts", "groups", "idempotency", "outbox"},
                   faults : 0..MaxFaults,
                   standing : [Users -> Standings], tokens : SUBSET Tokens,
                   tasks : AccountTasks,
                   groups : [Groups -> [min : Nat, members : SUBSET Users]],
                   changes : [Changes -> GroupTasks],
                   posts : PostWorkloads] :
        /\ (\E u \in Users : scenario.standing[u] # "absent")
              => \E u \in Users : scenario.standing[u] = "admin"
        /\ \A t \in scenario.tokens : scenario.standing[t.user] = t.role
        /\ \A g \in Groups :
              scenario.groups[g].members # {} => scenario.groups[g].min > 0}

AccountsAct ==
    /\ "accounts" \in cast
    /\ AccountsNext
    /\ UNCHANGED <<groupVars, idempotencyVars, outboxVars, cast>>

GroupsAct ==
    /\ "groups" \in cast
    /\ \E x \in Changes : GroupStep(x)
    /\ UNCHANGED <<accountVars, idempotencyVars, outboxVars, cast>>

IdempotencyActs ==
    /\ "idempotency" \in cast
    /\ IdempotencyNext
    /\ UNCHANGED <<accountVars, groupVars, outboxVars, cast>>

RelayActs(p) ==
    /\ "outbox" \in cast
    /\ ProcessOne(p)
    /\ UNCHANGED <<accountVars, groupVars, idempotencyVars, cast>>

TimePasses(n) ==
    /\ "outbox" \in cast
    /\ BackoffPasses(n)
    /\ UNCHANGED <<accountVars, groupVars, idempotencyVars, cast>>

OutboxActs ==
    /\ "outbox" \in cast
    /\ \/ \E n \in OutboxRows : Enqueue(n)
       \/ \E p \in Publishers : RelayFaults(p)
    /\ UNCHANGED <<accountVars, groupVars, idempotencyVars, cast>>

PanelNext ==
    \/ AccountsAct
    \/ GroupsAct
    \/ IdempotencyActs
    \/ \E p \in Publishers : RelayActs(p)
    \/ \E n \in OutboxRows : TimePasses(n)
    \/ OutboxActs

PanelSpec ==
    /\ \E scenario \in PanelScenarios : PanelInit(scenario)
    /\ [][PanelNext]_panelVars

\* A running publisher polls on a ticker, and time passes.  Nothing makes anybody
\* call the panel.
PanelFairness ==
    /\ \A p \in Publishers : WF_panelVars(RelayActs(p))
    /\ \A n \in OutboxRows : WF_panelVars(TimePasses(n))
=============================================================================
