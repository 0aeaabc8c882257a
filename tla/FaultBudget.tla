---------------------------- MODULE FaultBudget ----------------------------
(***************************************************************************)
(* How many operations may fail in a behaviour.  Redis, Kafka, ClickHouse  *)
(* and PostgreSQL calls return errors, processes restart and keys lapse;   *)
(* each of these takes one unit of the budget, so that the state spaces    *)
(* stay finite and every behaviour ends in a period without failures.      *)
(***************************************************************************)
EXTENDS Naturals

CONSTANT MaxFaults  \* bound: failed operations, restarts and lapses of keys

ASSUME FaultAssumption == MaxFaults \in Nat

VARIABLE faults     \* failed operations, restarts and lapses so far

FaultsTypeOK == faults \in 0..MaxFaults

Fault ==
    /\ faults < MaxFaults
    /\ faults' = faults + 1

NoFault == UNCHANGED faults
=============================================================================
