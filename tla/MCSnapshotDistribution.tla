---------------------- MODULE MCSnapshotDistribution ----------------------
(***************************************************************************)
(* Constants of the TLC runs of SnapshotDistribution.                      *)
(***************************************************************************)
EXTENDS SnapshotDistribution

CONSTANTS r1, r2
=============================================================================
