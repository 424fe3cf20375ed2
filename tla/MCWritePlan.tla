---------------------------- MODULE MCWritePlan ----------------------------
(* A small instance of WritePlan for TLC. *)
EXTENDS WritePlan, TLC

RecordSymmetry == Permutations(Records)
=============================================================================
