--------------------------- MODULE MCPreparation ---------------------------
(***************************************************************************)
(* Instances of Preparation for TLC.                                       *)
(***************************************************************************)
EXTENDS Preparation

\* Bounds of the run with failures and prunings: a process breaks, or a pruning is under
\* way, while there is one comparison at most; a failure does not meet an emptied
\* collection, nor an outdated comparison one.
FewAtOnce ==
  /\ failures > 0 => Cardinality(Made) <= 1 /\ emptied = {}
  /\ pruning # {} => Cardinality(Made) <= 1
  /\ emptied # {} => touched = {}
=============================================================================
