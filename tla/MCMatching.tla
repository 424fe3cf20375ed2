----------------------------- MODULE MCMatching -----------------------------
EXTENDS Matching

(* The kinds whose replicas are recognised.                                *)
MatchedKinds == AllKinds \ {"event_rule", "table_config"}
=============================================================================
