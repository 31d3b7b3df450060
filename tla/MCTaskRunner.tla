---------------------------- MODULE MCTaskRunner ----------------------------
(* Instances of TaskRunner for TLC. *)
EXTENDS TaskRunner, TLC

CONSTANTS l1, l2

TwoLeavers == {l1, l2}
AnyLeaver == Permutations(TwoLeavers)
=============================================================================
