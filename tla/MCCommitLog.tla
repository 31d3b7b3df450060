---------------------------- MODULE MCCommitLog ----------------------------
(* Small instances of CommitLog for TLC. *)
EXTENDS CommitLog

CONSTANTS a, b

Pair == {a, b}
JustA == {a}
Nobody == {}
=============================================================================
