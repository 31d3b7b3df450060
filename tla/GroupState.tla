----------------------------- MODULE GroupState -----------------------------
(***************************************************************************)
(* The state of an MLS group, abstracted to the sequence of commits that   *)
(* were merged into it.  The epoch is the length of the sequence, and two  *)
(* members share the secrets of an epoch iff their sequences are equal.    *)
(*                                                                         *)
(* A commit carries the operation `op` it performs and, in `src`, the      *)
(* client and the intent it was made for.                                  *)
(***************************************************************************)
EXTENDS Integers, Sequences

NoGuard == -1    \* expected_field_value is None
Unset == 0       \* a metadata field that no commit has written

Epoch(h) == Len(h)

Prefix(s, t) == Len(s) <= Len(t) /\ \A k \in 1..Len(s) : s[k] = t[k]

(* The committed value of a metadata field in state h. *)
MetadataField(h, field) ==
  LET Writes == {k \in DOMAIN h : h[k].op.kind = "MetadataUpdate"
                                  /\ h[k].op.field = field}
  IN IF Writes = {} THEN Unset
     ELSE h[CHOOSE k \in Writes : \A j \in Writes : j <= k].op.value

(* The membership intent asks for what state h already has. *)
NoChange(op, h) ==
  op.kind = "UpdateGroupMembership" /\ \E k \in DOMAIN h : h[k].op = op

(* The compare-and-swap guard of a metadata update fails in state h. *)
GuardFails(op, h) ==
  /\ op.kind = "MetadataUpdate" /\ op.expected # NoGuard
  /\ MetadataField(h, op.field) # op.expected
=============================================================================
