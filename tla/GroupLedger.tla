---------------------------- MODULE GroupLedger ----------------------------
(***************************************************************************)
(* What a group promises its members: there is one history of commits,     *)
(* every intent is in it at most once, a guarded update is appended only   *)
(* while its guard holds, and a member's state is a prefix of the history  *)
(* that grows one commit at a time.                                        *)
(***************************************************************************)
EXTENDS GroupState

CONSTANT Members

VARIABLES
  chain,   \* the history
  view     \* view[c]: what member c has merged

Init == chain = << >> /\ view = [c \in Members |-> << >>]

(* Commit x becomes the latest one of the history. *)
Extend(x) ==
  /\ ~GuardFails(x.op, chain)
  /\ \A k \in DOMAIN chain : chain[k].src # x.src
  /\ chain' = Append(chain, x)
  /\ UNCHANGED view

(* Member c merges the next commit. *)
Advance(c) ==
  /\ Len(view[c]) < Len(chain)
  /\ view' = [view EXCEPT ![c] = SubSeq(chain, 1, Len(view[c]) + 1)]
  /\ UNCHANGED chain

Next ==
  \/ \E k \in DOMAIN chain' : Extend(chain'[k])
  \/ \E c \in Members : Advance(c)

Spec == Init /\ [][Next]_<<chain, view>>
=============================================================================
