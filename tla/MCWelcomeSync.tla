--------------------------- MODULE MCWelcomeSync ---------------------------
(* Instances of WelcomeSync for TLC. *)
EXTENDS WelcomeSync

CONSTANTS g1, g2

TwoGroups == {g1, g2}

\* Queries alone, or with a subscription that processes two welcomes at once,
\* or with a subscription and the worker.
QueriesOrMore ==
  {{"sync"}, {"sync", "stream1", "stream2"}, {"sync", "stream1", "task"}}

ThreeAndOne == [x \in Groups |-> IF x = g1 THEN 3 ELSE 1]
=============================================================================
