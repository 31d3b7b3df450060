-------------------------- MODULE MCBidiTransport --------------------------
(* Small instances of BidiTransport for TLC. *)
EXTENDS BidiTransport

CONSTANTS t1, t2   \* topics

OneTopic == {t1}
TwoTopics == {t1, t2}

FirstUpto2 == [t \in Topics |-> IF t = t1 THEN 2 ELSE 0]
FirstUpto3 == [t \in Topics |-> IF t = t1 THEN 3 ELSE 0]
Upto2 == [t \in Topics |-> 2]

(* Steps after which every lease asked as the given list says, in turn.    *)
AskedAs(asks) == \A l \in DOMAIN task'.leases : task'.leases[l].floors = asks[l]

(* Restricted steps, to find what is told in the README (Disagreements).    *)
(* A topic is left and leased again while another keeps the wire open.     *)
Stays(l) == l \in DOMAIN task.leases => l \in DOMAIN task'.leases
Trailing ==
  Init /\ [][Next /\ Stays(1) /\ Stays(4)
             /\ AskedAs(<<t2 :> 0, t1 :> 0, t1 :> 2, t1 :> 0>>)]_vars

(* A caller leaves in mid replay, and the wire dies before another comes.  *)
Rejoining == Init /\ [][Next /\ AskedAs(<<t1 :> 0, t1 :> 2, t1 :> 0>>)]_vars
=============================================================================
