------------------------------ MODULE BidiInv ------------------------------
(***************************************************************************)
(* What holds of BidiTransport in every state that a wire which never dies *)
(* can reach, as operators over a ledger L, a wire W and a log g: in the   *)
(* middle of a handler too, where the leases in L.dropped are exempt.      *)
(***************************************************************************)
EXTENDS BidiTransport

-----------------------------------------------------------------------------
(* Types *)

Adds == UNION {[T -> Nat] : T \in SUBSET Topics}
Mutates == [lease : Nat, id : Nat, adds : Adds, removes : SUBSET Topics]
Frames == [kind : {"message"}, topic : Topics, cursor : Nat, tag : Nat]
          \union [kind : {"ack"}, tag : Nat]

LeaseType(s) ==
  LET T == DOMAIN s.floors
  IN /\ DOMAIN s = {"floors", "live_snap", "replayed", "held", "preexisting",
                    "caught_up", "wedged", "got", "asked"}
     /\ T \subseteq Topics
     /\ s.floors \in [T -> Nat] /\ s.asked \in [T -> Nat]
     /\ s.live_snap \in [T -> Nat] /\ s.replayed \in [T -> Nat]
     /\ s.held \in [T -> Seq(Nat)] /\ s.got \in [T -> Seq(Nat)]
     /\ s.preexisting \subseteq Nat
     /\ s.caught_up \in BOOLEAN /\ s.wedged \in BOOLEAN

WaveType(r) ==
  /\ DOMAIN r = {"owner", "claims", "holds"}
  /\ r.owner \in Nat /\ r.claims \in Adds /\ r.holds \subseteq Nat

LedgerType(L) ==
  /\ DOMAIN L = {"leases", "last_seen", "waves", "next_wave", "next_lease",
                 "conn", "suspended", "waiting", "deferred", "outbox",
                 "dial", "closed", "dropped", "removes"}
  /\ L.next_lease \in Nat \ {0} /\ L.next_wave \in Nat \ {0}
  /\ DOMAIN L.leases \subseteq LeaseIds \intersect (1..L.next_lease - 1)
  /\ \A l \in DOMAIN L.leases : LeaseType(L.leases[l])
  /\ DOMAIN L.waves \subseteq 1..L.next_wave - 1
  /\ \A w \in DOMAIN L.waves : WaveType(L.waves[w])
  /\ L.last_seen \in [Topics -> Nat]
  /\ L.conn \in BOOLEAN /\ L.suspended \in BOOLEAN
  /\ L.outbox \in Seq(Mutates)
  /\ L.dropped \subseteq DOMAIN L.leases /\ L.removes \subseteq Topics

WireType(W) ==
  /\ DOMAIN W = {"up", "down", "subs", "waves"}
  /\ W.up \in Seq(Mutates) /\ W.down \in Seq(Frames) /\ W.subs \subseteq Topics
  /\ DOMAIN W.waves \subseteq Nat
  /\ \A w \in DOMAIN W.waves :
       W.waves[w] \in UNION {[T -> [from : Nat, upto : Nat]] : T \in SUBSET Topics}

-----------------------------------------------------------------------------
(* Subscriptions: what was asked for and has not reached the server yet,   *)
(* and what the server serves.                                             *)

Pend(L, W) == W.up \o L.outbox

(* A Mutate adds or removes; only the task itself removes. *)
Plain(Q) ==
  \A i \in 1..Len(Q) : Q[i].removes # {} =>
    DOMAIN Q[i].adds = {} /\ Q[i].lease = Resume

(* The topic is, or will be, served for its holder ... *)
Wanted(Q, subs, t, l) ==
  \/ \E p \in 1..Len(Q) :
       /\ Q[p].lease = l /\ t \in DOMAIN Q[p].adds
       /\ \A q \in 1..Len(Q) : p < q => t \notin Q[q].removes
  \/ t \in subs /\ \A q \in 1..Len(Q) : t \notin Q[q].removes

(* ... or is not, or will not be. *)
Gone(Q, subs, t) ==
  \/ \E p \in 1..Len(Q) :
       /\ t \in Q[p].removes
       /\ \A q \in 1..Len(Q) : p < q => t \notin DOMAIN Q[q].adds
  \/ t \notin subs /\ \A q \in 1..Len(Q) : t \notin DOMAIN Q[q].adds

Subs(L, W) ==
  \A t \in Topics :
    /\ \A l \in Holders(L, t) : Wanted(Pend(L, W), W.subs, t, l) /\ t \notin L.removes
    /\ Holders(L, t) = {} => t \in L.removes \/ Gone(Pend(L, W), W.subs, t)

Subscribing(L, W) == Plain(Pend(L, W)) /\ Subs(L, W)

(* Between two handlers, while the wire neither dies nor is suspended. *)
Idle(L, W) ==
  /\ L.dropped = {} /\ L.removes = {}
  /\ L.conn <=> DOMAIN L.leases # {} /\ ~L.suspended
  /\ ~L.conn => W = Closed /\ L.outbox = << >>
  /\ L.dial.kind \in {"none", "cold"}
  /\ L.dial.kind = "cold" =>
       /\ DOMAIN L.leases = {} /\ ~L.suspended /\ L.next_lease <= MaxLeases
       /\ L.dial.asks \in Adds /\ DOMAIN L.dial.asks # {}

EnvType ==
  /\ DOMAIN env = {"deaths", "wedged", "resumes", "suspends"}
  /\ env.deaths \in Nat /\ env.wedged \in Nat
  /\ env.resumes \in Nat /\ env.suspends \in Nat

TypeInv ==
  /\ LedgerType(task) /\ WireType(wire) /\ EnvType
  /\ log \in [Topics -> Nat] /\ edge \in [Topics -> Nat]

SubsInv ==
  /\ TypeInv /\ Idle(task, wire)
  /\ task.conn => Subscribing(task, wire)
=============================================================================
