--------------------------- MODULE BidiTransport ---------------------------
(***************************************************************************)
(* One wire shared by many topic leases                                    *)
(* (crates/xmtp_api_d14n/src/queries/bidi_transport.rs): the ledger task   *)
(* sends each lease's topics as waves of cursored adds, routes what comes  *)
(* back, and rebuilds its waves on a fresh wire when one dies.             *)
(*                                                                         *)
(* A topic's messages are its positions 1, 2, ... in the server's log; a   *)
(* cursor is the last position seen.  Positions start at 1, so 0 stands    *)
(* for a missing entry of last_seen, live_snap and replayed.  The server   *)
(* is the one of bidi_transport_props.rs.                                  *)
(***************************************************************************)
EXTENDS Integers, Sequences, FiniteSets, FiniteSetsExt, SequencesExt, TLC

CONSTANTS
  Topics,        \* topics that can be leased
  Floors,        \* cursors a lease may ask from
  ChunkCap,      \* chunk_cap: topics per Mutate
  WithheldCap,   \* WITHHELD_FRAMES_CAP: withheld frames per lease
  Backlog,       \* whether the connection's command buffer can be full
  Yank,          \* whether a lower re-add moves a topic out of older waves
  Trail,         \* whether a topic can be leased again while frames of its
                 \* former lease are on the wire
  MaxLeases,     \* bound: leases taken
  MaxLog,        \* bound: MaxLog[t] messages are published on topic t
  MaxDeaths,     \* bound: wires that die, dials that fail
  MaxWedged,     \* bound: consumers that stop draining
  MaxResumes     \* bound: calls of resume(), and of suspend()

ASSUME BidiAssumption ==
  /\ IsFiniteSet(Topics) /\ Topics # {} /\ Floors \subseteq Nat
  /\ ChunkCap \in Nat \ {0} /\ WithheldCap \in Nat
  /\ {Backlog, Yank, Trail} \subseteq BOOLEAN
  /\ {MaxLeases, MaxDeaths, MaxWedged, MaxResumes} \subseteq Nat
  /\ MaxLog \in [Topics -> Nat]

VARIABLES
  task,   \* the ledger task
  wire,   \* the connection: frames in flight, and the server's side of it
  log,    \* log[t]: number of messages stored under topic t
  edge,   \* auxiliary: the log when the current wire opened
  env     \* what the environment has used up of its bounds

vars == <<task, wire, log, edge, env>>

LeaseIds == 1..MaxLeases

(* What a caller passes to lease(): topics, with the cursor of the last    *)
(* message it has of each.                                                 *)
Asks ==
  UNION {{asks \in [T -> Floors] : \A t \in T : asks[t] <= log[t]} :
           T \in (SUBSET Topics) \ {{}}}

NoAdds == << >>   \* the function with no topic in its domain
NoWaves == << >>
NoLeases == << >>
Resume == 0       \* WaveOwner::Resume; other owners are lease ids
Live == 0         \* mutate_id of the live lane

Max2(a, b) == IF a < b THEN b ELSE a

(* The wire of a task that has none. *)
Closed == [up |-> << >>, down |-> << >>, subs |-> {}, waves |-> NoWaves]

-----------------------------------------------------------------------------
(* The ledger.  Its operators take the task's state and return the next    *)
(* one.  `dropped` and `removes` carry what one handler has still to do.   *)

Holders(L, t) ==
  {l \in DOMAIN L.leases : t \in DOMAIN L.leases[l].floors}

Without(f, S) == [x \in DOMAIN f \ S |-> f[x]]
With(f, g) ==
  [x \in DOMAIN f \union DOMAIN g |-> IF x \in DOMAIN g THEN g[x] ELSE f[x]]

(* Those members of a sequence that are in S. *)
Among(q, S) ==
  LET kept[n \in 0..Len(q)] ==
        IF n = 0 THEN << >>
        ELSE IF q[n] \in S THEN Append(kept[n - 1], q[n]) ELSE kept[n - 1]
  IN kept[Len(q)]
Above(c) == {d \in Nat : d > c}

(* owed_on: is the lease still owed replayed history of the topic? *)
OwedOn(s, t) ==
  /\ ~s.caught_up
  /\ \/ s.live_snap[t] = 0
     \/ s.floors[t] < s.live_snap[t] /\ s.replayed[t] < s.live_snap[t]

(* chunk_waves: an add-set as waves of at most ChunkCap topics. *)
Chunks(adds) ==
  LET order == SetToSeq(DOMAIN adds)
      chunk(k) == (k - 1) \div ChunkCap + 1
      topics(i) == {order[k] : k \in {j \in 1..Len(order) : chunk(j) = i}}
  IN [i \in {chunk(k) : k \in 1..Len(order)} |-> [t \in topics(i) |-> adds[t]]]

(* Register an add-set as pending waves and queue their Mutates. *)
AddWaves(L, owner, adds) ==
  LET chunks == Chunks(adds)
      ids == L.next_wave .. (L.next_wave + Len(chunks) - 1)
      chunk(w) == chunks[w - L.next_wave + 1]
  IN [L EXCEPT
        !.next_wave = @ + Len(chunks),
        !.waves = With(@, [w \in ids |-> [owner |-> owner, claims |-> chunk(w),
                                          holds |-> {}]]),
        !.outbox = @ \o [i \in 1..Len(chunks) |->
                          [lease |-> owner, id |-> L.next_wave + i - 1,
                           adds |-> chunks[i], removes |-> {}]]]

(* register: the lease is routed to from now on. *)
Register(L, asks) ==
  LET per(x) == [t \in DOMAIN asks |-> x]
      state == [floors |-> asks,
                live_snap |-> [t \in DOMAIN asks |-> L.last_seen[t]],
                replayed |-> per(0), held |-> per(<< >>),
                preexisting |-> DOMAIN L.waves, caught_up |-> FALSE,
                \* the consumer: is it stuck, what did it get, and
                \* (auxiliary) what was there to get when it asked
                wedged |-> FALSE, got |-> per(<< >>),
                asked |-> [t \in DOMAIN asks |-> log[t]]]
  IN [L EXCEPT !.leases = With(@, [l \in {L.next_lease} |-> state]),
               !.next_lease = @ + 1]

(* deliver: hand messages of a topic to a lease, unless its channel is     *)
(* stuck, and then it is dropped.                                          *)
Handed(s, t, messages) ==
  IF s.wedged THEN s ELSE [s EXCEPT !.got[t] = @ \o messages]

(* Mutant: only other leases' waves count. *)
BlocksClaimsOnly(L, l, w) ==
  LET s == L.leases[l]
      claims == L.waves[w].claims
  IN \E t \in DOMAIN s.floors \intersect DOMAIN claims :
       claims[t] < L.last_seen[t] \/ claims[t] < s.floors[t]

(* A pending wave that still carries history the lease has not received. *)
Blocks(L, l, w) ==
  LET s == L.leases[l]
      claims == L.waves[w].claims
  IN \/ L.waves[w].owner = l
     \/ \E t \in DOMAIN s.floors \intersect DOMAIN claims :
          claims[t] < L.last_seen[t] \/ claims[t] < s.floors[t]

Blockers(L, l) == {w \in DOMAIN L.waves : Blocks(L, l, w)}

(* The lease is told that it is caught up, after what was withheld.        *)
CaughtUp(s) ==
  LET none(x) == [t \in DOMAIN s.floors |-> x]
      flushed(t) == s.got[t] \o Among(s.held[t], Above(s.replayed[t]))
  IN [s EXCEPT !.caught_up = TRUE,
               !.got = IF s.wedged THEN @ ELSE [t \in DOMAIN s.floors |-> flushed(t)],
               !.held = none(<< >>), !.live_snap = none(0), !.replayed = none(0)]

(* complete, for a set of leases: each is caught up, or waits on a wave.   *)
(* `pick` stands for the order in which the map of waves is searched.      *)
CompleteAll(L, ls, pick) ==
  LET due == {l \in ls \intersect DOMAIN L.leases : ~L.leases[l].caught_up}
      done == {l \in due : Blockers(L, l) = {}}
      on(l) == IF pick THEN Min(Blockers(L, l)) ELSE Max(Blockers(L, l))
  IN [L EXCEPT
        !.leases = [l \in DOMAIN @ |-> IF l \in done THEN CaughtUp(@[l]) ELSE @[l]],
        !.waves = [w \in DOMAIN @ |->
                    [L.waves[w] EXCEPT !.holds = @ \union {l \in due \ done : on(l) = w}]],
        !.dropped = @ \union {l \in done : L.leases[l].wedged}]

(* Mutant: topics leave the wire with any of their holders. *)
DerefUncounted(L, l, purged, pick) ==
  IF l \notin DOMAIN L.leases THEN L
  ELSE [L EXCEPT !.leases = Without(@, {l}), !.waves = Without(@, purged),
          !.removes = @ \union DOMAIN L.leases[l].floors]

(* Ledger::deref: forget a lease and those of its waves that were never    *)
(* sent; what waited on these is checked again.                            *)
DerefLedger(L, l, purged, pick) ==
  IF l \notin DOMAIN L.leases THEN L
  ELSE LET released == UNION {L.waves[w].holds : w \in purged}
           waves == [w \in DOMAIN L.waves \ purged |->
                      [L.waves[w] EXCEPT !.holds = @ \ {l}]]
           orphaned == {t \in DOMAIN L.leases[l].floors : Holders(L, t) = {l}}
           M == [L EXCEPT !.leases = Without(@, {l}), !.waves = waves,
                   !.last_seen = [t \in Topics |->
                      IF t \in orphaned THEN 0 ELSE @[t]],
                   !.removes = @ \union orphaned]
       IN CompleteAll(M, released \ {l}, pick)

(* Outbox::purge, then deref: the lease's waves that were never sent go    *)
(* with it.                                                                *)
DropOne(L, l, pick) ==
  LET own == {i \in DOMAIN L.outbox : L.outbox[i].lease = l}
      purged == {L.outbox[i].id : i \in own} \intersect DOMAIN L.waves
      kept == {L.outbox[i] : i \in DOMAIN L.outbox \ own}
  IN DerefLedger([L EXCEPT !.outbox = Among(@, kept), !.dropped = @ \ {l}],
                 l, purged, pick)

(* drop_leases: a worklist, since a released completion can itself fail.   *)
DropLeases(L, seed, pick) ==
  LET after[n \in 0..MaxLeases] ==
        IF n = 0 THEN [L EXCEPT !.dropped = @ \union seed]
        ELSE LET M == after[n - 1]
             IN IF M.dropped = {} THEN M ELSE DropOne(M, Max(M.dropped), pick)
  IN after[MaxLeases]

(* retire: unclaimed topics leave the wire, the last lease closes it. *)
Retire(L) ==
  LET chunks == Chunks([t \in L.removes |-> 0])
      frames == [i \in 1..Len(chunks) |->
                  [lease |-> Resume, id |-> L.next_wave + i - 1,
                   adds |-> NoAdds, removes |-> DOMAIN chunks[i]]]
      M == [L EXCEPT !.removes = {}]
  IN IF DOMAIN L.leases = {}
     THEN [M EXCEPT !.outbox = << >>, !.conn = FALSE]
     ELSE IF L.removes = {} \/ ~L.conn THEN M
     ELSE [M EXCEPT !.outbox = @ \o frames,
                    !.next_wave = @ + Len(chunks)]

(* Mutant: the waiters of an idle task are forgotten. *)
SettleIdleKeepsWaiters(L) ==
  IF DOMAIN L.leases = {} THEN [L EXCEPT !.waves = NoWaves] ELSE L

(* settle_idle_waiters, then settle_caught_up_waiters. *)
SettleIdle(L) ==
  IF DOMAIN L.leases = {} THEN [L EXCEPT !.waves = NoWaves, !.waiting = 0]
  ELSE L

SettleCaughtUp(L) ==
  IF L.conn /\ DOMAIN L.waves = {} THEN [L EXCEPT !.waiting = 0] ELSE L

Settle(L) == SettleCaughtUp(SettleIdle(L))

(* The end of every handler that may have dropped a lease. *)
Finish(L, seed, pick) == Settle(Retire(DropLeases(L, seed, pick)))

-----------------------------------------------------------------------------
(* Reconnecting *)

(* reconnect_plan: where each topic of a catching-up lease resumes for it. *)
Candidate(L, l, t) ==
  LET s == L.leases[l]
  IN IF OwedOn(s, t) THEN Max2(s.floors[t], s.replayed[t])
     ELSE IF L.last_seen[t] # 0 THEN L.last_seen[t] ELSE s.floors[t]

CatchingUp(L) == {l \in DOMAIN L.leases : ~L.leases[l].caught_up}

(* Drafts are ordered by interrupted wave, then by lease. *)
Rank(L, l) ==
  LET own == {w \in DOMAIN L.waves : L.waves[w].owner = l}
  IN IF own # {} THEN Min(own) ELSE L.next_wave + l

(* The wire position a holder is at, or its floor when there is none. *)
Line(L, l, t) ==
  IF L.last_seen[t] # 0 THEN L.last_seen[t] ELSE L.leases[l].floors[t]

(* The draft with the lowest candidate carries the topic ... *)
Best(L, t) ==
  LET drafts == Holders(L, t) \intersect CatchingUp(L)
      lowest == Min({Candidate(L, l, t) : l \in drafts})
  IN CHOOSE l \in drafts :
       /\ Candidate(L, l, t) = lowest
       /\ \A k \in drafts : Candidate(L, k, t) = lowest => Rank(L, l) <= Rank(L, k)

(* Mutant: caught-up holders of the topic are not asked. *)
MeetOfDrafts(L, t) ==
  LET drafts == Holders(L, t) \intersect CatchingUp(L)
  IN Min({Candidate(L, l, t) : l \in drafts})

(* ... from the meet of everybody's position. *)
Meet(L, t) ==
  Min({IF l \in CatchingUp(L) THEN Candidate(L, l, t) ELSE Line(L, l, t) :
         l \in Holders(L, t)})

ReissueAdds(L, l) ==
  [t \in {u \in DOMAIN L.leases[l].floors : Best(L, u) = l} |-> Meet(L, t)]

ResumeAdds(L) ==
  [t \in {u \in Topics : /\ Holders(L, u) # {}
                         /\ Holders(L, u) \intersect CatchingUp(L) = {}} |->
     Min({Line(L, l, t) : l \in Holders(L, t)})]

(* Mutant: a lease without a re-issue is not looked at again. *)
OrphansForgotten(L) == {}

Orphans(L) == {l \in CatchingUp(L) : DOMAIN ReissueAdds(L, l) = {}}

(* reopen, once the dial succeeded: the waves of the dead wire are replaced *)
(* by the plan's ...                                                        *)
Rebuilt(L) ==
  LET drafts == SetToSortSeq(CatchingUp(L) \ Orphans(L),
                             LAMBDA k, l : Rank(L, k) < Rank(L, l))
      drained == [L EXCEPT !.waves = NoWaves, !.conn = TRUE]
  IN FoldLeft(LAMBDA M, l : AddWaves(M, l, ReissueAdds(L, l)),
              AddWaves(drained, Resume, ResumeAdds(L)), drafts)

(* ... and what waited on them is checked again. *)
Released(L) ==
  Orphans(L) \union UNION {L.waves[w].holds : w \in DOMAIN L.waves}

-----------------------------------------------------------------------------
(* Routing *)

(* The owner of a wave and the leases that wait on it ride it. *)
Rides(L, l, w) ==
  w \in DOMAIN L.waves /\ (L.waves[w].owner = l \/ l \in L.waves[w].holds)

Withheld(s) == MapThenSumSet(LAMBDA t : Len(s.held[t]), DOMAIN s.held)

(* Hand out message c, preceded by the withheld messages below it. *)
Admit(s, t, c) ==
  [out |-> Append(Among(s.held[t], s.replayed[t] + 1 .. c - 1), c),
   state |-> [s EXCEPT !.held[t] = Among(@, Above(c)),
                       !.replayed[t] = Max2(@, c)],
   drop |-> FALSE]

(* ... and, if that was the last message owed, by the withheld tail. *)
AdmitOwed(s, t, c) ==
  LET a == Admit(s, t, c)
      tail == Among(a.state.held[t], Above(a.state.replayed[t]))
      over == [a.state EXCEPT
                 !.held[t] = << >>,
                 !.replayed[t] = IF tail = << >> THEN @ ELSE Last(tail)]
  IN IF OwedOn(a.state, t) THEN a
     ELSE [a EXCEPT !.out = @ \o tail, !.state = over]

Skip(s) == [out |-> << >>, state |-> s, drop |-> FALSE]

(* Mutant: a live message is handed out although history is still owed. *)
TakeFreshAtOnce(L, l, t, c, w) ==
  LET s == L.leases[l]
  IN  IF c <= s.floors[t] THEN Skip(s) ELSE [Skip(s) EXCEPT !.out = <<c>>]

(* A message past the wire position, for one holder of its topic. *)
TakeFresh(L, l, t, c, w) ==
  LET s == L.leases[l]
      cleared == [s EXCEPT !.held = [u \in DOMAIN @ |-> << >>]]
  IN CASE c <= s.floors[t] -> Skip(s)
       [] c > s.floors[t] /\ ~OwedOn(s, t) -> [Skip(s) EXCEPT !.out = <<c>>]
       [] c > s.floors[t] /\ OwedOn(s, t) /\ Rides(L, l, w)
            /\ s.live_snap[t] = 0 -> Admit(s, t, c)
       [] OTHER -> IF Withheld(s) >= WithheldCap
                   THEN [Skip(cleared) EXCEPT !.drop = TRUE]
                   ELSE Skip([s EXCEPT !.held[t] = Append(@, c)])

(* A replayed message, for one holder: the owed-history lane takes what the *)
(* holder asked for and has not received, from a wave without a gap.        *)
TakeOwed(L, l, t, c, w) ==
  LET s == L.leases[l]
      inside == /\ ~s.caught_up /\ c > s.floors[t]
                /\ s.live_snap[t] = 0 \/ c <= s.live_snap[t]
      reachable == /\ w \in DOMAIN L.waves /\ t \in DOMAIN L.waves[w].claims
                   /\ L.waves[w].claims[t] <= Max2(s.floors[t], s.replayed[t])
  IN IF inside /\ reachable /\ w \notin s.preexisting /\ c > s.replayed[t]
     THEN AdmitOwed(s, t, c) ELSE Skip(s)

(* demux: one message to every holder of its topic. *)
Demux(L, t, c, w) ==
  LET holders == Holders(L, t)
      fresh == c > L.last_seen[t]
      taken == [l \in holders |->
                 IF fresh THEN TakeFresh(L, l, t, c, w) ELSE TakeOwed(L, l, t, c, w)]
      stuck == {l \in holders : L.leases[l].wedged /\ taken[l].out # << >>}
  IN IF holders = {} \/ (w = Live /\ ~fresh) THEN L
     ELSE [L EXCEPT
             !.leases = [l \in DOMAIN @ |->
                IF l \in holders THEN Handed(taken[l].state, t, taken[l].out) ELSE @[l]],
             !.dropped = @ \union stuck \union {l \in holders : taken[l].drop},
             !.last_seen[t] = Max2(@, c)]

(* CatchUpComplete: the wave's owner and the leases parked on it. *)
Resolve(L, w, pick) ==
  IF w \notin DOMAIN L.waves THEN L
  ELSE LET M == [L EXCEPT !.waves = Without(@, {w})]
       IN CompleteAll(M, {L.waves[w].owner} \union L.waves[w].holds, pick)

Route(L, frame, pick) ==
  IF frame.kind = "message" THEN Demux(L, frame.topic, frame.cursor, frame.tag)
  ELSE Resolve(L, frame.tag, pick)

-----------------------------------------------------------------------------
NoDial == [kind |-> "none", asks |-> NoAdds]

Init ==
  /\ \E initially_suspended \in BOOLEAN :
       task = [leases |-> NoLeases, last_seen |-> [t \in Topics |-> 0],
               waves |-> NoWaves, next_wave |-> 1, next_lease |-> 1,
               conn |-> FALSE, suspended |-> initially_suspended,
               waiting |-> 0, deferred |-> 0, outbox |-> << >>,
               dial |-> NoDial, closed |-> FALSE,
               dropped |-> {}, removes |-> {}]
  /\ wire = Closed
  /\ log \in {[t \in Topics |-> 0]} \union {[t \in Topics |-> 1]}
  /\ edge = [t \in Topics |-> 0]
  /\ env = [deaths |-> 0, wedged |-> 0, resumes |-> 0, suspends |-> 0]

(* The task waits in next_step, having flushed its outbox unless the       *)
(* connection's buffer was full; while it dials it only takes commands.    *)
Waits ==
  /\ ~task.closed /\ task.dial.kind = "none"
  /\ Backlog \/ task.outbox = << >>
Dials == task.dial.kind # "none"

(* A handler's result; a task without a connection has no wire. *)
Becomes(L, w) == task' = L /\ wire' = IF L.conn THEN w ELSE Closed

-----------------------------------------------------------------------------
(* Commands *)

(* lease: the wave is registered; its Mutate is sent if there is a wire. *)
Enlist(L, asks) ==
  LET M == AddWaves(Register(L, asks), L.next_lease, asks)
  IN IF M.conn THEN M ELSE [M EXCEPT !.outbox = << >>]

(* A topic in a wave gets no live frames. *)
Held(t) == \E w \in DOMAIN wire.waves : t \in DOMAIN wire.waves[w]

(* What was sent for a topic, or is still to come of it, is on the wire.   *)
Lingers(t) ==
  LET pending == wire.up \o task.outbox
  IN \/ t \in wire.subs \/ Held(t)
     \/ \E i \in DOMAIN pending : t \in DOMAIN pending[i].adds \union pending[i].removes
     \/ \E i \in DOMAIN wire.down :
          wire.down[i].kind = "message" /\ wire.down[i].topic = t

(* The first lease dials, and is registered once that is over. *)
Lease(asks) ==
  LET cold == ~task.conn /\ DOMAIN task.leases = {} /\ ~task.suspended
  IN /\ Waits /\ task.next_lease <= MaxLeases
     /\ ~Trail => \A t \in DOMAIN asks : Holders(task, t) = {} => ~Lingers(t)
     /\ Becomes(IF cold THEN [task EXCEPT !.dial = [kind |-> "cold", asks |-> asks]]
                ELSE Enlist(task, asks), wire)
     /\ UNCHANGED <<log, edge, env>>

Deref(l) ==
  /\ Waits /\ l \in DOMAIN task.leases
  /\ \E pick \in BOOLEAN : Becomes(Finish(task, {l}, pick), wire)
  /\ UNCHANGED <<log, edge, env>>

Suspend ==
  /\ Waits /\ env.suspends < MaxResumes
  /\ Becomes([task EXCEPT !.suspended = TRUE, !.outbox = << >>,
                          !.conn = FALSE, !.waiting = 0], wire)
  /\ env' = [env EXCEPT !.suspends = @ + 1]
  /\ UNCHANGED <<log, edge>>

Redial(L) == [L EXCEPT !.dial = [kind |-> "reopen", asks |-> NoAdds]]

ResumeCmd ==
  LET L == [task EXCEPT !.suspended = FALSE, !.waiting = @ + 1]
  IN /\ Waits /\ env.resumes < MaxResumes
     /\ Becomes(IF L.conn \/ DOMAIN L.leases = {} THEN Settle(L) ELSE Redial(L), wire)
     /\ env' = [env EXCEPT !.resumes = @ + 1]
     /\ UNCHANGED <<log, edge>>

(* A resume() that arrives during a dial is put off. *)
DeferResume ==
  /\ Dials /\ env.resumes < MaxResumes
  /\ task' = [task EXCEPT !.deferred = @ + 1]
  /\ env' = [env EXCEPT !.resumes = @ + 1]
  /\ UNCHANGED <<wire, log, edge>>

-----------------------------------------------------------------------------
(* Dialling *)

(* The deferred resumes join the waiters. *)
Park(L) == [L EXCEPT !.dial = NoDial, !.waiting = @ + L.deferred, !.deferred = 0]

Reconnect ==
  /\ Waits /\ ~task.conn /\ ~task.suspended /\ DOMAIN task.leases # {}
  /\ task' = Redial(task)
  /\ UNCHANGED <<wire, log, edge, env>>

(* The first Mutate rides the dial, the others follow from the outbox. *)
Opened ==
  LET L == IF task.dial.kind = "cold"
           THEN Enlist([task EXCEPT !.conn = TRUE], task.dial.asks)
           ELSE Rebuilt(task)
      released == IF task.dial.kind = "cold" THEN {} ELSE Released(task)
      sent == [Park(L) EXCEPT !.outbox = Tail(@)]
  IN /\ Dials
     /\ \E pick \in BOOLEAN :
          Becomes(Finish(CompleteAll(sent, released, pick), {}, pick),
                  [Closed EXCEPT !.up = <<Head(L.outbox)>>])
     /\ edge' = log
     /\ UNCHANGED <<log, env>>

(* A cold dial's failure goes to its caller; a reconnect will be retried. *)
DialFails ==
  /\ Dials /\ env.deaths < MaxDeaths
  /\ task' = Settle(Park(task))
  /\ env' = [env EXCEPT !.deaths = @ + 1]
  /\ UNCHANGED <<wire, log, edge>>

(* An error that no retry can mend shuts the task down: every lease ends. *)
DialRefused ==
  /\ task.dial.kind = "reopen" /\ env.deaths < MaxDeaths
  /\ task' = [Park(task) EXCEPT !.closed = TRUE, !.leases = NoLeases,
                                !.waves = NoWaves, !.waiting = 0]
  /\ env' = [env EXCEPT !.deaths = @ + 1]
  /\ UNCHANGED <<wire, log, edge>>

(* suspend() drops the dial; a lease that was dialling still registers. *)
DialSuspended ==
  LET L == [Park(task) EXCEPT !.suspended = TRUE, !.waiting = 0]
  IN /\ Dials /\ env.suspends < MaxResumes
     /\ task' = IF task.dial.kind = "cold" THEN Enlist(L, task.dial.asks) ELSE L
     /\ env' = [env EXCEPT !.suspends = @ + 1]
     /\ UNCHANGED <<wire, log, edge>>

-----------------------------------------------------------------------------
(* The wire *)

WireEvent ==
  /\ Waits /\ task.conn /\ wire.down # << >>
  /\ \E pick \in BOOLEAN :
       Becomes(Finish(Route(task, Head(wire.down), pick), {}, pick),
               [wire EXCEPT !.down = Tail(@)])
  /\ UNCHANGED <<log, edge, env>>

WireDied ==
  /\ Waits /\ task.conn /\ env.deaths < MaxDeaths
  /\ Becomes(SettleIdle([task EXCEPT !.outbox = << >>, !.conn = FALSE]), wire)
  /\ env' = [env EXCEPT !.deaths = @ + 1]
  /\ UNCHANGED <<log, edge>>

(* flush_outbox stops at a full command buffer, and goes on later. *)
FlushOutbox ==
  /\ ~task.closed /\ task.conn /\ task.outbox # << >>
  /\ task' = [task EXCEPT !.outbox = Tail(@)]
  /\ wire' = [wire EXCEPT !.up = Append(@, Head(task.outbox))]
  /\ UNCHANGED <<log, edge, env>>

(* A consumer stops draining its channel, or drops its receiver. *)
Wedge(l) ==
  /\ l \in DOMAIN task.leases /\ ~task.leases[l].wedged
  /\ env.wedged < MaxWedged
  /\ task' = [task EXCEPT !.leases[l].wedged = TRUE]
  /\ env' = [env EXCEPT !.wedged = @ + 1]
  /\ UNCHANGED <<wire, log, edge>>

-----------------------------------------------------------------------------
(* The server *)

Message(t, c, w) == [kind |-> "message", topic |-> t, cursor |-> c, tag |-> w]
Ack(w) == [kind |-> "ack", tag |-> w]

Publish(t) ==
  /\ log[t] < MaxLog[t]
  /\ log' = [log EXCEPT ![t] = @ + 1]
  /\ wire' = IF task.conn /\ t \in wire.subs /\ ~Held(t)
             THEN [wire EXCEPT !.down = Append(@, Message(t, log[t] + 1, Live))]
             ELSE wire
  /\ UNCHANGED <<task, edge, env>>

(* An add below the topic's end starts a replay; others replay nothing. *)
ServerMutate ==
  LET m == Head(wire.up)
      own == {t \in DOMAIN m.adds : m.adds[t] < log[t]}
      taken(w) == {t \in own \intersect DOMAIN wire.waves[w] :
                     Yank /\ m.adds[t] < wire.waves[w][t].from}
      older == [w \in DOMAIN wire.waves |-> Without(wire.waves[w], taken(w))]
      new == [t \in own |-> [from |-> m.adds[t], upto |-> m.adds[t]]]
  IN /\ wire.up # << >>
     /\ wire' = [wire EXCEPT !.up = Tail(@),
                   !.subs = (@ \ m.removes) \union DOMAIN m.adds,
                   !.waves = IF DOMAIN m.adds = {} THEN @ ELSE With(older, [w \in {m.id} |-> new]),
                   !.down = IF DOMAIN m.adds = {} THEN Append(@, Ack(m.id)) ELSE @]
     /\ UNCHANGED <<task, log, edge, env>>

(* serve_front: the oldest wave is served first, each topic in order. *)
Oldest == Min(DOMAIN wire.waves)

ServerServe(t) ==
  LET next == wire.waves[Oldest][t].upto + 1
  IN /\ DOMAIN wire.waves # {} /\ t \in DOMAIN wire.waves[Oldest]
     /\ next <= log[t]
     /\ wire' = [wire EXCEPT !.waves[Oldest][t].upto = next,
                             !.down = Append(@, Message(t, next, Oldest))]
     /\ UNCHANGED <<task, log, edge, env>>

(* It is acknowledged once it has caught up with the log. *)
ServerAck ==
  /\ DOMAIN wire.waves # {}
  /\ \A t \in DOMAIN wire.waves[Oldest] : wire.waves[Oldest][t].upto = log[t]
  /\ wire' = [wire EXCEPT !.waves = Without(@, {Oldest}),
                          !.down = Append(@, Ack(Oldest))]
  /\ UNCHANGED <<task, log, edge, env>>

-----------------------------------------------------------------------------
Next ==
  \/ \E asks \in Asks : Lease(asks)
  \/ \E l \in LeaseIds : Deref(l) \/ Wedge(l)
  \/ Suspend \/ ResumeCmd \/ DeferResume
  \/ Reconnect \/ Opened \/ DialFails \/ DialRefused \/ DialSuspended
  \/ WireEvent \/ WireDied \/ FlushOutbox
  \/ \E t \in Topics : Publish(t) \/ ServerServe(t)
  \/ ServerMutate \/ ServerAck

Spec == Init /\ [][Next]_vars

-----------------------------------------------------------------------------
(* Properties *)

(* Exactly once, in order: what a lease has been handed of a topic is the  *)
(* run of its messages that starts right above the floor it asked from.    *)
ExactlyOnceInOrder ==
  \A l \in DOMAIN task.leases : \A t \in DOMAIN task.leases[l].floors :
    LET s == task.leases[l]
    IN s.got[t] = [i \in 1..Len(s.got[t]) |-> s.floors[t] + i]

(* The last message of the topic a lease has, its own floor included. *)
Position(l, t) == task.leases[l].floors[t] + Len(task.leases[l].got[t])

(* A lease that was told CatchUpComplete has everything that was stored    *)
(* when it asked.                                                          *)
CaughtUpHasHistory ==
  \A l \in DOMAIN task.leases : \A t \in DOMAIN task.leases[l].floors :
    task.leases[l].caught_up /\ ~task.leases[l].wedged =>
      task.leases[l].asked[t] <= Position(l, t)

(* "Catch up, then done": when resume() is answered on a live wire, every  *)
(* lease is caught up and has all that was stored when the wire opened.    *)
ResumeMeansCaughtUp ==
  task.conn /\ DOMAIN task.waves = {} =>
    \A l \in DOMAIN task.leases : \A t \in DOMAIN task.leases[l].floors :
      /\ task.leases[l].caught_up
      /\ task.leases[l].wedged \/ edge[t] <= Position(l, t)

(* Once the Mutates under way arrive, the server serves exactly the topics *)
(* that some lease holds.                                                  *)
Subscribed(t) ==
  LET pending == wire.up \o task.outbox
      about == {i \in DOMAIN pending :
                 t \in DOMAIN pending[i].adds \union pending[i].removes}
  IN IF about = {} THEN t \in wire.subs ELSE t \in DOMAIN pending[Max(about)].adds

SubscriptionsMatch ==
  task.conn => \A t \in Topics : Subscribed(t) <=> Holders(task, t) # {}

(* Nothing is left to do: no dial is due, nothing is queued or in flight. *)
Quiet ==
  /\ ~Dials /\ task.outbox = << >> /\ wire.up = << >> /\ wire.down = << >>
  /\ DOMAIN wire.waves = {}
  /\ task.conn \/ task.suspended \/ task.closed \/ DOMAIN task.leases = {}

(* Nobody is left behind: when nothing is left to do, every resume() was   *)
(* answered and, unless the app suspended the transport, every lease is    *)
(* caught up with the log.                                                 *)
NobodyStranded ==
  Quiet =>
    /\ task.waiting = 0 /\ task.deferred = 0
    /\ task.conn => \A l \in DOMAIN task.leases :
         task.leases[l].wedged
         \/ /\ task.leases[l].caught_up
            /\ \A t \in DOMAIN task.leases[l].floors : log[t] <= Position(l, t)
=============================================================================
