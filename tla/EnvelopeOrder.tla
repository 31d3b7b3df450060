--------------------------- MODULE EnvelopeOrder ---------------------------
(***************************************************************************)
(* The causal order of one group's envelopes on the decentralized network  *)
(* (crates/xmtp_api_d14n/src/protocol/order.rs and sort/causal.rs), the    *)
(* icebox that keeps envelopes whose dependency has not come               *)
(* (xmtp_db/src/encrypted_store/icebox.rs), and the two readers that share *)
(* it: the sync of the group, which moves the cursors, and a subscription, *)
(* which keeps a clock of its own.                                         *)
(*                                                                         *)
(* Every originator numbers its envelopes.  Commits have an originator of  *)
(* their own; an envelope depends on the last commit its sender had        *)
(* processed (find_dependant_commits), 0 when there is none.  A node holds *)
(* a prefix of what each originator sequenced.                             *)
(***************************************************************************)
EXTENDS Integers, FiniteSetsExt, SequencesExt

CONSTANTS
  Origs,       \* the originators of application messages
  Mls,         \* Originators::MLS_COMMITS
  Page,        \* MAX_PAGE_SIZE
  Monotone,    \* whether the senders behind one originator are at one epoch
  MaxCommits,  \* bound on the commits
  MaxMessages, \* bound on the messages of an originator
  MaxTime,     \* bound on the originators' clocks
  MaxStreams,  \* bound on the subscriptions opened, one after the other
  MaxSyncs,    \* bound on the syncs
  MaxRounds    \* bound on the resolutions within one sync

All == Origs \union {Mls}

ASSUME OrderAssumption ==
  /\ IsFiniteSet(Origs) /\ Mls \notin Origs /\ Page \in Nat \ {0} /\ Monotone \in BOOLEAN
  /\ {MaxCommits, MaxMessages, MaxTime, MaxStreams, MaxSyncs, MaxRounds} \subseteq Nat

VARIABLES
  log,      \* log[o]: what originator o has sequenced: [dep, time]
  node,     \* node[o]: how many of these the node we talk to has
  cursor,   \* cursor[o]: refresh_state of the group for originator o
  icebox,   \* the envelopes in the icebox
  done,     \* auxiliary: the envelopes the sync has processed, in order
  job,      \* the sync under way
  stream,   \* the subscription: its clock, its position, what it handed out
  used      \* syncs and subscriptions so far, whether one has asked the resolver

vars == <<log, node, cursor, icebox, done, job, stream, used>>

\* An envelope is named by its cursor <<originator, sequence id>>.
Dep(e) == log[e[1]][e[2]].dep
Time(e) == log[e[1]][e[2]].time
IsCommit(e) == e[1] = Mls

Idle == [phase |-> "idle", envelopes |-> << >>, missing |-> << >>, clock |-> << >>,
         rounds |-> 0]

Init ==
  /\ log = [o \in All |-> << >>]
  /\ node = [o \in All |-> 0]
  /\ cursor = [o \in All |-> 0]
  /\ icebox = {}
  /\ done = << >>
  /\ job = Idle
  /\ stream = [open |-> FALSE, base |-> cursor, clock |-> cursor, at |-> cursor, out |-> << >>]
  /\ used = [syncs |-> 0, streams |-> 0, resolved |-> FALSE]

----------------------------------------------------------------------------
(* The network *)

Bound(o) == IF o = Mls THEN MaxCommits ELSE MaxMessages

LastOf(o, f(_), zero) == IF log[o] = << >> THEN zero ELSE f(Last(log[o]))

\* Originators' clocks are not synchronised, but each of them goes forward.
Publish(o) ==
  /\ Len(log[o]) < Bound(o)
  /\ \E dep \in 0..Len(log[Mls]), time \in 1..MaxTime :
       /\ time > LastOf(o, LAMBDA e : e.time, 0)
       /\ Monotone => dep >= LastOf(o, LAMBDA e : e.dep, 0)
       /\ log' = [log EXCEPT ![o] = Append(@, [dep |-> dep, time |-> time])]
  /\ UNCHANGED <<node, cursor, icebox, done, job, stream, used>>

Replicate(o) ==
  /\ node[o] < Len(log[o])
  /\ node' = [node EXCEPT ![o] = @ + 1]
  /\ UNCHANGED <<log, cursor, icebox, done, job, stream, used>>

\* The node's envelopes after a vector of cursors.
After(clock) ==
  {e \in UNION {{o} \X (1..node[o]) : o \in All} : e[2] > clock[e[1]]}

----------------------------------------------------------------------------
(* Ordering *)

\* Mutant: off by one.
DominatesNext(clock, e) == Dep(e) <= clock[Mls] + 1

\* VectorClock::dominates, for the one dependency an envelope has.
Dominates(clock, e) == Dep(e) <= clock[Mls]

Apply(clock, e) == [clock EXCEPT ![e[1]] = Max({@, e[2]})]

\* The elements of E one after the other, none after one it must precede.
Orders(E, before(_, _)) ==
  {f \in [1..Cardinality(E) -> E] :
     /\ Range(f) = E
     /\ \A j, k \in DOMAIN f : j < k => before(f[j], f[k])}

\* TimestampSort::sort: an unstable sort, equal timestamps come in any order.
TimestampSort(E) == Orders(E, LAMBDA d, e : Time(d) <= Time(e))

\* recover_newly_valid: what the clock dominates by now is taken out of the
\* missed envelopes.
Extract(missed, clock) ==
  LET split[n \in 0..Len(missed)] ==
        IF n = 0 THEN [valid |-> << >>, waits |-> << >>]
        ELSE IF Dominates(clock, missed[n])
        THEN [split[n - 1] EXCEPT !.valid = Append(@, missed[n])]
        ELSE [split[n - 1] EXCEPT !.waits = Append(@, missed[n])]
  IN split[Len(missed)]

\* Mutant: what has become valid is put at the end of the list.
SortStepAtEnd(s) ==
  LET e == Head(s.rest)
      now == Apply(s.clock, e)
      split == Extract(s.missed, now)
  IN IF s.rest = << >> THEN s
     ELSE IF Dominates(s.clock, e)
     THEN [sorted |-> Append(s.sorted, e), rest |-> Tail(s.rest) \o split.valid,
           missed |-> split.waits, clock |-> now]
     ELSE [s EXCEPT !.rest = Tail(@), !.missed = Append(@, e)]

\* One turn of the loop: the envelope is kept, and what it makes valid comes
\* right after it; or it is missed.
SortStep(s) ==
  LET e == Head(s.rest)
      now == Apply(s.clock, e)
      split == Extract(s.missed, now)
  IN IF s.rest = << >> THEN s
     ELSE IF Dominates(s.clock, e)
     THEN [sorted |-> Append(s.sorted, e), rest |-> split.valid \o Tail(s.rest),
           missed |-> split.waits, clock |-> now]
     ELSE [s EXCEPT !.rest = Tail(@), !.missed = Append(@, e)]

\* CausalSort::sort.  An envelope is missed once at most.
Causal(envelopes, clock) ==
  LET after[n \in 0..(2 * Len(envelopes))] ==
        IF n = 0 THEN [sorted |-> << >>, rest |-> envelopes, missed |-> << >>, clock |-> clock]
        ELSE SortStep(after[n - 1])
  IN after[2 * Len(envelopes)]

\* Mutant: nothing is taken out of the icebox.
NoDependents(E) == {}

\* future_dependents: what depends on the envelopes, directly or through
\* others in the icebox.
FutureDependents(E) ==
  LET start == {e[2] : e \in {d \in E : IsCommit(d)}}
      chain[s \in 0..MaxCommits] ==
        s # 0 /\ (s \in start \/ (<<Mls, s>> \in icebox /\ chain[Dep(<<Mls, s>>)]))
  IN {e \in icebox : chain[Dep(e)]}

\* recover_lost_children: those that are not in the batch yet.
LostChildren(E) == FutureDependents(E) \ E

\* prune_icebox: entries at or below the cursor count as processed.
Prune(I, c) == {e \in I : e[2] > c[e[1]]}

----------------------------------------------------------------------------
(* The sync: query_group_messages, order, process_messages. *)

\* A page holds the first envelopes after the cursors, whatever the order
\* among originators.
Pages ==
  LET rest == After(cursor)
  IN {P \in SUBSET rest :
        /\ Cardinality(P) = Min({Page, Cardinality(rest)})
        /\ \A e \in P, d \in rest : d[1] = e[1] /\ d[2] < e[2] => d \in P}

\* The first pass: children, timestamps, causal order.
Sorted(s) == IF s.missed = << >> THEN "process" ELSE "resolve"

SyncQuery ==
  /\ job.phase = "idle" /\ used.syncs < MaxSyncs
  /\ used' = [used EXCEPT !.syncs = @ + 1]
  /\ \E P \in Pages : \E list \in TimestampSort(P \union LostChildren(P)) :
       LET s == Causal(list, cursor)
       IN job' = [Idle EXCEPT !.phase = Sorted(s), !.envelopes = s.sorted,
                              !.missing = s.missed, !.clock = s.clock]
  /\ UNCHANGED <<log, node, cursor, icebox, done, stream>>

\* required_dependencies: the commits that are missing.
Required(j) == {Dep(e) : e \in ToSet(j.missing)}

\* lcc: what is asked for is after the least of the missing dependencies,
\* and everything of the originators that are not mentioned.
LeastCursor(j) == [o \in All |-> IF o = Mls THEN Min(Required(j)) ELSE 0]

\* A node lists the envelopes of each originator in their order, and the
\* icebox's table has no order.
Listed(E) == Orders(E, LAMBDA d, e : d[1] = e[1] => d[2] <= e[2])
Unordered(E) == Orders(E, LAMBDA d, e : TRUE)

\* NetworkBackoffResolver::resolve, and the rest of the loop of order: the
\* envelopes found and the missing ones go to the end of the list, which is
\* sorted again; if nothing was found the missing ones are iced.
SyncResolve ==
  LET found == After(LeastCursor(job))
  IN /\ job.phase = "resolve" /\ job.rounds < MaxRounds
     /\ IF found = {}
        THEN /\ icebox' = icebox \union ToSet(job.missing)
             /\ job' = [job EXCEPT !.phase = "process", !.missing = << >>]
        ELSE /\ \E resolved \in Listed(found) :
                  LET again == job.envelopes \o resolved \o job.missing
                  IN \E children \in Unordered(LostChildren(ToSet(again))) :
                       LET s == Causal(again \o children, job.clock)
                       IN job' = [job EXCEPT !.phase = Sorted(s), !.envelopes = s.sorted,
                                    !.missing = s.missed, !.clock = s.clock,
                                    !.rounds = @ + 1]
             /\ UNCHANGED icebox
     /\ used' = [used EXCEPT !.resolved = TRUE]
     /\ UNCHANGED <<log, node, cursor, done, stream>>

\* A failed query is a failed sync.
SyncFails ==
  /\ job.phase = "resolve"
  /\ job' = Idle
  /\ UNCHANGED <<log, node, cursor, icebox, done, stream, used>>

\* process_message: what is not past the cursor counts as processed; the
\* rest moves the cursor, and the icebox is pruned.
SyncProcess ==
  LET e == Head(job.envelopes)
  IN /\ job.phase = "process" /\ job.envelopes # << >>
     /\ job' = [job EXCEPT !.envelopes = Tail(@)]
     /\ IF e[2] <= cursor[e[1]]
        THEN UNCHANGED <<cursor, done, icebox>>
        ELSE /\ cursor' = [cursor EXCEPT ![e[1]] = e[2]]
             /\ done' = Append(done, e)
             /\ icebox' = Prune(icebox, cursor')
     /\ UNCHANGED <<log, node, stream, used>>

SyncEnds ==
  /\ job.phase = "process" /\ job.envelopes = << >>
  /\ job' = Idle
  /\ UNCHANGED <<log, node, cursor, icebox, done, stream, used>>

----------------------------------------------------------------------------
(* The subscription: OrderedStream with order_offline. *)

Subscribe ==
  /\ used.streams < MaxStreams
  /\ used' = [used EXCEPT !.streams = @ + 1]
  /\ stream' = [open |-> TRUE, base |-> cursor, clock |-> cursor, at |-> cursor,
                out |-> << >>]
  /\ UNCHANGED <<log, node, cursor, icebox, done, job>>

\* The node sends the next envelopes of some originators in one frame.  What
\* is handed out is processed, which prunes the icebox.
StreamFrame ==
  /\ stream.open
  /\ \E to \in [All -> 0..Max({MaxCommits, MaxMessages})] :
       /\ \A o \in All : to[o] \in stream.at[o]..node[o]
       /\ to # stream.at
       /\ LET F == {e \in After(stream.at) : e[2] <= to[e[1]]}
          IN \E list \in TimestampSort(F \union LostChildren(F)) :
               LET s == Causal(list, stream.clock)
                   iced == icebox \union ToSet(s.missed)
                   fresh == \E e \in ToSet(s.sorted) : ~IsCommit(e) /\ e[2] > cursor[e[1]]
               IN /\ stream' = [stream EXCEPT !.clock = s.clock, !.at = to,
                                              !.out = @ \o s.sorted]
                  /\ icebox' = IF fresh THEN Prune(iced, cursor) ELSE iced
  /\ UNCHANGED <<log, node, cursor, done, job, used>>

----------------------------------------------------------------------------
Next ==
  \/ \E o \in All : Publish(o) \/ Replicate(o)
  \/ SyncQuery \/ SyncResolve \/ SyncFails \/ SyncProcess \/ SyncEnds
  \/ Subscribe \/ StreamFrame

Spec == Init /\ [][Next]_vars

----------------------------------------------------------------------------
(* Properties *)

\* Commit c has been processed, or, once the resolver has been asked, a newer
\* one in its place: the resolver queries from the missing commit on, does not
\* get that one, and a newer commit it does get takes the cursor past it.
Covered(c, processed) ==
  \E e \in processed : IsCommit(e) /\ (e[2] = c \/ (used.resolved /\ e[2] > c))

\* The cursors tell the truth: whatever is at or below the cursor of its
\* originator has been processed.  (process_message skips the rest, and
\* prune_icebox deletes it.)
NothingSkipped ==
  /\ \A o \in Origs : \A s \in 1..cursor[o] : <<o, s>> \in ToSet(done)
  /\ \A s \in 1..cursor[Mls] : Covered(s, ToSet(done))

\* Every envelope is processed after the commit it depends on, whatever the
\* interleaving of originators, pages, resolved and recovered envelopes.
InCausalOrder ==
  \A k \in DOMAIN done : Dep(done[k]) = 0
    \/ Covered(Dep(done[k]), ToSet(SubSeq(done, 1, k - 1)))

\* The same for what a subscription hands out, from where it started.
StreamCausal ==
  \A k \in DOMAIN stream.out : Dep(stream.out[k]) <= stream.base[Mls]
    \/ \E i \in 1..(k - 1) : stream.out[i] = <<Mls, Dep(stream.out[k])>>

\* A subscription that has been sent everything has handed out everything
\* after its start whose dependency is on the node: the icebox keeps an
\* envelope until the dependency is streamed.  (Until a sync runs, that is:
\* a sync prunes what it has processed from the icebox, and the subscription
\* is then without it.)
StreamComplete ==
  (stream.open /\ stream.at = node /\ used.syncs = 0) =>
    \A e \in After(stream.base) : Dep(e) <= node[Mls] => e \in ToSet(stream.out)
=============================================================================
