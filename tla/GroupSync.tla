----------------------------- MODULE GroupSync -----------------------------
(***************************************************************************)
(* How the installations of one MLS group publish intents and apply the    *)
(* messages the delivery service orders                                    *)
(* (crates/xmtp_mls/src/groups/mls_sync.rs).                               *)
(*                                                                         *)
(* One client's sync runs under the group's mutex, one step at a time; the *)
(* steps of different clients, the arrival of payloads at the delivery     *)
(* service and the client's own streams interleave freely.  A commit can   *)
(* be applied only to the state it was made from (GroupState).             *)
(***************************************************************************)
EXTENDS IntentStore, GroupState

CONSTANTS
  Clients,       \* installations that are members of the group
  Creator,       \* the one that created it; the others were welcomed
  Ops,           \* what a client may ask for
  MaxVersion,    \* newest library version; clients start at version 1
  MaxPast,       \* MAX_PAST_EPOCHS
  MaxAttempts,   \* MAX_INTENT_PUBLISH_ATTEMPTS
  Streaming,     \* whether the application has a message stream open
  FaultKinds,    \* the failures the environment may inject
  MaxFaults,     \* bound: number of failures
  Quota          \* bound: Quota[c] intents are queued by client c

Faults ==
  {"publish",    \* building a payload fails (network or storage)
   "send",       \* send_group_messages fails, nothing was stored
   "dup",        \* the response of a send is lost and the request retried
   "ack",        \* ... and every retry fails as well
   "query",      \* query_group_messages fails
   "retry",      \* processing a message meets a retryable error
   "welcome",    \* sending welcomes fails
   "crash"}      \* the process dies; the database survives

ASSUME ConstantsAssumption ==
  /\ Creator \in Clients
  /\ Ops \subseteq [kind : IntentKinds, field : STRING, value : Nat,
                    expected : Int]
  /\ MaxVersion \in Nat \ {0} /\ MaxPast \in Nat /\ MaxAttempts \in Nat \ {0}
  /\ Streaming \in BOOLEAN
  /\ FaultKinds \subseteq Faults
  /\ MaxFaults \in Nat /\ Quota \in [Clients -> Nat]

(* The minimum version is a metadata field like the others. *)
ASSUME VersionAssumption ==
  \A op \in Ops : op.field = "min_version" => op.kind = "MetadataUpdate"

VARIABLES
  log,      \* the group's topic: envelopes, by sequence id
  fresh,    \* the next payload hash (encryption is randomised)
  hist,     \* hist[c]: commits merged into c's MLS group
  cursor,   \* cursor[c]: refresh_state rows, one for commits, one for the rest
  intents,  \* intents[c]: rows of group_intents, by id
  inbox,    \* inbox[c]: ids of the application messages c has stored
  clog,     \* clog[c]: local_commit_log
  paused,   \* paused[c]: version the group waits for, 0 when not paused
  version,  \* version[c]: library version c runs
  welcomes, \* welcomes sent: the intent and the sequence id they carry
  pc,       \* pc[c]: where c's sync of the group is (it holds the group mutex)
  todo,     \* todo[c]: ids or sequence ids left in the loop c is in
  faults    \* failures so far

vars == <<log, fresh, hist, cursor, intents, inbox, clog, paused, version,
          welcomes, pc, todo, faults>>

-----------------------------------------------------------------------------
(* Data *)

Commit == [id : Nat, src : Clients \X Nat, op : Ops]

(***************************************************************************)
(* `after` is auxiliary, and no part of the wire format: the state of a    *)
(* member that applied every envelope up to this one.  The first commit    *)
(* made from an epoch wins it.                                             *)
(***************************************************************************)
Envelope ==
  [id : Nat, src : Clients \X Nat, op : Ops, base : Seq(Commit),
   after : Seq(Commit)]

Row ==
  [op : Ops, state : IntentState, hash : Nat, base : Seq(Commit),
   post : BOOLEAN, seq : Nat, attempts : Nat]

LogEntry ==
  [kind : {"GroupCreation", "Welcome", "Commit", "Failed"}, seq : Nat,
   at : Seq(Commit)]

IsCommit(env) == env.op.kind \in CommitKinds

CommitOf(env) == [id |-> env.id, src |-> env.src, op |-> env.op]

Sender(env) == env.src[1]

(* The state the group's topic prescribes after its first k envelopes. *)
Canon(k) == IF k = 0 THEN << >> ELSE log[k].after

Chain == Canon(Len(log))

CursorOf(c, pos) ==
  IF IsCommit(log[pos]) THEN cursor[c].commit ELSE cursor[c].app

(* update_cursor: an upsert that only ever raises the sequence id. *)
UpdateCursor(cur, pos) ==
  IF IsCommit(log[pos])
  THEN [cur EXCEPT !.commit = IF cur.commit < pos THEN pos ELSE cur.commit]
  ELSE [cur EXCEPT !.app = IF cur.app < pos THEN pos ELSE cur.app]

(* Where a query of the topic starts: the larger of the two cursors. *)
HighWater(c) ==
  IF cursor[c].commit < cursor[c].app THEN cursor[c].app ELSE cursor[c].commit

-----------------------------------------------------------------------------
Init ==
  /\ log = << >> /\ fresh = 1 /\ faults = 0 /\ welcomes = {}
  /\ hist = [c \in Clients |-> << >>]
  /\ cursor = [c \in Clients |-> [commit |-> 0, app |-> 0]]
  /\ intents = [c \in Clients |-> << >>]
  /\ inbox = [c \in Clients |-> {}]
  /\ clog = [c \in Clients |->
               << [kind |-> IF c = Creator THEN "GroupCreation" ELSE "Welcome",
                   seq |-> 0, at |-> << >>] >>]
  /\ paused = [c \in Clients |-> 0]
  /\ version \in [Clients -> 1..MaxVersion]
  /\ pc = [c \in Clients |-> "idle"]
  /\ todo = [c \in Clients |-> {}]

-----------------------------------------------------------------------------
(* Queueing *)

SetIntent(c, i, row) == intents' = [intents EXCEPT ![c][i] = row]

Fault(kind) ==
  kind \in FaultKinds /\ faults < MaxFaults /\ faults' = faults + 1

(* Goto(c, label, work): c's sync moves on to another of its loops. *)
Goto(c, label, work) ==
  /\ pc' = [pc EXCEPT ![c] = label] /\ todo' = [todo EXCEPT ![c] = work]

(* ... or past that loop, when there is no work left in it. *)
Loop(c, label, work, next) == Goto(c, IF work = {} THEN next ELSE label, work)

(* Loops go through their work in ascending order. *)
IsNext(c, i) == i \in todo[c] /\ \A j \in todo[c] : i <= j

(***************************************************************************)
(* A paused group refuses everything but an optimistic message, and nobody *)
(* may raise the group's minimum version above the one they run.           *)
(***************************************************************************)
MayQueue(c, op) ==
  /\ op.kind # "SendMessage" => paused[c] = 0
  /\ op.field = "min_version" => op.value <= version[c]

Queue(c, op) ==
  /\ Len(intents[c]) < Quota[c]
  /\ MayQueue(c, op)
  /\ intents' = [intents EXCEPT ![c] = Append(@, NewIntent(op))]
  /\ UNCHANGED <<log, fresh, hist, cursor, inbox, clog, paused, version,
                 welcomes, pc, todo, faults>>

(* A message queued when the group's keys are due for rotation. *)
QueueWithKeyUpdate(c, op, key) ==
  /\ op.kind = "SendMessage" /\ key.kind = "KeyUpdate"
  /\ Len(intents[c]) + 1 < Quota[c]
  /\ intents' = [intents EXCEPT ![c] = @ \o <<NewIntent(key), NewIntent(op)>>]
  /\ UNCHANGED <<log, fresh, hist, cursor, inbox, clog, paused, version,
                 welcomes, pc, todo, faults>>

-----------------------------------------------------------------------------
(* sync_with_conn: publish, then receive, then post-commit *)

(* Mutant: a group waits for a version newer than the one it names. *)
SyncStartStrict(c) ==
  /\ pc[c] = "idle"
  /\ paused[c] = 0 \/ paused[c] < version[c]
  /\ paused' = [paused EXCEPT ![c] = 0]
  /\ Loop(c, "publish", FindIntents(intents[c], "ToPublish"), "receive")
  /\ UNCHANGED <<log, fresh, hist, cursor, intents, inbox, clog, version,
                 welcomes, faults>>

(***************************************************************************)
(* The sync of a paused group does nothing until the library is new enough *)
(* for the version the group waits for.                                    *)
(***************************************************************************)
SyncStart(c) ==
  /\ pc[c] = "idle"
  /\ paused[c] <= version[c]
  /\ paused' = [paused EXCEPT ![c] = 0]
  /\ Loop(c, "publish", FindIntents(intents[c], "ToPublish"), "receive")
  /\ UNCHANGED <<log, fresh, hist, cursor, intents, inbox, clog, version,
                 welcomes, faults>>

(* One more failed attempt, the last of which fails the intent. *)
LastAttempt(row) == row.attempts + 1 >= MaxAttempts

(* An error anywhere in publish_intents ends it; the sync goes on. *)
PublishError(c, i) ==
  /\ pc[c] = "publish" /\ IsNext(c, i)
  /\ Fault("publish")
  /\ LET row == intents[c][i]
     IN SetIntent(c, i, IF LastAttempt(row) THEN SetError(row)
                        ELSE IncrementAttempts(row))
  /\ Goto(c, "receive", {})
  /\ UNCHANGED <<log, fresh, hist, cursor, inbox, clog, paused, version,
                 welcomes>>

(* Mutant: the guard is checked when queueing only. *)
NothingToPublishUnguarded(op, h) == NoChange(op, h)

NothingToPublish(op, h) == GuardFails(op, h) \/ NoChange(op, h)

(* Ok(None): superseded by its guard, or nothing to do. *)
PublishNothing(c, i) ==
  LET row == intents[c][i]
  IN /\ pc[c] = "publish" /\ IsNext(c, i)
     /\ \/ GuardFails(row.op, hist[c]) /\ SetIntent(c, i, SetSuperseded(row))
        \/ NoChange(row.op, hist[c]) /\ SetIntent(c, i, SetProcessed(row))
     /\ Loop(c, "publish", todo[c] \ {i}, "receive")
     /\ UNCHANGED <<log, fresh, hist, cursor, inbox, clog, paused, version,
                    welcomes, faults>>

(***************************************************************************)
(* The row is marked published, with the hash of the payload, before the   *)
(* payload is sent: its echo may arrive at any time after that.            *)
(***************************************************************************)
PublishIntent(c, i) ==
  LET row == intents[c][i]
  IN /\ pc[c] = "publish" /\ IsNext(c, i)
     /\ ~NothingToPublish(row.op, hist[c])
     /\ SetIntent(c, i, SetPublished(row, fresh,
                           row.op.kind = "UpdateGroupMembership", hist[c]))
     /\ fresh' = fresh + 1
     /\ pc' = [pc EXCEPT ![c] = "send"]
     /\ UNCHANGED <<log, hist, cursor, inbox, clog, paused, version,
                    welcomes, todo, faults>>

(* The delivery service appends the payload of c's intent i to the topic. *)
Deliver(c, i) ==
  LET row == intents[c][i]
      env == [id |-> row.hash, src |-> <<c, i>>, op |-> row.op,
              base |-> row.base]
      wins == row.op.kind \in CommitKinds /\ row.base = Chain
  IN log' = Append(log,
              [id |-> row.hash, src |-> <<c, i>>, op |-> row.op,
               base |-> row.base,
               after |-> IF wins THEN Append(Chain, CommitOf(env)) ELSE Chain])

(* At most one commit is published per sync. *)
SendOk(c, i) ==
  /\ pc[c] \in {"send", "resend"} /\ IsNext(c, i)
  /\ Deliver(c, i)
  /\ Loop(c, "publish", IF intents[c][i].op.kind \in CommitKinds THEN {}
                        ELSE todo[c] \ {i}, "receive")
  /\ UNCHANGED <<fresh, hist, cursor, intents, inbox, clog, paused, version,
                 welcomes, faults>>

(* The payload is stored but the caller cannot tell, and sends it again. *)
SendUnacknowledged(c, i) ==
  /\ pc[c] = "send" /\ IsNext(c, i)
  /\ Fault("dup")
  /\ Deliver(c, i)
  /\ pc' = [pc EXCEPT ![c] = "resend"]
  /\ UNCHANGED <<fresh, hist, cursor, intents, inbox, clog, paused, version,
                 welcomes, todo>>

(***************************************************************************)
(* send_group_messages returns an error: the row goes back to ToPublish,   *)
(* and its hash is wiped, unless this was the last attempt.                *)
(***************************************************************************)
SendFailed(c, i) ==
  /\ pc[c] \in {"send", "resend"} /\ IsNext(c, i)
  /\ Fault(IF pc[c] = "send" THEN "send" ELSE "ack")
  /\ LET row == intents[c][i]
     IN SetIntent(c, i, IF LastAttempt(row) THEN SetError(row)
                        ELSE SetToPublish(IncrementAttempts(row)))
  /\ Goto(c, "receive", {})
  /\ UNCHANGED <<log, fresh, hist, cursor, inbox, clog, paused, version,
                 welcomes>>

-----------------------------------------------------------------------------
(* Receiving *)

Receive(c) ==
  /\ pc[c] = "receive"
  /\ Goto(c, "process", (HighWater(c) + 1)..Len(log))
  /\ UNCHANGED <<log, fresh, hist, cursor, intents, inbox, clog, paused,
                 version, welcomes, faults>>

(* The sync goes on to post-commit whether or not it could query. *)
ReceiveFailed(c) ==
  /\ pc[c] = "receive"
  /\ Fault("query")
  /\ Goto(c, "process", {})
  /\ UNCHANGED <<log, fresh, hist, cursor, intents, inbox, clog, paused,
                 version, welcomes>>

FutureEpoch(env, h) == Epoch(env.base) > Epoch(h)

OldEpoch(env, h) == Epoch(env.base) + MaxPast <= Epoch(h)

(* Mutants: no check for commits; no check that a message is recent. *)
StaleMessagesOnly(env, h) ==
  ~IsCommit(env) /\ (OldEpoch(env, h) \/ FutureEpoch(env, h))

StaleCommitsOnly(env, h) == IsCommit(env) /\ Epoch(env.base) # Epoch(h)

(***************************************************************************)
(* The epoch check on c's own message.  A commit has to be of the epoch    *)
(* the group is in; a message may be at most MaxPast - 1 epochs old.       *)
(***************************************************************************)
Stale(env, h) ==
  IF IsCommit(env) THEN Epoch(env.base) # Epoch(h)
  ELSE OldEpoch(env, h) \/ FutureEpoch(env, h)

(* OpenMLS can stage the commit, or decrypt the message, in state h. *)
Readable(env, h) ==
  IF IsCommit(env) THEN env.base = h
  ELSE Prefix(env.base, h) /\ Epoch(h) - Epoch(env.base) <= MaxPast

(* Mutant: the version check is off by one. *)
TooNewByTwo(c, env) ==
  /\ IsCommit(env) /\ env.op.field = "min_version"
  /\ env.op.value > version[c] + 1

(* ProtocolVersionTooLow: the commit asks for a version newer than c's. *)
TooNew(c, env) ==
  /\ IsCommit(env) /\ env.op.field = "min_version"
  /\ env.op.value > version[c]

(* Mutant: the row's state is not looked at. *)
ResolvedAnyState(row, env, h, pos) ==
  IF Stale(env, h) THEN SetToPublish(row) ELSE SetCommitted(row, pos)

(* What becomes of c's row when the payload of that row comes back. *)
Resolved(row, env, h, pos) ==
  IF ~IsPublished(row) THEN row
  ELSE IF Stale(env, h) THEN SetToPublish(row)
  ELSE SetCommitted(row, pos)

Applies(row, env, h) == IsPublished(row) /\ ~Stale(env, h)

(* Mutant: the entry is made before the merge. *)
MergeLoggedEarly(c, env, pos) ==
  /\ hist' = [hist EXCEPT ![c] = Append(@, CommitOf(env))]
  /\ clog' = [clog EXCEPT ![c] =
                Append(@, [kind |-> "Commit", seq |-> pos, at |-> hist[c]])]

(***************************************************************************)
(* merge_staged_commit_logged and mark_failed_commit_logged.  A failure is *)
(* not recorded while the welcome is the latest entry and the commit is of *)
(* an epoch that is already past.                                          *)
(***************************************************************************)
Merge(c, env, pos) ==
  LET h == Append(hist[c], CommitOf(env))
  IN /\ hist' = [hist EXCEPT ![c] = h]
     /\ clog' = [clog EXCEPT ![c] =
                   Append(@, [kind |-> "Commit", seq |-> pos, at |-> h])]

MarkFailed(c, env, pos) ==
  /\ UNCHANGED hist
  /\ clog' = [clog EXCEPT ![c] =
       IF \/ ~IsCommit(env)
          \/ /\ Epoch(env.base) <= Epoch(hist[c])
             /\ clog[c][Len(clog[c])].kind = "Welcome"
       THEN @ ELSE Append(@, [kind |-> "Failed", seq |-> pos, at |-> hist[c]])]

(* process_message of the next envelope of the batch. *)
Processing(c, pos) ==
  /\ pc[c] = "process" /\ IsNext(c, pos)
  /\ CursorOf(c, pos) < pos

(* The envelope is dealt with for good. *)
Handled(c, pos) ==
  /\ cursor' = [cursor EXCEPT ![c] = UpdateCursor(@, pos)]
  /\ todo' = [todo EXCEPT ![c] = @ \ {pos}]

(***************************************************************************)
(* The payload of one of c's own rows comes back.  Every outcome moves the *)
(* cursor: either in the transaction, or, when the row cannot make the     *)
(* transition and the transaction is rolled back, in post_process_message. *)
(***************************************************************************)
ProcessOwn(c, pos, i) ==
  LET env == log[pos]
      row == intents[c][i]
  IN /\ Processing(c, pos)
     /\ i \in FindByHash(intents[c], env.id)
     /\ SetIntent(c, i, Resolved(row, env, hist[c], pos))
     /\ IF IsCommit(env) /\ Applies(row, env, hist[c])
        THEN Merge(c, env, pos)
        ELSE IF Applies(row, env, hist[c]) THEN UNCHANGED <<hist, clog>>
        ELSE MarkFailed(c, env, pos)
     /\ Handled(c, pos)
     /\ UNCHANGED <<log, fresh, inbox, paused, version, welcomes, pc,
                    faults>>

NotOwn(c, env) == FindByHash(intents[c], env.id) = {}

MergeExternal(c, pos) ==
  LET env == log[pos]
  IN /\ Processing(c, pos) /\ NotOwn(c, env)
     /\ IsCommit(env) /\ Readable(env, hist[c]) /\ Sender(env) # c
     /\ ~TooNew(c, env)
     /\ Merge(c, env, pos)
     /\ Handled(c, pos)
     /\ UNCHANGED <<log, fresh, intents, inbox, paused, version,
                    welcomes, pc, faults>>

StoreExternal(c, pos) ==
  LET env == log[pos]
  IN /\ Processing(c, pos) /\ NotOwn(c, env)
     /\ ~IsCommit(env) /\ Readable(env, hist[c]) /\ Sender(env) # c
     /\ inbox' = [inbox EXCEPT ![c] = @ \cup {env.src}]
     /\ Handled(c, pos)
     /\ UNCHANGED <<log, fresh, hist, intents, clog, paused, version,
                    welcomes, pc, faults>>

(* OwnPrivateMessage: c wrote it but no row has its hash. *)
Skips(c, pos) ==
  LET env == log[pos]
  IN /\ Processing(c, pos) /\ NotOwn(c, env)
     /\ Readable(env, hist[c]) /\ Sender(env) = c

SkipOwn(c, pos) ==
  /\ Skips(c, pos)
  /\ Handled(c, pos)
  /\ UNCHANGED <<log, fresh, hist, intents, inbox, clog, paused, version,
                 welcomes, pc, faults>>

(***************************************************************************)
(* A non-retryable error moves the cursor too.  It does not mark the group *)
(* as possibly forked: the detector compares with the bare OpenMLS error,  *)
(* and an external envelope's error arrives wrapped.                       *)
(***************************************************************************)
RejectExternal(c, pos) ==
  LET env == log[pos]
  IN /\ Processing(c, pos) /\ NotOwn(c, env)
     /\ ~Readable(env, hist[c])
     /\ MarkFailed(c, env, pos)
     /\ Handled(c, pos)
     /\ UNCHANGED <<log, fresh, intents, inbox, paused, version, welcomes, pc,
                    faults>>

(* The group is paused before the commit, and the rest of the batch kept. *)
Pause(c, pos) ==
  LET env == log[pos]
  IN /\ Processing(c, pos) /\ NotOwn(c, env)
     /\ Readable(env, hist[c]) /\ Sender(env) # c /\ TooNew(c, env)
     /\ paused' = [paused EXCEPT ![c] = env.op.value]
     /\ todo' = [todo EXCEPT ![c] = {}]
     /\ UNCHANGED <<log, fresh, hist, cursor, intents, inbox, clog, version,
                    welcomes, pc, faults>>

(* Mutant: on to the next message after a retryable error. *)
RetryableErrorSkips(c, pos) ==
  /\ Processing(c, pos)
  /\ Fault("retry")
  /\ todo' = [todo EXCEPT ![c] = @ \ {pos}]
  /\ UNCHANGED <<log, fresh, hist, cursor, intents, inbox, clog, paused,
                 version, welcomes, pc>>

(* The transaction is rolled back and the rest of the batch abandoned. *)
RetryableError(c, pos) ==
  /\ Processing(c, pos)
  /\ Fault("retry")
  /\ todo' = [todo EXCEPT ![c] = {}]
  /\ UNCHANGED <<log, fresh, hist, cursor, intents, inbox, clog, paused,
                 version, welcomes, pc>>

-----------------------------------------------------------------------------
(* Post-commit *)

PostCommitStart(c) ==
  /\ pc[c] = "process" /\ todo[c] = {}
  /\ Loop(c, "post", FindIntents(intents[c], "Committed"), "idle")
  /\ UNCHANGED <<log, fresh, hist, cursor, intents, inbox, clog, paused,
                 version, welcomes, faults>>

SendWelcomes(c, i) ==
  /\ pc[c] = "post" /\ IsNext(c, i)
  /\ intents[c][i].post
  /\ welcomes' = welcomes \cup {[src |-> <<c, i>>, seq |-> intents[c][i].seq]}
  /\ pc' = [pc EXCEPT ![c] = "posted"]
  /\ UNCHANGED <<log, fresh, hist, cursor, intents, inbox, clog, paused,
                 version, todo, faults>>

(* The error ends post_commit: this row and the later ones stay Committed. *)
SendWelcomesFailed(c, i) ==
  /\ pc[c] = "post" /\ IsNext(c, i)
  /\ intents[c][i].post
  /\ Fault("welcome")
  /\ Goto(c, "idle", {})
  /\ UNCHANGED <<log, fresh, hist, cursor, intents, inbox, clog, paused,
                 version, welcomes>>

FinishIntent(c, i) ==
  /\ pc[c] \in {"post", "posted"} /\ IsNext(c, i)
  /\ pc[c] = "posted" \/ ~intents[c][i].post
  /\ SetIntent(c, i, SetProcessed(intents[c][i]))
  /\ Loop(c, "post", todo[c] \ {i}, "idle")
  /\ UNCHANGED <<log, fresh, hist, cursor, inbox, clog, paused, version,
                 welcomes, faults>>

-----------------------------------------------------------------------------
(* Streams: one envelope at a time, in any order, concurrent with the sync *)

(***************************************************************************)
(* process_message with trust_message_order = FALSE.  It waits for the     *)
(* commit lock, which publish_intents holds, never moves a cursor, and     *)
(* refuses commits: for those the stream falls back to a sync.             *)
(***************************************************************************)
Streamable(c, pos) ==
  /\ Streaming
  /\ pc[c] \notin {"publish", "send", "resend"}
  /\ ~IsCommit(log[pos]) /\ CursorOf(c, pos) < pos

StreamOwn(c, pos, i) ==
  LET env == log[pos]
      row == intents[c][i]
  IN /\ Streamable(c, pos)
     /\ i \in FindByHash(intents[c], env.id) /\ IsPublished(row)
     /\ SetIntent(c, i, Resolved(row, env, hist[c], pos))
     /\ UNCHANGED <<log, fresh, hist, cursor, inbox, clog, paused, version,
                    welcomes, pc, todo, faults>>

StreamExternal(c, pos) ==
  LET env == log[pos]
  IN /\ Streamable(c, pos) /\ NotOwn(c, env)
     /\ Readable(env, hist[c]) /\ Sender(env) # c
     /\ inbox' = [inbox EXCEPT ![c] = @ \cup {env.src}]
     /\ UNCHANGED <<log, fresh, hist, cursor, intents, clog, paused, version,
                    welcomes, pc, todo, faults>>

-----------------------------------------------------------------------------
(* The process *)

Crash(c) ==
  /\ pc[c] # "idle"
  /\ Fault("crash")
  /\ Goto(c, "idle", {})
  /\ UNCHANGED <<log, fresh, hist, cursor, intents, inbox, clog, paused,
                 version, welcomes>>

Upgrade(c) ==
  /\ pc[c] = "idle" /\ version[c] < MaxVersion
  /\ version' = [version EXCEPT ![c] = @ + 1]
  /\ UNCHANGED <<log, fresh, hist, cursor, intents, inbox, clog, paused,
                 welcomes, pc, todo, faults>>

-----------------------------------------------------------------------------
ProcessStep(c, pos) ==
  \/ \E i \in DOMAIN intents[c] : ProcessOwn(c, pos, i)
  \/ MergeExternal(c, pos) \/ StoreExternal(c, pos) \/ SkipOwn(c, pos)
  \/ RejectExternal(c, pos) \/ Pause(c, pos)

SyncStep(c) ==
  \/ SyncStart(c) \/ Receive(c) \/ PostCommitStart(c)
  \/ \E i \in DOMAIN intents[c] :
       PublishNothing(c, i) \/ PublishIntent(c, i) \/ SendOk(c, i)
  \/ \E pos \in DOMAIN log : ProcessStep(c, pos)
  \/ \E i \in DOMAIN intents[c] : SendWelcomes(c, i) \/ FinishIntent(c, i)

FaultStep(c) ==
  \/ \E i \in DOMAIN intents[c] :
       \/ PublishError(c, i) \/ SendUnacknowledged(c, i) \/ SendFailed(c, i)
       \/ SendWelcomesFailed(c, i)
  \/ ReceiveFailed(c) \/ Crash(c)
  \/ \E pos \in DOMAIN log : RetryableError(c, pos)

StreamStep(c) ==
  \E pos \in DOMAIN log :
    \/ \E i \in DOMAIN intents[c] : StreamOwn(c, pos, i)
    \/ StreamExternal(c, pos)

QueueStep(c) ==
  \/ \E op \in Ops : Queue(c, op)
  \/ \E op, key \in Ops : QueueWithKeyUpdate(c, op, key)

Next ==
  \E c \in Clients :
    QueueStep(c) \/ SyncStep(c) \/ FaultStep(c) \/ StreamStep(c) \/ Upgrade(c)

Spec == Init /\ [][Next]_vars

(***************************************************************************)
(* The application keeps syncing the group and is eventually upgraded.     *)
(* Streams are not assumed to deliver anything.                            *)
(***************************************************************************)
Fairness ==
  \A c \in Clients : WF_vars(SyncStep(c)) /\ WF_vars(Upgrade(c))

FairSpec == Spec /\ Fairness

-----------------------------------------------------------------------------
(* Properties *)

(* Every variable has the type its comment gives it. *)
TypeOK ==
  /\ log \in Seq(Envelope) /\ fresh \in Nat /\ faults \in Nat
  /\ hist \in [Clients -> Seq(Commit)]
  /\ cursor \in [Clients -> [commit : Nat, app : Nat]]
  /\ intents \in [Clients -> Seq(Row)]
  /\ inbox \in [Clients -> SUBSET (Clients \X Nat)]
  /\ clog \in [Clients -> Seq(LogEntry)]
  /\ paused \in [Clients -> Nat] /\ version \in [Clients -> Nat]
  /\ welcomes \subseteq [src : Clients \X Nat, seq : Nat]
  /\ pc \in [Clients -> {"idle", "publish", "send", "resend", "receive",
                        "process", "post", "posted"}]
  /\ todo \in [Clients -> SUBSET Nat]

(***************************************************************************)
(* No fork: of two members' MLS states, one extends the other, however     *)
(* their commits raced, were resent, or were interrupted by a crash.       *)
(***************************************************************************)
NoFork ==
  \A c, d \in Clients : Prefix(hist[c], hist[d]) \/ Prefix(hist[d], hist[c])

(***************************************************************************)
(* A client is exactly where its cursors say it is: its MLS state is the   *)
(* one that applying the topic up to the higher cursor gives.  No commit   *)
(* below a cursor is skipped and none above it is applied, although        *)
(* commits and messages have cursors of their own and the query starts at  *)
(* the larger of them.                                                     *)
(***************************************************************************)
StateMatchesCursor == \A c \in Clients : hist[c] = Canon(HighWater(c))

(* The intent c numbered i has been merged into state h. *)
MergedIn(h, c, i) == \E k \in DOMAIN h : h[k].src = <<c, i>>

(***************************************************************************)
(* What sync_until_intent_resolved reports is true: a committed or         *)
(* processed commit intent is in the group's state (or asked for nothing), *)
(* and one that failed or was superseded is in nobody's state.             *)
(***************************************************************************)
ReportsAreTrue ==
  \A c \in Clients : \A i \in DOMAIN intents[c] :
    LET row == intents[c][i]
    IN row.op.kind \in CommitKinds =>
       /\ row.state = "Committed" => MergedIn(hist[c], c, i)
       /\ row.state = "Processed" =>
            MergedIn(hist[c], c, i) \/ NoChange(row.op, hist[c])
       /\ row.state \in {"Error", "Superseded"} => ~MergedIn(Chain, c, i)

(***************************************************************************)
(* Compare-and-swap: a guarded metadata update in the group's state        *)
(* replaced exactly the value its author expected, even when it lost an    *)
(* epoch race and was published again.                                     *)
(***************************************************************************)
NoLostUpdate ==
  \A c \in Clients : \A k \in DOMAIN hist[c] :
    ~GuardFails(hist[c][k].op, SubSeq(hist[c], 1, k - 1))

(***************************************************************************)
(* An added member gets its welcome, and the right one: a welcome goes out *)
(* only for a commit its sender has merged, with the sequence id of that   *)
(* commit, so that the new member starts reading right after the commit    *)
(* that added it; and the intent is done only after the welcomes went out, *)
(* whatever failed, crashed or was sent twice meanwhile.                   *)
(***************************************************************************)
WelcomeOfEveryAdd ==
  /\ \A w \in welcomes :
       /\ w.seq \in DOMAIN log
       /\ log[w.seq].src = w.src
       /\ log[w.seq].after = Append(Canon(w.seq - 1), CommitOf(log[w.seq]))
       /\ Prefix(log[w.seq].after, hist[w.src[1]])
  /\ \A c \in Clients : \A i \in DOMAIN intents[c] :
       LET row == intents[c][i]
       IN (/\ row.op.kind = "UpdateGroupMembership" /\ row.state = "Processed"
           /\ MergedIn(hist[c], c, i))
          => \E w \in welcomes : w.src = <<c, i>>

(***************************************************************************)
(* A message its sender's client shows as published has been stored by     *)
(* every member that has read past it: the sender's epoch check is at      *)
(* least as strict as what the others can decrypt.                         *)
(***************************************************************************)
PublishedIsReadable ==
  \A c, d \in Clients : \A i \in DOMAIN intents[c] :
    LET row == intents[c][i]
    IN (/\ c # d /\ row.op.kind = "SendMessage"
        /\ row.state \in {"Committed", "Processed"}
        /\ HighWater(d) >= row.seq)
       => <<c, i>> \in inbox[d]

(* The state after the last commit of a log that was applied. *)
LastApplied(entries) ==
  LET Applied == {k \in DOMAIN entries : entries[k].kind # "Failed"}
  IN entries[CHOOSE k \in Applied : \A j \in Applied : j <= k].at

(***************************************************************************)
(* Nothing that fork detection reads speaks of a fork that did not happen: *)
(* a commit log ends in the client's state with its entries in the order   *)
(* of the topic, and two clients that recorded a success for one commit    *)
(* recorded the same epoch.                                                *)
(***************************************************************************)
NoForkEvidence ==
  \A c \in Clients :
    /\ LastApplied(clog[c]) = hist[c]
    /\ \A j, k \in DOMAIN clog[c] : j < k => clog[c][j].seq < clog[c][k].seq
    /\ \A d \in Clients : \A j \in DOMAIN clog[c] : \A k \in DOMAIN clog[d] :
         (/\ clog[c][j].kind = "Commit" /\ clog[d][k].kind = "Commit"
          /\ clog[c][j].seq = clog[d][k].seq) => clog[c][j].at = clog[d][k].at

(***************************************************************************)
(* A client never takes part in an epoch whose rules ask for a newer       *)
(* library: it stops before the commit that raised the minimum version,    *)
(* whichever sync, retry or upgrade meets it.                              *)
(***************************************************************************)
RunsSupportedVersion ==
  \A c \in Clients : \A k \in DOMAIN hist[c] :
    hist[c][k].op.field = "min_version" => hist[c][k].op.value <= version[c]

(***************************************************************************)
(* Terminal intents stay as they are, although the setters of Processed    *)
(* and Error filter on no state, and a row is wiped for another attempt    *)
(* only if its payload did not take effect.                                *)
(***************************************************************************)
TerminalStays ==
  [][\A c \in Clients : \A i \in DOMAIN intents[c] :
       LET row == intents[c][i]
       IN /\ row.state \in Terminal => intents'[c][i] = row
          /\ (row.state = "Published" /\ intents'[c][i].state = "ToPublish")
               => ~\E k \in DOMAIN Chain : Chain[k].id = row.hash]_vars

(* Every queued intent is eventually resolved, one way or another. *)
IntentsResolve ==
  \A c \in Clients : \A i \in 1..Quota[c] :
    (i \in DOMAIN intents[c]) ~>
      (i \in DOMAIN intents[c] /\ intents[c][i].state \in Terminal)

(***************************************************************************)
(* The group is a ledger (GroupLedger): the commits that won their epoch,  *)
(* in the order of the topic, are its history, and what the clients have   *)
(* merged are the members' views of it.                                    *)
(***************************************************************************)
Ledger == INSTANCE GroupLedger
            WITH Members <- Clients, chain <- Chain, view <- hist

IsLedger == Ledger!Spec

(* Once nobody has anything left to do, all members are in one epoch. *)
Converges == \A c \in Clients : <>[](hist[c] = Chain)

=============================================================================
