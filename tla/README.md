# A TLA+ model of libxmtp

libxmtp is the client library of XMTP: end-to-end encrypted group messaging on
top of MLS (OpenMLS).  Each installation of a user keeps its groups in a local
database and talks to a delivery service that stores, per group, one ordered
topic of opaque payloads.  There is no server that understands a group: members
agree on its state only because each of them applies the same commits in the
same order.  The code that has to get this right under races, retries and
crashes is `crates/xmtp_mls/src/groups/mls_sync.rs`, and it is what this project
models first and proves most about.  Around it are the parts that bring a member
into a group, find out that states have diverged after all, carry and order the
envelopes, and do the work that must survive a restart; each has a module of its
own that is model-checked, and most have theorems.

Paths below are relative to `src/crates/` unless they start with `src/`.

## 1. Inventory

| # | Component | Where | State it keeps | Operations |
|---|---|---|---|---|
| A | Group intents table | `xmtp_db/.../group_intent.rs` | `group_intents` rows: kind, state, payload hash, staged commit, published epoch, post-commit action, attempts | insert; `set_group_intent_{published,committed,processed,to_publish,error,superseded}`; find by state or hash |
| B | Group sync | `xmtp_mls/src/groups/mls_sync.rs` | the MLS group (epoch, tree, secrets), `paused_for_version`, `maybe_forked`, stored messages | `sync_with_conn` = `publish_intents`, `receive`/`process_messages`, `post_commit`; `sync_until_intent_resolved` |
| C | Cursors | `xmtp_db/.../refresh_state.rs` | per group, kind and originator: the last sequence id | `update_cursor` (monotone upsert), `get_last_cursor_for_originator` |
| D | Local commit log writer | `xmtp_mls/src/groups/mls_ext/commit_log_storer.rs` | `local_commit_log` | log creation, welcome, merged and failed commits |
| E | Intent queueing | `xmtp_mls/src/groups/intents/queue.rs`, `groups/mod.rs` | rows of A | `queue`, key update before the first message, min-version and pause checks |
| F | Commit log worker, fork detection, readd | `groups/commit_log.rs`, `local_commit_log.rs`, `remote_commit_log.rs`, `readd_status.rs` | cursors over both logs, fork status, readd requests | publish, download, compare, request and answer readds |
| G | Envelope ordering and icebox (d14n) | `xmtp_api_d14n/src/protocol/order.rs`, `icebox.rs` | vector cursors, parked orphans | causal order, park, release |
| H | Welcome sync | `groups/welcome_sync.rs`, `groups/welcomes/`, `groups/mls_ext/decrypted_welcome.rs`, `subscriptions/process_welcome.rs` | welcome cursor, groups, tasks of welcome pointers | process a welcome once, start cursors at the commit that added the member, wait for the data of a pointer |
| I | Identity associations | `xmtp_id/src/associations/` | association state of an inbox | fold of signed identity updates |
| J | Task worker, pending leave requests | `worker/tasks.rs`, `xmtp_db/.../tasks.rs` | persisted tasks, `pending_remove`, `has_pending_leave_request` | run, retry with backoff, expire, pull a deadline in; remove who asked to leave |
| K | Key package maintenance | `worker/key_package_maintenance.rs`, `key_package_history.rs` | key package rows with deletion times | rotate, delete |
| L | Subscriptions | `subscriptions/` | open streams, last cursor delivered | process one streamed envelope, fall back to a sync |
| Q | Bidirectional transport | `xmtp_api_d14n/src/queries/bidi_transport.rs` | leases of topics, waves of cursored adds, the wire and its outbox | lease, deref, suspend, resume, reconnect, route frames to leases |
| M | Permissions and commit validation | `groups/validated_commit.rs`, `group_permissions.rs` | policies in the group context | accept or refuse a commit |
| N | Device sync, archives, disappearing messages | `worker/` | rows and timers | periodic passes over the database |
| O | API client and retry helper | `xmtp_api`, `xmtp_api_d14n`, `xmtp_common/src/retry.rs` | none | retried sends and queries |
| P | Bindings, SDKs, apps, generated code | `src/bindings`, `src/sdks`, `src/apps` | none of their own | wrappers |

How they interact: E writes rows of A; B moves them, publishes their payloads
through O, reads the topic back through O, merges commits into the MLS group,
moves C in the same transaction and writes D; L runs the message part of B on
envelopes in the order a stream delivers them, concurrently with a sync; F reads
D, and answers what it finds with commits that go through B; H creates the groups
B works on, with the cursors of C taken from the welcome that B's `post_commit`
sent, and hands a pointer without data to J; J rotates the key packages of K that
others need to send H its welcomes; G orders what O fetched before B sees it; Q
carries the subscriptions of L over one connection.

What is hard:

* two members publish a commit from one epoch, and only the first in the topic
  counts;
* a row is marked Published before its payload is sent, so its echo, a stream or
  a crash may come in between;
* sends are retried below B: one payload may be in the topic twice, or be there
  although the caller was told it failed;
* commits and messages have separate cursors, but a query starts from the larger;
* one failing message in a batch decides whether the rest may be processed;
* the setters of Processed and Error filter on no state;
* a group pauses for a library version, and resumes after an upgrade;
* welcomes are sent after the commit is merged, in another step than the one
  that marks the intent done;
* a welcome is read by a query, by streams and by a task at once, with no lock
  between its check and the transaction that stores the group;
* one wire serves leases at different positions, and a new wire must neither
  repeat nor lose anything for any of them;
* verdicts about forks come from two logs written by many installations, whose
  entries are published, downloaded and compared at different times;
* originators number and time their envelopes independently of each other;
* rows of the task table are inserted, pulled in, replaced and deleted by parties
  that do not wait for the worker running them.

What makes each component correct: A - a row is in one state, terminal ones stay; B -
no forks, no lost or doubled commits, truthful results, progress; C - a client is
exactly where its cursors say; D - two clients' logs agree; E - nothing is queued that
the client itself could not follow; F - no alarm unless states differ, an alarm when
they do, one answer per readd request; G - no envelope before the ones it depends on,
none lost; H - a welcome is used once and its member reads on right after the commit;
I - the fold is deterministic, refuses replays and revoked signers; J - every task is
run, retried at most its limit, and then gone; K - no key package is deleted while a
welcome may still use it; L - a stream never moves an epoch or a cursor; Q - each
lease gets its own suffix of each topic once and in order, and is caught up only when
it has its history; M - a commit is accepted by all members or by none.

`PROJECT.json` lists the same parts with their status, and under `hazards` the
lines where the above bites.

## 2. Modules

| Module | Models |
|---|---|
| `IntentStore` | A: the row, its states, one operator per setter and finder |
| `GroupState` | the MLS group as the sequence of commits merged into it: epoch, metadata fields, compare-and-swap guards |
| `GroupLedger` | abstract specification: one history of commits, members' views as prefixes of it |
| `GroupSync` | B with C, D, E, the message part of L and the failures of O; EXTENDS the first two and INSTANCEs the third |
| `GroupSyncInv` | the inductive invariants of `GroupSync` |
| `GroupSyncLedger_proofs` | its types and the main invariant: no forks, cursors that tell the truth |
| `GroupSyncHistory_proofs` | the history: the refinement of `GroupLedger`, guarded updates, versions |
| `GroupSyncIntents_proofs` | what callers, welcomes, commit logs and messages say about it |
| `BidiTransport` | Q: the ledger task, its leases, waves and outbox, the connection and the server at its other end |
| `CommitLog` | F: local and remote commit logs, the five steps of the worker's tick, fork status, readd requests |
| `EnvelopeOrder` | G: the causal sort, the icebox, the resolver, and the two readers that share them |
| `TaskRunner` | J and K: the task table and its worker, key package rotation and deletion, pending leave requests |
| `WelcomeSync` | H: the three readers of welcomes, the welcome and commit cursors, the groups table |
| `BidiInv` | the inductive invariants of `BidiTransport` |
| `BidiTransport_proofs` | what the server serves |
| `CommitLog_proofs`, `EnvelopeOrder_proofs`, `TaskRunner_proofs`, `WelcomeSync_proofs` | invariants and theorems of these modules |
| `MC...` + `.cfg` files | instances for TLC |

The modules share no variables.  Where one needs another part it has that part's
effect in one action: `CommitLog` receives commits as `GroupSync` merges them,
`WelcomeSync` syncs a group step by step as `GroupSync` does, `TaskRunner` learns of
a welcome sync only that it asks for a rotation.

### `GroupSync`
#### State

| Variable | Code |
|---|---|
| `log` | the group's topic at the delivery service; the index is the sequence id |
| `fresh` | next payload hash: encryption is randomised, so each payload has its own |
| `hist[c]` | the MLS group of installation c |
| `cursor[c]` | the two `refresh_state` rows (commit messages, application messages) |
| `intents[c]` | `group_intents` rows by id |
| `inbox[c]` | stored application messages of others |
| `clog[c]` | `local_commit_log` |
| `paused[c]`, `version[c]` | `paused_for_version`, the version the library reports |
| `welcomes` | welcomes sent, with the cursor they carry |
| `pc[c]`, `todo[c]` | where c's sync is and what is left of its current loop; at most one sync runs per group because of the group mutex |
| `faults` | failures so far |

An MLS group is abstracted to its history of commits.  Two members share an
epoch's secrets iff they merged the same commits, a commit can be staged only in
the state it was made from, and a message can be decrypted in a state that
extends the sender's by at most `MAX_PAST_EPOCHS`.  Each envelope also carries,
as an auxiliary field that nothing reads except properties and proofs, the state
a member has after applying the topic up to it.

#### Actions

| Action | Code |
|---|---|
| `Queue`, `QueueWithKeyUpdate` | `queue_with_conn`, `maybe_insert_key_update_intent`, the checks in `groups/mod.rs` |
| `SyncStart` | `handle_group_paused`, start of `sync_with_conn_locked` |
| `PublishError`, `PublishNothing`, `PublishIntent` | the three results of `get_publish_intent_data` in `publish_intents` |
| `SendOk`, `SendUnacknowledged`, `SendFailed` | `send_group_messages` and `handle_published_intent_send_failure` |
| `Receive`, `ReceiveFailed` | `receive`, `query_group_messages` |
| `ProcessOwn` | `process_message_inner` with a matching row: `stage_and_validate_intent`, `process_own_message`, the intent's transition |
| `MergeExternal`, `StoreExternal`, `SkipOwn`, `RejectExternal`, `Pause` | the outcomes of `process_external_message` and `post_process_message` |
| `RetryableError` | the abort of `process_messages` |
| `PostCommitStart`, `SendWelcomes`, `SendWelcomesFailed`, `FinishIntent` | `post_commit`, `send_welcomes` |
| `StreamOwn`, `StreamExternal` | `process_message` with `trust_message_order = false` |
| `Crash`, `Upgrade` | the process dies, the database stays; a newer library is installed |

Each action is one database transaction or one network call of the code, with
everything that transaction does.  Choices worth knowing:

* `ProcessOwn` moves the cursor whatever the outcome.  When a row cannot make its
  transition (the setter's filter fails) the transaction is rolled back, and
  `post_process_message` moves the cursor and records the failed commit: the net
  effect is the same single step.
* An own commit never pauses its author: `MayQueue` bounds the minimum version by
  the author's version, and versions only grow.
* A message keeps its id over republications (client and intent id), so storing
  it twice is idempotent; a streamed message that the sync meets again has the
  same net effect as storing it then.
* `UpdateAdminList`, `UpdatePermission` and `ReaddInstallations` take the same
  path as the three commit kinds in `CommitKinds`.
* Failures are chosen by the environment from `FaultKinds`, at most `MaxFaults`
  of them.  "dup" is a send whose response is lost and which the retry helper
  repeats; "ack" is one of which every repetition fails too.

### `BidiTransport`

`task` is the ledger task (leases with their floors, what they were handed and what
is withheld from them; pending waves and the leases parked on them; outbox, dial,
callers of `resume()`), `wire` the connection with the server's side of it, `log` the
server's topics.  One action per command (`Lease`, `Deref`, `Suspend`, `ResumeCmd`),
per outcome of a dial, per wire event, per death of a wire and per flush of the
outbox; each handler is a function of the task's state that ends in `Finish`, as
each branch of the code's loop ends in dropping leases, retiring topics and settling
the callers of `resume()`.

The server is the one of the code's own property tests
(`bidi_transport_props.rs`): it serves waves oldest first and a lower re-add may take
a topic out of an older wave (`Yank`).  A server that interleaved waves would break
`ExactlyOnceInOrder`; the code relies on this without saying so.  With `Trail = FALSE`
a topic nobody holds is only leased again when nothing of it is left on the wire; the
runs have `TRUE`.  Left out:
`TopicsLive`, messages without a cursor, an untagged `CatchUpComplete`, the byte
budget beside the frame budget, backoff times, the closing of the command channel.

### `CommitLog`

An epoch is named by the history of commits that leads to it, which is what its
epoch authenticator identifies.  Per installation the module has the local log's
rows, the remote log as saved, the four cursors, signing and consensus keys, the fork
status, and both columns of `readd_status`; per group the commits, the welcomes and
the remote log.  `Tick` goes through the five steps of the worker in order: save the
remote log, check for a fork, publish, request readds, answer readds; `Fault` lets
any of them fail or die and starts over.  A divergence begins when one installation
refuses a commit that the others apply.  Consent is given, the super admins are
fixed, and the minimum-version bump before a readd is left out.

### `EnvelopeOrder`

`Publish` numbers and times an envelope at its originator; originators' clocks are
not synchronised; `Replicate` lets the node we read from lag behind each originator
separately.  `SyncQuery` takes a page, sorts it by time and then causally, and icebox
or resolver take the orphans (`SyncResolve`, `SyncFails`); `SyncProcess` handles one
envelope and moves one cursor.  `Subscribe` and `StreamFrame` are the subscription,
with a clock of its own and the same icebox.  An envelope has one dependency, the
commit its sender had last processed, and `Monotone` says that the senders behind an
originator do not fall back behind each other.  `SortStep` is one turn of the loop of
`CausalSort::sort`; equal timestamps, the originators within a node's answer and the
rows of the icebox come in any order, as no code gives them one.

### `TaskRunner`

The task table is a function from payload to row, as the code keeps rows unique by
their payload's hash.  `Pick` is the loop's choice of a due row; what the row's task
does is one action per database statement or network call (`StartRotation`,
`Generate`, `Record`, `Uploaded` or `UploadFails`, `MarkSuperseded`, `ResetQueue`,
`NudgeDeletion`; `SweepKeys`, `PurgeHistory`; `ListPending`, `RemovePending`,
`CheckList`, `ClearFlag`), then `Finish`, `Reschedule` or a retry.  The application
rotates through the same actions.  `QueueRotation`, `LeaveRequest` and `Fetch` come
from outside at any time, and `Restart` kills the process anywhere and runs the
builder's seeding and backfill.  Time passes between tasks and during network calls;
a row without an expiry has no attempts.

### `WelcomeSync`

A reader ("sync", one of two concurrent streams, or the task of a pointer) goes
through `Begin` (`check_if_processed`), `Validate` (`from_welcome_proto` and
`validate_membership`) and `Commit` (one transaction), with the others in between.
Only our own membership of a group is kept: commits at odd positions add us, those at
even ones remove us, and a position doubles as the epoch.  `Transient` is a retryable
error that outlives its retries, `TaskExpires` the end of a pointer's three days,
`Crash` the loss of everything in memory, the worker's channel included.  Welcomes of
one group are assumed to be sent in the order of their commits.

## 3. Runs

| Run | What it asks | Result |
|---|---|---|
| `race` | both members may rename, add a member or send a message, a stream is open, one failure of five kinds, crash included | the group is a ledger (`IsLedger`, a refinement), positions match cursors, every add gets its welcome, fork detection has nothing false to read, terminal rows stay; `IInv` holds |
| `edits` | guarded renames that build on each other among messages and key rotations, three intents | no fork, no lost update; callers are told the truth; what is shown as published was stored by all who read past it |
| `live` | the minimum version is raised over mixed versions while a member is added, under fairness, a failed publish or query | nobody runs an epoch it does not support; every intent is resolved; all reach one epoch |
| `lost_ack` | a stored send is reported as failed | **violates** `NoFork` |
| `bidi_shared` | two leases of two topics at any cursors, one Mutate per topic, a full command buffer, topics moved between waves | each lease gets its own suffix once and in order, is caught up only with its history, and the server serves exactly what is leased |
| `bidi_reconnect` | the wire dies, dials fail, are refused or suspended, a consumer wedges, `resume()` at any point | still once and in order; an answered `resume()` means caught up; nobody is stranded |
| `log_rejoin` | members commit, lose races, are removed and rejoin around the ticks | no false alarm; a clean verdict is right |
| `log_recovery` | two super admins with keys of their own, a failed call or crash, one divergence, readds | one consensus, an honest upload cursor, one answer per request, the divergence is noticed |
| `order_sync` | two commits and two messages in any order of times, syncs and a subscription sharing the icebox, a resolver | no cursor passes an unprocessed envelope, causes come first for sync and stream, what was iced comes out |
| `tasks` | worker, application, welcome syncs, leavers and restarts over one table | the package on the network and those just fetched can be opened, no key outlives its row, no deadline and no request with its own task is lost |
| `tasks_leave` | a request to leave during the worker's clean-up | **violates** `LeaveRemembered` |
| `welcome` | query, streams and a pointer's task race; errors, crash, leave and return; under fairness | a group stands where its cursor says; no welcome is skipped; a leaver is asked again; every good welcome is joined |

### Bounds

`GroupSync`: two installations, a created the group.  `MaxPast = 1` (the code has 3)
makes a message expire after a single rotation, and `MaxAttempts = 2` (the code has
3) makes both the reset and the final failure reachable; both only scale distances.
One intent each reaches every race for one epoch, its retry in the next, and every
interleaving with one failure; `edits` has a third so that a loser can lose to a chain
of two.  A third member would add nothing to a race for an epoch, which has one winner
and behaves the same towards every loser; the proofs cover any number.

`BidiTransport`: two leases are the least that share a topic at different cursors, and
a cursor is that of a message in the log.  The first topic has two messages, so that a
lease can start below, in or above what another is being replayed and a lower re-add
can move the topic out of an older wave; the second topic of `bidi_shared` has none,
so that one lease's waves complete apart from each other.  A full command buffer
(`Backlog`) is explored in `bidi_shared`, deaths and dials in `bidi_reconnect`.
`CommitLog`: two installations, four or five commits, pages of two, so that a log
spans pages and a member rejoins with its old rows in place.  `EnvelopeOrder`: two
commits and two messages of another originator over three clock values hold every
order of a dependency and its dependants; a page holds everything.  `TaskRunner`:
`Interval`, `Debounce`, `Grace` and the backoff keep the code's order relation, three
packages allow one to be superseded while another is being uploaded, and the two
leavers are symmetric. `WelcomeSync`: one group with add, removal and re-add and one
with a single add, for queries alone or (one add and one removal) with two streams, or
with a stream and the worker; one fault.

Deadlock checking is on for `GroupSync`, whose model never stops unless every member
waits for a version.  The other models stop when the bounded environment has nothing
left to do, as the code waits for the next event, and there it is off.

### Fairness

`live`: `WF(SyncStep(c))` says that the application goes on syncing its groups and that
a sync that started goes on, which is what `sync_until_intent_resolved`, the streams'
fallback and periodic syncs do; `WF(Upgrade(c))` says that the library is eventually
updated, without which a paused group rightly stays paused.  Nothing is assumed of
failures, queueing or streams.  `live` has no crash: after a crash between
`set_group_intent_published` and the send, the row stays Published, no code looks for
such rows again, and the intent is never resolved (add "crash" to `FaultKinds` and
`IntentsResolve` fails).

`welcome`: the application keeps calling `sync_welcomes` and a call goes on
(`WF`); the worker finishes a task it took up (`WF`), and, as its loop selects between
channel and table and puts a failed task behind the others, it serves the channel and
every task again and again (`SF`).  Nothing is assumed of streams, the senders or
failures.

`NobodyStranded` and `DivergenceNoticed` say what would be liveness as invariants of
the states in which nothing is left to do; the graphs are too large for a temporal
check.

### What the properties leave out

* `PublishedIsReadable` is checked without streams.  A stream marks an own message as
  published in the epoch the client is in, which may lag behind the topic, so with
  streams a message can be shown as published that a member already past it could not
  decrypt.
* `NothingLost` and `Joined` excuse a welcome whose pointer's task expired, or was
  still in the worker's channel, in memory only, when the process died: the cursor is
  already past it then, and no code asks for it again.
* `NothingSkipped` and `InCausalOrder` accept a newer commit for one a resolver was
  asked for; `StreamComplete` is stated until a sync runs; `OwnTaskKept` is stated for
  requests whose own row is not dead.

### Disagreements

Two runs show the code doing what its documentation says it does not:

* `lost_ack`: `handle_published_intent_send_failure` returns the row to ToPublish
  and wipes its hash (or moves it to Error) although an earlier try of the same
  request may have been stored.  When the commit comes back no row matches, OpenMLS
  reports an own message, and it is skipped with the cursor advanced.  The other
  members merge it.  The README of xmtp_mls says of diverged states that they
  "should not be possible".  The proofs assume exactly that "ack" is not a fault.
* `tasks_leave`: `cleanup_pending_removal_list` finds no pending removal and then
  clears `has_pending_leave_request` in another statement.  A LeaveRequest processed in
  between has its task ignored, because the running one's row is alive, and that row
  is deleted next: flag and task are gone, so not even the backfill at start-up finds
  the request.  The comment on the caller says that this arrangement "avoids racing a
  concurrent LeaveRequest insert".

Others the models show under constants the runs do not use (the constant to change is
named where there is one):

* *Welcomes, several readers and a re-add* (`Mixed = TRUE`, violates `StateAtCursor`):
  two streams validate the welcomes of a first and of a later addition to one group,
  the later one is committed first, and the earlier one then replaces its MLS state
  (`insert_or_replace_group` accepts a lower id).  The group is back at the old epoch,
  active, with its commit cursor past the commits in between.  The same happens when
  `sync_welcomes` processes, after a removal, a welcome a stream had joined with
  before.
* *Key packages, overlapping rotations* (`Overlap = TRUE`, violates
  `CurrentPackageUsable`): the worker generates package 2, the application generates and
  uploads 3, then the worker's upload arrives.  The application marks everything below
  3, so the keys of package 2 are swept while the network hands it out.
* *Leases, a leftover wire position* (`SPECIFICATION Trailing` or `Rejoining` of
  `MCBidiTransport` violate `ExactlyOnceInOrder`; both with `Floors = {0, 2}`,
  `MaxLog <- FirstUpto3`, `Trail = TRUE`; `Trailing` with both topics, four leases,
  `ChunkCap = 2`, `WithheldCap = 3`, neither `Backlog` nor `Yank`; `Rejoining` with one
  topic, three leases and one death):
  `register` freezes the topic's wire position as the edge of the history a new lease is
  owed, since "every frame past the current wire position will reach this lease as it
  happens" (`bidi_transport.rs:1057`).  The position can be a leftover: it was forgotten
  with the topic's last holder and set again, to 1, by a frame of the former
  subscription (`Trailing`), or it is where the replay of a lease that left stood when
  the wire died (`Rejoining`).  The present subscription starts at 2, for a lease that
  has 1 and 2 already; the next lease of the topic, from 0, is owed history up to 1
  only, takes 3, and never gets 2.  It takes three leases of one topic, which is why the
  runs, with two, do not meet it.
* *Leases after a reconnect* (deaths in `bidi_shared`, `CaughtUpHasHistory` and
  `SubscriptionsMatch`): a lease whose topic is re-added at exactly its own cursor, by a
  sibling's wave, is told `CatchUpComplete` before its history has come, as `complete`
  waits for waves with a lower claim only (`bidi_transport.rs:1178`); and a re-issued
  wave that still waits in the outbox is purged with the lease that owns it, although it
  carries a sibling's topic (`Outbox::purge`), which is then not subscribed any more.
* *Commit log*: a group that was marked as forked is left out of all later checks, so
  it stays marked after the installation was added again
  (`xmtp_db/.../group.rs:1096`); the check that runs while a readd is answered throws
  its verdict away (`commit_log.rs:857`), so that a clean status may outlive its reason
  (`CleanIsClean` with `Recovery = TRUE`); and the upload cursor of a group without a
  signing key moves when other groups' entries were sent (`OtherGroups = TRUE`,
  `UploadCursorHonest`).
* *Ordering*: a message that the causal sort puts behind a newer one of its
  originator is skipped as already processed (`Monotone = FALSE`, `NothingSkipped`);
  a sync prunes from the icebox what only a subscription was waiting for; the
  resolver queries from the missing commit on and never gets that commit.  And with
  more than a page to read (`Page = 1`, `NothingSkipped`): a subscription has handed out
  a first message of an originator and iced a second one, which waits for a commit; a
  sync's page holds that commit and not yet the first message, recovers the second one
  from the icebox, and its cursor passes the first.

And two met while reading the code for `GroupSync`:

* *A fork signal that is never raised*: an envelope from an epoch the group has not
  reached is to mark the group as `maybe_forked`, "the durable fork signal"
  (`mls_sync.rs:3059`).  The detector looks for a bare
  `OpenMlsProcessMessage(ValidationError(WrongEpoch))` (`mls_sync.rs:3024-3031`), but
  every OpenMLS error of an external envelope reaches it wrapped, as
  `OpenMlsProcessMessageWithAppData(OpenMls(..))` (`app_data/mod.rs:242`,
  `mls_sync.rs:330-340` and `1243`); `commit_result` (`mls_sync.rs:345-358`) knows both
  shapes, the detector does not.  Only a test hook produces the bare error.  No run shows
  this: the signal cannot be raised, so `GroupSync` has no variable for it.
* *Skipped own messages*: the comment at `mls_sync.rs:1665` says that an own message
  without a row is met "only once the intent record is gone"; the second copy of a
  message whose first copy was stale is met while the record waits to be published
  again.

## 4. Proofs

TLAPS checks the following, for every value of the constants that the modules'
assumptions allow (they are the types of the constants) and that the last column does
not exclude.  All but `CommitsNotSkipped` state a property that a run checks on a
small instance.

| Theorem | Shows | Assumes |
|---|---|---|
| `TypeCorrect` | `TypeOK` | |
| `Invariance` | `IInv` | "ack" is not a fault |
| `CursorSound` | `StateMatchesCursor` | same |
| `ForkFree` | `NoFork` | same |
| `ImplementsLedger` | `IsLedger`: `GroupSync` refines `GroupLedger` | same |
| `GuardsHold` | `NoLostUpdate` | same |
| `VersionsSupported` | `RunsSupportedVersion` | same |
| `ReportsTrue` | `ReportsAreTrue` | same |
| `TerminalIntentsStay` | `TerminalStays`, an action property | same |
| `EveryAddWelcomed` | `WelcomeOfEveryAdd` | same |
| `NoFalseForkEvidence` | `NoForkEvidence` | same |
| `PublishedReadable` | `PublishedIsReadable` | same, and no streams |
| `WelcomesKept` | `NothingLost` | |
| `JoinedWhereTheCursorIs` | `StateAtCursor` | `Mixed = FALSE` |
| `ReturningIsAsked` | `LeaverAskedAgain` | `Mixed = FALSE` |
| `SyncInCausalOrder` | `InCausalOrder` | |
| `SubscriptionInCausalOrder` | `StreamCausal` | |
| `SubscriptionComplete` | `StreamComplete` | |
| `SyncSkipsNothing` | `NothingSkipped` | `Monotone`, and pages that hold everything |
| `CommitsNotSkipped` | what `NothingSkipped` says of commits | |
| `RotationsScheduled` | `RotationScheduled` | |
| `DeletionsScheduled` | `DeletionScheduled` | |
| `OwnTasksKept` | `OwnTaskKept` | |
| `CurrentPackagesUsable` | `CurrentPackageUsable` | `Overlap = FALSE` |
| `WelcomesOpen` | `WelcomeOpens` | `Overlap = FALSE` |
| `NoOrphanedKeys` | `NoOrphanKeys` | `Overlap = FALSE` |
| `NobodyFalselyForked` | `NoFalseAlarm` | the creator is the only super admin |
| `CleanVerdicts` | `CleanIsClean` | `Recovery = FALSE` |
| `UploadHonest` | `UploadCursorHonest` | `OtherGroups = FALSE` |
| `OneConsensus` | `ConsensusAgrees` | `MaxFaults = 0` |
| `ConsensusThroughCrashes` | `ConsensusAgrees` | the creator is the only super admin |
| `AddedAgainOnce` | `AnsweredOnce` | the creator is the only super admin |
| `DivergencesNoticed` | `DivergenceNoticed` | the creator is the only super admin |
| `ServesWhatIsLeased` | `SubscriptionsMatch` | no wire dies, nothing is suspended (`MaxDeaths = 0`, `MaxResumes = 0`) |

Most assumptions are needed, and section 3 tells what happens without them: `lost_ack`
for "ack", the disagreements for `Mixed`, `Overlap`, `Recovery`, `OtherGroups`,
`Monotone`, pages and reconnects, "what the properties leave out" for streams.  With a
second super admin `ConsensusAgrees` fails if there are crashes too: an installation
that rejoined may publish a row of failure for a commit between two rows of another
admin that it does not have; a reader that died within a page reads it again and saves
that row, which readers that did not die have skipped. `NoFalseAlarm` is neither
checked nor proved for several super admins, of whom one may add a member again before
another's older welcome has reached it.  The same assumption is convenient rather than
known to be needed in the last two theorems of `CommitLog`: `log_recovery` checks both
properties with two super admins and one fault, but an admin that was itself added
again learns of earlier answers only from what it reads, and the proof of
`DivergenceNoticed` compares everybody with one log that is never wrong, the
creator's.

Every proof has the same plan: an inductive invariant, a lemma per action (or per
outcome of an action) that says which part of it that action can disturb, and a
temporal step.  Where TLC can evaluate them the auxiliary invariants were checked on the
instances of the runs before they were proved.

### `GroupSync`

`NoFork` is not inductive: that two members agree says nothing about the commits
they are about to apply.  `IInv` adds

* `LogInv`, `ChainInv`: the topic prescribes one growing history, which only the
  commits made from its current end extend, and each payload was made from some
  state of it;
* `PosInv`: each client is on that history, at the position of its higher cursor;
* `HashInv`, `RowInv`: hashes are unique, and an envelope with the hash of a row is
  that row's payload;
* `OwnInv`: a commit of c that c has not reached yet is either waited for by a
  Published row or older than c's epoch.  This is the heart: OpenMLS cannot process
  a client's own commits, so a client follows the history past its own winning
  commit only if the row is still there.  "ack" breaks exactly this part;
* `LoopInv`: what the loops of a sync have left is in the right state, the batch
  being processed has no gap, and a payload not yet sent is not in the topic.

The argument: `ClientStep` shows once that any step of one client preserves the
state part if the client stays on the history and no row stops waiting for a
payload that could still be applied; `DeliverStep` does the same for the growth
of the topic; and one lemma per action shows that the action is of one of these
shapes.  The interesting ones are `ProcessOwnInv`, which needs that two
prescribed states of one epoch are equal (`SameEpoch`), so that the code's
comparison of epoch numbers is as good as a comparison of states, and
`ExternalInv`, where a skipped own envelope cannot be a commit that won.

The other theorems need more of the past, and `GroupSyncInv` has one invariant for
each kind of it, all relative to `IInv`:

* `HistoryInv`, `FateInv`: a commit of the history is the payload of one row, and that
  row has been told or waits for it, made from the epoch right before; its guard held
  there.  A row that lost is made again from a later epoch only when its payload can
  win no more, so no intent wins twice: with this every step extends the ledger, moves
  one member along it, or does neither (`ImplementsLedger`).
* `DoneInv`: a commit intent shown as done names the envelope that won for it.
* `WelcomeInv`: a row knows whether it owes a welcome until it is done, and between
  `SendWelcomes` and `FinishIntent` it is out.
* `ClogInv`: a commit log has nothing of what its client has not read, successes as
  the topic prescribes them, and the client's state last.
* `VersionInv`: no row asks for a version newer than its author's, which only grows.
* `InboxInv`: a message is readable at its place in the topic or nowhere later, so what
  the author's epoch check lets pass has been stored by all who came past it.

### The other modules

* `WelcomeSync_proofs`: `ReadInv` (what the query has in hand starts right after the
  cursor, and no welcome below it is forgotten) needs nothing; `JoinInv` says which
  welcomes could still be joined and that they are for later epochs than the cursor's,
  which is what a second reader of a group with two welcomes breaks.
* `EnvelopeOrder_proofs`: the first half is about the sort.  `Loop` holds after every
  turn: nothing is lost (`Total`), what was kept comes after a commit that makes the
  clock dominate it (`Clocked`), each originator's envelopes are in order (`InOrder`),
  what was in place stays (`Stays`), and the turns left are enough (`Pending`).  The
  second pass is the hard one: it sorts what was sorted, what the resolver brought and
  what was missed, in which a commit may come before one that never will.  The second
  half is `OrderInv`: the list under way comes after what it depends on and has no gap
  past the cursors, of commits until the resolver is asked and of messages as far as the
  assumptions go (`Met`, `NoGap`), so that `process_message` passes nothing; a
  subscription's clock for commits is its position; and before the first sync what it
  could not hand out is in the icebox (`FreshInv`).
* `TaskRunner_proofs`: `TaskInv` ties the worker's place to the row it holds;
  `ScheduleInv` says that a deadline is met or a nudge for it is still in the table
  until the worker has applied it; `LeaveInv` that the worker's list of leavers
  contains everyone whose row it holds; `PackageInv` that marks are on the packages
  before the current one, the oldest first, which two interleaved rotations break.
* `CommitLog_proofs`: `CleanInv` names, for a clean verdict, the row it rests on.
  `DigestInv` says that a saved log is a function of the part of the remote log it was
  read from, so that two of them are prefixes of each other whatever the pages were; a
  page saved twice is none, and `CopyInv` does with crashes what needs one publisher:
  a saved log is a gapless beginning of the creator's own.  `AnswerInv` adds what the
  creator knows of those it added again: it has noted the commit as the answer, or the
  installation has seen it in the consensus (`AnswersNoted`); and as a request names
  something its author has saved (`RequestsSeen`), a new one that is not covered by
  the note shows that the time before was seen.  `NoticeInv` turns a check around:
  every row that a check has passed without an alarm is an epoch of the creator's log
  (`ChecksTaken`), and so are the starts of chains, which welcomes bring
  (`WelcomesTaken`, `StartsTaken`), so two installations that both checked everything
  cannot be on histories of which neither continues the other.  `AlarmInv` gives a
  group nobody diverges in one chain of epochs (`OneChain`) of which every local row,
  entry and saved row is a link; the hard part is that a member removed and added
  again stays on it, for which `Membership` orders its removals, additions and unread
  welcomes.
* `BidiTransport_proofs`: `SubsInv` speaks of the Mutates that have not reached the
  server, those of the wire and those of the outbox as one queue.  A topic somebody
  holds has, for each of its holders, either a Mutate of that holder's own with no
  removal behind it, or the server's subscription and no removal at all (`Wanted`); one
  that nobody holds has a removal with no addition behind it, or no subscription and no
  addition (`Gone`).  "Of its own" is what makes it inductive: `Outbox::purge` takes the
  Mutates of a lease that leaves, and each sibling keeps its own.  A re-issued wave
  after a death carries topics for siblings, which is the counterexample above.

### Only model-checked

Liveness (`IntentsResolve`, `Converges`, `Joined`) is beyond the prover.  Of the
invariants, four of `BidiTransport` are left to TLC: `ExactlyOnceInOrder`,
`CaughtUpHasHistory`, `ResumeMeansCaughtUp` and `NobodyStranded`.  They rest on one
argument, that what is served, in flight and withheld has no gap for any lease, across
waves, purges and topics that move between waves.  The instances of the runs are small
enough for TLC to exhaust it; an inductive form has to relate every pending wave to
every lease it serves, and holds only where no topic has a leftover wire position
(Disagreements).

## 5. Not modelled

* I, identity associations: a pure fold over signed updates; what makes it right is
  signature checking and the content of the updates, which a model would assume.
* Device sync and archives, disappearing messages: passes over the database by
  timers; nothing else reads what they write.
* The rest of L: the stream router, watchdog and catch-up wrappers; what they hand on
  is processed as `StreamOwn`, `StreamExternal` and `WelcomeSync`'s streams do.
* In `GroupSync`: removal of members, inactive groups and rejoining (`CommitLog` and
  `WelcomeSync` have them); proposals and the two-phase `CommitPendingProposals`; the
  app-data migration, and with it the proposal-then-commit payloads a migrated group
  publishes for a metadata update; delete messages; permission policies beyond the
  minimum version; push notifications and expiry of messages.
* In `WelcomeSync`: oneshot messages, DMs, the history request after a join.
* In `TaskRunner`: the tasks whose work is outside the table (archives, missing
  installations, liveness checks).
* Bindings, SDKs, apps and generated protocol code, most of the repository's lines:
  they wrap the above and hold no protocol state.

## 6. Plan

1. *Done*: `GroupSync`, `BidiTransport`, `CommitLog`, `EnvelopeOrder`, `TaskRunner`,
   `WelcomeSync`; the theorems of section 4.
2. Proofs: the delivery properties of `BidiTransport` (section 4, only model-checked).
3. `GroupSync` extended by removal of members and inactive groups.
4. `AssociationState`, if its replay protection and revocation can be told apart from
   the signatures.
