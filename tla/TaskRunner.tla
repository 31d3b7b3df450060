----------------------------- MODULE TaskRunner -----------------------------
(***************************************************************************)
(* The durable task table of an installation, the worker that drains it    *)
(* and what depends on it: the rotation of the key package others use to   *)
(* add this installation, the deletion of superseded packages, and the     *)
(* removal of members who asked to leave a group this installation is      *)
(* super admin of.  Rows are identified by their payload; the worker is    *)
(* the only one to move a deadline, everybody else inserts a row that      *)
(* pulls a deadline in (PullInDeadline).  The application may rotate the   *)
(* key package too, syncs of welcomes ask for a rotation, and the process  *)
(* may die anywhere.                                                       *)
(***************************************************************************)
EXTENDS Integers, FiniteSets, FiniteSetsExt, Functions

CONSTANTS
  Leavers,      \* members who may ask to leave
  Interval,     \* KEY_PACKAGE_ROTATION_INTERVAL_NS
  Debounce,     \* KEY_PACKAGE_QUEUE_INTERVAL_NS
  Grace,        \* KEYS_EXPIRATION_INTERVAL_NS
  Backoff,      \* the delay before a failed task is tried again
  Lifetime,     \* how long a row that expires lives
  MaxAttempts,  \* max_attempts of a row that expires
  Overlap,      \* the application may rotate while the worker does
  MaxTime,      \* bound on the clock
  MaxPackages,  \* bound on the key packages
  MaxEvents,    \* bound on what happens to the worker from outside
  MaxFaults     \* bound on failed calls and crashes

ASSUME TaskAssumption ==
  /\ {Interval, Debounce, Grace, Backoff} \subseteq Nat \ {0}
  /\ {Lifetime, MaxAttempts, MaxTime, MaxPackages, MaxEvents, MaxFaults} \subseteq Nat
  /\ Overlap \in BOOLEAN

Null == -1            \* SQL NULL
Rotation == <<"rotation">>
Deletion == <<"deletion">>
SelfRemove == <<"selfremove">>
PullIn(target, at) == <<"pullin", target, at>>

Actors == {"worker", "app"}

VARIABLES
  now,       \* the clock
  rows,      \* the tasks table: payload |-> row
  column,    \* next_key_package_rotation_ns
  history,   \* key_package_history: id |-> delete_at_ns
  keys,      \* the packages whose private keys are in the key store
  network,   \* the package the network hands out
  at,        \* where the worker and the application are
  kp,        \* the package each of them is uploading
  job,       \* the worker's task: its payload and what it has read
  pending,   \* pending_remove: who asked to leave
  members,   \* the members of the group
  flag,      \* has_pending_leave_request
  owed,      \* (history) the requests whose own task is not given up as dead
  fetched,   \* (history) who fetched which package, and when
  used       \* (bounds)

vars == <<now, rows, column, history, keys, network, at, kp, job, pending,
          members, flag, owed, fetched, used>>

packageVars == <<column, history, keys, network, kp>>
leaveVars == <<pending, members, flag, owed>>

-----------------------------------------------------------------------------
(* The tasks table *)

Seed(t) == [next |-> t, attempts |-> 0, expires |-> Null]

Alive(row) == row.expires = Null \/ (row.expires >= now /\ row.attempts < MaxAttempts)

\* A row is written.
With(f, x, v) == [y \in DOMAIN f \cup {x} |-> IF y = x THEN v ELSE f[y]]

InsertOrIgnore(table, p, row) == IF p \in DOMAIN table THEN table ELSE With(table, p, row)

Without(table, p) == Restrict(table, DOMAIN table \ {p})

\* enqueue_pull_in: due at once, never expires, coalesced with its equals.
EnqueuePullIn(table, target, t) == InsertOrIgnore(table, PullIn(target, t), Seed(now))

\* upsert_pending_self_remove_task: a dead row makes room, a live one stays.
Upsert(table) ==
  LET swept == IF SelfRemove \in DOMAIN table /\ ~Alive(table[SelfRemove])
               THEN Without(table, SelfRemove) ELSE table
  IN  InsertOrIgnore(swept, SelfRemove,
        [next |-> now, attempts |-> 0, expires |-> now + Lifetime])

MarkedForDeletion(h) == {d \in Range(h) : d # Null}

\* seed_and_reconcile_kp_tasks and backfill_pending_self_remove_tasks: what
\* the builder does to the table before the worker starts.
Reconciled(table) ==
  LET seeded == InsertOrIgnore(InsertOrIgnore(table, Rotation, Seed(now)), Deletion, Seed(now))
      rotate == IF column = Null THEN seeded ELSE EnqueuePullIn(seeded, Rotation, column)
      sweep == IF MarkedForDeletion(history) = {} THEN rotate
               ELSE EnqueuePullIn(rotate, Deletion, Min(MarkedForDeletion(history)))
  IN  IF flag THEN Upsert(sweep) ELSE sweep

-----------------------------------------------------------------------------
Idle == [row |-> Rotation, mine |-> FALSE, since |-> 0, next |-> Null, ids |-> {}, who |-> {}]

\* A registered installation: its first package is on the network.  The
\* column of a database from before the column is NULL.
Init ==
  /\ now = 0 /\ column \in {Null, Interval} /\ history = [id \in {1} |-> Null] /\ keys = {1} /\ network = 1
  /\ rows = [p \in {Rotation, Deletion} |-> Seed(0)]
  /\ at = [a \in Actors |-> "idle"] /\ kp = [a \in Actors |-> 0] /\ job = Idle
  /\ pending = {} /\ members = Leavers /\ flag = FALSE /\ owed = {} /\ fetched = {}
  /\ used = [packages |-> 1, events |-> 0, faults |-> 0]

Goto(a, label) == at' = [at EXCEPT ![a] = label]

Fault == /\ used.faults < MaxFaults
         /\ used' = [used EXCEPT !.faults = @ + 1]

\* What the application, other members and syncs do, within the bound.
Event == /\ used.events < MaxEvents
         /\ used' = [used EXCEPT !.events = @ + 1]

\* Time passes between tasks and during calls to the network; statements on
\* the database take none.
Tick ==
  /\ \A a \in Actors : at[a] \in {"idle", "upload", "remove"}
  /\ now < MaxTime /\ now' = now + 1
  /\ UNCHANGED <<rows, at, job, packageVars, leaveVars, fetched, used>>

-----------------------------------------------------------------------------
(* The worker's loop: run_and_reschedule_task. *)

\* The task that is due first is picked (get_next_task); a dead one is
\* deleted, any other is run.
Pick ==
  /\ at["worker"] = "idle"
  /\ \E p \in DOMAIN rows :
       /\ rows[p].next <= now /\ \A q \in DOMAIN rows : rows[p].next <= rows[q].next
       /\ IF ~Alive(rows[p])
          THEN /\ rows' = Without(rows, p)
               /\ owed' = IF p = SelfRemove THEN {} ELSE owed
               /\ UNCHANGED <<at, job>>
          ELSE /\ job' = [Idle EXCEPT !.row = p, !.mine = TRUE, !.since = now]
               /\ Goto("worker", p[1])
               /\ UNCHANGED <<rows, owed>>
  /\ UNCHANGED <<now, packageVars, pending, members, flag, fetched, used>>

\* Mutant: the row that has the payload now is deleted.
DoneByPayload == rows' = Without(rows, job.row)

\* update_task and delete_task name a row by its id: a row somebody else has
\* replaced in the meantime is left alone.
Done == rows' = IF job.mine THEN Without(rows, job.row) ELSE rows

RescheduleAt(t) ==
  rows' = IF job.mine THEN [rows EXCEPT ![job.row].next = t, ![job.row].attempts = 0] ELSE rows

RetryLater ==
  rows' = IF job.mine
          THEN [rows EXCEPT ![job.row].next = job.since + Backoff,
                            ![job.row].attempts = IF rows[job.row].expires = Null THEN 0 ELSE @ + 1]
          ELSE rows

\* PullInDeadline: lower the deadline of the target, then delete the nudge.
ApplyPullIn ==
  /\ at["worker"] = "pullin" /\ Goto("worker", "finish")
  /\ LET target == job.row[2]
     IN  rows' = IF target \in DOMAIN rows
                 THEN [rows EXCEPT ![target].next = Min({@, job.row[3]})] ELSE rows
  /\ UNCHANGED <<now, job, packageVars, leaveVars, fetched, used>>

Finish ==
  /\ at["worker"] = "finish" /\ Goto("worker", "idle") /\ Done /\ job' = Idle
  /\ UNCHANGED <<now, packageVars, leaveVars, fetched, used>>

-----------------------------------------------------------------------------
(* Rotation: rotate_and_upload_key_package, by the worker or by the        *)
(* application, and the nudge of the deletion task that follows it.        *)

NeedsRotation == column = Null \/ now >= column

\* generate_and_store_key_package: the private keys go to the key store ...
Generate(a) ==
  /\ used.packages < MaxPackages
  /\ LET id == used.packages + 1
     IN  /\ used' = [used EXCEPT !.packages = id, !.events = @ + IF a = "app" THEN 1 ELSE 0]
         /\ keys' = keys \cup {id} /\ kp' = [kp EXCEPT ![a] = id]
  /\ Goto(a, "record")

\* ... and the package to the history.
Record(a) ==
  /\ at[a] = "record" /\ Goto(a, "upload")
  /\ history' = With(history, kp[a], Null)
  /\ UNCHANGED <<now, rows, job, column, keys, network, kp, leaveVars, fetched, used>>

\* rotate_if_needed
StartRotation ==
  /\ at["worker"] = "rotation"
  /\ IF NeedsRotation
     THEN Generate("worker")
     ELSE Goto("worker", "nudge") /\ UNCHANGED <<keys, kp, used>>
  /\ UNCHANGED <<now, rows, job, column, history, network, leaveVars, fetched>>

\* Client::rotate_and_upload_key_package
AppRotates ==
  /\ at["app"] = "idle" /\ (Overlap \/ at["worker"] \notin {"rotation", "record", "upload", "mark"})
  /\ used.events < MaxEvents /\ Generate("app")
  /\ UNCHANGED <<now, rows, job, column, history, network, leaveVars, fetched>>

Blocked(a) == ~Overlap /\ a = "worker" /\ at["app"] \in {"record", "upload", "mark"}

Uploaded(a) ==
  /\ at[a] = "upload" /\ Goto(a, "mark") /\ network' = kp[a]
  /\ UNCHANGED <<now, rows, job, column, history, keys, kp, leaveVars, fetched, used>>

\* The call fails, before or after the network has taken the package: the
\* worker tries again later, the application is told.
UploadFails(a) ==
  /\ at[a] = "upload" /\ Goto(a, "idle") /\ Fault
  /\ network' \in {network, kp[a]}
  /\ IF a = "worker" THEN RetryLater /\ job' = Idle ELSE UNCHANGED <<rows, job>>
  /\ UNCHANGED <<now, column, history, keys, kp, leaveVars, fetched>>

\* Mutant: the package just uploaded is marked too.
MarkSupersededAndNew(a) ==
  /\ at[a] = "mark" /\ Goto(a, "reset")
  /\ history' = [id \in DOMAIN history |->
                   IF id <= kp[a] /\ history[id] = Null THEN now + Grace ELSE history[id]]
  /\ UNCHANGED <<now, rows, job, column, keys, network, kp, leaveVars, fetched, used>>

\* mark_key_package_before_id_to_be_deleted
MarkSuperseded(a) ==
  /\ at[a] = "mark" /\ Goto(a, "reset")
  /\ history' = [id \in DOMAIN history |->
                   IF id < kp[a] /\ history[id] = Null THEN now + Grace ELSE history[id]]
  /\ UNCHANGED <<now, rows, job, column, keys, network, kp, leaveVars, fetched, used>>

\* reset_key_package_rotation_queue
ResetQueue(a) ==
  /\ at[a] = "reset" /\ Goto(a, "nudge")
  /\ column' = IF column = Null \/ column <= now THEN now + Interval ELSE column
  /\ UNCHANGED <<now, rows, job, history, keys, network, kp, leaveVars, fetched, used>>

\* Mutant: the task is seeded but not pulled in.
NudgeDeletionSeedOnly(a) ==
  /\ at[a] = "nudge" /\ Goto(a, IF a = "worker" THEN "read" ELSE "idle")
  /\ rows' = InsertOrIgnore(rows, Deletion, Seed(now))
  /\ UNCHANGED <<now, job, packageVars, leaveVars, fetched, used>>

\* nudge_deletion
NudgeDeletion(a) ==
  /\ at[a] = "nudge" /\ Goto(a, IF a = "worker" THEN "read" ELSE "idle")
  /\ rows' = IF MarkedForDeletion(history) = {} THEN rows
             ELSE EnqueuePullIn(InsertOrIgnore(rows, Deletion, Seed(now)), Deletion,
                                Min(MarkedForDeletion(history)))
  /\ UNCHANGED <<now, job, packageVars, leaveVars, fetched, used>>

\* Mutant: the next deadline is one interval away, whatever the column says.
NextRotationHardcoded == job.since + Interval

\* The next deadline is the live column, read before the row is written.
NextRotation == IF column = Null THEN job.since + Interval ELSE column

ReadDeadline ==
  /\ at["worker"] = "read" /\ Goto("worker", "write")
  /\ job' = [job EXCEPT !.next = NextRotation]
  /\ UNCHANGED <<now, rows, packageVars, leaveVars, fetched, used>>

Reschedule ==
  /\ at["worker"] = "write" /\ Goto("worker", "idle") /\ RescheduleAt(job.next) /\ job' = Idle
  /\ UNCHANGED <<now, packageVars, leaveVars, fetched, used>>

\* queue_key_rotation, after a sync that found welcomes or by the application:
\* column, seed and nudge in one transaction.
QueueRotation ==
  /\ Event
  /\ column' = IF column = Null \/ column > now + Debounce THEN now + Debounce ELSE column
  /\ rows' = EnqueuePullIn(InsertOrIgnore(rows, Rotation, Seed(now)), Rotation, column')
  /\ UNCHANGED <<now, at, job, history, keys, network, kp, leaveVars, fetched>>

-----------------------------------------------------------------------------
(* Deletion: sweep_expired. *)

\* Mutant: the grace period is not waited for.
ExpiredAllMarked == {id \in DOMAIN history : history[id] # Null}

Expired == {id \in DOMAIN history : history[id] # Null /\ history[id] <= now}

\* Mutant: the keys of one package are deleted, the rows of all.
SweepKeysFirstOnly ==
  /\ at["worker"] = "deletion"
  /\ keys' = IF Expired = {} THEN keys ELSE keys \ {Min(Expired)}
  /\ job' = [job EXCEPT !.ids = Expired]
  /\ Goto("worker", "purge")
  /\ UNCHANGED <<now, rows, column, history, network, kp, leaveVars, fetched, used>>

SweepKeys ==
  /\ at["worker"] = "deletion"
  /\ keys' = keys \ Expired /\ job' = [job EXCEPT !.ids = Expired]
  /\ Goto("worker", "purge")
  /\ UNCHANGED <<now, rows, column, history, network, kp, leaveVars, fetched, used>>

\* delete_key_package_history_up_to_id
PurgeHistory ==
  /\ at["worker"] = "purge" /\ Goto("worker", "park")
  /\ history' = Restrict(history, {id \in DOMAIN history : \A e \in job.ids : id > e})
  /\ UNCHANGED <<now, rows, job, column, keys, network, kp, leaveVars, fetched, used>>

NextDeletion ==
  IF MarkedForDeletion(history) = {} THEN now + Interval ELSE Min(MarkedForDeletion(history))

ParkDeletion ==
  /\ at["worker"] = "park" /\ Goto("worker", "write")
  /\ job' = [job EXCEPT !.next = NextDeletion]
  /\ UNCHANGED <<now, rows, packageVars, leaveVars, fetched, used>>

-----------------------------------------------------------------------------
(* Leaving: process_leave_request_message and process_pending_self_removals.*)

\* A leave request of another member is processed: one transaction.
LeaveRequest(m) ==
  /\ m \in members \ pending /\ Event
  /\ pending' = pending \cup {m} /\ flag' = TRUE /\ rows' = Upsert(rows)
  /\ LET replaced == SelfRemove \notin DOMAIN rows \/ ~Alive(rows[SelfRemove])
     IN  /\ owed' = IF replaced THEN owed \cup {m} ELSE owed
         /\ job' = IF replaced /\ job.row = SelfRemove THEN [job EXCEPT !.mine = FALSE] ELSE job
  /\ UNCHANGED <<now, at, members, packageVars, fetched>>

\* Another super admin removes the member first; its commit is merged here.
OtherAdminRemoves(m) ==
  /\ m \in pending \cap members /\ Event
  /\ members' = members \ {m} /\ pending' = pending \ {m}
  /\ UNCHANGED <<now, rows, at, job, flag, owed, packageVars, fetched>>

\* remove_members_pending_removal: who is to be removed ...
ListPending ==
  /\ at["worker"] = "selfremove"
  /\ job' = [job EXCEPT !.who = pending \cap members]
  /\ Goto("worker", IF pending \cap members = {} THEN "check" ELSE "remove")
  /\ UNCHANGED <<now, rows, packageVars, leaveVars, fetched, used>>

\* ... the commit that removes them, which takes them off the list too ...
RemovePending ==
  /\ at["worker"] = "remove" /\ Goto("worker", "check")
  /\ members' = members \ job.who /\ pending' = pending \ job.who
  /\ UNCHANGED <<now, rows, job, flag, owed, packageVars, fetched, used>>

RemoveFails ==
  /\ at["worker"] = "remove" /\ Goto("worker", "idle") /\ Fault
  /\ RetryLater /\ job' = Idle
  /\ UNCHANGED <<now, packageVars, leaveVars, fetched>>

\* ... and cleanup_pending_removal_list, which clears the flag if nobody is
\* left on the list it has read.
CheckList ==
  /\ at["worker"] = "check"
  /\ pending' = pending \cap members
  /\ Goto("worker", IF pending' = {} THEN "clear" ELSE "finish")
  /\ UNCHANGED <<now, rows, job, members, flag, owed, packageVars, fetched, used>>

ClearFlag ==
  /\ at["worker"] = "clear" /\ Goto("worker", "finish")
  /\ flag' = FALSE
  /\ UNCHANGED <<now, rows, job, pending, members, owed, packageVars, fetched, used>>

-----------------------------------------------------------------------------
\* Somebody fetches the package to add this installation to a group.
Fetch ==
  /\ Event
  /\ fetched' = fetched \cup {[kp |-> network, at |-> now]}
  /\ UNCHANGED <<now, rows, at, job, packageVars, leaveVars>>

\* The process dies and is started again.
Restart ==
  /\ Fault
  /\ at' = [a \in Actors |-> "idle"] /\ job' = Idle
  /\ rows' = Reconciled(rows)
  /\ UNCHANGED <<now, packageVars, leaveVars, fetched>>

WorkerStep ==
  \/ Pick \/ ApplyPullIn \/ Finish
  \/ (~Blocked("worker") /\ StartRotation) \/ Record("worker") \/ Uploaded("worker") \/ MarkSuperseded("worker")
  \/ ResetQueue("worker") \/ NudgeDeletion("worker") \/ ReadDeadline \/ Reschedule
  \/ SweepKeys \/ PurgeHistory \/ ParkDeletion
  \/ ListPending \/ RemovePending \/ CheckList \/ ClearFlag

AppStep ==
  \/ AppRotates \/ Record("app") \/ Uploaded("app") \/ MarkSuperseded("app") \/ ResetQueue("app")
  \/ NudgeDeletion("app")

Next ==
  \/ Tick \/ WorkerStep \/ AppStep \/ QueueRotation \/ Fetch \/ Restart
  \/ \E a \in Actors : UploadFails(a)
  \/ RemoveFails
  \/ \E m \in Leavers : LeaveRequest(m) \/ OtherAdminRemoves(m)

Spec == Init /\ [][Next]_vars

-----------------------------------------------------------------------------
(* Properties *)

\* Whoever adds this installation with the package the network hands out now
\* can be answered: its private keys are not swept.  (sweep_expired deletes
\* by mark, and rotate_and_upload_key_package marks by id.)
CurrentPackageUsable == network \in keys

\* A welcome that arrives within the grace period of the fetch can be opened,
\* also when uploads failed half-way, were repeated or raced a restart.
WelcomeOpens == \A f \in fetched : now < f.at + Grace => f.kp \in keys

\* The private keys of a package that others have been given never outlive its
\* row in the history: the sweep would not find them.  (sweep_expired deletes
\* every row up to the largest expired id, marked or not.)
NoOrphanKeys ==
  keys \cap ({network} \cup {f.kp : f \in fetched}) \subseteq DOMAIN history

\* The task p is run by deadline d, or at the latest after one backoff.
OnTime(p, d) ==
  /\ p \in DOMAIN rows
  /\ \/ rows[p].next <= d \/ rows[p].next <= now + Backoff
     \/ \E q \in DOMAIN rows : q[1] = "pullin" /\ q[2] = p /\ q[3] <= d

\* A rotation that is asked for is not lost, whatever the worker is doing
\* when the welcome sync lowers the column, and whenever the process dies.
RotationScheduled == column # Null => OnTime(Rotation, column)

\* Nor is the deletion of superseded packages, once the rotation that marks
\* them has got as far as its nudge.
DeletionScheduled ==
  MarkedForDeletion(history) # {} =>
    \/ OnTime(Deletion, Min(MarkedForDeletion(history)))
    \/ \E a \in Actors : at[a] \in {"reset", "nudge"}

\* The worker has not yet read the list of those who want to leave.
Unread == at["worker"] = "selfremove" /\ job.row = SelfRemove

\* A request that was given a task of its own is not forgotten while the task
\* may run: a worker still busy with a dead row of the same payload does not
\* take the fresh row with it.
OwnTaskKept ==
  \A m \in owed \cap pending \cap members :
    SelfRemove \in DOMAIN rows \/ Unread

\* A request to leave is not forgotten: as long as the member is there, either
\* the flag the builder's backfill goes by is set or a task is in the table.
\* ("avoids racing a concurrent LeaveRequest insert and wrongly clearing the
\* flag", process_pending_self_removals.)
LeaveRemembered ==
  pending \cap members # {} => flag \/ SelfRemove \in DOMAIN rows
=============================================================================
