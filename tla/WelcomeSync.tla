---------------------------- MODULE WelcomeSync ----------------------------
(***************************************************************************)
(* How an installation joins groups: welcomes are read from its topic by   *)
(* sync_welcomes, which moves the welcome cursor, by subscriptions, which  *)
(* do not and which process several welcomes at once, and by the task of a *)
(* welcome pointer whose data was not there yet.  No lock is held between  *)
(* the check of a welcome and the transaction that stores the group.       *)
(*                                                                         *)
(* Of a group only our own membership is modelled: the commits at odd      *)
(* positions of its topic add this installation, those at even positions   *)
(* remove it.  A position is also the epoch the commit leads to.           *)
(***************************************************************************)
EXTENDS Integers, Sequences, FiniteSets, SequencesExt, TLC

CONSTANTS
  Groups,       \* group ids
  ReaderSets,   \* the sets of readers an installation may use
  Mixed,        \* whether several readers may meet several welcomes of a group
  MaxLen,       \* bound: MaxLen[g] membership changes of group g
  MaxQueued,    \* bound on tasks under way to the worker
  MaxFaults     \* bound on errors, crashes and expired tasks

ASSUME WelcomeAssumption ==
  /\ IsFiniteSet(Groups)
  /\ \A R \in ReaderSets : "sync" \in R /\ R \subseteq {"sync", "stream1", "stream2", "task"}
  /\ Mixed \in BOOLEAN /\ MaxLen \in [Groups -> Nat]
  /\ MaxQueued \in Nat \ {0} /\ MaxFaults \in Nat

VARIABLES
  readers,   \* who reads welcomes here
  len,       \* len[g]: membership changes so far
  topic,     \* the welcomes sent to this installation
  pointees,  \* the welcome pointers whose data can be fetched
  wcursor,   \* refresh state: the welcome cursor
  ccursor,   \* refresh state: the commit cursor of each group
  row,       \* the groups table
  mls,       \* the MLS state of each group: its epoch and whether it is active
  at,        \* where each reader is
  batch,     \* the welcomes sync_welcomes still has to process
  channel,   \* tasks the worker has not stored yet (in memory)
  tasks,     \* ProcessWelcomePointer rows
  left,      \* (history) the epoch in which the user last asked to leave
  agreed,    \* (history) whether the user has consented since
  lost,      \* (history) welcomes whose task expired or died with the process
  faults

vars == <<readers, len, topic, pointees, wcursor, ccursor, row, mls, at, batch,
          channel, tasks, left, agreed, lost, faults>>

network == <<readers, len, topic, pointees>>
user == <<left, agreed>>

Adds(pos) == pos % 2 = 1

NoRow == [seq |-> 0, membership |-> "none", consent |-> "unknown"]
Restored == [NoRow EXCEPT !.membership = "Restored"]
Exists(g) == row[g] # NoRow

Idle == [step |-> "idle", seq |-> 0]

\* All groups unknown, or all restored from an archive (bound: not with the worker).
Init ==
  /\ readers \in ReaderSets
  /\ len = [g \in Groups |-> 0] /\ topic = << >> /\ pointees = {}
  /\ wcursor = 0 /\ ccursor = [g \in Groups |-> 0]
  /\ \E old \in {NoRow} \union (IF "task" \in readers THEN {} ELSE {Restored}) :
       row = [g \in Groups |-> old]
  /\ mls = [g \in Groups |-> [epoch |-> 0, active |-> FALSE]]
  /\ at = [r \in readers |-> Idle] /\ batch = << >>
  /\ channel = << >> /\ tasks = {}
  /\ left = [g \in Groups |-> 0] /\ agreed = [g \in Groups |-> FALSE]
  /\ lost = {} /\ faults = 0

Fault == faults < MaxFaults /\ faults' = faults + 1

-----------------------------------------------------------------------------
(* The other members *)

\* Bound: leaving and being added again is left to instances with one reader.
MayReturn == Mixed \/ readers = {"sync"}

ChangeMembership(g) ==
  /\ len[g] < MaxLen[g] /\ (MayReturn \/ len[g] < 2)
  /\ len' = [len EXCEPT ![g] = @ + 1]
  /\ UNCHANGED <<readers, topic, pointees, wcursor, ccursor, row, mls, at, batch,
                 channel, tasks, user, lost, faults>>

\* The welcomes of a group are sent in the order of the commits they are for.
\* One may not decrypt, and one may be a pointer to data sent later (bound: not
\* both in one instance).
SendWelcome(g) ==
  LET sent == {k \in DOMAIN topic : topic[k].group = g}
      pos == 2 * Cardinality(sent) + 1
      kinds == {"inline", IF "task" \in readers THEN "pointer" ELSE "bad"}
  IN /\ pos <= len[g]
     /\ \E kind \in kinds :
          topic' = Append(topic, [group |-> g, epoch |-> pos, kind |-> kind])
     /\ UNCHANGED <<readers, len, pointees, wcursor, ccursor, row, mls, at, batch,
                    channel, tasks, user, lost, faults>>

SendPointee(seq) ==
  /\ seq \in DOMAIN topic \ pointees /\ topic[seq].kind = "pointer"
  /\ pointees' = pointees \union {seq}
  /\ UNCHANGED <<readers, len, topic, wcursor, ccursor, row, mls, at, batch,
                 channel, tasks, user, lost, faults>>

-----------------------------------------------------------------------------
(* What else happens to a group that was joined *)

\* One step of a group sync (module GroupSync): the next commit is merged if
\* it is the one after the group's epoch.
SyncGroup(g) ==
  /\ Exists(g) /\ mls[g].active /\ ccursor[g] < len[g]
  /\ ccursor' = [ccursor EXCEPT ![g] = @ + 1]
  /\ mls' = IF mls[g].epoch = ccursor[g]
            THEN [mls EXCEPT ![g] = [epoch |-> ccursor'[g], active |-> Adds(ccursor'[g])]]
            ELSE mls
  /\ UNCHANGED <<network, wcursor, row, at, batch, channel, tasks, user, lost, faults>>

\* The user's own leave request comes back and is processed.
Leave(g) ==
  /\ MayReturn /\ Exists(g) /\ mls[g].active /\ row[g].membership # "PendingRemove"
  /\ row' = [row EXCEPT ![g].membership = "PendingRemove"]
  /\ left' = [left EXCEPT ![g] = mls[g].epoch]
  /\ agreed' = [agreed EXCEPT ![g] = FALSE]
  /\ UNCHANGED <<network, wcursor, ccursor, mls, at, batch, channel, tasks, lost, faults>>

Consent(g) ==
  /\ MayReturn /\ Exists(g) /\ mls[g].active /\ row[g].consent = "unknown"
  /\ row' = [row EXCEPT ![g].consent = "allowed"]
  /\ agreed' = [agreed EXCEPT ![g] = TRUE]
  /\ UNCHANGED <<network, wcursor, ccursor, mls, at, batch, channel, tasks, left, lost, faults>>

-----------------------------------------------------------------------------
(* Processing a welcome *)

CursorIncrement(r) == r = "sync"
Resuming(r) == r = "task"

\* update_cursor, which never moves back.
MoveCursor(r, seq) ==
  wcursor' = IF CursorIncrement(r) /\ seq > wcursor THEN seq ELSE wcursor

\* The reader is done with its welcome; a task is deleted if it succeeded.
Done(r, ok) ==
  /\ at' = [at EXCEPT ![r] = Idle]
  /\ tasks' = IF r = "task" /\ ok THEN tasks \ {at[r].seq} ELSE tasks

SyncWelcomes ==
  /\ at["sync"] = Idle /\ batch = << >> /\ wcursor < Len(topic)
  /\ batch' = [k \in 1..(Len(topic) - wcursor) |-> wcursor + k]
  /\ UNCHANGED <<network, wcursor, ccursor, row, mls, at, channel, tasks, user, lost, faults>>

\* What the reader takes up next: the batch in order, whatever a subscription
\* delivers, a stored task.
Takes(r) ==
  CASE r = "sync" -> IF batch = << >> THEN {} ELSE {Head(batch)}
    [] r = "task" -> tasks
    [] OTHER -> IF Len(channel) < MaxQueued THEN DOMAIN topic ELSE {}

\* check_if_processed: a welcome below the cursor whose group is known under
\* its id is answered from the database.
Begin(r, seq) ==
  /\ at[r] = Idle /\ seq \in Takes(r)
  /\ batch' = IF r = "sync" THEN Tail(batch) ELSE batch
  /\ LET known == ~Resuming(r) /\ wcursor >= seq /\ row[topic[seq].group].seq = seq
     IN at' = IF known THEN at ELSE [at EXCEPT ![r] = [step |-> "validate", seq |-> seq]]
  /\ UNCHANGED <<network, wcursor, ccursor, row, mls, channel, tasks, user, lost, faults>>

Missing(seq) == topic[seq].kind = "pointer" /\ seq \notin pointees

\* We are in the group already, and not behind the welcome.
AlreadyIn(w) ==
  /\ Exists(w.group) /\ row[w.group].membership # "Restored"
  /\ mls[w.group].active /\ w.epoch <= mls[w.group].epoch

\* validate_membership.  A pointer without data is handed to the worker; every
\* failure here but a transient one is final and moves the cursor.
Validate(r) ==
  LET seq == at[r].seq
      w == topic[seq]
  IN /\ at[r].step = "validate"
     /\ IF Missing(seq) \/ w.kind = "bad" \/ AlreadyIn(w)
        THEN MoveCursor(r, seq) /\ Done(r, FALSE)
        ELSE at' = [at EXCEPT ![r].step = "commit"] /\ UNCHANGED <<wcursor, tasks>>
     /\ channel' = IF Missing(seq) /\ ~Resuming(r) THEN Append(channel, seq) ELSE channel
     /\ UNCHANGED <<network, ccursor, row, mls, batch, user, lost, faults>>

\* Mutant: a resumed pointer is measured by the cursor like any welcome.
RequiresProcessingByCursor(r, seq) == seq > wcursor

RequiresProcessing(r, seq) == Resuming(r) \/ seq > wcursor

\* Mutant: only a row without a welcome id counts as left.
ReaddWithoutId(seq) ==
  LET g == topic[seq].group
  IN row[g].membership = "PendingRemove" /\ row[g].seq = 0

Readd(seq) ==
  LET g == topic[seq].group
  IN row[g].membership = "PendingRemove" /\ row[g].seq # 0 /\ seq > row[g].seq

\* Mutant: a conflicting row is no error.
DuplicateAccepted(seq) == FALSE

\* insert_or_replace_group refuses the welcome the group was joined with.
Duplicate(seq) == row[topic[seq].group].seq = seq

\* The row after insert_or_replace_group and the change of a re-added member.
Stored(seq) ==
  LET old == row[topic[seq].group]
      new == [seq |-> seq, membership |-> "Pending", consent |-> "unknown"]
      raised == IF seq > old.seq THEN seq ELSE old.seq
  IN CASE old.membership \in {"none", "Restored"} -> new
       [] Readd(seq) -> [new EXCEPT !.membership = "Allowed"]
       [] OTHER -> [old EXCEPT !.seq = raised]

\* commit_or_fail_forever: one transaction.
Commit(r) ==
  LET seq == at[r].seq
      w == topic[seq]
      joins == RequiresProcessing(r, seq) /\ ~Duplicate(seq)
  IN /\ at[r].step = "commit"
     /\ MoveCursor(r, seq) /\ Done(r, joins)
     /\ IF joins
        THEN /\ mls' = [mls EXCEPT ![w.group] = [epoch |-> w.epoch, active |-> TRUE]]
             /\ row' = [row EXCEPT ![w.group] = Stored(seq)]
             /\ ccursor' = [ccursor EXCEPT ![w.group] = IF w.epoch > @ THEN w.epoch ELSE @]
        ELSE UNCHANGED <<mls, row, ccursor>>
     /\ UNCHANGED <<network, batch, channel, user, lost, faults>>

\* Mutant: the sync goes on with the next welcome.
TransientGoesOn(r) ==
  /\ at[r] # Idle /\ Fault
  /\ Done(r, FALSE)
  /\ UNCHANGED <<network, wcursor, ccursor, row, mls, batch, channel, user, lost>>

\* A retryable error that outlives its retries rolls everything back; the
\* sync stops there, so that no later welcome moves the cursor past this one.
Transient(r) ==
  /\ at[r] # Idle /\ Fault
  /\ Done(r, FALSE)
  /\ batch' = IF r = "sync" THEN << >> ELSE batch
  /\ UNCHANGED <<network, wcursor, ccursor, row, mls, channel, user, lost>>

-----------------------------------------------------------------------------
(* The worker and the process *)

StoreTask ==
  /\ channel # << >> /\ at["task"] = Idle
  /\ tasks' = tasks \union {Head(channel)} /\ channel' = Tail(channel)
  /\ UNCHANGED <<network, wcursor, ccursor, row, mls, at, batch, user, lost, faults>>

TaskExpires ==
  /\ at["task"] = Idle /\ Fault
  /\ \E seq \in tasks : tasks' = tasks \ {seq} /\ lost' = lost \union {seq}
  /\ UNCHANGED <<network, wcursor, ccursor, row, mls, at, batch, channel, user>>

Crash ==
  /\ Fault
  /\ at' = [r \in readers |-> Idle] /\ batch' = << >> /\ channel' = << >>
  /\ lost' = lost \union ToSet(channel)
  /\ UNCHANGED <<network, wcursor, ccursor, row, mls, tasks, user>>

ReaderStep(r) == (\E seq \in Takes(r) : Begin(r, seq)) \/ Validate(r) \/ Commit(r)

\* The worker takes up group g's task.
TaskOf(g) == "task" \in readers /\ \E seq \in tasks : topic[seq].group = g /\ Begin("task", seq)
TaskStep == "task" \in readers /\ (Validate("task") \/ Commit("task"))

Next ==
  \/ \E g \in Groups : ChangeMembership(g) \/ SendWelcome(g) \/ SyncGroup(g) \/ Leave(g) \/ Consent(g)
  \/ \E seq \in DOMAIN topic : SendPointee(seq)
  \/ SyncWelcomes \/ Crash
  \/ \E r \in readers : ReaderStep(r) \/ Transient(r)
  \/ "task" \in readers /\ (StoreTask \/ TaskExpires)

Spec == Init /\ [][Next]_vars

\* The application keeps syncing; the worker goes round: it stores what is in
\* its channel whenever it is between tasks, and a failed task is put back
\* behind the others.
Fairness ==
  /\ WF_vars(SyncWelcomes) /\ WF_vars(ReaderStep("sync"))
  /\ SF_vars("task" \in readers /\ StoreTask) /\ WF_vars(TaskStep)
  /\ \A g \in Groups : SF_vars(TaskOf(g))

FairSpec == Spec /\ Fairness

-----------------------------------------------------------------------------
(* Properties *)

\* A group's MLS state is the one its commit cursor names, whichever readers
\* race for its welcome: no stale welcome takes the group back to an epoch
\* whose commits will not be fetched again.  (validate_membership,
\* RequiresProcessing and insert_or_replace_group share the burden.)
StateAtCursor == \A g \in Groups : mls[g].epoch = ccursor[g]

\* A welcome at or below the cursor, which no query returns again, was joined,
\* overtaken by a later one of its group or does not decrypt, or a task will
\* see to it.  A task is safe once the worker has stored it, and until it
\* expires.
NothingLost ==
  \A seq \in 1..wcursor :
    LET w == topic[seq]
    IN \/ ccursor[w.group] >= w.epoch \/ w.kind = "bad"
       \/ seq \in tasks \union ToSet(channel) \union lost

\* Who has left a group and is added again is a member again, and is asked
\* for consent again.
LeaverAskedAgain ==
  \A g \in Groups : (mls[g].active /\ left[g] > 0 /\ mls[g].epoch > left[g]) =>
    row[g].membership # "PendingRemove" /\ (row[g].consent = "allowed" => agreed[g])

\* A welcome that decrypts, and whose data is there, is joined or overtaken in
\* the end, unless its task has expired or died with the process.
Joined ==
  \A g \in Groups : \A pos \in {p \in 1..MaxLen[g] : Adds(p)} :
    (\E seq \in DOMAIN topic :
       /\ topic[seq].group = g /\ topic[seq].epoch = pos /\ topic[seq].kind # "bad"
       /\ ~Missing(seq))
    ~> (ccursor[g] >= pos \/ \E seq \in lost : topic[seq].group = g)
=============================================================================
