----------------------------- MODULE CommitLog -----------------------------
(***************************************************************************)
(* The remote commit log of one group: how each installation publishes     *)
(* what it did with every commit (groups/commit_log.rs), downloads what    *)
(* the others published, decides from the two logs whether it has forked,  *)
(* and how a forked installation is removed and added again.               *)
(*                                                                         *)
(* An epoch is named by the sequence of commits applied to reach it, which *)
(* is what its epoch authenticator identifies: equal authenticators are    *)
(* equal histories, and the epoch number is the length.  A divergence      *)
(* starts when one installation refuses a commit the others apply (a       *)
(* difference of versions or of validation): action Receive with accept =  *)
(* FALSE, at most MaxGlitches times.                                       *)
(***************************************************************************)
EXTENDS Integers, FiniteSetsExt, SequencesExt

CONSTANTS
  Inst,         \* the installations of the group
  Creator,      \* the one that created it
  Admins,       \* the super admins: they publish, and answer requests
  None,         \* no key
  Recovery,     \* enable_recovery_requests # None
  OtherGroups,  \* the same worker may have entries of other groups to send
  Page,         \* MAX_PAGE_SIZE
  Committers,   \* bound: the installations that commit of their own accord
  Targets,      \* bound: the installations removed or added by an admin
  MaxProposed,  \* bound on the commits when an installation adds one itself
  MaxCommits,   \* bound on the commits of the group, the worker's included
  MaxLog,       \* bound on the entries of the remote log
  MaxGlitches,  \* bound on the divergences
  MaxFaults     \* bound on failed API calls and crashes of the worker

ASSUME InstAssumption ==
  /\ Creator \in Admins /\ Admins \subseteq Inst /\ None \notin Inst
  /\ Targets \subseteq Inst
ASSUME BoundAssumption == MaxProposed \in 0..MaxCommits /\ MaxCommits \in Nat \ {0} /\ Page \in Nat \ {0}

VARIABLES
  commits,   \* the group's commits, in the order of their sequence ids
  welcomes,  \* welcomes[i]: commits whose welcome for i was sent, unread
  mail,      \* mail[i]: readd requests sent to i, unread
  log,       \* the remote commit log, in the order of its sequence ids
  mls,       \* mls[i]: OpenMLS state: [hist, active], and the commit cursor
  rows,      \* rows[i]: local_commit_log, by rowid
  remote,    \* remote[i]: remote_commit_log as saved by i, by rowid
  cur,       \* cur[i]: the four commit log cursors of refresh_state
  keys,      \* keys[i]: [signer, consensus], the log's private and public key
  status,    \* status[i]: is_commit_log_forked
  asked,     \* asked[i][j]: requested_at_sequence_id in i's readd_status
  answered,  \* answered[i][j]: responded_at_sequence_id, 0 is NULL
  phase,     \* phase[i]: the next step of i's tick
  glitches, faults

logs == <<rows, remote, cur, keys, status>>
readds == <<asked, answered, mail>>
net == <<commits, welcomes, log>>
vars == <<net, mls, logs, readds, phase, glitches, faults>>

----------------------------------------------------------------------------
(* The group: its commits and what an installation's history implies. *)

\* The commits of a history that remove or add installation i.
Touching(h, i) == {c \in Range(h) : i \in commits[c].removes \cup commits[c].adds}

InTree(h, i) ==
  LET ts == Touching(h, i) IN ts # {} /\ i \in commits[Max(ts)].adds

\* commit_log_signer of the mutable metadata.
MetadataSigner(h) ==
  LET shares == {c \in Range(h) : commits[c].key # None}
  IN  IF shares = {} THEN None ELSE commits[Max(shares)].key

Commit(i, removes, adds, key) ==
  [by |-> i, base |-> mls[i].hist, removes |-> removes, adds |-> adds, key |-> key]

Row(type, seq, last, applied) ==
  [type |-> type, seq |-> seq, last |-> last, applied |-> applied]

\* commit_result = Success.
Success(row) == row.type # "Failed"

\* A group that was created with everyone in it: the first commit is the
\* creator's, the others joined by its welcome.
Init ==
  /\ commits = <<[by |-> Creator, base |-> <<>>, removes |-> {}, adds |-> Inst,
                  key |-> None]>>
  /\ welcomes = [i \in Inst |-> {}]
  /\ mail = [i \in Inst |-> {}]
  /\ log = <<>>
  /\ mls = [i \in Inst |-> [hist |-> <<1>>, active |-> TRUE, cursor |-> 1]]
  /\ rows = [i \in Inst |->
               IF i = Creator
               THEN <<Row("GroupCreation", 0, <<>>, <<>>), Row("Applied", 1, <<>>, <<1>>)>>
               ELSE <<Row("Welcome", 0, <<>>, <<1>>)>>]
  /\ remote = [i \in Inst |-> <<>>]
  /\ cur = [i \in Inst |-> [download |-> 0, upload |-> 0, local |-> 0, rem |-> 0]]
  /\ keys = [i \in Inst |-> [signer |-> None, consensus |-> None]]
  /\ status = [i \in Inst |-> "unknown"]
  /\ asked = [i \in Inst |-> [j \in Inst |-> 0]]
  /\ answered = [i \in Inst |-> [j \in Inst |-> 0]]
  /\ phase = [i \in Inst |-> "save"]
  /\ glitches = 0
  /\ faults = 0

----------------------------------------------------------------------------
(* The group's life outside the worker. *)

Synced(i) == mls[i].cursor = Len(commits)

\* An installation commits on the epoch it is at.
Propose(i) ==
  /\ i \in Committers
  /\ mls[i].active
  /\ Len(commits) < MaxProposed
  /\ \/ commits' = Append(commits, Commit(i, {}, {}, None))
     \/ /\ i \in Admins
        /\ \E j \in Targets \ Admins :
             \/ /\ InTree(mls[i].hist, j)
                /\ commits' = Append(commits, Commit(i, {j}, {}, None))
             \/ /\ ~InTree(mls[i].hist, j)
                /\ commits' = Append(commits, Commit(i, {}, {j}, None))
  /\ UNCHANGED <<welcomes, log, mls, logs, readds, phase, glitches, faults>>

\* mark_readd_requests_as_responded, for the installations a commit readds.
MarkAnswered(i, js, c) ==
  [answered EXCEPT ![i] = [j \in Inst |->
     IF j \in js THEN Max({c, answered[i][j]}) ELSE answered[i][j]]]

\* mark_failed_commit_logged keeps nothing while the installation catches up
\* with the commit it was welcomed by.
FailedRows(i, c) ==
  IF Len(commits[c].base) <= Len(mls[i].hist) /\ Last(rows[i]).type = "Welcome"
  THEN rows[i]
  ELSE Append(rows[i], Row("Failed", c, mls[i].hist, mls[i].hist))

\* The next commit is processed: merge_staged_commit_logged if it applies.
Receive(i, accept) ==
  LET c == mls[i].cursor + 1
      h == mls[i].hist
      merged == Append(h, c)
  IN  /\ mls[i].active
      /\ ~Synced(i)
      /\ accept => commits[c].base = h
      /\ \/ /\ accept
            /\ i \in commits[c].removes
            /\ mls' = [mls EXCEPT ![i].active = FALSE, ![i].cursor = c]
            /\ rows' = [rows EXCEPT ![i] = Append(@, Row("RemovedFromGroup", c, h, h))]
            /\ answered' = MarkAnswered(i, commits[c].removes \cap commits[c].adds, c)
            /\ UNCHANGED <<welcomes, glitches>>
         \/ /\ accept
            /\ i \notin commits[c].removes
            /\ mls' = [mls EXCEPT ![i].hist = merged, ![i].cursor = c]
            /\ rows' = [rows EXCEPT ![i] = Append(@, Row("Applied", c, h, merged))]
            /\ answered' = MarkAnswered(i, commits[c].removes \cap commits[c].adds, c)
            /\ welcomes' = IF commits[c].by = i
                           THEN [j \in Inst |-> welcomes[j] \cup
                                   (IF j \in commits[c].adds THEN {c} ELSE {})]
                           ELSE welcomes
            /\ UNCHANGED glitches
         \/ /\ ~accept
            /\ mls' = [mls EXCEPT ![i].cursor = c]
            /\ rows' = [rows EXCEPT ![i] = FailedRows(i, c)]
            /\ \/ commits[c].base # h /\ UNCHANGED glitches
               \/ /\ commits[c].base = h
                  /\ commits[c].by # i
                  /\ glitches < MaxGlitches
                  /\ glitches' = glitches + 1
            /\ UNCHANGED <<welcomes, answered>>
      /\ UNCHANGED <<commits, log, remote, cur, keys, status, asked, mail, phase, faults>>

\* A welcome: from_welcome_logged, the commit cursor, and the readd answered.
\* insert_or_replace_group leaves the fork status of the group it finds.
Welcome(i) ==
  LET c == Min(welcomes[i])
      h == Append(commits[c].base, c)
  IN  /\ welcomes[i] # {}
      /\ welcomes' = [welcomes EXCEPT ![i] = @ \ {c}]
      /\ mls' = [mls EXCEPT ![i] = [hist |-> h, active |-> TRUE,
                                    cursor |-> Max({c, mls[i].cursor})]]
      /\ rows' = [rows EXCEPT ![i] = Append(@, Row("Welcome", 0, <<>>, h))]
      /\ answered' = MarkAnswered(i, {i}, c)
      /\ UNCHANGED <<commits, log, remote, cur, keys, status, asked, mail, phase,
                     glitches, faults>>

\* Oneshot::process_message with a readd request.
OneshotArrives(i) ==
  \E m \in mail[i] :
    /\ mail' = [mail EXCEPT ![i] = @ \ {m}]
    /\ asked' = IF InTree(mls[i].hist, m.from)
                THEN [asked EXCEPT ![i][m.from] = Max({m.seq, @})]
                ELSE asked
    /\ UNCHANGED <<net, mls, logs, answered, phase, glitches, faults>>

----------------------------------------------------------------------------
(* The worker's tick: save_remote_commit_log. *)

Then(i, p) == phase' = [phase EXCEPT ![i] = p]

\* The tick fails or the process dies: the next one starts over.
Fault(i) ==
  /\ faults < MaxFaults
  /\ faults' = faults + 1
  /\ Then(i, "save")

\* Mutant: an entry whose commit was already saved is not recognised.
SkipForgetsSequence(saved, e, key) ==
  \/ e.key # key
  \/ /\ saved # <<>>
     /\ LET latest == Last(saved)
        IN  \/ e.ok /\ e.last # latest.applied
            \/ e.ok /\ Len(e.applied) # Len(latest.applied) + 1
            \/ ~e.ok /\ e.applied # latest.applied

\* should_skip_remote_commit_log_entry.
Skip(saved, e, key) ==
  \/ e.key # key
  \/ /\ saved # <<>>
     /\ LET latest == Last(saved)
        IN  \/ e.seq <= latest.seq
            \/ e.ok /\ e.last # latest.applied
            \/ e.ok /\ Len(e.applied) # Len(latest.applied) + 1
            \/ ~e.ok /\ e.applied # latest.applied

\* save_remote_commit_log_entries_and_update_cursors, for a page of entries.
Save(saved, e, key) ==
  IF Skip(saved, e, key) THEN saved
  ELSE Append(saved, [seq |-> e.seq, ok |-> e.ok, applied |-> e.applied])

SavePage(saved, page, key) ==
  LET after[n \in 0..Len(page)] ==
        IF n = 0 THEN saved ELSE Save(after[n - 1], page[n], key)
  IN  after[Len(page)]

\* derive_consensus_public_key: the first entry ever downloaded decides.
ConsensusKey(i, page) ==
  IF keys[i].consensus # None THEN keys[i].consensus ELSE page[1].key

\* maybe_share_private_key: our key won and the group does not have it yet.
MustShare(i, key) ==
  /\ keys[i].consensus = None
  /\ keys[i].signer = key
  /\ MetadataSigner(mls[i].hist) # key

SaveRemoteCommitLog(i) ==
  LET from == cur[i].download
      page == SubSeq(log, from + 1, Min({from + Page, Len(log)}))
      key  == ConsensusKey(i, page)
  IN  /\ phase[i] = "save"
      /\ \/ /\ page = <<>>
            /\ Then(i, "check")
            /\ UNCHANGED <<commits, remote, cur, keys, faults>>
         \/ /\ page # <<>>
            /\ IF MustShare(i, key)
               THEN /\ mls[i].active /\ Synced(i)
                    /\ Len(commits) < MaxCommits
                    /\ commits' = Append(commits, Commit(i, {}, {}, key))
               ELSE UNCHANGED commits
            /\ keys' = [keys EXCEPT ![i].consensus = key]
            /\ \/ /\ remote' = [remote EXCEPT ![i] = SavePage(@, page, key)]
                  /\ cur' = [cur EXCEPT ![i].download = from + Len(page)]
                  /\ Then(i, "check")
                  /\ UNCHANGED faults
               \/ /\ \E n \in 1..Len(page) :
                       remote' = [remote EXCEPT ![i] = SavePage(@, SubSeq(page, 1, n), key)]
                  /\ Fault(i)
                  /\ UNCHANGED cur
      /\ UNCHANGED <<welcomes, log, mls, rows, status, readds, glitches>>

----------------------------------------------------------------------------
(* update_forked_state. *)

\* get_latest_chain_start_rowid.
ChainStart(i) == Max({n \in DOMAIN rows[i] : rows[i][n].seq = 0})

\* find_matching_remote_log, among the rows after the remote cursor.
Matching(i, seq) == {m \in DOMAIN remote[i] : m > cur[i].rem /\ remote[i][m].seq = seq}

\* Mutant: a commit that removed us is compared like any other.
NeverTerminal(row) == FALSE

\* The terminal removal marker.
RemovesUs(row) == Success(row) /\ row.applied = row.last

\* Mutant: epoch numbers are compared in place of authenticators.
SameNumber(row, saved) == Len(row.applied) = Len(saved.applied)

\* is_mismatched, negated.
SameEpoch(row, saved) == row.applied = saved.applied

\* Mutant: a new chain start keeps the verdict on the old chain.
KeptAlways(i) == status[i]

\* The verdict when no local row is left to check.
Kept(i) == IF ChainStart(i) > cur[i].local THEN "unknown" ELSE status[i]

\* Local row n is the newest one that the saved log has too, as row m.
Matched(i, n, m, fresh) ==
  LET removals == {k \in fresh : RemovesUs(rows[i][k])}
  IN  [local |-> Max({n} \cup removals),
       rem |-> Max({m, cur[i].rem}),
       verdict |-> IF ~SameEpoch(rows[i][n], remote[i][m]) THEN "forked"
                   ELSE IF \A k \in fresh \ removals : k <= n THEN "clean"
                   ELSE "unknown"]

\* check_conversation_fork_state.  The walk over the local rows goes from the
\* newest down to the first one that the saved remote log also has.
CheckForkState(i) ==
  LET floor    == Max({cur[i].local, ChainStart(i)})
      fresh    == {n \in DOMAIN rows[i] : n > floor /\ rows[i][n].seq # 0}
      removals == {n \in fresh : RemovesUs(rows[i][n])}
      matches  == {n \in fresh \ removals : Matching(i, rows[i][n].seq) # {}}
  IN  IF fresh = {}
      THEN [local |-> floor, rem |-> cur[i].rem, verdict |-> Kept(i)]
      ELSE IF matches = {}
      THEN [local |-> Max({floor} \cup removals), rem |-> cur[i].rem, verdict |-> "unknown"]
      ELSE Matched(i, Max(matches), Max(Matching(i, rows[i][Max(matches)].seq)), fresh)

MoveForkCursors(i, check) ==
  cur' = [cur EXCEPT ![i].local = check.local, ![i].rem = check.rem]

\* A group already known to be forked is not checked again.
UpdateForkedState(i) ==
  /\ phase[i] = "check"
  /\ IF status[i] = "forked"
     THEN UNCHANGED <<cur, status>>
     ELSE LET check == CheckForkState(i)
          IN  /\ MoveForkCursors(i, check)
              /\ status' = [status EXCEPT ![i] = check.verdict]
  /\ Then(i, "publish")
  /\ UNCHANGED <<net, mls, rows, remote, keys, readds, glitches, faults>>

----------------------------------------------------------------------------
(* publish_commit_logs_to_remote. *)

\* get_or_create_signing_key; a key that is generated is named by its owner.
SigningKey(i) ==
  LET fits(k) == k # None /\ keys[i].consensus \in {None, k}
      shared  == MetadataSigner(mls[i].hist)
  IN  IF fits(keys[i].signer) THEN keys[i].signer
      ELSE IF fits(shared) THEN shared
      ELSE IF keys[i].consensus = None THEN i
      ELSE None

\* The key that is in the key store afterwards.
StoredKey(i) == IF SigningKey(i) = None THEN keys[i].signer ELSE SigningKey(i)

\* get_local_commit_log_after_cursor for the upload cursor.
Unpublished(i) == {n \in DOMAIN rows[i] : n > cur[i].upload /\ rows[i][n].seq # 0}

\* Mutant: only applied commits are published.
AppliedOnly(row) == row.type = "Applied"

Publishable(row) == row.type # "RemovedFromGroup"

\* The k-th of a set of row ids, in ascending order.
Nth(S, k) == CHOOSE n \in S : Cardinality({m \in S : m <= n}) = k

\* prepare_publish_commit_log_info and sign_group_logs.
SignedEntries(i) ==
  LET key == SigningKey(i)
      ns  == {n \in Unpublished(i) : Publishable(rows[i][n])}
      entry(n) == [seq |-> rows[i][n].seq, ok |-> Success(rows[i][n]),
                   last |-> rows[i][n].last, applied |-> rows[i][n].applied, key |-> key]
  IN  IF key = None THEN <<>> ELSE [k \in 1..Cardinality(ns) |-> entry(Nth(ns, k))]

PublishCommitLogs(i) ==
  LET entries == SignedEntries(i)
  IN  /\ phase[i] = "publish"
      /\ IF i \notin Admins \/ Unpublished(i) = {}
         THEN Then(i, "request") /\ UNCHANGED <<log, cur, keys, faults>>
         ELSE /\ keys' = [keys EXCEPT ![i].signer = StoredKey(i)]
              /\ \E others \in (IF OtherGroups THEN BOOLEAN ELSE {FALSE}) :
                   IF entries = <<>> /\ ~others
                   THEN Then(i, "request") /\ UNCHANGED <<log, cur, faults>>
                   ELSE \/ /\ Len(log) + Len(entries) <= MaxLog
                           /\ log' = log \o entries
                           /\ \/ /\ cur' = [cur EXCEPT ![i].upload = Max(Unpublished(i))]
                                 /\ Then(i, "request")
                                 /\ UNCHANGED faults
                              \/ Fault(i) /\ UNCHANGED cur
                        \/ Fault(i) /\ UNCHANGED <<log, cur>>
      /\ UNCHANGED <<commits, welcomes, mls, rows, remote, status, readds, glitches>>

----------------------------------------------------------------------------
(* send_outgoing_readd_requests and handle_incoming_pending_readds. *)

\* Mutant: an answer does not settle the request.
AwaitingForever(i, j) == asked[i][j] # 0

\* is_awaiting_readd.
Awaiting(i, j) == asked[i][j] # 0 /\ asked[i][j] >= answered[i][j]

RequestReadd(i) ==
  LET latest == Max({remote[i][m].seq : m \in DOMAIN remote[i]})
  IN  /\ phase[i] = "request"
      /\ IF ~Recovery \/ status[i] # "forked" \/ Awaiting(i, i)
         THEN Then(i, "respond") /\ UNCHANGED <<asked, mail, faults>>
         ELSE /\ mail' = [j \in Inst |->
                            IF j \in Admins \ {i}
                            THEN mail[j] \cup {[from |-> i, seq |-> latest]} ELSE mail[j]]
              /\ \/ /\ asked' = [asked EXCEPT ![i][i] = Max({latest, @})]
                    /\ Then(i, "respond")
                    /\ UNCHANGED faults
                 \/ Fault(i) /\ UNCHANGED asked
      /\ UNCHANGED <<net, mls, logs, answered, glitches>>

\* The checks of validate_pending_readds that drop every request of a group.
Refused(i, check) == ~mls[i].active \/ i \notin Admins \/ check.verdict = "forked"

\* handle_incoming_pending_readds, once the group is synced.  The check of
\* validate_pending_readds moves the fork cursors and keeps no verdict.
RespondReadds(i) ==
  LET check    == CheckForkState(i)
      pending  == {j \in Inst \ {i} : Awaiting(i, j)}
      verified == {j \in pending : InTree(mls[i].hist, j)}
  IN  /\ phase[i] = "respond"
      /\ \/ /\ \A j \in Inst : ~Awaiting(i, j)
            /\ UNCHANGED <<commits, cur, asked, answered>>
         \/ /\ \E j \in Inst : Awaiting(i, j)
            /\ mls[i].active => Synced(i)
            /\ IF mls[i].active /\ i \in Admins
               THEN MoveForkCursors(i, check) ELSE UNCHANGED cur
            /\ LET gone == IF Refused(i, check) THEN Inst \ {i}
                           ELSE IF check.verdict = "unknown" THEN {}
                           ELSE pending \ verified
               IN  /\ asked' = [asked EXCEPT ![i] = [j \in Inst |->
                                  IF j \in gone THEN 0 ELSE asked[i][j]]]
                   /\ answered' = [answered EXCEPT ![i] = [j \in Inst |->
                                  IF j \in gone THEN 0 ELSE answered[i][j]]]
            /\ IF ~Refused(i, check) /\ check.verdict = "clean" /\ verified # {}
               THEN /\ Len(commits) < MaxCommits
                    /\ commits' = Append(commits, Commit(i, verified, verified, None))
               ELSE UNCHANGED commits
      /\ Then(i, "save")
      /\ UNCHANGED <<welcomes, log, mls, rows, remote, keys, status, mail, glitches, faults>>

----------------------------------------------------------------------------
Tick(i) ==
  \/ SaveRemoteCommitLog(i)
  \/ UpdateForkedState(i)
  \/ PublishCommitLogs(i)
  \/ RequestReadd(i)
  \/ RespondReadds(i)

Follow(i) ==
  \/ \E accept \in BOOLEAN : Receive(i, accept)
  \/ Welcome(i)
  \/ OneshotArrives(i)

Next == \E i \in Inst : Propose(i) \/ Follow(i) \/ Tick(i)

Spec == Init /\ [][Next]_vars

----------------------------------------------------------------------------
(* Properties. *)

\* Nobody is declared forked while no installation has diverged: removals,
\* rejoins, lost races, republished entries and crashes are not forks.
\* (check_conversation_fork_state: terminal removal marker and chain start.)
NoFalseAlarm == glitches = 0 => \A i \in Inst : status[i] # "forked"

\* What two installations saved of the remote log never disagrees, whatever
\* the pages and crashes they saved it through: one is a prefix of the other,
\* under one consensus key, each commit appears once and extends the chain.
\* (save_remote_commit_log_entries_and_update_cursors.)
ConsensusAgrees ==
  \A i, j \in Inst :
    /\ IsPrefix(remote[i], remote[j]) \/ IsPrefix(remote[j], remote[i])
    /\ {keys[i].consensus, keys[j].consensus} \ {None} = {}
         \/ \E k \in Inst : {keys[i].consensus, keys[j].consensus} \subseteq {k, None}
    /\ \A m, n \in DOMAIN remote[i] : m < n => remote[i][m].seq < remote[i][n].seq

\* Every local row the fork check can see has been compared or passed.
Checked(i) == cur[i].local = Len(rows[i])

\* A clean verdict with nothing left to check means that the epoch the
\* installation is at is one the saved consensus knows.
\* (check_conversation_fork_state preserves a verdict when no row is new.)
CleanIsClean ==
  \A i \in Inst :
    (status[i] = "clean" /\ Checked(i) /\ mls[i].active)
      => \E m \in DOMAIN remote[i] : remote[i][m].applied = mls[i].hist

\* The upload cursor only passes entries that are in the remote log (or the
\* markers that must not be): publish_commit_logs_to_remote retries the rest.
UploadCursorHonest ==
  \A i \in Admins : \A n \in 1..cur[i].upload :
    (rows[i][n].seq # 0 /\ rows[i][n].type # "RemovedFromGroup")
      => \E k \in DOMAIN log :
           log[k].seq = rows[i][n].seq /\ log[k].applied = rows[i][n].applied

\* The commits of a history that remove an installation and add it again.
Readds(h, j) == {c \in Range(h) : j \in commits[c].removes \cap commits[c].adds}

\* One request is answered once, however often it is sent, delivered late or
\* retried: an installation is added again a second time only after it has
\* seen the first time in the consensus and asked again.
\* (is_awaiting_readd, mark_readd_requests_as_responded, request_readd.)
AnsweredOnce ==
  \A i, j \in Inst : \A c, d \in Readds(mls[i].hist, j) :
    c < d => \E m \in DOMAIN remote[j] : remote[j][m].seq >= c

\* Two installations are on incompatible histories.
Diverged(i, j) ==
  /\ mls[i].active /\ mls[j].active
  /\ ~IsPrefix(mls[i].hist, mls[j].hist) /\ ~IsPrefix(mls[j].hist, mls[i].hist)

\* i has received, saved, published and checked all there is.
Settled(i) ==
  /\ mls[i].active => Synced(i)
  /\ welcomes[i] = {}
  /\ cur[i].download = Len(log)
  /\ i \in Admins => Unpublished(i) = {} \/ SigningKey(i) = None
  /\ status[i] = CheckForkState(i).verdict

\* A divergence does not go unnoticed: when everybody has published,
\* downloaded and checked everything and two installations are on
\* incompatible histories, somebody has been declared forked.
\* (tick: the verdicts of all the members together, through the remote log.)
DivergenceNoticed ==
  (\A i \in Inst : Settled(i)) =>
    \A i, j \in Inst : Diverged(i, j) => \E k \in Inst : status[k] = "forked"

=============================================================================
