---------------------- MODULE GroupSyncHistory_proofs ----------------------
(***************************************************************************)
(* The history of the group: GroupSync implements GroupLedger, a guarded   *)
(* update is in the history only where its guard held, and nobody merges   *)
(* a commit that asks for a newer library.                                 *)
(***************************************************************************)
EXTENDS GroupSyncLedger_proofs

-----------------------------------------------------------------------------
(* The life of a row.  Every step of client c moves each of its rows by    *)
(* one of these or not at all.                                             *)

(* Nothing was published: one more attempt, or the end of them. *)
Unpublished(old, new) ==
  /\ old.state = "ToPublish" /\ new.post = old.post
  /\ new.state \in {"ToPublish", "Error", "Superseded"}

(* The row asked for what c's state already has. *)
FoundDone(c, old, new) ==
  /\ old.state = "ToPublish" /\ new.state = "Processed"
  /\ NoChange(old.op, hist[c])

(* A payload is made from c's state. *)
MadePayload(c, old, new) ==
  /\ old.state = "ToPublish" /\ new.state = "Published"
  /\ new.base = hist[c] /\ new.hash = fresh
  /\ new.post <=> old.op.kind = "UpdateGroupMembership"
  /\ ~NothingToPublish(old.op, hist[c])

(* The payload did not reach the topic. *)
NeverSent(old, new) ==
  /\ old.state = "Published" /\ new.state \in {"ToPublish", "Error"}
  /\ \A k \in DOMAIN log : log[k].id # old.hash

(* Envelope pos, which is dealt with for good or streamed, is the payload. *)
Echoed(c, old, new, pos) ==
  /\ old.state = "Published" /\ log[pos].id = old.hash
  /\ new = Resolved(old, log[pos], hist[c], pos)
  /\ \/ Processing(c, pos) /\ Handled(c, pos)
     \/ Streaming /\ ~IsCommit(log[pos])

(* Post-commit is over. *)
Finished(c, i, old, new) ==
  /\ old.state = "Committed" /\ new = SetProcessed(old)
  /\ \/ ~old.post
     \/ pc[c] = "posted" /\ IsNext(c, i)

RowStays(c, i) == intents'[c][i] = intents[c][i]

RowLife(c, i) ==
  LET old == intents[c][i]
      new == intents'[c][i]
  IN /\ new.op = old.op
     /\ \/ RowStays(c, i) \/ Unpublished(old, new) \/ FoundDone(c, old, new)
        \/ MadePayload(c, old, new) \/ NeverSent(old, new)
        \/ \E pos \in DOMAIN log : Echoed(c, old, new, pos)
        \/ Finished(c, i, old, new)

(* The rows c has after a step: the old ones, moved, and maybe new ones. *)
RowsLive(c) ==
  /\ \A d \in Clients \ {c} : intents'[d] = intents[d]
  /\ DOMAIN intents[c] \subseteq DOMAIN intents'[c]
  /\ \A i \in DOMAIN intents[c] : RowLife(c, i)
  /\ \A i \in DOMAIN intents'[c] \ DOMAIN intents[c] :
       \E op \in Ops : /\ intents'[c][i] = NewIntent(op)
                       /\ op.field = "min_version" => op.value <= version[c]

-----------------------------------------------------------------------------
(* What a step does to the topic and to the state of c. *)

(* Nothing. *)
Still == UNCHANGED <<log, hist, cursor>>

(* The payload of row i arrives at the topic. *)
Arrives(c, i) ==
  /\ Deliver(c, i) /\ intents[c][i].state = "Published"
  /\ UNCHANGED <<fresh, hist, cursor, intents>>

(***************************************************************************)
(* c deals with envelope pos and is then where the topic says.  A row that *)
(* waited for pos is resolved, and what c merges is its own or not too new *)
(* for it.                                                                 *)
(***************************************************************************)
Follows(c, pos) ==
  /\ Processing(c, pos) /\ Handled(c, pos) /\ log' = log
  /\ hist'[c] = Canon(pos) /\ \A d \in Clients \ {c} : hist'[d] = hist[d]
  /\ \A i \in DOMAIN intents[c] : intents[c][i].hash = log[pos].id =>
       intents'[c][i] = Resolved(intents[c][i], log[pos], hist[c], pos)
  /\ hist' = hist \/ ~TooNew(c, log[pos])
       \/ \E i \in DOMAIN intents[c] : intents[c][i].hash = log[pos].id

TopicStep(c) ==
  \/ Still
  \/ \E i \in DOMAIN intents[c] : Arrives(c, i)
  \/ \E pos \in DOMAIN log : Follows(c, pos)

(* A step that leaves the rows alone lets them live. *)
LEMMA RowsStay ==
  ASSUME TypeOK, NEW c \in Clients, intents' = intents PROVE RowsLive(c)
  BY DEF RowsLive, RowLife, RowStays

(* Queued rows are new. *)
LEMMA QueueRows ==
  ASSUME TypeOK, NEW c \in Clients, QueueStep(c) PROVE RowsLive(c) /\ Still
<1>0. intents \in [Clients -> Seq(Row)] /\ intents[c] \in Seq(Row)
  BY DEF TypeOK
<1>1. Still  BY DEF QueueStep, Queue, QueueWithKeyUpdate, Still
<1>2. ASSUME NEW op \in Ops, Queue(c, op) PROVE RowsLive(c)
  <2>1. PICK row \in Row : row = NewIntent(op)  BY NewIntentType
  <2>2. intents'[c] = Append(intents[c], row)
        /\ \A d \in Clients \ {c} : intents'[d] = intents[d]
    BY <1>0, <1>2, <2>1 DEF Queue
  <2>3. op.field = "min_version" => op.value <= version[c]
    BY <1>2 DEF Queue, MayQueue
  <2>4. \A i \in DOMAIN intents'[c] \ DOMAIN intents[c] : intents'[c][i] = row
    BY <1>0, <2>2
  <2>5. DOMAIN intents[c] \subseteq DOMAIN intents'[c]
        /\ \A i \in DOMAIN intents[c] : intents'[c][i] = intents[c][i]
    BY <1>0, <2>2
  <2>6. QED  BY <2>1, <2>2, <2>3, <2>4, <2>5 DEF RowsLive, RowLife, RowStays
<1>3. ASSUME NEW op \in Ops, NEW key \in Ops, QueueWithKeyUpdate(c, op, key)
      PROVE  RowsLive(c)
  <2>1. PICK row \in Row : row = NewIntent(op)  BY NewIntentType
  <2>2. PICK row2 \in Row : row2 = NewIntent(key)  BY NewIntentType
  <2>3. intents'[c] = intents[c] \o <<row2, row>>
        /\ \A d \in Clients \ {c} : intents'[d] = intents[d]
    BY <1>0, <1>3, <2>1, <2>2 DEF QueueWithKeyUpdate
  <2>4. op.field # "min_version" /\ key.field # "min_version"
    BY <1>3, VersionAssumption DEF QueueWithKeyUpdate
  <2>5. \A i \in DOMAIN intents'[c] \ DOMAIN intents[c] :
          intents'[c][i] = row \/ intents'[c][i] = row2
    BY <1>0, <2>3
  <2>6. DOMAIN intents[c] \subseteq DOMAIN intents'[c]
        /\ \A i \in DOMAIN intents[c] : intents'[c][i] = intents[c][i]
    BY <1>0, <2>3
  <2>7. QED
    BY <2>1, <2>2, <2>3, <2>4, <2>5, <2>6 DEF RowsLive, RowLife, RowStays
<1>4. QED  BY <1>1, <1>2, <1>3 DEF QueueStep

(* A step that moves one row lets the rows live. *)
LEMMA OneRow ==
  ASSUME TypeOK, NEW c \in Clients, NEW i \in DOMAIN intents[c],
         NEW row \in Row, SetIntent(c, i, row), row.op = intents[c][i].op,
         \/ row = intents[c][i]
         \/ Unpublished(intents[c][i], row)
         \/ FoundDone(c, intents[c][i], row)
         \/ MadePayload(c, intents[c][i], row)
         \/ NeverSent(intents[c][i], row)
         \/ \E pos \in DOMAIN log : Echoed(c, intents[c][i], row, pos)
         \/ Finished(c, i, intents[c][i], row)
  PROVE  RowsLive(c)
<1>1. /\ DOMAIN intents'[c] = DOMAIN intents[c] /\ intents'[c][i] = row
      /\ \A j \in DOMAIN intents[c] : j # i => intents'[c][j] = intents[c][j]
      /\ \A d \in Clients \ {c} : intents'[d] = intents[d]
  BY RowEffect
<1>2. RowLife(c, i)  BY <1>1, Zenon DEF RowLife, RowStays
<1>3. \A j \in DOMAIN intents[c] : j # i => RowLife(c, j)
  BY <1>1 DEF RowLife, RowStays
<1>4. QED  BY <1>1, <1>2, <1>3 DEF RowsLive

(* What the setters leave alone. *)
LEMMA SetterFields ==
  ASSUME NEW row \in Row
  PROVE  /\ SetToPublish(row).op = row.op
         /\ SetToPublish(row).state = "ToPublish"
         /\ SetError(row).op = row.op /\ SetError(row).state = "Error"
         /\ SetError(row).post = row.post
         /\ SetSuperseded(row).op = row.op
         /\ SetSuperseded(row).state = "Superseded"
         /\ SetSuperseded(row).post = row.post
         /\ SetProcessed(row).op = row.op
         /\ SetProcessed(row).state = "Processed"
         /\ SetProcessed(row).seq = row.seq
         /\ IncrementAttempts(row).op = row.op
         /\ IncrementAttempts(row).state = row.state
         /\ IncrementAttempts(row).post = row.post
  BY DEF SetToPublish, SetError, SetSuperseded, SetProcessed,
         IncrementAttempts, Row

(* ... set_group_intent_committed ... *)
LEMMA CommittedFields ==
  ASSUME NEW row \in Row, NEW pos \in Nat
  PROVE  /\ SetCommitted(row, pos).op = row.op
         /\ SetCommitted(row, pos).state = "Committed"
         /\ SetCommitted(row, pos).seq = pos
         /\ SetCommitted(row, pos).post = row.post
  BY DEF SetCommitted, Row

(* ... and what an echo may make of a row. *)
LEMMA ResolvedFields ==
  ASSUME NEW row \in Row, NEW env, NEW h, NEW pos \in Nat
  PROVE  LET new == Resolved(row, env, h, pos)
         IN /\ new \in Row /\ new.op = row.op
            /\ row.state # "Published" => new = row
            /\ (row.state = "Published" /\ Stale(env, h)) =>
                 new.state = "ToPublish"
            /\ (row.state = "Published" /\ ~Stale(env, h)) =>
                 /\ new.state = "Committed" /\ new.seq = pos
                 /\ new.post = row.post
<1>1. SetToPublish(row) \in Row /\ SetCommitted(row, pos) \in Row
  BY SetterTypes, SetCommittedType
<1>2. QED  BY <1>1, SetterFields, CommittedFields DEF Resolved, IsPublished

(* The rows while c publishes. *)
LEMMA PublishRows ==
  ASSUME TypeOK, LoopInv, NEW c \in Clients, NEW i \in DOMAIN intents[c],
         PublishError(c, i) \/ PublishNothing(c, i) \/ PublishIntent(c, i)
  PROVE  RowsLive(c) /\ Still
<1> DEFINE row == intents[c][i]
<1>0. row \in Row /\ fresh \in Nat /\ hist[c] \in Seq(Commit)
  BY RowType DEF TypeOK
<1>1. pc[c] = "publish" /\ IsNext(c, i)
  BY DEF PublishError, PublishNothing, PublishIntent
<1>2. row.state = "ToPublish"  BY <1>1, PublishLoop
<1>3. Still
  BY DEF PublishError, PublishNothing, PublishIntent, Still
<1> HIDE DEF row
<1>4. CASE PublishError(c, i)
  <2>1. SetIntent(c, i, SetError(row)) \/ SetIntent(c, i, IncrementAttempts(row))
    BY <1>4 DEF PublishError, row
  <2>2. /\ Unpublished(row, SetError(row))
        /\ Unpublished(row, IncrementAttempts(row))
    BY <1>0, <1>2, SetterFields DEF Unpublished
  <2>3. QED  BY <1>0, <1>3, <2>1, <2>2, SetterTypes, SetterFields, OneRow DEF row
<1>5. CASE PublishNothing(c, i)
  <2>1. CASE SetIntent(c, i, SetSuperseded(row))
    <3>1. Unpublished(row, SetSuperseded(row))
      BY <1>0, <1>2, SetterFields DEF Unpublished
    <3>2. QED
      BY <1>0, <1>3, <2>1, <3>1, SetterTypes, SetterFields, OneRow DEF row
  <2>2. CASE NoChange(row.op, hist[c]) /\ SetIntent(c, i, SetProcessed(row))
    <3>1. FoundDone(c, row, SetProcessed(row))
      BY <1>0, <1>2, <2>2, SetterFields DEF FoundDone
    <3>2. QED
      BY <1>0, <1>3, <2>2, <3>1, SetterTypes, SetterFields, OneRow DEF row
  <2>3. QED  BY <1>5, <2>1, <2>2 DEF PublishNothing, row
<1>6. CASE PublishIntent(c, i)
  <2>1. PICK post \in BOOLEAN : post <=> row.op.kind = "UpdateGroupMembership"
    OBVIOUS
  <2>2. SetIntent(c, i, SetPublished(row, fresh, post, hist[c]))
    BY <1>6, <2>1 DEF PublishIntent, row
  <2>3. PICK new \in Row : new = SetPublished(row, fresh, post, hist[c])
    BY <1>0, <2>1, SetPublishedType
  <2>4. /\ new.state = "Published" /\ new.base = hist[c] /\ new.hash = fresh
        /\ new.post = post /\ new.op = row.op
    BY <1>0, <1>2, <2>3 DEF SetPublished, Row
  <2>5. ~NothingToPublish(row.op, hist[c])  BY <1>6 DEF PublishIntent, row
  <2>6. MadePayload(c, row, new)
    BY <1>2, <2>1, <2>4, <2>5, Zenon DEF MadePayload
  <2>7. QED  BY <1>3, <2>2, <2>3, <2>4, <2>6, OneRow DEF row
<1>7. QED  BY <1>4, <1>5, <1>6

(* A send that failed stored nothing. *)
LEMMA SendFailedRows ==
  ASSUME TypeOK, LoopInv, "ack" \notin FaultKinds, NEW c \in Clients,
         NEW i \in DOMAIN intents[c], SendFailed(c, i)
  PROVE  RowsLive(c) /\ Still
<1> DEFINE row == intents[c][i]
<1>0. row \in Row  BY RowType
<1>1. pc[c] = "send" /\ IsNext(c, i)  BY DEF SendFailed, Fault
<1>2. /\ row.state = "Published"
      /\ \A k \in DOMAIN log : log[k].id # row.hash
  BY <1>1, PublishLoop
<1>3. Still  BY DEF SendFailed, Still
<1>4. \/ SetIntent(c, i, SetError(row))
      \/ SetIntent(c, i, SetToPublish(IncrementAttempts(row)))
  BY DEF SendFailed
<1>5. /\ IncrementAttempts(row) \in Row /\ SetError(row) \in Row
      /\ IncrementAttempts(row).op = row.op
  BY <1>0, SetterTypes, SetterFields
<1> HIDE DEF row
<1>6. /\ SetToPublish(IncrementAttempts(row)) \in Row
      /\ SetToPublish(IncrementAttempts(row)).op = row.op
      /\ SetError(row).op = row.op
  BY <1>0, <1>5, SetterTypes, SetterFields
<1>7. /\ NeverSent(row, SetError(row))
      /\ NeverSent(row, SetToPublish(IncrementAttempts(row)))
  BY <1>0, <1>2, <1>5, SetterFields DEF NeverSent
<1>8. RowsLive(c)  BY <1>4, <1>5, <1>6, <1>7, OneRow DEF row
<1>9. QED  BY <1>3, <1>8

(* A stream resolves the row of a message. *)
LEMMA StreamRows ==
  ASSUME TypeOK, NEW c \in Clients, NEW pos \in DOMAIN log,
         NEW i \in DOMAIN intents[c], StreamOwn(c, pos, i)
  PROVE  RowsLive(c) /\ Still
<1> DEFINE row == intents[c][i]
           new == Resolved(row, log[pos], hist[c], pos)
<1>0. row \in Row /\ pos \in Nat  BY RowType, EnvelopeType
<1>1. new \in Row /\ new.op = row.op  BY <1>0, ResolvedFields
<1>2. SetIntent(c, i, new) /\ Still  BY DEF StreamOwn, Still
<1>3. Echoed(c, row, new, pos)
  BY DEF StreamOwn, Streamable, FindByHash, IsPublished, Echoed
<1> HIDE DEF new
<1>4. RowsLive(c)  BY <1>1, <1>2, <1>3, OneRow
<1>5. QED  BY <1>2, <1>4

(* What is finished was committed. *)
LEMMA FinishRows ==
  ASSUME TypeOK, LoopInv, NEW c \in Clients, NEW i \in DOMAIN intents[c],
         FinishIntent(c, i)
  PROVE  RowsLive(c) /\ Still
<1> DEFINE row == intents[c][i]
<1>0. row \in Row  BY RowType
<1>1. pc[c] \in {"post", "posted"} /\ IsNext(c, i) /\ i \in todo[c]
  BY DEF FinishIntent, IsNext
<1>2. row.state = "Committed"  BY <1>1 DEF LoopInv, LoopOK
<1>3. SetIntent(c, i, SetProcessed(row)) /\ Still  BY DEF FinishIntent, Still
<1>4. Finished(c, i, row, SetProcessed(row))
  BY <1>1, <1>2 DEF FinishIntent, Finished
<1>5. SetProcessed(row) \in Row /\ SetProcessed(row).op = row.op
  BY <1>0, SetterTypes, SetterFields
<1>6. RowsLive(c)  BY <1>3, <1>4, <1>5, OneRow
<1>7. QED  BY <1>3, <1>6

(* A send stores the payload of a published row. *)
LEMMA SendArrives ==
  ASSUME TypeOK, LoopInv, NEW c \in Clients, NEW i \in DOMAIN intents[c],
         SendOk(c, i) \/ SendUnacknowledged(c, i)
  PROVE  Arrives(c, i)
<1>1. pc[c] \in {"send", "resend"} /\ IsNext(c, i)
  BY DEF SendOk, SendUnacknowledged
<1>2. intents[c][i].state = "Published"  BY <1>1, PublishLoop
<1>3. QED  BY <1>2 DEF SendOk, SendUnacknowledged, Arrives

(* The client is at the envelope it has just dealt with. *)
LEMMA AtEnvelope ==
  ASSUME IInv, IInv', NEW c \in Clients, NEW pos \in DOMAIN log,
         Processing(c, pos), Handled(c, pos), log' = log
  PROVE  hist'[c] = Canon(pos)
<1>1. HighWater(c)' = pos  BY HandledEffect DEF IInv
<1>2. hist'[c] = Canon(HighWater(c))'  BY DEF IInv, StateInv, PosInv
<1>3. QED  BY <1>1, <1>2 DEF Canon

(* An own payload comes back. *)
LEMMA ProcessOwnRows ==
  ASSUME IInv, IInv', NEW c \in Clients, NEW pos \in DOMAIN log,
         NEW i \in DOMAIN intents[c], ProcessOwn(c, pos, i)
  PROVE  RowsLive(c) /\ Follows(c, pos)
<1> DEFINE row == intents[c][i]
           new == Resolved(row, log[pos], hist[c], pos)
<1>t. TypeOK /\ StateInv /\ LoopInv  BY DEF IInv
<1>0. row \in Row /\ pos \in Nat  BY <1>t, RowType, EnvelopeType
<1>1. new \in Row /\ new.op = row.op /\ (row.state # "Published" => new = row)
  BY <1>0, ResolvedFields
<1>2. /\ SetIntent(c, i, new) /\ Processing(c, pos) /\ Handled(c, pos)
      /\ log' = log /\ row.hash = log[pos].id
  BY DEF ProcessOwn, FindByHash
<1>3. row.state = "Published" => Echoed(c, row, new, pos)
  BY <1>2 DEF Echoed
<1>4. RowsLive(c)
  <2> HIDE DEF new
  <2>1. QED  BY <1>t, <1>1, <1>2, <1>3, OneRow
<1>5. \A j \in DOMAIN intents[c] : intents[c][j].hash = log[pos].id => j = i
  <2>1. log[pos].id \in 1..(fresh - 1) /\ fresh \in Nat
    BY <1>t DEF StateInv, LogInv, TypeOK
  <2>2. log[pos].id # NoHash  BY <2>1 DEF NoHash
  <2>3. QED  BY <1>t, <1>2, <2>2 DEF StateInv, HashInv
<1>6. intents'[c][i] = new
  <2> HIDE DEF new
  <2>1. QED  BY <1>t, <1>1, <1>2, RowEffect
<1>7. \A d \in Clients \ {c} : hist'[d] = hist[d]
  <2>1. CASE Merge(c, log[pos], pos)  BY <1>t, <2>1, MergeEffect
  <2>2. CASE hist' = hist  BY <2>2
  <2>3. QED  BY <2>1, <2>2 DEF ProcessOwn, MarkFailed
<1>8. hist'[c] = Canon(pos)  BY <1>2, AtEnvelope
<1>9. Follows(c, pos)  BY <1>2, <1>5, <1>6, <1>7, <1>8 DEF Follows
<1>10. QED  BY <1>4, <1>9

(* An envelope that no row waits for. *)
LEMMA ExternalRows ==
  ASSUME IInv, IInv', NEW c \in Clients, NEW pos \in DOMAIN log,
         \/ MergeExternal(c, pos) \/ StoreExternal(c, pos)
         \/ SkipOwn(c, pos) \/ RejectExternal(c, pos)
  PROVE  RowsLive(c) /\ Follows(c, pos)
<1>t. TypeOK  BY DEF IInv
<1>1. /\ Processing(c, pos) /\ Handled(c, pos) /\ NotOwn(c, log[pos])
      /\ log' = log /\ intents' = intents
  BY DEF MergeExternal, StoreExternal, SkipOwn, Skips, RejectExternal
<1>2. \A i \in DOMAIN intents[c] : intents[c][i].hash # log[pos].id
  BY <1>1 DEF NotOwn, FindByHash
<1>3. \/ hist' = hist
      \/ ~TooNew(c, log[pos]) /\ \A d \in Clients \ {c} : hist'[d] = hist[d]
  <2>1. CASE MergeExternal(c, pos)  BY <1>t, <2>1, MergeEffect DEF MergeExternal
  <2>2. CASE \/ StoreExternal(c, pos) \/ SkipOwn(c, pos)
             \/ RejectExternal(c, pos)
    BY <2>2 DEF StoreExternal, SkipOwn, RejectExternal, MarkFailed
  <2>3. QED  BY <2>1, <2>2
<1>4. hist'[c] = Canon(pos)  BY <1>1, AtEnvelope
<1>5. Follows(c, pos)  BY <1>1, <1>2, <1>3, <1>4 DEF Follows
<1>6. QED  BY <1>t, <1>1, <1>5, RowsStay

(***************************************************************************)
(* Every step of c lets its rows live, and leaves the topic and c's state  *)
(* alone, adds a payload of c to the topic, or follows the topic.          *)
(***************************************************************************)
LEMMA StepLife ==
  ASSUME IInv, IInv', "ack" \notin FaultKinds, NEW c \in Clients,
         QueueStep(c) \/ SyncStep(c) \/ FaultStep(c) \/ StreamStep(c)
           \/ Upgrade(c)
  PROVE  RowsLive(c) /\ TopicStep(c)
<1>0. TypeOK /\ LoopInv  BY DEF IInv
<1>1. CASE QueueStep(c)  BY <1>0, <1>1, QueueRows DEF TopicStep
<1>2. CASE \/ SyncStart(c) \/ Receive(c) \/ PostCommitStart(c) \/ Upgrade(c)
           \/ ReceiveFailed(c) \/ Crash(c)
           \/ \E pos \in DOMAIN log : \/ Pause(c, pos) \/ RetryableError(c, pos)
                                      \/ StreamExternal(c, pos)
           \/ \E i \in DOMAIN intents[c] :
                SendWelcomesFailed(c, i) \/ SendWelcomes(c, i)
  <2>1. intents' = intents /\ Still
    BY <1>2
    DEF SyncStart, Receive, PostCommitStart, Upgrade, ReceiveFailed, Crash,
        Pause, RetryableError, StreamExternal, SendWelcomesFailed,
        SendWelcomes, Still
  <2>2. QED  BY <1>0, <2>1, RowsStay DEF TopicStep
<1>3. ASSUME NEW i \in DOMAIN intents[c],
             PublishError(c, i) \/ PublishNothing(c, i) \/ PublishIntent(c, i)
      PROVE  RowsLive(c) /\ TopicStep(c)
  BY <1>0, <1>3, PublishRows DEF TopicStep
<1>4. ASSUME NEW i \in DOMAIN intents[c],
             SendOk(c, i) \/ SendUnacknowledged(c, i)
      PROVE  RowsLive(c) /\ TopicStep(c)
  <2>1. Arrives(c, i)  BY <1>0, <1>4, SendArrives
  <2>2. intents' = intents  BY <2>1 DEF Arrives
  <2>3. QED  BY <1>0, <2>1, <2>2, RowsStay DEF TopicStep
<1>5. ASSUME NEW i \in DOMAIN intents[c], SendFailed(c, i)
      PROVE  RowsLive(c) /\ TopicStep(c)
  BY <1>0, <1>5, SendFailedRows DEF TopicStep
<1>6. ASSUME NEW i \in DOMAIN intents[c], FinishIntent(c, i)
      PROVE  RowsLive(c) /\ TopicStep(c)
  BY <1>0, <1>6, FinishRows DEF TopicStep
<1>7. ASSUME NEW pos \in DOMAIN log, NEW i \in DOMAIN intents[c],
             ProcessOwn(c, pos, i)
      PROVE  RowsLive(c) /\ TopicStep(c)
  BY <1>7, ProcessOwnRows DEF TopicStep
<1>8. ASSUME NEW pos \in DOMAIN log,
             \/ MergeExternal(c, pos) \/ StoreExternal(c, pos)
             \/ SkipOwn(c, pos) \/ RejectExternal(c, pos)
      PROVE  RowsLive(c) /\ TopicStep(c)
  BY <1>8, ExternalRows DEF TopicStep
<1>9. ASSUME NEW pos \in DOMAIN log, NEW i \in DOMAIN intents[c],
             StreamOwn(c, pos, i)
      PROVE  RowsLive(c) /\ TopicStep(c)
  BY <1>0, <1>9, StreamRows DEF TopicStep
<1>10. CASE SyncStep(c)
  BY <1>10, <1>2, <1>3, <1>4, <1>6, <1>7, <1>8 DEF SyncStep, ProcessStep
<1>11. CASE FaultStep(c)
  BY <1>11, <1>2, <1>3, <1>4, <1>5 DEF FaultStep
<1>12. CASE StreamStep(c)  BY <1>12, <1>2, <1>9 DEF StreamStep
<1>13. QED  BY <1>1, <1>2, <1>10, <1>11, <1>12

-----------------------------------------------------------------------------
(* The history *)

(* What the topic prescribes anywhere is the beginning of the history. *)
LEMMA CanonOfChain ==
  ASSUME IInv, NEW k \in 0..Len(log)
  PROVE  /\ Canon(k) \in Seq(Commit) /\ Chain \in Seq(Commit)
         /\ Len(Canon(k)) <= Len(Chain) /\ Len(Canon(k)) \in Nat
         /\ Len(Chain) \in Nat /\ DOMAIN Chain = 1..Len(Chain)
         /\ \A n \in 1..Len(Canon(k)) : n \in DOMAIN Chain /\ Canon(k)[n] = Chain[n]
<1>1. TypeOK /\ ChainInv  BY DEF IInv, StateInv
<1>2. Canon(k) \in Seq(Commit) /\ Chain \in Seq(Commit)
  BY <1>1, CanonType, ChainType
<1>3. Len(log) \in 0..Len(log) /\ k <= Len(log)  BY <1>1, ChainType
<1>4. Prefix(Canon(k), Chain)  BY <1>1, <1>3 DEF ChainInv, Chain
<1>5. QED  BY <1>2, <1>4 DEF Prefix

(* ... and so is what a client has merged. *)
LEMMA HistOfChain ==
  ASSUME IInv, NEW c \in Clients
  PROVE  /\ hist[c] \in Seq(Commit) /\ Chain \in Seq(Commit)
         /\ Len(hist[c]) <= Len(Chain) /\ Len(hist[c]) \in Nat
         /\ Len(Chain) \in Nat /\ DOMAIN Chain = 1..Len(Chain)
         /\ \A n \in 1..Len(hist[c]) : n \in DOMAIN Chain /\ hist[c][n] = Chain[n]
<1>1. HighWater(c) \in 0..Len(log) /\ hist[c] = Canon(HighWater(c))
  BY DEF IInv, StateInv, PosInv
<1>2. QED  BY <1>1, CanonOfChain

(* A topic that stays as it is prescribes what it did. *)
LEMMA SameTopic ==
  ASSUME log' = log
  PROVE  /\ Chain' = Chain /\ \A k : Canon(k)' = Canon(k)
         /\ \A k : Wins(k)' = Wins(k)
<1>1. \A k : Canon(k)' = Canon(k)  BY DEF Canon
<1>2. QED  BY <1>1 DEF Chain, Wins

(* The commit that the payload of row i is. *)
CommitOfRow(c, i) ==
  [id |-> intents[c][i].hash, src |-> <<c, i>>, op |-> intents[c][i].op]

(* A payload that arrives extends the history if it was made from it. *)
LEMMA ArrivesChain ==
  ASSUME IInv, NEW c \in Clients, NEW i \in DOMAIN intents[c], Arrives(c, i)
  PROVE  /\ \A k \in DOMAIN log : /\ k \in DOMAIN log' /\ log'[k] = log[k]
                                  /\ Canon(k)' = Canon(k) /\ Wins(k)' = Wins(k)
         /\ CommitOfRow(c, i) \in Commit
         /\ \/ Chain' = Chain
            \/ /\ intents[c][i].op.kind \in CommitKinds
               /\ intents[c][i].base = Chain
               /\ Chain' = Append(Chain, CommitOfRow(c, i))
               /\ \E k \in DOMAIN log' : /\ IsCommit(log'[k])
                                         /\ CommitOf(log'[k]) = CommitOfRow(c, i)
<1>0. TypeOK /\ Len(log) \in Nat /\ DOMAIN log = 1..Len(log)
  BY ChainType, LogDomain DEF IInv
<1>1. PICK m \in Nat : m = Len(log) + 1  BY <1>0
<1>2. /\ Len(log') = m /\ DOMAIN log' = 1..m
      /\ \A k \in 1..Len(log) : log'[k] = log[k]
      /\ \A k \in 0..Len(log) : Canon(k)' = Canon(k)
      /\ log'[m].id = intents[c][i].hash /\ log'[m].src = <<c, i>>
      /\ log'[m].op = intents[c][i].op /\ log'[m].base = intents[c][i].base
      /\ log'[m].after =
           IF IsCommit(log'[m]) /\ log'[m].base = Chain
           THEN Append(Chain, CommitOf(log'[m])) ELSE Chain
      /\ Canon(m)' = log'[m].after
  BY <1>0, <1>1, Delivered DEF Arrives
<1>3. \A k \in DOMAIN log : /\ k \in DOMAIN log' /\ log'[k] = log[k]
                            /\ Canon(k)' = Canon(k) /\ Wins(k)' = Wins(k)
  <2>1. \A k \in DOMAIN log : k \in 1..Len(log) /\ k - 1 \in 0..Len(log)
    BY <1>0
  <2>2. QED  BY <1>0, <1>1, <1>2, <2>1 DEF Wins
<1>4. CommitOfRow(c, i) \in Commit
  <2>1. intents[c][i] \in Row /\ i \in Nat  BY <1>0, RowType
  <2>2. QED  BY <2>1 DEF CommitOfRow, Commit, Row
<1>5. CommitOf(log'[m]) = CommitOfRow(c, i)
  BY <1>2 DEF CommitOf, CommitOfRow
<1>6. Chain' = log'[m].after  BY <1>2 DEF Chain
<1>7. m \in DOMAIN log'  BY <1>1, <1>2
<1>8. IsCommit(log'[m]) <=> intents[c][i].op.kind \in CommitKinds
  BY <1>2 DEF IsCommit
<1>9. QED  BY <1>2, <1>3, <1>4, <1>5, <1>6, <1>7, <1>8

(* The commits of the history were delivered. *)
LEMMA ChainCommit ==
  ASSUME IInv, HistoryInv, NEW n \in DOMAIN Chain
  PROVE  /\ Chain[n] \in Commit /\ n \in 1..Len(Chain) /\ Len(Chain) \in Nat
         /\ Chain[n].op.kind \in CommitKinds
         /\ Chain[n].src \in Clients \X Nat
         /\ Chain[n].src = <<Chain[n].src[1], Chain[n].src[2]>>
         /\ \E k \in DOMAIN log : log[k].id = Chain[n].id
<1>1. Chain \in Seq(Commit)  BY ChainType DEF IInv
<1>2. Chain[n] \in Commit /\ n \in 1..Len(Chain) /\ Len(Chain) \in Nat  BY <1>1
<1>3. Chain[n].src \in Clients \X Nat  BY <1>2 DEF Commit
<1>4. PICK k \in DOMAIN log : IsCommit(log[k]) /\ CommitOf(log[k]) = Chain[n]
  BY DEF HistoryInv
<1>5. log[k].op = Chain[n].op /\ log[k].id = Chain[n].id
  BY <1>4 DEF CommitOf
<1>6. QED  BY <1>2, <1>3, <1>4, <1>5 DEF IsCommit

(* Appending changes nothing below. *)
LEMMA AppendFacts ==
  ASSUME NEW s \in Seq(Commit), NEW x \in Commit, NEW t, t = Append(s, x)
  PROVE  /\ DOMAIN t = 1..(Len(s) + 1) /\ Len(t) = Len(s) + 1
         /\ \A n \in 1..Len(s) : t[n] = s[n]
         /\ t[Len(s) + 1] = x
         /\ \A n \in 1..(Len(s) + 1) : SubSeq(t, 1, n - 1) = SubSeq(s, 1, n - 1)
  OBVIOUS

(* What was said of a history still holds when it is extended. *)
LEMMA HistoryStep ==
  ASSUME IInv, HistoryInv, FateInv, NEW c \in Clients, TopicStep(c)
  PROVE  HistoryInv'
<1>1. CASE log' = log
  <2>1. Chain' = Chain  BY <1>1, SameTopic
  <2>2. QED  BY <1>1, <2>1 DEF HistoryInv
<1>2. ASSUME NEW i \in DOMAIN intents[c], Arrives(c, i) PROVE HistoryInv'
  <2>1. /\ \A k \in DOMAIN log : k \in DOMAIN log' /\ log'[k] = log[k]
        /\ CommitOfRow(c, i) \in Commit
        /\ \/ Chain' = Chain
           \/ /\ intents[c][i].base = Chain
              /\ Chain' = Append(Chain, CommitOfRow(c, i))
              /\ \E k \in DOMAIN log' : /\ IsCommit(log'[k])
                                        /\ CommitOf(log'[k]) = CommitOfRow(c, i)
    BY <1>2, ArrivesChain
  <2>2. Chain \in Seq(Commit) /\ Len(Chain) \in Nat /\ DOMAIN Chain = 1..Len(Chain)
    BY ChainType DEF IInv
  <2>3. CASE Chain' = Chain  BY <2>1, <2>3 DEF HistoryInv
  <2>4. CASE /\ intents[c][i].base = Chain
             /\ Chain' = Append(Chain, CommitOfRow(c, i))
             /\ \E k \in DOMAIN log' : /\ IsCommit(log'[k])
                                       /\ CommitOf(log'[k]) = CommitOfRow(c, i)
    <3>1. ~GuardFails(intents[c][i].op, Chain)
      BY <1>2, <2>4 DEF FateInv, Arrives
    <3>2. CommitOfRow(c, i).op = intents[c][i].op  BY DEF CommitOfRow
    <3>a. PICK x \in Commit : x = CommitOfRow(c, i)  BY <2>1
    <3>b. PICK t : t = Chain' /\ t = Append(Chain, x)  BY <2>4, <3>a
    <3>3. /\ DOMAIN Chain' = 1..(Len(Chain) + 1)
          /\ \A n \in 1..Len(Chain) : Chain'[n] = Chain[n]
          /\ Chain'[Len(Chain) + 1] = CommitOfRow(c, i)
      BY <2>2, <3>a, <3>b, AppendFacts
    <3>4. \A n \in 1..(Len(Chain) + 1) :
            SubSeq(Chain', 1, n - 1) = SubSeq(Chain, 1, n - 1)
      BY <2>2, <3>a, <3>b, AppendFacts
    <3>5. SubSeq(Chain, 1, Len(Chain)) = Chain  BY <2>2
    <3>6. ASSUME NEW n \in 1..Len(Chain)
          PROVE  /\ \E k \in DOMAIN log' : /\ IsCommit(log'[k])
                                           /\ CommitOf(log'[k]) = Chain'[n]
                 /\ ~GuardFails(Chain'[n].op, SubSeq(Chain', 1, n - 1))
      <4>1. n \in 1..(Len(Chain) + 1) /\ n \in DOMAIN Chain  BY <2>2
      <4>2. QED  BY <2>1, <3>3, <3>4, <4>1 DEF HistoryInv
    <3>7. ASSUME NEW n, n = Len(Chain) + 1
          PROVE  /\ \E k \in DOMAIN log' : /\ IsCommit(log'[k])
                                           /\ CommitOf(log'[k]) = Chain'[n]
                 /\ ~GuardFails(Chain'[n].op, SubSeq(Chain', 1, n - 1))
      <4>1. n \in 1..(Len(Chain) + 1) /\ n - 1 = Len(Chain)  BY <2>2, <3>7
      <4>2. SubSeq(Chain', 1, n - 1) = Chain  BY <3>4, <3>5, <4>1
      <4>3. QED  BY <2>4, <3>1, <3>2, <3>3, <3>7, <4>2
    <3>8. \A n \in DOMAIN Chain' : n \in 1..Len(Chain) \/ n = Len(Chain) + 1
      BY <2>2, <3>3
    <3>9. QED  BY <3>6, <3>7, <3>8 DEF HistoryInv
  <2>5. QED  BY <2>1, <2>3, <2>4
<1>3. QED  BY <1>1, <1>2 DEF TopicStep, Still, Follows

-----------------------------------------------------------------------------
(* The fate of a row *)

(* Which lives end or begin in which state. *)
LEMMA RowStates ==
  ASSUME TypeOK, NEW c \in Clients, NEW i \in DOMAIN intents[c], RowLife(c, i)
  PROVE  LET old == intents[c][i]
             new == intents'[c][i]
         IN /\ old.state \in Terminal => RowStays(c, i)
            /\ old.state = "Committed" => RowStays(c, i) \/ Finished(c, i, old, new)
            /\ old.state = "Published" =>
                 \/ RowStays(c, i) \/ NeverSent(old, new)
                 \/ \E pos \in DOMAIN log : Echoed(c, old, new, pos)
            /\ new.state = "Published" =>
                 RowStays(c, i) \/ MadePayload(c, old, new)
            /\ new.state = "Committed" =>
                 \/ RowStays(c, i)
                 \/ \E pos \in DOMAIN log : Echoed(c, old, new, pos)
            /\ new.state = "Processed" =>
                 \/ RowStays(c, i) \/ FoundDone(c, old, new)
                 \/ Finished(c, i, old, new)
<1> DEFINE old == intents[c][i]
           new == intents'[c][i]
<1>0. old \in Row  BY RowType
<1> HIDE DEF old, new
<1>1. \/ RowStays(c, i) \/ Unpublished(old, new) \/ FoundDone(c, old, new)
      \/ MadePayload(c, old, new) \/ NeverSent(old, new)
      \/ \E pos \in DOMAIN log : Echoed(c, old, new, pos)
      \/ Finished(c, i, old, new)
  BY DEF RowLife, old, new
<1>2. ASSUME NEW pos \in DOMAIN log, Echoed(c, old, new, pos)
      PROVE  old.state = "Published" /\ new.state \in {"ToPublish", "Committed"}
  <2>1. pos \in Nat  BY EnvelopeType
  <2>2. QED  BY <1>0, <1>2, <2>1, ResolvedFields DEF Echoed
<1>3. Finished(c, i, old, new) =>
        old.state = "Committed" /\ new.state = "Processed"
  BY <1>0, SetterFields DEF Finished
<1>4. QED
  BY <1>1, <1>2, <1>3
  DEF Terminal, RowStays, Unpublished, FoundDone, MadePayload, NeverSent, old,
      new

(***************************************************************************)
(* A commit of the history keeps its row: the row waits until the client   *)
(* comes to the commit, and is then told.                                  *)
(***************************************************************************)
LEMMA TookStays ==
  ASSUME IInv, HistoryInv, FateInv, NEW c \in Clients, RowsLive(c),
         \/ Still
         \/ \E pos \in DOMAIN log : Follows(c, pos),
         NEW n \in DOMAIN Chain, NEW d \in Clients, NEW j \in DOMAIN intents[d],
         Took(d, j, n)
  PROVE  j \in DOMAIN intents'[d] /\ Took(d, j, n)'
<1> DEFINE old == intents[d][j]
           new == intents'[d][j]
<1>0. TypeOK /\ StateInv /\ LoopInv  BY DEF IInv
<1>1. log' = log  BY DEF Still, Follows
<1>2. Chain' = Chain  BY <1>1, SameTopic
<1>3. /\ Chain[n].op.kind \in CommitKinds /\ n \in Nat
      /\ \E k \in DOMAIN log : log[k].id = Chain[n].id
  BY ChainCommit
<1>4. CASE d # c
  BY <1>2, <1>4 DEF RowsLive, Still, Follows, Took
<1>5. CASE d = c
  <2>1. j \in DOMAIN intents'[c] /\ RowLife(c, j)  BY <1>5 DEF RowsLive
  <2>2. new.op = old.op /\ old \in Row  BY <1>0, <1>5, <2>1, RowType DEF RowLife
  <2>3. CASE old.state \in {"Committed", "Processed"}
    <3>1. RowStays(c, j) \/ Finished(c, j, old, new)
      BY <1>0, <1>5, <2>1, <2>3, RowStates DEF Terminal
    <3>2. new.state \in {"Committed", "Processed"}
      BY <1>5, <2>2, <2>3, <3>1, SetterFields DEF RowStays, Finished
    <3>3. QED  BY <1>2, <1>5, <2>1, <2>2, <3>2 DEF Took
  <2>4. CASE /\ old.state = "Published" /\ old.hash = Chain[n].id
             /\ Epoch(old.base) = n - 1 /\ Epoch(hist[c]) < n
    <3>1. \/ RowStays(c, j) \/ NeverSent(old, new)
          \/ \E pos \in DOMAIN log : Echoed(c, old, new, pos)
      BY <1>0, <1>5, <2>1, <2>4, RowStates
    <3>2. CASE RowStays(c, j)
      <4>1. Epoch(hist'[c]) < n
        <5>1. CASE Still  BY <2>4, <5>1 DEF Still
        <5>2. ASSUME NEW pos \in DOMAIN log, Follows(c, pos)
              PROVE  Epoch(hist'[c]) < n
          <6>1. /\ Processing(c, pos) /\ hist'[c] = Canon(pos)
                /\ old.hash # log[pos].id
            <7>1. pos \in Nat /\ intents'[c][j] = old
              BY <1>0, <1>5, <3>2, EnvelopeType DEF RowStays
            <7>2. Resolved(old, log[pos], hist[c], pos).state # "Published"
              BY <2>2, <2>4, <7>1, ResolvedFields
            <7>3. QED  BY <1>5, <2>4, <5>2, <7>1, <7>2 DEF Follows
          <6>2. Canon(pos) = IF IsCommit(log[pos]) /\ log[pos].base = hist[c]
                             THEN Append(hist[c], CommitOf(log[pos]))
                             ELSE hist[c]
            BY <1>0, <6>1, AtPos
          <6>3. CASE hist'[c] = hist[c]  BY <2>4, <6>3
          <6>4. CASE Canon(pos) = Append(hist[c], CommitOf(log[pos]))
            <7>1. hist[c] \in Seq(Commit) /\ CommitOf(log[pos]) \in Commit
                  /\ pos \in 0..Len(log)
              <8>1. hist[c] \in Seq(Commit)  BY <1>0 DEF TypeOK
              <8>2. QED  BY <1>0, <8>1, EnvelopeType, ChainType
            <7>2. /\ Len(Canon(pos)) = Len(hist[c]) + 1
                  /\ Canon(pos)[Len(hist[c]) + 1] = CommitOf(log[pos])
                  /\ Len(hist[c]) \in Nat
              BY <6>4, <7>1
            <7>3. Len(hist[c]) + 1 # n
              <8>1. SUFFICES ASSUME Len(hist[c]) + 1 = n PROVE FALSE  OBVIOUS
              <8>2. Canon(pos)[n] = Chain[n]
                BY <7>1, <7>2, <8>1, CanonOfChain
              <8>3. CommitOf(log[pos]).id = log[pos].id  BY DEF CommitOf
              <8>4. QED  BY <2>4, <6>1, <7>2, <8>1, <8>2, <8>3
            <7>4. QED  BY <1>3, <2>4, <6>1, <7>2, <7>3 DEF Epoch
          <6>5. QED  BY <6>1, <6>2, <6>3, <6>4
        <5>3. QED  BY <5>1, <5>2
      <4>2. new = old  BY <1>5, <3>2 DEF RowStays
      <4>3. QED  BY <1>2, <1>5, <2>1, <2>4, <4>1, <4>2 DEF Took
    <3>3. CASE NeverSent(old, new)  BY <1>3, <2>4, <3>3 DEF NeverSent
    <3>4. ASSUME NEW pos \in DOMAIN log, Echoed(c, old, new, pos)
          PROVE  Took(d, j, n)'
      <4>1. /\ log[pos].id = old.hash /\ pos \in Nat
            /\ new = Resolved(old, log[pos], hist[c], pos)
        BY <1>0, <3>4, EnvelopeType DEF Echoed
      <4>2. log[pos].op = old.op /\ log[pos].base = old.base
        BY <1>0, <4>1 DEF StateInv, RowInv
      <4>3. IsCommit(log[pos])  BY <1>3, <4>2 DEF IsCommit, Took
      <4>4. Processing(c, pos)  BY <3>4, <4>3 DEF Echoed
      <4>5. ~Stale(log[pos], hist[c])
        <5>1. Stale(log[pos], hist[c]) => Epoch(old.base) < Epoch(hist[c])
          BY <1>0, <1>5, <2>4, <4>1, <4>2, <4>3, <4>4, OwnEpoch
        <5>2. Epoch(hist[c]) \in Nat  BY <1>0 DEF TypeOK, Epoch
        <5>3. QED  BY <1>3, <2>4, <5>1, <5>2
      <4>6. new.state = "Committed"
        BY <2>2, <2>4, <4>1, <4>5, ResolvedFields
      <4>7. QED  BY <1>2, <1>5, <2>2, <4>6 DEF Took
    <3>5. QED  BY <2>1, <1>5, <3>1, <3>2, <3>3, <3>4
  <2>5. QED  BY <1>5, <2>3, <2>4 DEF Took
<1>6. QED  BY <1>4, <1>5

(* Took in the next state, of rows named by the next state. *)
TookNext(c, i, n) ==
  LET row == intents'[c][i]
  IN /\ i \in DOMAIN intents'[c]
     /\ Chain'[n].op = row.op
     /\ \/ row.state \in {"Committed", "Processed"}
        \/ /\ row.state = "Published" /\ row.hash = Chain'[n].id
           /\ Epoch(row.base) = n - 1 /\ Epoch(hist'[c]) < n

(* Every commit of the history has its row, before and after a step. *)
LEMMA FateStep ==
  ASSUME IInv, HistoryInv, FateInv, NEW c \in Clients, RowsLive(c),
         TopicStep(c)
  PROVE  FateInv'
<1>0. TypeOK  BY DEF IInv
<1>1. ASSUME NEW d \in Clients, NEW i \in DOMAIN intents'[d],
             intents'[d][i].state = "Published"
      PROVE  ~GuardFails(intents'[d][i].op, intents'[d][i].base)
  <2>1. CASE d # c  BY <1>1, <2>1 DEF RowsLive, FateInv
  <2>2. CASE d = c /\ i \in DOMAIN intents[c]
    <3>1. RowLife(c, i)  BY <2>2 DEF RowsLive
    <3>2. \/ RowStays(c, i)
          \/ MadePayload(c, intents[c][i], intents'[c][i])
      BY <1>0, <1>1, <2>2, <3>1, RowStates
    <3>3. QED
      BY <1>1, <2>2, <3>1, <3>2
      DEF RowStays, RowLife, MadePayload, NothingToPublish, FateInv
  <2>3. CASE d = c /\ i \notin DOMAIN intents[c]
    <3>1. PICK op \in Ops : intents'[c][i] = NewIntent(op)
      BY <2>3 DEF RowsLive
    <3>2. QED  BY <1>1, <2>3, <3>1 DEF NewIntent
  <2>4. QED  BY <2>1, <2>2, <2>3
<1>2. ASSUME NEW n \in DOMAIN Chain'
      PROVE  TookNext(Chain'[n].src[1], Chain'[n].src[2], n)
  <2>1. CASE Still \/ \E pos \in DOMAIN log : Follows(c, pos)
    <3>1. log' = log  BY <2>1 DEF Still, Follows
    <3>2. Chain' = Chain  BY <3>1, SameTopic
    <3>3. PICK d \in Clients, i \in Nat :
            d = Chain[n].src[1] /\ i = Chain[n].src[2] /\ n \in DOMAIN Chain
      BY <3>2, ChainCommit
    <3>4. i \in DOMAIN intents[d] /\ Took(d, i, n)
      BY <3>3 DEF FateInv
    <3>5. i \in DOMAIN intents'[d] /\ Took(d, i, n)'
      BY <2>1, <3>3, <3>4, TookStays
    <3>n. TookNext(d, i, n)  BY <3>5 DEF Took, TookNext
    <3>6. QED  BY <3>2, <3>3, <3>n
  <2>2. ASSUME NEW i \in DOMAIN intents[c], Arrives(c, i)
        PROVE  TookNext(Chain'[n].src[1], Chain'[n].src[2], n)
    <3>0. UNCHANGED <<hist, intents>> /\ intents[c][i].state = "Published"
      BY <2>2 DEF Arrives
    <3>1. CASE n \in DOMAIN Chain /\ Chain'[n] = Chain[n]
      BY <3>0, <3>1 DEF FateInv, Took, TookNext
    <3>2. CASE Chain' = Chain  BY <3>1, <3>2
    <3>3. CASE /\ intents[c][i].base = Chain
               /\ Chain' = Append(Chain, CommitOfRow(c, i))
      <4>1. Chain \in Seq(Commit) /\ Len(Chain) \in Nat
            /\ DOMAIN Chain = 1..Len(Chain)
        BY <1>0, ChainType
      <4>2. PICK x \in Commit : x = CommitOfRow(c, i)  BY <2>2, ArrivesChain
      <4>3. PICK t : t = Chain' /\ t = Append(Chain, x)  BY <3>3, <4>2
      <4>4. /\ DOMAIN Chain' = 1..(Len(Chain) + 1)
            /\ \A k \in 1..Len(Chain) : Chain'[k] = Chain[k]
            /\ Chain'[Len(Chain) + 1] = x
        BY <4>1, <4>3, AppendFacts
      <4>5. CASE n = Len(Chain) + 1
        <5>1. /\ Chain'[n].id = intents[c][i].hash
              /\ Chain'[n].src = <<c, i>> /\ Chain'[n].op = intents[c][i].op
          BY <4>2, <4>4, <4>5 DEF CommitOfRow
        <5>2. Len(hist[c]) <= Len(Chain) /\ Len(hist[c]) \in Nat
          BY HistOfChain
        <5>3. Epoch(intents[c][i].base) = n - 1 /\ Epoch(hist[c]) < n
          BY <3>3, <4>1, <4>5, <5>2 DEF Epoch
        <5>4. TookNext(c, i, n)  BY <3>0, <5>1, <5>3 DEF TookNext
        <5>5. QED  BY <5>1, <5>4
      <4>6. CASE n # Len(Chain) + 1
        <5>1. n \in 1..Len(Chain)  BY <4>1, <4>4, <4>6
        <5>2. QED  BY <3>1, <4>1, <4>4, <5>1
      <4>7. QED  BY <4>5, <4>6
    <3>4. QED  BY <2>2, <3>2, <3>3, ArrivesChain
  <2>3. QED  BY <2>1, <2>2 DEF TopicStep
<1>3. QED  BY <1>1, <1>2 DEF FateInv, Took, TookNext

(* What the history and the reports rest on. *)
LedgerInv == IInv /\ HistoryInv /\ FateInv

(* The history is empty at first. *)
LEMMA InitLedgerInv == Init => LedgerInv
<1> SUFFICES ASSUME Init PROVE LedgerInv  OBVIOUS
<1>1. IInv  BY InitIInv
<1>2. Chain = << >>  BY DEF Init, Chain, Canon
<1>3. \A c \in Clients : DOMAIN intents[c] = {}  BY DEF Init
<1>4. QED  BY <1>1, <1>2, <1>3 DEF LedgerInv, HistoryInv, FateInv

(* Stuttering changes nothing that the invariants speak of. *)
LEMMA StutterIInv == IInv /\ UNCHANGED vars => IInv'
<1> SUFFICES ASSUME IInv, UNCHANGED vars PROVE IInv'  OBVIOUS
<1>0. TypeOK /\ StateInv /\ LoopInv  BY DEF IInv
<1>1. UNCHANGED <<log, fresh, hist, cursor, intents, pc, todo>>  BY DEF vars
<1>2. TypeOK'  BY <1>0 DEF vars, TypeOK
<1>3. StateInv'  BY <1>0, <1>1, IdleStep
<1>4. \A c \in Clients : BatchOK(c)' /\ LoopOK(c)'
  BY <1>0, <1>1 DEF LoopInv, BatchOK, LoopOK, HighWater, IsNext
<1>5. QED  BY <1>2, <1>3, <1>4 DEF IInv, LoopInv

(* Every step preserves what the history rests on. *)
LEMMA StepLedgerInv ==
  ASSUME LedgerInv, "ack" \notin FaultKinds, [Next]_vars PROVE LedgerInv'
<1>0. IInv /\ HistoryInv /\ FateInv  BY DEF LedgerInv
<1>1. ASSUME NEW c \in Clients,
             QueueStep(c) \/ SyncStep(c) \/ FaultStep(c) \/ StreamStep(c)
               \/ Upgrade(c)
      PROVE  LedgerInv'
  <2>1. IInv'  BY <1>0, <1>1, StepIInv
  <2>2. RowsLive(c) /\ TopicStep(c)  BY <1>0, <1>1, <2>1, StepLife
  <2>3. HistoryInv'  BY <1>0, <2>2, HistoryStep
  <2>4. FateInv'  BY <1>0, <2>2, FateStep
  <2>5. QED  BY <2>1, <2>3, <2>4 DEF LedgerInv
<1>2. CASE UNCHANGED vars
  <2>1. IInv'  BY <1>0, <1>2, StutterIInv
  <2>2. UNCHANGED <<log, hist, intents>>  BY <1>2 DEF vars
  <2>3. Chain' = Chain  BY <2>2, SameTopic
  <2>4. HistoryInv'  BY <1>0, <2>2, <2>3 DEF HistoryInv
  <2>5. FateInv'  BY <1>0, <2>2, <2>3 DEF FateInv, Took
  <2>6. QED  BY <2>1, <2>4, <2>5 DEF LedgerInv
<1>3. QED  BY <1>1, <1>2 DEF Next

(***************************************************************************)
(* LedgerInv is an invariant when a send that reports failure stored       *)
(* nothing.                                                                *)
(***************************************************************************)
THEOREM LedgerInvariance ==
  ASSUME "ack" \notin FaultKinds PROVE Spec => []LedgerInv
<1>1. LedgerInv /\ [Next]_vars => LedgerInv'  BY StepLedgerInv
<1>2. QED  BY InitLedgerInv, <1>1, PTL DEF Spec

-----------------------------------------------------------------------------
(* Results about the history *)

(***************************************************************************)
(* No lost update: wherever a guarded metadata update is in a member's     *)
(* state, the value it replaced is the one its author expected, however    *)
(* many epoch races it lost before.                                        *)
(***************************************************************************)
THEOREM GuardsHold ==
  ASSUME "ack" \notin FaultKinds PROVE Spec => []NoLostUpdate
<1>1. ASSUME LedgerInv PROVE NoLostUpdate
  <2>0. IInv /\ HistoryInv  BY <1>1 DEF LedgerInv
  <2>1. ASSUME NEW c \in Clients, NEW k \in DOMAIN hist[c]
        PROVE  ~GuardFails(hist[c][k].op, SubSeq(hist[c], 1, k - 1))
    <3>1. /\ hist[c] \in Seq(Commit) /\ Chain \in Seq(Commit)
          /\ Len(hist[c]) <= Len(Chain)
          /\ \A n \in 1..Len(hist[c]) : /\ n \in DOMAIN Chain
                                        /\ hist[c][n] = Chain[n]
      BY <2>0, HistOfChain
    <3>2. k \in 1..Len(hist[c]) /\ k \in DOMAIN Chain /\ hist[c][k] = Chain[k]
      BY <3>1
    <3>3. SubSeq(hist[c], 1, k - 1) = SubSeq(Chain, 1, k - 1)  BY <3>1, <3>2
    <3>4. QED  BY <2>0, <3>2, <3>3 DEF HistoryInv
  <2>2. QED  BY <2>1 DEF NoLostUpdate
<1>2. QED  BY LedgerInvariance, <1>1, PTL

(* A commit that wins is of a row that has not won before. *)
LEMMA WinsOnce ==
  ASSUME LedgerInv, NEW c \in Clients, NEW i \in DOMAIN intents[c],
         intents[c][i].state = "Published", intents[c][i].base = Chain
  PROVE  \A k \in DOMAIN Chain : Chain[k].src # <<c, i>>
<1>1. SUFFICES ASSUME NEW k \in DOMAIN Chain, Chain[k].src = <<c, i>>
               PROVE  FALSE
  OBVIOUS
<1>2. Took(c, i, k)  BY <1>1 DEF LedgerInv, FateInv
<1>3. Epoch(intents[c][i].base) = k - 1  BY <1>2 DEF Took
<1>4. k \in 1..Len(Chain) /\ Len(Chain) \in Nat
  BY ChainType DEF LedgerInv, IInv
<1>5. QED  BY <1>3, <1>4 DEF Epoch

(* A payload that arrives extends the ledger or leaves it alone. *)
LEMMA ArrivesExtends ==
  ASSUME LedgerInv, NEW c \in Clients, NEW i \in DOMAIN intents[c],
         Arrives(c, i)
  PROVE  [Ledger!Next]_<<Chain, hist>>
<1>0. IInv /\ FateInv /\ TypeOK  BY DEF LedgerInv, IInv
<1>1. hist' = hist /\ intents[c][i].state = "Published"  BY DEF Arrives
<1>2. CASE Chain' = Chain  BY <1>1, <1>2
<1>3. CASE /\ intents[c][i].base = Chain
           /\ Chain' = Append(Chain, CommitOfRow(c, i))
  <2>1. PICK x \in Commit : x = CommitOfRow(c, i)  BY <1>0, ArrivesChain
  <2>2. Chain \in Seq(Commit) /\ Len(Chain) \in Nat  BY <1>0, ChainType
  <2>3. PICK t : t = Chain' /\ t = Append(Chain, x)  BY <1>3, <2>1
  <2>4. Len(Chain) + 1 \in DOMAIN Chain' /\ Chain'[Len(Chain) + 1] = x
    BY <2>2, <2>3, AppendFacts
  <2>5. x.op = intents[c][i].op /\ x.src = <<c, i>>  BY <2>1 DEF CommitOfRow
  <2>6. ~GuardFails(x.op, Chain)  BY <1>0, <1>1, <1>3, <2>5 DEF FateInv
  <2>7. \A k \in DOMAIN Chain : Chain[k].src # x.src
    BY <1>1, <1>3, <2>5, WinsOnce
  <2>g. ~Ledger!GuardFails(x.op, Chain)
    BY <2>6
    DEF GuardFails, Ledger!GuardFails, MetadataField, Ledger!MetadataField,
        NoGuard, Ledger!NoGuard, Unset, Ledger!Unset
  <2>8. Ledger!Extend(x)  BY <1>1, <2>3, <2>g, <2>7 DEF Ledger!Extend
  <2>9. QED  BY <2>4, <2>8 DEF Ledger!Next
<1>4. QED  BY <1>0, <1>2, <1>3, ArrivesChain

(* A member that follows the topic merges the next commit or none. *)
LEMMA FollowsAdvances ==
  ASSUME IInv, NEW c \in Clients, NEW pos \in DOMAIN log, Follows(c, pos),
         hist' \in [Clients -> Seq(Commit)]
  PROVE  [Ledger!Next]_<<Chain, hist>>
<1>0. TypeOK /\ StateInv /\ LoopInv /\ hist \in [Clients -> Seq(Commit)]
  BY DEF IInv, TypeOK
<1>1. /\ Processing(c, pos) /\ log' = log /\ hist'[c] = Canon(pos)
      /\ \A d \in Clients \ {c} : hist'[d] = hist[d]
  BY DEF Follows
<1>2. Chain' = Chain  BY <1>1, SameTopic
<1>3. Canon(pos) = IF IsCommit(log[pos]) /\ log[pos].base = hist[c]
                   THEN Append(hist[c], CommitOf(log[pos])) ELSE hist[c]
  BY <1>0, <1>1, AtPos
<1>4. CASE hist'[c] = hist[c]
  <2>1. hist' = hist  BY <1>0, <1>1, <1>4
  <2>2. QED  BY <1>2, <2>1
<1>5. CASE hist'[c] = Append(hist[c], CommitOf(log[pos]))
  <2>1. CommitOf(log[pos]) \in Commit /\ pos \in 0..Len(log)
    BY <1>0, EnvelopeType, ChainType
  <2>2. /\ Canon(pos) \in Seq(Commit) /\ Chain \in Seq(Commit)
        /\ Len(Canon(pos)) <= Len(Chain)
        /\ \A n \in 1..Len(Canon(pos)) : Canon(pos)[n] = Chain[n]
    BY <2>1, CanonOfChain
  <2>3. PICK h \in Seq(Commit) : h = hist[c]  BY <1>0
  <2>4. Len(Canon(pos)) = Len(h) + 1  BY <1>1, <1>5, <2>1, <2>3
  <2>5. Len(h) < Len(Chain) /\ Canon(pos) = SubSeq(Chain, 1, Len(h) + 1)
    BY <2>2, <2>3, <2>4
  <2>6. hist' = [hist EXCEPT ![c] = SubSeq(Chain, 1, Len(hist[c]) + 1)]
    BY <1>0, <1>1, <2>3, <2>5
  <2>7. Ledger!Advance(c)  BY <1>2, <2>3, <2>5, <2>6 DEF Ledger!Advance
  <2>8. QED  BY <2>7 DEF Ledger!Next
<1>6. QED  BY <1>1, <1>3, <1>4, <1>5

(***************************************************************************)
(* GroupSync implements GroupLedger: the commits that win are one history  *)
(* in which every intent is at most once and every guard held, and what    *)
(* members have merged are growing prefixes of it.                         *)
(***************************************************************************)
THEOREM ImplementsLedger ==
  ASSUME "ack" \notin FaultKinds PROVE Spec => IsLedger
<1>1. Init => Ledger!Init
  BY DEF Init, Ledger!Init, Chain, Canon
<1>2. LedgerInv /\ LedgerInv' /\ [Next]_vars => [Ledger!Next]_<<Chain, hist>>
  <2> SUFFICES ASSUME LedgerInv, LedgerInv', [Next]_vars
               PROVE  [Ledger!Next]_<<Chain, hist>>
    OBVIOUS
  <2>0. IInv /\ IInv' /\ hist' \in [Clients -> Seq(Commit)]
    BY DEF LedgerInv, IInv, TypeOK
  <2>1. ASSUME NEW c \in Clients,
               QueueStep(c) \/ SyncStep(c) \/ FaultStep(c) \/ StreamStep(c)
                 \/ Upgrade(c)
        PROVE  [Ledger!Next]_<<Chain, hist>>
    <3>1. TopicStep(c)  BY <2>0, <2>1, StepLife
    <3>2. CASE Still
      <4>1. log' = log /\ hist' = hist  BY <3>2 DEF Still
      <4>2. QED  BY <4>1, SameTopic
    <3>3. ASSUME NEW i \in DOMAIN intents[c], Arrives(c, i)
          PROVE  [Ledger!Next]_<<Chain, hist>>
      BY <3>3, ArrivesExtends
    <3>4. ASSUME NEW pos \in DOMAIN log, Follows(c, pos)
          PROVE  [Ledger!Next]_<<Chain, hist>>
      BY <2>0, <3>4, FollowsAdvances
    <3>5. QED  BY <3>1, <3>2, <3>3, <3>4 DEF TopicStep
  <2>2. CASE UNCHANGED vars
    <3>1. log' = log /\ hist' = hist  BY <2>2 DEF vars
    <3>2. QED  BY <3>1, SameTopic
  <2>3. QED  BY <2>1, <2>2 DEF Next
<1>3. QED
  BY LedgerInvariance, <1>1, <1>2, PTL DEF Spec, IsLedger, Ledger!Spec

-----------------------------------------------------------------------------
(* Library versions *)

(* Only an upgrade changes the version a client runs, and it raises it. *)
LEMMA VersionMoves ==
  ASSUME TypeOK, NEW c \in Clients,
         QueueStep(c) \/ SyncStep(c) \/ FaultStep(c) \/ StreamStep(c)
           \/ Upgrade(c)
  PROVE  \A d \in Clients :
           version[d] \in Nat /\ version'[d] \in Nat /\ version[d] <= version'[d]
<1>0. version \in [Clients -> Nat]  BY DEF TypeOK
<1>1. CASE QueueStep(c)
  <2>1. version' = version
    BY <1>1 DEF QueueStep, Queue, QueueWithKeyUpdate
  <2>2. QED  BY <1>0, <2>1
<1>2. CASE SyncStep(c)
  <2>1. version' = version
    BY <1>2
    DEF SyncStep, SyncStart, Receive, PostCommitStart, PublishNothing,
        PublishIntent, SendOk, ProcessStep, ProcessOwn, MergeExternal,
        StoreExternal, SkipOwn, RejectExternal, Pause, SendWelcomes,
        FinishIntent
  <2>2. QED  BY <1>0, <2>1
<1>3. CASE FaultStep(c)
  <2>1. version' = version
    BY <1>3
    DEF FaultStep, PublishError, SendUnacknowledged, SendFailed,
        SendWelcomesFailed, ReceiveFailed, Crash, RetryableError
  <2>2. QED  BY <1>0, <2>1
<1>4. CASE StreamStep(c)
  <2>1. version' = version
    BY <1>4 DEF StreamStep, StreamOwn, StreamExternal
  <2>2. QED  BY <1>0, <2>1
<1>5. CASE Upgrade(c)
  <2>1. version' = [version EXCEPT ![c] = version[c] + 1]
    BY <1>0, <1>5 DEF Upgrade
  <2>2. QED  BY <1>0, <2>1
<1>6. QED  BY <1>1, <1>2, <1>3, <1>4, <1>5

(* Merged commits perform operations. *)
LEMMA CommitOp ==
  ASSUME NEW h \in Seq(Commit), NEW k \in DOMAIN h PROVE h[k].op \in Ops
<1>1. h[k] \in Commit  OBVIOUS
<1>2. QED  BY <1>1 DEF Commit

(* No step lets a client queue or merge what is too new for it. *)
LEMMA VersionStep ==
  ASSUME IInv, VersionInv, NEW c \in Clients, RowsLive(c), TopicStep(c),
         \A d \in Clients : /\ version[d] \in Nat /\ version'[d] \in Nat
                            /\ version[d] <= version'[d]
  PROVE  VersionInv'
<1>0. TypeOK /\ StateInv /\ LoopInv  BY DEF IInv
<1>t. \A op \in Ops : op.value \in Nat  BY ConstantsAssumption
<1>1. ASSUME NEW d \in Clients, NEW i \in DOMAIN intents'[d],
             intents'[d][i].op.field = "min_version"
      PROVE  intents'[d][i].op.value <= version'[d]
  <2>1. ASSUME i \in DOMAIN intents[d], intents'[d][i].op = intents[d][i].op
        PROVE  intents'[d][i].op.value <= version'[d]
    <3>1. intents[d][i].op \in Ops  BY <1>0, <2>1, RowType DEF Row
    <3>2. intents[d][i].op.value <= version[d]  BY <1>1, <2>1 DEF VersionInv
    <3>3. QED  BY <1>t, <2>1, <3>1, <3>2
  <2>2. CASE d # c  BY <2>1, <2>2 DEF RowsLive
  <2>3. CASE d = c /\ i \in DOMAIN intents[c]
    BY <2>1, <2>3 DEF RowsLive, RowLife
  <2>4. CASE d = c /\ i \notin DOMAIN intents[c]
    <3>1. PICK op \in Ops : /\ intents'[c][i] = NewIntent(op)
                            /\ op.field = "min_version" => op.value <= version[c]
      BY <2>4 DEF RowsLive
    <3>2. intents'[c][i].op = op  BY <3>1 DEF NewIntent
    <3>3. QED  BY <1>1, <1>t, <2>4, <3>1, <3>2
  <2>5. QED  BY <2>2, <2>3, <2>4
<1>2. ASSUME NEW d \in Clients, NEW k \in DOMAIN hist'[d],
             hist'[d][k].op.field = "min_version"
      PROVE  hist'[d][k].op.value <= version'[d]
  <2>1. ASSUME hist'[d] = hist[d] PROVE hist'[d][k].op.value <= version'[d]
    <3>1. hist[d] \in Seq(Commit)  BY <1>0 DEF TypeOK
    <3>2. hist[d][k].op \in Ops  BY <2>1, <3>1, CommitOp
    <3>3. hist[d][k].op.value <= version[d]  BY <1>2, <2>1 DEF VersionInv
    <3>4. QED  BY <1>t, <2>1, <3>2, <3>3
  <2>2. CASE Still \/ \E i \in DOMAIN intents[c] : Arrives(c, i)
    BY <2>1, <2>2 DEF Still, Arrives
  <2>3. ASSUME NEW pos \in DOMAIN log, Follows(c, pos), d = c
        PROVE  hist'[d][k].op.value <= version'[d]
    <3>1. /\ Processing(c, pos) /\ hist'[c] = Canon(pos)
          /\ hist' = hist \/ ~TooNew(c, log[pos])
               \/ \E i \in DOMAIN intents[c] : intents[c][i].hash = log[pos].id
      BY <2>3 DEF Follows
    <3>2. Canon(pos) = IF IsCommit(log[pos]) /\ log[pos].base = hist[c]
                       THEN Append(hist[c], CommitOf(log[pos])) ELSE hist[c]
      BY <1>0, <3>1, AtPos
    <3>3. CASE hist'[c] = hist[c]  BY <2>1, <2>3, <3>3
    <3>4. CASE /\ hist'[c] = Append(hist[c], CommitOf(log[pos]))
               /\ IsCommit(log[pos]) /\ hist' # hist
      <4>1. hist[c] \in Seq(Commit)  BY <1>0 DEF TypeOK
      <4>2. PICK x \in Commit : x = CommitOf(log[pos])
        BY <1>0, EnvelopeType
      <4>3. PICK t : t = hist'[c] /\ t = Append(hist[c], x)
        BY <3>4, <4>2
      <4>4. /\ k \in 1..(Len(hist[c]) + 1)
            /\ \A n \in 1..Len(hist[c]) : hist'[c][n] = hist[c][n]
            /\ hist'[c][Len(hist[c]) + 1] = x
        BY <2>3, <4>1, <4>3, AppendFacts
      <4>5. CASE k \in 1..Len(hist[c])
        <5>1. k \in DOMAIN hist[c] /\ hist[c][k].op \in Ops
          BY <4>1, <4>5, CommitOp
        <5>2. hist[c][k].op.value <= version[c]
          BY <1>2, <2>3, <4>4, <4>5, <5>1 DEF VersionInv
        <5>3. QED  BY <1>t, <2>3, <4>4, <4>5, <5>1, <5>2
      <4>6. CASE k = Len(hist[c]) + 1
        <5>1. hist'[c][k].op = log[pos].op /\ log[pos].op \in Ops
          BY <1>0, <4>2, <4>4, <4>6, EnvelopeType DEF CommitOf
        <5>2. CASE ~TooNew(c, log[pos])
          BY <1>2, <1>t, <2>3, <3>4, <5>1, <5>2 DEF TooNew
        <5>3. ASSUME NEW i \in DOMAIN intents[c],
                     intents[c][i].hash = log[pos].id
              PROVE  hist'[d][k].op.value <= version'[d]
          <6>1. log[pos].op = intents[c][i].op
            BY <1>0, <5>3 DEF StateInv, RowInv
          <6>2. log[pos].op.value <= version[c]
            BY <1>2, <2>3, <5>1, <6>1 DEF VersionInv
          <6>3. QED  BY <1>t, <2>3, <5>1, <6>2
        <5>4. QED  BY <3>1, <3>4, <5>2, <5>3
      <4>7. QED  BY <4>1, <4>4, <4>5, <4>6
    <3>5. QED  BY <2>3, <3>1, <3>2, <3>3, <3>4
  <2>4. ASSUME NEW pos \in DOMAIN log, Follows(c, pos), d # c
        PROVE  hist'[d][k].op.value <= version'[d]
    BY <2>1, <2>4 DEF Follows
  <2>5. QED  BY <2>2, <2>3, <2>4 DEF TopicStep
<1>3. QED  BY <1>1, <1>2 DEF VersionInv

(***************************************************************************)
(* No member ever takes part in an epoch whose rules ask for a newer       *)
(* library than the one it runs.                                           *)
(***************************************************************************)
THEOREM VersionsSupported ==
  ASSUME "ack" \notin FaultKinds PROVE Spec => []RunsSupportedVersion
<1>1. Init => VersionInv
  BY DEF Init, VersionInv
<1>2. IInv /\ IInv' /\ VersionInv /\ [Next]_vars => VersionInv'
  <2> SUFFICES ASSUME IInv, IInv', VersionInv, [Next]_vars PROVE VersionInv'
    OBVIOUS
  <2>1. ASSUME NEW c \in Clients,
               QueueStep(c) \/ SyncStep(c) \/ FaultStep(c) \/ StreamStep(c)
                 \/ Upgrade(c)
        PROVE  VersionInv'
    <3>1. RowsLive(c) /\ TopicStep(c)  BY <2>1, StepLife
    <3>2. TypeOK  BY DEF IInv
    <3>3. \A d \in Clients : /\ version[d] \in Nat /\ version'[d] \in Nat
                             /\ version[d] <= version'[d]
      BY <2>1, <3>2, VersionMoves
    <3>4. QED  BY <3>1, <3>3, VersionStep
  <2>2. CASE UNCHANGED vars  BY <2>2 DEF vars, VersionInv
  <2>3. QED  BY <2>1, <2>2 DEF Next
<1>3. VersionInv => RunsSupportedVersion
  BY DEF VersionInv, RunsSupportedVersion
<1>4. QED  BY Invariance, <1>1, <1>2, <1>3, PTL DEF Spec
=============================================================================
