----------------------- MODULE GroupSyncLedger_proofs -----------------------
(***************************************************************************)
(* Type correctness of GroupSync; and that no client forks from the        *)
(* history the topic prescribes, provided that a send that reports failure *)
(* stored nothing.                                                         *)
(***************************************************************************)
EXTENDS GroupSyncInv, TLAPS

-----------------------------------------------------------------------------
(* Types *)

(* Writing one row changes that row and no other. *)
LEMMA IntentUpdated ==
  ASSUME intents \in [Clients -> Seq(Row)],
         NEW c \in Clients, NEW i \in DOMAIN intents[c], NEW row \in Row
  PROVE  /\ [intents EXCEPT ![c][i] = row] \in [Clients -> Seq(Row)]
         /\ [intents EXCEPT ![c][i] = row][c][i] = row
         /\ \A d \in Clients : DOMAIN [intents EXCEPT ![c][i] = row][d] = DOMAIN intents[d]
         /\ \A d \in Clients : \A j \in DOMAIN intents[d] :
              (d # c \/ j # i) => [intents EXCEPT ![c][i] = row][d][j] = intents[d][j]
  OBVIOUS

(* The setters of the intent store return rows. *)
LEMMA SetterTypes ==
  ASSUME NEW row \in Row
  PROVE  /\ SetToPublish(row) \in Row
         /\ SetSuperseded(row) \in Row
         /\ SetProcessed(row) \in Row
         /\ SetError(row) \in Row
         /\ IncrementAttempts(row) \in Row
<1> USE DEF Row, IntentState
<1>1. SetToPublish(row) \in Row
  <2>1. << >> \in Seq(Commit)  OBVIOUS
  <2>2. FALSE \in BOOLEAN /\ NoHash \in Nat  BY DEF NoHash
  <2>3. QED  BY <2>1, <2>2, Zenon DEF SetToPublish
<1>2. SetSuperseded(row) \in Row  BY DEF SetSuperseded
<1>3. SetProcessed(row) \in Row  BY DEF SetProcessed
<1>4. SetError(row) \in Row  BY DEF SetError
<1>5. IncrementAttempts(row) \in Row  BY DEF IncrementAttempts
<1>6. QED  BY <1>1, <1>2, <1>3, <1>4, <1>5

(* set_group_intent_committed returns a row. *)
LEMMA SetCommittedType ==
  ASSUME NEW row \in Row, NEW pos \in Nat PROVE SetCommitted(row, pos) \in Row
  BY DEF Row, IntentState, SetCommitted

(* set_group_intent_published returns a row. *)
LEMMA SetPublishedType ==
  ASSUME NEW row \in Row, NEW h \in Nat, NEW post \in BOOLEAN,
         NEW base \in Seq(Commit)
  PROVE  SetPublished(row, h, post, base) \in Row
  BY DEF Row, IntentState, SetPublished

(* A newly queued intent is a row. *)
LEMMA NewIntentType ==
  ASSUME NEW op \in Ops PROVE NewIntent(op) \in Row
  BY DEF Row, NewIntent, IntentState, NoHash

(* The types of a row of the intent store and of its id. *)
LEMMA RowType ==
  ASSUME TypeOK, NEW c \in Clients, NEW i \in DOMAIN intents[c]
  PROVE  /\ intents[c][i] \in Row
         /\ intents[c] \in Seq(Row)
         /\ i \in Nat
  BY DEF TypeOK

(* The types of an envelope of the topic and of its parts. *)
LEMMA EnvelopeType ==
  ASSUME TypeOK, NEW pos \in DOMAIN log
  PROVE  /\ log[pos] \in Envelope
         /\ pos \in 1..Len(log) /\ pos \in Nat
         /\ CommitOf(log[pos]) \in Commit
         /\ log[pos].src \in Clients \X Nat
         /\ Sender(log[pos]) \in Clients
         /\ log[pos].base \in Seq(Commit)
         /\ log[pos].after \in Seq(Commit)
         /\ log[pos].id \in Nat
         /\ log[pos].op \in Ops
<1>1. log[pos] \in Envelope /\ pos \in 1..Len(log)  BY DEF TypeOK
<1>2. QED  BY <1>1 DEF Envelope, Commit, CommitOf, Sender

(* A state the topic prescribes is a sequence of commits. *)
LEMMA CanonType ==
  ASSUME TypeOK, NEW k \in 0..Len(log)
  PROVE  Canon(k) \in Seq(Commit)
<1>1. CASE k = 0  BY <1>1 DEF Canon
<1>2. CASE k # 0
  <2>1. k \in DOMAIN log  BY <1>2 DEF TypeOK
  <2>2. QED  BY <2>1, <1>2, EnvelopeType DEF Canon
<1>3. QED  BY <1>1, <1>2

(* ... and so is the latest one. *)
LEMMA ChainType == ASSUME TypeOK PROVE Chain \in Seq(Commit) /\ Len(log) \in Nat
<1>1. Len(log) \in 0..Len(log) /\ Len(log) \in Nat  BY DEF TypeOK
<1>2. QED  BY <1>1, CanonType DEF Chain

(* The topic stays a sequence of envelopes when a payload is added. *)
LEMMA DeliverType ==
  ASSUME TypeOK, NEW c \in Clients, NEW i \in DOMAIN intents[c], Deliver(c, i)
  PROVE  log' \in Seq(Envelope)
<1> DEFINE row == intents[c][i]
           env == [id |-> row.hash, src |-> <<c, i>>, op |-> row.op,
                   base |-> row.base]
<1>1. row \in Row /\ i \in Nat  BY RowType
<1>2. /\ row.hash \in Nat /\ row.op \in Ops /\ row.base \in Seq(Commit)
  BY <1>1 DEF Row
<1>3. CommitOf(env) \in Commit  BY <1>2, <1>1 DEF CommitOf, Commit
<1>4. Append(Chain, CommitOf(env)) \in Seq(Commit) /\ Chain \in Seq(Commit)
  BY <1>3, ChainType
<1>5. PICK a \in Seq(Commit) :
        log' = Append(log, [id |-> row.hash, src |-> <<c, i>>, op |-> row.op,
                            base |-> row.base, after |-> a])
  BY <1>4 DEF Deliver
<1>6. [id |-> row.hash, src |-> <<c, i>>, op |-> row.op, base |-> row.base,
       after |-> a] \in Envelope
  BY <1>1, <1>2 DEF Envelope
<1>7. QED  BY <1>5, <1>6 DEF TypeOK

(* Where a sync can be. *)
PCs == {"idle", "publish", "send", "resend", "receive", "process", "post",
        "posted"}

(* A sync moves to a known place with a set of ids. *)
LEMMA LoopType ==
  ASSUME TypeOK, NEW c \in Clients, NEW label \in PCs, NEW next \in PCs,
         NEW work \in SUBSET Nat,
         Goto(c, label, work) \/ Loop(c, label, work, next)
  PROVE  /\ pc' \in [Clients -> PCs]
         /\ todo' \in [Clients -> SUBSET Nat]
<1>1. pc \in [Clients -> PCs] /\ todo \in [Clients -> SUBSET Nat]  BY DEF TypeOK, PCs
<1>2. PICK l \in PCs, w \in SUBSET Nat :
        pc' = [pc EXCEPT ![c] = l] /\ todo' = [todo EXCEPT ![c] = w]
  <2>1. CASE Goto(c, label, work)  BY <2>1 DEF Goto
  <2>2. CASE Loop(c, label, work, next)  BY <2>2 DEF Loop, Goto
  <2>3. QED  BY <2>1, <2>2
<1>3. QED  BY <1>1, <1>2

(* Cursors are sequence ids. *)
LEMMA CursorType ==
  ASSUME TypeOK, NEW c \in Clients
  PROVE  /\ cursor[c].commit \in Nat /\ cursor[c].app \in Nat
         /\ HighWater(c) \in Nat
  BY DEF TypeOK, HighWater

(* update_cursor keeps the types of the cursors. *)
LEMMA HandledType ==
  ASSUME TypeOK, NEW c \in Clients, NEW pos \in DOMAIN log, Handled(c, pos)
  PROVE  /\ cursor' \in [Clients -> [commit : Nat, app : Nat]]
         /\ todo' \in [Clients -> SUBSET Nat]
<1>1. pos \in Nat  BY EnvelopeType
<1>2. UpdateCursor(cursor[c], pos) \in [commit : Nat, app : Nat]
  BY <1>1 DEF TypeOK, UpdateCursor
<1>3. QED  BY <1>2 DEF TypeOK, Handled

(* Merging a commit keeps the types of state and commit log. *)
LEMMA MergeType ==
  ASSUME TypeOK, NEW c \in Clients, NEW pos \in DOMAIN log,
         Merge(c, log[pos], pos)
  PROVE  /\ hist' \in [Clients -> Seq(Commit)]
         /\ clog' \in [Clients -> Seq(LogEntry)]
<1> DEFINE h == Append(hist[c], CommitOf(log[pos]))
           entry == [kind |-> "Commit", seq |-> pos, at |-> h]
<1>1. pos \in Nat /\ CommitOf(log[pos]) \in Commit
  BY EnvelopeType DEF TypeOK
<1>2. h \in Seq(Commit)  BY <1>1 DEF TypeOK
<1>3. entry \in LogEntry  BY <1>1, <1>2 DEF LogEntry
<1> HIDE DEF h
<1>4. hist' = [hist EXCEPT ![c] = h]
      /\ clog' = [clog EXCEPT ![c] = Append(clog[c], entry)]
  BY DEF Merge, h, TypeOK
<1> HIDE DEF entry
<1>5. QED  BY <1>2, <1>3, <1>4 DEF TypeOK

(* Recording a failure leaves the state alone. *)
LEMMA MarkFailedType ==
  ASSUME TypeOK, NEW c \in Clients, NEW pos \in DOMAIN log,
         MarkFailed(c, log[pos], pos)
  PROVE  /\ hist' = hist
         /\ clog' \in [Clients -> Seq(LogEntry)]
<1> DEFINE entry == [kind |-> "Failed", seq |-> pos, at |-> hist[c]]
<1>1. pos \in Nat /\ hist[c] \in Seq(Commit)  BY EnvelopeType DEF TypeOK
<1>2. entry \in LogEntry  BY <1>1 DEF LogEntry
<1>3. \/ clog' = [clog EXCEPT ![c] = clog[c]]
      \/ clog' = [clog EXCEPT ![c] = Append(clog[c], entry)]
  BY DEF MarkFailed, TypeOK
<1> HIDE DEF entry
<1>4. QED  BY <1>2, <1>3 DEF TypeOK, MarkFailed

(* Initial states are type correct. *)
LEMMA InitTypeOK == Init => TypeOK
<1> SUFFICES ASSUME Init PROVE TypeOK  OBVIOUS
<1>1. << >> \in Seq(Commit) /\ << >> \in Seq(Envelope) /\ << >> \in Seq(Row)
  OBVIOUS
<1>2. \A c \in Clients :
        << [kind |-> IF c = Creator THEN "GroupCreation" ELSE "Welcome",
            seq |-> 0, at |-> << >>] >> \in Seq(LogEntry)
  BY <1>1 DEF LogEntry
<1>3. version \in [Clients -> Nat]  BY ConstantsAssumption DEF Init
<1>4. QED  BY <1>1, <1>2, <1>3 DEF Init, TypeOK

(* The steps of one client preserve the types, action by action. *)
LEMMA StepTypeOK ==
  ASSUME TypeOK, NEW c \in Clients,
         QueueStep(c) \/ SyncStep(c) \/ FaultStep(c) \/ StreamStep(c)
           \/ Upgrade(c)
  PROVE  TypeOK'
<1> USE DEF PCs
<1>f. ASSUME NEW kind, Fault(kind) PROVE faults' \in Nat
  BY <1>f DEF Fault, TypeOK
<1>i. ASSUME NEW i \in DOMAIN intents[c], NEW row \in Row, SetIntent(c, i, row)
      PROVE  intents' \in [Clients -> Seq(Row)]
  BY <1>i, IntentUpdated DEF SetIntent, TypeOK
<1>w. \A state \in IntentState : FindIntents(intents[c], state) \in SUBSET Nat
  BY DEF FindIntents, TypeOK
<1>1. ASSUME NEW op \in Ops, Queue(c, op) PROVE TypeOK'
  <2>1. Append(intents[c], NewIntent(op)) \in Seq(Row)
    BY NewIntentType DEF TypeOK
  <2>2. QED  BY <1>1, <2>1 DEF Queue, TypeOK
<1>2. ASSUME NEW op \in Ops, NEW key \in Ops, QueueWithKeyUpdate(c, op, key)
      PROVE TypeOK'
  <2>1. <<NewIntent(key), NewIntent(op)>> \in Seq(Row)  BY NewIntentType
  <2>2. intents[c] \o <<NewIntent(key), NewIntent(op)>> \in Seq(Row)
    BY <2>1 DEF TypeOK
  <2>3. QED  BY <1>2, <2>2 DEF QueueWithKeyUpdate, TypeOK
<1>3. CASE SyncStart(c)
  <2>1. pc' \in [Clients -> PCs] /\ todo' \in [Clients -> SUBSET Nat]
    BY <1>3, <1>w, LoopType DEF SyncStart, IntentState
  <2>2. QED  BY <1>3, <2>1 DEF SyncStart, TypeOK
<1>4. ASSUME NEW i \in DOMAIN intents[c], PublishError(c, i) PROVE TypeOK'
  <2>1. pc' \in [Clients -> PCs] /\ todo' \in [Clients -> SUBSET Nat]
    BY <1>4, LoopType DEF PublishError
  <2>2. intents' \in [Clients -> Seq(Row)]
    BY <1>4, <1>i, RowType, SetterTypes DEF PublishError
  <2>3. QED  BY <1>4, <1>f, <2>1, <2>2 DEF PublishError, TypeOK
<1>5. ASSUME NEW i \in DOMAIN intents[c], PublishNothing(c, i) PROVE TypeOK'
  <2>1. todo[c] \ {i} \in SUBSET Nat  BY DEF TypeOK
  <2>2. pc' \in [Clients -> PCs] /\ todo' \in [Clients -> SUBSET Nat]
    BY <1>5, <2>1, LoopType DEF PublishNothing
  <2>3. intents' \in [Clients -> Seq(Row)]
    BY <1>5, <1>i, RowType, SetterTypes DEF PublishNothing
  <2>4. QED  BY <1>5, <2>2, <2>3 DEF PublishNothing, TypeOK
<1>6. ASSUME NEW i \in DOMAIN intents[c], PublishIntent(c, i) PROVE TypeOK'
  <2>1. fresh \in Nat /\ hist[c] \in Seq(Commit)
        /\ (intents[c][i].op.kind = "UpdateGroupMembership") \in BOOLEAN
    BY DEF TypeOK
  <2>2. intents' \in [Clients -> Seq(Row)]
    BY <1>6, <1>i, <2>1, RowType, SetPublishedType DEF PublishIntent
  <2>3. UNCHANGED <<log, hist, cursor, inbox, clog, paused, version,
                    welcomes, todo, faults>>
    BY <1>6 DEF PublishIntent
  <2>4. fresh' = fresh + 1 /\ pc' = [pc EXCEPT ![c] = "send"]
    BY <1>6 DEF PublishIntent
  <2>5. fresh' \in Nat /\ pc' \in [Clients -> PCs]  BY <2>4 DEF TypeOK
  <2>6. QED  BY <2>2, <2>3, <2>5 DEF TypeOK
<1>7. ASSUME NEW i \in DOMAIN intents[c], SendOk(c, i) PROVE TypeOK'
  <2>1. {} \in SUBSET Nat /\ todo[c] \ {i} \in SUBSET Nat  BY DEF TypeOK
  <2>2. pc' \in [Clients -> PCs] /\ todo' \in [Clients -> SUBSET Nat]
    BY <1>7, <2>1, LoopType DEF SendOk
  <2>3. log' \in Seq(Envelope)  BY <1>7, DeliverType DEF SendOk
  <2>4. QED  BY <1>7, <2>2, <2>3 DEF SendOk, TypeOK
<1>8. ASSUME NEW i \in DOMAIN intents[c], SendUnacknowledged(c, i)
      PROVE TypeOK'
  <2>1. log' \in Seq(Envelope)  BY <1>8, DeliverType DEF SendUnacknowledged
  <2>2. QED  BY <1>8, <1>f, <2>1 DEF SendUnacknowledged, TypeOK
<1>9. ASSUME NEW i \in DOMAIN intents[c], SendFailed(c, i) PROVE TypeOK'
  <2>1. pc' \in [Clients -> PCs] /\ todo' \in [Clients -> SUBSET Nat]
    BY <1>9, LoopType DEF SendFailed
  <2>2. IncrementAttempts(intents[c][i]) \in Row /\ intents[c][i] \in Row
    BY RowType, SetterTypes
  <2>3. intents' \in [Clients -> Seq(Row)]
    BY <1>9, <1>i, <2>2, SetterTypes DEF SendFailed
  <2>4. QED  BY <1>9, <1>f, <2>1, <2>3 DEF SendFailed, TypeOK
<1>10. CASE Receive(c)
  <2>1. (HighWater(c) + 1)..Len(log) \in SUBSET Nat
    BY CursorType, ChainType
  <2>2. pc' \in [Clients -> PCs] /\ todo' \in [Clients -> SUBSET Nat]
    <3>1. PICK work \in SUBSET Nat : work = (HighWater(c) + 1)..Len(log)  BY <2>1
    <3>2. Goto(c, "process", work) /\ "process" \in PCs
      BY <1>10, <3>1 DEF Receive, PCs
    <3>3. QED  BY <3>2, LoopType
  <2>3. QED  BY <1>10, <2>2 DEF Receive, TypeOK
<1>11. CASE ReceiveFailed(c)
  <2>1. pc' \in [Clients -> PCs] /\ todo' \in [Clients -> SUBSET Nat]
    BY <1>11, LoopType DEF ReceiveFailed
  <2>2. QED  BY <1>11, <1>f, <2>1 DEF ReceiveFailed, TypeOK
<1>12. ASSUME NEW pos \in DOMAIN log, NEW i \in DOMAIN intents[c],
              ProcessOwn(c, pos, i)
       PROVE TypeOK'
  <2>1. Resolved(intents[c][i], log[pos], hist[c], pos) \in Row
    BY RowType, SetterTypes, SetCommittedType, EnvelopeType DEF Resolved
  <2>2. intents' \in [Clients -> Seq(Row)]
    BY <1>12, <1>i, <2>1 DEF ProcessOwn
  <2>3. /\ cursor' \in [Clients -> [commit : Nat, app : Nat]]
        /\ todo' \in [Clients -> SUBSET Nat]
    BY <1>12, HandledType DEF ProcessOwn
  <2>4. hist' \in [Clients -> Seq(Commit)] /\ clog' \in [Clients -> Seq(LogEntry)]
    <3>1. CASE Merge(c, log[pos], pos)  BY <3>1, MergeType
    <3>2. CASE MarkFailed(c, log[pos], pos)
      BY <3>2, MarkFailedType DEF TypeOK
    <3>3. CASE UNCHANGED <<hist, clog>>  BY <3>3 DEF TypeOK
    <3>4. QED  BY <1>12, <3>1, <3>2, <3>3 DEF ProcessOwn
  <2>5. QED  BY <1>12, <2>2, <2>3, <2>4 DEF ProcessOwn, TypeOK
<1>13. ASSUME NEW pos \in DOMAIN log, MergeExternal(c, pos) PROVE TypeOK'
  <2>1. hist' \in [Clients -> Seq(Commit)] /\ clog' \in [Clients -> Seq(LogEntry)]
    BY <1>13, MergeType DEF MergeExternal
  <2>2. /\ cursor' \in [Clients -> [commit : Nat, app : Nat]]
        /\ todo' \in [Clients -> SUBSET Nat]
    BY <1>13, HandledType DEF MergeExternal
  <2>3. QED  BY <1>13, <2>1, <2>2 DEF MergeExternal, TypeOK
<1>14. ASSUME NEW pos \in DOMAIN log, StoreExternal(c, pos) PROVE TypeOK'
  <2>1. /\ cursor' \in [Clients -> [commit : Nat, app : Nat]]
        /\ todo' \in [Clients -> SUBSET Nat]
    BY <1>14, HandledType DEF StoreExternal
  <2>2. log[pos].src \in Clients \X Nat  BY EnvelopeType
  <2>3. inbox' \in [Clients -> SUBSET (Clients \X Nat)]
    BY <1>14, <2>2 DEF StoreExternal, TypeOK
  <2>4. QED  BY <1>14, <2>1, <2>3 DEF StoreExternal, TypeOK
<1>15. ASSUME NEW pos \in DOMAIN log, SkipOwn(c, pos) PROVE TypeOK'
  <2>1. /\ cursor' \in [Clients -> [commit : Nat, app : Nat]]
        /\ todo' \in [Clients -> SUBSET Nat]
    BY <1>15, HandledType DEF SkipOwn
  <2>2. QED  BY <1>15, <2>1 DEF SkipOwn, TypeOK
<1>16. ASSUME NEW pos \in DOMAIN log, RejectExternal(c, pos) PROVE TypeOK'
  <2>1. /\ cursor' \in [Clients -> [commit : Nat, app : Nat]]
        /\ todo' \in [Clients -> SUBSET Nat]
    BY <1>16, HandledType DEF RejectExternal
  <2>2. hist' = hist /\ clog' \in [Clients -> Seq(LogEntry)]
    BY <1>16, MarkFailedType DEF RejectExternal
  <2>3. QED  BY <1>16, <2>1, <2>2 DEF RejectExternal, TypeOK
<1>17. ASSUME NEW pos \in DOMAIN log, Pause(c, pos) PROVE TypeOK'
  <2>1. log[pos].op.value \in Nat
    BY EnvelopeType, ConstantsAssumption
  <2>2. QED  BY <1>17, <2>1 DEF Pause, TypeOK
<1>18. ASSUME NEW pos \in DOMAIN log, RetryableError(c, pos) PROVE TypeOK'
  BY <1>18, <1>f DEF RetryableError, TypeOK
<1>19. CASE PostCommitStart(c)
  <2>1. pc' \in [Clients -> PCs] /\ todo' \in [Clients -> SUBSET Nat]
    BY <1>19, <1>w, LoopType DEF PostCommitStart, IntentState
  <2>2. QED  BY <1>19, <2>1 DEF PostCommitStart, TypeOK
<1>20. ASSUME NEW i \in DOMAIN intents[c], SendWelcomes(c, i) PROVE TypeOK'
  <2>1. intents[c][i].seq \in Nat /\ i \in Nat  BY RowType DEF Row
  <2>2. [src |-> <<c, i>>, seq |-> intents[c][i].seq]
          \in [src : Clients \X Nat, seq : Nat]
    BY <2>1
  <2>3. QED  BY <1>20, <2>2 DEF SendWelcomes, TypeOK
<1>21. ASSUME NEW i \in DOMAIN intents[c], SendWelcomesFailed(c, i)
       PROVE TypeOK'
  <2>1. pc' \in [Clients -> PCs] /\ todo' \in [Clients -> SUBSET Nat]
    BY <1>21, LoopType DEF SendWelcomesFailed
  <2>2. QED  BY <1>21, <1>f, <2>1 DEF SendWelcomesFailed, TypeOK
<1>22. ASSUME NEW i \in DOMAIN intents[c], FinishIntent(c, i) PROVE TypeOK'
  <2>1. todo[c] \ {i} \in SUBSET Nat  BY DEF TypeOK
  <2>2. pc' \in [Clients -> PCs] /\ todo' \in [Clients -> SUBSET Nat]
    BY <1>22, <2>1, LoopType DEF FinishIntent
  <2>3. intents' \in [Clients -> Seq(Row)]
    BY <1>22, <1>i, RowType, SetterTypes DEF FinishIntent
  <2>4. QED  BY <1>22, <2>2, <2>3 DEF FinishIntent, TypeOK
<1>23. ASSUME NEW pos \in DOMAIN log, NEW i \in DOMAIN intents[c],
              StreamOwn(c, pos, i)
       PROVE TypeOK'
  <2>1. Resolved(intents[c][i], log[pos], hist[c], pos) \in Row
    BY RowType, SetterTypes, SetCommittedType, EnvelopeType DEF Resolved
  <2>2. intents' \in [Clients -> Seq(Row)]
    BY <1>23, <1>i, <2>1 DEF StreamOwn
  <2>3. QED  BY <1>23, <2>2 DEF StreamOwn, TypeOK
<1>24. ASSUME NEW pos \in DOMAIN log, StreamExternal(c, pos) PROVE TypeOK'
  <2>1. log[pos].src \in Clients \X Nat  BY EnvelopeType
  <2>2. inbox' \in [Clients -> SUBSET (Clients \X Nat)]
    BY <1>24, <2>1 DEF StreamExternal, TypeOK
  <2>3. QED  BY <1>24, <2>2 DEF StreamExternal, TypeOK
<1>25. CASE Crash(c)
  <2>1. pc' \in [Clients -> PCs] /\ todo' \in [Clients -> SUBSET Nat]
    BY <1>25, LoopType DEF Crash
  <2>2. QED  BY <1>25, <1>f, <2>1 DEF Crash, TypeOK
<1>26. CASE Upgrade(c)
  <2>1. version[c] + 1 \in Nat  BY DEF TypeOK
  <2>2. QED  BY <1>26, <2>1 DEF Upgrade, TypeOK
<1>27. QED
  BY <1>1, <1>2, <1>3, <1>4, <1>5, <1>6, <1>7, <1>8, <1>9, <1>10, <1>11,
     <1>12, <1>13, <1>14, <1>15, <1>16, <1>17, <1>18, <1>19, <1>20, <1>21,
     <1>22, <1>23, <1>24, <1>25, <1>26
  DEF QueueStep, SyncStep, ProcessStep, FaultStep, StreamStep

(* Type correctness: every variable keeps its type. *)
THEOREM TypeCorrect == Spec => []TypeOK
<1>1. TypeOK /\ [Next]_vars => TypeOK'
  <2> SUFFICES ASSUME TypeOK, [Next]_vars PROVE TypeOK'  OBVIOUS
  <2>1. CASE Next  BY <2>1, StepTypeOK DEF Next
  <2>2. CASE UNCHANGED vars  BY <2>2 DEF vars, TypeOK
  <2>3. QED  BY <2>1, <2>2
<1>2. QED  BY InitTypeOK, <1>1, PTL DEF Spec

-----------------------------------------------------------------------------
(* Prefixes *)

(* A state is a prefix of itself. *)
LEMMA PrefixRefl == \A s : Prefix(s, s)
  BY DEF Prefix

(* A prefix of the same length is the whole. *)
LEMMA PrefixEqual ==
  ASSUME NEW s \in Seq(Commit), NEW t \in Seq(Commit), Prefix(s, t),
         Len(s) = Len(t)
  PROVE  s = t
  BY DEF Prefix

(* A prefix stays one when the longer state grows. *)
LEMMA PrefixAppend ==
  ASSUME NEW s \in Seq(Commit), NEW t \in Seq(Commit), NEW x \in Commit,
         Prefix(s, t)
  PROVE  Prefix(s, Append(t, x))
  BY DEF Prefix

(* Sequence ids of the topic start at 1. *)
LEMMA LogDomain == ASSUME TypeOK PROVE DOMAIN log = 1..Len(log)
  BY DEF TypeOK

(* Of two prescribed states of one epoch there is only one. *)
LEMMA SameEpoch ==
  ASSUME TypeOK, ChainInv, NEW j \in 0..Len(log), NEW k \in 0..Len(log),
         Epoch(Canon(j)) = Epoch(Canon(k))
  PROVE  Canon(j) = Canon(k)
<1>1. Canon(j) \in Seq(Commit) /\ Canon(k) \in Seq(Commit)  BY CanonType
<1>2. Prefix(Canon(j), Canon(k)) \/ Prefix(Canon(k), Canon(j))
  BY ChainType DEF ChainInv
<1>3. QED  BY <1>1, <1>2, PrefixEqual DEF Epoch

(* The topic never prescribes a smaller epoch later on. *)
LEMMA EarlierEpoch ==
  ASSUME TypeOK, ChainInv, NEW j \in 0..Len(log), NEW k \in 0..Len(log), j <= k
  PROVE  /\ Epoch(Canon(j)) <= Epoch(Canon(k))
         /\ Epoch(Canon(j)) \in Nat /\ Epoch(Canon(k)) \in Nat
<1>1. Canon(j) \in Seq(Commit) /\ Canon(k) \in Seq(Commit)  BY CanonType
<1>2. QED  BY <1>1 DEF ChainInv, Prefix, Epoch

-----------------------------------------------------------------------------
(* Steps of one client that leave the topic alone *)

(* The row n may get a fresh hash; the others keep or lose theirs. *)
RowMoves(c, i, n) ==
  LET new == intents'[c][i]
      old == intents[c][i]
  IN \/ new.hash = NoHash /\ new.state # "Published"
     \/ /\ i \in DOMAIN intents[c]
        /\ new.hash = old.hash /\ new.base = old.base /\ new.op = old.op
        /\ new.state = "Published" => old.state = "Published"
     \/ /\ i = n /\ new.hash = fresh /\ fresh' = fresh + 1
        /\ new.base = hist[c]

(* No row stops waiting for a payload that could still be applied. *)
StillWaited(c) ==
  \A k \in (HighWater(c)' + 1)..Len(log) : \A i \in DOMAIN intents[c] :
    (/\ IsCommit(log[k])
     /\ intents[c][i].state = "Published" /\ intents[c][i].hash = log[k].id)
    => \/ Epoch(log[k].base) < Epoch(hist'[c])
       \/ \E j \in DOMAIN intents'[c] : intents'[c][j].state = "Published"
                                        /\ intents'[c][j].hash = log[k].id

(***************************************************************************)
(* A step of c that leaves the topic alone, keeps c on the state its       *)
(* cursors stand for and abandons no payload that could be applied         *)
(* preserves StateInv.                                                     *)
(***************************************************************************)
LEMMA ClientStep ==
  ASSUME TypeOK, TypeOK', StateInv, NEW c \in Clients, NEW n,
         log' = log, fresh' \in {fresh, fresh + 1},
         \A d \in Clients \ {c} : /\ hist'[d] = hist[d]
                                  /\ cursor'[d] = cursor[d]
                                  /\ intents'[d] = intents[d],
         HighWater(c)' \in HighWater(c)..Len(log),
         hist'[c] = Canon(HighWater(c)'),
         \A i \in DOMAIN intents'[c] : RowMoves(c, i, n),
         StillWaited(c)
  PROVE  StateInv'
<1> USE DEF StateInv
<1>t. fresh \in Nat /\ fresh' \in Nat /\ fresh <= fresh' /\ Len(log) \in Nat
      /\ HighWater(c) \in Nat /\ HighWater(c)' \in Nat
      /\ HighWater(c) <= HighWater(c)' /\ HighWater(c)' <= Len(log)
  <2>1. fresh \in Nat /\ Len(log) \in Nat /\ HighWater(c) \in Nat
    BY ChainType, CursorType DEF TypeOK
  <2>2. QED  BY <2>1
<1>z. fresh > 0 /\ fresh' > 0  BY <1>t DEF HashInv, NoHash
<1>c. \A k : Canon(k)' = Canon(k)  BY DEF Canon
<1>h. \A d \in Clients \ {c} : HighWater(d)' = HighWater(d)
  BY DEF HighWater
<1>1. LogInv' /\ ChainInv'
  <2>1. ChainInv'  BY DEF ChainInv, Canon
  <2>2. ASSUME NEW k \in DOMAIN log
        PROVE  /\ log[k].after = IF Wins(k)
                                 THEN Append(Canon(k - 1), CommitOf(log[k]))
                                 ELSE Canon(k - 1)
               /\ \E j \in 0..(k - 1) : log[k].base = Canon(j)
               /\ log[k].id \in 1..(fresh' - 1)
    BY <1>t, EnvelopeType DEF LogInv
  <2>w. \A k : Wins(k)' = Wins(k)  BY <1>c DEF Wins
  <2>3. LogInv'  BY <2>2, <2>w, <1>c DEF LogInv
  <2>4. QED  BY <2>1, <2>3
<1>2. PosInv'
  <2>1. PosInv /\ HighWater(c) \in 0..Len(log)  BY DEF PosInv
  <2>2. HighWater(c)' \in 0..Len(log)'  BY <2>1, <1>t
  <2>3. QED  BY <1>c, <1>h, <2>1, <2>2 DEF PosInv
<1>3. HashInv'
  <2>1. ASSUME NEW d \in Clients, NEW i \in DOMAIN intents'[d]
        PROVE  /\ intents'[d][i].hash \in 0..(fresh' - 1)
               /\ \/ intents'[d][i].hash = NoHash
                  \/ /\ i \in DOMAIN intents[d]
                     /\ intents'[d][i].hash = intents[d][i].hash
                  \/ /\ d = c /\ i = n /\ intents'[d][i].hash = fresh
    <3>1. CASE d # c
      <4>1. intents[d][i].hash \in 0..(fresh - 1)  BY <3>1 DEF HashInv
      <4>2. QED  BY <4>1, <3>1, <1>t
    <3>2. CASE d = c
      <4>1. i \in DOMAIN intents[c] => intents[c][i].hash \in 0..(fresh - 1)
        BY DEF HashInv
      <4>2. RowMoves(c, i, n)  BY <3>2
      <4>3. QED  BY <3>2, <4>1, <4>2, <1>t, <1>z DEF RowMoves, NoHash
    <3>3. QED  BY <3>1, <3>2
  <2>2. \A d \in Clients : \A i \in DOMAIN intents[d] :
          intents[d][i].hash \in 0..(fresh - 1)
    BY DEF HashInv
  <2>3. ASSUME NEW d \in Clients, NEW e \in Clients,
               NEW i \in DOMAIN intents'[d], NEW j \in DOMAIN intents'[e],
               intents'[d][i].hash # NoHash,
               intents'[d][i].hash = intents'[e][j].hash
        PROVE  d = e /\ i = j
    <3>1. \/ /\ i \in DOMAIN intents[d]
             /\ intents'[d][i].hash = intents[d][i].hash
          \/ d = c /\ i = n /\ intents'[d][i].hash = fresh
      BY <2>1, <2>3
    <3>2. \/ /\ j \in DOMAIN intents[e]
             /\ intents'[e][j].hash = intents[e][j].hash
          \/ e = c /\ j = n /\ intents'[e][j].hash = fresh
      BY <2>1, <2>3
    <3>3. QED  BY <2>3, <3>1, <3>2, <2>2, <1>t DEF HashInv
  <2>4. QED  BY <2>1, <2>3, <1>z DEF HashInv, NoHash
<1>4. RowInv'
  <2>1. ASSUME NEW d \in Clients, NEW i \in DOMAIN intents'[d]
        PROVE  /\ intents'[d][i].state = "Published" =>
                    /\ intents'[d][i].hash # NoHash
                    /\ \E j \in 0..(HighWater(d)') : intents'[d][i].base = Canon(j)
               /\ \A k \in DOMAIN log : log[k].id = intents'[d][i].hash =>
                    /\ log[k].src = <<d, i>> /\ log[k].op = intents'[d][i].op
                    /\ log[k].base = intents'[d][i].base
    <3>1. CASE d # c  BY <3>1, <1>h DEF RowInv
    <3>2. CASE d = c
      <4>1. RowMoves(c, i, n)  BY <3>2
      <4>2. \A k \in DOMAIN log : log[k].id \in 1..(fresh - 1)  BY DEF LogInv
      <4>3. CASE /\ intents'[c][i].hash = NoHash
                 /\ intents'[c][i].state # "Published"
        BY <3>2, <4>2, <4>3, <1>t DEF NoHash
      <4>4. CASE /\ i \in DOMAIN intents[c]
                 /\ intents'[c][i].hash = intents[c][i].hash
                 /\ intents'[c][i].base = intents[c][i].base
                 /\ intents'[c][i].op = intents[c][i].op
                 /\ intents'[c][i].state = "Published"
                      => intents[c][i].state = "Published"
        <5>1. \A j \in 0..HighWater(c) : j \in 0..(HighWater(c)')  BY <1>t
        <5>2. QED  BY <3>2, <4>4, <5>1 DEF RowInv
      <4>5. CASE intents'[c][i].hash = fresh /\ intents'[c][i].base = hist[c]
                 /\ fresh' = fresh + 1
        <5>1. fresh # NoHash  BY <1>z DEF NoHash
        <5>2. HighWater(c) \in 0..(HighWater(c)') /\ hist[c] = Canon(HighWater(c))
          BY <1>t DEF PosInv
        <5>3. \A k \in DOMAIN log : log[k].id # fresh  BY <4>2, <1>t
        <5>4. QED  BY <3>2, <4>5, <5>1, <5>2, <5>3
      <4>6. QED  BY <4>1, <4>3, <4>4, <4>5 DEF RowMoves
    <3>3. QED  BY <3>1, <3>2
  <2>2. QED  BY <2>1, <1>c DEF RowInv
<1>5. OwnInv'
  <2>1. ASSUME NEW d \in Clients, NEW k \in (HighWater(d)' + 1)..Len(log),
               IsCommit(log[k]), Sender(log[k]) = d
        PROVE  \/ Epoch(log[k].base) < Epoch(hist'[d])
               \/ \E i \in DOMAIN intents'[d] :
                    /\ intents'[d][i].state = "Published"
                    /\ intents'[d][i].hash = log[k].id
    <3>1. CASE d # c  BY <3>1, <2>1, <1>h DEF OwnInv
    <3>2. CASE d = c
      <4>0. k \in (HighWater(c)' + 1)..Len(log)  BY <3>2 DEF HighWater
      <4>1. k \in (HighWater(c) + 1)..Len(log)  BY <4>0, <1>t
      <4>2. Epoch(hist[c]) <= Epoch(hist'[c])
            /\ Epoch(hist[c]) \in Nat /\ Epoch(hist'[c]) \in Nat
        BY <1>t, EarlierEpoch DEF PosInv
      <4>3. Epoch(log[k].base) \in Nat
        <5>1. k \in DOMAIN log
          <6>1. k \in 1..Len(log)  BY <4>1, <1>t
          <6>2. QED  BY <6>1, LogDomain
        <5>2. QED  BY <5>1, EnvelopeType DEF Epoch
      <4>4. \/ Epoch(log[k].base) < Epoch(hist[c])
            \/ \E i \in DOMAIN intents[c] :
                 /\ intents[c][i].state = "Published"
                 /\ intents[c][i].hash = log[k].id
        BY <2>1, <3>2, <4>1 DEF OwnInv
      <4>5. CASE Epoch(log[k].base) < Epoch(hist[c])
        BY <3>2, <4>2, <4>3, <4>5
      <4>6. CASE \E i \in DOMAIN intents[c] :
                   /\ intents[c][i].state = "Published"
                   /\ intents[c][i].hash = log[k].id
        BY <2>1, <3>2, <4>0, <4>6 DEF StillWaited
      <4>7. QED  BY <4>4, <4>5, <4>6
    <3>3. QED  BY <3>1, <3>2
  <2>2. QED  BY <2>1 DEF OwnInv
<1>6. QED  BY <1>1, <1>2, <1>3, <1>4, <1>5

-----------------------------------------------------------------------------
(* The topic grows *)

(* What the topic is after c's payload was added to it. *)
LEMMA Delivered ==
  ASSUME TypeOK, NEW c \in Clients, NEW i \in DOMAIN intents[c], Deliver(c, i),
         NEW n \in Nat, n = Len(log) + 1
  PROVE  LET row == intents[c][i]
         IN /\ Len(log') = n /\ DOMAIN log' = 1..n
            /\ \A k \in 1..Len(log) : log'[k] = log[k]
            /\ \A k \in 0..Len(log) : Canon(k)' = Canon(k)
            /\ log'[n].id = row.hash /\ log'[n].src = <<c, i>>
            /\ log'[n].op = row.op /\ log'[n].base = row.base
            /\ log'[n].after =
                 IF IsCommit(log'[n]) /\ log'[n].base = Chain
                 THEN Append(Chain, CommitOf(log'[n])) ELSE Chain
            /\ Canon(n)' = log'[n].after
<1> DEFINE row == intents[c][i]
           env == [id |-> row.hash, src |-> <<c, i>>, op |-> row.op,
                   base |-> row.base]
           wins == row.op.kind \in CommitKinds /\ row.base = Chain
           new == [id |-> row.hash, src |-> <<c, i>>, op |-> row.op,
                   base |-> row.base,
                   after |-> IF wins THEN Append(Chain, CommitOf(env))
                             ELSE Chain]
<1>1. log' = Append(log, new)  BY DEF Deliver
<1>2. Len(log) \in Nat /\ log \in Seq(Envelope)  BY DEF TypeOK
<1>3. CommitOf(env) = CommitOf(new)  BY DEF CommitOf
<1>4. IsCommit(new) <=> row.op.kind \in CommitKinds  BY DEF IsCommit
<1>5. new.after = IF IsCommit(new) /\ new.base = Chain
                  THEN Append(Chain, CommitOf(new)) ELSE Chain
  BY <1>3, <1>4
<1>6. new.id = row.hash /\ new.src = <<c, i>> /\ new.op = row.op
      /\ new.base = row.base
  OBVIOUS
<1> HIDE DEF new, row
<1>7. /\ Len(log') = n /\ DOMAIN log' = 1..n /\ log'[n] = new
      /\ \A k \in 1..Len(log) : log'[k] = log[k]
  BY <1>1, <1>2
<1>8. \A k \in 0..Len(log) : Canon(k)' = Canon(k)  BY <1>7, <1>2 DEF Canon
<1>9. Canon(n)' = log'[n].after  BY <1>2 DEF Canon
<1>10. QED  BY <1>5, <1>6, <1>7, <1>8, <1>9 DEF row

(* Adding the payload of a published row to the topic preserves StateInv. *)
LEMMA DeliverStep ==
  ASSUME TypeOK, TypeOK', StateInv, NEW c \in Clients,
         NEW i \in DOMAIN intents[c], Deliver(c, i),
         intents[c][i].state = "Published",
         UNCHANGED <<fresh, hist, cursor, intents>>
  PROVE  StateInv'
<1> USE DEF StateInv
<1> DEFINE row == intents[c][i]
<1>l. Len(log) \in Nat /\ fresh \in Nat /\ DOMAIN log = 1..Len(log)
  BY ChainType, LogDomain DEF TypeOK
<1>m. PICK n \in Nat : n = Len(log) + 1  BY <1>l
<1>n. /\ Len(log') = n /\ DOMAIN log' = 1..n
      /\ \A k \in 1..Len(log) : log'[k] = log[k]
      /\ \A k \in 0..Len(log) : Canon(k)' = Canon(k)
      /\ log'[n].id = row.hash /\ log'[n].src = <<c, i>>
      /\ log'[n].op = row.op /\ log'[n].base = row.base
      /\ log'[n].after = IF IsCommit(log'[n]) /\ log'[n].base = Chain
                         THEN Append(Chain, CommitOf(log'[n])) ELSE Chain
      /\ Canon(n)' = log'[n].after
  BY <1>m, Delivered
<1>h. \A d \in Clients : HighWater(d)' = HighWater(d)
                         /\ HighWater(d) \in 0..Len(log)
  BY DEF HighWater, PosInv
<1>b. /\ row.hash \in 1..(fresh - 1)
      /\ \E j \in 0..Len(log) : row.base = Canon(j)
  <2>1. row.hash # NoHash /\ \E j \in 0..HighWater(c) : row.base = Canon(j)
    BY DEF RowInv
  <2>2. row.hash \in 0..(fresh - 1)  BY DEF HashInv
  <2>3. QED  BY <2>1, <2>2, <1>h, <1>l, <1>m DEF NoHash
<1> HIDE DEF row
<1>1. LogInv'
  <2>1. ASSUME NEW k \in 1..n
        PROVE  /\ log'[k].after = IF Wins(k)'
                                  THEN Append(Canon(k - 1)', CommitOf(log'[k]))
                                  ELSE Canon(k - 1)'
               /\ \E j \in 0..(k - 1) : log'[k].base = Canon(j)'
               /\ log'[k].id \in 1..(fresh' - 1)
    <3>1. CASE k \in 1..Len(log)
      <4>1. Canon(k - 1)' = Canon(k - 1) /\ log'[k] = log[k]
        BY <3>1, <1>n, <1>l, <1>m
      <4>2. Wins(k)' = Wins(k)  BY <4>1 DEF Wins
      <4>3. \A j \in 0..(k - 1) : Canon(j)' = Canon(j)  BY <3>1, <1>n, <1>l, <1>m
      <4>4. QED  BY <3>1, <4>1, <4>2, <4>3, <1>l, <1>m DEF LogInv
    <3>2. CASE k = n
      <4>1. Canon(k - 1)' = Chain /\ k - 1 = Len(log)
        BY <3>2, <1>n, <1>l, <1>m DEF Chain
      <4>2. Wins(k)' <=> IsCommit(log'[n]) /\ log'[n].base = Chain
        BY <3>2, <4>1 DEF Wins
      <4>3. \E j \in 0..(k - 1) : log'[k].base = Canon(j)'
        BY <3>2, <4>1, <1>n, <1>b
      <4>4. QED  BY <3>2, <4>1, <4>2, <4>3, <1>n, <1>b
    <3>3. QED  BY <3>1, <3>2, <1>l, <1>m
  <2>2. QED  BY <2>1, <1>n DEF LogInv
<1>2. ChainInv'
  <2>1. ASSUME NEW j \in 0..n, NEW k \in 0..n, j <= k
        PROVE  Prefix(Canon(j)', Canon(k)')
    <3>1. CASE k \in 0..Len(log)
      <4>1. j \in 0..Len(log)  BY <2>1, <3>1, <1>l, <1>m
      <4>2. QED  BY <2>1, <3>1, <4>1, <1>n DEF ChainInv
    <3>2. CASE k = n /\ j = n  BY <3>2, PrefixRefl
    <3>3. CASE k = n /\ j \in 0..Len(log)
      <4>1. Prefix(Canon(j), Chain)  BY <3>3, <1>l, <1>m DEF ChainInv, Chain
      <4>2. Canon(j) \in Seq(Commit) /\ Chain \in Seq(Commit)
        BY <3>3, CanonType, ChainType
      <4>3. CommitOf(log'[n]) \in Commit
        <5>1. log'[n] \in Envelope  BY <1>n, <1>l, <1>m DEF TypeOK
        <5>2. QED  BY <5>1 DEF Envelope, Commit, CommitOf
      <4>4. Prefix(Canon(j), Append(Chain, CommitOf(log'[n])))
        BY <4>1, <4>2, <4>3, PrefixAppend
      <4>5. QED  BY <3>3, <4>1, <4>4, <1>n
    <3>4. QED  BY <3>1, <3>2, <3>3, <1>l, <1>m
  <2>2. QED  BY <2>1, <1>n DEF ChainInv
<1>3. PosInv'
  BY <1>n, <1>h, <1>l, <1>m DEF PosInv
<1>4. HashInv'  BY DEF HashInv
<1>5. RowInv'
  <2>1. ASSUME NEW d \in Clients, NEW j \in DOMAIN intents[d]
        PROVE  /\ intents[d][j].state = "Published" =>
                    /\ intents[d][j].hash # NoHash
                    /\ \E k \in 0..HighWater(d) : intents[d][j].base = Canon(k)'
               /\ \A k \in DOMAIN log' : log'[k].id = intents[d][j].hash =>
                    /\ log'[k].src = <<d, j>> /\ log'[k].op = intents[d][j].op
                    /\ log'[k].base = intents[d][j].base
    <3>1. \A k \in 0..HighWater(d) : Canon(k)' = Canon(k)
      BY <1>n, <1>h, <1>l, <1>m
    <3>2. ASSUME NEW k \in DOMAIN log', log'[k].id = intents[d][j].hash
          PROVE  /\ log'[k].src = <<d, j>> /\ log'[k].op = intents[d][j].op
                 /\ log'[k].base = intents[d][j].base
      <4>1. CASE k \in 1..Len(log)  BY <3>2, <4>1, <1>n, <1>l, <1>m DEF RowInv
      <4>2. CASE k = n
        <5>1. d = c /\ j = i
          BY <3>2, <4>2, <1>n, <1>b, <1>l, <1>m DEF HashInv, row, NoHash
        <5>2. QED  BY <4>2, <5>1, <1>n DEF row
      <4>3. QED  BY <4>1, <4>2, <1>n, <1>l, <1>m
    <3>3. QED  BY <3>1, <3>2 DEF RowInv
  <2>2. QED  BY <2>1, <1>h DEF RowInv
<1>6. OwnInv'
  <2>1. ASSUME NEW d \in Clients, NEW k \in (HighWater(d) + 1)..n,
               IsCommit(log'[k]), Sender(log'[k]) = d
        PROVE  \/ Epoch(log'[k].base) < Epoch(hist[d])
               \/ \E j \in DOMAIN intents[d] :
                    /\ intents[d][j].state = "Published"
                    /\ intents[d][j].hash = log'[k].id
    <3>1. CASE k \in (HighWater(d) + 1)..Len(log)
      <4>1. log'[k] = log[k]  BY <3>1, <1>n, <1>h, <1>l, <1>m
      <4>2. QED  BY <2>1, <3>1, <4>1 DEF OwnInv
    <3>2. CASE k = n
      <4>1. d = c  BY <2>1, <3>2, <1>n DEF Sender
      <4>2. QED  BY <3>2, <4>1, <1>n DEF row
    <3>3. QED  BY <3>1, <3>2, <1>h, <1>l, <1>m
  <2>2. QED  BY <2>1, <1>n, <1>h DEF OwnInv
<1>7. QED  BY <1>1, <1>2, <1>3, <1>4, <1>5, <1>6

-----------------------------------------------------------------------------
(* Frames: what the steps of one client leave alone *)

(* StateInv depends on five variables only. *)
LEMMA IdleStep ==
  ASSUME StateInv, UNCHANGED <<log, fresh, hist, cursor, intents>>
  PROVE  StateInv'
<1>1. \A k : Canon(k)' = Canon(k)  BY DEF Canon
<1>2. \A c : HighWater(c)' = HighWater(c)  BY DEF HighWater
<1>3. \A k : Wins(k)' = Wins(k)  BY <1>1 DEF Wins
<1>4. QED
  BY <1>1, <1>2, <1>3
  DEF StateInv, LogInv, ChainInv, PosInv, HashInv, RowInv, OwnInv

(* The other clients' loops are as they were. *)
LEMMA OtherLoops ==
  ASSUME LoopInv, NEW c \in Clients, log' = log,
         \A d \in Clients \ {c} : /\ pc'[d] = pc[d] /\ todo'[d] = todo[d]
                                  /\ cursor'[d] = cursor[d]
                                  /\ intents'[d] = intents[d],
         BatchOK(c)' /\ LoopOK(c)'
  PROVE  LoopInv'
<1>1. ASSUME NEW d \in Clients \ {c} PROVE BatchOK(d)' /\ LoopOK(d)'
  <2>1. BatchOK(d) /\ LoopOK(d)  BY DEF LoopInv
  <2>2. BatchOK(d)'  BY <2>1 DEF BatchOK, HighWater
  <2>3. LoopOK(d)'  BY <2>1 DEF LoopOK, IsNext
  <2>4. QED  BY <2>2, <2>3
<1>2. QED  BY <1>1 DEF LoopInv

(* One row of c changes. *)
LEMMA RowStep ==
  ASSUME TypeOK, TypeOK', StateInv, NEW c \in Clients,
         NEW i \in DOMAIN intents[c], NEW row \in Row, SetIntent(c, i, row),
         UNCHANGED <<log, hist, cursor>>, fresh' \in {fresh, fresh + 1},
         \/ row.hash = NoHash /\ row.state # "Published"
         \/ /\ row.hash = intents[c][i].hash /\ row.base = intents[c][i].base
            /\ row.op = intents[c][i].op
            /\ row.state = "Published" => intents[c][i].state = "Published"
         \/ row.hash = fresh /\ fresh' = fresh + 1 /\ row.base = hist[c],
         \/ intents[c][i].state # "Published"
         \/ \A k \in DOMAIN log :
              IsCommit(log[k]) => log[k].id # intents[c][i].hash
  PROVE  StateInv'
<1>1. /\ DOMAIN intents'[c] = DOMAIN intents[c]
      /\ intents'[c][i] = row
      /\ \A j \in DOMAIN intents[c] : j # i => intents'[c][j] = intents[c][j]
      /\ \A d \in Clients \ {c} : intents'[d] = intents[d]
  <2>1. intents \in [Clients -> Seq(Row)]  BY DEF TypeOK
  <2>2. intents' = [intents EXCEPT ![c][i] = row]  BY DEF SetIntent
  <2>3. QED  BY <2>1, <2>2
<1>2. HighWater(c)' = HighWater(c)  BY DEF HighWater
<1>3. HighWater(c) \in 0..Len(log) /\ hist[c] = Canon(HighWater(c))
  BY DEF StateInv, PosInv
<1>4. \A j \in DOMAIN intents'[c] : RowMoves(c, j, i)
  BY <1>1 DEF RowMoves
<1>5. StillWaited(c)
  <2>1. ASSUME NEW k \in (HighWater(c) + 1)..Len(log),
               NEW j \in DOMAIN intents[c], IsCommit(log[k]),
               intents[c][j].state = "Published",
               intents[c][j].hash = log[k].id
        PROVE  /\ intents'[c][j].state = "Published"
               /\ intents'[c][j].hash = log[k].id
    <3>1. k \in DOMAIN log
      <4>1. k \in 1..Len(log)  BY <1>3, ChainType
      <4>2. QED  BY <4>1, LogDomain
    <3>2. j # i  BY <2>1, <3>1
    <3>3. QED  BY <2>1, <3>2, <1>1
  <2>2. QED  BY <2>1, <1>1, <1>2 DEF StillWaited
<1>6. HighWater(c)' \in HighWater(c)..Len(log)  BY <1>2, <1>3, ChainType
<1>7. hist'[c] = Canon(HighWater(c)')  BY <1>2, <1>3
<1>8. QED  BY <1>1, <1>4, <1>5, <1>6, <1>7, ClientStep

(* Intents are queued by c. *)
LEMMA QueueInv ==
  ASSUME TypeOK, TypeOK', StateInv, LoopInv, NEW c \in Clients,
         UNCHANGED <<log, fresh, hist, cursor, pc, todo>>,
         \A d \in Clients \ {c} : intents'[d] = intents[d],
         DOMAIN intents[c] \subseteq DOMAIN intents'[c],
         \A i \in DOMAIN intents[c] : intents'[c][i] = intents[c][i],
         \A i \in DOMAIN intents'[c] :
           \/ i \in DOMAIN intents[c]
           \/ intents'[c][i].hash = NoHash /\ intents'[c][i].state = "ToPublish"
  PROVE  StateInv' /\ LoopInv'
<1>2. HighWater(c)' = HighWater(c)  BY DEF HighWater
<1>3. HighWater(c) \in 0..Len(log) /\ hist[c] = Canon(HighWater(c))
  BY DEF StateInv, PosInv
<1>4. \A j \in DOMAIN intents'[c] : RowMoves(c, j, 0)  BY DEF RowMoves
<1>5. StillWaited(c)  BY <1>2 DEF StillWaited
<1>6. HighWater(c)' \in HighWater(c)..Len(log)  BY <1>2, <1>3, ChainType
<1>7. hist'[c] = Canon(HighWater(c)')  BY <1>2, <1>3
<1>8. StateInv'  BY <1>4, <1>5, <1>6, <1>7, ClientStep
<1>9. BatchOK(c) /\ LoopOK(c)  BY DEF LoopInv
<1>10. BatchOK(c)'  BY <1>9 DEF BatchOK, HighWater
<1>11. LoopOK(c)'  BY <1>9 DEF LoopOK, IsNext
<1>12. QED  BY <1>8, <1>10, <1>11, OtherLoops

-----------------------------------------------------------------------------
(* Processing the next envelope *)

(***************************************************************************)
(* The envelope being processed is the one right after c's position, so    *)
(* what the topic prescribes there follows from c's state.                 *)
(***************************************************************************)
LEMMA AtPos ==
  ASSUME TypeOK, StateInv, LoopInv, NEW c \in Clients, NEW pos \in DOMAIN log,
         Processing(c, pos)
  PROVE  /\ pos = HighWater(c) + 1
         /\ pos \in 1..Len(log)
         /\ HighWater(c) \in 0..Len(log)
         /\ hist[c] = Canon(HighWater(c)) /\ hist[c] = Canon(pos - 1)
         /\ Canon(pos) = IF IsCommit(log[pos]) /\ log[pos].base = hist[c]
                         THEN Append(hist[c], CommitOf(log[pos])) ELSE hist[c]
<1>1. /\ pos \in todo[c] /\ \A j \in todo[c] : pos <= j /\ pc[c] = "process"
  BY DEF Processing, IsNext
<1>2. /\ todo[c] \subseteq (HighWater(c) + 1)..Len(log)
      /\ \A k \in todo[c] : (HighWater(c) + 1)..k \subseteq todo[c]
  BY <1>1 DEF LoopInv, BatchOK
<1>3. HighWater(c) \in 0..Len(log) /\ hist[c] = Canon(HighWater(c))
  BY DEF StateInv, PosInv
<1>4. pos \in (HighWater(c) + 1)..Len(log) /\ Len(log) \in Nat
  BY <1>1, <1>2, ChainType
<1>5. HighWater(c) + 1 \in (HighWater(c) + 1)..pos  BY <1>3, <1>4
<1>6. pos <= HighWater(c) + 1  BY <1>1, <1>2, <1>5
<1>7. pos = HighWater(c) + 1 /\ pos \in 1..Len(log) /\ pos - 1 = HighWater(c)
  BY <1>3, <1>4, <1>6
<1>8. Canon(pos) = log[pos].after  BY <1>7 DEF Canon
<1>9. log[pos].after = IF Wins(pos)
                       THEN Append(Canon(pos - 1), CommitOf(log[pos]))
                       ELSE Canon(pos - 1)
  BY DEF StateInv, LogInv
<1>10. QED  BY <1>3, <1>7, <1>8, <1>9 DEF Wins

(* Dealing with the next envelope moves c's position by one. *)
LEMMA HandledEffect ==
  ASSUME TypeOK, StateInv, LoopInv, NEW c \in Clients, NEW pos \in DOMAIN log,
         Processing(c, pos), Handled(c, pos)
  PROVE  /\ HighWater(c)' = pos /\ todo'[c] = todo[c] \ {pos}
         /\ \A d \in Clients \ {c} :
              cursor'[d] = cursor[d] /\ todo'[d] = todo[d]
<1>1. pos = HighWater(c) + 1  BY AtPos
<1>t. cursor[c].commit \in Nat /\ cursor[c].app \in Nat /\ pos \in Nat
      /\ HighWater(c) \in Nat
  BY CursorType, EnvelopeType
<1>2. \A d \in Clients \ {c} : cursor'[d] = cursor[d] /\ todo'[d] = todo[d]
  BY DEF Handled, TypeOK
<1>3. cursor'[c] = UpdateCursor(cursor[c], pos) /\ todo'[c] = todo[c] \ {pos}
  BY DEF Handled, TypeOK
<1>4. HighWater(c)' = pos
  <2>1. cursor[c].commit < pos /\ cursor[c].app < pos
    BY <1>1, <1>t DEF HighWater
  <2>2. cursor[c] \in [commit : Nat, app : Nat]  BY DEF TypeOK
  <2>3. \/ cursor'[c].commit = pos /\ cursor'[c].app = cursor[c].app
        \/ cursor'[c].commit = cursor[c].commit /\ cursor'[c].app = pos
    BY <1>3, <2>1, <2>2 DEF UpdateCursor
  <2>4. QED  BY <2>1, <2>3, <1>t DEF HighWater
<1>5. QED  BY <1>2, <1>3, <1>4

(* The envelope is dealt with, and c follows the topic. *)
LEMMA FollowStep ==
  ASSUME TypeOK, TypeOK', StateInv, LoopInv, NEW c \in Clients,
         NEW pos \in DOMAIN log, Processing(c, pos), Handled(c, pos),
         UNCHANGED <<log, fresh, pc>>,
         \A d \in Clients \ {c} : hist'[d] = hist[d] /\ intents'[d] = intents[d],
         hist'[c] = Canon(pos),
         \A i \in DOMAIN intents'[c] : RowMoves(c, i, 0),
         HighWater(c)' = pos => StillWaited(c)
  PROVE  StateInv' /\ LoopInv'
<1>1. pos = HighWater(c) + 1 /\ pos \in 1..Len(log)
      /\ HighWater(c) \in 0..Len(log)
  BY AtPos
<1>t. pos \in Nat /\ HighWater(c) \in Nat /\ Len(log) \in Nat
  BY CursorType, EnvelopeType, ChainType
<1>2. \A d \in Clients \ {c} : cursor'[d] = cursor[d] /\ todo'[d] = todo[d]
  BY HandledEffect
<1>3. todo'[c] = todo[c] \ {pos}  BY HandledEffect
<1>4. HighWater(c)' = pos  BY HandledEffect
<1>5. StateInv'
  <2>1. HighWater(c)' \in HighWater(c)..Len(log)  BY <1>1, <1>4, <1>t
  <2>2. hist'[c] = Canon(HighWater(c)')  BY <1>4
  <2>3. QED  BY <1>2, <1>4, <2>1, <2>2, ClientStep
<1>6. pc[c] = "process" /\ BatchOK(c)  BY DEF Processing, LoopInv
<1>7. BatchOK(c)'
  <2>1. \A k \in todo[c] : k \in (HighWater(c) + 1)..Len(log)
                           /\ (HighWater(c) + 1)..k \subseteq todo[c]
    BY <1>6 DEF BatchOK
  <2>2. ASSUME NEW k \in todo'[c]
        PROVE  k \in (pos + 1)..Len(log) /\ (pos + 1)..k \subseteq todo'[c]
    BY <2>1, <1>1, <1>3, <1>t
  <2>3. QED  BY <2>2, <1>4 DEF BatchOK
<1>8. LoopOK(c)'  BY <1>6 DEF LoopOK
<1>9. QED  BY <1>2, <1>5, <1>7, <1>8, OtherLoops

-----------------------------------------------------------------------------
(* Steps between the loops of a sync *)

(* Goto and Loop move the sync of c and of nobody else. *)
LEMMA GotoEffect ==
  ASSUME TypeOK, NEW c \in Clients, NEW label, NEW work, Goto(c, label, work)
  PROVE  /\ pc'[c] = label /\ todo'[c] = work
         /\ \A d \in Clients \ {c} : pc'[d] = pc[d] /\ todo'[d] = todo[d]
  BY DEF Goto, TypeOK

(* ... and Loop does so with the label its work calls for. *)
LEMMA LoopEffect ==
  ASSUME TypeOK, NEW c \in Clients, NEW label, NEW work, NEW next,
         Loop(c, label, work, next)
  PROVE  /\ todo'[c] = work
         /\ pc'[c] \in {label, next} /\ (work # {} => pc'[c] = label)
         /\ \A d \in Clients \ {c} : pc'[d] = pc[d] /\ todo'[d] = todo[d]
  BY GotoEffect DEF Loop

(* Only the position of c's sync changes. *)
LEMMA IdleInv ==
  ASSUME StateInv, LoopInv, NEW c \in Clients,
         UNCHANGED <<log, fresh, hist, cursor, intents>>,
         \A d \in Clients \ {c} : pc'[d] = pc[d] /\ todo'[d] = todo[d],
         BatchOK(c)', LoopOK(c)'
  PROVE  StateInv' /\ LoopInv'
  BY IdleStep, OtherLoops

(* A sync that is idle, receiving or has an empty batch owes nothing. *)
LEMMA Between ==
  ASSUME NEW c \in Clients,
         \/ pc'[c] \in {"idle", "receive"}
         \/ pc'[c] = "process" /\ todo'[c] = {}
  PROVE  BatchOK(c)' /\ LoopOK(c)'
  BY DEF BatchOK, LoopOK

(* Starting a sync: the work of the publish loop is ToPublish. *)
LEMMA SyncStartInv ==
  ASSUME StateInv, LoopInv, TypeOK, NEW c \in Clients, SyncStart(c)
  PROVE  StateInv' /\ LoopInv'
<1>1. /\ todo'[c] = FindIntents(intents[c], "ToPublish")
      /\ pc'[c] \in {"publish", "receive"}
      /\ \A d \in Clients \ {c} : pc'[d] = pc[d] /\ todo'[d] = todo[d]
  BY LoopEffect DEF SyncStart
<1>2. UNCHANGED <<log, fresh, hist, cursor, intents>>  BY DEF SyncStart
<1>3. BatchOK(c)' /\ LoopOK(c)'
  BY <1>1, <1>2 DEF BatchOK, LoopOK, FindIntents
<1>4. QED  BY <1>1, <1>2, <1>3, IdleInv

(* The query starts at the larger cursor, so the batch has no gap. *)
LEMMA ReceiveInv ==
  ASSUME StateInv, LoopInv, TypeOK, NEW c \in Clients, Receive(c)
  PROVE  StateInv' /\ LoopInv'
<1>1. /\ todo'[c] = (HighWater(c) + 1)..Len(log)
      /\ pc'[c] = "process"
      /\ \A d \in Clients \ {c} : pc'[d] = pc[d] /\ todo'[d] = todo[d]
  BY GotoEffect DEF Receive
<1>2. UNCHANGED <<log, fresh, hist, cursor, intents>>  BY DEF Receive
<1>3. HighWater(c)' = HighWater(c)  BY <1>2 DEF HighWater
<1>4. HighWater(c) \in Nat /\ Len(log) \in Nat  BY CursorType, ChainType
<1>5. \A k \in (HighWater(c) + 1)..Len(log) :
        (HighWater(c) + 1)..k \subseteq (HighWater(c) + 1)..Len(log)
  BY <1>4
<1>6. BatchOK(c)' /\ LoopOK(c)'
  BY <1>1, <1>2, <1>3, <1>5 DEF BatchOK, LoopOK
<1>7. QED  BY <1>1, <1>2, <1>6, IdleInv

(* Starting post-commit: the work of the loop is Committed. *)
LEMMA PostCommitStartInv ==
  ASSUME StateInv, LoopInv, TypeOK, NEW c \in Clients, PostCommitStart(c)
  PROVE  StateInv' /\ LoopInv'
<1>1. /\ todo'[c] = FindIntents(intents[c], "Committed")
      /\ pc'[c] \in {"post", "idle"}
      /\ \A d \in Clients \ {c} : pc'[d] = pc[d] /\ todo'[d] = todo[d]
  BY LoopEffect DEF PostCommitStart
<1>2. UNCHANGED <<log, fresh, hist, cursor, intents>>  BY DEF PostCommitStart
<1>3. BatchOK(c)' /\ LoopOK(c)'
  BY <1>1, <1>2 DEF BatchOK, LoopOK, FindIntents
<1>4. QED  BY <1>1, <1>2, <1>3, IdleInv

(* The steps after which c's sync owes nothing. *)
LEMMA QuietInv ==
  ASSUME StateInv, LoopInv, TypeOK, NEW c \in Clients,
         \/ ReceiveFailed(c) \/ Crash(c)
         \/ \E pos \in DOMAIN log : Pause(c, pos) \/ RetryableError(c, pos)
         \/ \E i \in DOMAIN intents[c] : SendWelcomesFailed(c, i)
  PROVE  StateInv' /\ LoopInv'
<1>1. UNCHANGED <<log, fresh, hist, cursor, intents>>
  BY DEF ReceiveFailed, Crash, Pause, RetryableError, SendWelcomesFailed
<1>2. /\ \A d \in Clients \ {c} : pc'[d] = pc[d] /\ todo'[d] = todo[d]
      /\ \/ pc'[c] \in {"idle", "receive"}
         \/ pc'[c] = "process" /\ todo'[c] = {}
  <2>1. CASE ReceiveFailed(c) \/ Crash(c)
             \/ \E i \in DOMAIN intents[c] : SendWelcomesFailed(c, i)
    BY <2>1, GotoEffect DEF ReceiveFailed, Crash, SendWelcomesFailed
  <2>2. CASE \E pos \in DOMAIN log : Pause(c, pos) \/ RetryableError(c, pos)
    <3>1. todo' = [todo EXCEPT ![c] = {}] /\ pc' = pc /\ pc[c] = "process"
      BY <2>2 DEF Pause, RetryableError, Processing
    <3>2. QED  BY <3>1 DEF TypeOK
  <2>3. QED  BY <2>1, <2>2
<1>3. QED  BY <1>1, <1>2, Between, IdleInv

(* Sending welcomes changes no row. *)
LEMMA SendWelcomesInv ==
  ASSUME StateInv, LoopInv, TypeOK, NEW c \in Clients,
         NEW i \in DOMAIN intents[c], SendWelcomes(c, i)
  PROVE  StateInv' /\ LoopInv'
<1>1. /\ todo' = todo /\ pc[c] = "post" /\ pc' = [pc EXCEPT ![c] = "posted"]
  BY DEF SendWelcomes
<1>2. UNCHANGED <<log, fresh, hist, cursor, intents>>  BY DEF SendWelcomes
<1>3. pc'[c] = "posted" /\ \A d \in Clients \ {c} : pc'[d] = pc[d]
  BY <1>1 DEF TypeOK
<1>4. LoopOK(c)  BY DEF LoopInv
<1>5. BatchOK(c)' /\ LoopOK(c)'
  BY <1>1, <1>2, <1>3, <1>4 DEF BatchOK, LoopOK
<1>6. QED  BY <1>1, <1>2, <1>3, <1>5, IdleInv

(* Steps that touch nothing the invariant mentions. *)
LEMMA AloofInv ==
  ASSUME StateInv, LoopInv, TypeOK, NEW c \in Clients,
         Upgrade(c) \/ \E pos \in DOMAIN log : StreamExternal(c, pos)
  PROVE  StateInv' /\ LoopInv'
<1>1. UNCHANGED <<log, fresh, hist, cursor, intents, pc, todo>>
  BY DEF Upgrade, StreamExternal
<1>2. BatchOK(c) /\ LoopOK(c)  BY DEF LoopInv
<1>3. BatchOK(c)'  BY <1>1, <1>2 DEF BatchOK, HighWater
<1>4. LoopOK(c)'  BY <1>1, <1>2 DEF LoopOK, IsNext
<1>5. QED  BY <1>1, <1>3, <1>4, IdleInv

(* Queueing adds rows that have no hash. *)
LEMMA QueueStepInv ==
  ASSUME StateInv, LoopInv, TypeOK, TypeOK', NEW c \in Clients, QueueStep(c)
  PROVE  StateInv' /\ LoopInv'
<1>0. intents \in [Clients -> Seq(Row)] /\ intents[c] \in Seq(Row)
  BY DEF TypeOK
<1>1. UNCHANGED <<log, fresh, hist, cursor, pc, todo>>
  BY DEF QueueStep, Queue, QueueWithKeyUpdate
<1>2. \A op : NewIntent(op).hash = NoHash /\ NewIntent(op).state = "ToPublish"
  BY DEF NewIntent
<1>3. ASSUME NEW op \in Ops, Queue(c, op)
      PROVE  /\ \A d \in Clients \ {c} : intents'[d] = intents[d]
             /\ DOMAIN intents[c] \subseteq DOMAIN intents'[c]
             /\ \A i \in DOMAIN intents[c] : intents'[c][i] = intents[c][i]
             /\ \A i \in DOMAIN intents'[c] : i \in DOMAIN intents[c]
                  \/ /\ intents'[c][i].hash = NoHash
                     /\ intents'[c][i].state = "ToPublish"
  <2>1. intents' = [intents EXCEPT ![c] = Append(intents[c], NewIntent(op))]
    BY <1>3 DEF Queue
  <2>2. PICK row \in Row : row = NewIntent(op)  BY NewIntentType
  <2>3. intents'[c] = Append(intents[c], row)
        /\ \A d \in Clients \ {c} : intents'[d] = intents[d]
    BY <2>1, <2>2, <1>0
  <2>4. row.hash = NoHash /\ row.state = "ToPublish"  BY <2>2, <1>2
  <2>5. QED  BY <2>3, <2>4, <1>0
<1>4. ASSUME NEW op \in Ops, NEW key \in Ops, QueueWithKeyUpdate(c, op, key)
      PROVE  /\ \A d \in Clients \ {c} : intents'[d] = intents[d]
             /\ DOMAIN intents[c] \subseteq DOMAIN intents'[c]
             /\ \A i \in DOMAIN intents[c] : intents'[c][i] = intents[c][i]
             /\ \A i \in DOMAIN intents'[c] : i \in DOMAIN intents[c]
                  \/ /\ intents'[c][i].hash = NoHash
                     /\ intents'[c][i].state = "ToPublish"
  <2>1. intents' = [intents EXCEPT ![c] =
                      intents[c] \o <<NewIntent(key), NewIntent(op)>>]
    BY <1>4 DEF QueueWithKeyUpdate
  <2>2. PICK row \in Row : row = NewIntent(op)  BY NewIntentType
  <2>3. PICK row2 \in Row : row2 = NewIntent(key)  BY NewIntentType
  <2>4. intents'[c] = intents[c] \o <<row2, row>>
        /\ \A d \in Clients \ {c} : intents'[d] = intents[d]
    BY <2>1, <2>2, <2>3, <1>0
  <2>5. /\ row.hash = NoHash /\ row.state = "ToPublish"
        /\ row2.hash = NoHash /\ row2.state = "ToPublish"
    BY <2>2, <2>3, <1>2
  <2>6. QED  BY <2>4, <2>5, <1>0
<1>5. /\ \A d \in Clients \ {c} : intents'[d] = intents[d]
      /\ DOMAIN intents[c] \subseteq DOMAIN intents'[c]
      /\ \A i \in DOMAIN intents[c] : intents'[c][i] = intents[c][i]
      /\ \A i \in DOMAIN intents'[c] : i \in DOMAIN intents[c]
           \/ /\ intents'[c][i].hash = NoHash
              /\ intents'[c][i].state = "ToPublish"
  BY <1>3, <1>4, Zenon DEF QueueStep
<1>6. \A i \in DOMAIN intents'[c] :
        \/ i \in DOMAIN intents[c]
        \/ intents'[c][i].hash = NoHash /\ intents'[c][i].state = "ToPublish"
  BY <1>5
<1>7. QED  BY <1>1, <1>5, <1>6, QueueInv

-----------------------------------------------------------------------------
(* Publishing *)

(* SetIntent changes one row of c. *)
LEMMA RowEffect ==
  ASSUME TypeOK, NEW c \in Clients, NEW i \in DOMAIN intents[c],
         NEW row \in Row, SetIntent(c, i, row)
  PROVE  /\ DOMAIN intents'[c] = DOMAIN intents[c]
         /\ intents'[c][i] = row
         /\ \A j \in DOMAIN intents[c] : j # i => intents'[c][j] = intents[c][j]
         /\ \A d \in Clients \ {c} : intents'[d] = intents[d]
<1>1. intents \in [Clients -> Seq(Row)]  BY DEF TypeOK
<1>2. QED  BY <1>1 DEF SetIntent

(* The rows that publish_intents has yet to come to. *)
LEMMA PublishLoop ==
  ASSUME TypeOK, LoopInv, NEW c \in Clients, NEW i \in DOMAIN intents[c],
         IsNext(c, i), pc[c] \in {"publish", "send", "resend"}
  PROVE  /\ todo[c] \subseteq DOMAIN intents[c] /\ i \in todo[c]
         /\ \A j \in todo[c] : IsNext(c, j) <=> j = i
         /\ \A j \in todo[c] : j # i => intents[c][j].state = "ToPublish"
         /\ pc[c] = "publish" => intents[c][i].state = "ToPublish"
         /\ pc[c] \in {"send", "resend"} => intents[c][i].state = "Published"
         /\ pc[c] = "send" => \A k \in DOMAIN log : log[k].id # intents[c][i].hash
<1>1. LoopOK(c)  BY DEF LoopInv
<1>2. todo[c] \subseteq DOMAIN intents[c] /\ i \in todo[c]
  BY <1>1 DEF LoopOK, IsNext
<1>3. todo[c] \subseteq Nat  BY DEF TypeOK
<1>4. \A j \in todo[c] : IsNext(c, j) <=> j = i  BY <1>3 DEF IsNext
<1>5. QED  BY <1>1, <1>2, <1>4 DEF LoopOK

(* A failure to build a payload: the row was not published yet. *)
LEMMA PublishErrorInv ==
  ASSUME TypeOK, TypeOK', StateInv, LoopInv, NEW c \in Clients,
         NEW i \in DOMAIN intents[c], PublishError(c, i)
  PROVE  StateInv' /\ LoopInv'
<1>1. PICK row \in Row :
        /\ SetIntent(c, i, row)
        /\ row.hash = intents[c][i].hash /\ row.base = intents[c][i].base
        /\ row.op = intents[c][i].op
        /\ row.state = "Published" => intents[c][i].state = "Published"
  <2>1. /\ intents[c][i] \in Row /\ SetError(intents[c][i]) \in Row
        /\ IncrementAttempts(intents[c][i]) \in Row
    BY RowType, SetterTypes
  <2>2. \/ SetIntent(c, i, SetError(intents[c][i]))
        \/ SetIntent(c, i, IncrementAttempts(intents[c][i]))
    BY DEF PublishError
  <2>3. QED  BY <2>1, <2>2 DEF SetError, IncrementAttempts, Row
<1>2. intents[c][i].state # "Published"  BY PublishLoop DEF PublishError
<1>3. UNCHANGED <<log, fresh, hist, cursor>>  BY DEF PublishError
<1>4. StateInv'  BY <1>1, <1>2, <1>3, RowStep
<1>5. /\ \A d \in Clients \ {c} : pc'[d] = pc[d] /\ todo'[d] = todo[d]
      /\ pc'[c] = "receive"
  BY GotoEffect DEF PublishError
<1>6. BatchOK(c)' /\ LoopOK(c)'  BY <1>5 DEF BatchOK, LoopOK
<1>7. \A d \in Clients \ {c} : intents'[d] = intents[d]  BY <1>1, RowEffect
<1>8. QED  BY <1>3, <1>4, <1>5, <1>6, <1>7, OtherLoops

(* An intent that needs no payload was not published yet. *)
LEMMA PublishNothingInv ==
  ASSUME TypeOK, TypeOK', StateInv, LoopInv, NEW c \in Clients,
         NEW i \in DOMAIN intents[c], PublishNothing(c, i)
  PROVE  StateInv' /\ LoopInv'
<1>1. PICK row \in Row :
        /\ SetIntent(c, i, row)
        /\ row.hash = intents[c][i].hash /\ row.base = intents[c][i].base
        /\ row.op = intents[c][i].op /\ row.state # "Published"
  <2>1. /\ intents[c][i] \in Row /\ SetSuperseded(intents[c][i]) \in Row
        /\ SetProcessed(intents[c][i]) \in Row
    BY RowType, SetterTypes
  <2>2. \/ SetIntent(c, i, SetSuperseded(intents[c][i]))
        \/ SetIntent(c, i, SetProcessed(intents[c][i]))
    BY DEF PublishNothing
  <2>3. QED  BY <2>1, <2>2 DEF SetSuperseded, SetProcessed, Row
<1>p. pc[c] = "publish" /\ IsNext(c, i)  BY DEF PublishNothing
<1>2. intents[c][i].state # "Published"  BY <1>p, PublishLoop
<1>3. UNCHANGED <<log, fresh, hist, cursor>>  BY DEF PublishNothing
<1>4. StateInv'  BY <1>1, <1>2, <1>3, RowStep
<1>5. /\ \A d \in Clients \ {c} : pc'[d] = pc[d] /\ todo'[d] = todo[d]
      /\ pc'[c] \in {"publish", "receive"} /\ todo'[c] = todo[c] \ {i}
  BY LoopEffect DEF PublishNothing
<1>6. /\ DOMAIN intents'[c] = DOMAIN intents[c]
      /\ \A j \in DOMAIN intents[c] : j # i => intents'[c][j] = intents[c][j]
      /\ \A d \in Clients \ {c} : intents'[d] = intents[d]
  BY <1>1, RowEffect
<1>7. /\ todo[c] \subseteq DOMAIN intents[c]
      /\ \A j \in todo[c] : j # i => intents[c][j].state = "ToPublish"
  BY <1>p, PublishLoop
<1>8. BatchOK(c)' /\ LoopOK(c)'  BY <1>5, <1>6, <1>7 DEF BatchOK, LoopOK
<1>9. QED  BY <1>3, <1>4, <1>5, <1>6, <1>8, OtherLoops

(* Publishing draws a hash that is in no row and not in the topic. *)
LEMMA PublishIntentInv ==
  ASSUME TypeOK, TypeOK', StateInv, LoopInv, NEW c \in Clients,
         NEW i \in DOMAIN intents[c], PublishIntent(c, i)
  PROVE  StateInv' /\ LoopInv'
<1>p. pc[c] = "publish" /\ IsNext(c, i)  BY DEF PublishIntent
<1>q. /\ todo[c] \subseteq DOMAIN intents[c]
      /\ \A j \in todo[c] : IsNext(c, j) <=> j = i
      /\ \A j \in todo[c] : j # i => intents[c][j].state = "ToPublish"
      /\ intents[c][i].state = "ToPublish"
  BY <1>p, PublishLoop
<1>1. PICK row \in Row :
        /\ SetIntent(c, i, row)
        /\ row.hash = fresh /\ row.base = hist[c] /\ row.state = "Published"
  <2>1. /\ intents[c][i] \in Row /\ fresh \in Nat /\ hist[c] \in Seq(Commit)
        /\ (intents[c][i].op.kind = "UpdateGroupMembership") \in BOOLEAN
    BY RowType DEF TypeOK
  <2>2. PICK post \in BOOLEAN :
          SetIntent(c, i, SetPublished(intents[c][i], fresh, post, hist[c]))
    BY <2>1 DEF PublishIntent
  <2>3. SetPublished(intents[c][i], fresh, post, hist[c]) \in Row
    BY <2>1, SetPublishedType
  <2>4. QED  BY <2>1, <2>2, <2>3, <1>q DEF SetPublished, Row
<1>3. UNCHANGED <<log, hist, cursor, todo>> /\ fresh' = fresh + 1
      /\ pc' = [pc EXCEPT ![c] = "send"]
  BY DEF PublishIntent
<1>4. StateInv'  BY <1>1, <1>q, <1>3, RowStep
<1>5. /\ \A d \in Clients \ {c} : pc'[d] = pc[d] /\ todo'[d] = todo[d]
      /\ pc'[c] = "send" /\ todo'[c] = todo[c]
  BY <1>3 DEF TypeOK
<1>6. /\ DOMAIN intents'[c] = DOMAIN intents[c]
      /\ intents'[c][i] = row
      /\ \A j \in DOMAIN intents[c] : j # i => intents'[c][j] = intents[c][j]
      /\ \A d \in Clients \ {c} : intents'[d] = intents[d]
  BY <1>1, RowEffect
<1>7. \A k \in DOMAIN log : log[k].id # fresh
  <2>1. \A k \in DOMAIN log : log[k].id \in 1..(fresh - 1)
    BY DEF StateInv, LogInv
  <2>2. fresh \in Nat  BY DEF TypeOK
  <2>3. QED  BY <2>1, <2>2
<1>n. \A j \in todo[c] : IsNext(c, j)' <=> j = i
  BY <1>q, <1>5 DEF IsNext
<1>8. LoopOK(c)'
  BY <1>1, <1>q, <1>n, <1>3, <1>5, <1>6, <1>7 DEF LoopOK
<1>9. BatchOK(c)'  BY <1>5 DEF BatchOK
<1>10. QED  BY <1>3, <1>4, <1>5, <1>6, <1>8, <1>9, OtherLoops

(* "send" is the first attempt: the payload is not in the topic. *)
LEMMA SendFailedInv ==
  ASSUME TypeOK, TypeOK', StateInv, LoopInv, "ack" \notin FaultKinds,
         NEW c \in Clients, NEW i \in DOMAIN intents[c], SendFailed(c, i)
  PROVE  StateInv' /\ LoopInv'
<1>p. pc[c] = "send" /\ IsNext(c, i)  BY DEF SendFailed, Fault
<1>1. PICK row \in Row :
        /\ SetIntent(c, i, row) /\ row.state # "Published"
        /\ \/ row.hash = NoHash
           \/ /\ row.hash = intents[c][i].hash
              /\ row.base = intents[c][i].base /\ row.op = intents[c][i].op
  <2>1. /\ intents[c][i] \in Row /\ SetError(intents[c][i]) \in Row
        /\ IncrementAttempts(intents[c][i]) \in Row
    BY RowType, SetterTypes
  <2>2. SetToPublish(IncrementAttempts(intents[c][i])) \in Row
    BY <2>1, SetterTypes
  <2>3. \/ SetIntent(c, i, SetError(intents[c][i]))
        \/ SetIntent(c, i, SetToPublish(IncrementAttempts(intents[c][i])))
    BY DEF SendFailed
  <2>4. SetError(intents[c][i]).state = "Error"
        /\ SetError(intents[c][i]).hash = intents[c][i].hash
        /\ SetError(intents[c][i]).base = intents[c][i].base
        /\ SetError(intents[c][i]).op = intents[c][i].op
    BY <2>1 DEF SetError, Row
  <2>5. ASSUME NEW r \in Row
        PROVE  SetToPublish(r).state = "ToPublish"
               /\ SetToPublish(r).hash = NoHash
    BY DEF SetToPublish, Row
  <2>6. QED  BY <2>1, <2>2, <2>3, <2>4, <2>5
<1>2. \A k \in DOMAIN log : log[k].id # intents[c][i].hash
  BY <1>p, PublishLoop
<1>3. UNCHANGED <<log, fresh, hist, cursor>>  BY DEF SendFailed
<1>4. StateInv'  BY <1>1, <1>2, <1>3, RowStep
<1>5. /\ \A d \in Clients \ {c} : pc'[d] = pc[d] /\ todo'[d] = todo[d]
      /\ pc'[c] = "receive"
  BY GotoEffect DEF SendFailed
<1>6. BatchOK(c)' /\ LoopOK(c)'  BY <1>5 DEF BatchOK, LoopOK
<1>7. \A d \in Clients \ {c} : intents'[d] = intents[d]  BY <1>1, RowEffect
<1>8. QED  BY <1>3, <1>4, <1>5, <1>6, <1>7, OtherLoops

(* set_group_intent_processed, which has no filter, meets a Committed row. *)
LEMMA FinishIntentInv ==
  ASSUME TypeOK, TypeOK', StateInv, LoopInv, NEW c \in Clients,
         NEW i \in DOMAIN intents[c], FinishIntent(c, i)
  PROVE  StateInv' /\ LoopInv'
<1>p. pc[c] \in {"post", "posted"} /\ i \in todo[c]  BY DEF FinishIntent, IsNext
<1>q. /\ todo[c] \subseteq DOMAIN intents[c]
      /\ \A j \in todo[c] : intents[c][j].state = "Committed"
  BY <1>p DEF LoopInv, LoopOK
<1>1. PICK row \in Row :
        /\ SetIntent(c, i, row)
        /\ row.hash = intents[c][i].hash /\ row.base = intents[c][i].base
        /\ row.op = intents[c][i].op /\ row.state # "Published"
  <2>1. intents[c][i] \in Row /\ SetProcessed(intents[c][i]) \in Row
    BY RowType, SetterTypes
  <2>2. QED  BY <2>1 DEF FinishIntent, SetProcessed, Row
<1>3. UNCHANGED <<log, fresh, hist, cursor>>  BY DEF FinishIntent
<1>4. StateInv'
  <2>1. intents[c][i].state # "Published"  BY <1>p, <1>q
  <2>2. QED  BY <1>1, <1>3, <2>1, RowStep
<1>5. /\ \A d \in Clients \ {c} : pc'[d] = pc[d] /\ todo'[d] = todo[d]
      /\ pc'[c] \in {"post", "idle"} /\ todo'[c] = todo[c] \ {i}
  BY LoopEffect DEF FinishIntent
<1>6. /\ DOMAIN intents'[c] = DOMAIN intents[c]
      /\ \A j \in DOMAIN intents[c] : j # i => intents'[c][j] = intents[c][j]
      /\ \A d \in Clients \ {c} : intents'[d] = intents[d]
  BY <1>1, RowEffect
<1>7. BatchOK(c)' /\ LoopOK(c)'  BY <1>5, <1>6, <1>q DEF BatchOK, LoopOK
<1>8. QED  BY <1>3, <1>4, <1>5, <1>6, <1>7, OtherLoops

(* The other syncs do not mind the payload that c adds to the topic. *)
LEMMA DeliverLoops ==
  ASSUME TypeOK, StateInv, LoopInv, NEW c \in Clients,
         NEW i \in DOMAIN intents[c], Deliver(c, i),
         intents[c][i].state = "Published",
         UNCHANGED <<fresh, hist, cursor, intents>>,
         NEW d \in Clients \ {c}, pc'[d] = pc[d], todo'[d] = todo[d]
  PROVE  BatchOK(d)' /\ LoopOK(d)'
<1>1. Len(log) \in Nat /\ DOMAIN log = 1..Len(log)  BY ChainType, LogDomain
<1>2. PICK n \in Nat : n = Len(log) + 1  BY <1>1
<1>3. /\ Len(log') = n /\ DOMAIN log' = 1..n
      /\ \A k \in 1..Len(log) : log'[k] = log[k]
      /\ log'[n].id = intents[c][i].hash
  BY <1>2, Delivered
<1>4. BatchOK(d) /\ LoopOK(d)  BY DEF LoopInv
<1>5. HighWater(d)' = HighWater(d)  BY DEF HighWater
<1>6. HighWater(d) \in Nat  BY CursorType
<1>7. BatchOK(d)'
  <2>1. (HighWater(d) + 1)..Len(log) \subseteq (HighWater(d) + 1)..n
    BY <1>1, <1>2, <1>6
  <2>2. QED  BY <1>3, <1>4, <1>5, <2>1 DEF BatchOK
<1>8. LoopOK(d)'
  <2>1. \A j : IsNext(d, j)' <=> IsNext(d, j)  BY DEF IsNext
  <2>2. ASSUME NEW j \in DOMAIN intents[d] PROVE intents[d][j].hash # log'[n].id
    <3>1. intents[c][i].hash # NoHash  BY DEF StateInv, RowInv
    <3>2. QED  BY <1>3, <3>1 DEF StateInv, HashInv
  <2>3. ASSUME pc[d] = "send", NEW j \in todo[d], IsNext(d, j),
               NEW k \in DOMAIN log'
        PROVE  log'[k].id # intents[d][j].hash
    <3>1. j \in DOMAIN intents[d]
          /\ \A l \in DOMAIN log : log[l].id # intents[d][j].hash
      BY <2>3, <1>4 DEF LoopOK
    <3>2. CASE k \in 1..Len(log)  BY <3>1, <3>2, <1>1, <1>3
    <3>3. CASE k = n  BY <3>1, <3>3, <2>2
    <3>4. QED  BY <3>2, <3>3, <1>1, <1>2, <1>3
  <2>4. QED  BY <1>4, <2>1, <2>3 DEF LoopOK
<1>9. QED  BY <1>7, <1>8

(* A successful send: the payload is that of a published row. *)
LEMMA SendOkInv ==
  ASSUME TypeOK, TypeOK', StateInv, LoopInv, NEW c \in Clients,
         NEW i \in DOMAIN intents[c], SendOk(c, i)
  PROVE  StateInv' /\ LoopInv'
<1>p. pc[c] \in {"send", "resend"} /\ IsNext(c, i) /\ Deliver(c, i)
  BY DEF SendOk
<1>q. /\ todo[c] \subseteq DOMAIN intents[c]
      /\ \A j \in todo[c] : j # i => intents[c][j].state = "ToPublish"
      /\ intents[c][i].state = "Published"
  BY <1>p, PublishLoop
<1>1. UNCHANGED <<fresh, hist, cursor, intents>>  BY DEF SendOk
<1>2. StateInv'  BY <1>p, <1>q, <1>1, DeliverStep
<1>3. /\ \A d \in Clients \ {c} : pc'[d] = pc[d] /\ todo'[d] = todo[d]
      /\ pc'[c] \in {"publish", "receive"} /\ todo'[c] \subseteq todo[c] \ {i}
  BY LoopEffect DEF SendOk
<1>4. BatchOK(c)' /\ LoopOK(c)'  BY <1>1, <1>3, <1>q DEF BatchOK, LoopOK
<1>5. \A d \in Clients \ {c} : BatchOK(d)' /\ LoopOK(d)'
  BY <1>p, <1>q, <1>1, <1>3, DeliverLoops
<1>6. QED  BY <1>2, <1>4, <1>5 DEF LoopInv

(* A send whose response is lost adds the payload all the same. *)
LEMMA SendUnacknowledgedInv ==
  ASSUME TypeOK, TypeOK', StateInv, LoopInv, NEW c \in Clients,
         NEW i \in DOMAIN intents[c], SendUnacknowledged(c, i)
  PROVE  StateInv' /\ LoopInv'
<1>p. pc[c] = "send" /\ IsNext(c, i) /\ Deliver(c, i)
      /\ pc' = [pc EXCEPT ![c] = "resend"]
  BY DEF SendUnacknowledged
<1>q. intents[c][i].state = "Published"  BY <1>p, PublishLoop
<1>1. UNCHANGED <<fresh, hist, cursor, intents, todo>>
  BY DEF SendUnacknowledged
<1>2. StateInv'  BY <1>p, <1>q, <1>1, DeliverStep
<1>3. pc'[c] = "resend" /\ \A d \in Clients \ {c} : pc'[d] = pc[d]
  BY <1>p DEF TypeOK
<1>4. LoopOK(c)  BY DEF LoopInv
<1>5. \A j : IsNext(c, j)' <=> IsNext(c, j)  BY <1>1 DEF IsNext
<1>6. BatchOK(c)' /\ LoopOK(c)'
  BY <1>p, <1>1, <1>3, <1>4, <1>5 DEF BatchOK, LoopOK
<1>7. \A d \in Clients \ {c} : BatchOK(d)' /\ LoopOK(d)'
  BY <1>p, <1>q, <1>1, <1>3, DeliverLoops
<1>8. QED  BY <1>2, <1>6, <1>7 DEF LoopInv

-----------------------------------------------------------------------------
(* An own payload comes back *)

(* What Resolved may do to a row. *)
LEMMA ResolvedRow ==
  ASSUME NEW row \in Row, NEW env, NEW h, NEW pos \in Nat
  PROVE  LET new == Resolved(row, env, h, pos)
         IN /\ new \in Row
            /\ \/ new.hash = NoHash /\ new.state # "Published"
               \/ /\ new.hash = row.hash /\ new.base = row.base
                  /\ new.op = row.op
                  /\ new.state = "Published" => row.state = "Published"
            /\ row.state # "Published" => new = row
            /\ row.state = "Published" => new.state # "Published"
<1>1. /\ SetToPublish(row) \in Row /\ SetToPublish(row).hash = NoHash
      /\ SetToPublish(row).state = "ToPublish"
  BY SetterTypes DEF SetToPublish, Row
<1>2. /\ SetCommitted(row, pos) \in Row /\ SetCommitted(row, pos).hash = row.hash
      /\ SetCommitted(row, pos).base = row.base
      /\ SetCommitted(row, pos).op = row.op
      /\ SetCommitted(row, pos).state = "Committed"
  BY SetCommittedType DEF SetCommitted, Row
<1>3. QED  BY <1>1, <1>2 DEF Resolved, IsPublished

(* A stream resolves rows of messages only, never of a commit. *)
LEMMA StreamOwnInv ==
  ASSUME TypeOK, TypeOK', StateInv, LoopInv, NEW c \in Clients,
         NEW pos \in DOMAIN log, NEW i \in DOMAIN intents[c],
         StreamOwn(c, pos, i)
  PROVE  StateInv' /\ LoopInv'
<1>0. intents[c][i] \in Row /\ pos \in Nat  BY RowType, EnvelopeType
<1>1. PICK row \in Row :
        /\ SetIntent(c, i, row)
        /\ \/ row.hash = NoHash /\ row.state # "Published"
           \/ /\ row.hash = intents[c][i].hash
              /\ row.base = intents[c][i].base /\ row.op = intents[c][i].op
              /\ row.state = "Published" => intents[c][i].state = "Published"
  <2>1. PICK row : /\ row = Resolved(intents[c][i], log[pos], hist[c], pos)
                   /\ SetIntent(c, i, row)
    BY DEF StreamOwn
  <2>2. QED  BY <2>1, <1>0, ResolvedRow
<1>2. /\ intents[c][i].state = "Published" /\ log[pos].id = intents[c][i].hash
      /\ ~IsCommit(log[pos]) /\ pc[c] \notin {"publish", "send", "resend"}
  BY DEF StreamOwn, Streamable, FindByHash, IsPublished
<1>3. \A k \in DOMAIN log : IsCommit(log[k]) => log[k].id # intents[c][i].hash
  BY <1>2 DEF StateInv, RowInv, IsCommit
<1>4. UNCHANGED <<log, fresh, hist, cursor, pc, todo>>  BY DEF StreamOwn
<1>5. StateInv'  BY <1>1, <1>3, <1>4, RowStep
<1>6. /\ DOMAIN intents'[c] = DOMAIN intents[c]
      /\ \A j \in DOMAIN intents[c] : j # i => intents'[c][j] = intents[c][j]
      /\ \A d \in Clients \ {c} : intents'[d] = intents[d]
  BY <1>1, RowEffect
<1>7. BatchOK(c) /\ LoopOK(c)  BY DEF LoopInv
<1>8. BatchOK(c)'  BY <1>4, <1>7 DEF BatchOK, HighWater
<1>9. LoopOK(c)'  BY <1>2, <1>4, <1>6, <1>7 DEF LoopOK
<1>10. QED  BY <1>4, <1>5, <1>6, <1>8, <1>9, OtherLoops

(* Merging appends the commit to the state of c and of nobody else. *)
LEMMA MergeEffect ==
  ASSUME TypeOK, NEW c \in Clients, NEW pos \in DOMAIN log,
         Merge(c, log[pos], pos)
  PROVE  /\ hist'[c] = Append(hist[c], CommitOf(log[pos]))
         /\ \A d \in Clients \ {c} : hist'[d] = hist[d]
  BY DEF Merge, TypeOK

(***************************************************************************)
(* A published row whose payload is the envelope c is at: if the epoch     *)
(* check accepts it, c follows the topic, and if it refuses it, so does    *)
(* the topic.                                                              *)
(***************************************************************************)
LEMMA OwnEpoch ==
  ASSUME TypeOK, StateInv, LoopInv, NEW c \in Clients, NEW pos \in DOMAIN log,
         Processing(c, pos), NEW i \in DOMAIN intents[c],
         intents[c][i].hash = log[pos].id, intents[c][i].state = "Published",
         IsCommit(log[pos])
  PROVE  /\ log[pos].base = intents[c][i].base
         /\ Stale(log[pos], hist[c]) => Epoch(log[pos].base) < Epoch(hist[c])
         /\ ~Stale(log[pos], hist[c]) => log[pos].base = hist[c]
<1>1. /\ HighWater(c) \in 0..Len(log) /\ hist[c] = Canon(HighWater(c))
      /\ Len(log) \in Nat
  BY AtPos, ChainType
<1>2. /\ log[pos].base = intents[c][i].base
      /\ \E j \in 0..HighWater(c) : intents[c][i].base = Canon(j)
  BY DEF StateInv, RowInv
<1>3. PICK j \in 0..HighWater(c) : log[pos].base = Canon(j)  BY <1>2
<1>4. j \in 0..Len(log) /\ j <= HighWater(c)  BY <1>1
<1>5. /\ Epoch(Canon(j)) <= Epoch(Canon(HighWater(c)))
      /\ Epoch(Canon(j)) \in Nat /\ Epoch(Canon(HighWater(c))) \in Nat
  BY <1>1, <1>4, EarlierEpoch DEF StateInv
<1>6. Stale(log[pos], hist[c]) <=> Epoch(log[pos].base) # Epoch(hist[c])
  BY DEF Stale
<1>7. Epoch(Canon(j)) = Epoch(Canon(HighWater(c))) =>
        Canon(j) = Canon(HighWater(c))
  BY <1>1, <1>4, SameEpoch DEF StateInv
<1>8. QED  BY <1>1, <1>2, <1>3, <1>5, <1>6, <1>7

(* A commit c wrote that fits c's state is waited for by a row of c. *)
LEMMA OwnWaits ==
  ASSUME TypeOK, StateInv, LoopInv, NEW c \in Clients, NEW pos \in DOMAIN log,
         Processing(c, pos), IsCommit(log[pos]), Sender(log[pos]) = c,
         log[pos].base = hist[c]
  PROVE  \E i \in DOMAIN intents[c] :
           intents[c][i].state = "Published" /\ intents[c][i].hash = log[pos].id
<1>1. pos \in (HighWater(c) + 1)..Len(log)  BY AtPos, ChainType
<1>2. Epoch(hist[c]) \in Nat  BY DEF TypeOK, Epoch
<1>3. ~(Epoch(log[pos].base) < Epoch(hist[c]))  BY <1>2
<1>4. QED  BY <1>1, <1>3 DEF StateInv, OwnInv

(***************************************************************************)
(* process_own_message: whatever the row's state and the epoch check say,  *)
(* c ends in the state the topic prescribes and its other payloads are     *)
(* still waited for.                                                       *)
(***************************************************************************)
LEMMA ProcessOwnInv ==
  ASSUME TypeOK, TypeOK', StateInv, LoopInv, NEW c \in Clients,
         NEW pos \in DOMAIN log, NEW i \in DOMAIN intents[c],
         ProcessOwn(c, pos, i)
  PROVE  StateInv' /\ LoopInv'
<1>0. intents[c][i] \in Row /\ pos \in Nat  BY RowType, EnvelopeType
<1>1. /\ Processing(c, pos) /\ Handled(c, pos)
      /\ log[pos].id = intents[c][i].hash
      /\ UNCHANGED <<log, fresh, pc>>
  BY DEF ProcessOwn, FindByHash
<1>2. /\ pos = HighWater(c) + 1 /\ pos \in 1..Len(log)
      /\ HighWater(c) \in 0..Len(log)
      /\ Canon(pos) = IF IsCommit(log[pos]) /\ log[pos].base = hist[c]
                      THEN Append(hist[c], CommitOf(log[pos])) ELSE hist[c]
  BY <1>1, AtPos
<1>3. /\ log[pos].src = <<c, i>> /\ log[pos].op = intents[c][i].op
      /\ log[pos].base = intents[c][i].base
  BY <1>1 DEF StateInv, RowInv
<1>4. PICK row \in Row :
        /\ SetIntent(c, i, row)
        /\ \/ row.hash = NoHash /\ row.state # "Published"
           \/ /\ row.hash = intents[c][i].hash
              /\ row.base = intents[c][i].base /\ row.op = intents[c][i].op
              /\ row.state = "Published" => intents[c][i].state = "Published"
  <2>1. PICK row : /\ row = Resolved(intents[c][i], log[pos], hist[c], pos)
                   /\ SetIntent(c, i, row)
    BY DEF ProcessOwn
  <2>2. QED  BY <2>1, <1>0, ResolvedRow
<1>5. /\ DOMAIN intents'[c] = DOMAIN intents[c] /\ intents'[c][i] = row
      /\ \A j \in DOMAIN intents[c] : j # i => intents'[c][j] = intents[c][j]
      /\ \A d \in Clients \ {c} : intents'[d] = intents[d]
  BY <1>4, RowEffect
<1>m. (/\ IsCommit(log[pos]) /\ intents[c][i].state = "Published"
       /\ ~Stale(log[pos], hist[c])) => Merge(c, log[pos], pos)
  BY DEF ProcessOwn, Applies, IsPublished
<1>n. ~(/\ IsCommit(log[pos]) /\ intents[c][i].state = "Published"
        /\ ~Stale(log[pos], hist[c])) => UNCHANGED hist
  BY DEF ProcessOwn, Applies, IsPublished, MarkFailed
<1>6. /\ hist'[c] = Canon(pos)
      /\ \A d \in Clients \ {c} : hist'[d] = hist[d]
  <2>1. CASE /\ IsCommit(log[pos]) /\ intents[c][i].state = "Published"
             /\ ~Stale(log[pos], hist[c])
    <3>1. log[pos].base = hist[c]  BY <2>1, <1>1, OwnEpoch
    <3>2. QED  BY <2>1, <3>1, <1>m, <1>2, MergeEffect
  <2>2. CASE ~(/\ IsCommit(log[pos]) /\ intents[c][i].state = "Published"
               /\ ~Stale(log[pos], hist[c]))
    <3>1. ASSUME IsCommit(log[pos]), log[pos].base = hist[c] PROVE FALSE
      <4>1. Sender(log[pos]) = c  BY <1>3 DEF Sender
      <4>2. PICK j \in DOMAIN intents[c] : /\ intents[c][j].state = "Published"
                                           /\ intents[c][j].hash = log[pos].id
        BY <1>1, <3>1, <4>1, OwnWaits
      <4>3. intents[c][j].hash # NoHash  BY <4>2 DEF StateInv, RowInv
      <4>4. j = i  BY <4>2, <4>3, <1>1 DEF StateInv, HashInv
      <4>5. Epoch(log[pos].base) < Epoch(hist[c])
        BY <2>2, <3>1, <4>2, <4>4, <1>1, OwnEpoch
      <4>6. Epoch(hist[c]) \in Nat  BY DEF TypeOK, Epoch
      <4>7. QED  BY <3>1, <4>5, <4>6
    <3>2. QED  BY <2>2, <3>1, <1>n, <1>2
  <2>3. QED  BY <2>1, <2>2
<1>7. \A j \in DOMAIN intents'[c] : RowMoves(c, j, 0)
  BY <1>4, <1>5 DEF RowMoves
<1>8. ASSUME HighWater(c)' = pos PROVE StillWaited(c)
  <2>1. ASSUME NEW k \in (pos + 1)..Len(log), NEW j \in DOMAIN intents[c],
               IsCommit(log[k]), intents[c][j].state = "Published",
               intents[c][j].hash = log[k].id
        PROVE  \/ Epoch(log[k].base) < Epoch(hist'[c])
               \/ /\ intents'[c][j].state = "Published"
                  /\ intents'[c][j].hash = log[k].id
    <3>1. CASE j # i  BY <2>1, <3>1, <1>5
    <3>2. CASE j = i
      <4>1. k \in 1..Len(log)  BY <1>0, ChainType
      <4>2. k \in DOMAIN log  BY <4>1, LogDomain
      <4>3. log[k].op = log[pos].op /\ log[k].base = log[pos].base
        BY <2>1, <3>2, <4>2, <1>3 DEF StateInv, RowInv
      <4>4. IsCommit(log[pos])  BY <2>1, <4>3 DEF IsCommit
      <4>5. hist[c] \in Seq(Commit) /\ CommitOf(log[pos]) \in Commit
        BY EnvelopeType DEF TypeOK
      <4>6. CASE Stale(log[pos], hist[c])
        <5>1. Epoch(log[pos].base) < Epoch(hist[c])
          BY <2>1, <3>2, <4>4, <4>6, <1>1, OwnEpoch
        <5>2. hist' = hist  BY <4>6, <1>n
        <5>3. QED  BY <4>3, <5>1, <5>2
      <4>7. CASE ~Stale(log[pos], hist[c])
        <5>1. log[pos].base = hist[c]
          BY <2>1, <3>2, <4>4, <4>7, <1>1, OwnEpoch
        <5>2. hist'[c] = Append(hist[c], CommitOf(log[pos]))
          BY <1>2, <1>6, <4>4, <5>1
        <5>3. QED  BY <4>3, <4>5, <5>1, <5>2 DEF Epoch
      <4>8. QED  BY <4>6, <4>7
    <3>3. QED  BY <3>1, <3>2
  <2>2. QED  BY <1>8, <2>1, <1>5 DEF StillWaited
<1>9. QED  BY <1>1, <1>5, <1>6, <1>7, <1>8, FollowStep

(* An envelope that no row of c waits for. *)
LEMMA ExternalInv ==
  ASSUME TypeOK, TypeOK', StateInv, LoopInv, NEW c \in Clients,
         NEW pos \in DOMAIN log,
         \/ MergeExternal(c, pos) \/ StoreExternal(c, pos)
         \/ SkipOwn(c, pos) \/ RejectExternal(c, pos)
  PROVE  StateInv' /\ LoopInv'
<1>1. /\ Processing(c, pos) /\ Handled(c, pos) /\ NotOwn(c, log[pos])
      /\ UNCHANGED <<log, fresh, pc, intents>>
  BY DEF MergeExternal, StoreExternal, SkipOwn, Skips, RejectExternal
<1>2. Canon(pos) = IF IsCommit(log[pos]) /\ log[pos].base = hist[c]
                   THEN Append(hist[c], CommitOf(log[pos])) ELSE hist[c]
  BY <1>1, AtPos
<1>3. /\ hist'[c] = Canon(pos)
      /\ \A d \in Clients \ {c} : hist'[d] = hist[d]
  <2>1. CASE MergeExternal(c, pos)
    <3>1. /\ IsCommit(log[pos]) /\ log[pos].base = hist[c]
          /\ Merge(c, log[pos], pos)
      BY <2>1 DEF MergeExternal, Readable
    <3>2. QED  BY <3>1, <1>2, MergeEffect
  <2>2. CASE StoreExternal(c, pos)
    BY <2>2, <1>2 DEF StoreExternal
  <2>3. CASE SkipOwn(c, pos)
    <3>1. ~IsCommit(log[pos])
      <4>1. SUFFICES ASSUME IsCommit(log[pos]) PROVE FALSE  OBVIOUS
      <4>2. log[pos].base = hist[c] /\ Sender(log[pos]) = c
        BY <2>3, <4>1 DEF SkipOwn, Skips, Readable
      <4>3. \E i \in DOMAIN intents[c] : intents[c][i].hash = log[pos].id
        BY <1>1, <4>1, <4>2, OwnWaits
      <4>4. QED  BY <1>1, <4>3 DEF NotOwn, FindByHash
    <3>2. QED  BY <2>3, <3>1, <1>2 DEF SkipOwn
  <2>4. CASE RejectExternal(c, pos)
    BY <2>4, <1>2 DEF RejectExternal, Readable, MarkFailed
  <2>5. QED  BY <2>1, <2>2, <2>3, <2>4
<1>4. \A j \in DOMAIN intents'[c] : RowMoves(c, j, 0)  BY <1>1 DEF RowMoves
<1>5. StillWaited(c)  BY <1>1 DEF StillWaited
<1>6. QED  BY <1>1, <1>3, <1>4, <1>5, FollowStep

-----------------------------------------------------------------------------
(* The invariant *)

(* The invariant holds initially. *)
LEMMA InitIInv == Init => IInv
<1> SUFFICES ASSUME Init PROVE IInv  OBVIOUS
<1>1. TypeOK  BY InitTypeOK
<1>2. /\ log = << >> /\ fresh = 1
      /\ \A c \in Clients : /\ hist[c] = << >> /\ intents[c] = << >>
                            /\ cursor[c] = [commit |-> 0, app |-> 0]
                            /\ pc[c] = "idle"
  BY DEF Init
<1>3. Len(log) = 0 /\ DOMAIN log = {}  BY <1>2
<1>4. \A c \in Clients : HighWater(c) = 0 /\ DOMAIN intents[c] = {}
  BY <1>2 DEF HighWater
<1>5. LogInv  BY <1>3 DEF LogInv
<1>6. ChainInv  BY <1>3, PrefixRefl DEF ChainInv, Canon
<1>7. PosInv  BY <1>2, <1>3, <1>4 DEF PosInv, Canon
<1>8. HashInv /\ RowInv  BY <1>2, <1>4 DEF HashInv, RowInv, NoHash
<1>9. OwnInv  BY <1>3, <1>4 DEF OwnInv
<1>10. LoopInv  BY <1>2 DEF LoopInv, BatchOK, LoopOK
<1>11. QED
  BY <1>1, <1>5, <1>6, <1>7, <1>8, <1>9, <1>10 DEF IInv, StateInv

(* The steps of one client preserve the invariant, action by action. *)
LEMMA StepIInv ==
  ASSUME IInv, "ack" \notin FaultKinds, NEW c \in Clients,
         QueueStep(c) \/ SyncStep(c) \/ FaultStep(c) \/ StreamStep(c)
           \/ Upgrade(c)
  PROVE  IInv'
<1>0. TypeOK /\ StateInv /\ LoopInv  BY DEF IInv
<1>t. TypeOK'  BY <1>0, StepTypeOK
<1>1. CASE QueueStep(c)  BY <1>0, <1>t, <1>1, QueueStepInv DEF IInv
<1>2. CASE SyncStart(c)  BY <1>0, <1>t, <1>2, SyncStartInv DEF IInv
<1>3. CASE Receive(c)  BY <1>0, <1>t, <1>3, ReceiveInv DEF IInv
<1>4. CASE PostCommitStart(c)
  BY <1>0, <1>t, <1>4, PostCommitStartInv DEF IInv
<1>5. CASE \/ ReceiveFailed(c) \/ Crash(c)
           \/ \E pos \in DOMAIN log : Pause(c, pos) \/ RetryableError(c, pos)
           \/ \E i \in DOMAIN intents[c] : SendWelcomesFailed(c, i)
  BY <1>0, <1>t, <1>5, QuietInv DEF IInv
<1>6. CASE Upgrade(c) \/ \E pos \in DOMAIN log : StreamExternal(c, pos)
  BY <1>0, <1>t, <1>6, AloofInv DEF IInv
<1>7. ASSUME NEW i \in DOMAIN intents[c], SendWelcomes(c, i) PROVE IInv'
  BY <1>0, <1>t, <1>7, SendWelcomesInv DEF IInv
<1>8. ASSUME NEW i \in DOMAIN intents[c], FinishIntent(c, i) PROVE IInv'
  BY <1>0, <1>t, <1>8, FinishIntentInv DEF IInv
<1>9. ASSUME NEW i \in DOMAIN intents[c], PublishError(c, i) PROVE IInv'
  BY <1>0, <1>t, <1>9, PublishErrorInv DEF IInv
<1>10. ASSUME NEW i \in DOMAIN intents[c], PublishNothing(c, i) PROVE IInv'
  BY <1>0, <1>t, <1>10, PublishNothingInv DEF IInv
<1>11. ASSUME NEW i \in DOMAIN intents[c], PublishIntent(c, i) PROVE IInv'
  BY <1>0, <1>t, <1>11, PublishIntentInv DEF IInv
<1>12. ASSUME NEW i \in DOMAIN intents[c], SendOk(c, i) PROVE IInv'
  BY <1>0, <1>t, <1>12, SendOkInv DEF IInv
<1>13. ASSUME NEW i \in DOMAIN intents[c], SendUnacknowledged(c, i)
       PROVE IInv'
  BY <1>0, <1>t, <1>13, SendUnacknowledgedInv DEF IInv
<1>14. ASSUME NEW i \in DOMAIN intents[c], SendFailed(c, i) PROVE IInv'
  BY <1>0, <1>t, <1>14, SendFailedInv DEF IInv
<1>15. ASSUME NEW pos \in DOMAIN log, NEW i \in DOMAIN intents[c],
              ProcessOwn(c, pos, i)
       PROVE IInv'
  BY <1>0, <1>t, <1>15, ProcessOwnInv DEF IInv
<1>16. ASSUME NEW pos \in DOMAIN log,
              \/ MergeExternal(c, pos) \/ StoreExternal(c, pos)
              \/ SkipOwn(c, pos) \/ RejectExternal(c, pos)
       PROVE IInv'
  BY <1>0, <1>t, <1>16, ExternalInv DEF IInv
<1>17. ASSUME NEW pos \in DOMAIN log, NEW i \in DOMAIN intents[c],
              StreamOwn(c, pos, i)
       PROVE IInv'
  BY <1>0, <1>t, <1>17, StreamOwnInv DEF IInv
<1>18. CASE SyncStep(c)
  BY <1>18, <1>2, <1>3, <1>4, <1>5, <1>7, <1>8, <1>10, <1>11, <1>12, <1>15,
     <1>16
  DEF SyncStep, ProcessStep
<1>19. CASE FaultStep(c)  BY <1>19, <1>5, <1>9, <1>13, <1>14 DEF FaultStep
<1>20. CASE StreamStep(c)  BY <1>20, <1>6, <1>17 DEF StreamStep
<1>21. QED  BY <1>1, <1>6, <1>18, <1>19, <1>20

(***************************************************************************)
(* IInv is an invariant, for any number of clients, intents, epochs and    *)
(* faults, when a send that reports failure stored nothing.                *)
(***************************************************************************)
THEOREM Invariance ==
  ASSUME "ack" \notin FaultKinds PROVE Spec => []IInv
<1>1. IInv /\ [Next]_vars => IInv'
  <2> SUFFICES ASSUME IInv, [Next]_vars PROVE IInv'  OBVIOUS
  <2>1. CASE Next  BY <2>1, StepIInv DEF Next
  <2>2. CASE UNCHANGED vars
    <3>0. TypeOK /\ StateInv /\ LoopInv  BY DEF IInv
    <3>1. UNCHANGED <<log, fresh, hist, cursor, intents, pc, todo>>
      BY <2>2 DEF vars
    <3>2. TypeOK'  BY <2>2, <3>0 DEF vars, TypeOK
    <3>3. StateInv'  BY <3>0, <3>1, IdleStep
    <3>4. \A c \in Clients : BatchOK(c)' /\ LoopOK(c)'
      BY <3>0, <3>1 DEF LoopInv, BatchOK, LoopOK, HighWater, IsNext
    <3>5. QED  BY <3>2, <3>3, <3>4 DEF IInv, LoopInv
  <2>3. QED  BY <2>1, <2>2
<1>2. QED  BY InitIInv, <1>1, PTL DEF Spec

(***************************************************************************)
(* A client's MLS state is always the one its cursors stand for: no commit *)
(* is skipped, applied twice or applied out of order.                      *)
(***************************************************************************)
THEOREM CursorSound ==
  ASSUME "ack" \notin FaultKinds PROVE Spec => []StateMatchesCursor
<1>1. IInv => StateMatchesCursor
  BY DEF IInv, StateInv, PosInv, StateMatchesCursor
<1>2. QED  BY Invariance, <1>1, PTL

(***************************************************************************)
(* Clients never fork, for any number of clients: all their states lie on  *)
(* the one history the topic prescribes.                                   *)
(***************************************************************************)
THEOREM ForkFree ==
  ASSUME "ack" \notin FaultKinds PROVE Spec => []NoFork
<1>1. ASSUME IInv PROVE NoFork
  <2>1. ASSUME NEW c \in Clients, NEW d \in Clients
        PROVE  Prefix(hist[c], hist[d]) \/ Prefix(hist[d], hist[c])
    <3>1. /\ HighWater(c) \in 0..Len(log) /\ hist[c] = Canon(HighWater(c))
          /\ HighWater(d) \in 0..Len(log) /\ hist[d] = Canon(HighWater(d))
      BY <1>1 DEF IInv, StateInv, PosInv
    <3>2. HighWater(c) <= HighWater(d) \/ HighWater(d) <= HighWater(c)
      BY <1>1, CursorType DEF IInv
    <3>3. QED  BY <1>1, <3>1, <3>2 DEF IInv, StateInv, ChainInv
  <2>2. QED  BY <2>1 DEF NoFork
<1>2. QED  BY Invariance, <1>1, PTL
=============================================================================
