---------------------- MODULE GroupSyncIntents_proofs ----------------------
(***************************************************************************)
(* What a client is told: the final states of its intents, the welcomes    *)
(* and the commit log agree with the history of the group.                 *)
(***************************************************************************)
EXTENDS GroupSyncHistory_proofs

(* Positions, envelopes and states only grow. *)
LEMMA StepGrows ==
  ASSUME IInv, IInv', NEW c \in Clients, TopicStep(c)
  PROVE  /\ \A d \in Clients : /\ HighWater(d) \in Nat /\ HighWater(d)' \in Nat
                               /\ HighWater(d) <= HighWater(d)'
         /\ \A k \in DOMAIN log : /\ k \in DOMAIN log' /\ log'[k] = log[k]
                                  /\ Canon(k)' = Canon(k) /\ Wins(k)' = Wins(k)
         /\ \A d \in Clients : \A n \in DOMAIN hist[d] :
              n \in DOMAIN hist'[d] /\ hist'[d][n] = hist[d][n]
<1>0. TypeOK /\ StateInv /\ LoopInv  BY DEF IInv
<1>1. \A d \in Clients : HighWater(d) \in Nat  BY <1>0, CursorType
<1>2. CASE Still
  <2>1. log' = log /\ hist' = hist /\ \A d : HighWater(d)' = HighWater(d)
    BY <1>2 DEF Still, HighWater
  <2>2. QED  BY <1>1, <2>1, SameTopic
<1>3. ASSUME NEW i \in DOMAIN intents[c], Arrives(c, i)
      PROVE  /\ \A d \in Clients : HighWater(d)' = HighWater(d)
             /\ \A k \in DOMAIN log : /\ k \in DOMAIN log' /\ log'[k] = log[k]
                                      /\ Canon(k)' = Canon(k)
                                      /\ Wins(k)' = Wins(k)
             /\ hist' = hist
  BY <1>3, ArrivesChain DEF Arrives, HighWater
<1>4. ASSUME NEW pos \in DOMAIN log, Follows(c, pos)
      PROVE  /\ HighWater(c)' = HighWater(c) + 1
             /\ \A d \in Clients \ {c} : HighWater(d)' = HighWater(d)
             /\ log' = log
             /\ \A d \in Clients : \A n \in DOMAIN hist[d] :
                  n \in DOMAIN hist'[d] /\ hist'[d][n] = hist[d][n]
  <2>1. /\ Processing(c, pos) /\ Handled(c, pos) /\ log' = log
        /\ hist'[c] = Canon(pos) /\ \A d \in Clients \ {c} : hist'[d] = hist[d]
    BY <1>4 DEF Follows
  <2>2. /\ pos = HighWater(c) + 1
        /\ Canon(pos) = IF IsCommit(log[pos]) /\ log[pos].base = hist[c]
                        THEN Append(hist[c], CommitOf(log[pos])) ELSE hist[c]
    BY <1>0, <2>1, AtPos
  <2>3. /\ HighWater(c)' = pos
        /\ \A d \in Clients \ {c} : HighWater(d)' = HighWater(d)
    BY <1>0, <2>1, HandledEffect DEF HighWater
  <2>4. \A n \in DOMAIN hist[c] : n \in DOMAIN hist'[c] /\ hist'[c][n] = hist[c][n]
    <3>1. CASE hist'[c] = hist[c]  BY <3>1
    <3>2. CASE hist'[c] = Append(hist[c], CommitOf(log[pos]))
      <4>1. PICK h \in Seq(Commit) : h = hist[c]  BY <1>0 DEF TypeOK
      <4>2. PICK x \in Commit : x = CommitOf(log[pos])  BY <1>0, EnvelopeType
      <4>3. PICK t : t = hist'[c] /\ t = Append(h, x)  BY <3>2, <4>1, <4>2
      <4>4. \A n \in DOMAIN h : n \in DOMAIN t /\ t[n] = h[n]
        BY <4>1, <4>2, <4>3, AppendFacts
      <4>5. QED  BY <4>1, <4>3, <4>4
    <3>3. QED  BY <2>1, <2>2, <3>1, <3>2
  <2>5. QED  BY <2>1, <2>2, <2>3, <2>4
<1>5. CASE \E pos \in DOMAIN log : Follows(c, pos)
  <2>1. \A d \in Clients : HighWater(d)' \in {HighWater(d), HighWater(d) + 1}
    BY <1>4, <1>5
  <2>2. log' = log
        /\ \A d \in Clients : \A n \in DOMAIN hist[d] :
             n \in DOMAIN hist'[d] /\ hist'[d][n] = hist[d][n]
    BY <1>4, <1>5
  <2>3. QED  BY <1>1, <2>1, <2>2, SameTopic
<1>6. QED  BY <1>1, <1>2, <1>3, <1>5 DEF TopicStep

(* A commit that won and was read stays one. *)
LEMMA WonStays ==
  ASSUME IInv, IInv', NEW c \in Clients, TopicStep(c),
         NEW d \in Clients, NEW i, NEW k, WonAt(d, i, k)
  PROVE  WonAt(d, i, k)'
<1>1. k \in 1..HighWater(d) /\ Wins(k) /\ log[k].src = <<d, i>>
  BY DEF WonAt
<1>2. HighWater(d) \in 0..Len(log) /\ Len(log) \in Nat /\ DOMAIN log = 1..Len(log)
  BY ChainType, LogDomain DEF IInv, StateInv, PosInv
<1>3. k \in DOMAIN log  BY <1>1, <1>2
<1>4. HighWater(d) \in Nat /\ HighWater(d)' \in Nat /\ HighWater(d) <= HighWater(d)'
      /\ log'[k] = log[k] /\ Wins(k)' = Wins(k)
  BY <1>3, StepGrows
<1>5. QED  BY <1>1, <1>4 DEF WonAt

(* What a member has keeps being there. *)
LEMMA NoChangeStays ==
  ASSUME IInv, IInv', NEW c \in Clients, TopicStep(c), NEW d \in Clients,
         NEW op, NoChange(op, hist[d])
  PROVE  NoChange(op, hist'[d])
  BY StepGrows DEF NoChange

(***************************************************************************)
(* The payload of a commit row comes back: if the row is committed, it is  *)
(* with the position of the commit, which won and which c has merged.      *)
(***************************************************************************)
LEMMA EchoWon ==
  ASSUME IInv, NEW c \in Clients, NEW i \in DOMAIN intents[c],
         NEW pos \in DOMAIN log, log' = log,
         Echoed(c, intents[c][i], intents'[c][i], pos),
         intents[c][i].op.kind \in CommitKinds,
         intents'[c][i].state = "Committed"
  PROVE  /\ intents'[c][i].seq = pos /\ WonAt(c, i, pos)'
         /\ intents'[c][i].post = intents[c][i].post
<1> DEFINE old == intents[c][i]
<1>0. TypeOK /\ StateInv /\ LoopInv  BY DEF IInv
<1>1. /\ old.state = "Published" /\ log[pos].id = old.hash
      /\ intents'[c][i] = Resolved(old, log[pos], hist[c], pos)
      /\ old \in Row /\ pos \in Nat
  BY <1>0, RowType, EnvelopeType DEF Echoed
<1>2. log[pos].src = <<c, i>> /\ log[pos].op = old.op
  BY <1>0, <1>1 DEF StateInv, RowInv
<1>3. IsCommit(log[pos])  BY <1>2 DEF IsCommit
<1>4. Processing(c, pos) /\ Handled(c, pos)  BY <1>3 DEF Echoed
<1>5. ~Stale(log[pos], hist[c])  BY <1>1, ResolvedFields
<1>6. log[pos].base = hist[c]  BY <1>0, <1>1, <1>3, <1>4, <1>5, OwnEpoch
<1>7. hist[c] = Canon(pos - 1) /\ pos \in 1..Len(log)  BY <1>0, <1>4, AtPos
<1>8. HighWater(c)' = pos  BY <1>0, <1>4, HandledEffect
<1>9. Wins(pos)'
  <2>1. Wins(pos)  BY <1>3, <1>6, <1>7 DEF Wins
  <2>2. QED  BY <2>1, SameTopic
<1>10. WonAt(c, i, pos)'  BY <1>1, <1>2, <1>7, <1>8, <1>9 DEF WonAt
<1>11. QED  BY <1>1, <1>5, <1>10, ResolvedFields

-----------------------------------------------------------------------------
(* Reports *)

(* What DoneInv says of one row, in the next state. *)
DoneNext(c, i) ==
  LET row == intents'[c][i]
  IN row.op.kind \in CommitKinds =>
     /\ row.state = "Committed" => \E k : k = row.seq /\ WonAt(c, i, k)'
     /\ row.state = "Processed" =>
          \/ \E k : k = row.seq /\ WonAt(c, i, k)'
          \/ NoChange(row.op, hist'[c])

(* A row that does not move says what it said. *)
LEMMA DoneStays ==
  ASSUME IInv, IInv', DoneInv, NEW c \in Clients, TopicStep(c),
         NEW d \in Clients, NEW i \in DOMAIN intents[d],
         intents'[d][i] = intents[d][i]
  PROVE  DoneNext(d, i)
<1>1. PICK k : k = intents[d][i].seq  OBVIOUS
<1>2. WonAt(d, i, k) => WonAt(d, i, k)'  BY WonStays
<1>3. NoChange(intents[d][i].op, hist[d]) => NoChange(intents[d][i].op, hist'[d])
  BY NoChangeStays
<1>4. QED  BY <1>1, <1>2, <1>3 DEF DoneInv, DoneNext

(* Commit intents are done when their commit won, or when it is moot. *)
LEMMA DoneStep ==
  ASSUME IInv, IInv', DoneInv, NEW c \in Clients, RowsLive(c), TopicStep(c)
  PROVE  DoneInv'
<1>0. TypeOK  BY DEF IInv
<1>1. ASSUME NEW i \in DOMAIN intents[c] PROVE DoneNext(c, i)
  <2> DEFINE old == intents[c][i]
             new == intents'[c][i]
  <2>0. old \in Row /\ RowLife(c, i) /\ new.op = old.op
    BY <1>0, RowType DEF RowsLive, RowLife
  <2>1. SUFFICES ASSUME ~RowStays(c, i), old.op.kind \in CommitKinds,
                        new.state \in {"Committed", "Processed"}
                 PROVE  DoneNext(c, i)
    BY <2>0, DoneStays DEF RowStays, DoneNext
  <2>2. ASSUME NEW pos \in DOMAIN log, Echoed(c, old, new, pos)
        PROVE  DoneNext(c, i)
    <3>1. new.state = "Committed" /\ log' = log
      <4>1. old.state = "Published" /\ new = Resolved(old, log[pos], hist[c], pos)
        BY <2>2 DEF Echoed
      <4>2. pos \in Nat  BY <1>0, EnvelopeType
      <4>3. new # old
        BY <2>1 DEF RowStays
      <4>4. log' = log  BY <4>3 DEF TopicStep, Still, Arrives, Follows
      <4>5. QED  BY <2>0, <2>1, <4>1, <4>2, <4>4, ResolvedFields
    <3>2. new.seq = pos /\ WonAt(c, i, pos)'  BY <2>1, <2>2, <3>1, EchoWon
    <3>3. QED  BY <3>1, <3>2 DEF DoneNext
  <2>3. CASE FoundDone(c, old, new)
    <3>1. NoChange(old.op, hist'[c])
      BY <2>3, NoChangeStays DEF FoundDone
    <3>2. QED  BY <2>0, <2>3, <3>1 DEF FoundDone, DoneNext
  <2>4. CASE Finished(c, i, old, new)
    <3>1. old.state = "Committed" /\ new.state = "Processed" /\ new.seq = old.seq
      BY <2>0, <2>4, SetterFields DEF Finished
    <3>2. PICK k : k = old.seq  OBVIOUS
    <3>3. WonAt(c, i, k)  BY <2>1, <3>1, <3>2 DEF DoneInv
    <3>4. WonAt(c, i, k)'  BY <3>3, WonStays
    <3>5. QED  BY <3>1, <3>2, <3>4 DEF DoneNext
  <2>5. QED  BY <1>0, <2>0, <2>1, <2>2, <2>3, <2>4, RowStates
<1>2. ASSUME NEW i \in DOMAIN intents'[c] \ DOMAIN intents[c]
      PROVE  DoneNext(c, i)
  <2>1. PICK op \in Ops : intents'[c][i] = NewIntent(op)
    BY DEF RowsLive
  <2>2. QED  BY <2>1 DEF NewIntent, DoneNext
<1>3. \A d \in Clients \ {c} : \A i \in DOMAIN intents'[d] : DoneNext(d, i)
  BY DoneStays DEF RowsLive
<1>4. \A d \in Clients : \A i \in DOMAIN intents'[d] : DoneNext(d, i)
  BY <1>1, <1>2, <1>3
<1>5. ASSUME NEW d \in Clients, NEW i \in DOMAIN intents'[d]
      PROVE  (LET row == intents[d][i]
              IN row.op.kind \in CommitKinds =>
                 /\ row.state = "Committed" => WonAt(d, i, row.seq)
                 /\ row.state = "Processed" =>
                      WonAt(d, i, row.seq) \/ NoChange(row.op, hist[d]))'
  <2>1. PICK k : k = intents'[d][i].seq  OBVIOUS
  <2>2. WonAt(d, i, k)' => WonAt(d, i, intents[d][i].seq)'
    BY <2>1 DEF WonAt, Wins, Canon
  <2>3. QED  BY <1>4, <2>1, <2>2 DEF DoneNext
<1>6. QED  BY <1>5 DEF DoneInv

(* A commit that won and was read is in the state of who read it. *)
LEMMA WonMerged ==
  ASSUME IInv, NEW c \in Clients, NEW i, NEW k, WonAt(c, i, k)
  PROVE  /\ MergedIn(hist[c], c, i) /\ k \in DOMAIN log
         /\ log[k].after = Append(Canon(k - 1), CommitOf(log[k]))
         /\ Prefix(log[k].after, hist[c])
<1>0. TypeOK /\ ChainInv /\ LogInv  BY DEF IInv, StateInv
<1>1. k \in 1..HighWater(c) /\ Wins(k) /\ log[k].src = <<c, i>>
  BY DEF WonAt
<1>2. /\ HighWater(c) \in 0..Len(log) /\ hist[c] = Canon(HighWater(c))
      /\ Len(log) \in Nat /\ DOMAIN log = 1..Len(log)
  BY <1>0, ChainType, LogDomain DEF IInv, StateInv, PosInv
<1>3. k \in DOMAIN log /\ k \in 0..Len(log) /\ k <= HighWater(c) /\ k # 0
      /\ k - 1 \in 0..Len(log)
  BY <1>1, <1>2
<1>4. log[k].after = Append(Canon(k - 1), CommitOf(log[k]))
  BY <1>0, <1>1, <1>3 DEF LogInv
<1>5. Canon(k) = log[k].after  BY <1>3 DEF Canon
<1>6. Prefix(Canon(k), hist[c])  BY <1>0, <1>2, <1>3 DEF ChainInv
<1>7. MergedIn(hist[c], c, i)
  <2>1. PICK s \in Seq(Commit) : s = Canon(k - 1)  BY <1>0, <1>3, CanonType
  <2>2. PICK x \in Commit : x = CommitOf(log[k])  BY <1>0, <1>3, EnvelopeType
  <2>3. /\ Canon(k)[Len(s) + 1] = x /\ Len(Canon(k)) = Len(s) + 1
        /\ Len(s) \in Nat
    BY <1>4, <1>5, <2>1, <2>2, AppendFacts
  <2>4. x.src = <<c, i>>  BY <1>1, <2>2 DEF CommitOf
  <2>5. hist[c] \in Seq(Commit)  BY <1>0 DEF TypeOK
  <2>6. Len(s) + 1 \in DOMAIN hist[c] /\ hist[c][Len(s) + 1] = x
    BY <1>6, <2>3, <2>5 DEF Prefix
  <2>7. QED  BY <2>4, <2>6 DEF MergedIn
<1>8. QED  BY <1>3, <1>4, <1>5, <1>6, <1>7

(* What the reports to the application rest on. *)
ReportInv == LedgerInv /\ DoneInv

(* ReportInv is an invariant. *)
LEMMA ReportInvariance ==
  ASSUME "ack" \notin FaultKinds PROVE Spec => []ReportInv
<1>1. Init => DoneInv
  BY DEF Init, DoneInv
<1>2. LedgerInv /\ LedgerInv' /\ DoneInv /\ [Next]_vars => DoneInv'
  <2> SUFFICES ASSUME LedgerInv, LedgerInv', DoneInv, [Next]_vars
               PROVE  DoneInv'
    OBVIOUS
  <2>0. IInv /\ IInv'  BY DEF LedgerInv
  <2>1. ASSUME NEW c \in Clients,
               QueueStep(c) \/ SyncStep(c) \/ FaultStep(c) \/ StreamStep(c)
                 \/ Upgrade(c)
        PROVE  DoneInv'
    <3>1. RowsLive(c) /\ TopicStep(c)  BY <2>0, <2>1, StepLife
    <3>2. QED  BY <2>0, <3>1, DoneStep
  <2>2. CASE UNCHANGED vars
    <3>1. UNCHANGED <<log, hist, cursor, intents>>  BY <2>2 DEF vars
    <3>2. ASSUME NEW c \in Clients, NEW i, NEW k PROVE WonAt(c, i, k)' = WonAt(c, i, k)
      BY <3>1 DEF WonAt, Wins, Canon, HighWater
    <3>3. QED  BY <3>1, <3>2 DEF DoneInv
  <2>3. QED  BY <2>1, <2>2 DEF Next
<1>3. QED  BY LedgerInvariance, <1>1, <1>2, PTL DEF Spec, ReportInv

(***************************************************************************)
(* What sync_until_intent_resolved reports is true: a commit intent shown  *)
(* as done is in the member's state or asked for nothing, and one shown as *)
(* failed or superseded is in the history of nobody.                       *)
(***************************************************************************)
THEOREM ReportsTrue ==
  ASSUME "ack" \notin FaultKinds PROVE Spec => []ReportsAreTrue
<1>1. ASSUME ReportInv PROVE ReportsAreTrue
  <2>0. IInv /\ FateInv /\ DoneInv  BY <1>1 DEF ReportInv, LedgerInv
  <2>1. ASSUME NEW c \in Clients, NEW i \in DOMAIN intents[c],
               intents[c][i].op.kind \in CommitKinds
        PROVE  LET row == intents[c][i]
               IN /\ row.state = "Committed" => MergedIn(hist[c], c, i)
                  /\ row.state = "Processed" =>
                       MergedIn(hist[c], c, i) \/ NoChange(row.op, hist[c])
                  /\ row.state \in {"Error", "Superseded"} => ~MergedIn(Chain, c, i)
    <3>1. PICK k : k = intents[c][i].seq  OBVIOUS
    <3>2. WonAt(c, i, k) => MergedIn(hist[c], c, i)  BY <2>0, WonMerged
    <3>3. MergedIn(Chain, c, i) =>
            intents[c][i].state \in {"Committed", "Processed", "Published"}
      <4>1. SUFFICES ASSUME NEW n \in DOMAIN Chain, Chain[n].src = <<c, i>>
                     PROVE  intents[c][i].state
                              \in {"Committed", "Processed", "Published"}
        BY DEF MergedIn
      <4>2. Took(c, i, n)  BY <2>0, <4>1 DEF FateInv
      <4>3. QED  BY <4>2 DEF Took
    <3>4. QED  BY <2>0, <2>1, <3>1, <3>2, <3>3 DEF DoneInv
  <2>2. QED  BY <2>1 DEF ReportsAreTrue
<1>2. QED  BY ReportInvariance, <1>1, PTL

(***************************************************************************)
(* Terminal intents stay as they are, and a row is wiped for another       *)
(* attempt only if its payload did not take effect: what one step of a     *)
(* client may do to a row.                                                 *)
(***************************************************************************)
THEOREM TerminalIntentsStay ==
  ASSUME "ack" \notin FaultKinds PROVE Spec => TerminalStays
<1>1. ASSUME LedgerInv, LedgerInv', [Next]_vars,
             NEW d \in Clients, NEW i \in DOMAIN intents[d]
      PROVE  LET row == intents[d][i]
             IN /\ row.state \in Terminal => intents'[d][i] = row
                /\ (row.state = "Published" /\ intents'[d][i].state = "ToPublish")
                     => ~\E k \in DOMAIN Chain : Chain[k].id = row.hash
  <2>0. IInv /\ IInv' /\ HistoryInv /\ FateInv /\ TypeOK
    BY <1>1 DEF LedgerInv, IInv
  <2>1. CASE intents' = intents  BY <2>1
  <2>2. ASSUME NEW c \in Clients, intents' # intents,
               QueueStep(c) \/ SyncStep(c) \/ FaultStep(c) \/ StreamStep(c)
                 \/ Upgrade(c)
        PROVE  LET row == intents[d][i]
               IN /\ row.state \in Terminal => intents'[d][i] = row
                  /\ (/\ row.state = "Published"
                      /\ intents'[d][i].state = "ToPublish")
                       => ~\E k \in DOMAIN Chain : Chain[k].id = row.hash
    <3>1. RowsLive(c) /\ TopicStep(c)  BY <2>0, <2>2, StepLife
    <3>2. Still \/ \E pos \in DOMAIN log : Follows(c, pos)
      BY <2>2, <3>1 DEF TopicStep, Arrives
    <3>3. intents[d][i].state \in Terminal => intents'[d][i] = intents[d][i]
      <4>1. CASE d # c  BY <3>1, <4>1 DEF RowsLive
      <4>2. CASE d = c
        BY <2>0, <3>1, <4>2, RowStates DEF RowsLive, RowStays
      <4>3. QED  BY <4>1, <4>2
    <3>4. ASSUME intents[d][i].state = "Published",
                 intents'[d][i].state = "ToPublish",
                 NEW k \in DOMAIN Chain, Chain[k].id = intents[d][i].hash
          PROVE  FALSE
      <4>1. PICK l \in DOMAIN log : CommitOf(log[l]) = Chain[k]
        BY <2>0 DEF HistoryInv
      <4>2. log[l].id = intents[d][i].hash /\ log[l].src = Chain[k].src
        BY <3>4, <4>1 DEF CommitOf
      <4>3. Chain[k].src = <<d, i>>  BY <2>0, <4>2 DEF IInv, StateInv, RowInv
      <4>4. Took(d, i, k)  BY <2>0, <4>3 DEF FateInv
      <4>5. Took(d, i, k)'  BY <2>0, <3>1, <3>2, <4>4, TookStays
      <4>6. QED  BY <3>4, <4>5 DEF Took
    <3>5. QED  BY <3>3, <3>4
  <2>3. CASE UNCHANGED vars  BY <2>1, <2>3 DEF vars
  <2>4. QED  BY <1>1, <2>1, <2>2, <2>3 DEF Next
<1>2. LedgerInv /\ LedgerInv' /\ [Next]_vars =>
        [\A c \in Clients : \A i \in DOMAIN intents[c] :
           LET row == intents[c][i]
           IN /\ row.state \in Terminal => intents'[c][i] = row
              /\ (row.state = "Published" /\ intents'[c][i].state = "ToPublish")
                   => ~\E k \in DOMAIN Chain : Chain[k].id = row.hash]_vars
  BY <1>1
<1>3. QED  BY LedgerInvariance, <1>2, PTL DEF Spec, TerminalStays

-----------------------------------------------------------------------------
(* Welcomes *)

(* Post-commit is reached by sending the welcomes, and left at once. *)
LEMMA WelcomeMoves ==
  ASSUME IInv, NEW c \in Clients,
         QueueStep(c) \/ SyncStep(c) \/ FaultStep(c) \/ StreamStep(c)
           \/ Upgrade(c)
  PROVE  \/ \E i \in DOMAIN intents[c] : SendWelcomes(c, i)
         \/ /\ welcomes' = welcomes
            /\ pc'[c] = "posted" => pc[c] = "posted" /\ todo'[c] = todo[c]
            /\ \A d \in Clients \ {c} : pc'[d] = pc[d] /\ todo'[d] = todo[d]
<1> DEFINE Kept == /\ welcomes' = welcomes
                   /\ pc'[c] = "posted" => pc[c] = "posted" /\ todo'[c] = todo[c]
                   /\ \A d \in Clients \ {c} : pc'[d] = pc[d] /\ todo'[d] = todo[d]
<1>0. TypeOK /\ StateInv /\ LoopInv /\ pc \in [Clients -> PCs]
  BY DEF IInv, TypeOK, PCs
<1>1. CASE \/ QueueStep(c) \/ Upgrade(c) \/ StreamStep(c)
  <2>1. UNCHANGED <<welcomes, pc, todo>>
    BY <1>1
    DEF QueueStep, Queue, QueueWithKeyUpdate, Upgrade, StreamStep, StreamOwn,
        StreamExternal
  <2>2. QED  BY <2>1
<1>2. CASE \/ SyncStart(c) \/ PostCommitStart(c)
           \/ \E i \in DOMAIN intents[c] :
                PublishNothing(c, i) \/ SendOk(c, i) \/ FinishIntent(c, i)
  <2>1. welcomes' = welcomes
    BY <1>2
    DEF SyncStart, PostCommitStart, PublishNothing, SendOk, FinishIntent
  <2>2. PICK label \in {"publish", "post"}, next \in {"receive", "idle"} :
          \E work : Loop(c, label, work, next)
    BY <1>2
    DEF SyncStart, PostCommitStart, PublishNothing, SendOk, FinishIntent
  <2>3. /\ pc'[c] \in {label, next}
        /\ \A d \in Clients \ {c} : pc'[d] = pc[d] /\ todo'[d] = todo[d]
    BY <1>0, <2>2, LoopEffect
  <2>4. QED  BY <2>1, <2>3
<1>3. CASE \/ Receive(c) \/ ReceiveFailed(c) \/ Crash(c)
           \/ \E i \in DOMAIN intents[c] :
                \/ PublishError(c, i) \/ SendFailed(c, i)
                \/ SendWelcomesFailed(c, i)
  <2>1. welcomes' = welcomes
    BY <1>3
    DEF Receive, ReceiveFailed, Crash, PublishError, SendFailed,
        SendWelcomesFailed
  <2>2. PICK label \in {"process", "idle", "receive"} :
          \E work : Goto(c, label, work)
    BY <1>3
    DEF Receive, ReceiveFailed, Crash, PublishError, SendFailed,
        SendWelcomesFailed
  <2>3. /\ pc'[c] = label
        /\ \A d \in Clients \ {c} : pc'[d] = pc[d] /\ todo'[d] = todo[d]
    BY <1>0, <2>2, GotoEffect
  <2>4. QED  BY <2>1, <2>3
<1>4. CASE \E i \in DOMAIN intents[c] :
             PublishIntent(c, i) \/ SendUnacknowledged(c, i)
  <2>1. /\ welcomes' = welcomes /\ todo' = todo
        /\ pc' = [pc EXCEPT ![c] = "send"] \/ pc' = [pc EXCEPT ![c] = "resend"]
    BY <1>4 DEF PublishIntent, SendUnacknowledged
  <2>2. QED  BY <1>0, <2>1
<1>5. ASSUME NEW pos \in DOMAIN log,
             \/ \E i \in DOMAIN intents[c] : ProcessOwn(c, pos, i)
             \/ MergeExternal(c, pos) \/ StoreExternal(c, pos)
             \/ SkipOwn(c, pos) \/ RejectExternal(c, pos)
      PROVE  Kept
  <2>1. /\ welcomes' = welcomes /\ pc' = pc
        /\ Processing(c, pos) /\ Handled(c, pos)
    BY <1>5
    DEF ProcessOwn, MergeExternal, StoreExternal, SkipOwn, Skips,
        RejectExternal
  <2>2. \A d \in Clients \ {c} : todo'[d] = todo[d]
    BY <1>0, <2>1, HandledEffect
  <2>3. pc[c] = "process"  BY <2>1 DEF Processing
  <2>4. QED  BY <2>1, <2>2, <2>3
<1>6. ASSUME NEW pos \in DOMAIN log, Pause(c, pos) \/ RetryableError(c, pos)
      PROVE  Kept
  <2>1. /\ welcomes' = welcomes /\ pc' = pc /\ pc[c] = "process"
        /\ todo' = [todo EXCEPT ![c] = {}]
    BY <1>6 DEF Pause, RetryableError, Processing
  <2>2. QED  BY <1>0, <2>1 DEF TypeOK
<1>7. CASE SyncStep(c)
  BY <1>7, <1>2, <1>3, <1>4, <1>5, <1>6 DEF SyncStep, ProcessStep
<1>8. CASE FaultStep(c)  BY <1>8, <1>3, <1>4, <1>6 DEF FaultStep
<1>9. QED  BY <1>1, <1>7, <1>8

(* Welcomes are sent for a commit that won. *)
LEMMA SendWelcomesWon ==
  ASSUME IInv, DoneInv, WelcomeInv, NEW c \in Clients,
         NEW i \in DOMAIN intents[c], SendWelcomes(c, i)
  PROVE  /\ WonAt(c, i, intents[c][i].seq)
         /\ welcomes' = welcomes \cup {[src |-> <<c, i>>, seq |-> intents[c][i].seq]}
         /\ pc'[c] = "posted" /\ todo'[c] = todo[c] /\ IsNext(c, i)
         /\ \A d \in Clients \ {c} : pc'[d] = pc[d] /\ todo'[d] = todo[d]
<1>1. /\ pc[c] = "post" /\ IsNext(c, i) /\ i \in todo[c] /\ intents[c][i].post
      /\ pc' = [pc EXCEPT ![c] = "posted"] /\ todo' = todo
      /\ welcomes' = welcomes \cup {[src |-> <<c, i>>, seq |-> intents[c][i].seq]}
  BY DEF SendWelcomes, IsNext
<1>2. intents[c][i].state = "Committed"  BY <1>1 DEF IInv, LoopInv, LoopOK
<1>3. intents[c][i].op.kind = "UpdateGroupMembership"
  BY <1>1, <1>2 DEF WelcomeInv
<1>4. WonAt(c, i, intents[c][i].seq)
  BY <1>2, <1>3 DEF DoneInv, CommitKinds
<1>5. pc'[c] = "posted" /\ \A d \in Clients \ {c} : pc'[d] = pc[d]
  BY <1>1 DEF IInv, TypeOK
<1>6. QED  BY <1>1, <1>4, <1>5

(* Nobody is welcomed too early, and nobody is forgotten. *)
LEMMA WelcomeStep ==
  ASSUME LedgerInv, LedgerInv', DoneInv, WelcomeInv, NEW c \in Clients,
         RowsLive(c), TopicStep(c),
         \/ \E i \in DOMAIN intents[c] : SendWelcomes(c, i)
         \/ /\ welcomes' = welcomes
            /\ pc'[c] = "posted" => pc[c] = "posted" /\ todo'[c] = todo[c]
            /\ \A d \in Clients \ {c} : pc'[d] = pc[d] /\ todo'[d] = todo[d]
  PROVE  WelcomeInv'
<1>0. IInv /\ IInv' /\ HistoryInv /\ FateInv /\ TypeOK /\ TypeOK'
  BY DEF LedgerInv, IInv
<1>g. welcomes \subseteq welcomes'
  BY <1>0, SendWelcomesWon
<1>w. ASSUME NEW d \in Clients, NEW i PROVE Welcomed(d, i) => Welcomed(d, i)'
  BY <1>g DEF Welcomed
<1>1. ASSUME NEW w \in welcomes' PROVE WonAt(w.src[1], w.src[2], w.seq)'
  <2>1. CASE w \in welcomes
    <3>1. PICK d \in Clients, i \in Nat, k \in Nat :
            d = w.src[1] /\ i = w.src[2] /\ k = w.seq
      BY <1>0, <2>1 DEF TypeOK
    <3>2. WonAt(d, i, k)  BY <2>1, <3>1 DEF WelcomeInv
    <3>3. WonAt(d, i, k)'  BY <1>0, <3>2, WonStays
    <3>4. QED  BY <3>1, <3>3
  <2>2. CASE w \notin welcomes
    <3>1. PICK i \in DOMAIN intents[c] : SendWelcomes(c, i)  BY <2>2
    <3>2. PICK k : k = intents[c][i].seq  OBVIOUS
    <3>3. WonAt(c, i, k) /\ w = [src |-> <<c, i>>, seq |-> k]
      BY <1>0, <2>2, <3>1, <3>2, SendWelcomesWon
    <3>4. WonAt(c, i, k)'  BY <1>0, <3>3, WonStays
    <3>5. w.src[1] = c /\ w.src[2] = i /\ w.seq = k  BY <3>3
    <3>6. QED  BY <3>4, <3>5
  <2>3. QED  BY <2>1, <2>2
<1>2. ASSUME NEW d \in Clients, pc'[d] = "posted", NEW i \in todo'[d],
             IsNext(d, i)'
      PROVE  Welcomed(d, i)'
  <2>1. CASE pc[d] = "posted" /\ todo'[d] = todo[d]
    <3>1. IsNext(d, i)  BY <1>2, <2>1 DEF IsNext
    <3>2. Welcomed(d, i)  BY <1>2, <2>1, <3>1 DEF WelcomeInv
    <3>3. QED  BY <1>w, <3>2
  <2>2. CASE d = c /\ \E j \in DOMAIN intents[c] : SendWelcomes(c, j)
    <3>1. PICK j \in DOMAIN intents[c] : SendWelcomes(c, j)  BY <2>2
    <3>2. /\ todo'[c] = todo[c] /\ IsNext(c, j)
          /\ [src |-> <<c, j>>, seq |-> intents[c][j].seq] \in welcomes'
      BY <1>0, <3>1, SendWelcomesWon
    <3>3. i = j
      <4>1. todo[c] \subseteq Nat  BY <1>0 DEF TypeOK
      <4>2. QED  BY <1>2, <2>2, <3>2, <4>1 DEF IsNext
    <3>4. QED  BY <2>2, <3>2, <3>3 DEF Welcomed
  <2>3. QED
    <3>1. ASSUME NEW j \in DOMAIN intents[c], SendWelcomes(c, j), d # c
          PROVE  pc[d] = "posted" /\ todo'[d] = todo[d]
      BY <1>0, <1>2, <3>1, SendWelcomesWon
    <3>2. QED  BY <1>2, <2>1, <2>2, <3>1
<1>3. ASSUME NEW d \in Clients, NEW i \in DOMAIN intents[d],
             intents'[d][i] = intents[d][i]
      PROVE  /\ intents'[d][i].state \in {"Published", "Committed"} =>
                  (intents'[d][i].post
                     <=> intents'[d][i].op.kind = "UpdateGroupMembership")
             /\ (/\ intents'[d][i].op.kind = "UpdateGroupMembership"
                 /\ intents'[d][i].state = "Processed" /\ MergedIn(Chain', d, i))
                => Welcomed(d, i)'
  <2>1. intents[d][i].state = "Processed" /\ MergedIn(Chain', d, i)
          => MergedIn(Chain, d, i)
    <3>1. CASE log' = log  BY <3>1, SameTopic
    <3>2. ASSUME NEW j \in DOMAIN intents[c], Arrives(c, j),
                 intents[d][i].state = "Processed", MergedIn(Chain', d, i)
          PROVE  MergedIn(Chain, d, i)
      <4>1. CASE Chain' = Chain  BY <3>2, <4>1
      <4>2. CASE Chain' = Append(Chain, CommitOfRow(c, j))
        <5>1. Chain \in Seq(Commit) /\ Len(Chain) \in Nat
              /\ DOMAIN Chain = 1..Len(Chain)
          BY <1>0, ChainType
        <5>2. PICK x \in Commit : x = CommitOfRow(c, j)
          BY <1>0, <3>2, ArrivesChain
        <5>3. PICK t : t = Chain' /\ t = Append(Chain, x)  BY <4>2, <5>2
        <5>4. PICK n \in DOMAIN t : t[n].src = <<d, i>>
          BY <3>2, <5>3 DEF MergedIn
        <5>5. x.src = <<c, j>>  BY <5>2 DEF CommitOfRow
        <5>6. intents[c][j].state = "Published"  BY <3>2 DEF Arrives
        <5>7. x.src # <<d, i>>  BY <3>2, <5>5, <5>6
        <5>8. /\ n \in 1..(Len(Chain) + 1) /\ t[Len(Chain) + 1] = x
              /\ \A k \in 1..Len(Chain) : t[k] = Chain[k]
          BY <5>1, <5>2, <5>3, <5>4, AppendFacts
        <5>9. n \in 1..Len(Chain)  BY <5>1, <5>4, <5>7, <5>8
        <5>10. QED  BY <5>1, <5>4, <5>8, <5>9 DEF MergedIn
      <4>3. QED  BY <1>0, <3>2, <4>1, <4>2, ArrivesChain
    <3>3. QED  BY <3>1, <3>2 DEF TopicStep, Still, Follows
  <2>2. QED  BY <1>3, <1>w, <2>1 DEF WelcomeInv
<1>4. ASSUME NEW i \in DOMAIN intents[c]
      PROVE  /\ intents'[c][i].state \in {"Published", "Committed"} =>
                  (intents'[c][i].post
                     <=> intents'[c][i].op.kind = "UpdateGroupMembership")
             /\ (/\ intents'[c][i].op.kind = "UpdateGroupMembership"
                 /\ intents'[c][i].state = "Processed" /\ MergedIn(Chain', c, i))
                => Welcomed(c, i)'
  <2> DEFINE old == intents[c][i]
             new == intents'[c][i]
  <2>0. old \in Row /\ RowLife(c, i) /\ new.op = old.op
    BY <1>0, RowType DEF RowsLive, RowLife
  <2>1. CASE RowStays(c, i)  BY <1>3, <2>1 DEF RowStays
  <2>2. CASE ~RowStays(c, i)
    <3>1. log' = log
      BY <2>2 DEF TopicStep, Still, Arrives, Follows, RowStays
    <3>2. Chain' = Chain  BY <3>1, SameTopic
    <3>3. ASSUME new.state = "Published" \/ new.state = "Committed"
          PROVE  new.post <=> new.op.kind = "UpdateGroupMembership"
      <4>1. CASE MadePayload(c, old, new)
        BY <2>0, <4>1 DEF MadePayload
      <4>2. ASSUME NEW pos \in DOMAIN log, Echoed(c, old, new, pos)
            PROVE  new.post <=> new.op.kind = "UpdateGroupMembership"
        <5>1. /\ pos \in Nat /\ old.state = "Published"
              /\ new = Resolved(old, log[pos], hist[c], pos)
          BY <1>0, <4>2, EnvelopeType DEF Echoed
        <5>2. new.post = old.post
          BY <2>0, <3>3, <5>1, ResolvedFields
        <5>3. old.post <=> old.op.kind = "UpdateGroupMembership"
          BY <5>1 DEF WelcomeInv
        <5>4. QED  BY <2>0, <5>2, <5>3
      <4>3. QED  BY <1>0, <2>0, <2>2, <3>3, <4>1, <4>2, RowStates
    <3>4. ASSUME new.op.kind = "UpdateGroupMembership",
                 new.state = "Processed", MergedIn(Chain', c, i)
          PROVE  Welcomed(c, i)'
      <4>1. CASE FoundDone(c, old, new)
        <5>1. PICK n \in DOMAIN Chain : Chain[n].src = <<c, i>>
          BY <3>2, <3>4 DEF MergedIn
        <5>2. Took(c, i, n)  BY <1>0, <5>1 DEF FateInv
        <5>3. QED  BY <4>1, <5>2 DEF FoundDone, Took
      <4>2. CASE Finished(c, i, old, new)
        <5>1. old.state = "Committed"  BY <4>2 DEF Finished
        <5>2. old.post  BY <2>0, <3>4, <5>1 DEF WelcomeInv
        <5>3. pc[c] = "posted" /\ IsNext(c, i) /\ i \in todo[c]
          BY <4>2, <5>2 DEF Finished, IsNext
        <5>4. Welcomed(c, i)  BY <5>3 DEF WelcomeInv
        <5>5. QED  BY <1>w, <5>4
      <4>3. QED  BY <1>0, <2>0, <2>2, <3>4, <4>1, <4>2, RowStates
    <3>5. QED  BY <3>3, <3>4
  <2>3. QED  BY <2>1, <2>2
<1>5. ASSUME NEW i \in DOMAIN intents'[c] \ DOMAIN intents[c]
      PROVE  intents'[c][i].state = "ToPublish"
  <2>1. PICK op \in Ops : intents'[c][i] = NewIntent(op)  BY DEF RowsLive
  <2>2. QED  BY <2>1 DEF NewIntent
<1>6. ASSUME NEW d \in Clients, NEW i \in DOMAIN intents'[d]
      PROVE  /\ intents'[d][i].state \in {"Published", "Committed"} =>
                  (intents'[d][i].post
                     <=> intents'[d][i].op.kind = "UpdateGroupMembership")
             /\ (/\ intents'[d][i].op.kind = "UpdateGroupMembership"
                 /\ intents'[d][i].state = "Processed" /\ MergedIn(Chain', d, i))
                => Welcomed(d, i)'
  <2>1. CASE d # c  BY <1>3, <2>1 DEF RowsLive
  <2>2. CASE d = c /\ i \in DOMAIN intents[c]  BY <1>4, <2>2
  <2>3. CASE d = c /\ i \notin DOMAIN intents[c]  BY <1>5, <2>3
  <2>4. QED  BY <2>1, <2>2, <2>3
<1>7. QED  BY <1>1, <1>2, <1>6 DEF WelcomeInv

(* What the welcomes rest on is an invariant too. *)
LEMMA WelcomeInvariance ==
  ASSUME "ack" \notin FaultKinds PROVE Spec => [](ReportInv /\ WelcomeInv)
<1>1. Init => WelcomeInv
  BY DEF Init, WelcomeInv
<1>2. ReportInv /\ ReportInv' /\ WelcomeInv /\ [Next]_vars => WelcomeInv'
  <2> SUFFICES ASSUME ReportInv, ReportInv', WelcomeInv, [Next]_vars
               PROVE  WelcomeInv'
    OBVIOUS
  <2>0. LedgerInv /\ LedgerInv' /\ DoneInv /\ IInv /\ IInv'
    BY DEF ReportInv, LedgerInv
  <2>1. ASSUME NEW c \in Clients,
               QueueStep(c) \/ SyncStep(c) \/ FaultStep(c) \/ StreamStep(c)
                 \/ Upgrade(c)
        PROVE  WelcomeInv'
    <3>1. RowsLive(c) /\ TopicStep(c)  BY <2>0, <2>1, StepLife
    <3>2. \/ \E i \in DOMAIN intents[c] : SendWelcomes(c, i)
          \/ /\ welcomes' = welcomes
             /\ pc'[c] = "posted" => pc[c] = "posted" /\ todo'[c] = todo[c]
             /\ \A d \in Clients \ {c} : pc'[d] = pc[d] /\ todo'[d] = todo[d]
      BY <2>0, <2>1, WelcomeMoves
    <3>3. QED  BY <2>0, <3>1, <3>2, WelcomeStep
  <2>2. CASE UNCHANGED vars
    BY <2>2
    DEF vars, WelcomeInv, WonAt, Wins, Canon, HighWater, Welcomed, IsNext,
        Chain, MergedIn
  <2>3. QED  BY <2>1, <2>2 DEF Next
<1>3. QED  BY ReportInvariance, <1>1, <1>2, PTL DEF Spec

(***************************************************************************)
(* An added member gets its welcome, and the right one: it is sent only    *)
(* for a commit the sender has merged, with that commit's sequence id, and *)
(* post_commit finishes the intent only after it went out.                 *)
(***************************************************************************)
THEOREM EveryAddWelcomed ==
  ASSUME "ack" \notin FaultKinds PROVE Spec => []WelcomeOfEveryAdd
<1>1. ASSUME ReportInv, WelcomeInv PROVE WelcomeOfEveryAdd
  <2>0. IInv /\ TypeOK  BY <1>1 DEF ReportInv, LedgerInv, IInv
  <2>1. ASSUME NEW w \in welcomes
        PROVE  /\ w.seq \in DOMAIN log
               /\ log[w.seq].src = w.src
               /\ log[w.seq].after = Append(Canon(w.seq - 1), CommitOf(log[w.seq]))
               /\ Prefix(log[w.seq].after, hist[w.src[1]])
    <3>1. PICK c \in Clients, i \in Nat, k \in Nat :
            w.src = <<c, i>> /\ c = w.src[1] /\ i = w.src[2] /\ k = w.seq
      <4>1. w.src \in Clients \X Nat /\ w.seq \in Nat  BY <2>0 DEF TypeOK
      <4>2. PICK c \in Clients, i \in Nat : w.src = <<c, i>>  BY <4>1
      <4>3. w.src[1] = c /\ w.src[2] = i  BY <4>2
      <4>4. QED  BY <4>1, <4>2, <4>3
    <3>2. WonAt(c, i, k)  BY <1>1, <3>1 DEF WelcomeInv
    <3>3. log[k].src = <<c, i>>  BY <3>2 DEF WonAt
    <3>4. /\ k \in DOMAIN log
          /\ log[k].after = Append(Canon(k - 1), CommitOf(log[k]))
          /\ Prefix(log[k].after, hist[c])
      BY <2>0, <3>2, WonMerged
    <3>5. QED  BY <3>1, <3>3, <3>4
  <2>2. ASSUME NEW c \in Clients, NEW i \in DOMAIN intents[c],
               intents[c][i].op.kind = "UpdateGroupMembership",
               intents[c][i].state = "Processed", MergedIn(hist[c], c, i)
        PROVE  \E w \in welcomes : w.src = <<c, i>>
    <3>1. MergedIn(Chain, c, i)
      <4>1. PICK k \in DOMAIN hist[c] : hist[c][k].src = <<c, i>>  BY <2>2 DEF MergedIn
      <4>2. k \in DOMAIN Chain /\ hist[c][k] = Chain[k]
        <5>1. DOMAIN hist[c] = 1..Len(hist[c])  BY <2>0, HistOfChain
        <5>2. QED  BY <2>0, <5>1, HistOfChain
      <4>3. QED  BY <4>1, <4>2 DEF MergedIn
    <3>2. QED  BY <1>1, <2>2, <3>1 DEF WelcomeInv, Welcomed
  <2>3. QED  BY <2>1, <2>2 DEF WelcomeOfEveryAdd
<1>2. QED  BY WelcomeInvariance, <1>1, PTL

-----------------------------------------------------------------------------
(* The local commit log *)

(* What c records when it has dealt with envelope pos. *)
Records(c, pos) ==
  /\ Processing(c, pos) /\ Handled(c, pos) /\ log' = log
  /\ \A d \in Clients \ {c} : clog'[d] = clog[d] /\ hist'[d] = hist[d]
  /\ \/ clog'[c] = clog[c] /\ hist'[c] = hist[c]
     \/ /\ clog'[c] = Append(clog[c], [kind |-> "Failed", seq |-> pos,
                                       at |-> hist[c]])
        /\ hist'[c] = hist[c]
     \/ clog'[c] = Append(clog[c], [kind |-> "Commit", seq |-> pos,
                                    at |-> hist'[c]])

(* Only processing an envelope of the topic writes to the log. *)
LEMMA ClogMoves ==
  ASSUME TypeOK, NEW c \in Clients,
         QueueStep(c) \/ SyncStep(c) \/ FaultStep(c) \/ StreamStep(c)
           \/ Upgrade(c)
  PROVE  \/ UNCHANGED <<clog, hist>>
         \/ \E pos \in DOMAIN log : Records(c, pos)
<1>0. /\ clog \in [Clients -> Seq(LogEntry)] /\ hist \in [Clients -> Seq(Commit)]
  BY DEF TypeOK
<1>1. ASSUME NEW env, NEW pos \in DOMAIN log, MarkFailed(c, env, pos)
      PROVE  /\ hist' = hist /\ \A d \in Clients \ {c} : clog'[d] = clog[d]
             /\ \/ clog'[c] = clog[c]
                \/ clog'[c] = Append(clog[c], [kind |-> "Failed", seq |-> pos,
                                               at |-> hist[c]])
  BY <1>0, <1>1 DEF MarkFailed
<1>2. ASSUME NEW env, NEW pos \in DOMAIN log, Merge(c, env, pos)
      PROVE  /\ \A d \in Clients \ {c} : clog'[d] = clog[d] /\ hist'[d] = hist[d]
             /\ clog'[c] = Append(clog[c], [kind |-> "Commit", seq |-> pos,
                                            at |-> hist'[c]])
  BY <1>0, <1>2 DEF Merge
<1>3. ASSUME NEW pos \in DOMAIN log, NEW i \in DOMAIN intents[c],
             ProcessOwn(c, pos, i)
      PROVE  UNCHANGED <<clog, hist>> \/ Records(c, pos)
  <2>1. /\ Processing(c, pos) /\ Handled(c, pos) /\ log' = log
        /\ \/ Merge(c, log[pos], pos) \/ UNCHANGED <<hist, clog>>
           \/ MarkFailed(c, log[pos], pos)
    BY <1>3 DEF ProcessOwn
  <2>2. QED  BY <1>1, <1>2, <2>1 DEF Records
<1>4. ASSUME NEW pos \in DOMAIN log, MergeExternal(c, pos)
      PROVE  Records(c, pos)
  BY <1>2, <1>4 DEF MergeExternal, Records
<1>5. ASSUME NEW pos \in DOMAIN log, RejectExternal(c, pos)
      PROVE  Records(c, pos)
  BY <1>1, <1>5 DEF RejectExternal, Records
<1>6. CASE QueueStep(c) \/ StreamStep(c) \/ FaultStep(c) \/ Upgrade(c)
  BY <1>6
  DEF QueueStep, Queue, QueueWithKeyUpdate, StreamStep, StreamOwn,
      StreamExternal, Upgrade, FaultStep, PublishError, SendUnacknowledged,
      SendFailed, SendWelcomesFailed, ReceiveFailed, Crash, RetryableError
<1>7. ASSUME NEW pos \in DOMAIN log,
             StoreExternal(c, pos) \/ SkipOwn(c, pos) \/ Pause(c, pos)
      PROVE  UNCHANGED <<clog, hist>>
  BY <1>7 DEF StoreExternal, SkipOwn, Pause
<1>8. CASE \/ SyncStart(c) \/ Receive(c) \/ PostCommitStart(c)
           \/ \E i \in DOMAIN intents[c] :
                \/ PublishNothing(c, i) \/ PublishIntent(c, i) \/ SendOk(c, i)
                \/ SendWelcomes(c, i) \/ FinishIntent(c, i)
  BY <1>8
  DEF SyncStart, Receive, PostCommitStart, PublishNothing, PublishIntent,
      SendOk, SendWelcomes, FinishIntent
<1>9. CASE SyncStep(c)
  BY <1>3, <1>4, <1>5, <1>7, <1>8, <1>9 DEF SyncStep, ProcessStep
<1>10. QED  BY <1>6, <1>9

(* A log one entry longer. *)
LEMMA EntryFacts ==
  ASSUME NEW s \in Seq(LogEntry), NEW e \in LogEntry, NEW t, t = Append(s, e)
  PROVE  /\ DOMAIN s = 1..Len(s) /\ Len(s) \in Nat
         /\ DOMAIN t = 1..(Len(s) + 1)
         /\ \A k \in 1..Len(s) : t[k] = s[k]
         /\ t[Len(s) + 1] = e
  OBVIOUS

(* What ClogOK says of the entries of c, in the next state. *)
EntriesNext(c) ==
  /\ LatestSuccess(clog'[c], hist'[c])
  /\ \A k \in DOMAIN clog'[c] :
       \E m \in Nat : /\ m = clog'[c][k].seq /\ m <= HighWater(c)'
                      /\ clog'[c][k].kind = "Commit" =>
                           clog'[c][k].at = Canon(m)'
  /\ \A j, k \in DOMAIN clog'[c] : j < k => clog'[c][j].seq < clog'[c][k].seq

(* A log that is not written to stays right. *)
LEMMA EntriesStay ==
  ASSUME IInv, IInv', ClogInv, NEW c \in Clients, TopicStep(c),
         NEW d \in Clients, clog'[d] = clog[d], hist'[d] = hist[d]
  PROVE  EntriesNext(d)
<1>0. ClogOK(d)  BY DEF ClogInv
<1>1. /\ HighWater(d) \in Nat /\ HighWater(d)' \in Nat
      /\ HighWater(d) <= HighWater(d)'
  BY StepGrows
<1>2. HighWater(d) \in 0..Len(log) /\ DOMAIN log = 1..Len(log) /\ Len(log) \in Nat
  BY ChainType, LogDomain DEF IInv, StateInv, PosInv
<1>3. ASSUME NEW k \in DOMAIN clog[d]
      PROVE  \E m \in Nat : /\ m = clog[d][k].seq /\ m <= HighWater(d)'
                            /\ clog[d][k].kind = "Commit" =>
                                 clog[d][k].at = Canon(m)'
  <2>1. PICK m \in 0..HighWater(d) :
          m = clog[d][k].seq
          /\ (clog[d][k].kind = "Commit" => clog[d][k].at = Canon(m))
    BY <1>0 DEF ClogOK
  <2>2. m \in Nat /\ m <= HighWater(d)'  BY <1>1, <2>1
  <2>3. Canon(m)' = Canon(m)
    <3>1. CASE m = 0  BY <3>1 DEF Canon
    <3>2. CASE m # 0
      <4>1. m \in DOMAIN log  BY <1>2, <2>1, <3>2
      <4>2. QED  BY <4>1, StepGrows
    <3>3. QED  BY <3>1, <3>2
  <2>4. QED  BY <2>1, <2>2, <2>3
<1>4. QED  BY <1>0, <1>3 DEF ClogOK, EntriesNext

(* An entry for the envelope just dealt with goes to the end. *)
LEMMA EntryAdded ==
  ASSUME IInv, IInv', ClogInv, NEW c \in Clients, TopicStep(c),
         NEW pos \in DOMAIN log, Processing(c, pos), Handled(c, pos),
         NEW e \in LogEntry, clog'[c] = Append(clog[c], e), e.seq = pos,
         \/ e.kind = "Failed" /\ hist'[c] = hist[c]
         \/ e.kind = "Commit" /\ e.at = hist'[c]
  PROVE  EntriesNext(c)
<1>0. TypeOK /\ StateInv /\ LoopInv /\ ClogOK(c)
  BY DEF IInv, ClogInv
<1>1. PICK s \in Seq(LogEntry) : s = clog[c]  BY <1>0 DEF TypeOK
<1>2. PICK t : t = clog'[c] /\ t = Append(s, e)  BY <1>1
<1>3. PICK n \in Nat :
        /\ n = Len(s) /\ DOMAIN s = 1..n /\ DOMAIN t = 1..(n + 1)
        /\ \A k \in 1..n : t[k] = s[k]
        /\ t[n + 1] = e
  BY <1>1, <1>2, EntryFacts
<1>4. /\ HighWater(c)' = pos /\ pos = HighWater(c) + 1
      /\ pos \in Nat /\ HighWater(c) \in Nat
      /\ pos \in 1..Len(log) /\ HighWater(c) \in 0..Len(log)
  BY <1>0, AtPos, HandledEffect, CursorType, EnvelopeType
<1>5. hist'[c] = Canon(pos)'
  <2>1. hist'[c] = Canon(HighWater(c))'  BY DEF IInv, StateInv, PosInv
  <2>2. QED  BY <1>4, <2>1 DEF Canon
<1>6. ASSUME NEW k \in 1..n
      PROVE  \E m \in Nat : /\ m = s[k].seq /\ m < pos
                            /\ s[k].kind = "Commit" => s[k].at = Canon(m)'
  <2>1. PICK m \in 0..HighWater(c) :
          m = s[k].seq /\ (s[k].kind = "Commit" => s[k].at = Canon(m))
    BY <1>0, <1>1, <1>3 DEF ClogOK
  <2>2. m \in Nat /\ m < pos /\ m <= Len(log)  BY <1>4, <2>1
  <2>3. Canon(m)' = Canon(m)
    <3>1. CASE m = 0  BY <3>1 DEF Canon
    <3>2. CASE m # 0
      <4>1. m \in DOMAIN log  BY <1>0, <1>4, <2>1, <3>2, LogDomain
      <4>2. QED  BY <4>1, StepGrows
    <3>3. QED  BY <3>1, <3>2
  <2>4. QED  BY <2>1, <2>2, <2>3
<1>7. ASSUME NEW k \in DOMAIN t
      PROVE  \E m \in Nat : /\ m = t[k].seq /\ m <= pos
                            /\ t[k].kind = "Commit" => t[k].at = Canon(m)'
  <2>1. CASE k \in 1..n
    <3>1. PICK m \in Nat : /\ m = s[k].seq /\ m < pos
                           /\ s[k].kind = "Commit" => s[k].at = Canon(m)'
      BY <1>6, <2>1
    <3>2. t[k] = s[k]  BY <1>3, <2>1
    <3>3. QED  BY <1>4, <3>1, <3>2
  <2>2. CASE k = n + 1
    <3>1. t[k] = e  BY <1>3, <2>2
    <3>2. e.kind = "Commit" => e.at = Canon(pos)'  BY <1>5
    <3>3. QED  BY <1>4, <3>1, <3>2
  <2>3. QED  BY <1>3, <2>1, <2>2
<1>8. ASSUME NEW j \in DOMAIN t, NEW k \in DOMAIN t, j < k
      PROVE  t[j].seq < t[k].seq
  <2>1. j \in 1..n  BY <1>3, <1>8
  <2>2. CASE k \in 1..n
    BY <1>0, <1>1, <1>3, <1>8, <2>1, <2>2 DEF ClogOK
  <2>3. CASE k = n + 1
    <3>1. PICK m \in Nat : m = s[j].seq /\ m < pos  BY <1>6, <2>1
    <3>2. t[j] = s[j] /\ t[k] = e  BY <1>3, <2>1, <2>3
    <3>3. QED  BY <3>1, <3>2
  <2>4. QED  BY <1>3, <2>2, <2>3
<1>9. LatestSuccess(t, hist'[c])
  <2>1. CASE e.kind = "Commit" /\ e.at = hist'[c]
    <3>1. n + 1 \in DOMAIN t /\ \A j \in DOMAIN t : ~(j > n + 1)  BY <1>3
    <3>2. QED  BY <1>3, <2>1, <3>1 DEF LatestSuccess
  <2>2. CASE e.kind = "Failed" /\ hist'[c] = hist[c]
    <3>1. PICK k \in DOMAIN s :
            /\ s[k].kind # "Failed" /\ s[k].at = hist[c]
            /\ \A j \in DOMAIN s : j > k => s[j].kind = "Failed"
      BY <1>0, <1>1 DEF ClogOK, LatestSuccess
    <3>2. k \in DOMAIN t /\ t[k] = s[k]  BY <1>3, <3>1
    <3>3. ASSUME NEW j \in DOMAIN t, j > k PROVE t[j].kind = "Failed"
      <4>1. CASE j \in 1..n  BY <1>3, <3>1, <3>3, <4>1
      <4>2. CASE j = n + 1  BY <1>3, <2>2, <4>2
      <4>3. QED  BY <1>3, <4>1, <4>2
    <3>4. QED  BY <2>2, <3>1, <3>2, <3>3 DEF LatestSuccess
  <2>3. QED  BY <2>1, <2>2
<1>10. QED  BY <1>2, <1>4, <1>7, <1>8, <1>9 DEF EntriesNext

(* The commit log keeps telling the truth. *)
LEMMA ClogStep ==
  ASSUME IInv, IInv', ClogInv, NEW c \in Clients, TopicStep(c),
         \/ UNCHANGED <<clog, hist>>
         \/ \E pos \in DOMAIN log : Records(c, pos)
  PROVE  ClogInv'
<1>0. TypeOK /\ StateInv /\ LoopInv /\ TypeOK'
  BY DEF IInv
<1>1. ASSUME NEW d \in Clients PROVE EntriesNext(d)
  <2>1. CASE UNCHANGED <<clog, hist>>  BY <2>1, EntriesStay
  <2>2. ASSUME NEW pos \in DOMAIN log, Records(c, pos)
        PROVE  EntriesNext(d)
    <3>0. Processing(c, pos) /\ Handled(c, pos) /\ pos \in Nat
      BY <1>0, <2>2, EnvelopeType DEF Records
    <3>1. CASE d # c \/ (clog'[c] = clog[c] /\ hist'[c] = hist[c])
      <4>1. clog'[d] = clog[d] /\ hist'[d] = hist[d]  BY <2>2, <3>1 DEF Records
      <4>2. QED  BY <4>1, EntriesStay
    <3>2. ASSUME d = c,
                 \/ /\ clog'[c] = Append(clog[c], [kind |-> "Failed", seq |-> pos,
                                                   at |-> hist[c]])
                    /\ hist'[c] = hist[c]
                 \/ clog'[c] = Append(clog[c], [kind |-> "Commit", seq |-> pos,
                                                at |-> hist'[c]])
          PROVE  EntriesNext(c)
      <4>1. hist[c] \in Seq(Commit) /\ hist'[c] \in Seq(Commit)
        BY <1>0 DEF TypeOK
      <4>2. PICK e \in LogEntry :
              /\ clog'[c] = Append(clog[c], e) /\ e.seq = pos
              /\ \/ e.kind = "Failed" /\ hist'[c] = hist[c]
                 \/ e.kind = "Commit" /\ e.at = hist'[c]
        <5>1. CASE /\ clog'[c] = Append(clog[c], [kind |-> "Failed",
                                          seq |-> pos, at |-> hist[c]])
                   /\ hist'[c] = hist[c]
          <6>1. [kind |-> "Failed", seq |-> pos, at |-> hist[c]] \in LogEntry
            BY <3>0, <4>1 DEF LogEntry
          <6>2. QED  BY <5>1, <6>1
        <5>2. CASE clog'[c] = Append(clog[c], [kind |-> "Commit", seq |-> pos,
                                               at |-> hist'[c]])
          <6>1. [kind |-> "Commit", seq |-> pos, at |-> hist'[c]] \in LogEntry
            BY <3>0, <4>1 DEF LogEntry
          <6>2. QED  BY <5>2, <6>1
        <5>3. QED  BY <3>2, <5>1, <5>2
      <4>3. QED  BY <3>0, <4>2, EntryAdded
    <3>3. QED  BY <2>2, <3>1, <3>2 DEF Records
  <2>3. QED  BY <2>1, <2>2
<1>2. ASSUME NEW d \in Clients PROVE ClogOK(d)'
  <2>0. EntriesNext(d)  BY <1>1
  <2>1. ASSUME NEW k \in DOMAIN clog'[d]
        PROVE  (/\ clog[d][k].seq \in 0..HighWater(d)
                /\ clog[d][k].kind = "Commit" =>
                     clog[d][k].at = Canon(clog[d][k].seq))'
    <3>1. PICK m \in Nat : /\ m = clog'[d][k].seq /\ m <= HighWater(d)'
                           /\ clog'[d][k].kind = "Commit" =>
                                clog'[d][k].at = Canon(m)'
      BY <2>0 DEF EntriesNext
    <3>2. HighWater(d)' \in Nat  BY StepGrows
    <3>3. Canon(m)' = Canon(clog[d][k].seq)'  BY <3>1 DEF Canon
    <3>4. QED  BY <3>1, <3>2, <3>3
  <2>2. LatestSuccess(clog[d], hist[d])'  BY <2>0 DEF EntriesNext, LatestSuccess
  <2>3. QED  BY <2>0, <2>1, <2>2 DEF ClogOK, EntriesNext
<1>3. QED  BY <1>2 DEF ClogInv

(***************************************************************************)
(* Nothing that fork detection reads speaks of a fork that did not happen: *)
(* each commit log is in the order of the topic and ends in its client's   *)
(* state, and the successes two clients recorded for one commit agree.     *)
(***************************************************************************)
THEOREM NoFalseForkEvidence ==
  ASSUME "ack" \notin FaultKinds PROVE Spec => []NoForkEvidence
<1>1. Init /\ TypeOK => ClogInv
  <2> SUFFICES ASSUME Init, TypeOK, NEW c \in Clients PROVE ClogOK(c)
    BY DEF ClogInv
  <2>1. PICK e : /\ clog[c] = <<e>> /\ e.kind \in {"GroupCreation", "Welcome"}
                 /\ e.seq = 0 /\ e.at = << >>
    BY DEF Init
  <2>2. DOMAIN clog[c] = {1} /\ clog[c][1] = e  BY <2>1
  <2>3. hist[c] = << >> /\ HighWater(c) = 0
    BY DEF Init, HighWater
  <2>4. LatestSuccess(clog[c], hist[c])  BY <2>1, <2>2, <2>3 DEF LatestSuccess
  <2>5. QED  BY <2>1, <2>2, <2>3, <2>4 DEF ClogOK
<1>2. LedgerInv /\ LedgerInv' /\ ClogInv /\ [Next]_vars => ClogInv'
  <2> SUFFICES ASSUME LedgerInv, LedgerInv', ClogInv, [Next]_vars
               PROVE  ClogInv'
    OBVIOUS
  <2>0. IInv /\ IInv' /\ TypeOK  BY DEF LedgerInv, IInv
  <2>1. ASSUME NEW c \in Clients,
               QueueStep(c) \/ SyncStep(c) \/ FaultStep(c) \/ StreamStep(c)
                 \/ Upgrade(c)
        PROVE  ClogInv'
    <3>1. TopicStep(c)  BY <2>0, <2>1, StepLife
    <3>2. UNCHANGED <<clog, hist>> \/ \E pos \in DOMAIN log : Records(c, pos)
      BY <2>0, <2>1, ClogMoves
    <3>3. QED  BY <2>0, <3>1, <3>2, ClogStep
  <2>2. CASE UNCHANGED vars
    BY <2>2
    DEF vars, ClogInv, ClogOK, Canon, HighWater, LatestSuccess
  <2>3. QED  BY <2>1, <2>2 DEF Next
<1>3. ASSUME IInv, ClogInv PROVE NoForkEvidence
  <2>1. ASSUME NEW c \in Clients PROVE LastApplied(clog[c]) = hist[c]
    <3> DEFINE Applied == {k \in DOMAIN clog[c] : clog[c][k].kind # "Failed"}
    <3>1. PICK k \in Applied :
            /\ clog[c][k].at = hist[c]
            /\ \A j \in DOMAIN clog[c] : j > k => clog[c][j].kind = "Failed"
      BY <1>3 DEF ClogInv, ClogOK, LatestSuccess
    <3>2. Applied \subseteq Nat
      BY <1>3 DEF IInv, TypeOK
    <3>3. \A j \in Applied : j <= k  BY <3>1, <3>2
    <3>4. (CHOOSE m \in Applied : \A j \in Applied : j <= m) = k
      BY <3>1, <3>2, <3>3
    <3>5. QED  BY <3>1, <3>4 DEF LastApplied
  <2>2. QED  BY <1>3, <2>1 DEF NoForkEvidence, ClogInv, ClogOK
<1>4. LedgerInv => IInv /\ TypeOK  BY DEF LedgerInv, IInv
<1>5. QED  BY LedgerInvariance, <1>1, <1>2, <1>3, <1>4, PTL DEF Spec

-----------------------------------------------------------------------------
(* Messages *)

(* Whatever moves a cursor past an envelope has stored it, if it could. *)
LEMMA InboxMoves ==
  ASSUME IInv, NEW c \in Clients,
         QueueStep(c) \/ SyncStep(c) \/ FaultStep(c) \/ StreamStep(c)
           \/ Upgrade(c)
  PROVE  /\ \A d \in Clients : inbox[d] \subseteq inbox'[d]
         /\ \/ cursor' = cursor
            \/ \E pos \in DOMAIN log :
                 /\ Processing(c, pos) /\ Handled(c, pos) /\ log' = log
                 /\ \/ IsCommit(log[pos]) \/ Sender(log[pos]) = c
                    \/ ~Readable(log[pos], hist[c])
                    \/ log[pos].src \in inbox'[c]
<1> DEFINE Dealt(pos) == /\ Processing(c, pos) /\ Handled(c, pos) /\ log' = log
                         /\ \/ IsCommit(log[pos]) \/ Sender(log[pos]) = c
                            \/ ~Readable(log[pos], hist[c])
                            \/ log[pos].src \in inbox'[c]
<1>0. inbox \in [Clients -> SUBSET (Clients \X Nat)] /\ StateInv /\ TypeOK
  BY DEF IInv, TypeOK
<1>1. ASSUME NEW pos \in DOMAIN log, StoreExternal(c, pos)
      PROVE  /\ \A d \in Clients : inbox[d] \subseteq inbox'[d]
             /\ Dealt(pos)
  BY <1>0, <1>1 DEF StoreExternal
<1>2. ASSUME NEW pos \in DOMAIN log, NEW i \in DOMAIN intents[c],
             ProcessOwn(c, pos, i)
      PROVE  inbox' = inbox /\ Dealt(pos)
  <2>1. /\ Processing(c, pos) /\ Handled(c, pos) /\ log' = log /\ inbox' = inbox
        /\ intents[c][i].hash = log[pos].id
    BY <1>2 DEF ProcessOwn, FindByHash
  <2>2. log[pos].src = <<c, i>>  BY <1>0, <2>1 DEF StateInv, RowInv
  <2>3. Sender(log[pos]) = c  BY <2>2 DEF Sender
  <2>4. QED  BY <2>1, <2>3
<1>3. ASSUME NEW pos \in DOMAIN log,
             MergeExternal(c, pos) \/ SkipOwn(c, pos) \/ RejectExternal(c, pos)
      PROVE  inbox' = inbox /\ Dealt(pos)
  BY <1>3 DEF MergeExternal, SkipOwn, Skips, RejectExternal
<1>4. CASE QueueStep(c) \/ FaultStep(c) \/ Upgrade(c)
  <2>1. inbox' = inbox /\ cursor' = cursor
    BY <1>4
    DEF QueueStep, Queue, QueueWithKeyUpdate, Upgrade, FaultStep,
        PublishError, SendUnacknowledged, SendFailed, SendWelcomesFailed,
        ReceiveFailed, Crash, RetryableError
  <2>2. QED  BY <2>1
<1>5. CASE StreamStep(c)
  BY <1>0, <1>5 DEF StreamStep, StreamOwn, StreamExternal
<1>6. CASE \/ SyncStart(c) \/ Receive(c) \/ PostCommitStart(c)
           \/ \E i \in DOMAIN intents[c] :
                \/ PublishNothing(c, i) \/ PublishIntent(c, i) \/ SendOk(c, i)
                \/ SendWelcomes(c, i) \/ FinishIntent(c, i)
           \/ \E pos \in DOMAIN log : Pause(c, pos)
  <2>1. inbox' = inbox /\ cursor' = cursor
    BY <1>6
    DEF SyncStart, Receive, PostCommitStart, PublishNothing, PublishIntent,
        SendOk, SendWelcomes, FinishIntent, Pause
  <2>2. QED  BY <2>1
<1>7. CASE SyncStep(c)
  <2>1. CASE \E pos \in DOMAIN log :
               \/ \E i \in DOMAIN intents[c] : ProcessOwn(c, pos, i)
               \/ MergeExternal(c, pos) \/ SkipOwn(c, pos)
               \/ RejectExternal(c, pos) \/ StoreExternal(c, pos)
    <3>1. PICK pos \in DOMAIN log :
               \/ \E i \in DOMAIN intents[c] : ProcessOwn(c, pos, i)
               \/ MergeExternal(c, pos) \/ SkipOwn(c, pos)
               \/ RejectExternal(c, pos) \/ StoreExternal(c, pos)
      BY <2>1
    <3>2. Dealt(pos) /\ \A d \in Clients : inbox[d] \subseteq inbox'[d]
      BY <1>1, <1>2, <1>3, <3>1
    <3>3. QED  BY <3>2
  <2>2. QED  BY <1>6, <1>7, <2>1 DEF SyncStep, ProcessStep
<1>8. QED  BY <1>4, <1>5, <1>7

(* The epoch check of a sender is as strict as what readers can decrypt. *)
LEMMA NotStaleReadable ==
  ASSUME IInv, NEW c \in Clients, NEW pos \in DOMAIN log, Processing(c, pos),
         ~IsCommit(log[pos]), ~Stale(log[pos], hist[c])
  PROVE  ReadableThere(pos)
<1>0. TypeOK /\ StateInv /\ LoopInv /\ ChainInv  BY DEF IInv, StateInv
<1>1. /\ pos = HighWater(c) + 1 /\ pos \in 1..Len(log)
      /\ HighWater(c) \in 0..Len(log) /\ hist[c] = Canon(pos - 1)
      /\ pos - 1 \in 0..Len(log)
  BY <1>0, AtPos
<1>2. PICK j \in 0..(pos - 1) : log[pos].base = Canon(j)
  BY <1>0 DEF StateInv, LogInv
<1>3. j \in 0..Len(log) /\ j <= pos - 1  BY <1>1, <1>2
<1>4. Prefix(log[pos].base, Canon(pos - 1))
  BY <1>0, <1>1, <1>2, <1>3 DEF ChainInv
<1>5. PICK m \in Nat, n \in Nat :
        m = Epoch(log[pos].base) /\ n = Epoch(Canon(pos - 1))
  BY <1>0, <1>1, <1>2, <1>3, EarlierEpoch
<1>6. ~(m + MaxPast <= n)  BY <1>1, <1>5 DEF Stale, OldEpoch
<1>7. n - m <= MaxPast  BY <1>6, ConstantsAssumption
<1>8. QED  BY <1>4, <1>5, <1>7 DEF ReadableThere, Readable

(* What is in the topic stays readable for those who come to it. *)
LEMMA ReadableStays ==
  ASSUME IInv, IInv', NEW c \in Clients, TopicStep(c), NEW k \in DOMAIN log
  PROVE  ReadableThere(k)' <=> ReadableThere(k)
<1>1. log'[k] = log[k]  BY StepGrows
<1>2. k \in Nat /\ k # 0 /\ DOMAIN log = 1..Len(log) /\ Len(log) \in Nat
  BY LogDomain, ChainType, EnvelopeType DEF IInv
<1>3. PICK m : m = k - 1  OBVIOUS
<1>4. Canon(m)' = Canon(m)
  <2>1. CASE m = 0  BY <2>1 DEF Canon
  <2>2. CASE m # 0
    <3>1. m \in DOMAIN log  BY <1>2, <1>3, <2>2
    <3>2. QED  BY <3>1, StepGrows
  <2>3. QED  BY <2>1, <2>2
<1>5. Canon(k - 1)' = Canon(m)' /\ Canon(k - 1) = Canon(m)
  BY <1>3 DEF Canon
<1>6. QED
  BY <1>1, <1>4, <1>5
  DEF ReadableThere, Readable, IsCommit, Prefix, Epoch

(* What InboxInv says of the rows of c, in the next state. *)
SentNext(c, i) ==
  LET row == intents'[c][i]
  IN (row.op.kind = "SendMessage" /\ row.state \in {"Committed", "Processed"})
     => \E k \in DOMAIN log' : /\ k = row.seq /\ log'[k].src = <<c, i>>
                               /\ ReadableThere(k)'

(* A message row that does not move says what it said. *)
LEMMA SentStays ==
  ASSUME IInv, IInv', InboxInv, NEW c \in Clients, TopicStep(c),
         NEW d \in Clients, NEW i \in DOMAIN intents[d], NEW row \in Row,
         row = intents'[d][i], row.op = intents[d][i].op,
         row.seq = intents[d][i].seq,
         intents[d][i].state \in {"Committed", "Processed"}
  PROVE  SentNext(d, i)
<1>1. SUFFICES ASSUME row.op.kind = "SendMessage" PROVE SentNext(d, i)
  BY DEF SentNext
<1>2. PICK k \in DOMAIN log :
        k = intents[d][i].seq /\ log[k].src = <<d, i>> /\ ReadableThere(k)
  BY <1>1 DEF InboxInv
<1>3. k \in DOMAIN log' /\ log'[k] = log[k] /\ ReadableThere(k)'
  BY <1>2, StepGrows, ReadableStays
<1>4. QED  BY <1>2, <1>3 DEF SentNext

(* The rows of a step without streams. *)
LEMMA SentStep ==
  ASSUME IInv, IInv', InboxInv, Streaming = FALSE, NEW c \in Clients,
         RowsLive(c), TopicStep(c), NEW d \in Clients,
         NEW i \in DOMAIN intents'[d]
  PROVE  SentNext(d, i)
<1>0. TypeOK /\ TypeOK' /\ StateInv /\ intents'[d][i] \in Row
  <2>1. TypeOK /\ TypeOK' /\ StateInv  BY DEF IInv
  <2>2. intents'[d] \in Seq(Row)  BY <2>1 DEF TypeOK
  <2>3. QED  BY <2>1, <2>2
<1>1. CASE i \in DOMAIN intents[d] /\ intents'[d][i] = intents[d][i]
  <2>1. CASE intents[d][i].state \in {"Committed", "Processed"}
    BY <1>0, <1>1, <2>1, SentStays
  <2>2. CASE intents[d][i].state \notin {"Committed", "Processed"}
    BY <1>1, <2>2 DEF SentNext
  <2>3. QED  BY <2>1, <2>2
<1>2. CASE d = c /\ i \notin DOMAIN intents[c]
  <2>1. PICK op \in Ops : intents'[d][i] = NewIntent(op)
    BY <1>2 DEF RowsLive
  <2>2. intents'[d][i].state = "ToPublish"  BY <2>1 DEF NewIntent
  <2>3. QED  BY <2>2 DEF SentNext
<1>3. ASSUME d = c, i \in DOMAIN intents[c], ~RowStays(c, i)
      PROVE  SentNext(c, i)
  <2> DEFINE old == intents[c][i]
             new == intents'[c][i]
  <2>0. old \in Row /\ new \in Row /\ RowLife(c, i) /\ new.op = old.op
    BY <1>0, <1>3, RowType DEF RowsLive, RowLife
  <2>1. SUFFICES ASSUME new.op.kind = "SendMessage",
                        new.state \in {"Committed", "Processed"}
                 PROVE  SentNext(c, i)
    BY DEF SentNext
  <2>2. ASSUME NEW pos \in DOMAIN log, Echoed(c, old, new, pos)
        PROVE  SentNext(c, i)
    <3>1. /\ old.state = "Published" /\ log[pos].id = old.hash
          /\ new = Resolved(old, log[pos], hist[c], pos)
          /\ Processing(c, pos) /\ pos \in Nat
      BY <1>0, <2>2, EnvelopeType DEF Echoed
    <3>2. log[pos].src = <<c, i>> /\ log[pos].op = old.op
      BY <1>0, <1>3, <3>1 DEF StateInv, RowInv
    <3>3. ~IsCommit(log[pos])
      BY <2>0, <2>1, <3>2 DEF IsCommit, CommitKinds
    <3>4. ~Stale(log[pos], hist[c]) /\ new.seq = pos
      BY <2>0, <2>1, <3>1, ResolvedFields
    <3>5. ReadableThere(pos)  BY <3>1, <3>3, <3>4, NotStaleReadable
    <3>6. pos \in DOMAIN log' /\ log'[pos] = log[pos] /\ ReadableThere(pos)'
      BY <3>5, StepGrows, ReadableStays
    <3>7. QED  BY <3>2, <3>4, <3>6 DEF SentNext
  <2>3. CASE FoundDone(c, old, new)
    BY <2>0, <2>1, <2>3 DEF FoundDone, NoChange
  <2>4. CASE Finished(c, i, old, new)
    <3>1. old.state = "Committed" /\ new.seq = old.seq
      BY <2>0, <2>4, SetterFields DEF Finished
    <3>2. QED  BY <1>3, <2>0, <3>1, SentStays
  <2>5. QED  BY <1>0, <1>3, <2>0, <2>1, <2>2, <2>3, <2>4, RowStates
<1>4. CASE d # c  BY <1>1, <1>4 DEF RowsLive
<1>5. QED  BY <1>1, <1>2, <1>3, <1>4 DEF RowStays

(* InboxInv is preserved when no stream is open. *)
LEMMA InboxStep ==
  ASSUME IInv, IInv', InboxInv, Streaming = FALSE, NEW c \in Clients,
         RowsLive(c), TopicStep(c),
         /\ \A d \in Clients : inbox[d] \subseteq inbox'[d]
         /\ \/ cursor' = cursor
            \/ \E pos \in DOMAIN log :
                 /\ Processing(c, pos) /\ Handled(c, pos) /\ log' = log
                 /\ \/ IsCommit(log[pos]) \/ Sender(log[pos]) = c
                    \/ ~Readable(log[pos], hist[c])
                    \/ log[pos].src \in inbox'[c]
  PROVE  InboxInv'
<1>0. TypeOK /\ StateInv /\ LoopInv /\ DOMAIN log = 1..Len(log) /\ Len(log) \in Nat
  BY LogDomain, ChainType DEF IInv
<1>1. ASSUME NEW d \in Clients, NEW k \in 1..HighWater(d),
             ReadableThere(k)', Sender(log'[k]) # d
      PROVE  log'[k].src \in inbox'[d]
  <2>1. HighWater(d) \in 0..Len(log)  BY <1>0 DEF StateInv, PosInv
  <2>2. k \in DOMAIN log  BY <1>0, <2>1
  <2>3. log'[k] = log[k] /\ ReadableThere(k)
    BY <1>1, <2>2, StepGrows, ReadableStays
  <2>4. log[k].src \in inbox[d]  BY <1>1, <2>3 DEF InboxInv
  <2>5. QED  BY <2>3, <2>4
<1>2. ASSUME NEW pos \in DOMAIN log, Processing(c, pos), Handled(c, pos),
             log' = log,
             \/ IsCommit(log[pos]) \/ Sender(log[pos]) = c
             \/ ~Readable(log[pos], hist[c]) \/ log[pos].src \in inbox'[c],
             ReadableThere(pos)', Sender(log'[pos]) # c
      PROVE  log'[pos].src \in inbox'[c]
  <2>1. hist[c] = Canon(pos - 1)  BY <1>0, <1>2, AtPos
  <2>2. ReadableThere(pos)  BY <1>2, ReadableStays
  <2>3. QED  BY <1>2, <2>1, <2>2 DEF ReadableThere
<1>3. ASSUME NEW d \in Clients, NEW k \in 1..HighWater(d)',
             ReadableThere(k)', Sender(log'[k]) # d
      PROVE  log'[k].src \in inbox'[d]
  <2>1. CASE cursor' = cursor
    <3>1. HighWater(d)' = HighWater(d)  BY <2>1 DEF HighWater
    <3>2. QED  BY <1>1, <1>3, <3>1
  <2>2. ASSUME NEW pos \in DOMAIN log, Processing(c, pos), Handled(c, pos),
               log' = log,
               \/ IsCommit(log[pos]) \/ Sender(log[pos]) = c
               \/ ~Readable(log[pos], hist[c]) \/ log[pos].src \in inbox'[c]
        PROVE  log'[k].src \in inbox'[d]
    <3>1. /\ pos = HighWater(c) + 1 /\ HighWater(c)' = pos
          /\ pos \in Nat /\ HighWater(c) \in Nat
      BY <1>0, <2>2, AtPos, HandledEffect, CursorType, EnvelopeType
    <3>2. CASE d = c
      <4>1. k \in 1..HighWater(c) \/ k = pos  BY <1>3, <3>1, <3>2
      <4>2. CASE k = pos
        BY <1>2, <1>3, <2>2, <3>2, <4>2 DEF ReadableThere, IsCommit, Canon,
                                            Readable
      <4>3. QED  BY <1>1, <1>3, <3>2, <4>1, <4>2
    <3>3. CASE d # c
      <4>1. HighWater(d)' = HighWater(d)
        BY <1>0, <2>2, <3>3, HandledEffect DEF HighWater
      <4>2. QED  BY <1>1, <1>3, <4>1
    <3>4. QED  BY <3>2, <3>3
  <2>3. QED  BY <2>1, <2>2
<1>4. ASSUME NEW d \in Clients, NEW i \in DOMAIN intents'[d]
      PROVE  (LET row == intents[d][i]
              IN (/\ row.op.kind = "SendMessage"
                  /\ row.state \in {"Committed", "Processed"})
                 => /\ row.seq \in DOMAIN log /\ log[row.seq].src = <<d, i>>
                    /\ ReadableThere(row.seq))'
  <2>1. SUFFICES ASSUME intents'[d][i].op.kind = "SendMessage",
                        intents'[d][i].state \in {"Committed", "Processed"}
                 PROVE  (/\ intents[d][i].seq \in DOMAIN log
                         /\ log[intents[d][i].seq].src = <<d, i>>
                         /\ ReadableThere(intents[d][i].seq))'
    OBVIOUS
  <2>2. PICK k \in DOMAIN log' : /\ k = intents'[d][i].seq
                                 /\ log'[k].src = <<d, i>>
                                 /\ ReadableThere(k)'
    BY <2>1, SentStep DEF SentNext
  <2>3. ReadableThere(k)' => ReadableThere(intents[d][i].seq)'
    BY <2>2 DEF ReadableThere, Readable, Canon, IsCommit
  <2>4. QED  BY <2>2, <2>3
<1>5. QED  BY <1>3, <1>4 DEF InboxInv, Sender

(***************************************************************************)
(* A message its sender's client shows as published has been stored by     *)
(* every member that has read past it, when messages are read by syncs: a  *)
(* stream resolves a row against a state that may be behind the message.   *)
(***************************************************************************)
THEOREM PublishedReadable ==
  ASSUME "ack" \notin FaultKinds, Streaming = FALSE
  PROVE  Spec => []PublishedIsReadable
<1>1. Init => InboxInv
  BY DEF Init, InboxInv, HighWater
<1>2. LedgerInv /\ LedgerInv' /\ InboxInv /\ [Next]_vars => InboxInv'
  <2> SUFFICES ASSUME LedgerInv, LedgerInv', InboxInv, [Next]_vars
               PROVE  InboxInv'
    OBVIOUS
  <2>0. IInv /\ IInv'  BY DEF LedgerInv
  <2>1. ASSUME NEW c \in Clients,
               QueueStep(c) \/ SyncStep(c) \/ FaultStep(c) \/ StreamStep(c)
                 \/ Upgrade(c)
        PROVE  InboxInv'
    <3>1. RowsLive(c) /\ TopicStep(c)  BY <2>0, <2>1, StepLife
    <3>2. /\ \A d \in Clients : inbox[d] \subseteq inbox'[d]
          /\ \/ cursor' = cursor
             \/ \E pos \in DOMAIN log :
                  /\ Processing(c, pos) /\ Handled(c, pos) /\ log' = log
                  /\ \/ IsCommit(log[pos]) \/ Sender(log[pos]) = c
                     \/ ~Readable(log[pos], hist[c])
                     \/ log[pos].src \in inbox'[c]
      BY <2>0, <2>1, InboxMoves
    <3>3. QED  BY <2>0, <3>1, <3>2, InboxStep
  <2>2. CASE UNCHANGED vars
    BY <2>2
    DEF vars, InboxInv, HighWater, ReadableThere, Readable, Canon, IsCommit,
        Sender
  <2>3. QED  BY <2>1, <2>2 DEF Next
<1>3. ASSUME LedgerInv, InboxInv PROVE PublishedIsReadable
  <2>0. TypeOK  BY <1>3 DEF LedgerInv, IInv
  <2>1. ASSUME NEW c \in Clients, NEW d \in Clients, NEW i \in DOMAIN intents[c],
               c # d, intents[c][i].op.kind = "SendMessage",
               intents[c][i].state \in {"Committed", "Processed"},
               HighWater(d) >= intents[c][i].seq
        PROVE  <<c, i>> \in inbox[d]
    <3>1. PICK k \in DOMAIN log :
            k = intents[c][i].seq /\ log[k].src = <<c, i>> /\ ReadableThere(k)
      BY <1>3, <2>1 DEF InboxInv
    <3>2. HighWater(d) \in Nat /\ k \in Nat /\ k \in 1..Len(log)
      BY <2>0, CursorType, EnvelopeType
    <3>3. k \in 1..HighWater(d)  BY <2>1, <3>1, <3>2
    <3>4. Sender(log[k]) # d  BY <2>1, <3>1 DEF Sender
    <3>5. QED  BY <1>3, <3>1, <3>3, <3>4 DEF InboxInv
  <2>2. QED  BY <2>1 DEF PublishedIsReadable
<1>4. QED  BY LedgerInvariance, <1>1, <1>2, <1>3, PTL DEF Spec
=============================================================================
