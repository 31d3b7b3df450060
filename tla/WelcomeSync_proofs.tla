------------------------- MODULE WelcomeSync_proofs -------------------------
(***************************************************************************)
(* No welcome is lost, whoever reads it; and, as long as an installation   *)
(* that may be removed and added again has one reader, a group stands      *)
(* where its cursor says and who left is asked again.                      *)
(***************************************************************************)
EXTENDS WelcomeSync, FiniteSetTheorems, TLAPS

-----------------------------------------------------------------------------
(* The inductive invariant *)

Welcome == [group : Groups, epoch : Nat, kind : {"inline", "pointer", "bad"}]

GroupRow ==
  [seq : Nat,
   membership : {"none", "Restored", "Pending", "Allowed", "PendingRemove"},
   consent : {"unknown", "allowed"}]

TypeInv ==
  /\ readers \in ReaderSets /\ len \in [Groups -> Nat] /\ topic \in Seq(Welcome)
  /\ wcursor \in 0..Len(topic) /\ ccursor \in [Groups -> Nat]
  /\ row \in [Groups -> GroupRow]
  /\ mls \in [Groups -> [epoch : Nat, active : BOOLEAN]]
  /\ at \in [readers ->
              {Idle} \union [step : {"validate", "commit"}, seq : DOMAIN topic]]
  /\ batch \in Seq(Nat) /\ channel \in Seq(DOMAIN topic)
  /\ tasks \subseteq DOMAIN topic
  /\ left \in [Groups -> Nat] /\ agreed \in [Groups -> BOOLEAN]

(* What sync_welcomes has in hand starts right after the cursor. *)
InHand == IF at["sync"] = Idle THEN 0 ELSE 1

BatchInv ==
  /\ at["sync"] # Idle => at["sync"].seq = wcursor + 1
  /\ \A k \in DOMAIN batch :
       batch[k] = wcursor + InHand + k /\ batch[k] \in DOMAIN topic

(* The commit cursor of a group is not behind its state, nor behind the    *)
(* welcome its row names.                                                  *)
CursorOK(g) ==
  /\ mls[g].epoch <= ccursor[g]
  /\ row[g].seq # 0 => /\ row[g].seq \in DOMAIN topic
                       /\ topic[row[g].seq].group = g
                       /\ topic[row[g].seq].epoch <= ccursor[g]

CursorInv == \A g \in Groups : CursorOK(g)

ReadInv == TypeInv /\ BatchInv /\ CursorInv /\ NothingLost

(* The welcomes sent for group g. *)
Sent(g) == {k \in DOMAIN topic : topic[k].group = g}

(* They are for the additions of the group, one after the other. *)
TopicInv ==
  /\ \A g \in Groups : Cardinality(Sent(g)) \in Nat /\ IsFiniteSet(Sent(g))
  /\ \A k \in DOMAIN topic :
       LET w == topic[k]
       IN /\ Adds(w.epoch) /\ w.epoch < 2 * Cardinality(Sent(w.group))
          /\ w.epoch <= len[w.group]
          /\ \A j \in DOMAIN topic : j < k /\ topic[j].group = w.group =>
               topic[j].epoch < w.epoch
  /\ readers # {"sync"} => \A g \in Groups : len[g] <= 2

(* A welcome that would still be joined, and who may have joined before. *)
Open(k) ==
  IF readers = {"sync"} THEN k > wcursor ELSE row[topic[k].group].seq # k

(***************************************************************************)
(* Where only sync_welcomes reads, the welcomes to come are for later      *)
(* epochs; where there are other readers, a group has one welcome.         *)
(***************************************************************************)
OrderOK(g) ==
  /\ mls[g].epoch = ccursor[g] /\ (mls[g].active <=> Adds(ccursor[g]))
  /\ ccursor[g] <= 2 * Cardinality(Sent(g))
  /\ readers = {"sync"} => row[g].seq <= wcursor
  /\ mls[g].active => row[g].seq # 0

OrderInv ==
  /\ \A g \in Groups : OrderOK(g)
  /\ \A k \in DOMAIN topic : Open(k) => topic[k].epoch > ccursor[topic[k].group]

(* Who has left and is still on the way out has not moved on; others have  *)
(* consented themselves, if the row says so.                               *)
LeaveInv ==
  \A g \in Groups :
    IF row[g].membership = "PendingRemove"
    THEN /\ readers = {"sync"} /\ row[g].seq # 0
         /\ mls[g].active => mls[g].epoch <= left[g]
    ELSE row[g].consent = "allowed" => agreed[g]

JoinInv == TopicInv /\ OrderInv /\ LeaveInv

-----------------------------------------------------------------------------
(* Reading *)

LEMMA Basics ==
  ASSUME TypeInv
  PROVE  /\ Len(topic) \in Nat /\ DOMAIN topic = 1..Len(topic) /\ wcursor \in Nat
         /\ "sync" \in readers
         /\ \A k \in DOMAIN topic :
              topic[k] \in Welcome /\ k \in Nat \ {0}
         /\ \A r \in readers :
              /\ at[r] = Idle <=> at[r].step = "idle"
              /\ at[r] # Idle => at[r].seq \in DOMAIN topic
              /\ at[r] # Idle => at[r].step \in {"validate", "commit"}
         /\ \A g \in Groups :
              /\ ccursor[g] \in Nat /\ mls[g].epoch \in Nat
              /\ row[g].seq \in Nat /\ row[g] \in GroupRow
<1>1. Len(topic) \in Nat /\ DOMAIN topic = 1..Len(topic) /\ wcursor \in Nat
  BY DEF TypeInv
<1>2. "sync" \in readers  BY WelcomeAssumption DEF TypeInv
<1>3. ASSUME NEW r \in readers
      PROVE  /\ at[r] = Idle <=> at[r].step = "idle"
             /\ at[r] # Idle => at[r].seq \in DOMAIN topic
             /\ at[r] # Idle => at[r].step \in {"validate", "commit"}
  <2>1. at[r] \in {Idle} \union [step : {"validate", "commit"}, seq : DOMAIN topic]
    BY DEF TypeInv
  <2>2. QED  BY <2>1 DEF Idle
<1>4. \A k \in DOMAIN topic : topic[k] \in Welcome /\ k \in Nat \ {0}
  BY <1>1 DEF TypeInv
<1>5. \A g \in Groups : /\ ccursor[g] \in Nat /\ mls[g].epoch \in Nat
                        /\ row[g].seq \in Nat /\ row[g] \in GroupRow
  BY DEF TypeInv, GroupRow
<1>6. QED  BY <1>1, <1>2, <1>3, <1>4, <1>5

(* A step that only adds to the topic or moves groups on loses nothing. *)
LEMMA KeepsWelcomes ==
  ASSUME TypeInv, NothingLost, wcursor' = wcursor,
         \A k \in DOMAIN topic : topic'[k] = topic[k],
         \A g \in Groups : ccursor'[g] \in Nat /\ ccursor[g] <= ccursor'[g],
         tasks \union ToSet(channel) \union lost
           \subseteq tasks' \union ToSet(channel') \union lost'
  PROVE  NothingLost'
<1>1. ASSUME NEW seq \in 1..wcursor
      PROVE  LET w == topic'[seq]
             IN \/ ccursor'[w.group] >= w.epoch \/ w.kind = "bad"
                \/ seq \in tasks' \union ToSet(channel') \union lost'
  <2>1. seq \in DOMAIN topic  BY Basics DEF TypeInv
  <2>2. topic'[seq] = topic[seq] /\ topic[seq] \in Welcome  BY <2>1, Basics
  <2>3. topic[seq].group \in Groups /\ topic[seq].epoch \in Nat
    BY <2>2 DEF Welcome
  <2>4. CASE ccursor[topic[seq].group] >= topic[seq].epoch
    BY <2>2, <2>3, <2>4, Basics
  <2>5. QED  BY <2>2, <2>4 DEF NothingLost
<1>2. QED  BY <1>1 DEF NothingLost

(* The other members and the user *)
LEMMA OutsideRead ==
  ASSUME ReadInv, NEW g \in Groups,
         ChangeMembership(g) \/ Leave(g) \/ Consent(g)
           \/ \E seq \in DOMAIN topic : SendPointee(seq)
  PROVE  ReadInv'
<1>1. UNCHANGED <<readers, topic, wcursor, ccursor, mls, at, batch, channel, tasks,
                  lost>>
  BY DEF ChangeMembership, Leave, Consent, SendPointee, network, user
<1>r. /\ row' \in [Groups -> GroupRow]
      /\ \A h \in Groups : row'[h].seq = row[h].seq
  <2>0. row \in [Groups -> GroupRow] /\ row[g] \in GroupRow
    BY DEF ReadInv, TypeInv
  <2>1. CASE row' = row  BY <2>0, <2>1
  <2>2. CASE row' = [row EXCEPT ![g].membership = "PendingRemove"]
    <3>1. PICK new \in GroupRow :
            new = [row[g] EXCEPT !.membership = "PendingRemove"]
      BY <2>0 DEF GroupRow
    <3>2. new.seq = row[g].seq  BY <2>0, <3>1 DEF GroupRow
    <3>3. row' = [row EXCEPT ![g] = new]  BY <2>2, <3>1
    <3>4. QED  BY <2>0, <3>2, <3>3
  <2>3. CASE row' = [row EXCEPT ![g].consent = "allowed"]
    <3>1. PICK new \in GroupRow : new = [row[g] EXCEPT !.consent = "allowed"]
      BY <2>0 DEF GroupRow
    <3>2. new.seq = row[g].seq  BY <2>0, <3>1 DEF GroupRow
    <3>3. row' = [row EXCEPT ![g] = new]  BY <2>3, <3>1
    <3>4. QED  BY <2>0, <3>2, <3>3
  <2>4. QED
    BY <2>1, <2>2, <2>3 DEF ChangeMembership, Leave, Consent, SendPointee
<1>l. len' \in [Groups -> Nat]
  <2>1. len \in [Groups -> Nat]  BY DEF ReadInv, TypeInv
  <2>2. CASE ChangeMembership(g)  BY <2>1, <2>2 DEF ChangeMembership
  <2>3. CASE ~ChangeMembership(g)
    BY <2>1, <2>3 DEF Leave, Consent, SendPointee, network
  <2>4. QED  BY <2>2, <2>3
<1>u. left' \in [Groups -> Nat] /\ agreed' \in [Groups -> BOOLEAN]
  <2>1. mls[g].epoch \in Nat  BY Basics DEF ReadInv
  <2>2. QED
    BY <2>1
    DEF ChangeMembership, Leave, Consent, SendPointee, user, ReadInv, TypeInv
<1>2. TypeInv'  BY <1>1, <1>r, <1>l, <1>u DEF ReadInv, TypeInv
<1>3. BatchInv'  BY <1>1 DEF ReadInv, BatchInv, InHand
<1>4. CursorInv'  BY <1>1, <1>r DEF ReadInv, CursorInv, CursorOK
<1>5. NothingLost'  BY <1>1 DEF ReadInv, NothingLost
<1>6. QED  BY <1>2, <1>3, <1>4, <1>5 DEF ReadInv

(* A longer topic *)
LEMMA SendRead ==
  ASSUME ReadInv, NEW g \in Groups, SendWelcome(g)
  PROVE  /\ ReadInv'
         /\ \E w \in Welcome :
              /\ topic' = Append(topic, w) /\ w.group = g
              /\ w.epoch = 2 * Cardinality(Sent(g)) + 1 /\ w.epoch <= len[g]
         /\ DOMAIN topic' = 1..(Len(topic) + 1)
         /\ \A k \in DOMAIN topic : topic'[k] = topic[k] /\ k \in DOMAIN topic'
<1> USE DEF ReadInv
<1>1. PICK kind \in {"inline", "pointer", "bad"} :
        topic' = Append(topic, [group |-> g, kind |-> kind,
                                epoch |-> 2 * Cardinality(Sent(g)) + 1])
        /\ 2 * Cardinality(Sent(g)) + 1 <= len[g]
  BY DEF SendWelcome, Sent
<1>2. Cardinality(Sent(g)) \in Nat
  <2>1. Sent(g) \subseteq 1..Len(topic)  BY Basics DEF Sent
  <2>2. IsFiniteSet(1..Len(topic))  BY Basics, FS_Interval
  <2>3. QED  BY <2>1, <2>2, FS_Subset, FS_CardinalityType
<1>3. PICK w \in Welcome : /\ topic' = Append(topic, w) /\ w.group = g
                           /\ w.epoch = 2 * Cardinality(Sent(g)) + 1
                           /\ w.epoch <= len[g]
  BY <1>1, <1>2 DEF Welcome
<1>4. /\ topic' \in Seq(Welcome) /\ Len(topic') = Len(topic) + 1
      /\ DOMAIN topic' = 1..(Len(topic) + 1)
      /\ \A k \in DOMAIN topic : topic'[k] = topic[k] /\ k \in DOMAIN topic'
  BY <1>3, Basics DEF TypeInv
<1>5. UNCHANGED <<readers, len, wcursor, ccursor, row, mls, at, batch, channel, tasks,
                  left, agreed, lost>>
  BY DEF SendWelcome, user
<1>6. TypeInv'
  <2>1. wcursor' \in 0..Len(topic')  BY <1>4, <1>5, Basics DEF TypeInv
  <2>2. at' \in [readers' -> {Idle} \union [step : {"validate", "commit"},
                                            seq : DOMAIN topic']]
    BY <1>4, <1>5 DEF TypeInv
  <2>3. channel' \in Seq(DOMAIN topic')  BY <1>4, <1>5 DEF TypeInv
  <2>4. tasks' \subseteq DOMAIN topic'  BY <1>4, <1>5 DEF TypeInv
  <2>5. QED  BY <1>4, <1>5, <2>1, <2>2, <2>3, <2>4 DEF TypeInv
<1>7. BatchInv'  BY <1>4, <1>5 DEF BatchInv, InHand
<1>8. CursorInv'  BY <1>4, <1>5 DEF CursorInv, CursorOK
<1>9. NothingLost'  BY <1>4, <1>5, Basics, KeepsWelcomes
<1>10. QED  BY <1>3, <1>4, <1>6, <1>7, <1>8, <1>9

(* A group moves on *)
LEMMA SyncGroupRead ==
  ASSUME ReadInv, NEW g \in Groups, SyncGroup(g)
  PROVE  ReadInv'
<1> USE DEF ReadInv
<1>1. UNCHANGED <<readers, len, topic, wcursor, row, at, batch, channel, tasks, left,
                  agreed, lost>>
  BY DEF SyncGroup, network, user
<1>2. /\ ccursor' = [ccursor EXCEPT ![g] = @ + 1] /\ mls[g].active
      /\ mls' = IF mls[g].epoch = ccursor[g]
                THEN [mls EXCEPT ![g] = [epoch |-> ccursor'[g],
                                         active |-> Adds(ccursor'[g])]]
                ELSE mls
  BY DEF SyncGroup
<1>3. /\ ccursor' \in [Groups -> Nat] /\ ccursor'[g] = ccursor[g] + 1
      /\ \A h \in Groups \ {g} : ccursor'[h] = ccursor[h]
  <2>1. ccursor \in [Groups -> Nat]  BY DEF TypeInv
  <2>2. PICK n \in Nat : n = ccursor[g] + 1  BY <2>1
  <2>3. ccursor' = [ccursor EXCEPT ![g] = n]  BY <1>2, <2>2
  <2>4. QED  BY <2>1, <2>2, <2>3
<1>4. Adds(ccursor'[g]) \in BOOLEAN  BY DEF Adds
<1>5. /\ mls' \in [Groups -> [epoch : Nat, active : BOOLEAN]]
      /\ \A h \in Groups \ {g} : mls'[h] = mls[h]
      /\ mls'[g].epoch \in {mls[g].epoch, ccursor'[g]}
  <2>1. CASE mls[g].epoch = ccursor[g]
    <3>1. mls' = [mls EXCEPT ![g] = [epoch |-> ccursor'[g],
                                     active |-> Adds(ccursor'[g])]]
      BY <1>2, <2>1
    <3>2. QED  BY <1>3, <1>4, <3>1 DEF TypeInv
  <2>2. CASE mls[g].epoch # ccursor[g]
    BY <1>2, <2>2 DEF TypeInv
  <2>3. QED  BY <2>1, <2>2
<1>6. TypeInv'  BY <1>1, <1>3, <1>5 DEF TypeInv
<1>7. BatchInv'  BY <1>1 DEF BatchInv, InHand
<1>8. CursorInv'
  <2>1. ASSUME NEW h \in Groups PROVE CursorOK(h)'
    <3>1. ccursor[h] \in Nat /\ mls[h].epoch \in Nat /\ row[h].seq \in Nat
      BY Basics
    <3>2. CASE h # g  BY <1>1, <1>3, <1>5, <3>2 DEF CursorInv, CursorOK
    <3>3. CASE h = g
      <4>1. mls'[g].epoch <= ccursor'[g]
        BY <1>3, <1>5, <3>1, <3>3 DEF CursorInv, CursorOK
      <4>2. row[g].seq # 0 => topic[row[g].seq] \in Welcome
        BY Basics DEF CursorInv, CursorOK
      <4>3. row[g].seq # 0 => topic[row[g].seq].epoch <= ccursor'[g]
        BY <1>3, <3>1, <3>3, <4>2 DEF CursorInv, CursorOK, Welcome
      <4>4. QED  BY <1>1, <3>3, <4>1, <4>3 DEF CursorInv, CursorOK
    <3>4. QED  BY <3>2, <3>3
  <2>2. QED  BY <2>1 DEF CursorInv
<1>9. NothingLost'
  <2>1. \A h \in Groups : ccursor'[h] \in Nat /\ ccursor[h] <= ccursor'[h]
    BY <1>3, Basics
  <2>2. QED  BY <1>1, <2>1, KeepsWelcomes
<1>10. QED  BY <1>6, <1>7, <1>8, <1>9

(* A reader that takes up a welcome *)
LEMMA BeginRead ==
  ASSUME ReadInv, NEW r \in readers, NEW seq, Begin(r, seq)
  PROVE  ReadInv'
<1> USE DEF ReadInv
<1>1. /\ UNCHANGED <<readers, len, topic, wcursor, ccursor, row, mls, channel, tasks,
                     left, agreed, lost>>
      /\ at[r] = Idle /\ seq \in Takes(r)
      /\ batch' = IF r = "sync" THEN Tail(batch) ELSE batch
      /\ at' = IF ~Resuming(r) /\ wcursor >= seq /\ row[topic[seq].group].seq = seq
               THEN at
               ELSE [at EXCEPT ![r] = [step |-> "validate", seq |-> seq]]
  BY DEF Begin, network, user
<1>2. CASE r = "sync"
  <2>1. /\ InHand = 0 /\ batch # << >> /\ seq = Head(batch)
    BY <1>1, <1>2 DEF InHand, Takes
  <2>2. /\ batch \in Seq(Nat) /\ Len(batch) \in Nat /\ DOMAIN batch = 1..Len(batch)
        /\ Len(batch) > 0
    BY <2>1 DEF TypeInv
  <2>3. 1 \in DOMAIN batch /\ seq = batch[1]  BY <2>1, <2>2
  <2>4. seq = wcursor + 1 /\ seq \in DOMAIN topic  BY <2>1, <2>3, Basics DEF BatchInv
  <2>5. at' = [at EXCEPT !["sync"] = [step |-> "validate", seq |-> seq]]
    BY <1>1, <1>2, <2>4, Basics
  <2>6. /\ at' \in [readers -> {Idle} \union [step : {"validate", "commit"},
                                              seq : DOMAIN topic]]
        /\ at'["sync"] = [step |-> "validate", seq |-> seq]
    BY <1>2, <2>4, <2>5 DEF TypeInv
  <2>7. at'["sync"] # Idle /\ at'["sync"].seq = wcursor + 1
    BY <2>4, <2>6 DEF Idle
  <2>8. /\ batch' \in Seq(Nat) /\ DOMAIN batch' = 1..(Len(batch) - 1)
        /\ \A k \in DOMAIN batch' : batch'[k] = batch[k + 1]
    BY <1>1, <1>2, <2>2
  <2>9. \A k \in DOMAIN batch' :
          batch'[k] = wcursor + 1 + k /\ batch'[k] \in DOMAIN topic
    <3> SUFFICES ASSUME NEW k \in DOMAIN batch'
                 PROVE  batch'[k] = wcursor + 1 + k /\ batch'[k] \in DOMAIN topic
      OBVIOUS
    <3>1. k + 1 \in DOMAIN batch /\ k \in Nat  BY <2>2, <2>8
    <3>2. batch[k + 1] = wcursor + 0 + (k + 1) /\ batch[k + 1] \in DOMAIN topic
      BY <2>1, <3>1 DEF BatchInv
    <3>3. QED  BY <2>8, <3>1, <3>2, Basics
  <2>10. TypeInv'  BY <1>1, <2>6, <2>8 DEF TypeInv
  <2>11. BatchInv'  BY <1>1, <2>7, <2>9 DEF BatchInv, InHand
  <2>12. CursorInv' /\ NothingLost'
    BY <1>1 DEF CursorInv, CursorOK, NothingLost
  <2>13. QED  BY <2>10, <2>11, <2>12
<1>3. CASE r # "sync"
  <2>1. seq \in DOMAIN topic
    BY <1>1, <1>3 DEF Takes, TypeInv
  <2>2. /\ at' \in [readers -> {Idle} \union [step : {"validate", "commit"},
                                              seq : DOMAIN topic]]
        /\ at'["sync"] = at["sync"] /\ batch' = batch
    BY <1>1, <1>3, <2>1 DEF TypeInv
  <2>3. TypeInv'  BY <1>1, <2>2 DEF TypeInv
  <2>4. BatchInv'  BY <1>1, <2>2 DEF BatchInv, InHand
  <2>5. CursorInv' /\ NothingLost'
    BY <1>1 DEF CursorInv, CursorOK, NothingLost
  <2>6. QED  BY <2>3, <2>4, <2>5
<1>4. QED  BY <1>2, <1>3

(* What the steps that end or interrupt a reader's work do to the rest.    *)
LEMMA WorkerRead ==
  ASSUME ReadInv,
         SyncWelcomes \/ Crash \/ StoreTask \/ TaskExpires
           \/ \E r \in readers : Transient(r)
  PROVE  ReadInv'
<1> USE DEF ReadInv
<1>1. UNCHANGED <<readers, len, topic, wcursor, ccursor, row, mls, left, agreed>>
  BY DEF SyncWelcomes, Crash, StoreTask, TaskExpires, Transient, network, user
<1>2. /\ channel \in Seq(DOMAIN topic) /\ tasks \subseteq DOMAIN topic
      /\ batch \in Seq(Nat)
      /\ Len(topic) \in Nat /\ wcursor \in Nat /\ DOMAIN topic = 1..Len(topic)
  BY Basics DEF TypeInv
<1>3. /\ channel' \in Seq(DOMAIN topic) /\ tasks' \subseteq DOMAIN topic
      /\ tasks \union ToSet(channel) \union lost
           \subseteq tasks' \union ToSet(channel') \union lost'
  <2>1. CASE SyncWelcomes
    BY <1>2, <2>1 DEF SyncWelcomes
  <2>2. CASE Crash  BY <1>2, <2>2 DEF Crash
  <2>3. CASE StoreTask
    <3>1. /\ channel # << >> /\ tasks' = tasks \union {Head(channel)}
          /\ channel' = Tail(channel) /\ lost' = lost
      BY <2>3 DEF StoreTask
    <3>2. /\ Head(channel) = channel[1] /\ Head(channel) \in DOMAIN topic
          /\ channel' \in Seq(DOMAIN topic) /\ DOMAIN channel = 1..Len(channel)
          /\ Len(channel) \in Nat /\ DOMAIN channel' = 1..(Len(channel) - 1)
          /\ \A k \in 2..Len(channel) :
               k - 1 \in DOMAIN channel' /\ channel'[k - 1] = channel[k]
      BY <1>2, <3>1
    <3>3. ToSet(channel) \subseteq {Head(channel)} \union ToSet(channel')
      <4> SUFFICES ASSUME NEW k \in DOMAIN channel, k # 1
                   PROVE  channel[k] \in ToSet(channel')
        BY <3>2 DEF ToSet
      <4>1. k \in 2..Len(channel)  BY <3>2
      <4>2. QED  BY <3>2, <4>1 DEF ToSet
    <3>4. QED  BY <1>2, <3>1, <3>2, <3>3
  <2>4. CASE TaskExpires  BY <1>2, <2>4 DEF TaskExpires
  <2>5. ASSUME NEW r \in readers, Transient(r)
        PROVE  channel' = channel /\ tasks' = tasks /\ lost' = lost
    BY <2>5 DEF Transient, Done
  <2>6. QED  BY <1>2, <2>1, <2>2, <2>3, <2>4, <2>5
<1>4. /\ at' \in [readers -> {Idle} \union [step : {"validate", "commit"},
                                            seq : DOMAIN topic]]
      /\ at' = at \/ at'["sync"] = Idle \/ at'["sync"] = at["sync"]
  <2>0. at \in [readers -> {Idle} \union [step : {"validate", "commit"},
                                           seq : DOMAIN topic]]
    BY DEF TypeInv
  <2>1. CASE at' = at  BY <2>0, <2>1
  <2>2. CASE Crash
    <3>1. at' = [r \in readers |-> Idle]  BY <2>2 DEF Crash
    <3>2. QED  BY <3>1, Basics
  <2>3. ASSUME NEW r \in readers, Transient(r)
        PROVE  /\ at' \in [readers -> {Idle} \union [step : {"validate", "commit"},
                                                    seq : DOMAIN topic]]
               /\ at'["sync"] = Idle \/ at'["sync"] = at["sync"]
    <3>1. at' = [at EXCEPT ![r] = Idle]  BY <2>3 DEF Transient, Done
    <3>2. QED  BY <2>0, <3>1, Basics
  <2>4. QED  BY <2>1, <2>2, <2>3 DEF SyncWelcomes, StoreTask, TaskExpires
<1>5. batch' \in Seq(Nat) /\ BatchInv'
  <2>1. CASE SyncWelcomes
    <3>1. /\ at["sync"] = Idle /\ at' = at
          /\ batch' = [k \in 1..(Len(topic) - wcursor) |-> wcursor + k]
      BY <2>1 DEF SyncWelcomes
    <3>2. Len(topic) - wcursor \in Nat  BY Basics DEF TypeInv
    <3>3. batch' \in Seq(Nat)
      <4>1. \A k \in 1..(Len(topic) - wcursor) : wcursor + k \in Nat  BY <1>2
      <4>2. QED  BY <3>1, <3>2, <4>1
    <3>4. \A k \in DOMAIN batch' :
            batch'[k] = wcursor + 0 + k /\ batch'[k] \in DOMAIN topic
      BY <1>2, <3>1, <3>2
    <3>5. QED  BY <1>1, <3>1, <3>3, <3>4 DEF BatchInv, InHand
  <2>2. CASE Crash
    <3>1. batch' = << >> /\ at'["sync"] = Idle  BY <2>2, Basics DEF Crash
    <3>2. QED  BY <3>1 DEF BatchInv
  <2>3. CASE StoreTask \/ TaskExpires
    <3>1. batch' = batch /\ at' = at  BY <2>3 DEF StoreTask, TaskExpires
    <3>2. QED  BY <1>1, <1>2, <3>1 DEF BatchInv, InHand
  <2>4. ASSUME NEW r \in readers, Transient(r)
        PROVE  batch' \in Seq(Nat) /\ BatchInv'
    <3>1. /\ batch' = IF r = "sync" THEN << >> ELSE batch
          /\ at' = [at EXCEPT ![r] = Idle]
      BY <2>4 DEF Transient, Done
    <3>2. CASE r = "sync"
      <4>1. batch' = << >> /\ at'["sync"] = Idle  BY <3>1, <3>2 DEF TypeInv
      <4>2. QED  BY <4>1 DEF BatchInv
    <3>3. CASE r # "sync"
      <4>1. batch' = batch /\ at'["sync"] = at["sync"]  BY <3>1, <3>3 DEF TypeInv
      <4>2. QED  BY <1>1, <1>2, <4>1 DEF BatchInv, InHand
    <3>4. QED  BY <3>2, <3>3
  <2>5. QED  BY <2>1, <2>2, <2>3, <2>4
<1>6. TypeInv'  BY <1>1, <1>3, <1>4, <1>5 DEF TypeInv
<1>7. CursorInv'  BY <1>1 DEF CursorInv, CursorOK
<1>8. NothingLost'  BY <1>1, <1>3, Basics, KeepsWelcomes
<1>9. QED  BY <1>5, <1>6, <1>7, <1>8

(* A step that may take the cursor over one welcome, which is seen to. *)
LEMMA StepsOver ==
  ASSUME TypeInv, NothingLost, wcursor' \in {wcursor, wcursor + 1}, topic' = topic,
         \A g \in Groups : ccursor'[g] \in Nat /\ ccursor[g] <= ccursor'[g],
         \A seq \in (tasks \union ToSet(channel) \union lost)
                      \ (tasks' \union ToSet(channel') \union lost') :
           /\ seq \in DOMAIN topic
           /\ topic[seq].epoch <= ccursor'[topic[seq].group],
         wcursor' # wcursor =>
           LET w == topic[wcursor']
           IN \/ ccursor'[w.group] >= w.epoch \/ w.kind = "bad"
              \/ wcursor' \in tasks' \union ToSet(channel') \union lost'
  PROVE  NothingLost'
<1>1. ASSUME NEW seq \in 1..wcursor'
      PROVE  LET w == topic[seq]
             IN \/ ccursor'[w.group] >= w.epoch \/ w.kind = "bad"
                \/ seq \in tasks' \union ToSet(channel') \union lost'
  <2>0. wcursor \in Nat  BY Basics
  <2>1. CASE seq \in 1..wcursor
    <3>1. seq \in DOMAIN topic  BY <2>1, Basics DEF TypeInv
    <3>2. topic[seq].group \in Groups /\ topic[seq].epoch \in Nat
      BY <3>1, Basics DEF Welcome
    <3>3. CASE ccursor[topic[seq].group] >= topic[seq].epoch
      BY <3>2, <3>3, Basics
    <3>4. CASE seq \in tasks \union ToSet(channel) \union lost  BY <3>2, <3>4
    <3>5. QED  BY <2>1, <3>3, <3>4 DEF NothingLost
  <2>2. CASE seq \notin 1..wcursor
    <3>1. seq = wcursor' /\ wcursor' # wcursor  BY <2>0, <2>2
    <3>2. QED  BY <3>1
  <2>3. QED  BY <2>1, <2>2
<1>2. QED  BY <1>1 DEF NothingLost

(* The reader is done with its welcome. *)
LEMMA ReaderDone ==
  ASSUME TypeInv, BatchInv, NEW r \in readers, at[r] # Idle,
         at' = [at EXCEPT ![r] = Idle], MoveCursor(r, at[r].seq),
         UNCHANGED <<readers, topic, batch>>
  PROVE  /\ at' \in [readers -> {Idle} \union [step : {"validate", "commit"},
                                               seq : DOMAIN topic]]
         /\ wcursor' \in 0..Len(topic) /\ wcursor' \in {wcursor, wcursor + 1}
         /\ IF r = "sync" THEN wcursor' = at[r].seq ELSE wcursor' = wcursor
         /\ BatchInv'
<1>0. Len(topic) \in Nat /\ DOMAIN topic = 1..Len(topic) /\ wcursor \in Nat
      /\ at[r].seq \in DOMAIN topic
  BY Basics
<1>1. at' \in [readers -> {Idle} \union [step : {"validate", "commit"},
                                          seq : DOMAIN topic]]
  BY DEF TypeInv
<1>2. CASE r = "sync"
  <2>1. InHand = 1 /\ at["sync"].seq = wcursor + 1
    BY <1>2 DEF BatchInv, InHand
  <2>2. wcursor' = wcursor + 1
    BY <1>0, <1>2, <2>1 DEF MoveCursor, CursorIncrement
  <2>3. at'["sync"] = Idle  BY <1>2 DEF TypeInv
  <2>4. \A k \in DOMAIN batch :
          batch[k] = wcursor' + 0 + k /\ batch[k] \in DOMAIN topic
    <3> SUFFICES ASSUME NEW k \in DOMAIN batch
                 PROVE  batch[k] = wcursor' + 0 + k
      BY DEF BatchInv
    <3>1. k \in Nat  BY DEF TypeInv
    <3>2. batch[k] = wcursor + 1 + k  BY <2>1 DEF BatchInv
    <3>3. QED  BY <1>0, <2>2, <3>1, <3>2
  <2>5. BatchInv'  BY <2>3, <2>4 DEF BatchInv, InHand
  <2>6. QED  BY <1>0, <1>1, <1>2, <2>1, <2>2, <2>5
<1>3. CASE r # "sync"
  <2>1. wcursor' = wcursor /\ at'["sync"] = at["sync"]
    BY <1>3 DEF MoveCursor, CursorIncrement, TypeInv
  <2>2. BatchInv'  BY <2>1 DEF BatchInv, InHand
  <2>3. QED  BY <1>1, <1>3, <2>1, <2>2 DEF TypeInv
<1>4. QED  BY <1>2, <1>3

(* A checked welcome *)
LEMMA ValidateRead ==
  ASSUME ReadInv, NEW r \in readers, Validate(r)
  PROVE  ReadInv'
<1> DEFINE seq == at[r].seq
           w == topic[seq]
<1> USE DEF ReadInv
<1>1. /\ UNCHANGED <<readers, len, topic, ccursor, row, mls, batch, left, agreed, lost>>
      /\ at[r].step = "validate"
      /\ channel' = IF Missing(seq) /\ ~Resuming(r) THEN Append(channel, seq)
                    ELSE channel
  BY DEF Validate, network, user
<1>2. at[r] # Idle /\ seq \in DOMAIN topic /\ w \in Welcome
  BY <1>1, Basics DEF Idle
<1>3. /\ channel' \in Seq(DOMAIN topic) /\ ToSet(channel) \subseteq ToSet(channel')
      /\ (Missing(seq) /\ ~Resuming(r)) => seq \in ToSet(channel')
  <2>1. CASE channel' = channel /\ ~(Missing(seq) /\ ~Resuming(r))
    BY <2>1 DEF TypeInv
  <2>2. CASE channel' = Append(channel, seq)
    <3>1. /\ channel \in Seq(DOMAIN topic) /\ Len(channel) \in Nat
          /\ DOMAIN channel = 1..Len(channel)
      BY DEF TypeInv
    <3>2. /\ channel' \in Seq(DOMAIN topic) /\ DOMAIN channel' = 1..(Len(channel) + 1)
          /\ channel'[Len(channel) + 1] = seq
          /\ \A k \in DOMAIN channel : k \in DOMAIN channel' /\ channel'[k] = channel[k]
      BY <1>2, <2>2, <3>1
    <3>3. Len(channel) + 1 \in DOMAIN channel'  BY <3>1, <3>2
    <3>4. QED  BY <3>2, <3>3 DEF ToSet
  <2>3. QED  BY <1>1, <2>1, <2>2
<1>4. CursorInv'  BY <1>1 DEF CursorInv, CursorOK
<1>5. CASE Missing(seq) \/ w.kind = "bad" \/ AlreadyIn(w)
  <2>1. at' = [at EXCEPT ![r] = Idle] /\ tasks' = tasks /\ MoveCursor(r, seq)
    BY <1>5 DEF Validate, Done
  <2>2. /\ at' \in [readers -> {Idle} \union [step : {"validate", "commit"},
                                              seq : DOMAIN topic]]
        /\ wcursor' \in 0..Len(topic) /\ wcursor' \in {wcursor, wcursor + 1}
        /\ IF r = "sync" THEN wcursor' = seq ELSE wcursor' = wcursor
        /\ BatchInv'
    BY <1>1, <1>2, <2>1, ReaderDone
  <2>3. TypeInv'  BY <1>1, <1>3, <2>1, <2>2 DEF TypeInv
  <2>4. ASSUME wcursor' # wcursor
        PROVE  \/ ccursor[w.group] >= w.epoch \/ w.kind = "bad"
               \/ seq \in ToSet(channel')
    <3>1. r = "sync"  BY <2>2, <2>4
    <3>2. CASE AlreadyIn(w)
      <4>1. w.group \in Groups /\ w.epoch \in Nat  BY <1>2 DEF Welcome
      <4>2. w.epoch <= mls[w.group].epoch  BY <3>2 DEF AlreadyIn
      <4>3. mls[w.group].epoch <= ccursor[w.group]
        BY <4>1 DEF CursorInv, CursorOK
      <4>4. mls[w.group].epoch \in Nat /\ ccursor[w.group] \in Nat
        BY <4>1, Basics
      <4>5. QED  BY <4>1, <4>2, <4>3, <4>4
    <3>3. CASE Missing(seq)  BY <1>3, <3>1, <3>3 DEF Resuming
    <3>4. QED  BY <1>5, <3>2, <3>3
  <2>5. \A g \in Groups : ccursor'[g] \in Nat /\ ccursor[g] <= ccursor'[g]
    BY <1>1, Basics
  <2>6. tasks \union ToSet(channel) \union lost
          \subseteq tasks' \union ToSet(channel') \union lost'
    BY <1>1, <1>3, <2>1
  <2>7. wcursor' # wcursor => wcursor' = seq  BY <2>2
  <2>8. NothingLost'
    BY <1>1, <2>2, <2>4, <2>5, <2>6, <2>7, StepsOver
  <2>9. QED  BY <1>4, <2>2, <2>3, <2>8
<1>6. CASE ~(Missing(seq) \/ w.kind = "bad" \/ AlreadyIn(w))
  <2>1. at' = [at EXCEPT ![r].step = "commit"] /\ UNCHANGED <<wcursor, tasks>>
    BY <1>6 DEF Validate
  <2>2. PICK x \in [step : {"validate", "commit"}, seq : DOMAIN topic] :
          x = [step |-> "commit", seq |-> seq]
    BY <1>2
  <2>3. at[r] \in [step : {"validate", "commit"}, seq : DOMAIN topic]
    BY <1>2 DEF TypeInv
  <2>4. at' = [at EXCEPT ![r] = x]
    <3>1. PICK y \in [step : {"validate", "commit"}, seq : DOMAIN topic] : y = at[r]
      BY <2>3
    <3>2. [y EXCEPT !.step = "commit"] = x  BY <2>2, <3>1
    <3>3. at' = [at EXCEPT ![r] = [y EXCEPT !.step = "commit"]]  BY <2>1, <3>1
    <3>4. QED  BY <3>2, <3>3
  <2>5. /\ at' \in [readers -> {Idle} \union [step : {"validate", "commit"},
                                              seq : DOMAIN topic]]
        /\ at'["sync"] = IF r = "sync" THEN x ELSE at["sync"]
    BY <2>4, Basics DEF TypeInv
  <2>6. x # Idle /\ x.seq = seq  BY <2>2 DEF Idle
  <2>7. TypeInv'  BY <1>1, <1>3, <2>1, <2>5 DEF TypeInv
  <2>8. BatchInv'  BY <1>1, <1>2, <2>1, <2>5, <2>6 DEF BatchInv, InHand
  <2>9. \A g \in Groups : ccursor'[g] \in Nat /\ ccursor[g] <= ccursor'[g]
    BY <1>1, Basics
  <2>10. NothingLost'  BY <1>1, <1>3, <2>1, <2>9, KeepsWelcomes
  <2>11. QED  BY <1>4, <2>7, <2>8, <2>10
<1>7. QED  BY <1>5, <1>6

(* The row of a group that is joined *)
LEMMA StoredRow ==
  ASSUME TypeInv, NEW seq \in DOMAIN topic
  PROVE  LET old == row[topic[seq].group]
             new == Stored(seq)
         IN /\ new \in GroupRow
            /\ new.seq \in {seq, old.seq} /\ (seq > old.seq => new.seq = seq)
            /\ new.membership = "PendingRemove" => old.membership = "PendingRemove"
            /\ (old.membership = "PendingRemove" /\ Readd(seq)) =>
                 (new.membership = "Allowed" /\ new.consent = "unknown")
            /\ \/ new.consent = "unknown"
               \/ new.consent = old.consent /\ new.membership = old.membership
<1>1. topic[seq].group \in Groups /\ seq \in Nat
  BY Basics DEF Welcome
<1>2. PICK old \in GroupRow : old = row[topic[seq].group]
  BY <1>1, Basics
<1>3. PICK new \in GroupRow :
        new = [seq |-> seq, membership |-> "Pending", consent |-> "unknown"]
  BY <1>1 DEF GroupRow
<1>n. new.seq = seq /\ new.membership = "Pending" /\ new.consent = "unknown"
  BY <1>3
<1>4. CASE old.membership \in {"none", "Restored"}
  <2>1. ~Readd(seq) /\ old.membership # "PendingRemove"
    BY <1>2, <1>4 DEF Readd
  <2>2. Stored(seq) = new  BY <1>2, <1>3, <1>4, <2>1 DEF Stored
  <2>3. Stored(seq) \in GroupRow  BY <2>2, <1>3
  <2>4. /\ Stored(seq).seq = seq /\ Stored(seq).membership = "Pending"
        /\ Stored(seq).consent = "unknown"
    BY <2>2, <1>n
  <2>5. QED  BY <1>2, <1>4, <2>1, <2>3, <2>4
<1>5. CASE old.membership \notin {"none", "Restored"} /\ Readd(seq)
  <2>1. PICK res \in GroupRow : res = [new EXCEPT !.membership = "Allowed"]
    BY <1>3 DEF GroupRow
  <2>2. Stored(seq) = res  BY <1>2, <1>3, <1>5, <2>1 DEF Stored
  <2>3. res.seq = seq /\ res.membership = "Allowed" /\ res.consent = "unknown"
    BY <1>3, <1>n, <2>1 DEF GroupRow
  <2>4. QED  BY <1>2, <1>5, <2>1, <2>2, <2>3
<1>6. CASE old.membership \notin {"none", "Restored"} /\ ~Readd(seq)
  <2>1. PICK m \in Nat : m = IF seq > old.seq THEN seq ELSE old.seq
    BY <1>1, <1>2 DEF GroupRow
  <2>2. PICK res \in GroupRow : res = [old EXCEPT !.seq = m]
    BY <1>2, <2>1 DEF GroupRow
  <2>3. Stored(seq) = res  BY <1>2, <1>6, <2>1, <2>2 DEF Stored
  <2>4. /\ res.seq = m /\ res.membership = old.membership
        /\ res.consent = old.consent
    BY <1>2, <2>2 DEF GroupRow
  <2>5. QED  BY <1>2, <1>6, <2>1, <2>3, <2>4
<1>7. QED  BY <1>2, <1>4, <1>5, <1>6

(* What the transaction of a welcome does *)
Joins(r) == RequiresProcessing(r, at[r].seq) /\ ~Duplicate(at[r].seq)

LEMMA CommitMoves ==
  ASSUME TypeInv, NEW r \in readers, Commit(r)
  PROVE  LET seq == at[r].seq
             w == topic[seq]
         IN /\ at[r] # Idle /\ seq \in DOMAIN topic
            /\ w \in Welcome /\ w.group \in Groups /\ w.epoch \in Nat
            /\ UNCHANGED <<readers, len, topic, batch, channel, left, agreed, lost>>
            /\ at' = [at EXCEPT ![r] = Idle] /\ MoveCursor(r, seq)
            /\ tasks' = IF r = "task" /\ Joins(r) THEN tasks \ {seq} ELSE tasks
            /\ IF Joins(r)
               THEN /\ mls'[w.group] = [epoch |-> w.epoch, active |-> TRUE]
                    /\ row'[w.group] = Stored(seq)
                    /\ ccursor'[w.group] = IF w.epoch > ccursor[w.group] THEN w.epoch
                                           ELSE ccursor[w.group]
                    /\ \A g \in Groups \ {w.group} :
                         /\ mls'[g] = mls[g] /\ row'[g] = row[g]
                         /\ ccursor'[g] = ccursor[g]
               ELSE UNCHANGED <<mls, row, ccursor>>
            /\ mls' \in [Groups -> [epoch : Nat, active : BOOLEAN]]
            /\ row' \in [Groups -> GroupRow] /\ ccursor' \in [Groups -> Nat]
<1> DEFINE seq == at[r].seq
           w == topic[seq]
<1>1. at[r] # Idle /\ seq \in DOMAIN topic /\ w \in Welcome
  <2>1. at[r].step = "commit"  BY DEF Commit
  <2>2. QED  BY <2>1, Basics DEF Idle
<1>2. w.group \in Groups /\ w.epoch \in Nat  BY <1>1 DEF Welcome
<1>3. UNCHANGED <<readers, len, topic, batch, channel, left, agreed, lost>>
  BY DEF Commit, network, user
<1>4. /\ at' = [at EXCEPT ![r] = Idle] /\ MoveCursor(r, seq)
      /\ tasks' = IF r = "task" /\ Joins(r) THEN tasks \ {seq} ELSE tasks
  BY DEF Commit, Done, Joins
<1>5. CASE Joins(r)
  <2>1. /\ mls' = [mls EXCEPT ![w.group] = [epoch |-> w.epoch, active |-> TRUE]]
        /\ row' = [row EXCEPT ![w.group] = Stored(seq)]
        /\ ccursor' = [ccursor EXCEPT ![w.group] = IF w.epoch > @ THEN w.epoch ELSE @]
    BY <1>5 DEF Commit, Joins
  <2>2. Stored(seq) \in GroupRow  BY <1>1, StoredRow
  <2>3. /\ mls \in [Groups -> [epoch : Nat, active : BOOLEAN]]
        /\ row \in [Groups -> GroupRow] /\ ccursor \in [Groups -> Nat]
    BY DEF TypeInv
  <2>4. /\ mls' \in [Groups -> [epoch : Nat, active : BOOLEAN]]
        /\ mls'[w.group] = [epoch |-> w.epoch, active |-> TRUE]
        /\ \A g \in Groups \ {w.group} : mls'[g] = mls[g]
    BY <1>2, <2>1, <2>3
  <2>5. /\ row' \in [Groups -> GroupRow] /\ row'[w.group] = Stored(seq)
        /\ \A g \in Groups \ {w.group} : row'[g] = row[g]
    BY <1>2, <2>1, <2>2, <2>3
  <2>6. /\ ccursor' \in [Groups -> Nat]
        /\ ccursor'[w.group] = IF w.epoch > ccursor[w.group] THEN w.epoch
                               ELSE ccursor[w.group]
        /\ \A g \in Groups \ {w.group} : ccursor'[g] = ccursor[g]
    BY <1>2, <2>1, <2>3
  <2>7. QED  BY <1>1, <1>2, <1>3, <1>4, <1>5, <2>4, <2>5, <2>6
<1>6. CASE ~Joins(r)
  <2>1. UNCHANGED <<mls, row, ccursor>>  BY <1>6 DEF Commit, Joins
  <2>2. QED  BY <1>1, <1>2, <1>3, <1>4, <1>6, <2>1 DEF TypeInv
<1>7. QED  BY <1>5, <1>6

(* A group that is joined, or a welcome that is refused *)
LEMMA CommitRead ==
  ASSUME ReadInv, NEW r \in readers, Commit(r)
  PROVE  ReadInv'
<1> DEFINE seq == at[r].seq
           w == topic[seq]
<1> USE DEF ReadInv
<1>1. /\ at[r] # Idle /\ seq \in DOMAIN topic
      /\ w \in Welcome /\ w.group \in Groups /\ w.epoch \in Nat
      /\ UNCHANGED <<readers, len, topic, batch, channel, left, agreed, lost>>
      /\ at' = [at EXCEPT ![r] = Idle] /\ MoveCursor(r, seq)
  BY CommitMoves
<1>2. /\ at' \in [readers -> {Idle} \union [step : {"validate", "commit"},
                                            seq : DOMAIN topic]]
      /\ wcursor' \in 0..Len(topic) /\ wcursor' \in {wcursor, wcursor + 1}
      /\ IF r = "sync" THEN wcursor' = seq ELSE wcursor' = wcursor
      /\ BatchInv'
  BY <1>1, ReaderDone
<1>3. TypeInv'
  <2>1. /\ mls' \in [Groups -> [epoch : Nat, active : BOOLEAN]]
        /\ row' \in [Groups -> GroupRow] /\ ccursor' \in [Groups -> Nat]
        /\ tasks' \subseteq tasks
    BY CommitMoves
  <2>2. QED  BY <1>1, <1>2, <2>1 DEF TypeInv
<1>4. CASE Joins(r)
  <2>1. /\ mls'[w.group] = [epoch |-> w.epoch, active |-> TRUE]
        /\ row'[w.group] = Stored(seq)
        /\ ccursor'[w.group] = IF w.epoch > ccursor[w.group] THEN w.epoch
                               ELSE ccursor[w.group]
        /\ \A g \in Groups \ {w.group} :
             /\ mls'[g] = mls[g] /\ row'[g] = row[g] /\ ccursor'[g] = ccursor[g]
        /\ tasks' = IF r = "task" THEN tasks \ {seq} ELSE tasks
    BY <1>4, CommitMoves
  <2>2. /\ ccursor[w.group] \in Nat /\ ccursor'[w.group] \in Nat
        /\ w.epoch <= ccursor'[w.group] /\ ccursor[w.group] <= ccursor'[w.group]
    BY <1>1, <2>1, Basics
  <2>3. CursorInv'
    <3>1. ASSUME NEW g \in Groups \ {w.group} PROVE CursorOK(g)'
      BY <1>1, <2>1, <3>1 DEF CursorInv, CursorOK
    <3>g. PICK g : g = w.group  OBVIOUS
    <3>2. CursorOK(g)'
      <4>2. row'[g].seq \in {seq, row[g].seq}  BY <1>1, <2>1, <3>g, StoredRow
      <4>3. mls'[g].epoch <= ccursor'[g]  BY <2>1, <2>2, <3>g
      <4>4. row[g].seq # 0 =>
              /\ row[g].seq \in DOMAIN topic /\ topic[row[g].seq].group = g
              /\ topic[row[g].seq].epoch <= ccursor[g]
        BY <1>1, <3>g DEF CursorInv, CursorOK
      <4>5. row[g].seq # 0 => topic[row[g].seq].epoch \in Nat
        <5>1. \A k \in DOMAIN topic : topic[k] \in Welcome  BY Basics
        <5>2. QED  BY <4>4, <5>1 DEF Welcome
      <4>6. row[g].seq # 0 => topic[row[g].seq].epoch <= ccursor'[g]
        <5>1. PICK before, after, epoch : /\ before = ccursor[g] /\ after = ccursor'[g]
                                          /\ epoch = topic[row[g].seq].epoch
          OBVIOUS
        <5>2. before \in Nat /\ after \in Nat /\ before <= after  BY <2>2, <3>g, <5>1
        <5>3. row[g].seq # 0 => epoch \in Nat /\ epoch <= before  BY <4>4, <4>5, <5>1
        <5>4. QED  BY <5>1, <5>2, <5>3
      <4>7. /\ seq \in DOMAIN topic' /\ topic'[seq].group = g
            /\ topic'[seq].epoch <= ccursor'[g]
        <5>1. topic' = topic /\ seq \in DOMAIN topic /\ topic[seq] = w  BY <1>1
        <5>2. w.group = g /\ w.epoch <= ccursor'[g]  BY <2>2, <3>g
        <5>3. QED  BY <5>1, <5>2
      <4>8. row'[g].seq # 0 =>
              /\ row'[g].seq \in DOMAIN topic' /\ topic'[row'[g].seq].group = g
              /\ topic'[row'[g].seq].epoch <= ccursor'[g]
        BY <1>1, <4>2, <4>4, <4>6, <4>7
      <4>9. CursorOK(g)'  BY <4>3, <4>8 DEF CursorOK
      <4>10. QED  BY <4>9
    <3>3. ASSUME NEW h \in Groups PROVE CursorOK(h)'
      <4>1. CASE h # w.group  BY <3>1, <4>1
      <4>2. CASE h = g  BY <3>2, <4>2
      <4>3. QED  BY <3>g, <4>1, <4>2
    <3>4. QED  BY <3>3 DEF CursorInv
  <2>4. NothingLost'
    <3>1. ASSUME NEW g \in Groups PROVE ccursor'[g] \in Nat /\ ccursor[g] <= ccursor'[g]
      <4>1. CASE g = w.group  BY <2>2, <4>1
      <4>2. CASE g # w.group
        <5>1. ccursor[g] \in Nat  BY Basics
        <5>2. ccursor'[g] = ccursor[g]  BY <2>1, <4>2
        <5>3. QED  BY <5>1, <5>2
      <4>3. QED  BY <4>1, <4>2
    <3>2. wcursor' # wcursor => wcursor' = seq  BY <1>2
    <3>3. \A s \in (tasks \union ToSet(channel) \union lost)
                     \ (tasks' \union ToSet(channel') \union lost') : s = seq
      <4>1. channel' = channel /\ lost' = lost  BY <1>1
      <4>2. tasks \ tasks' \subseteq {seq}  BY <2>1
      <4>3. QED  BY <4>1, <4>2
    <3>4. QED  BY <1>1, <1>2, <2>2, <3>1, <3>2, <3>3, StepsOver
  <2>5. QED  BY <1>2, <1>3, <2>3, <2>4
<1>5. CASE ~Joins(r)
  <2>1. UNCHANGED <<mls, row, ccursor, tasks>>  BY <1>5, CommitMoves
  <2>2. CursorInv'  BY <1>1, <2>1 DEF CursorInv, CursorOK
  <2>3. wcursor' # wcursor => w.epoch <= ccursor[w.group] /\ wcursor' = seq
    <3>1. SUFFICES ASSUME wcursor' # wcursor PROVE w.epoch <= ccursor[w.group]
      BY <1>2
    <3>2. r = "sync" /\ wcursor' = seq /\ seq = wcursor + 1 /\ wcursor \in Nat
      BY <1>2, <3>1, Basics
    <3>3. RequiresProcessing(r, seq)  BY <3>2 DEF RequiresProcessing
    <3>4. row[w.group].seq = seq  BY <1>5, <3>3 DEF Joins, Duplicate
    <3>5. QED  BY <1>1, <3>2, <3>4 DEF CursorInv, CursorOK
  <2>4. NothingLost'
    <3>1. \A g \in Groups : ccursor'[g] \in Nat /\ ccursor[g] <= ccursor'[g]
      BY <2>1, Basics
    <3>2. ccursor[w.group] \in Nat  BY <1>1, Basics
    <3>3. QED  BY <1>1, <1>2, <2>1, <2>3, <3>1, <3>2, StepsOver
  <2>5. QED  BY <1>2, <1>3, <2>2, <2>4
<1>6. QED  BY <1>4, <1>5

(* ReadInv is an invariant. *)
LEMMA ReadInvariance == Spec => []ReadInv
<1>1. ASSUME Init PROVE ReadInv
  <2>1. readers \in ReaderSets /\ "sync" \in readers
    BY <1>1, WelcomeAssumption DEF Init
  <2>2. row \in [Groups -> GroupRow] /\ \A g \in Groups : row[g].seq = 0
    <3>1. PICK old \in {NoRow, Restored} : row = [g \in Groups |-> old]
      BY <1>1 DEF Init
    <3>2. old \in GroupRow /\ old.seq = 0
      BY DEF NoRow, Restored, GroupRow
    <3>3. QED  BY <3>1, <3>2
  <2>3. TypeInv
    BY <1>1, <2>1, <2>2 DEF Init, TypeInv
  <2>4. BatchInv  BY <1>1, <2>1 DEF Init, BatchInv
  <2>5. CursorInv  BY <1>1, <2>2 DEF Init, CursorInv, CursorOK
  <2>6. NothingLost  BY <1>1 DEF Init, NothingLost
  <2>7. QED  BY <2>3, <2>4, <2>5, <2>6 DEF ReadInv
<1>2. ASSUME ReadInv, [Next]_vars PROVE ReadInv'
  <2>1. ASSUME NEW r \in readers, ReaderStep(r) PROVE ReadInv'
    BY <1>2, <2>1, BeginRead, ValidateRead, CommitRead DEF ReaderStep
  <2>2. CASE \E g \in Groups : \/ ChangeMembership(g) \/ SendWelcome(g)
                               \/ SyncGroup(g) \/ Leave(g) \/ Consent(g)
    BY <1>2, <2>2, OutsideRead, SendRead, SyncGroupRead
  <2>3. CASE \E seq \in DOMAIN topic : SendPointee(seq)
    <3>1. PICK g \in Groups : TRUE
      BY <1>2, <2>3, Basics DEF ReadInv, Welcome
    <3>2. QED  BY <1>2, <2>3, <3>1, OutsideRead
  <2>4. CASE \/ SyncWelcomes \/ Crash \/ StoreTask \/ TaskExpires
             \/ \E r \in readers : Transient(r)
    BY <1>2, <2>4, WorkerRead
  <2>5. CASE UNCHANGED vars
    BY <1>2, <2>5
    DEF vars, ReadInv, TypeInv, BatchInv, InHand, CursorInv, CursorOK, NothingLost
  <2>6. QED  BY <1>2, <2>1, <2>2, <2>3, <2>4, <2>5 DEF Next
<1>3. QED  BY <1>1, <1>2, PTL DEF Spec

(***************************************************************************)
(* No welcome is lost: one at or below the welcome cursor, which no query  *)
(* returns again, was joined, overtaken or does not decrypt, or a task     *)
(* sees to it - whichever queries, streams and tasks race for it and       *)
(* whatever fails.                                                         *)
(***************************************************************************)
THEOREM WelcomesKept == Spec => []NothingLost
<1>1. ReadInv => NothingLost  BY DEF ReadInv
<1>2. QED  BY ReadInvariance, <1>1, PTL

-----------------------------------------------------------------------------
(* Joining, where an installation that may come back has one reader *)

LEMMA Parity ==
  /\ \A n \in Nat : Adds(n + 1) <=> ~Adds(n)
  /\ \A n \in Nat : Adds(2 * n + 1) /\ ~Adds(2 * n)
  /\ \A m, n \in Nat : Adds(m) /\ Adds(n) /\ m < n => m + 1 < n
BY DEF Adds

LEMMA TopicFacts ==
  ASSUME TypeInv, TopicInv
  PROVE  \A k \in DOMAIN topic :
           LET w == topic[k]
           IN /\ w.group \in Groups /\ w.epoch \in Nat /\ Adds(w.epoch)
              /\ w.epoch < 2 * Cardinality(Sent(w.group))
              /\ Cardinality(Sent(w.group)) \in Nat
BY Basics DEF TopicInv, Welcome

(* A group that is never left has one welcome. *)
LEMMA OneWelcome ==
  ASSUME TypeInv, TopicInv, readers # {"sync"}
  PROVE  \A j, k \in DOMAIN topic :
           /\ topic[j].epoch = 1
           /\ topic[j].group = topic[k].group => j = k
<1>1. ASSUME NEW j \in DOMAIN topic PROVE topic[j].epoch = 1
  <2>1. topic[j].group \in Groups /\ topic[j].epoch \in Nat /\ Adds(topic[j].epoch)
    BY TopicFacts
  <2>2. len[topic[j].group] \in Nat  BY <2>1 DEF TypeInv
  <2>3. topic[j].epoch <= 2  BY <2>1, <2>2 DEF TopicInv
  <2>4. QED  BY <2>1, <2>3 DEF Adds
<1>2. ASSUME NEW j \in DOMAIN topic, NEW k \in DOMAIN topic,
             topic[j].group = topic[k].group, j < k
      PROVE  FALSE
  <2>1. topic[j].epoch < topic[k].epoch  BY <1>2 DEF TopicInv
  <2>2. QED  BY <1>1, <2>1
<1>3. QED  BY <1>1, <1>2, Basics

(* What leaves the topic and the groups alone and moves the welcome cursor *)
(* on at most changes nothing here.                                        *)
LEMMA Bystander ==
  ASSUME TypeInv, JoinInv, wcursor' \in Nat, wcursor <= wcursor',
         UNCHANGED <<readers, len, topic, ccursor, row, mls, left, agreed>>
  PROVE  JoinInv'
<1> USE DEF JoinInv
<1>1. TopicInv' /\ LeaveInv'  BY DEF TopicInv, Sent, LeaveInv
<1>2. wcursor \in Nat /\ \A g \in Groups : row[g].seq \in Nat  BY Basics
<1>3. ASSUME NEW g \in Groups PROVE OrderOK(g)'
  <2>1. OrderOK(g)  BY DEF OrderInv
  <2>2. row[g].seq <= wcursor => row'[g].seq <= wcursor'  BY <1>2
  <2>3. QED  BY <2>1, <2>2 DEF OrderOK, Sent, Adds
<1>4. ASSUME NEW k \in DOMAIN topic', Open(k)'
      PROVE  topic'[k].epoch > ccursor'[topic'[k].group]
  <2>1. k \in Nat  BY Basics
  <2>2. Open(k)  BY <1>2, <1>4, <2>1 DEF Open
  <2>3. QED  BY <1>4, <2>2 DEF OrderInv
<1>5. QED  BY <1>1, <1>3, <1>4 DEF OrderInv

LEMMA ChangeMembershipJoin ==
  ASSUME ReadInv, JoinInv, Mixed = FALSE, NEW g \in Groups, ChangeMembership(g)
  PROVE  JoinInv'
<1> USE DEF ReadInv, JoinInv
<1>1. /\ len' = [len EXCEPT ![g] = @ + 1]
      /\ readers # {"sync"} => len[g] < 2
      /\ UNCHANGED <<readers, topic, wcursor, ccursor, row, mls, left, agreed>>
  BY DEF ChangeMembership, MayReturn, user
<1>2. \A h \in Groups : /\ len[h] \in Nat /\ len'[h] \in Nat /\ len[h] <= len'[h]
                        /\ readers # {"sync"} => len'[h] <= 2
  <2>1. \A h \in Groups : len[h] \in Nat /\ (readers # {"sync"} => len[h] <= 2)
    BY DEF TypeInv, TopicInv
  <2>2. len' = [h \in Groups |-> IF h = g THEN len[g] + 1 ELSE len[h]]
    BY <1>1 DEF TypeInv, TopicInv
  <2>3. QED  BY <1>1, <2>1, <2>2
<1>3. TopicInv'
  <2>1. ASSUME NEW k \in DOMAIN topic
        PROVE  topic[k].epoch <= len'[topic[k].group]
    BY <1>2, TopicFacts DEF TopicInv
  <2>2. QED  BY <1>1, <1>2, <2>1 DEF TopicInv, Sent
<1>4. LeaveInv'  BY <1>1 DEF LeaveInv
<1>5. OrderInv'  BY <1>1 DEF OrderInv, OrderOK, Open, Sent
<1>6. QED  BY <1>3, <1>4, <1>5

LEMMA SendWelcomeJoin ==
  ASSUME ReadInv, JoinInv, NEW g \in Groups, SendWelcome(g)
  PROVE  JoinInv'
<1> USE DEF ReadInv, JoinInv
<1> DEFINE n == Len(topic) + 1
<1>1. PICK w \in Welcome : /\ topic' = Append(topic, w) /\ w.group = g
                           /\ w.epoch = 2 * Cardinality(Sent(g)) + 1
                           /\ w.epoch <= len[g]
  BY SendRead
<1>2. /\ UNCHANGED <<readers, len, wcursor, ccursor, row, mls, left, agreed>>
      /\ Len(topic) \in Nat /\ DOMAIN topic = 1..Len(topic)
      /\ DOMAIN topic' = DOMAIN topic \union {n} /\ n \notin DOMAIN topic
      /\ \A k \in DOMAIN topic : topic'[k] = topic[k]
  BY SendRead, Basics DEF SendWelcome, user
<1>3. topic'[n] = w
  BY <1>1, <1>2 DEF TypeInv
<1>4. /\ \A h \in Groups : Cardinality(Sent(h)) \in Nat /\ IsFiniteSet(Sent(h))
      /\ n \notin Sent(g) /\ w.epoch \in Nat
  <2>1. \A h \in Groups : Cardinality(Sent(h)) \in Nat /\ IsFiniteSet(Sent(h))
    BY DEF TopicInv
  <2>2. n \notin Sent(g)  BY <1>2 DEF Sent
  <2>3. w.epoch \in Nat  BY <1>1 DEF Welcome
  <2>4. QED  BY <2>1, <2>2, <2>3
<1>5. PICK T \in [Groups -> SUBSET Nat] : \A h \in Groups : T[h] = Sent(h)'
  <2>1. DOMAIN topic' \subseteq Nat  BY <1>2
  <2>2. [h \in Groups |-> {k \in DOMAIN topic' : topic'[k].group = h}]
          \in [Groups -> SUBSET Nat]
    BY <2>1
  <2>3. QED  BY <2>2 DEF Sent
<1>6. /\ T[g] = Sent(g) \union {n}
      /\ \A h \in Groups \ {g} : T[h] = Sent(h)
  <2>1. ASSUME NEW h \in Groups
        PROVE  T[h] = {k \in DOMAIN topic' : topic'[k].group = h}
    BY <1>5 DEF Sent
  <2>2. QED  BY <1>1, <1>2, <1>3, <2>1 DEF Sent
<1>7. /\ Cardinality(T[g]) = Cardinality(Sent(g)) + 1
      /\ \A h \in Groups : /\ Cardinality(T[h]) \in Nat /\ IsFiniteSet(T[h])
                           /\ Cardinality(Sent(h)) <= Cardinality(T[h])
  <2>1. /\ IsFiniteSet(Sent(g) \union {n})
        /\ Cardinality(Sent(g) \union {n}) = Cardinality(Sent(g)) + 1
    BY <1>4, FS_AddElement
  <2>2. ASSUME NEW h \in Groups
        PROVE  /\ Cardinality(T[h]) \in Nat /\ IsFiniteSet(T[h])
               /\ Cardinality(Sent(h)) <= Cardinality(T[h])
    <3>0. IsFiniteSet(T[g]) /\ Cardinality(T[g]) = Cardinality(Sent(g)) + 1
      BY <1>6, <2>1
    <3>1. CASE h = g
      <4>1. PICK c \in Nat : c = Cardinality(Sent(g))  BY <1>4
      <4>2. Cardinality(T[g]) = c + 1  BY <3>0, <4>1
      <4>3. Cardinality(T[g]) \in Nat /\ c <= Cardinality(T[g])  BY <4>2
      <4>4. QED  BY <3>0, <3>1, <4>1, <4>3
    <3>2. CASE h # g  BY <1>4, <1>6, <3>2
    <3>3. QED  BY <3>1, <3>2
  <2>3. QED  BY <1>6, <2>1, <2>2
<1>8. ASSUME NEW k \in DOMAIN topic
      PROVE  /\ topic[k].group \in Groups /\ topic[k].epoch \in Nat
             /\ Adds(topic[k].epoch)
             /\ topic[k].epoch < 2 * Cardinality(T[topic[k].group])
             /\ topic[k].group = g => topic[k].epoch < w.epoch
  <2>1. /\ topic[k].group \in Groups /\ topic[k].epoch \in Nat
        /\ Adds(topic[k].epoch)
        /\ topic[k].epoch < 2 * Cardinality(Sent(topic[k].group))
    BY TopicFacts
  <2>2. QED  BY <1>1, <1>4, <1>7, <2>1
<1>9. TopicInv'
  <2>1. ASSUME NEW k \in DOMAIN topic'
        PROVE  /\ Adds(topic'[k].epoch)
               /\ topic'[k].epoch < 2 * Cardinality(T[topic'[k].group])
               /\ topic'[k].epoch <= len[topic'[k].group]
               /\ \A j \in DOMAIN topic' :
                    j < k /\ topic'[j].group = topic'[k].group =>
                      topic'[j].epoch < topic'[k].epoch
               /\ topic'[k].group \in Groups
    <3>1. CASE k = n
      <4>1. Adds(w.epoch) /\ w.epoch < 2 * Cardinality(T[g])
        <5>1. PICK c \in Nat : c = Cardinality(Sent(g))  BY <1>4
        <5>2. w.epoch = 2 * c + 1 /\ Cardinality(T[g]) = c + 1
          BY <1>1, <1>7, <5>1
        <5>3. QED  BY <5>2, Parity
      <4>2. \A j \in DOMAIN topic' : j < n => j \in DOMAIN topic
        BY <1>2
      <4>3. QED  BY <1>1, <1>2, <1>3, <1>8, <3>1, <4>1, <4>2
    <3>2. CASE k \in DOMAIN topic
      <4>1. \A j \in DOMAIN topic' : j < k => j \in DOMAIN topic
        BY <1>2, <3>2
      <4>2. /\ topic[k].epoch <= len[topic[k].group]
            /\ \A j \in DOMAIN topic : j < k /\ topic[j].group = topic[k].group =>
                 topic[j].epoch < topic[k].epoch
        BY <3>2 DEF TopicInv
      <4>3. QED  BY <1>2, <1>8, <3>2, <4>1, <4>2
    <3>3. QED  BY <1>2, <3>1, <3>2
  <2>2. \A h \in Groups : Cardinality(Sent(h))' = Cardinality(T[h])
                          /\ IsFiniteSet(Sent(h))' = IsFiniteSet(T[h])
    BY <1>5
  <2>3. ASSUME NEW k \in DOMAIN topic'
        PROVE  (LET v == topic[k] IN v.epoch < 2 * Cardinality(Sent(v.group)))'
    <3>1. PICK h \in Groups : h = topic'[k].group  BY <2>1
    <3>2. QED  BY <2>1, <2>2, <3>1
  <2>4. QED  BY <1>2, <1>7, <2>1, <2>2, <2>3 DEF TopicInv
<1>10. LeaveInv'  BY <1>2 DEF LeaveInv
<1>11. OrderInv'
  <2>1. ASSUME NEW h \in Groups PROVE OrderOK(h)'
    <3>1. OrderOK(h) /\ Cardinality(Sent(h))' = Cardinality(T[h])
      BY <1>5 DEF OrderInv
    <3>2. Cardinality(Sent(h)) <= Cardinality(T[h]) /\ ccursor[h] \in Nat
      BY <1>7, Basics
    <3>3. ccursor[h] <= 2 * Cardinality(T[h])
      BY <1>4, <1>7, <3>1, <3>2 DEF OrderOK
    <3>4. QED  BY <1>2, <3>1, <3>3 DEF OrderOK, Adds
  <2>2. ASSUME NEW k \in DOMAIN topic', Open(k)'
        PROVE  topic'[k].epoch > ccursor'[topic'[k].group]
    <3>1. CASE k = n
      <4>1. ccursor[g] <= 2 * Cardinality(Sent(g)) /\ ccursor[g] \in Nat
        BY Basics DEF OrderInv, OrderOK
      <4>2. w.epoch > ccursor[g]  BY <1>1, <1>4, <4>1
      <4>3. QED  BY <1>1, <1>2, <1>3, <3>1, <4>2
    <3>2. CASE k \in DOMAIN topic
      <4>1. Open(k)  BY <1>2, <2>2, <3>2 DEF Open
      <4>2. topic[k].epoch > ccursor[topic[k].group]
        BY <3>2, <4>1 DEF OrderInv
      <4>3. QED  BY <1>2, <3>2, <4>2
    <3>3. QED  BY <1>2, <3>1, <3>2
  <2>3. QED  BY <2>1, <2>2 DEF OrderInv
<1>12. QED  BY <1>9, <1>10, <1>11

(* A group in step moves from one parity to the other, and no open welcome *)
(* is for the position it moves to.                                        *)
LEMMA SyncGroupJoin ==
  ASSUME ReadInv, JoinInv, NEW g \in Groups, SyncGroup(g)
  PROVE  JoinInv'
<1> USE DEF ReadInv, JoinInv
<1>0. /\ OrderOK(g) /\ ccursor[g] \in Nat /\ mls[g].active
      /\ mls[g].epoch = ccursor[g] /\ Adds(ccursor[g])
      /\ Cardinality(Sent(g)) \in Nat
  BY Basics DEF SyncGroup, OrderInv, OrderOK, TopicInv
<1>1. /\ UNCHANGED <<readers, len, topic, wcursor, row, left, agreed>>
      /\ ccursor' = [ccursor EXCEPT ![g] = ccursor[g] + 1]
      /\ mls' = [mls EXCEPT ![g] = [epoch |-> ccursor'[g],
                                    active |-> Adds(ccursor'[g])]]
  BY <1>0 DEF SyncGroup, network, user
<1>2. /\ ccursor'[g] = ccursor[g] + 1
      /\ mls'[g].epoch = ccursor'[g] /\ mls'[g].active = Adds(ccursor'[g])
      /\ \A h \in Groups \ {g} : ccursor'[h] = ccursor[h] /\ mls'[h] = mls[h]
  BY <1>1 DEF TypeInv
<1>3. ~Adds(ccursor[g] + 1) /\ ~mls'[g].active
  BY <1>0, <1>2, Parity
<1>4. TopicInv'  BY <1>1 DEF TopicInv, Sent
<1>5. LeaveInv'
  <2>1. ASSUME NEW h \in Groups
        PROVE  IF row[h].membership = "PendingRemove"
               THEN /\ readers = {"sync"} /\ row[h].seq # 0
                    /\ mls'[h].active => mls'[h].epoch <= left[h]
               ELSE row[h].consent = "allowed" => agreed[h]
    <3>1. CASE h = g  BY <1>3, <3>1 DEF LeaveInv
    <3>2. CASE h # g  BY <1>2, <3>2 DEF LeaveInv
    <3>3. QED  BY <3>1, <3>2
  <2>2. QED  BY <1>1, <2>1 DEF LeaveInv
<1>6. OrderInv'
  <2>1. ASSUME NEW h \in Groups PROVE OrderOK(h)'
    <3>1. CASE h # g
      BY <1>1, <1>2, <3>1 DEF OrderInv, OrderOK, Sent, Adds
    <3>2. OrderOK(g)'
      <4>1. ccursor[g] # 2 * Cardinality(Sent(g))  BY <1>0, Parity
      <4>2. ccursor[g] + 1 <= 2 * Cardinality(Sent(g))
        BY <1>0, <4>1 DEF OrderOK
      <4>3. readers = {"sync"} => row[g].seq <= wcursor  BY <1>0 DEF OrderOK
      <4>4. (mls[g].active <=> Adds(ccursor[g]))'  BY <1>2 DEF Adds
      <4>5. QED  BY <1>1, <1>2, <1>3, <4>2, <4>3, <4>4 DEF OrderOK, Sent
    <3>3. QED  BY <3>1, <3>2
  <2>2. ASSUME NEW k \in DOMAIN topic', Open(k)'
        PROVE  topic'[k].epoch > ccursor'[topic'[k].group]
    <3>1. /\ k \in DOMAIN topic /\ topic' = topic /\ Open(k)
          /\ topic[k].epoch > ccursor[topic[k].group]
      BY <1>1, <2>2 DEF Open, OrderInv
    <3>2. /\ topic[k].group \in Groups /\ topic[k].epoch \in Nat
          /\ Adds(topic[k].epoch)
      BY <3>1, TopicFacts
    <3>3. CASE topic[k].group # g  BY <1>2, <3>1, <3>2, <3>3
    <3>4. CASE topic[k].group = g
      <4>1. ccursor[g] < topic[k].epoch  BY <1>0, <3>1, <3>2, <3>4
      <4>2. ccursor[g] + 1 < topic[k].epoch  BY <1>0, <3>2, <4>1, Parity
      <4>3. QED  BY <1>0, <1>2, <3>1, <3>2, <3>4, <4>2
    <3>5. QED  BY <3>3, <3>4
  <2>3. QED  BY <2>1, <2>2 DEF OrderInv
<1>7. QED  BY <1>4, <1>5, <1>6

(* The user, who only leaves where one reader is at work *)
LEMMA UserJoin ==
  ASSUME ReadInv, JoinInv, Mixed = FALSE, NEW g \in Groups, Leave(g) \/ Consent(g)
  PROVE  JoinInv'
<1> USE DEF ReadInv, JoinInv
<1>1. /\ UNCHANGED <<readers, len, topic, wcursor, ccursor, mls>>
      /\ readers = {"sync"} /\ mls[g].active
  BY DEF Leave, Consent, MayReturn, network
<1>2. row \in [Groups -> GroupRow] /\ row[g] \in GroupRow /\ mls[g].epoch \in Nat
  BY Basics DEF TypeInv
<1>3. row[g].seq # 0  BY <1>1 DEF OrderInv, OrderOK
<1>4. PICK x : x = row'[g]  OBVIOUS
<1>5. /\ \A h \in Groups \ {g} : row'[h] = row[h] /\ left'[h] = left[h]
                                 /\ agreed'[h] = agreed[h]
      /\ x.seq = row[g].seq
      /\ IF x.membership = "PendingRemove"
         THEN mls[g].epoch <= left'[g]
         ELSE x.consent = "allowed" => agreed'[g]
  <2>1. CASE Leave(g)
    <3>1. /\ row' = [row EXCEPT ![g].membership = "PendingRemove"]
          /\ left' = [left EXCEPT ![g] = mls[g].epoch]
          /\ agreed' = [agreed EXCEPT ![g] = FALSE]
      BY <2>1 DEF Leave
    <3>2. x = [row[g] EXCEPT !.membership = "PendingRemove"]
      BY <1>2, <1>4, <3>1
    <3>3. x.membership = "PendingRemove" /\ x.seq = row[g].seq
      BY <1>2, <3>2 DEF GroupRow
    <3>4. /\ left'[g] = mls[g].epoch
          /\ \A h \in Groups \ {g} : row'[h] = row[h] /\ left'[h] = left[h]
                                     /\ agreed'[h] = agreed[h]
      BY <1>2, <3>1 DEF TypeInv
    <3>5. QED  BY <1>2, <3>3, <3>4
  <2>2. CASE Consent(g)
    <3>1. /\ row' = [row EXCEPT ![g].consent = "allowed"]
          /\ agreed' = [agreed EXCEPT ![g] = TRUE] /\ left' = left
      BY <2>2 DEF Consent
    <3>2. x = [row[g] EXCEPT !.consent = "allowed"]
      BY <1>2, <1>4, <3>1
    <3>3. x.membership = row[g].membership /\ x.seq = row[g].seq
      BY <1>2, <3>2 DEF GroupRow
    <3>4. /\ agreed'[g] = TRUE
          /\ \A h \in Groups \ {g} : row'[h] = row[h] /\ left'[h] = left[h]
                                     /\ agreed'[h] = agreed[h]
      BY <1>2, <3>1 DEF TypeInv
    <3>5. row[g].membership = "PendingRemove" => mls[g].epoch <= left[g]
      BY <1>1 DEF LeaveInv
    <3>6. QED  BY <3>1, <3>3, <3>4, <3>5
  <2>3. QED  BY <2>1, <2>2
<1>6. TopicInv'  BY <1>1 DEF TopicInv, Sent
<1>7. LeaveInv'
  <2>1. ASSUME NEW h \in Groups
        PROVE  IF row'[h].membership = "PendingRemove"
               THEN /\ readers = {"sync"} /\ row'[h].seq # 0
                    /\ mls[h].active => mls[h].epoch <= left'[h]
               ELSE row'[h].consent = "allowed" => agreed'[h]
    <3>1. CASE h = g  BY <1>1, <1>3, <1>4, <1>5, <3>1
    <3>2. CASE h # g  BY <1>5, <3>2 DEF LeaveInv
    <3>3. QED  BY <3>1, <3>2
  <2>2. QED  BY <1>1, <2>1 DEF LeaveInv
<1>8. OrderInv'
  <2>1. \A h \in Groups : row'[h].seq = row[h].seq  BY <1>4, <1>5
  <2>2. ASSUME NEW h \in Groups PROVE OrderOK(h)'
    <3>1. OrderOK(h)  BY DEF OrderInv
    <3>2. QED  BY <1>1, <2>1, <3>1 DEF OrderOK, Sent, Adds
  <2>3. QED  BY <1>1, <2>2 DEF OrderInv, Open
<1>9. QED  BY <1>6, <1>7, <1>8

(* A welcome that is joined is the next of its group: with one reader it   *)
(* lies behind the cursor, with several it is the group's only one.        *)
LEMMA JoinsLater ==
  ASSUME ReadInv, JoinInv, NEW r \in readers, Commit(r), Joins(r)
  PROVE  LET seq == at[r].seq
             w == topic[seq]
         IN /\ w.epoch > ccursor[w.group]
            /\ row[w.group].seq < seq
            /\ readers = {"sync"} => wcursor' = seq /\ wcursor < seq
<1> DEFINE seq == at[r].seq
           w == topic[seq]
<1> USE DEF ReadInv, JoinInv
<1>1. /\ at[r] # Idle /\ seq \in DOMAIN topic /\ w.group \in Groups
      /\ seq \in Nat \ {0} /\ wcursor \in Nat /\ row[w.group].seq \in Nat
      /\ MoveCursor(r, seq)
  BY CommitMoves, Basics
<1>2. CASE readers = {"sync"}
  <2>1. r = "sync" /\ seq = wcursor + 1  BY <1>1, <1>2 DEF BatchInv
  <2>2. wcursor' = seq /\ wcursor < seq
    BY <1>1, <2>1 DEF MoveCursor, CursorIncrement
  <2>3. Open(seq)  BY <1>2, <2>2 DEF Open
  <2>4. row[w.group].seq <= wcursor  BY <1>1, <1>2 DEF OrderInv, OrderOK
  <2>5. QED  BY <1>1, <2>2, <2>3, <2>4 DEF OrderInv
<1>3. CASE readers # {"sync"}
  <2>1. row[w.group].seq # seq  BY DEF Joins, Duplicate
  <2>2. Open(seq)  BY <1>3, <2>1 DEF Open
  <2>3. row[w.group].seq = 0
    <3>1. SUFFICES ASSUME row[w.group].seq # 0 PROVE FALSE  OBVIOUS
    <3>2. /\ row[w.group].seq \in DOMAIN topic
          /\ topic[row[w.group].seq].group = w.group
      BY <1>1, <3>1 DEF CursorInv, CursorOK
    <3>3. QED  BY <1>1, <1>3, <2>1, <3>2, OneWelcome
  <2>4. QED  BY <1>1, <1>3, <2>2, <2>3 DEF OrderInv
<1>4. QED  BY <1>2, <1>3

LEMMA CommitJoin ==
  ASSUME ReadInv, JoinInv, NEW r \in readers, Commit(r)
  PROVE  JoinInv'
<1> DEFINE seq == at[r].seq
           w == topic[seq]
<1> USE DEF ReadInv, JoinInv
<1>1. /\ at[r] # Idle /\ seq \in DOMAIN topic /\ seq \in Nat /\ wcursor \in Nat
      /\ w.group \in Groups /\ w.epoch \in Nat
      /\ UNCHANGED <<readers, len, topic, left, agreed>>
      /\ MoveCursor(r, seq)
  BY CommitMoves, Basics
<1>2. CASE ~Joins(r)
  <2>1. UNCHANGED <<mls, row, ccursor>>  BY <1>2, CommitMoves
  <2>2. wcursor' \in Nat /\ wcursor <= wcursor'  BY <1>1 DEF MoveCursor
  <2>3. QED  BY <1>1, <2>1, <2>2, Bystander
<1>3. CASE Joins(r)
  <2>1. PICK g \in Groups : g = w.group  BY <1>1
  <2>2. /\ w.epoch > ccursor[g] /\ row[g].seq < seq
        /\ readers = {"sync"} => wcursor' = seq /\ wcursor < seq
    BY <1>3, <2>1, JoinsLater
  <2>3. PICK new : new = Stored(seq)  OBVIOUS
  <2>4. /\ mls'[g].epoch = w.epoch /\ mls'[g].active = TRUE
        /\ row'[g] = new /\ ccursor'[g] = w.epoch
        /\ \A h \in Groups \ {g} :
             /\ mls'[h] = mls[h] /\ row'[h] = row[h] /\ ccursor'[h] = ccursor[h]
    <3>1. /\ mls'[w.group] = [epoch |-> w.epoch, active |-> TRUE]
          /\ row'[w.group] = Stored(seq)
          /\ ccursor'[w.group] = IF w.epoch > ccursor[w.group] THEN w.epoch
                                 ELSE ccursor[w.group]
          /\ \A h \in Groups \ {w.group} :
               /\ mls'[h] = mls[h] /\ row'[h] = row[h] /\ ccursor'[h] = ccursor[h]
      BY <1>3, CommitMoves
    <3>2. mls'[g] = [epoch |-> w.epoch, active |-> TRUE]  BY <2>1, <3>1
    <3>3. mls'[g].epoch = w.epoch /\ mls'[g].active = TRUE  BY <3>2
    <3>4. row'[g] = new /\ ccursor'[g] = w.epoch  BY <2>1, <2>2, <2>3, <3>1
    <3>5. QED  BY <2>1, <3>1, <3>3, <3>4
  <2>5. /\ new.seq = seq
        /\ new.membership = "PendingRemove" => row[g].membership = "PendingRemove"
        /\ (row[g].membership = "PendingRemove" /\ Readd(seq)) =>
             (new.membership = "Allowed" /\ new.consent = "unknown")
        /\ \/ new.consent = "unknown"
           \/ new.consent = row[g].consent /\ new.membership = row[g].membership
    BY <1>1, <2>1, <2>2, <2>3, StoredRow
  <2>6. TopicInv'  BY <1>1 DEF TopicInv, Sent
  <2>7. LeaveInv'
    <3>1. new.membership # "PendingRemove"
      <4>1. SUFFICES ASSUME row[g].membership = "PendingRemove" PROVE Readd(seq)
        BY <2>5
      <4>2. row[g].seq # 0  BY <4>1 DEF LeaveInv
      <4>3. QED  BY <1>1, <2>1, <2>2, <4>1, <4>2, Basics DEF Readd
    <3>2. new.consent = "allowed" => agreed[g]
      BY <2>5, <3>1 DEF LeaveInv
    <3>3. ASSUME NEW h \in Groups
          PROVE  IF row'[h].membership = "PendingRemove"
                 THEN /\ readers = {"sync"} /\ row'[h].seq # 0
                      /\ mls'[h].active => mls'[h].epoch <= left[h]
                 ELSE row'[h].consent = "allowed" => agreed[h]
      <4>1. CASE h = g  BY <2>4, <3>1, <3>2, <4>1
      <4>2. CASE h # g  BY <2>4, <4>2 DEF LeaveInv
      <4>3. QED  BY <4>1, <4>2
    <3>4. QED  BY <1>1, <3>3 DEF LeaveInv
  <2>8. ASSUME NEW h \in Groups PROVE OrderOK(h)'
    <3>0. OrderOK(h) /\ row[h].seq \in Nat  BY Basics DEF OrderInv
    <3>1. CASE h # g
      <4>1. readers = {"sync"} => row[h].seq <= wcursor'
        BY <1>1, <2>2, <3>0 DEF OrderOK
      <4>2. QED  BY <1>1, <2>4, <3>0, <3>1, <4>1 DEF OrderOK, Sent, Adds
    <3>2. OrderOK(g)'
      <4>1. /\ Adds(w.epoch) /\ Cardinality(Sent(g)) \in Nat
            /\ w.epoch < 2 * Cardinality(Sent(g))
        BY <1>1, <2>1, TopicFacts
      <4>2. readers = {"sync"} => row'[g].seq <= wcursor'
        BY <1>1, <2>2, <2>4, <2>5
      <4>3. seq # 0  BY <2>2, Basics
      <4>4. (mls[g].active <=> Adds(ccursor[g]))'  BY <2>4, <4>1 DEF Adds
      <4>5. ccursor'[g] <= 2 * Cardinality(Sent(g))  BY <1>1, <2>4, <4>1
      <4>6. QED  BY <1>1, <2>4, <2>5, <4>2, <4>3, <4>4, <4>5 DEF OrderOK, Sent
    <3>3. QED  BY <3>1, <3>2
  <2>9. ASSUME NEW k \in DOMAIN topic, Open(k)'
        PROVE  topic[k].epoch > ccursor'[topic[k].group]
    <3>1. topic[k].group \in Groups /\ topic[k].epoch \in Nat /\ k \in Nat
      BY TopicFacts, Basics
    <3>2. CASE topic[k].group # g
      <4>1. Open(k)  BY <1>1, <2>2, <2>4, <2>9, <3>1, <3>2 DEF Open
      <4>2. QED  BY <2>4, <3>1, <3>2, <4>1 DEF OrderInv
    <3>3. CASE topic[k].group = g
      <4>1. k # seq  BY <1>1, <2>2, <2>4, <2>5, <2>9, <3>3 DEF Open
      <4>2. readers = {"sync"}  BY <1>1, <2>1, <3>3, <4>1, OneWelcome
      <4>3. seq < k  BY <1>1, <2>2, <2>9, <4>2 DEF Open
      <4>4. w.epoch < topic[k].epoch  BY <1>1, <2>1, <3>3, <4>3 DEF TopicInv
      <4>5. QED  BY <1>1, <2>4, <3>1, <3>3, <4>4
    <3>4. QED  BY <3>2, <3>3
  <2>10. QED  BY <1>1, <2>6, <2>7, <2>8, <2>9 DEF OrderInv
<1>4. QED  BY <1>2, <1>3

(* JoinInv is an invariant, as long as who may return has one reader. *)
LEMMA JoinInvariance ==
  ASSUME Mixed = FALSE
  PROVE  Spec => []JoinInv
<1>1. ASSUME Init, TypeInv PROVE JoinInv
  <2>1. /\ len = [g \in Groups |-> 0] /\ topic = << >> /\ wcursor = 0
        /\ ccursor = [g \in Groups |-> 0]
        /\ mls = [g \in Groups |-> [epoch |-> 0, active |-> FALSE]]
    BY <1>1 DEF Init
  <2>2. \A g \in Groups : /\ row[g].seq = 0 /\ row[g].membership # "PendingRemove"
                          /\ row[g].consent = "unknown"
    <3>1. PICK old \in {NoRow, Restored} : row = [g \in Groups |-> old]
      BY <1>1 DEF Init
    <3>2. /\ old.seq = 0 /\ old.membership # "PendingRemove"
          /\ old.consent = "unknown"
      BY DEF NoRow, Restored
    <3>3. QED  BY <3>1, <3>2
  <2>3. \A g \in Groups : Sent(g) = {} /\ Cardinality(Sent(g)) = 0
                          /\ IsFiniteSet(Sent(g))
    BY <2>1, FS_EmptySet DEF Sent
  <2>4. DOMAIN topic = {}  BY <2>1
  <2>5. TopicInv  BY <2>1, <2>3, <2>4 DEF TopicInv
  <2>6. LeaveInv  BY <2>2 DEF LeaveInv
  <2>7. \A g \in Groups : OrderOK(g)
    BY <2>1, <2>2, <2>3 DEF OrderOK, Adds
  <2>8. QED  BY <2>4, <2>5, <2>6, <2>7 DEF JoinInv, OrderInv
<1>2. ASSUME ReadInv, JoinInv, [Next]_vars PROVE JoinInv'
  <2>0. TypeInv /\ wcursor \in Nat  BY <1>2, Basics DEF ReadInv
  <2>1. CASE \E g \in Groups : \/ ChangeMembership(g) \/ SendWelcome(g)
                               \/ SyncGroup(g) \/ Leave(g) \/ Consent(g)
    BY <1>2, <2>1, ChangeMembershipJoin, SendWelcomeJoin, SyncGroupJoin, UserJoin
  <2>2. CASE \E seq \in DOMAIN topic : SendPointee(seq)
    BY <1>2, <2>0, <2>2, Bystander DEF SendPointee, user
  <2>3. CASE SyncWelcomes \/ Crash \/ StoreTask \/ TaskExpires
    BY <1>2, <2>0, <2>3, Bystander
    DEF SyncWelcomes, Crash, StoreTask, TaskExpires, network, user
  <2>4. ASSUME NEW r \in readers, ReaderStep(r) \/ Transient(r) PROVE JoinInv'
    <3>1. CASE \/ \E seq \in Takes(r) : Begin(r, seq)
               \/ Transient(r)
      <4>1. UNCHANGED <<readers, len, topic, wcursor, ccursor, row, mls, left, agreed>>
        BY <3>1 DEF Begin, Transient, network, user
      <4>2. QED  BY <1>2, <2>0, <4>1, Bystander
    <3>2. CASE Validate(r)
      <4>1. at[r] # Idle /\ at[r].seq \in Nat
        <5>1. at[r].step = "validate"  BY <3>2 DEF Validate
        <5>2. QED  BY <2>0, <5>1, Basics DEF Idle
      <4>2. /\ wcursor' \in {wcursor, at[r].seq} /\ wcursor <= wcursor'
            /\ UNCHANGED <<readers, len, topic, ccursor, row, mls, left, agreed>>
        <5>1. MoveCursor(r, at[r].seq) \/ wcursor' = wcursor
          BY <3>2 DEF Validate
        <5>2. UNCHANGED <<readers, len, topic, ccursor, row, mls, left, agreed>>
          BY <3>2 DEF Validate, network, user
        <5>3. QED  BY <2>0, <4>1, <5>1, <5>2 DEF MoveCursor
      <4>3. QED  BY <1>2, <2>0, <4>1, <4>2, Bystander
    <3>3. CASE Commit(r)  BY <1>2, <3>3, CommitJoin
    <3>4. QED  BY <2>4, <3>1, <3>2, <3>3 DEF ReaderStep
  <2>5. CASE UNCHANGED vars
    BY <1>2, <2>0, <2>5, Bystander DEF vars
  <2>6. QED  BY <1>2, <2>1, <2>2, <2>3, <2>4, <2>5 DEF Next
<1>3. ReadInv => TypeInv  BY DEF ReadInv
<1>4. QED  BY <1>1, <1>2, <1>3, ReadInvariance, PTL DEF Spec

(***************************************************************************)
(* A group's MLS state is the one its commit cursor names: with several    *)
(* readers for a group's one welcome, or one reader for all of them, no    *)
(* stale welcome takes a group back.                                       *)
(***************************************************************************)
THEOREM JoinedWhereTheCursorIs ==
  ASSUME Mixed = FALSE
  PROVE  Spec => []StateAtCursor
<1>1. JoinInv => StateAtCursor
  BY DEF JoinInv, OrderInv, OrderOK, StateAtCursor
<1>2. QED  BY JoinInvariance, <1>1, PTL

(***************************************************************************)
(* Who has left a group and is added again is a member again, and is asked *)
(* for consent again: the welcome that brings it back is recognised by the *)
(* row of the group it left, however the steps of the two interleave.      *)
(***************************************************************************)
THEOREM ReturningIsAsked ==
  ASSUME Mixed = FALSE
  PROVE  Spec => []LeaverAskedAgain
<1>1. ReadInv /\ JoinInv => LeaverAskedAgain
  <2>1. ASSUME ReadInv, LeaveInv, NEW g \in Groups, mls[g].active,
               mls[g].epoch > left[g]
        PROVE  /\ row[g].membership # "PendingRemove"
               /\ row[g].consent = "allowed" => agreed[g]
    <3>1. mls[g].epoch \in Nat /\ left[g] \in Nat
      BY <2>1, Basics DEF ReadInv, TypeInv
    <3>2. QED  BY <2>1, <3>1 DEF LeaveInv
  <2>2. QED  BY <2>1 DEF JoinInv, LeaverAskedAgain
<1>2. QED  BY ReadInvariance, JoinInvariance, <1>1, PTL
=============================================================================
