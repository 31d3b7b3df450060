------------------------- MODULE CommitLog_proofs -------------------------
(***************************************************************************)
(* What the commit log worker concludes is right: nobody is declared       *)
(* forked in a group nobody diverged in, a clean verdict means an epoch    *)
(* that the consensus knows, installations save the same consensus, the    *)
(* upload cursor passes nothing that was not published, who asks to be     *)
(* added again is added again once, and a divergence is noticed.           *)
(***************************************************************************)
EXTENDS CommitLog, FiniteSetTheorems, WellFoundedInduction, TLAPS

-----------------------------------------------------------------------------
(* Types *)

Hist == Seq(Nat)
Key == Inst \cup {None}
GroupCommit ==
  [by : Inst, base : Hist, removes : SUBSET Inst, adds : SUBSET Inst, key : Key]
CommitType == {"GroupCreation", "Welcome", "Applied", "Failed", "RemovedFromGroup"}
LocalRow == [type : CommitType, seq : Nat, last : Hist, applied : Hist]
Entry == [seq : Nat, ok : BOOLEAN, last : Hist, applied : Hist, key : Inst]
SavedRow == [seq : Nat, ok : BOOLEAN, applied : Hist]

NetTypes ==
  /\ commits \in Seq(GroupCommit) /\ Len(commits) > 0
  /\ welcomes \in [Inst -> SUBSET Nat]
  /\ \A i \in Inst : welcomes[i] \subseteq DOMAIN commits
  /\ log \in Seq(Entry)
  /\ mls \in [Inst -> [hist : Hist, active : BOOLEAN, cursor : Nat]]

LogTypes ==
  /\ rows \in [Inst -> Seq(LocalRow)]
  /\ remote \in [Inst -> Seq(SavedRow)]
  /\ cur \in [Inst -> [download : Nat, upload : Nat, local : Nat, rem : Nat]]
  /\ keys \in [Inst -> [signer : Key, consensus : Key]]
  /\ status \in [Inst -> {"unknown", "clean", "forked"}]
  /\ glitches \in Nat

(* A history is made of commits of the group. *)
Histories ==
  /\ \A i \in Inst : Range(mls[i].hist) \subseteq DOMAIN commits /\ mls[i].cursor \in DOMAIN commits
  /\ \A c \in DOMAIN commits : Range(commits[c].base) \subseteq DOMAIN commits

(* The local log of a group starts with how the group was got, and the     *)
(* cursors stay within the logs.                                           *)
Cursors ==
  \A i \in Inst :
    /\ rows[i] # <<>> /\ rows[i][1].seq = 0
    /\ cur[i].local <= Len(rows[i]) /\ cur[i].upload <= Len(rows[i])
    /\ cur[i].download <= Len(log)

TypeInv == NetTypes /\ LogTypes /\ Histories /\ Cursors

-----------------------------------------------------------------------------
(* The inductive invariants *)

(* Nobody has asked to be added again. *)
Quiet == \A i \in Inst : mail[i] = {} /\ \A j \in Inst : asked[i][j] = 0

(* The last local row is the epoch the installation is at. *)
LastRow(i) ==
  mls[i].active => Last(rows[i]).applied = mls[i].hist /\ ~RemovesUs(Last(rows[i]))

(* The newest row passed by the fork check that can be compared is one the *)
(* saved log has; after it come only removals of the installation itself.  *)
Compared(i, n) ==
  /\ n \in 1..cur[i].local
  /\ \E m \in DOMAIN remote[i] : remote[i][m].applied = rows[i][n].applied
  /\ \A k \in n + 1 .. cur[i].local : RemovesUs(rows[i][k])

CleanInv ==
  \A i \in Inst :
    /\ LastRow(i)
    /\ status[i] = "clean" => \E n \in 1..cur[i].local : Compared(i, n)

(* The epochs of a group in which nobody diverges: ch[c] is where everyone *)
(* is who has processed the commits up to c.                               *)
Wins(ch, c) == commits[c].base = ch[c - 1]

IsChain(ch) ==
  /\ ch \in [0..Len(commits) -> Hist] /\ ch[0] = <<>>
  /\ \A c \in DOMAIN commits :
       /\ ch[c] = IF Wins(ch, c) THEN Append(ch[c - 1], c) ELSE ch[c - 1]
       /\ Range(ch[c]) = {d \in 1..c : Wins(ch, d)}

Positions(ch) == \A i \in Inst : mls[i].active => mls[i].hist = ch[mls[i].cursor]

(* Every epoch that was recorded, published or saved is one of them. *)
KnownAt(ch, seq, applied) == seq \in DOMAIN commits /\ applied = ch[seq]

RowOK(ch, r) ==
  r.seq # 0 => IF r.type = "RemovedFromGroup" THEN RemovesUs(r) ELSE KnownAt(ch, r.seq, r.applied)

RowsRecorded(ch) == \A i \in Inst : \A n \in DOMAIN rows[i] : RowOK(ch, rows[i][n])
LogRecorded(ch) == \A k \in DOMAIN log : KnownAt(ch, log[k].seq, log[k].applied)
SavedRecorded(ch) ==
  \A i \in Inst : \A m \in DOMAIN remote[i] : KnownAt(ch, remote[i][m].seq, remote[i][m].applied)

Recorded(ch) == RowsRecorded(ch) /\ LogRecorded(ch) /\ SavedRecorded(ch)

(* Only the creator adds and removes, never itself, and never both. *)
Shape(x) ==
  /\ x.adds = {} \/ x.removes = {}
  /\ x.adds # {} => x.by = Creator
  /\ Creator \notin x.adds \cup x.removes

Shapes ==
  /\ \A c \in DOMAIN commits : c > 1 => Shape(commits[c])
  /\ commits[1].base = <<>> /\ commits[1].removes = {} /\ commits[1].adds = Inst
  /\ mls[Creator].active

(* The commits of the chain that add and remove j; an addition is pending  *)
(* until j has read its welcome.                                           *)
AddsTo(ch, j, c) == c \in DOMAIN commits /\ c > 1 /\ Wins(ch, c) /\ j \in commits[c].adds
RemovesFrom(ch, j, c) == c \in DOMAIN commits /\ Wins(ch, c) /\ j \in commits[c].removes
Pending(j, c) == c \in welcomes[j] \/ mls[Creator].cursor < c

Sent(ch) == \A j \in Inst : \A c \in welcomes[j] : AddsTo(ch, j, c) /\ c <= mls[Creator].cursor

(* Between two additions of j there is a removal. *)
Alternates(ch) ==
  \A j \in Inst : \A c \in DOMAIN commits :
    AddsTo(ch, j, c) =>
      \E r \in 1..c - 1 : RemovesFrom(ch, j, r) /\ \A d \in r..c - 1 : ~AddsTo(ch, j, d)

(* Welcomes are read in order. *)
LaterPending(ch, j, c) == \A d \in DOMAIN commits : d > c /\ AddsTo(ch, j, d) => Pending(j, d)

InOrder(ch) ==
  \A j \in Inst : \A c \in DOMAIN commits :
    AddsTo(ch, j, c) /\ Pending(j, c) => LaterPending(ch, j, c)

(* An installation does not go past the commit that removes it before it   *)
(* reads a later welcome.                                                  *)
Before(j, r) == mls[j].cursor <= r /\ (mls[j].cursor = r => ~mls[j].active)

Obeyed(ch) ==
  \A j \in Inst : \A r \in DOMAIN commits :
    RemovesFrom(ch, j, r) /\ LaterPending(ch, j, r) => Before(j, r)

Membership(ch) == Shapes /\ Sent(ch) /\ Alternates(ch) /\ InOrder(ch) /\ Obeyed(ch)

OneChain(ch) == IsChain(ch) /\ Positions(ch) /\ Recorded(ch) /\ Membership(ch)

AlarmInv == glitches = 0 => Quiet /\ NoFalseAlarm /\ \E ch : OneChain(ch)

-----------------------------------------------------------------------------
(* Least and greatest elements, and sequences *)

LEMMA Least ==
  ASSUME NEW S, S \subseteq Nat, S # {}
  PROVE  Min(S) \in S /\ \A n \in S : Min(S) <= n
<1> DEFINE R == {ss \in Nat \X Nat : ss[1] < ss[2]}
<1>1. IsWellFoundedOn(R, Nat)
  <2>1. R = OpToRel(<, Nat)  BY DEF OpToRel
  <2>2. IsWellFoundedOn(OpToRel(<, Nat), Nat)  BY NatLessThanWellFounded
  <2>3. QED  BY <2>1, <2>2
<1>2. \E m \in S : \A n \in S : ~(<<n, m>> \in R)
  <2> HIDE DEF R
  <2>1. QED  BY <1>1, WFMin
<1>3. \E m \in S : \A n \in S : m <= n
  <2>1. \A m, n \in S : n < m => <<n, m>> \in R  OBVIOUS
  <2>2. PICK m \in S : \A n \in S : ~(<<n, m>> \in R)  BY <1>2
  <2>3. \A n \in S : m \in Nat /\ n \in Nat /\ ~(n < m)  BY <2>1, <2>2
  <2>4. \A n \in S : m <= n  BY <2>3
  <2>5. QED  BY <2>4
<1>4. QED  BY <1>3 DEF Min

LEMMA Greatest ==
  ASSUME NEW S, S \subseteq Nat, S # {}, NEW b \in Nat, \A n \in S : n <= b
  PROVE  Max(S) \in S /\ \A n \in S : n <= Max(S)
<1> DEFINE B == {m \in Nat : \A n \in S : n <= m}
<1>1. B \subseteq Nat /\ B # {}  OBVIOUS
<1>2. PICK m : m = Min(B)  OBVIOUS
<1>3. m \in B /\ \A n \in B : m <= n
  <2> HIDE DEF B
  <2>1. QED  BY <1>1, <1>2, Least
<1>4. m \in S
  <2>1. SUFFICES ASSUME m \notin S PROVE FALSE  OBVIOUS
  <2>2. \A n \in S : n < m  BY <1>3, <2>1
  <2>3. m > 0
    <3>1. PICK n \in S : TRUE  OBVIOUS
    <3>2. n \in Nat /\ n < m /\ m \in Nat  BY <1>3, <2>2, <3>1
    <3>3. QED  BY <3>2
  <2>4. m - 1 \in B  BY <1>3, <2>2, <2>3
  <2>5. QED  BY <1>3, <2>4
<1>5. \E x \in S : \A y \in S : x >= y  BY <1>3, <1>4
<1>6. Max(S) \in S /\ \A y \in S : Max(S) >= y  BY <1>5 DEF Max
<1>7. QED  BY <1>6

LEMMA Appended ==
  ASSUME NEW S, NEW s \in Seq(S), NEW x \in S
  PROVE  LET t == Append(s, x)
         IN /\ t \in Seq(S) /\ Len(t) = Len(s) + 1 /\ DOMAIN t = 1..Len(s) + 1
            /\ t[Len(s) + 1] = x /\ \A k \in 1..Len(s) : t[k] = s[k]
            /\ t # s /\ t # <<>>
            /\ Last(t) = x /\ Range(t) = Range(s) \cup {x}
<1>0. PICK t : t = Append(s, x)  OBVIOUS
<1>1. /\ t \in Seq(S) /\ Len(t) = Len(s) + 1 /\ DOMAIN t = 1..Len(s) + 1
      /\ t[Len(s) + 1] = x /\ \A k \in 1..Len(s) : t[k] = s[k]
  BY <1>0
<1>2. Last(t) = x  BY <1>1 DEF Last
<1>3. Range(t) = Range(s) \cup {x}  BY <1>1 DEF Range
<1>4. t # s /\ t # <<>>  BY <1>1
<1>5. QED  BY <1>0, <1>1, <1>2, <1>3, <1>4

(* One sequence continues another. *)
Extends(s, t) == Len(s) <= Len(t) /\ \A k \in 1..Len(s) : t[k] = s[k]

-----------------------------------------------------------------------------
(* Saving a page of the remote log *)

(* f[n] is what is saved once the first n entries of the page are. *)
IsRun(f, saved, page, key, n) ==
  /\ f = [k \in 0..n |-> f[k]] /\ f[0] = saved
  /\ \A k \in 1..n : f[k] = Save(f[k - 1], page[k], key)

LEMMA RunExists ==
  ASSUME NEW saved, NEW page, NEW key, NEW len \in Nat
  PROVE  \E f : IsRun(f, saved, page, key, len)
<1> DEFINE Bad == {n \in Nat : ~\E f : IsRun(f, saved, page, key, n)}
<1>1. SUFFICES ASSUME Bad # {} PROVE FALSE  OBVIOUS
<1>2. PICK n : n = Min(Bad)  OBVIOUS
<1>3. n \in Bad /\ \A m \in Bad : n <= m
  <2>1. Bad \subseteq Nat  OBVIOUS
  <2> HIDE DEF Bad
  <2>2. QED  BY <1>1, <1>2, <2>1, Least
<1>4. n # 0
  <2>1. IsRun([k \in 0..0 |-> saved], saved, page, key, 0)  BY DEF IsRun
  <2>2. QED  BY <1>3, <2>1
<1>5. PICK f : IsRun(f, saved, page, key, n - 1)  BY <1>3, <1>4
<1> DEFINE g == [k \in 0..n |-> IF k = n THEN Save(f[n - 1], page[n], key) ELSE f[k]]
<1>6. IsRun(g, saved, page, key, n)
  <2>1. g = [k \in 0..n |-> g[k]] /\ g[0] = saved  BY <1>3, <1>4, <1>5 DEF IsRun
  <2>2. ASSUME NEW k \in 1..n PROVE g[k] = Save(g[k - 1], page[k], key)
    <3>1. g[k - 1] = f[k - 1]  BY <1>3
    <3>2. CASE k = n  BY <3>1, <3>2
    <3>3. CASE k # n
      <4>1. k \in 1..n - 1  BY <3>3, <1>3
      <4>2. g[k] = f[k]  BY <3>3
      <4>3. QED  BY <1>5, <3>1, <4>1, <4>2 DEF IsRun
    <3>4. QED  BY <3>2, <3>3
  <2>3. QED  BY <2>1, <2>2 DEF IsRun
<1>7. QED  BY <1>3, <1>6

LEMMA SavePageRuns ==
  ASSUME NEW saved, NEW T, NEW page \in Seq(T), NEW key
  PROVE  \E f : IsRun(f, saved, page, key, Len(page)) /\ SavePage(saved, page, key) = f[Len(page)]
<1>0. Len(page) \in Nat  OBVIOUS
<1>1. PICK f : IsRun(f, saved, page, key, Len(page))  BY <1>0, RunExists
<1> DEFINE g == CHOOSE g : g = [n \in 0..Len(page) |->
                  IF n = 0 THEN saved ELSE Save(g[n - 1], page[n], key)]
<1>2. f = [n \in 0..Len(page) |-> IF n = 0 THEN saved ELSE Save(f[n - 1], page[n], key)]
  <2>1. ASSUME NEW n \in 0..Len(page), n # 0
        PROVE  n \in 1..Len(page)  BY <2>1
  <2>2. \A n \in 0..Len(page) : f[n] = IF n = 0 THEN saved ELSE Save(f[n - 1], page[n], key)
    BY <1>1, <2>1 DEF IsRun
  <2>3. f = [n \in 0..Len(page) |-> f[n]]  BY <1>1 DEF IsRun
  <2>4. QED  BY <2>2, <2>3
<1>3. g = [n \in 0..Len(page) |-> IF n = 0 THEN saved ELSE Save(g[n - 1], page[n], key)]
  BY <1>2
<1> HIDE DEF g
<1>4. IsRun(g, saved, page, key, Len(page))
  <2>1. Len(page) \in Nat  OBVIOUS
  <2>2. \A k \in 1..Len(page) : k \in 0..Len(page) /\ k # 0  OBVIOUS
  <2>3. g = [n \in 0..Len(page) |-> g[n]]  BY <1>3
  <2>4. g[0] = saved  BY <1>3, <2>1
  <2>5. \A k \in 1..Len(page) : g[k] = Save(g[k - 1], page[k], key)  BY <1>3, <2>2
  <2>6. QED  BY <2>3, <2>4, <2>5 DEF IsRun
<1>5. SavePage(saved, page, key) = g[Len(page)]  BY DEF SavePage, g
<1>6. QED  BY <1>4, <1>5

Increasing(s) == \A m, n \in DOMAIN s : m < n => s[m].seq < s[n].seq

(* A row of t that s does not have is an entry of the page. *)
TakenFrom(s, t, page, n) ==
  \A m \in DOMAIN t :
    m \in DOMAIN s \/ \E k \in 1..n : t[m].seq = page[k].seq /\ t[m].applied = page[k].applied

LEMMA SaveStep ==
  ASSUME NEW s \in Seq(SavedRow), NEW e \in Entry, NEW key
  PROVE  LET t == Save(s, e, key)
         IN /\ t \in Seq(SavedRow) /\ Extends(s, t)
            /\ \A m \in DOMAIN t :
                 m \in DOMAIN s \/ (t[m].seq = e.seq /\ t[m].applied = e.applied)
            /\ Increasing(s) => Increasing(t)
<1>0. PICK t : t = Save(s, e, key)  OBVIOUS
<1> DEFINE x == [seq |-> e.seq, ok |-> e.ok, applied |-> e.applied]
<1>1. x \in SavedRow /\ x.seq = e.seq /\ x.applied = e.applied  BY DEF SavedRow, Entry
<1>2. CASE Skip(s, e, key)
  <2>1. t = s  BY <1>0, <1>2 DEF Save
  <2>2. QED  BY <1>0, <2>1 DEF Extends
<1>3. CASE ~Skip(s, e, key)
  <2>1. t = Append(s, x)  BY <1>0, <1>3 DEF Save
  <2> HIDE DEF x
  <2>2. /\ t \in Seq(SavedRow) /\ Len(t) = Len(s) + 1 /\ DOMAIN t = 1..Len(s) + 1
        /\ t[Len(s) + 1] = x /\ \A k \in 1..Len(s) : t[k] = s[k]
    BY <1>1, <2>1, Appended
  <2>3. Extends(s, t)  BY <2>2 DEF Extends
  <2>4. \A m \in DOMAIN t : m \in DOMAIN s \/ m = Len(s) + 1  BY <2>2
  <2>5. ASSUME Increasing(s), NEW m \in DOMAIN t, NEW n \in DOMAIN t, m < n
        PROVE  t[m].seq < t[n].seq
    <3>1. m \in DOMAIN s  BY <2>2, <2>5
    <3>2. CASE n \in DOMAIN s  BY <2>2, <2>5, <3>1, <3>2 DEF Increasing
    <3>3. CASE n = Len(s) + 1
      <4>1. s # <<>> /\ Len(s) \in DOMAIN s  BY <3>1
      <4>2. ~(e.seq <= Last(s).seq)  BY <1>3, <4>1 DEF Skip
      <4>3. e.seq \in Nat /\ s[Len(s)].seq \in Nat /\ s[m].seq \in Nat
        <5>1. s[Len(s)] \in SavedRow /\ s[m] \in SavedRow  BY <3>1, <4>1
        <5>2. QED  BY <5>1 DEF Entry, SavedRow
      <4>4. s[Len(s)].seq < e.seq  BY <4>2, <4>3 DEF Last
      <4>5. s[m].seq <= s[Len(s)].seq
        <5>1. CASE m = Len(s)  BY <4>3, <5>1
        <5>2. CASE m # Len(s)
          <6>1. m < Len(s)  BY <3>1, <5>2
          <6>2. s[m].seq < s[Len(s)].seq  BY <2>5, <3>1, <4>1, <6>1 DEF Increasing
          <6>3. QED  BY <4>3, <6>2
        <5>3. QED  BY <5>1, <5>2
      <4>6. t[m] = s[m] /\ t[n].seq = e.seq  BY <1>1, <2>2, <3>1, <3>3
      <4>7. QED  BY <4>3, <4>4, <4>5, <4>6
    <3>4. QED  BY <2>4, <3>2, <3>3
  <2>6. Increasing(s) => Increasing(t)  BY <2>5 DEF Increasing
  <2>7. QED  BY <1>0, <1>1, <2>2, <2>3, <2>4, <2>6
<1>4. QED  BY <1>2, <1>3

LEMMA RunGrows ==
  ASSUME NEW saved \in Seq(SavedRow), NEW page, NEW key, NEW len \in Nat,
         \A k \in 1..len : page[k] \in Entry, NEW f, IsRun(f, saved, page, key, len)
  PROVE  \A n \in 0..len :
           /\ f[n] \in Seq(SavedRow)
           /\ \A k \in 0..n : Extends(f[k], f[n])
           /\ TakenFrom(saved, f[n], page, n)
           /\ Increasing(saved) => Increasing(f[n])
<1> DEFINE P(n) == /\ f[n] \in Seq(SavedRow)
                   /\ \A k \in 0..n : Extends(f[k], f[n])
                   /\ TakenFrom(saved, f[n], page, n)
                   /\ Increasing(saved) => Increasing(f[n])
           Bad == {n \in 0..len : ~P(n)}
<1>1. SUFFICES ASSUME Bad # {} PROVE FALSE  OBVIOUS
<1>2. PICK n : n = Min(Bad)  OBVIOUS
<1>3. n \in Bad /\ \A m \in Bad : n <= m
  <2>1. Bad \subseteq Nat  OBVIOUS
  <2> HIDE DEF Bad
  <2>2. QED  BY <1>1, <1>2, <2>1, Least
<1>4. n # 0
  <2>1. f[0] = saved  BY DEF IsRun
  <2>2. P(0)  BY <2>1 DEF Extends, TakenFrom
  <2>3. QED  BY <1>3, <2>2
<1>5. n - 1 \in 0..len /\ n \in 1..len /\ n - 1 \notin Bad  BY <1>3, <1>4
<1>6. P(n - 1)  BY <1>5
<1>7. PICK s : s = f[n - 1]  OBVIOUS
<1>8. PICK t : t = f[n]  OBVIOUS
<1>9. t = Save(s, page[n], key)  BY <1>5, <1>7, <1>8 DEF IsRun
<1>10. page[n] \in Entry /\ s \in Seq(SavedRow)  BY <1>5, <1>6, <1>7
<1>11. /\ t \in Seq(SavedRow) /\ Extends(s, t)
       /\ \A m \in DOMAIN t :
            m \in DOMAIN s \/ (t[m].seq = page[n].seq /\ t[m].applied = page[n].applied)
       /\ Increasing(s) => Increasing(t)
  BY <1>9, <1>10, SaveStep
<1>12. ASSUME NEW k \in 0..n PROVE Extends(f[k], t)
  <2>1. CASE k = n  BY <1>8, <1>11, <2>1 DEF Extends
  <2>2. CASE k # n
    <3>1. k \in 0..n - 1  BY <1>5, <2>2
    <3>2. Extends(f[k], s)  BY <1>6, <1>7, <3>1
    <3>3. k \notin Bad  BY <1>3, <2>2
    <3>4. f[k] \in Seq(SavedRow)  BY <1>5, <3>1, <3>3
    <3>5. QED  BY <1>10, <1>11, <3>2, <3>4 DEF Extends
  <2>3. QED  BY <2>1, <2>2
<1>13. TakenFrom(saved, t, page, n)
  <2>1. SUFFICES ASSUME NEW m \in DOMAIN t, m \notin DOMAIN saved
                 PROVE  \E k \in 1..n : t[m].seq = page[k].seq /\ t[m].applied = page[k].applied
    BY DEF TakenFrom
  <2>2. CASE m \in DOMAIN s
    <3>1. PICK k \in 1..n - 1 : s[m].seq = page[k].seq /\ s[m].applied = page[k].applied
      BY <1>6, <1>7, <2>1, <2>2 DEF TakenFrom
    <3>2. t[m] = s[m]  BY <1>10, <1>11, <2>2 DEF Extends
    <3>3. QED  BY <1>5, <3>1, <3>2
  <2>3. CASE m \notin DOMAIN s  BY <1>5, <1>11, <2>1, <2>3
  <2>4. QED  BY <2>2, <2>3
<1>14. P(n)  BY <1>6, <1>7, <1>8, <1>11, <1>12, <1>13
<1>15. QED  BY <1>3, <1>14

LEMMA Saved ==
  ASSUME NEW saved \in Seq(SavedRow), NEW page \in Seq(Entry), NEW key
  PROVE  LET t == SavePage(saved, page, key)
         IN /\ t \in Seq(SavedRow) /\ Extends(saved, t)
            /\ TakenFrom(saved, t, page, Len(page))
<1>1. PICK f : /\ IsRun(f, saved, page, key, Len(page))
               /\ SavePage(saved, page, key) = f[Len(page)]
  BY SavePageRuns
<1>2. Len(page) \in Nat /\ 0 \in 0..Len(page) /\ Len(page) \in 0..Len(page)  OBVIOUS
<1>3. \A k \in 1..Len(page) : page[k] \in Entry  OBVIOUS
<1>4. /\ f[Len(page)] \in Seq(SavedRow) /\ Extends(f[0], f[Len(page)])
      /\ TakenFrom(saved, f[Len(page)], page, Len(page))
  BY <1>1, <1>2, <1>3, RunGrows
<1>5. QED  BY <1>1, <1>4 DEF IsRun

-----------------------------------------------------------------------------
(* The operators of the worker *)

LEMMA SignerType ==
  ASSUME NetTypes, NEW h \in Hist, Range(h) \subseteq DOMAIN commits
  PROVE  MetadataSigner(h) \in Key
<1> DEFINE shares == {c \in Range(h) : commits[c].key # None}
<1>1. CASE shares = {}  BY <1>1 DEF MetadataSigner, Key
<1>2. CASE shares # {}
  <2>1. commits \in Seq(GroupCommit)  BY DEF NetTypes
  <2>2. shares \subseteq Nat /\ shares \subseteq DOMAIN commits /\ Len(commits) \in Nat
    BY <2>1
  <2>3. \A n \in shares : n <= Len(commits)  BY <2>1, <2>2
  <2>4. MetadataSigner(h) = commits[Max(shares)].key  BY <1>2 DEF MetadataSigner
  <2> HIDE DEF shares
  <2>5. Max(shares) \in shares  BY <1>2, <2>2, <2>3, Greatest
  <2>6. commits[Max(shares)] \in GroupCommit
    <3>1. PICK c \in DOMAIN commits : c = Max(shares)  BY <2>2, <2>5
    <3>2. commits[c] \in GroupCommit  BY <2>1
    <3>3. QED  BY <3>1, <3>2
  <2>7. QED  BY <2>4, <2>6 DEF GroupCommit
<1>3. QED  BY <1>1, <1>2

LEMMA SigningKeyType ==
  ASSUME TypeInv, NEW i \in Inst
  PROVE  SigningKey(i) \in Key /\ StoredKey(i) \in Key
<1>1. MetadataSigner(mls[i].hist) \in Key
  <2>1. mls[i].hist \in Hist  BY DEF TypeInv, NetTypes
  <2>2. QED  BY <2>1, SignerType DEF TypeInv, Histories
<1>2. keys[i].signer \in Key /\ keys[i].consensus \in Key  BY DEF TypeInv, LogTypes
<1>3. i \in Key /\ None \in Key  BY DEF Key
<1>4. SigningKey(i) \in Key  BY <1>1, <1>2, <1>3 DEF SigningKey
<1>5. QED  BY <1>2, <1>4 DEF StoredKey

(* The k-th of a finite set of numbers is one of them, and every one of    *)
(* them is the k-th for some k.                                            *)
LEMMA NthCovers ==
  ASSUME NEW S, S \subseteq Nat, NEW b \in Nat, \A n \in S : n <= b
  PROVE  /\ Cardinality(S) \in Nat
         /\ \A n \in S : \E k \in 1..Cardinality(S) : Nth(S, k) = n
         /\ \A k \in 1..Cardinality(S) : Nth(S, k) \in S
<1> DEFINE Upto(n) == {m \in S : m <= n}
<1>1. IsFiniteSet(S) /\ Cardinality(S) \in Nat  BY FS_BoundedSetOfNaturals, FS_CardinalityType
<1>2. ASSUME NEW n \in S
      PROVE  /\ IsFiniteSet(Upto(n)) /\ Cardinality(Upto(n)) \in 1..Cardinality(S)
  <2>1. Upto(n) \in SUBSET S /\ n \in Upto(n)  OBVIOUS
  <2> HIDE DEF Upto
  <2>2. IsFiniteSet(Upto(n)) /\ Cardinality(Upto(n)) <= Cardinality(S)
    BY <1>1, <2>1, FS_Subset
  <2>3. Cardinality(Upto(n)) \in Nat /\ Cardinality(Upto(n)) # 0
    BY <2>1, <2>2, FS_CardinalityType, FS_EmptySet
  <2>4. QED  BY <1>1, <2>2, <2>3
<1>3. ASSUME NEW n \in S, NEW m \in S, Cardinality(Upto(m)) = Cardinality(Upto(n))
      PROVE  m = n
  <2>1. CASE m <= n
    <3>1. Upto(m) \in SUBSET Upto(n) /\ n \in Upto(n)
      <4>1. \A p \in S : p <= m => p <= n  BY <2>1
      <4>2. n <= n  OBVIOUS
      <4>3. QED  BY <4>1, <4>2
    <3>2. n \in Upto(m) => n <= m  OBVIOUS
    <3> HIDE DEF Upto
    <3>3. Upto(n) = Upto(m)  BY <1>2, <1>3, <3>1, FS_Subset
    <3>4. n <= m /\ n \in Nat /\ m \in Nat  BY <3>1, <3>2, <3>3
    <3>5. QED  BY <2>1, <3>4
  <2>2. CASE n <= m
    <3>1. Upto(n) \in SUBSET Upto(m) /\ m \in Upto(m)
      <4>1. \A p \in S : p <= n => p <= m  BY <2>2
      <4>2. m <= m  OBVIOUS
      <4>3. QED  BY <4>1, <4>2
    <3>2. m \in Upto(n) => m <= n  OBVIOUS
    <3> HIDE DEF Upto
    <3>3. Upto(n) = Upto(m)  BY <1>2, <1>3, <3>1, FS_Subset
    <3>4. m <= n /\ n \in Nat /\ m \in Nat  BY <3>1, <3>2, <3>3
    <3>5. QED  BY <2>2, <3>4
  <2>3. m \in Nat /\ n \in Nat  OBVIOUS
  <2>4. QED  BY <2>1, <2>2, <2>3
<1>4. ASSUME NEW n \in S PROVE Nth(S, Cardinality(Upto(n))) = n
  <2>1. \A m \in S : Cardinality(Upto(m)) = Cardinality(Upto(n)) => m = n  BY <1>3
  <2>2. Nth(S, Cardinality(Upto(n))) = CHOOSE m \in S : Cardinality(Upto(m)) = Cardinality(Upto(n))
    BY DEF Nth
  <2> HIDE DEF Upto
  <2>3. QED  BY <2>1, <2>2
<1>5. ASSUME NEW k \in 1..Cardinality(S) PROVE Nth(S, k) \in S
  <2> DEFINE f == [n \in S |-> Cardinality(Upto(n))]
             T == 1..Cardinality(S)
  <2>1. f \in Injection(S, T)  BY <1>2, <1>3 DEF Injection, IsInjective
  <2>2. IsFiniteSet(T) /\ Cardinality(T) = Cardinality(S)
    <3>1. 1 \in Int /\ Cardinality(S) \in Int /\ (Cardinality(S) = 0 <=> 1 > Cardinality(S))
      BY <1>1
    <3>2. QED  BY <1>1, <3>1, FS_Interval
  <2>3. f \in Surjection(S, T)
    <3> HIDE DEF f, T
    <3>1. QED  BY <2>1, <2>2, FS_Injection
  <2>4. PICK n \in S : f[n] = k  BY <2>3 DEF Surjection
  <2>5. QED  BY <1>4, <2>4
<1>6. QED  BY <1>1, <1>2, <1>4, <1>5

(* Entry e publishes local row r. *)
Publishes(e, r) == e.seq = r.seq /\ e.applied = r.applied

LEMMA Signed ==
  ASSUME TypeInv, NEW i \in Inst
  PROVE  LET es == SignedEntries(i)
         IN /\ es \in Seq(Entry)
            /\ \A k \in DOMAIN es : \E n \in Unpublished(i) :
                 Publishable(rows[i][n]) /\ Publishes(es[k], rows[i][n])
            /\ SigningKey(i) # None =>
                 \A n \in Unpublished(i) : Publishable(rows[i][n]) =>
                   \E k \in DOMAIN es : Publishes(es[k], rows[i][n])
<1>0. PICK es : es = SignedEntries(i)  OBVIOUS
<1> DEFINE key == SigningKey(i)
           ns == {n \in Unpublished(i) : Publishable(rows[i][n])}
           entry(n) == [seq |-> rows[i][n].seq, ok |-> Success(rows[i][n]),
                        last |-> rows[i][n].last, applied |-> rows[i][n].applied, key |-> key]
<1>1. rows[i] \in Seq(LocalRow) /\ key \in Key  BY SigningKeyType DEF TypeInv, LogTypes
<1>2. ns \subseteq DOMAIN rows[i]  BY DEF Unpublished
<1>3. ns \subseteq Nat /\ Len(rows[i]) \in Nat /\ \A n \in ns : n <= Len(rows[i])
  BY <1>1, <1>2
<1>4. /\ Cardinality(ns) \in Nat
      /\ \A n \in ns : \E k \in 1..Cardinality(ns) : Nth(ns, k) = n
      /\ \A k \in 1..Cardinality(ns) : Nth(ns, k) \in ns
  <2> HIDE DEF ns
  <2>1. QED  BY <1>3, NthCovers
<1>5. ASSUME NEW n \in ns, key # None
      PROVE  entry(n) \in Entry /\ Publishes(entry(n), rows[i][n])
  <2>1. rows[i][n] \in LocalRow  BY <1>1, <1>2
  <2>2. Success(rows[i][n]) \in BOOLEAN /\ key \in Inst  BY <1>1, <1>5 DEF Success, Key
  <2> HIDE DEF ns, key
  <2>3. QED  BY <1>1, <2>1, <2>2 DEF Entry, LocalRow, Publishes
<1>6. CASE key = None
  <2>1. es = <<>>  BY <1>0, <1>6 DEF SignedEntries
  <2>2. QED  BY <1>0, <1>6, <2>1
<1>7. CASE key # None
  <2>1. es = [k \in 1..Cardinality(ns) |-> entry(Nth(ns, k))]
    BY <1>0, <1>7 DEF SignedEntries
  <2>2. \A n \in ns : n \in Unpublished(i) /\ Publishable(rows[i][n])  OBVIOUS
  <2>3. \A n \in Unpublished(i) : Publishable(rows[i][n]) => n \in ns  OBVIOUS
  <2> HIDE DEF ns, entry
  <2>4. DOMAIN es = 1..Cardinality(ns) /\ \A k \in DOMAIN es : es[k] = entry(Nth(ns, k))
    BY <2>1
  <2>5. \A k \in DOMAIN es : es[k] \in Entry  BY <1>4, <1>5, <1>7, <2>4
  <2>6. es \in Seq(Entry)  BY <1>4, <2>1, <2>4, <2>5
  <2>7. \A k \in DOMAIN es : \E n \in Unpublished(i) :
          Publishable(rows[i][n]) /\ Publishes(es[k], rows[i][n])
    BY <1>4, <1>5, <1>7, <2>2, <2>4
  <2>8. \A n \in Unpublished(i) : Publishable(rows[i][n]) =>
          \E k \in DOMAIN es : Publishes(es[k], rows[i][n])
    BY <1>4, <1>5, <1>7, <2>3, <2>4
  <2>9. QED  BY <1>0, <2>6, <2>7, <2>8
<1>8. QED  BY <1>6, <1>7

(* What a verdict of the fork check rests on. *)
CleanBasis(i, local) ==
  \E n \in 1..local :
    /\ \E m \in DOMAIN remote[i] : remote[i][m].applied = rows[i][n].applied
    /\ \A k \in n + 1 .. local : RemovesUs(rows[i][k])

ForkedBasis(i) ==
  \E n \in DOMAIN rows[i], m \in DOMAIN remote[i] :
    /\ rows[i][n].seq # 0 /\ ~RemovesUs(rows[i][n])
    /\ remote[i][m].seq = rows[i][n].seq /\ remote[i][m].applied # rows[i][n].applied

LEMMA CheckFacts ==
  ASSUME TypeInv, NEW i \in Inst
  PROVE  LET check == CheckForkState(i)
         IN /\ check.local \in cur[i].local..Len(rows[i]) /\ check.rem \in Nat
            /\ check.verdict \in {"unknown", "clean", "forked"}
            /\ check.verdict = "clean" =>
                 CleanBasis(i, check.local) \/ (status[i] = "clean" /\ check.local = cur[i].local)
            /\ check.verdict = "forked" => status[i] = "forked" \/ ForkedBasis(i)
<1>0. PICK check : check = CheckForkState(i)  OBVIOUS
<1> DEFINE L        == Len(rows[i])
           local    == cur[i].local
           rem      == cur[i].rem
           floor    == Max({local, ChainStart(i)})
           fresh    == {n \in DOMAIN rows[i] : n > floor /\ rows[i][n].seq # 0}
           removals == {n \in fresh : RemovesUs(rows[i][n])}
           matches  == {n \in fresh \ removals : Matching(i, rows[i][n].seq) # {}}
<1>1. /\ rows[i] \in Seq(LocalRow) /\ remote[i] \in Seq(SavedRow) /\ L \in Nat
      /\ DOMAIN rows[i] = 1..L /\ DOMAIN remote[i] = 1..Len(remote[i]) /\ Len(remote[i]) \in Nat
      /\ local \in 0..L /\ rem \in Nat
      /\ status[i] \in {"unknown", "clean", "forked"} /\ 1 \in 1..L /\ rows[i][1].seq = 0
  <2>1. rows[i] \in Seq(LocalRow) /\ remote[i] \in Seq(SavedRow)  BY DEF TypeInv, LogTypes
  <2>2. cur[i] \in [download : Nat, upload : Nat, local : Nat, rem : Nat]
    BY DEF TypeInv, LogTypes
  <2>3. status[i] \in {"unknown", "clean", "forked"}  BY DEF TypeInv, LogTypes
  <2>4. rows[i] # <<>> /\ rows[i][1].seq = 0 /\ local <= L  BY DEF TypeInv, Cursors
  <2>5. QED  BY <2>1, <2>2, <2>3, <2>4
<1>2. /\ ChainStart(i) \in 1..L
      /\ \A n \in 1..L : rows[i][n].seq = 0 => n <= ChainStart(i)
  <2> DEFINE S == {n \in DOMAIN rows[i] : rows[i][n].seq = 0}
  <2>1. S \subseteq Nat /\ S # {} /\ S \subseteq 1..L /\ \A n \in S : n <= L  BY <1>1
  <2>2. ChainStart(i) = Max(S)  BY DEF ChainStart
  <2>3. \A n \in 1..L : rows[i][n].seq = 0 => n \in S  BY <1>1
  <2> HIDE DEF S
  <2>4. Max(S) \in S /\ \A n \in S : n <= Max(S)  BY <1>1, <2>1, Greatest
  <2>5. QED  BY <2>1, <2>2, <2>3, <2>4
<1>3. floor \in {local, ChainStart(i)} /\ floor >= local /\ floor >= ChainStart(i)
  <2> DEFINE S == {local, ChainStart(i)}
  <2>1. S \subseteq Nat /\ S # {} /\ \A n \in S : n <= L  BY <1>1, <1>2
  <2>2. floor = Max(S) /\ local \in S /\ ChainStart(i) \in S  OBVIOUS
  <2> HIDE DEF S, floor
  <2>3. floor \in S /\ \A n \in S : n <= floor  BY <1>1, <2>1, <2>2, Greatest
  <2>4. QED  BY <1>1, <1>2, <2>2, <2>3 DEF S
<1> HIDE DEF floor
<1>4. fresh \subseteq 1..L /\ \A n \in 1..L : n > floor => n \in fresh  BY <1>1, <1>2, <1>3
<1>5. CASE fresh = {}
  <2>1. check = [local |-> floor, rem |-> rem, verdict |-> Kept(i)]
    BY <1>0, <1>5 DEF CheckForkState, floor
  <2>2. Kept(i) = IF ChainStart(i) > local THEN "unknown" ELSE status[i]  BY DEF Kept
  <2>3. floor \in local..L  BY <1>1, <1>2, <1>3
  <2>4. ~(ChainStart(i) > local) => floor = local  BY <1>1, <1>2, <1>3
  <2>5. QED  BY <1>0, <1>1, <2>1, <2>2, <2>3, <2>4
<1>6. CASE fresh # {} /\ matches = {}
  <2> DEFINE S == {floor} \cup removals
  <2>1. check = [local |-> Max(S), rem |-> rem, verdict |-> "unknown"]
    BY <1>0, <1>6 DEF CheckForkState, floor
  <2>2. S \subseteq Nat /\ S # {} /\ \A n \in S : n <= L  BY <1>1, <1>2, <1>3, <1>4
  <2>3. floor \in S  OBVIOUS
  <2> HIDE DEF S
  <2>4. Max(S) \in S /\ \A n \in S : n <= Max(S)  BY <1>1, <2>2, Greatest
  <2>5. Max(S) \in local..L
    <3>1. Max(S) \in Nat /\ Max(S) <= L /\ floor <= Max(S)  BY <2>2, <2>3, <2>4
    <3>2. floor \in Nat  BY <1>1, <1>2, <1>3
    <3>3. QED  BY <1>1, <1>3, <3>1, <3>2
  <2>6. QED  BY <1>0, <1>1, <2>1, <2>5
<1>7. CASE fresh # {} /\ matches # {}
  <2>1. PICK n : n = Max(matches)  OBVIOUS
  <2>2. matches \subseteq Nat /\ \A k \in matches : k <= L  BY <1>1, <1>4
  <2>3. n \in matches
    <3> HIDE DEF matches
    <3>1. QED  BY <1>1, <1>7, <2>1, <2>2, Greatest
  <2>4. n \in fresh /\ n \notin removals /\ Matching(i, rows[i][n].seq) # {}  BY <2>3
  <2>5. PICK m : m = Max(Matching(i, rows[i][n].seq))  OBVIOUS
  <2>6. m \in Matching(i, rows[i][n].seq)
    <3> DEFINE S == Matching(i, rows[i][n].seq)
    <3>1. S \subseteq Nat /\ \A k \in S : k <= Len(remote[i])  BY <1>1 DEF Matching
    <3>2. S # {} /\ m = Max(S)  BY <2>4, <2>5
    <3> HIDE DEF S
    <3>3. m \in S  BY <1>1, <3>1, <3>2, Greatest
    <3>4. QED  BY <3>3 DEF S
  <2>7. m \in DOMAIN remote[i] /\ remote[i][m].seq = rows[i][n].seq  BY <2>6 DEF Matching
  <2>8. check = Matched(i, n, m, fresh)
    BY <1>0, <1>7, <2>1, <2>5 DEF CheckForkState, floor
  <2> DEFINE S == {n} \cup removals
  <2>9. PICK new : new = Max(S)  OBVIOUS
  <2>10. S \subseteq Nat /\ S # {} /\ n \in S /\ \A k \in S : k <= L /\ k > floor
    BY <1>1, <1>4, <2>4
  <2>11. new \in S /\ \A k \in S : k <= new
    <3> HIDE DEF S
    <3>1. QED  BY <1>1, <2>9, <2>10, Greatest
  <2>12. new \in local..L /\ n <= new /\ n \in 1..new
    <3> HIDE DEF S
    <3>1. new \in Nat /\ n \in Nat /\ new <= L /\ new > floor /\ n <= new /\ n > floor
      BY <2>10, <2>11
    <3>2. floor \in Nat  BY <1>1, <1>2, <1>3
    <3>3. QED  BY <1>1, <1>3, <3>1, <3>2
  <2>13. check.local = new /\ check.rem = Max({m, rem})
    BY <2>8, <2>9 DEF Matched
  <2>14. check.verdict = IF ~SameEpoch(rows[i][n], remote[i][m]) THEN "forked"
                         ELSE IF \A k \in fresh \ removals : k <= n THEN "clean" ELSE "unknown"
    BY <2>8 DEF Matched
  <2>15. Max({m, rem}) \in Nat
    <3> DEFINE Q == {m, rem}
    <3>1. m \in Nat /\ rem \in Nat  BY <1>1, <2>7
    <3>2. PICK b \in Nat : m <= b /\ rem <= b
      <4>1. CASE m <= rem  BY <3>1, <4>1
      <4>2. CASE rem <= m  BY <3>1, <4>2
      <4>3. QED  BY <3>1, <4>1, <4>2
    <3>3. Q \subseteq Nat /\ Q # {} /\ \A k \in Q : k <= b  BY <3>1, <3>2
    <3> HIDE DEF Q
    <3>4. Max(Q) \in Q  BY <3>2, <3>3, Greatest
    <3>5. QED  BY <3>3, <3>4 DEF Q
  <2>16. ASSUME check.verdict = "clean" PROVE CleanBasis(i, new)
    <3>1. remote[i][m].applied = rows[i][n].applied  BY <2>14, <2>16 DEF SameEpoch
    <3>2. \A k \in fresh \ removals : k <= n  BY <2>14, <2>16
    <3>3. ASSUME NEW k \in n + 1 .. new PROVE RemovesUs(rows[i][k])
      <4>1. k \in 1..L /\ k > n /\ n \in Nat  BY <2>12, <1>1
      <4>2. floor \in Nat /\ n > floor  BY <1>1, <1>2, <1>3, <2>10
      <4>3. k > floor  BY <4>1, <4>2
      <4>4. k \in fresh  BY <1>4, <4>1, <4>3
      <4>5. ~(k <= n)  BY <4>1
      <4>6. k \in removals  BY <3>2, <4>4, <4>5
      <4>7. QED  BY <4>6
    <3>4. QED  BY <2>7, <2>12, <3>1, <3>3 DEF CleanBasis
  <2>17. ASSUME check.verdict = "forked" PROVE ForkedBasis(i)
    <3>1. remote[i][m].applied # rows[i][n].applied  BY <2>14, <2>17 DEF SameEpoch
    <3>2. n \in DOMAIN rows[i] /\ rows[i][n].seq # 0 /\ ~RemovesUs(rows[i][n])  BY <2>4
    <3>3. QED  BY <2>7, <3>1, <3>2 DEF ForkedBasis
  <2>18. QED  BY <1>0, <2>12, <2>13, <2>14, <2>15, <2>16, <2>17
<1>8. QED  BY <1>5, <1>6, <1>7

-----------------------------------------------------------------------------
(* Types are kept *)

LEMMA NewCommit ==
  ASSUME TypeInv, NEW i \in Inst, NEW removes \in SUBSET Inst, NEW adds \in SUBSET Inst,
         NEW key \in Key
  PROVE  LET x == Commit(i, removes, adds, key)
         IN /\ x \in GroupCommit /\ Range(x.base) \subseteq DOMAIN commits
            /\ x.base = mls[i].hist /\ x.removes = removes /\ x.adds = adds /\ x.by = i
<1>1. mls[i].hist \in Hist /\ Range(mls[i].hist) \subseteq DOMAIN commits
  BY DEF TypeInv, NetTypes, Histories
<1>2. QED  BY <1>1 DEF Commit, GroupCommit

(* Nothing happens to the commits but that a new one is published. *)
MoreCommits ==
  \/ UNCHANGED commits
  \/ \E x \in GroupCommit : Range(x.base) \subseteq DOMAIN commits /\ commits' = Append(commits, x)

LEMMA MoreCommitsTypes ==
  ASSUME NetTypes, Histories, MoreCommits, UNCHANGED <<welcomes, mls>>, log' \in Seq(Entry)
  PROVE  NetTypes' /\ Histories'
<1>1. commits \in Seq(GroupCommit) /\ Len(commits) > 0 /\ \A i \in Inst : mls[i].cursor \in DOMAIN commits
  BY DEF NetTypes, Histories
<1>2. CASE UNCHANGED commits  BY <1>2 DEF NetTypes, Histories
<1>3. CASE ~UNCHANGED commits
  <2>1. PICK x \in GroupCommit : Range(x.base) \subseteq DOMAIN commits /\ commits' = Append(commits, x)
    BY <1>3 DEF MoreCommits
  <2>2. PICK cs : cs = commits'  OBVIOUS
  <2>3. /\ cs \in Seq(GroupCommit) /\ Len(cs) = Len(commits) + 1 /\ DOMAIN cs = 1..Len(commits) + 1
        /\ cs[Len(commits) + 1] = x /\ \A k \in 1..Len(commits) : cs[k] = commits[k]
    BY <1>1, <2>1, <2>2, Appended
  <2>4. DOMAIN commits \subseteq DOMAIN cs /\ DOMAIN commits = 1..Len(commits) /\ Len(cs) > 0
    BY <1>1, <2>3
  <2>5. NetTypes'  BY <2>2, <2>3, <2>4 DEF NetTypes
  <2>6. \A i \in Inst : Range(mls[i].hist) \subseteq DOMAIN cs /\ mls[i].cursor \in DOMAIN cs
    BY <2>4 DEF Histories
  <2>7. ASSUME NEW c \in DOMAIN cs PROVE Range(cs[c].base) \subseteq DOMAIN cs
    <3>1. CASE c \in DOMAIN commits
      <4>1. cs[c] = commits[c] /\ Range(commits[c].base) \subseteq DOMAIN commits
        BY <2>3, <2>4, <3>1 DEF Histories
      <4>2. QED  BY <2>4, <4>1
    <3>2. CASE c \notin DOMAIN commits
      <4>1. c = Len(commits) + 1  BY <1>1, <2>3, <2>4, <3>2
      <4>2. QED  BY <2>1, <2>3, <2>4, <4>1
    <3>3. QED  BY <3>1, <3>2
  <2>8. Histories'  BY <2>2, <2>6, <2>7 DEF Histories
  <2>9. QED  BY <2>5, <2>8
<1>4. QED  BY <1>2, <1>3

LEMMA ProposeTypes ==
  ASSUME TypeInv, NEW i \in Inst, Propose(i)
  PROVE  TypeInv' /\ MoreCommits /\ UNCHANGED <<welcomes, log, mls, logs, readds, glitches>>
<1>1. None \in Key  BY DEF Key
<1>2. \E removes, adds \in SUBSET Inst : commits' = Append(commits, Commit(i, removes, adds, None))
  <2>1. CASE commits' = Append(commits, Commit(i, {}, {}, None))  BY <2>1
  <2>2. CASE ~(commits' = Append(commits, Commit(i, {}, {}, None)))
    <3>1. PICK j \in Targets \ Admins :
            \/ /\ InTree(mls[i].hist, j)
               /\ commits' = Append(commits, Commit(i, {j}, {}, None))
            \/ /\ ~InTree(mls[i].hist, j)
               /\ commits' = Append(commits, Commit(i, {}, {j}, None))
      BY <2>2 DEF Propose
    <3>2. j \in Inst  BY InstAssumption, <3>1
    <3>3. QED  BY <3>1, <3>2
  <2>3. QED  BY <2>1, <2>2
<1>3. MoreCommits
  <2>1. PICK removes, adds \in SUBSET Inst :
          commits' = Append(commits, Commit(i, removes, adds, None))
    BY <1>2
  <2>2. PICK x : x = Commit(i, removes, adds, None)  OBVIOUS
  <2>3. x \in GroupCommit /\ Range(x.base) \subseteq DOMAIN commits
    BY <1>1, <2>2, NewCommit
  <2>4. QED  BY <2>1, <2>2, <2>3 DEF MoreCommits
<1>4. UNCHANGED <<welcomes, log, mls, logs, readds, glitches>>  BY DEF Propose
<1>5. log' \in Seq(Entry)  BY <1>4 DEF TypeInv, NetTypes
<1>6. NetTypes' /\ Histories'  BY <1>3, <1>4, <1>5, MoreCommitsTypes DEF TypeInv
<1>7. LogTypes' /\ Cursors'  BY <1>4 DEF TypeInv, LogTypes, Cursors, logs
<1>8. QED  BY <1>3, <1>4, <1>6, <1>7 DEF TypeInv

(* An installation's own state and local log change, and nobody else's. *)
Moved(i, h, active, c, rs) ==
  /\ mls' \in [Inst -> [hist : Hist, active : BOOLEAN, cursor : Nat]]
  /\ mls'[i].hist = h /\ mls'[i].active = active /\ mls'[i].cursor = c
  /\ \A j \in Inst \ {i} : mls'[j] = mls[j]
  /\ rows' = [rows EXCEPT ![i] = rs]
  /\ UNCHANGED <<commits, log, remote, cur, keys, status, asked, mail>>

(* The three outcomes of a commit. *)
Leaves(i, c, h) ==
  /\ commits[c].base = h /\ i \in commits[c].removes
  /\ Moved(i, h, FALSE, c, Append(rows[i], Row("RemovedFromGroup", c, h, h)))
  /\ UNCHANGED <<welcomes, glitches>>

Advances(i, c, h) ==
  /\ commits[c].base = h /\ i \notin commits[c].removes
  /\ Moved(i, Append(h, c), TRUE, c, Append(rows[i], Row("Applied", c, h, Append(h, c))))
  /\ welcomes' = IF commits[c].by = i
                 THEN [j \in Inst |-> welcomes[j] \cup (IF j \in commits[c].adds THEN {c} ELSE {})]
                 ELSE welcomes
  /\ UNCHANGED glitches

Fails(i, c, h) ==
  /\ Moved(i, h, TRUE, c, FailedRows(i, c))
  /\ UNCHANGED welcomes
  /\ IF commits[c].base = h THEN glitches' = glitches + 1 ELSE UNCHANGED glitches

LEMMA ReceiveCases ==
  ASSUME TypeInv, NEW i \in Inst, NEW accept \in BOOLEAN, Receive(i, accept)
  PROVE  LET c == mls[i].cursor + 1
             h == mls[i].hist
         IN /\ mls[i].active /\ c \in DOMAIN commits /\ h \in Hist
            /\ Leaves(i, c, h) \/ Advances(i, c, h) \/ Fails(i, c, h)
<1>0. PICK c, h : c = mls[i].cursor + 1 /\ h = mls[i].hist  OBVIOUS
<1>1. PICK m : m = mls[i]  OBVIOUS
<1>2. m \in [hist : Hist, active : BOOLEAN, cursor : Nat] /\ m.active
  BY <1>1 DEF TypeInv, NetTypes, Receive
<1>3. c \in DOMAIN commits
  <2>1. mls[i].cursor \in DOMAIN commits /\ mls[i].cursor # Len(commits)
    BY DEF Receive, Synced, TypeInv, Histories
  <2>2. commits \in Seq(GroupCommit)  BY DEF TypeInv, NetTypes
  <2>3. QED  BY <1>0, <2>1, <2>2
<1>4. UNCHANGED <<commits, log, remote, cur, keys, status, asked, mail>>  BY DEF Receive
<1>5. /\ mls \in [Inst -> [hist : Hist, active : BOOLEAN, cursor : Nat]]
      /\ c \in Nat /\ h \in Hist /\ Append(h, c) \in Hist
  <2>1. mls \in [Inst -> [hist : Hist, active : BOOLEAN, cursor : Nat]]
    BY DEF TypeInv, NetTypes
  <2>2. c \in Nat /\ h \in Hist  BY <1>0, <2>1
  <2>3. QED  BY <2>1, <2>2, Appended DEF Hist
<1>6. CASE /\ accept
           /\ i \in commits[c].removes
           /\ mls' = [mls EXCEPT ![i].active = FALSE, ![i].cursor = c]
           /\ rows' = [rows EXCEPT ![i] = Append(@, Row("RemovedFromGroup", c, h, h))]
           /\ UNCHANGED <<welcomes, glitches>>
  <2>1. commits[c].base = h  BY <1>0, <1>6 DEF Receive
  <2>2. Moved(i, h, FALSE, c, rows'[i])
    BY <1>0, <1>1, <1>2, <1>4, <1>5, <1>6 DEF Moved, TypeInv, LogTypes
  <2>3. Leaves(i, c, h)  BY <1>6, <2>1, <2>2 DEF Leaves, Moved, TypeInv, LogTypes
  <2>4. QED  BY <1>0, <1>1, <1>2, <1>3, <1>5, <2>3
<1>7. CASE /\ accept
           /\ i \notin commits[c].removes
           /\ mls' = [mls EXCEPT ![i].hist = Append(h, c), ![i].cursor = c]
           /\ rows' = [rows EXCEPT ![i] = Append(@, Row("Applied", c, h, Append(h, c)))]
           /\ welcomes' = IF commits[c].by = i
                          THEN [j \in Inst |-> welcomes[j] \cup
                                  (IF j \in commits[c].adds THEN {c} ELSE {})]
                          ELSE welcomes
           /\ UNCHANGED glitches
  <2>1. commits[c].base = h  BY <1>0, <1>7 DEF Receive
  <2>2. Moved(i, Append(h, c), TRUE, c, rows'[i])
    BY <1>0, <1>1, <1>2, <1>4, <1>5, <1>7 DEF Moved, TypeInv, LogTypes
  <2>3. Advances(i, c, h)  BY <1>7, <2>1, <2>2 DEF Advances, Moved, TypeInv, LogTypes
  <2>4. QED  BY <1>0, <1>1, <1>2, <1>3, <1>5, <2>3
<1>8. CASE /\ ~accept
           /\ mls' = [mls EXCEPT ![i].cursor = c]
           /\ rows' = [rows EXCEPT ![i] = FailedRows(i, c)]
           /\ \/ commits[c].base # h /\ UNCHANGED glitches
              \/ /\ commits[c].base = h
                 /\ glitches' = glitches + 1
           /\ UNCHANGED welcomes
  <2>1. Moved(i, h, TRUE, c, rows'[i])
    BY <1>0, <1>1, <1>2, <1>4, <1>5, <1>8 DEF Moved, TypeInv, LogTypes
  <2>2. Fails(i, c, h)  BY <1>8, <2>1 DEF Fails, Moved, TypeInv, LogTypes
  <2>3. QED  BY <1>0, <1>1, <1>2, <1>3, <1>5, <2>2
<1>9. QED  BY <1>0, <1>6, <1>7, <1>8 DEF Receive

(* The row that is written, and what it does to the log. *)
LEMMA RowTypes ==
  ASSUME TypeInv, NEW i \in Inst, NEW type \in CommitType, NEW seq \in Nat, NEW last \in Hist,
         NEW applied \in Hist
  PROVE  LET r == Row(type, seq, last, applied)
         IN r \in LocalRow /\ r.type = type /\ r.seq = seq /\ r.last = last /\ r.applied = applied
BY DEF Row, LocalRow

(* Local logs only grow. *)
MoreRows(i, rs) == rs = rows[i] \/ \E r \in LocalRow : rs = Append(rows[i], r)

LEMMA MovedTypes ==
  ASSUME TypeInv, NEW i \in Inst, NEW h \in Hist, NEW active \in BOOLEAN,
         NEW c \in DOMAIN commits, NEW rs, MoreRows(i, rs), Moved(i, h, active, c, rs),
         Range(h) \subseteq DOMAIN commits, glitches' \in Nat,
         welcomes' \in [Inst -> SUBSET Nat],
         \A j \in Inst : welcomes'[j] \subseteq DOMAIN commits
  PROVE  TypeInv'
<1>1. commits \in Seq(GroupCommit) /\ c \in Nat  BY DEF TypeInv, NetTypes
<1>4. /\ mls' \in [Inst -> [hist : Hist, active : BOOLEAN, cursor : Nat]]
      /\ mls'[i].hist = h /\ mls'[i].cursor = c /\ \A j \in Inst \ {i} : mls'[j] = mls[j]
  BY DEF Moved
<1>5. /\ rs \in Seq(LocalRow) /\ Len(rs) >= Len(rows[i]) /\ rs # <<>>
      /\ rs[1] = rows[i][1] /\ Len(rows[i]) \in Nat /\ Len(rs) \in Nat
  <2>1. rows[i] \in Seq(LocalRow) /\ rows[i] # <<>>  BY DEF TypeInv, LogTypes, Cursors
  <2>2. CASE rs = rows[i]  BY <2>1, <2>2
  <2>3. CASE rs # rows[i]
    <3>1. PICK r \in LocalRow : rs = Append(rows[i], r)  BY <2>3 DEF MoreRows
    <3>2. QED  BY <2>1, <3>1, Appended
  <2>4. QED  BY <2>2, <2>3
<1>6. rows' \in [Inst -> Seq(LocalRow)] /\ rows'[i] = rs /\ \A j \in Inst \ {i} : rows'[j] = rows[j]
  BY <1>5 DEF Moved, TypeInv, LogTypes
<1>7. UNCHANGED <<commits, log, remote, cur, keys, status>>  BY DEF Moved
<1>8. NetTypes'  BY <1>4, <1>7 DEF TypeInv, NetTypes
<1>9. LogTypes'  BY <1>6, <1>7 DEF TypeInv, LogTypes
<1>10. Histories'
  <2>1. \A j \in Inst : Range(mls'[j].hist) \subseteq DOMAIN commits /\ mls'[j].cursor \in DOMAIN commits
    BY <1>4 DEF TypeInv, Histories
  <2>2. QED  BY <1>7, <2>1 DEF TypeInv, Histories
<1>11. Cursors'
  <2>1. ASSUME NEW j \in Inst
        PROVE  /\ rows'[j] # <<>> /\ rows'[j][1].seq = 0
               /\ cur[j].local <= Len(rows'[j]) /\ cur[j].upload <= Len(rows'[j])
               /\ cur[j].download <= Len(log)
    <3>1. /\ rows[j] # <<>> /\ rows[j][1].seq = 0
          /\ cur[j].local <= Len(rows[j]) /\ cur[j].upload <= Len(rows[j])
          /\ cur[j].download <= Len(log)
      BY DEF TypeInv, Cursors
    <3>2. CASE j # i  BY <1>6, <3>1, <3>2
    <3>3. CASE j = i
      <4>1. cur[i].local \in Nat /\ cur[i].upload \in Nat  BY DEF TypeInv, LogTypes
      <4>2. QED  BY <1>5, <1>6, <3>1, <3>3, <4>1
    <3>4. QED  BY <3>2, <3>3
  <2>2. QED  BY <1>7, <2>1 DEF Cursors
<1>12. QED  BY <1>8, <1>9, <1>10, <1>11 DEF TypeInv

LEMMA FailedRowsGrow ==
  ASSUME TypeInv, NEW i \in Inst, NEW c \in Nat
  PROVE  /\ MoreRows(i, FailedRows(i, c))
         /\ \/ FailedRows(i, c) = rows[i]
            \/ FailedRows(i, c) = Append(rows[i], Row("Failed", c, mls[i].hist, mls[i].hist))
<1>1. mls[i].hist \in Hist  BY DEF TypeInv, NetTypes
<1>2. Row("Failed", c, mls[i].hist, mls[i].hist) \in LocalRow  BY <1>1, RowTypes DEF CommitType
<1>3. QED  BY <1>2 DEF FailedRows, MoreRows

LEMMA ReceiveTypes ==
  ASSUME TypeInv, NEW i \in Inst, NEW accept \in BOOLEAN, Receive(i, accept)
  PROVE  TypeInv'
<1>0. PICK c, h : c = mls[i].cursor + 1 /\ h = mls[i].hist  OBVIOUS
<1>1. /\ c \in DOMAIN commits /\ h \in Hist
      /\ Leaves(i, c, h) \/ Advances(i, c, h) \/ Fails(i, c, h)
  BY <1>0, ReceiveCases
<1>2. Range(h) \subseteq DOMAIN commits  BY <1>0 DEF TypeInv, Histories
<1>3. welcomes \in [Inst -> SUBSET Nat] /\ \A j \in Inst : welcomes[j] \subseteq DOMAIN commits
  BY DEF TypeInv, NetTypes
<1>4. glitches \in Nat /\ c \in Nat
  <2>1. commits \in Seq(GroupCommit) /\ glitches \in Nat  BY DEF TypeInv, NetTypes, LogTypes
  <2>2. QED  BY <1>1, <2>1
<1>5. CASE Leaves(i, c, h)
  <2>1. MoreRows(i, Append(rows[i], Row("RemovedFromGroup", c, h, h)))
    BY <1>1, <1>4, RowTypes DEF MoreRows, CommitType
  <2>2. Moved(i, h, FALSE, c, Append(rows[i], Row("RemovedFromGroup", c, h, h)))
        /\ UNCHANGED <<welcomes, glitches>>
    BY <1>5 DEF Leaves
  <2>3. QED  BY <1>1, <1>2, <1>3, <1>4, <2>1, <2>2, MovedTypes
<1>6. CASE Advances(i, c, h)
  <2>1. PICK g : g = Append(h, c)  OBVIOUS
  <2>2. g \in Hist /\ Range(g) \subseteq DOMAIN commits
    <3>1. g \in Hist /\ Range(g) = Range(h) \cup {c}  BY <1>1, <1>4, <2>1, Appended DEF Hist
    <3>2. QED  BY <1>1, <1>2, <3>1
  <2>3. MoreRows(i, Append(rows[i], Row("Applied", c, h, g)))
    BY <1>1, <1>4, <2>2, RowTypes DEF MoreRows, CommitType
  <2>4. Moved(i, g, TRUE, c, Append(rows[i], Row("Applied", c, h, g))) /\ UNCHANGED glitches
    BY <1>6, <2>1 DEF Advances
  <2>5. \A j \in Inst : welcomes'[j] \subseteq welcomes[j] \cup {c}
        /\ welcomes' \in [Inst -> SUBSET Nat]
    BY <1>3, <1>4, <1>6 DEF Advances
  <2>6. \A j \in Inst : welcomes'[j] \subseteq DOMAIN commits  BY <1>1, <1>3, <2>5
  <2>7. welcomes' \in [Inst -> SUBSET Nat]  BY <1>3, <1>4, <1>6 DEF Advances
  <2>8. QED  BY <1>1, <1>4, <2>2, <2>3, <2>4, <2>6, <2>7, MovedTypes
<1>7. CASE Fails(i, c, h)
  <2>1. MoreRows(i, FailedRows(i, c))  BY <1>4, FailedRowsGrow
  <2>2. Moved(i, h, TRUE, c, FailedRows(i, c)) /\ UNCHANGED welcomes  BY <1>7 DEF Fails
  <2>3. glitches' \in Nat  BY <1>4, <1>7 DEF Fails
  <2>4. QED  BY <1>1, <1>2, <1>3, <2>1, <2>2, <2>3, MovedTypes
<1>8. QED  BY <1>1, <1>5, <1>6, <1>7

(* A welcome, in the same terms. *)
Joins(i, c, h, n) ==
  /\ c \in welcomes[i] /\ \A d \in welcomes[i] : c <= d
  /\ h = Append(commits[c].base, c)
  /\ n \in {c, mls[i].cursor} /\ c <= n /\ mls[i].cursor <= n
  /\ Moved(i, h, TRUE, n, Append(rows[i], Row("Welcome", 0, <<>>, h)))
  /\ welcomes' = [welcomes EXCEPT ![i] = @ \ {c}]
  /\ UNCHANGED glitches

LEMMA WelcomeCases ==
  ASSUME TypeInv, NEW i \in Inst, Welcome(i)
  PROVE  \E c \in DOMAIN commits, h \in Hist, n \in DOMAIN commits :
           Joins(i, c, h, n) /\ Range(h) \subseteq DOMAIN commits
<1>0. PICK c : c = Min(welcomes[i])  OBVIOUS
<1>1. /\ welcomes \in [Inst -> SUBSET Nat] /\ welcomes[i] \subseteq DOMAIN commits
      /\ commits \in Seq(GroupCommit)
      /\ mls \in [Inst -> [hist : Hist, active : BOOLEAN, cursor : Nat]]
      /\ welcomes[i] # {}
  BY DEF TypeInv, NetTypes, Welcome
<1>2. c \in welcomes[i] /\ (\A d \in welcomes[i] : c <= d) /\ c \in DOMAIN commits /\ c \in Nat
  <2>1. welcomes[i] \subseteq Nat  BY <1>1
  <2>2. QED  BY <1>0, <1>1, <2>1, Least
<1>3. commits[c].base \in Hist /\ Range(commits[c].base) \subseteq DOMAIN commits
  <2>1. commits[c] \in GroupCommit  BY <1>1, <1>2
  <2>2. QED  BY <1>2, <2>1 DEF GroupCommit, TypeInv, Histories
<1>4. PICK h : h = Append(commits[c].base, c)  OBVIOUS
<1>5. h \in Hist /\ Range(h) \subseteq DOMAIN commits
  <2>1. h \in Hist /\ Range(h) = Range(commits[c].base) \cup {c}
    BY <1>2, <1>3, <1>4, Appended DEF Hist
  <2>2. QED  BY <1>2, <1>3, <2>1
<1>6. PICK n : n = Max({c, mls[i].cursor})  OBVIOUS
<1>7. n \in {c, mls[i].cursor} /\ c <= n /\ mls[i].cursor <= n /\ n \in DOMAIN commits /\ n \in Nat
  <2> DEFINE S == {c, mls[i].cursor}
  <2>1. mls[i].cursor \in DOMAIN commits  BY DEF TypeInv, Histories
  <2>2. S \subseteq Nat /\ S # {} /\ Len(commits) \in Nat /\ S \subseteq DOMAIN commits
    BY <1>1, <1>2, <2>1
  <2>3. \A k \in S : k <= Len(commits)  BY <1>1, <2>2
  <2>4. n = Max(S)  BY <1>6
  <2> HIDE DEF S
  <2>5. n \in S /\ \A k \in S : k <= n  BY <2>2, <2>3, <2>4, Greatest
  <2>6. n \in DOMAIN commits /\ n \in Nat  BY <2>2, <2>5
  <2>7. QED  BY <2>5, <2>6 DEF S
<1>8. /\ mls' = [mls EXCEPT ![i] = [hist |-> h, active |-> TRUE, cursor |-> n]]
      /\ rows' = [rows EXCEPT ![i] = Append(@, Row("Welcome", 0, <<>>, h))]
      /\ welcomes' = [welcomes EXCEPT ![i] = @ \ {c}]
      /\ UNCHANGED <<commits, log, remote, cur, keys, status, asked, mail, glitches>>
  BY <1>0, <1>4, <1>6 DEF Welcome
<1>9. Moved(i, h, TRUE, n, Append(rows[i], Row("Welcome", 0, <<>>, h)))
  BY <1>1, <1>5, <1>7, <1>8 DEF Moved
<1>10. Joins(i, c, h, n)  BY <1>2, <1>4, <1>7, <1>8, <1>9 DEF Joins
<1>11. QED  BY <1>2, <1>5, <1>7, <1>10

LEMMA WelcomeTypes ==
  ASSUME TypeInv, NEW i \in Inst, Welcome(i)
  PROVE  TypeInv'
<1>1. PICK c \in DOMAIN commits, h \in Hist, n \in DOMAIN commits :
        Joins(i, c, h, n) /\ Range(h) \subseteq DOMAIN commits
  BY WelcomeCases
<1>2. <<>> \in Hist /\ 0 \in Nat  BY DEF Hist
<1>3. MoreRows(i, Append(rows[i], Row("Welcome", 0, <<>>, h)))
  BY <1>2, RowTypes DEF MoreRows, CommitType
<1>4. /\ Moved(i, h, TRUE, n, Append(rows[i], Row("Welcome", 0, <<>>, h)))
      /\ welcomes' = [welcomes EXCEPT ![i] = @ \ {c}] /\ UNCHANGED glitches
  BY <1>1 DEF Joins
<1>5. welcomes \in [Inst -> SUBSET Nat] /\ \A j \in Inst : welcomes[j] \subseteq DOMAIN commits
  BY DEF TypeInv, NetTypes
<1>6. /\ welcomes' \in [Inst -> SUBSET Nat]
      /\ \A j \in Inst : welcomes'[j] \subseteq DOMAIN commits
  BY <1>4, <1>5
<1>7. glitches' \in Nat  BY <1>4 DEF TypeInv, LogTypes
<1>8. QED  BY <1>1, <1>3, <1>4, <1>6, <1>7, MovedTypes

(* The entries of the log that a tick reads. *)
PageOf(i) == SubSeq(log, cur[i].download + 1, Min({cur[i].download + Page, Len(log)}))

LEMMA PageFacts ==
  ASSUME TypeInv, NEW i \in Inst
  PROVE  LET page == PageOf(i)
             from == cur[i].download
         IN /\ page \in Seq(Entry) /\ from \in Nat /\ Len(page) \in Nat
            /\ from + Len(page) <= Len(log)
            /\ \A k \in 1..Len(page) : page[k] = log[from + k] /\ from + k \in DOMAIN log
<1>0. PICK page, from : page = PageOf(i) /\ from = cur[i].download  OBVIOUS
<1>1. /\ log \in Seq(Entry) /\ from \in Nat /\ from <= Len(log) /\ Len(log) \in Nat
      /\ Page \in Nat \ {0}
  BY BoundAssumption, <1>0 DEF TypeInv, NetTypes, LogTypes, Cursors
<1>2. PICK to : to = Min({from + Page, Len(log)})  OBVIOUS
<1>3. to \in Nat /\ from <= to /\ to <= Len(log)
  <2> DEFINE S == {from + Page, Len(log)}
  <2>1. S \subseteq Nat /\ S # {} /\ to = Min(S) /\ \A k \in S : k >= from  BY <1>1, <1>2
  <2>2. Len(log) \in S  OBVIOUS
  <2> HIDE DEF S
  <2>3. to \in S /\ \A k \in S : to <= k  BY <2>1, Least
  <2>4. QED  BY <2>1, <2>2, <2>3
<1>4. page = SubSeq(log, from + 1, to)  BY <1>0, <1>2 DEF PageOf
<1>5. page \in Seq(Entry) /\ Len(page) = to - from /\ \A k \in 1..to - from : page[k] = log[from + k]
  <2>1. from + 1 \in Nat /\ from + 1 <= to + 1  BY <1>1, <1>3
  <2>2. Len(page) = to - from  BY <1>1, <1>3, <1>4, <2>1
  <2>3. \A k \in 1..to - from : page[k] = log[from + k]  BY <1>1, <1>3, <1>4, <2>1
  <2>4. page \in Seq(Entry)
    <3>1. \A k \in from + 1..to : k \in 1..Len(log)  BY <1>1, <1>3
    <3>2. \A k \in from + 1..to : log[k] \in Entry  BY <1>1, <3>1
    <3>3. QED  BY <1>1, <1>3, <1>4, <3>2
  <2>5. QED  BY <2>2, <2>3, <2>4
<1>6. PICK n \in Nat : n = Len(page) /\ from + n = to  BY <1>1, <1>3, <1>5
<1>7. \A k \in 1..n : page[k] = log[from + k] /\ from + k \in 1..Len(log)
  BY <1>1, <1>3, <1>5, <1>6
<1>8. DOMAIN log = 1..Len(log)  BY <1>1
<1>9. QED  BY <1>0, <1>1, <1>3, <1>5, <1>6, <1>7, <1>8

(* What is new in a saved log is in the remote log. *)
TakenFromLog(i, new) ==
  \A m \in DOMAIN new :
    m \in DOMAIN remote[i] \/ \E k \in DOMAIN log : Publishes(log[k], new[m])

LEMMA SavedFromLog ==
  ASSUME TypeInv, NEW i \in Inst, NEW n \in 0..Len(PageOf(i)), NEW key
  PROVE  LET new == SavePage(remote[i], SubSeq(PageOf(i), 1, n), key)
         IN new \in Seq(SavedRow) /\ Extends(remote[i], new) /\ TakenFromLog(i, new)
<1>0. PICK page : page = PageOf(i)  OBVIOUS
<1>1. /\ page \in Seq(Entry) /\ Len(page) \in Nat
      /\ \A k \in 1..Len(page) : page[k] = log[cur[i].download + k] /\ cur[i].download + k \in DOMAIN log
  BY <1>0, PageFacts
<1>2. PICK part : part = SubSeq(page, 1, n)  OBVIOUS
<1>3. part \in Seq(Entry) /\ Len(part) = n /\ \A k \in 1..n : part[k] = page[k]
  BY <1>0, <1>1, <1>2
<1>4. remote[i] \in Seq(SavedRow)  BY DEF TypeInv, LogTypes
<1>5. PICK new : new = SavePage(remote[i], part, key)  OBVIOUS
<1>6. new \in Seq(SavedRow) /\ Extends(remote[i], new) /\ TakenFrom(remote[i], new, part, n)
  BY <1>3, <1>4, <1>5, Saved
<1>7. ASSUME NEW m \in DOMAIN new, m \notin DOMAIN remote[i]
      PROVE  \E k \in DOMAIN log : Publishes(log[k], new[m])
  <2>1. PICK k \in 1..n : new[m].seq = part[k].seq /\ new[m].applied = part[k].applied
    BY <1>6, <1>7 DEF TakenFrom
  <2>2. k \in 1..Len(page)  BY <1>0, <1>1
  <2>3. part[k] = log[cur[i].download + k] /\ cur[i].download + k \in DOMAIN log
    BY <1>1, <1>3, <2>2
  <2>4. QED  BY <2>1, <2>3 DEF Publishes
<1>8. QED  BY <1>0, <1>2, <1>5, <1>6, <1>7 DEF TakenFromLog

(* The effect of saving: the rest of the group sees at most a commit that  *)
(* shares the key.                                                         *)
SharesKey(i) ==
  \/ UNCHANGED commits
  \/ \E key \in Key : commits' = Append(commits, Commit(i, {}, {}, key))

LEMMA SaveEffect ==
  ASSUME TypeInv, NEW i \in Inst, SaveRemoteCommitLog(i)
  PROVE  /\ SharesKey(i)
         /\ \E new \in Seq(SavedRow) :
              /\ remote' = [remote EXCEPT ![i] = new]
              /\ Extends(remote[i], new) /\ TakenFromLog(i, new)
         /\ \E d \in Nat : d <= Len(log) /\ cur' = [cur EXCEPT ![i].download = d]
         /\ \E key \in Key : keys' = [keys EXCEPT ![i].consensus = key]
         /\ UNCHANGED <<welcomes, log, mls, rows, status, readds, glitches>>
<1>0. PICK page, from : page = PageOf(i) /\ from = cur[i].download  OBVIOUS
<1>1. /\ page \in Seq(Entry) /\ from \in Nat /\ Len(page) \in Nat /\ from + Len(page) <= Len(log)
  BY <1>0, PageFacts
<1>2. PICK key : key = ConsensusKey(i, page)  OBVIOUS
<1>3. UNCHANGED <<welcomes, log, mls, rows, status, readds, glitches>>
  BY DEF SaveRemoteCommitLog
<1>4. /\ remote[i] \in Seq(SavedRow) /\ remote = [remote EXCEPT ![i] = remote[i]]
      /\ cur[i].download \in Nat /\ cur[i].download <= Len(log)
      /\ cur = [cur EXCEPT ![i].download = cur[i].download]
      /\ keys = [keys EXCEPT ![i].consensus = keys[i].consensus] /\ keys[i].consensus \in Key
  BY DEF TypeInv, LogTypes, Cursors
<1>5. CASE page = <<>>
  <2>1. UNCHANGED <<commits, remote, cur, keys>>  BY <1>0, <1>5 DEF SaveRemoteCommitLog, PageOf
  <2>2. Extends(remote[i], remote[i]) /\ TakenFromLog(i, remote[i])
    BY <1>4 DEF Extends, TakenFromLog
  <2>3. QED  BY <1>3, <1>4, <2>1, <2>2 DEF SharesKey
<1>6. CASE page # <<>>
  <2>1. key \in Key
    <3>1. page[1] \in Entry  BY <1>1, <1>6
    <3>2. QED  BY <1>2, <1>4, <3>1 DEF ConsensusKey, Entry, Key
  <2>2. SharesKey(i)
    BY <1>0, <1>2, <1>6, <2>1 DEF SaveRemoteCommitLog, PageOf, SharesKey
  <2>3. keys' = [keys EXCEPT ![i].consensus = key]
    BY <1>0, <1>2, <1>6 DEF SaveRemoteCommitLog, PageOf
  <2>4. page = SubSeq(page, 1, Len(page)) /\ Len(page) \in 0..Len(page)  BY <1>1
  <2>5. \/ /\ remote' = [remote EXCEPT ![i] = SavePage(remote[i], page, key)]
           /\ cur' = [cur EXCEPT ![i].download = from + Len(page)]
        \/ /\ \E n \in 1..Len(page) :
                remote' = [remote EXCEPT ![i] = SavePage(remote[i], SubSeq(page, 1, n), key)]
           /\ UNCHANGED cur
    BY <1>0, <1>2, <1>6 DEF SaveRemoteCommitLog, PageOf
  <2>6. CASE /\ remote' = [remote EXCEPT ![i] = SavePage(remote[i], page, key)]
             /\ cur' = [cur EXCEPT ![i].download = from + Len(page)]
    <3>1. PICK new : new = SavePage(remote[i], page, key)  OBVIOUS
    <3>2. new \in Seq(SavedRow) /\ Extends(remote[i], new) /\ TakenFromLog(i, new)
      BY <1>0, <2>4, <3>1, SavedFromLog
    <3>3. \E d \in Nat : d <= Len(log) /\ cur' = [cur EXCEPT ![i].download = d]
      <4>1. PICK d : d = from + Len(page)  OBVIOUS
      <4>2. d \in Nat /\ d <= Len(log)  BY <1>1, <4>1
      <4>3. QED  BY <2>6, <4>1, <4>2
    <3>4. remote' = [remote EXCEPT ![i] = new]  BY <2>6, <3>1
    <3>5. QED  BY <1>3, <2>1, <2>2, <2>3, <3>2, <3>3, <3>4
  <2>7. CASE /\ \E n \in 1..Len(page) :
                  remote' = [remote EXCEPT ![i] = SavePage(remote[i], SubSeq(page, 1, n), key)]
             /\ UNCHANGED cur
    <3>1. PICK n \in 1..Len(page) :
            remote' = [remote EXCEPT ![i] = SavePage(remote[i], SubSeq(page, 1, n), key)]
      BY <2>7
    <3>2. PICK new : new = SavePage(remote[i], SubSeq(page, 1, n), key)  OBVIOUS
    <3>3. n \in 0..Len(page)  BY <1>1
    <3>4. new \in Seq(SavedRow) /\ Extends(remote[i], new) /\ TakenFromLog(i, new)
      BY <1>0, <3>2, <3>3, SavedFromLog
    <3>5. QED  BY <1>3, <1>4, <2>1, <2>2, <2>3, <2>7, <3>1, <3>2, <3>4
  <2>8. QED  BY <2>5, <2>6, <2>7
<1>7. QED  BY <1>5, <1>6

LEMMA SharesKeyGrows ==
  ASSUME TypeInv, NEW i \in Inst, SharesKey(i)
  PROVE  MoreCommits
<1>1. CASE UNCHANGED commits  BY <1>1 DEF MoreCommits
<1>2. CASE ~UNCHANGED commits
  <2>1. PICK key \in Key : commits' = Append(commits, Commit(i, {}, {}, key))
    BY <1>2 DEF SharesKey
  <2>2. PICK x : x = Commit(i, {}, {}, key)  OBVIOUS
  <2>3. x \in GroupCommit /\ Range(x.base) \subseteq DOMAIN commits  BY <2>2, NewCommit
  <2>4. QED  BY <2>1, <2>2, <2>3 DEF MoreCommits
<1>3. QED  BY <1>1, <1>2

LEMMA SaveTypes ==
  ASSUME TypeInv, NEW i \in Inst, SaveRemoteCommitLog(i)
  PROVE  TypeInv'
<1>1. /\ MoreCommits
      /\ UNCHANGED <<welcomes, log, mls, rows, status, readds, glitches>>
  BY SaveEffect, SharesKeyGrows
<1>2. PICK new \in Seq(SavedRow) : remote' = [remote EXCEPT ![i] = new]  BY SaveEffect
<1>3. PICK d \in Nat : d <= Len(log) /\ cur' = [cur EXCEPT ![i].download = d]  BY SaveEffect
<1>4. PICK key \in Key : keys' = [keys EXCEPT ![i].consensus = key]  BY SaveEffect
<1>5. NetTypes' /\ Histories'  BY <1>1, MoreCommitsTypes DEF TypeInv, NetTypes
<1>6. LogTypes'  BY <1>1, <1>2, <1>3, <1>4 DEF TypeInv, LogTypes
<1>7. Cursors'
  <2>1. \A j \in Inst : /\ cur'[j].local = cur[j].local /\ cur'[j].upload = cur[j].upload
                        /\ cur'[j].download <= Len(log)
    BY <1>3 DEF TypeInv, LogTypes, Cursors
  <2>2. QED  BY <1>1, <2>1 DEF TypeInv, Cursors
<1>8. QED  BY <1>5, <1>6, <1>7 DEF TypeInv

(* The cursors of the fork check move together. *)
ForkCursors(i, local, rem) ==
  /\ local \in cur[i].local..Len(rows[i]) /\ rem \in Nat
  /\ cur' = [cur EXCEPT ![i].local = local, ![i].rem = rem]

LEMMA MovedForkCursors ==
  ASSUME TypeInv, NEW i \in Inst, NEW local, NEW rem, ForkCursors(i, local, rem)
  PROVE  /\ cur' \in [Inst -> [download : Nat, upload : Nat, local : Nat, rem : Nat]]
         /\ cur'[i].local = local /\ \A j \in Inst \ {i} : cur'[j] = cur[j]
         /\ \A j \in Inst : /\ cur'[j].local <= Len(rows[j]) /\ cur[j].local <= cur'[j].local
                            /\ cur'[j].upload = cur[j].upload /\ cur'[j].download = cur[j].download
<1>1. /\ cur \in [Inst -> [download : Nat, upload : Nat, local : Nat, rem : Nat]]
      /\ Len(rows[i]) \in Nat
  BY DEF TypeInv, LogTypes
<1>2. cur[i].local \in Nat  BY <1>1
<1>3. local \in Nat /\ local <= Len(rows[i]) /\ cur[i].local <= local /\ rem \in Nat
  BY <1>1, <1>2 DEF ForkCursors
<1>4. cur' = [cur EXCEPT ![i].local = local, ![i].rem = rem]  BY DEF ForkCursors
<1>5. cur' \in [Inst -> [download : Nat, upload : Nat, local : Nat, rem : Nat]]
  BY <1>1, <1>3, <1>4
<1>6. /\ cur'[i].local = local /\ \A j \in Inst \ {i} : cur'[j] = cur[j]
      /\ \A j \in Inst : cur'[j].upload = cur[j].upload /\ cur'[j].download = cur[j].download
  BY <1>1, <1>4
<1>7. \A j \in Inst : cur'[j].local <= Len(rows[j]) /\ cur[j].local <= cur'[j].local
  <2>1. \A j \in Inst : cur[j].local <= Len(rows[j]) /\ cur[j].local \in Nat
    BY <1>1 DEF TypeInv, Cursors
  <2>2. \A j \in Inst : cur[j].local <= cur[j].local  BY <2>1
  <2>3. QED  BY <1>3, <1>6, <2>1, <2>2
<1>8. QED  BY <1>5, <1>6, <1>7

LEMMA UpdateEffect ==
  ASSUME TypeInv, NEW i \in Inst, UpdateForkedState(i)
  PROVE  /\ UNCHANGED <<commits, welcomes, log, mls, rows, remote, keys, readds, glitches>>
         /\ \/ UNCHANGED <<cur, status>>
            \/ \E local, rem : \E verdict \in {"unknown", "clean", "forked"} :
                 /\ status[i] # "forked"
                 /\ ForkCursors(i, local, rem) /\ status' = [status EXCEPT ![i] = verdict]
                 /\ verdict = "clean" =>
                      CleanBasis(i, local) \/ (status[i] = "clean" /\ local = cur[i].local)
                 /\ verdict = "forked" => ForkedBasis(i)
<1>1. UNCHANGED <<commits, welcomes, log, mls, rows, remote, keys, readds, glitches>>
  BY DEF UpdateForkedState, net
<1>2. CASE status[i] = "forked"  BY <1>1, <1>2 DEF UpdateForkedState
<1>3. CASE status[i] # "forked"
  <2>1. PICK check : check = CheckForkState(i)  OBVIOUS
  <2>2. /\ cur' = [cur EXCEPT ![i].local = check.local, ![i].rem = check.rem]
        /\ status' = [status EXCEPT ![i] = check.verdict]
    BY <1>3, <2>1 DEF UpdateForkedState, MoveForkCursors
  <2>3. /\ check.local \in cur[i].local..Len(rows[i]) /\ check.rem \in Nat
        /\ check.verdict \in {"unknown", "clean", "forked"}
        /\ check.verdict = "clean" =>
             CleanBasis(i, check.local) \/ (status[i] = "clean" /\ check.local = cur[i].local)
        /\ check.verdict = "forked" => status[i] = "forked" \/ ForkedBasis(i)
    BY <2>1, CheckFacts
  <2>4. ForkCursors(i, check.local, check.rem)  BY <2>2, <2>3 DEF ForkCursors
  <2>5. QED  BY <1>1, <1>3, <2>2, <2>3, <2>4
<1>4. QED  BY <1>2, <1>3

LEMMA UpdateTypes ==
  ASSUME TypeInv, NEW i \in Inst, UpdateForkedState(i)
  PROVE  TypeInv'
<1>1. UNCHANGED <<commits, welcomes, log, mls, rows, remote, keys, readds, glitches>>
  BY UpdateEffect
<1>2. NetTypes' /\ Histories'  BY <1>1 DEF TypeInv, NetTypes, Histories
<1>3. CASE UNCHANGED <<cur, status>>
  BY <1>1, <1>2, <1>3 DEF TypeInv, LogTypes, Cursors
<1>4. CASE ~UNCHANGED <<cur, status>>
  <2>1. PICK local, rem : \E verdict \in {"unknown", "clean", "forked"} :
          ForkCursors(i, local, rem) /\ status' = [status EXCEPT ![i] = verdict]
    BY <1>4, UpdateEffect
  <2>2. /\ cur' \in [Inst -> [download : Nat, upload : Nat, local : Nat, rem : Nat]]
        /\ \A j \in Inst : /\ cur'[j].local <= Len(rows[j])
                           /\ cur'[j].upload = cur[j].upload /\ cur'[j].download = cur[j].download
    BY <2>1, MovedForkCursors
  <2>3. LogTypes'  BY <1>1, <2>1, <2>2 DEF TypeInv, LogTypes
  <2>4. Cursors'  BY <1>1, <2>2 DEF TypeInv, Cursors
  <2>5. QED  BY <1>2, <2>3, <2>4 DEF TypeInv
<1>5. QED  BY <1>3, <1>4

(* The effect of publishing on the log and on the upload cursor. *)
LEMMA PublishEffect ==
  ASSUME TypeInv, NEW i \in Inst, PublishCommitLogs(i)
  PROVE  /\ UNCHANGED <<commits, welcomes, mls, rows, remote, status, readds, glitches>>
         /\ UNCHANGED keys \/ keys' = [keys EXCEPT ![i].signer = StoredKey(i)]
         /\ \/ UNCHANGED <<log, cur>>
            \/ /\ log' = log \o SignedEntries(i) /\ Unpublished(i) # {}
               /\ SignedEntries(i) = <<>> => OtherGroups
               /\ \/ UNCHANGED cur
                  \/ cur' = [cur EXCEPT ![i].upload = Max(Unpublished(i))]
<1>1. UNCHANGED <<commits, welcomes, mls, rows, remote, status, readds, glitches>>
  BY DEF PublishCommitLogs
<1>2. CASE i \notin Admins \/ Unpublished(i) = {}
  BY <1>1, <1>2 DEF PublishCommitLogs
<1>3. CASE ~(i \notin Admins \/ Unpublished(i) = {})
  <2>1. keys' = [keys EXCEPT ![i].signer = StoredKey(i)]  BY <1>3 DEF PublishCommitLogs
  <2>2. PICK others \in (IF OtherGroups THEN BOOLEAN ELSE {FALSE}) :
          IF SignedEntries(i) = <<>> /\ ~others
          THEN UNCHANGED <<log, cur>>
          ELSE \/ /\ log' = log \o SignedEntries(i)
                  /\ \/ cur' = [cur EXCEPT ![i].upload = Max(Unpublished(i))]
                     \/ UNCHANGED cur
               \/ UNCHANGED <<log, cur>>
    BY <1>3 DEF PublishCommitLogs
  <2>3. others => OtherGroups  BY <2>2
  <2>4. QED  BY <1>1, <1>3, <2>1, <2>2, <2>3
<1>4. QED  BY <1>2, <1>3

LEMMA LastUnpublished ==
  ASSUME TypeInv, NEW i \in Inst, Unpublished(i) # {}
  PROVE  /\ Max(Unpublished(i)) \in 1..Len(rows[i])
         /\ \A n \in Unpublished(i) : n <= Max(Unpublished(i))
         /\ cur[i].upload < Max(Unpublished(i))
<1> DEFINE S == Unpublished(i)
<1>1. rows[i] \in Seq(LocalRow) /\ Len(rows[i]) \in Nat /\ cur[i].upload \in Nat
  BY DEF TypeInv, LogTypes
<1>2. S \subseteq 1..Len(rows[i]) /\ \A n \in S : n > cur[i].upload
  BY <1>1 DEF Unpublished
<1> HIDE DEF S
<1>3. S \subseteq Nat /\ \A n \in S : n <= Len(rows[i])
  <2>1. PICK len \in Nat : len = Len(rows[i])  BY <1>1
  <2>2. \A n \in S : n \in 1..len  BY <1>2, <2>1
  <2>3. \A n \in S : n \in Nat /\ n <= len  BY <2>1, <2>2
  <2>4. QED  BY <2>1, <2>3
<1>4. S # {}  BY DEF S
<1>5. Max(S) \in S /\ \A n \in S : n <= Max(S)  BY <1>1, <1>3, <1>4, Greatest
<1>6. Max(S) \in 1..Len(rows[i]) /\ Max(S) > cur[i].upload  BY <1>2, <1>5
<1>7. cur[i].upload < Max(S)  BY <1>1, <1>3, <1>5, <1>6
<1>8. QED  BY <1>5, <1>6, <1>7 DEF S

LEMMA PublishTypes ==
  ASSUME TypeInv, NEW i \in Inst, PublishCommitLogs(i)
  PROVE  TypeInv'
<1>1. UNCHANGED <<commits, welcomes, mls, rows, remote, status, readds, glitches>>
  BY PublishEffect
<1>2. keys' \in [Inst -> [signer : Key, consensus : Key]]
  <2>1. StoredKey(i) \in Key  BY SigningKeyType
  <2>2. UNCHANGED keys \/ keys' = [keys EXCEPT ![i].signer = StoredKey(i)]  BY PublishEffect
  <2>3. keys \in [Inst -> [signer : Key, consensus : Key]]  BY DEF TypeInv, LogTypes
  <2>4. PICK stored \in Key : stored = StoredKey(i)  BY <2>1
  <2>5. QED  BY <2>2, <2>3, <2>4
<1>3. log' \in Seq(Entry) /\ Len(log) <= Len(log') /\ Len(log) \in Nat /\ Len(log') \in Nat
  <2>1. log \in Seq(Entry) /\ SignedEntries(i) \in Seq(Entry)  BY Signed DEF TypeInv, NetTypes
  <2>2. log' = log \/ log' = log \o SignedEntries(i)  BY PublishEffect
  <2>3. PICK es, new : es = SignedEntries(i) /\ new = log'  OBVIOUS
  <2>4. CASE new = log  BY <2>1, <2>3, <2>4
  <2>5. CASE new = log \o es  BY <2>1, <2>3, <2>5
  <2>6. QED  BY <2>2, <2>3, <2>4, <2>5
<1>4. /\ cur' \in [Inst -> [download : Nat, upload : Nat, local : Nat, rem : Nat]]
      /\ \A j \in Inst : /\ cur'[j].local = cur[j].local /\ cur'[j].upload <= Len(rows[j])
                         /\ cur'[j].download = cur[j].download
  <2>1. CASE UNCHANGED cur  BY <2>1 DEF TypeInv, LogTypes, Cursors
  <2>2. CASE ~UNCHANGED cur
    <3>1. cur' = [cur EXCEPT ![i].upload = Max(Unpublished(i))] /\ Unpublished(i) # {}
      BY <2>2, PublishEffect
    <3>2. PICK u : u = Max(Unpublished(i))  OBVIOUS
    <3>3. u \in Nat /\ u <= Len(rows[i])  BY <3>1, <3>2, LastUnpublished DEF TypeInv, LogTypes
    <3>4. QED  BY <3>1, <3>2, <3>3 DEF TypeInv, LogTypes, Cursors
  <2>3. QED  BY <2>1, <2>2
<1>5. NetTypes' /\ Histories'  BY <1>1, <1>3, MoreCommitsTypes DEF TypeInv, MoreCommits
<1>6. LogTypes'  BY <1>1, <1>2, <1>4 DEF TypeInv, LogTypes
<1>7. Cursors'
  <2>1. \A j \in Inst : cur[j].download <= Len(log) /\ cur[j].download \in Nat
    BY DEF TypeInv, LogTypes, Cursors
  <2>2. \A j \in Inst : cur'[j].download <= Len(log')  BY <1>3, <1>4, <2>1
  <2>3. QED  BY <1>1, <1>4, <2>2 DEF TypeInv, Cursors
<1>8. QED  BY <1>5, <1>6, <1>7 DEF TypeInv

(* Answering readd requests: at most a commit that adds installations      *)
(* again, and a check that moves the cursors.                              *)
LEMMA RespondEffect ==
  ASSUME TypeInv, NEW i \in Inst, RespondReadds(i)
  PROVE  /\ UNCHANGED <<welcomes, log, mls, rows, remote, keys, status, mail, glitches>>
         /\ UNCHANGED cur \/ \E local, rem : ForkCursors(i, local, rem)
         /\ \/ UNCHANGED commits
            \/ \E js \in SUBSET Inst : commits' = Append(commits, Commit(i, js, js, None))
         /\ (\A j \in Inst : asked[i][j] = 0) => UNCHANGED <<commits, cur, asked>>
<1>1. UNCHANGED <<welcomes, log, mls, rows, remote, keys, status, mail, glitches>>
  BY DEF RespondReadds
<1>2. CASE \A j \in Inst : ~Awaiting(i, j)  BY <1>1, <1>2 DEF RespondReadds
<1>3. CASE ~\A j \in Inst : ~Awaiting(i, j)
  <2>1. ~\A j \in Inst : asked[i][j] = 0  BY <1>3 DEF Awaiting
  <2>2. PICK check : check = CheckForkState(i)  OBVIOUS
  <2>3. check.local \in cur[i].local..Len(rows[i]) /\ check.rem \in Nat  BY <2>2, CheckFacts
  <2>4. UNCHANGED cur \/ cur' = [cur EXCEPT ![i].local = check.local, ![i].rem = check.rem]
    BY <1>3, <2>2 DEF RespondReadds, MoveForkCursors
  <2>5. UNCHANGED cur \/ ForkCursors(i, check.local, check.rem)  BY <2>3, <2>4 DEF ForkCursors
  <2>6. \/ UNCHANGED commits
        \/ \E js \in SUBSET Inst : commits' = Append(commits, Commit(i, js, js, None))
    <3>1. PICK js : js = {j \in {k \in Inst \ {i} : Awaiting(i, k)} : InTree(mls[i].hist, j)}
      OBVIOUS
    <3>2. js \in SUBSET Inst  BY <3>1
    <3>3. UNCHANGED commits \/ commits' = Append(commits, Commit(i, js, js, None))
      BY <1>3, <3>1 DEF RespondReadds
    <3>4. QED  BY <3>2, <3>3
  <2>7. QED  BY <1>1, <2>1, <2>5, <2>6
<1>4. QED  BY <1>2, <1>3

LEMMA RespondTypes ==
  ASSUME TypeInv, NEW i \in Inst, RespondReadds(i)
  PROVE  TypeInv'
<1>1. UNCHANGED <<welcomes, log, mls, rows, remote, keys, status, mail, glitches>>
  BY RespondEffect
<1>2. MoreCommits
  <2>1. CASE UNCHANGED commits  BY <2>1 DEF MoreCommits
  <2>2. CASE ~UNCHANGED commits
    <3>1. PICK js \in SUBSET Inst : commits' = Append(commits, Commit(i, js, js, None))
      BY <2>2, RespondEffect
    <3>2. PICK x : x = Commit(i, js, js, None)  OBVIOUS
    <3>3. None \in Key  BY DEF Key
    <3>4. x \in GroupCommit /\ Range(x.base) \subseteq DOMAIN commits  BY <3>2, <3>3, NewCommit
    <3>5. QED  BY <3>1, <3>2, <3>4 DEF MoreCommits
  <2>3. QED  BY <2>1, <2>2
<1>3. NetTypes' /\ Histories'  BY <1>1, <1>2, MoreCommitsTypes DEF TypeInv, NetTypes
<1>4. CASE UNCHANGED cur  BY <1>1, <1>3, <1>4 DEF TypeInv, LogTypes, Cursors
<1>5. CASE ~UNCHANGED cur
  <2>1. PICK local, rem : ForkCursors(i, local, rem)  BY <1>5, RespondEffect
  <2>2. /\ cur' \in [Inst -> [download : Nat, upload : Nat, local : Nat, rem : Nat]]
        /\ \A j \in Inst : /\ cur'[j].local <= Len(rows[j])
                           /\ cur'[j].upload = cur[j].upload /\ cur'[j].download = cur[j].download
    BY <2>1, MovedForkCursors
  <2>3. LogTypes'  BY <1>1, <2>2 DEF TypeInv, LogTypes
  <2>4. Cursors'  BY <1>1, <2>2 DEF TypeInv, Cursors
  <2>5. QED  BY <1>3, <2>3, <2>4 DEF TypeInv
<1>6. QED  BY <1>4, <1>5

LEMMA TypeInit == Init => TypeInv
<1>1. SUFFICES ASSUME Init PROVE TypeInv  OBVIOUS
<1>2. Creator \in Inst /\ None \in Key /\ <<>> \in Hist /\ <<1>> \in Hist
  BY InstAssumption DEF Key, Hist
<1>3. commits \in Seq(GroupCommit) /\ Len(commits) = 1 /\ commits[1].base = <<>> /\ DOMAIN commits = {1}
  <2>1. PICK x : x = [by |-> Creator, base |-> <<>>, removes |-> {}, adds |-> Inst, key |-> None]
    OBVIOUS
  <2>2. x \in GroupCommit /\ x.base = <<>>  BY <1>2, <2>1 DEF GroupCommit
  <2>3. commits = <<x>>  BY <1>1, <2>1 DEF Init
  <2>4. QED  BY <2>2, <2>3
<1>4. \A i \in Inst : mls[i].hist = <<1>> /\ mls[i].cursor = 1  BY <1>1 DEF Init
<1>5. mls \in [Inst -> [hist : Hist, active : BOOLEAN, cursor : Nat]]
  BY <1>1, <1>2 DEF Init
<1>6. NetTypes  BY <1>1, <1>3, <1>5 DEF Init, NetTypes
<1>7. Histories
  <2>1. Range(<<1>>) = {1} /\ Range(<<>>) = {}  BY DEF Range
  <2>2. QED  BY <1>3, <1>4, <2>1 DEF Histories
<1>8. ASSUME NEW i \in Inst
      PROVE  rows[i] \in Seq(LocalRow) /\ Len(rows[i]) > 0 /\ rows[i] # <<>> /\ rows[i][1].seq = 0
  <2>1. CASE i = Creator
    <3>1. PICK r, s : r = Row("GroupCreation", 0, <<>>, <<>>) /\ s = Row("Applied", 1, <<>>, <<1>>)
      OBVIOUS
    <3>2. r \in LocalRow /\ s \in LocalRow /\ r.seq = 0
      BY <1>2, <3>1 DEF Row, LocalRow, CommitType
    <3>3. rows[i] = <<r, s>>  BY <1>1, <2>1, <3>1 DEF Init
    <3>4. QED  BY <3>2, <3>3
  <2>2. CASE i # Creator
    <3>1. PICK r : r = Row("Welcome", 0, <<>>, <<1>>)  OBVIOUS
    <3>2. r \in LocalRow /\ r.seq = 0  BY <1>2, <3>1 DEF Row, LocalRow, CommitType
    <3>3. rows[i] = <<r>>  BY <1>1, <2>2, <3>1 DEF Init
    <3>4. QED  BY <3>2, <3>3
  <2>3. QED  BY <2>1, <2>2
<1>9. LogTypes
  <2>1. rows \in [Inst -> Seq(LocalRow)]
    <3>1. rows = [i \in Inst |-> rows[i]]  BY <1>1 DEF Init
    <3>2. QED  BY <1>8, <3>1
  <2>2. remote \in [Inst -> Seq(SavedRow)]  BY <1>1 DEF Init
  <2>3. QED  BY <1>1, <1>2, <2>1, <2>2 DEF Init, LogTypes
<1>10. Cursors
  <2>1. \A i \in Inst : cur[i].local = 0 /\ cur[i].upload = 0 /\ cur[i].download = 0  BY <1>1 DEF Init
  <2>2. Len(log) = 0  BY <1>1 DEF Init
  <2>3. \A i \in Inst : Len(rows[i]) \in Nat  BY <1>8
  <2>4. QED  BY <1>8, <2>1, <2>2, <2>3 DEF Cursors
<1>11. QED  BY <1>6, <1>7, <1>9, <1>10 DEF TypeInv

LEMMA TypeStep == TypeInv /\ [Next]_vars => TypeInv'
<1>1. SUFFICES ASSUME TypeInv, [Next]_vars PROVE TypeInv'  OBVIOUS
<1>2. CASE UNCHANGED vars
  BY <1>1, <1>2 DEF vars, net, logs, TypeInv, NetTypes, LogTypes, Histories, Cursors
<1>3. ASSUME NEW i \in Inst, Propose(i) PROVE TypeInv'  BY <1>1, <1>3, ProposeTypes
<1>4. ASSUME NEW i \in Inst, Follow(i) PROVE TypeInv'
  <2>1. CASE \E accept \in BOOLEAN : Receive(i, accept)  BY <1>1, <2>1, ReceiveTypes
  <2>2. CASE Welcome(i)  BY <1>1, <2>2, WelcomeTypes
  <2>3. CASE OneshotArrives(i)
    BY <1>1, <2>3 DEF OneshotArrives, net, logs, TypeInv, NetTypes, LogTypes, Histories, Cursors
  <2>4. QED  BY <1>4, <2>1, <2>2, <2>3 DEF Follow
<1>5. ASSUME NEW i \in Inst, Tick(i) PROVE TypeInv'
  <2>1. CASE SaveRemoteCommitLog(i)  BY <1>1, <2>1, SaveTypes
  <2>2. CASE UpdateForkedState(i)  BY <1>1, <2>2, UpdateTypes
  <2>3. CASE PublishCommitLogs(i)  BY <1>1, <2>3, PublishTypes
  <2>4. CASE RequestReadd(i)
    BY <1>1, <2>4 DEF RequestReadd, net, logs, TypeInv, NetTypes, LogTypes, Histories, Cursors
  <2>5. CASE RespondReadds(i)  BY <1>1, <2>5, RespondTypes
  <2>6. QED  BY <1>5, <2>1, <2>2, <2>3, <2>4, <2>5 DEF Tick
<1>6. QED  BY <1>1, <1>2, <1>3, <1>4, <1>5 DEF Next

-----------------------------------------------------------------------------
(* A clean verdict *)

LEMMA QuietInit == Init => Quiet
BY DEF Init, Quiet

LEMMA QuietStep ==
  ASSUME TypeInv, Quiet, Recovery = FALSE \/ \A i \in Inst : status[i] # "forked", [Next]_vars
  PROVE  Quiet'
<1>1. SUFFICES UNCHANGED <<asked, mail>>  BY DEF Quiet
<1>2. CASE UNCHANGED vars  BY <1>2 DEF vars, readds
<1>3. ASSUME NEW i \in Inst, Propose(i) PROVE UNCHANGED <<asked, mail>>
  BY <1>3 DEF Propose, readds
<1>4. ASSUME NEW i \in Inst, Follow(i) PROVE UNCHANGED <<asked, mail>>
  <2>1. CASE \E accept \in BOOLEAN : Receive(i, accept)  BY <2>1 DEF Receive
  <2>2. CASE Welcome(i)  BY <2>2 DEF Welcome
  <2>3. CASE OneshotArrives(i)  BY <2>3 DEF OneshotArrives, Quiet
  <2>4. QED  BY <1>4, <2>1, <2>2, <2>3 DEF Follow
<1>5. ASSUME NEW i \in Inst, Tick(i) PROVE UNCHANGED <<asked, mail>>
  <2>1. CASE SaveRemoteCommitLog(i)  BY <2>1 DEF SaveRemoteCommitLog, readds
  <2>2. CASE UpdateForkedState(i)  BY <2>2 DEF UpdateForkedState, readds
  <2>3. CASE PublishCommitLogs(i)  BY <2>3 DEF PublishCommitLogs, readds
  <2>4. CASE RequestReadd(i)  BY <2>4 DEF RequestReadd
  <2>5. CASE RespondReadds(i)
    <3>1. \A j \in Inst : asked[i][j] = 0  BY DEF Quiet
    <3>2. QED  BY <2>5, <3>1, RespondEffect
  <2>6. QED  BY <1>5, <2>1, <2>2, <2>3, <2>4, <2>5 DEF Tick
<1>6. QED  BY <1>2, <1>3, <1>4, <1>5 DEF Next

LEMMA CleanInit == Init => CleanInv
<1>1. SUFFICES ASSUME Init, NEW i \in Inst PROVE LastRow(i) /\ status[i] # "clean"
  BY DEF CleanInv
<1>2. mls[i].hist = <<1>> /\ status[i] = "unknown"  BY <1>1 DEF Init
<1>3. CASE i = Creator
  <2>1. PICK r, s : r = Row("GroupCreation", 0, <<>>, <<>>) /\ s = Row("Applied", 1, <<>>, <<1>>)
    OBVIOUS
  <2>2. rows[i] = <<r, s>>  BY <1>1, <1>3, <2>1 DEF Init
  <2>3. Last(rows[i]) = s  BY <2>2 DEF Last
  <2>4. s.applied = <<1>> /\ s.last = <<>>  BY <2>1 DEF Row
  <2>5. QED  BY <1>2, <2>3, <2>4 DEF LastRow, RemovesUs
<1>4. CASE i # Creator
  <2>1. PICK r : r = Row("Welcome", 0, <<>>, <<1>>)  OBVIOUS
  <2>2. rows[i] = <<r>>  BY <1>1, <1>4, <2>1 DEF Init
  <2>3. Last(rows[i]) = r  BY <2>2 DEF Last
  <2>4. r.applied = <<1>> /\ r.last = <<>>  BY <2>1 DEF Row
  <2>5. QED  BY <1>2, <2>3, <2>4 DEF LastRow, RemovesUs
<1>5. QED  BY <1>3, <1>4

(* A verdict stays true while the logs grow. *)
LEMMA CleanGrows ==
  ASSUME TypeInv, TypeInv', NEW i \in Inst,
         status'[i] = "clean" => status[i] = "clean",
         cur'[i].local = cur[i].local,
         Extends(rows[i], rows'[i]), Extends(remote[i], remote'[i]),
         status[i] = "clean" => \E n \in 1..cur[i].local : Compared(i, n)
  PROVE  status'[i] = "clean" => \E n \in 1..cur'[i].local : Compared(i, n)'
<1>1. SUFFICES ASSUME status'[i] = "clean" PROVE \E n \in 1..cur'[i].local : Compared(i, n)'
  OBVIOUS
<1>2. PICK n \in 1..cur[i].local : Compared(i, n)  BY <1>1
<1>3. PICK rs, qs, len : rs = rows'[i] /\ qs = remote'[i] /\ len = cur[i].local  OBVIOUS
<1>4. /\ rows[i] \in Seq(LocalRow) /\ remote[i] \in Seq(SavedRow) /\ len \in Nat /\ len <= Len(rows[i])
      /\ rs \in Seq(LocalRow) /\ qs \in Seq(SavedRow)
  BY <1>3 DEF TypeInv, LogTypes, Cursors
<1>5. \A k \in 1..len : rs[k] = rows[i][k]  BY <1>3, <1>4 DEF Extends
<1>6. PICK m \in DOMAIN remote[i] : remote[i][m].applied = rows[i][n].applied
  BY <1>2 DEF Compared
<1>7. m \in DOMAIN qs /\ qs[m] = remote[i][m]
  <2>1. Len(remote[i]) <= Len(qs) /\ \A k \in 1..Len(remote[i]) : qs[k] = remote[i][k]
    BY <1>3 DEF Extends
  <2>2. m \in 1..Len(remote[i])  BY <1>4
  <2>3. QED  BY <1>4, <2>1, <2>2
<1>8. \A k \in n + 1 .. len : RemovesUs(rows[i][k]) /\ k \in 1..len
  BY <1>2, <1>3, <1>4 DEF Compared
<1>9. \A k \in n + 1 .. len : RemovesUs(rs[k])  BY <1>5, <1>8
<1>10. qs[m].applied = rs[n].applied  BY <1>3, <1>5, <1>6, <1>7
<1>11. Compared(i, n)'
  <2>1. n \in 1..cur'[i].local /\ cur'[i].local = len  BY <1>3
  <2>2. QED  BY <1>3, <1>7, <1>9, <1>10, <2>1 DEF Compared
<1>12. QED  BY <1>3, <1>11

LEMMA ExtendsSame == ASSUME NEW s PROVE Extends(s, s)
BY DEF Extends

(* What a move of installation i leaves behind. *)
LEMMA CleanMoved ==
  ASSUME TypeInv, TypeInv', CleanInv, NEW i \in Inst, NEW h \in Hist, NEW active \in BOOLEAN,
         NEW c, NEW rs, Moved(i, h, active, c, rs), MoreRows(i, rs),
         active => Last(rs).applied = h /\ ~RemovesUs(Last(rs))
  PROVE  CleanInv'
<1>1. /\ UNCHANGED <<remote, cur, status>> /\ rows'[i] = rs
      /\ mls'[i].hist = h /\ mls'[i].active = active
      /\ \A j \in Inst \ {i} : mls'[j] = mls[j] /\ rows'[j] = rows[j]
  BY DEF Moved, TypeInv, LogTypes
<1>2. \A j \in Inst : Extends(rows[j], rows'[j])
  <2>1. rows[i] \in Seq(LocalRow)  BY DEF TypeInv, LogTypes
  <2>2. Extends(rows[i], rs)
    <3>1. CASE rs = rows[i]  BY <3>1, ExtendsSame
    <3>2. CASE rs # rows[i]
      <4>1. PICK r \in LocalRow : rs = Append(rows[i], r)  BY <3>2 DEF MoreRows
      <4>2. QED  BY <2>1, <4>1, Appended DEF Extends
    <3>3. QED  BY <3>1, <3>2
  <2>3. QED  BY <1>1, <2>2, ExtendsSame
<1>3. ASSUME NEW j \in Inst PROVE LastRow(j)'
  <2>1. CASE j = i
    <3>1. mls'[j].active => Last(rows'[j]).applied = mls'[j].hist /\ ~RemovesUs(Last(rows'[j]))
      BY <1>1, <2>1
    <3>2. QED  BY <3>1 DEF LastRow, RemovesUs, Success
  <2>2. CASE j # i  BY <1>1, <2>2 DEF CleanInv, LastRow, RemovesUs, Success
  <2>3. QED  BY <2>1, <2>2
<1>4. ASSUME NEW j \in Inst
      PROVE  status'[j] = "clean" => \E n \in 1..cur'[j].local : Compared(j, n)'
  BY <1>1, <1>2, ExtendsSame, CleanGrows DEF CleanInv
<1>5. QED  BY <1>3, <1>4 DEF CleanInv

(* Where a commit takes an installation, and the row it leaves.            *)
RowSet(i, h, active, c, rs) ==
  /\ h \in Hist /\ active \in BOOLEAN /\ Moved(i, h, active, c, rs)
  /\ rs = rows[i] \/ \E r \in LocalRow : r.seq = c /\ rs = Append(rows[i], r)
  /\ active => Last(rs).applied = h /\ ~RemovesUs(Last(rs))

LEMMA ReceiveMoves ==
  ASSUME TypeInv, NEW i \in Inst, LastRow(i), NEW accept \in BOOLEAN, Receive(i, accept)
  PROVE  \E h, active, rs : RowSet(i, h, active, mls[i].cursor + 1, rs)
<1>0. PICK c, h : c = mls[i].cursor + 1 /\ h = mls[i].hist  OBVIOUS
<1>1. /\ c \in DOMAIN commits /\ h \in Hist /\ mls[i].active /\ c \in Nat
      /\ Leaves(i, c, h) \/ Advances(i, c, h) \/ Fails(i, c, h)
  <2>1. commits \in Seq(GroupCommit)  BY DEF TypeInv, NetTypes
  <2>2. QED  BY <1>0, <2>1, ReceiveCases
<1>2. rows[i] \in Seq(LocalRow)  BY DEF TypeInv, LogTypes
<1> SUFFICES \E g, active, rs : RowSet(i, g, active, c, rs)  BY <1>0
<1>3. CASE Leaves(i, c, h)
  <2>1. PICK r : r = Row("RemovedFromGroup", c, h, h)  OBVIOUS
  <2>2. r \in LocalRow /\ r.seq = c  BY <1>1, <2>1, RowTypes DEF CommitType
  <2>3. PICK rs : rs = Append(rows[i], r)  OBVIOUS
  <2>4. Moved(i, h, FALSE, c, rs)  BY <1>3, <2>1, <2>3 DEF Leaves
  <2>5. RowSet(i, h, FALSE, c, rs)  BY <1>1, <2>2, <2>3, <2>4 DEF RowSet
  <2>6. QED  BY <1>1, <2>5
<1>4. CASE Advances(i, c, h)
  <2>1. PICK g : g = Append(h, c)  OBVIOUS
  <2>2. g \in Hist /\ g # h  BY <1>1, <2>1, Appended DEF Hist
  <2>3. PICK r : r = Row("Applied", c, h, g)  OBVIOUS
  <2>4. r \in LocalRow /\ r.applied = g /\ r.last = h /\ r.seq = c
    BY <1>1, <2>2, <2>3, RowTypes DEF CommitType
  <2>5. PICK rs : rs = Append(rows[i], r)  OBVIOUS
  <2>6. Last(rs) = r  BY <1>2, <2>4, <2>5, Appended
  <2>7. Moved(i, g, TRUE, c, rs)  BY <1>4, <2>1, <2>3, <2>5 DEF Advances
  <2>8. Last(rs).applied = g /\ ~RemovesUs(Last(rs))  BY <2>2, <2>4, <2>6 DEF RemovesUs
  <2>9. RowSet(i, g, TRUE, c, rs)  BY <2>2, <2>4, <2>5, <2>7, <2>8 DEF RowSet
  <2>10. QED  BY <2>2, <2>9
<1>5. CASE Fails(i, c, h)
  <2>1. PICK rs : rs = FailedRows(i, c)  OBVIOUS
  <2>2. rs = rows[i] \/ rs = Append(rows[i], Row("Failed", c, h, h))
    BY <1>0, <1>1, <2>1, FailedRowsGrow
  <2>3. Moved(i, h, TRUE, c, rs)  BY <1>5, <2>1 DEF Fails
  <2>4. CASE rs = rows[i]
    <3>1. Last(rs).applied = h /\ ~RemovesUs(Last(rs))  BY <1>0, <1>1, <2>4 DEF LastRow
    <3>2. RowSet(i, h, TRUE, c, rs)  BY <1>1, <2>3, <2>4, <3>1 DEF RowSet
    <3>3. QED  BY <1>1, <3>2
  <2>5. CASE rs # rows[i]
    <3>1. PICK r : r = Row("Failed", c, h, h)  OBVIOUS
    <3>2. r \in LocalRow /\ r.applied = h /\ r.type = "Failed" /\ r.seq = c
      BY <1>1, <3>1, RowTypes DEF CommitType
    <3>3. rs = Append(rows[i], r)  BY <2>2, <2>5, <3>1
    <3>4. Last(rs) = r  BY <1>2, <3>2, <3>3, Appended
    <3>5. Last(rs).applied = h /\ ~RemovesUs(Last(rs))  BY <3>2, <3>4 DEF RemovesUs, Success
    <3>6. RowSet(i, h, TRUE, c, rs)  BY <1>1, <2>3, <3>2, <3>3, <3>5 DEF RowSet
    <3>7. QED  BY <1>1, <3>6
  <2>6. QED  BY <2>4, <2>5
<1>6. QED  BY <1>1, <1>3, <1>4, <1>5

LEMMA CleanReceive ==
  ASSUME TypeInv, TypeInv', CleanInv, NEW i \in Inst, NEW accept \in BOOLEAN, Receive(i, accept)
  PROVE  CleanInv'
<1>1. PICK h, active, rs : RowSet(i, h, active, mls[i].cursor + 1, rs)
  BY ReceiveMoves DEF CleanInv
<1>2. PICK c : c = mls[i].cursor + 1  OBVIOUS
<1>3. MoreRows(i, rs)  BY <1>1 DEF RowSet, MoreRows
<1>4. QED  BY <1>1, <1>2, <1>3, CleanMoved DEF RowSet

(* A welcome, in the same terms. *)
LEMMA WelcomeMoves ==
  ASSUME TypeInv, NEW i \in Inst, Welcome(i)
  PROVE  \E c \in DOMAIN commits, h \in Hist, n \in DOMAIN commits, r \in LocalRow :
           /\ Joins(i, c, h, n) /\ Moved(i, h, TRUE, n, Append(rows[i], r))
           /\ r.seq = 0 /\ r.applied = h /\ ~RemovesUs(r)
<1>1. PICK c \in DOMAIN commits, h \in Hist, n \in DOMAIN commits : Joins(i, c, h, n)
  BY WelcomeCases
<1>2. <<>> \in Hist /\ 0 \in Nat  BY DEF Hist
<1>3. PICK r : r = Row("Welcome", 0, <<>>, h)  OBVIOUS
<1>4. r \in LocalRow /\ r.applied = h /\ r.last = <<>> /\ r.seq = 0
  BY <1>2, <1>3, RowTypes DEF CommitType
<1>5. h # <<>>
  <2>1. commits \in Seq(GroupCommit)  BY DEF TypeInv, NetTypes
  <2>2. commits[c] \in GroupCommit /\ c \in Nat  BY <2>1
  <2>3. commits[c].base \in Hist  BY <2>2 DEF GroupCommit
  <2>4. h = Append(commits[c].base, c)  BY <1>1 DEF Joins
  <2>5. QED  BY <2>2, <2>3, <2>4, Appended DEF Hist
<1>6. Moved(i, h, TRUE, n, Append(rows[i], r))  BY <1>1, <1>3 DEF Joins
<1>7. ~RemovesUs(r)  BY <1>4, <1>5 DEF RemovesUs
<1>8. QED  BY <1>1, <1>4, <1>6, <1>7

LEMMA CleanWelcome ==
  ASSUME TypeInv, TypeInv', CleanInv, NEW i \in Inst, Welcome(i)
  PROVE  CleanInv'
<1>1. PICK h \in Hist, n \in Nat, r \in LocalRow :
        Moved(i, h, TRUE, n, Append(rows[i], r)) /\ r.applied = h /\ ~RemovesUs(r)
  <2>1. commits \in Seq(GroupCommit)  BY DEF TypeInv, NetTypes
  <2>2. \A n \in DOMAIN commits : n \in Nat  BY <2>1
  <2>3. QED  BY <2>2, WelcomeMoves
<1>2. rows[i] \in Seq(LocalRow)  BY DEF TypeInv, LogTypes
<1>3. PICK rs : rs = Append(rows[i], r)  OBVIOUS
<1>4. MoreRows(i, rs) /\ Last(rs) = r  BY <1>2, <1>3, Appended DEF MoreRows
<1>5. QED  BY <1>1, <1>3, <1>4, CleanMoved

LEMMA CleanUpdate ==
  ASSUME TypeInv, TypeInv', CleanInv, NEW i \in Inst, UpdateForkedState(i)
  PROVE  CleanInv'
<1>1. UNCHANGED <<mls, rows, remote>>  BY UpdateEffect
<1>2. \A j \in Inst : LastRow(j)'  BY <1>1 DEF CleanInv, LastRow, RemovesUs, Success
<1>3. CASE UNCHANGED <<cur, status>>
  BY <1>1, <1>3 DEF CleanInv, LastRow, RemovesUs, Success, Compared
<1>4. CASE ~UNCHANGED <<cur, status>>
  <2>1. PICK local, rem, verdict :
          /\ ForkCursors(i, local, rem) /\ status' = [status EXCEPT ![i] = verdict]
          /\ verdict = "clean" =>
               CleanBasis(i, local) \/ (status[i] = "clean" /\ local = cur[i].local)
    BY <1>4, UpdateEffect
  <2>2. cur'[i].local = local /\ \A j \in Inst \ {i} : cur'[j] = cur[j]
    BY <2>1, MovedForkCursors
  <2>3. status'[i] = verdict /\ \A j \in Inst \ {i} : status'[j] = status[j]
    BY <2>1 DEF TypeInv, LogTypes
  <2>4. ASSUME NEW j \in Inst
        PROVE  status'[j] = "clean" => \E n \in 1..cur'[j].local : Compared(j, n)'
    <3>1. CASE j # i  BY <1>1, <2>2, <2>3, <3>1, ExtendsSame, CleanGrows DEF CleanInv
    <3>2. CASE j = i /\ verdict = "clean" /\ CleanBasis(i, local)
      <4>1. PICK n \in 1..local :
              /\ \E m \in DOMAIN remote[i] : remote[i][m].applied = rows[i][n].applied
              /\ \A k \in n + 1 .. local : RemovesUs(rows[i][k])
        BY <3>2 DEF CleanBasis
      <4>2. Compared(i, n)'  BY <1>1, <2>2, <4>1 DEF Compared, RemovesUs, Success
      <4>3. QED  BY <2>2, <3>2, <4>2
    <3>3. CASE j = i /\ verdict = "clean" /\ ~CleanBasis(i, local)
      <4>1. status[i] = "clean" /\ cur'[i].local = cur[i].local  BY <2>1, <2>2, <3>3
      <4>2. QED  BY <1>1, <3>3, <4>1, ExtendsSame, CleanGrows DEF CleanInv
    <3>4. QED  BY <2>3, <3>1, <3>2, <3>3
  <2>5. QED  BY <1>2, <2>4 DEF CleanInv
<1>5. QED  BY <1>3, <1>4

(* The steps that leave the local logs and the verdicts alone. *)
LEMMA CleanAside ==
  ASSUME TypeInv, TypeInv', CleanInv, UNCHANGED <<mls, rows, status>>,
         \A j \in Inst : cur'[j].local = cur[j].local /\ Extends(remote[j], remote'[j])
  PROVE  CleanInv'
<1>1. \A j \in Inst : LastRow(j)'  BY DEF CleanInv, LastRow, RemovesUs, Success
<1>2. ASSUME NEW j \in Inst
      PROVE  status'[j] = "clean" => \E n \in 1..cur'[j].local : Compared(j, n)'
  BY ExtendsSame, CleanGrows DEF CleanInv
<1>3. QED  BY <1>1, <1>2 DEF CleanInv

LEMMA CleanStep ==
  ASSUME TypeInv, TypeInv', CleanInv, Quiet, [Next]_vars
  PROVE  CleanInv'
<1>1. CASE UNCHANGED vars  BY <1>1, ExtendsSame, CleanAside DEF vars, logs
<1>2. ASSUME NEW i \in Inst, Propose(i) PROVE CleanInv'
  BY <1>2, ExtendsSame, CleanAside DEF Propose, logs
<1>3. ASSUME NEW i \in Inst, Follow(i) PROVE CleanInv'
  <2>1. CASE \E accept \in BOOLEAN : Receive(i, accept)  BY <2>1, CleanReceive
  <2>2. CASE Welcome(i)  BY <2>2, CleanWelcome
  <2>3. CASE OneshotArrives(i)  BY <2>3, ExtendsSame, CleanAside DEF OneshotArrives, logs
  <2>4. QED  BY <1>3, <2>1, <2>2, <2>3 DEF Follow
<1>4. ASSUME NEW i \in Inst, Tick(i) PROVE CleanInv'
  <2>1. CASE SaveRemoteCommitLog(i)
    <3>1. UNCHANGED <<mls, rows, status>>  BY <2>1, SaveEffect
    <3>2. PICK new \in Seq(SavedRow) : remote' = [remote EXCEPT ![i] = new] /\ Extends(remote[i], new)
      BY <2>1, SaveEffect
    <3>3. PICK d \in Nat : cur' = [cur EXCEPT ![i].download = d]  BY <2>1, SaveEffect
    <3>4. \A j \in Inst : cur'[j].local = cur[j].local  BY <3>3 DEF TypeInv, LogTypes
    <3>5. \A j \in Inst : Extends(remote[j], remote'[j])
      <4>1. remote'[i] = new /\ \A j \in Inst \ {i} : remote'[j] = remote[j]
        BY <3>2 DEF TypeInv, LogTypes
      <4>2. QED  BY <3>2, <4>1, ExtendsSame
    <3>6. QED  BY <3>1, <3>4, <3>5, CleanAside
  <2>2. CASE UpdateForkedState(i)  BY <2>2, CleanUpdate
  <2>3. CASE PublishCommitLogs(i)
    <3>1. UNCHANGED <<mls, rows, status, remote>>  BY <2>3, PublishEffect
    <3>2. UNCHANGED cur \/ cur' = [cur EXCEPT ![i].upload = Max(Unpublished(i))]
      BY <2>3, PublishEffect
    <3>3. PICK u : u = Max(Unpublished(i))  OBVIOUS
    <3>4. UNCHANGED cur \/ cur' = [cur EXCEPT ![i].upload = u]  BY <3>2, <3>3
    <3>5. cur \in [Inst -> [download : Nat, upload : Nat, local : Nat, rem : Nat]]
      BY DEF TypeInv, LogTypes
    <3>6. \A j \in Inst : cur'[j].local = cur[j].local
      <4>1. CASE UNCHANGED cur  BY <4>1
      <4>2. CASE cur' = [cur EXCEPT ![i].upload = u]  BY <3>5, <4>2
      <4>3. QED  BY <3>4, <4>1, <4>2
    <3>7. QED  BY <3>1, <3>6, ExtendsSame, CleanAside
  <2>4. CASE RequestReadd(i)  BY <2>4, ExtendsSame, CleanAside DEF RequestReadd, logs
  <2>5. CASE RespondReadds(i)
    <3>1. \A j \in Inst : asked[i][j] = 0  BY DEF Quiet
    <3>2. UNCHANGED <<mls, rows, status, remote, cur>>  BY <2>5, <3>1, RespondEffect
    <3>3. QED  BY <3>2, ExtendsSame, CleanAside
  <2>6. QED  BY <1>4, <2>1, <2>2, <2>3, <2>4, <2>5 DEF Tick
<1>5. QED  BY <1>1, <1>2, <1>3, <1>4 DEF Next

LEMMA CleanMeansKnown ==
  ASSUME TypeInv, CleanInv
  PROVE  CleanIsClean
<1>1. SUFFICES ASSUME NEW i \in Inst, status[i] = "clean", Checked(i), mls[i].active
               PROVE  \E m \in DOMAIN remote[i] : remote[i][m].applied = mls[i].hist
  BY DEF CleanIsClean
<1>2. PICK n \in 1..cur[i].local : Compared(i, n)  BY <1>1 DEF CleanInv
<1>3. /\ cur[i].local = Len(rows[i]) /\ Len(rows[i]) \in Nat
      /\ Last(rows[i]).applied = mls[i].hist /\ ~RemovesUs(Last(rows[i]))
  BY <1>1 DEF Checked, CleanInv, LastRow, TypeInv, LogTypes
<1>4. n = Len(rows[i])
  <2>1. SUFFICES ASSUME n # Len(rows[i]) PROVE FALSE  OBVIOUS
  <2>2. Len(rows[i]) \in n + 1 .. cur[i].local  BY <1>2, <1>3, <2>1
  <2>3. RemovesUs(rows[i][Len(rows[i])])  BY <1>2, <2>2 DEF Compared
  <2>4. QED  BY <1>3, <2>3 DEF Last
<1>5. QED  BY <1>2, <1>3, <1>4 DEF Compared, Last

(* While nobody asks to be added again (recovery requests are disabled), a *)
(* clean verdict with nothing left to check means that the epoch the       *)
(* installation is at is one the consensus it saved knows: the verdict     *)
(* that check_conversation_fork_state preserves when no row is new is not  *)
(* stale, through removals, rejoins, partial pages and crashes.            *)
THEOREM CleanVerdicts == ASSUME Recovery = FALSE PROVE Spec => []CleanIsClean
<1>1. Init => TypeInv /\ Quiet /\ CleanInv  BY TypeInit, QuietInit, CleanInit
<1>2. TypeInv /\ Quiet /\ CleanInv /\ [Next]_vars => (TypeInv /\ Quiet /\ CleanInv)'
  BY TypeStep, QuietStep, CleanStep
<1>3. TypeInv /\ Quiet /\ CleanInv => CleanIsClean  BY CleanMeansKnown
<1>4. QED  BY <1>1, <1>2, <1>3, PTL DEF Spec

-----------------------------------------------------------------------------
(* The upload cursor *)

LEMMA UploadInit == Init => UploadCursorHonest
<1>1. SUFFICES ASSUME Init, NEW i \in Admins PROVE cur[i].upload = 0
  <2>1. 1..0 = {}  OBVIOUS
  <2>2. QED  BY <1>1, <2>1 DEF UploadCursorHonest
<1>2. QED  BY <1>1, InstAssumption DEF Init

LEMMA UploadKept ==
  ASSUME TypeInv, TypeInv', UploadCursorHonest, Extends(log, log'),
         \A i \in Inst : Extends(rows[i], rows'[i]) /\ cur'[i].upload = cur[i].upload
  PROVE  UploadCursorHonest'
<1>1. SUFFICES ASSUME NEW i \in Admins, NEW n \in 1..cur'[i].upload,
                      rows'[i][n].seq # 0, rows'[i][n].type # "RemovedFromGroup"
               PROVE  \E k \in DOMAIN log' :
                        log'[k].seq = rows'[i][n].seq /\ log'[k].applied = rows'[i][n].applied
  BY DEF UploadCursorHonest
<1>2. i \in Inst  BY InstAssumption
<1>3. /\ n \in 1..cur[i].upload /\ cur[i].upload <= Len(rows[i]) /\ cur[i].upload \in Nat
      /\ Len(rows[i]) \in Nat
  BY <1>1, <1>2 DEF TypeInv, LogTypes, Cursors
<1>4. n \in 1..Len(rows[i])  BY <1>3
<1>5. rows'[i][n] = rows[i][n]  BY <1>2, <1>4 DEF Extends
<1>6. PICK k \in DOMAIN log : log[k].seq = rows[i][n].seq /\ log[k].applied = rows[i][n].applied
  BY <1>1, <1>3, <1>5 DEF UploadCursorHonest
<1>7. k \in DOMAIN log' /\ log'[k] = log[k]
  <2>1. PICK new : new = log'  OBVIOUS
  <2>2. log \in Seq(Entry) /\ new \in Seq(Entry)  BY <2>1 DEF TypeInv, NetTypes
  <2>3. Len(log) <= Len(new) /\ \A x \in 1..Len(log) : new[x] = log[x]  BY <2>1 DEF Extends
  <2>4. k \in 1..Len(log)  BY <2>2
  <2>5. k \in DOMAIN new /\ new[k] = log[k]  BY <2>2, <2>3, <2>4
  <2>6. QED  BY <2>1, <2>5
<1>8. QED  BY <1>5, <1>6, <1>7

LEMMA RowsGrow ==
  ASSUME TypeInv, [Next]_vars
  PROVE  \A i \in Inst : Extends(rows[i], rows'[i])
<1>1. CASE UNCHANGED rows  BY <1>1, ExtendsSame
<1>2. ASSUME NEW i \in Inst, NEW h, NEW active, NEW c, NEW rs, Moved(i, h, active, c, rs), MoreRows(i, rs)
      PROVE  \A j \in Inst : Extends(rows[j], rows'[j])
  <2>1. rows[i] \in Seq(LocalRow)  BY DEF TypeInv, LogTypes
  <2>2. Extends(rows[i], rs)
    <3>1. CASE rs = rows[i]  BY <3>1, ExtendsSame
    <3>2. CASE rs # rows[i]
      <4>1. PICK r \in LocalRow : rs = Append(rows[i], r)  BY <1>2, <3>2 DEF MoreRows
      <4>2. QED  BY <2>1, <4>1, Appended DEF Extends
    <3>3. QED  BY <3>1, <3>2
  <2>3. rows'[i] = rs /\ \A j \in Inst \ {i} : rows'[j] = rows[j]
    BY <1>2 DEF Moved, TypeInv, LogTypes
  <2>4. QED  BY <2>2, <2>3, ExtendsSame
<1>3. ASSUME NEW i \in Inst, NEW accept \in BOOLEAN, Receive(i, accept)
      PROVE  \A j \in Inst : Extends(rows[j], rows'[j])
  <2>0. PICK c, h : c = mls[i].cursor + 1 /\ h = mls[i].hist  OBVIOUS
  <2>1. /\ c \in Nat /\ h \in Hist /\ Append(h, c) \in Hist
        /\ Leaves(i, c, h) \/ Advances(i, c, h) \/ Fails(i, c, h)
    <3>1. mls[i].cursor \in Nat  BY DEF TypeInv, NetTypes
    <3>2. c \in Nat /\ h \in Hist /\ (Leaves(i, c, h) \/ Advances(i, c, h) \/ Fails(i, c, h))
      BY <1>3, <2>0, <3>1, ReceiveCases
    <3>3. QED  BY <3>2, Appended DEF Hist
  <2>2. /\ MoreRows(i, Append(rows[i], Row("RemovedFromGroup", c, h, h)))
        /\ MoreRows(i, Append(rows[i], Row("Applied", c, h, Append(h, c))))
    BY <2>1, RowTypes DEF MoreRows, CommitType
  <2>3. MoreRows(i, FailedRows(i, c))  BY <2>1, FailedRowsGrow
  <2>4. QED  BY <1>2, <2>1, <2>2, <2>3 DEF Leaves, Advances, Fails
<1>4. ASSUME NEW i \in Inst, Welcome(i) PROVE \A j \in Inst : Extends(rows[j], rows'[j])
  <2>1. PICK c \in DOMAIN commits, h \in Hist, n \in DOMAIN commits : Joins(i, c, h, n)
    BY <1>4, WelcomeCases
  <2>2. <<>> \in Hist /\ 0 \in Nat  BY DEF Hist
  <2>3. MoreRows(i, Append(rows[i], Row("Welcome", 0, <<>>, h)))
    BY <2>2, RowTypes DEF MoreRows, CommitType
  <2>4. QED  BY <1>2, <2>1, <2>3 DEF Joins
<1>5. ASSUME NEW i \in Inst, Propose(i) \/ Tick(i) \/ OneshotArrives(i) PROVE UNCHANGED rows
  BY <1>5 DEF Propose, Tick, OneshotArrives, SaveRemoteCommitLog, UpdateForkedState,
              PublishCommitLogs, RequestReadd, RespondReadds, logs
<1>6. CASE UNCHANGED vars  BY <1>1, <1>6 DEF vars, logs
<1>7. QED  BY <1>1, <1>3, <1>4, <1>5, <1>6 DEF Next, Follow

LEMMA UploadPublish ==
  ASSUME TypeInv, TypeInv', UploadCursorHonest, NEW i \in Inst, PublishCommitLogs(i),
         OtherGroups = FALSE
  PROVE  UploadCursorHonest'
<1>1. UNCHANGED rows  BY PublishEffect
<1>2. log \in Seq(Entry) /\ SignedEntries(i) \in Seq(Entry)  BY Signed DEF TypeInv, NetTypes
<1>3. Extends(log, log')
  <2>1. CASE UNCHANGED log  BY <2>1, ExtendsSame
  <2>2. CASE ~UNCHANGED log
    <3>1. PICK es, new : es = SignedEntries(i) /\ new = log'  OBVIOUS
    <3>2. new = log \o es  BY <2>2, <3>1, PublishEffect
    <3>3. Extends(log, new)  BY <1>2, <3>1, <3>2 DEF Extends
    <3>4. QED  BY <3>1, <3>3
  <2>3. QED  BY <2>1, <2>2
<1>4. CASE UNCHANGED cur  BY <1>1, <1>3, <1>4, ExtendsSame, UploadKept
<1>5. CASE ~UNCHANGED cur
  <2>1. /\ log' = log \o SignedEntries(i) /\ Unpublished(i) # {} /\ SignedEntries(i) # <<>>
        /\ cur' = [cur EXCEPT ![i].upload = Max(Unpublished(i))]
    BY <1>5, PublishEffect
  <2>2. PICK es, new : es = SignedEntries(i) /\ new = log'  OBVIOUS
  <2>3. SigningKey(i) # None  BY <2>1 DEF SignedEntries
  <2>4. /\ new \in Seq(Entry) /\ Len(new) = Len(log) + Len(es) /\ Len(log) \in Nat /\ Len(es) \in Nat
        /\ \A k \in 1..Len(log) : new[k] = log[k]
        /\ \A k \in 1..Len(es) : new[Len(log) + k] = es[k] /\ Len(log) + k \in DOMAIN new
    BY <1>2, <2>1, <2>2
  <2>5. SUFFICES ASSUME NEW a \in Admins, NEW n \in 1..cur'[a].upload,
                        rows[a][n].seq # 0, rows[a][n].type # "RemovedFromGroup"
                 PROVE  \E k \in DOMAIN new :
                          new[k].seq = rows[a][n].seq /\ new[k].applied = rows[a][n].applied
    BY <1>1, <2>2 DEF UploadCursorHonest
  <2>6. a \in Inst /\ cur[a].upload \in Nat  BY InstAssumption DEF TypeInv, LogTypes
  <2>7. CASE n \in 1..cur[a].upload
    <3>1. PICK k \in DOMAIN log : log[k].seq = rows[a][n].seq /\ log[k].applied = rows[a][n].applied
      BY <2>5, <2>7 DEF UploadCursorHonest
    <3>2. k \in 1..Len(log)  BY <1>2
    <3>3. k \in DOMAIN new /\ new[k] = log[k]  BY <2>4, <3>2
    <3>4. QED  BY <3>1, <3>3
  <2>8. CASE n \notin 1..cur[a].upload
    <3>1. a = i
      <4>1. \A j \in Inst \ {i} : cur'[j] = cur[j]  BY <2>1 DEF TypeInv, LogTypes
      <4>2. QED  BY <2>5, <2>6, <2>8, <4>1
    <3>2. PICK u : u = Max(Unpublished(i))  OBVIOUS
    <3>3. cur'[i].upload = u /\ u \in 1..Len(rows[i]) /\ Len(rows[i]) \in Nat
      <4>1. u \in 1..Len(rows[i])  BY <2>1, <3>2, LastUnpublished
      <4>2. cur' = [cur EXCEPT ![i].upload = u]  BY <2>1, <3>2
      <4>3. QED  BY <4>1, <4>2 DEF TypeInv, LogTypes
    <3>4. n \in DOMAIN rows[i] /\ n > cur[i].upload
      <4>1. n \in Nat /\ n >= 1 /\ n <= u  BY <2>5, <3>1, <3>3
      <4>2. n > cur[i].upload  BY <2>6, <2>8, <3>1, <4>1
      <4>3. rows[i] \in Seq(LocalRow)  BY DEF TypeInv, LogTypes
      <4>4. QED  BY <3>3, <4>1, <4>2, <4>3
    <3>5. n \in Unpublished(i) /\ Publishable(rows[i][n])
      BY <2>5, <3>1, <3>4 DEF Unpublished, Publishable
    <3>6. PICK k \in DOMAIN es : Publishes(es[k], rows[i][n])
      BY <2>2, <2>3, <3>5, Signed
    <3>7. k \in 1..Len(es)  BY <1>2, <2>2
    <3>8. Len(log) + k \in DOMAIN new /\ new[Len(log) + k] = es[k]  BY <2>4, <3>7
    <3>9. QED  BY <3>1, <3>6, <3>8 DEF Publishes
  <2>9. QED  BY <2>7, <2>8
<1>6. QED  BY <1>4, <1>5

LEMMA UploadStep ==
  ASSUME TypeInv, TypeInv', UploadCursorHonest, [Next]_vars, OtherGroups = FALSE
  PROVE  UploadCursorHonest'
<1>1. ASSUME NEW i \in Inst, PublishCommitLogs(i) PROVE UploadCursorHonest'
  BY <1>1, UploadPublish
<1>2. ASSUME UNCHANGED log, \A j \in Inst : cur'[j].upload = cur[j].upload
      PROVE  UploadCursorHonest'
  BY <1>2, ExtendsSame, RowsGrow, UploadKept
<1>3. CASE UNCHANGED vars  BY <1>2, <1>3 DEF vars, net, logs
<1>4. ASSUME NEW i \in Inst, Propose(i) \/ Follow(i) PROVE UploadCursorHonest'
  BY <1>2, <1>4 DEF Propose, Follow, Receive, Welcome, OneshotArrives, net, logs
<1>5. ASSUME NEW i \in Inst, SaveRemoteCommitLog(i) PROVE UploadCursorHonest'
  <2>1. PICK d \in Nat : cur' = [cur EXCEPT ![i].download = d]  BY <1>5, SaveEffect
  <2>2. \A j \in Inst : cur'[j].upload = cur[j].upload  BY <2>1 DEF TypeInv, LogTypes
  <2>3. UNCHANGED log  BY <1>5, SaveEffect
  <2>4. QED  BY <1>2, <2>2, <2>3
<1>6. ASSUME NEW i \in Inst, UpdateForkedState(i) \/ RespondReadds(i) PROVE UploadCursorHonest'
  <2>1. UNCHANGED log  BY <1>6, UpdateEffect, RespondEffect
  <2>2. UNCHANGED cur \/ \E local, rem : ForkCursors(i, local, rem)
    BY <1>6, UpdateEffect, RespondEffect
  <2>3. \A j \in Inst : cur'[j].upload = cur[j].upload  BY <2>2, MovedForkCursors
  <2>4. QED  BY <1>2, <2>1, <2>3
<1>7. ASSUME NEW i \in Inst, RequestReadd(i) PROVE UploadCursorHonest'
  BY <1>2, <1>7 DEF RequestReadd, net, logs
<1>8. QED  BY <1>1, <1>3, <1>4, <1>5, <1>6, <1>7 DEF Next, Tick

(* While the worker has no entry of another group in hand, the upload      *)
(* cursor passes no row that is not in the remote log, whatever uploads    *)
(* fail or are repeated (publish_commit_logs_to_remote).                   *)
THEOREM UploadHonest == ASSUME OtherGroups = FALSE PROVE Spec => []UploadCursorHonest
<1>1. Init => TypeInv /\ UploadCursorHonest  BY TypeInit, UploadInit
<1>2. TypeInv /\ UploadCursorHonest /\ [Next]_vars => (TypeInv /\ UploadCursorHonest)'
  BY TypeStep, UploadStep
<1>3. QED  BY <1>1, <1>2, PTL DEF Spec

-----------------------------------------------------------------------------
(* The consensus *)

(* Without a crash in the middle of a page, what i saved is what one pass  *)
(* over the entries it downloaded gives, under the key of the first one.   *)
IsDigest(saved, n) == \E f : IsRun(f, <<>>, log, log[1].key, n) /\ saved = f[n]

DigestInv ==
  /\ faults = 0
  /\ \A i \in Inst :
       /\ IsDigest(remote[i], cur[i].download)
       /\ keys[i].consensus = IF cur[i].download = 0 THEN None ELSE log[1].key

LEMMA RunUnique ==
  ASSUME NEW s, NEW page, NEW key, NEW n \in Nat, NEW m \in Nat, n <= m,
         NEW f, IsRun(f, s, page, key, n), NEW g, IsRun(g, s, page, key, m)
  PROVE  f[n] = g[n]
<1> DEFINE Bad == {k \in 0..n : f[k] # g[k]}
<1>1. SUFFICES ASSUME Bad # {} PROVE FALSE  OBVIOUS
<1>2. PICK k : k = Min(Bad)  OBVIOUS
<1>3. k \in Bad /\ \A x \in Bad : k <= x
  <2>1. Bad \subseteq Nat  OBVIOUS
  <2> HIDE DEF Bad
  <2>2. QED  BY <1>1, <1>2, <2>1, Least
<1>4. k # 0  BY <1>3 DEF IsRun
<1>5. k - 1 \in 0..n /\ k - 1 \notin Bad /\ k \in 1..n /\ k \in 1..m  BY <1>3, <1>4
<1>6. f[k - 1] = g[k - 1]  BY <1>5
<1>7. f[k] = Save(f[k - 1], page[k], key) /\ g[k] = Save(g[k - 1], page[k], key)
  BY <1>5 DEF IsRun
<1>8. QED  BY <1>3, <1>6, <1>7

(* The page is the part of the log that starts after entry d. *)
IsPage(page, all, d, len) == \A k \in 1..len : page[k] = all[d + k]

(* Saving the first n entries on top of s gives v. *)
RunEnds(v, s, all, key, n) == \E h : IsRun(h, s, all, key, n) /\ h[n] = v

LEMMA RunJoin ==
  ASSUME NEW s, NEW all, NEW page, NEW key, NEW d, NEW len, NEW f, NEW g, NEW r, NEW e,
         IsRun(f, s, all, key, d), IsRun(g, r, page, key, len), IsPage(page, all, d, len),
         d \in Nat, len \in Nat, r = f[d], e = d + len
  PROVE  RunEnds(g[len], s, all, key, e)
<1> DEFINE h == [k \in 0..d + len |-> IF k <= d THEN f[k] ELSE g[k - d]]
<1>1. h = [k \in 0..d + len |-> h[k]] /\ h[0] = s  BY DEF IsRun
<1>2. g[0] = f[d]  BY DEF IsRun
<1>3. ASSUME NEW k \in 1..d + len PROVE h[k] = Save(h[k - 1], all[k], key)
  <2>1. CASE k <= d
    <3>1. k \in 1..d /\ h[k] = f[k] /\ h[k - 1] = f[k - 1]  BY <2>1
    <3>2. QED  BY <3>1 DEF IsRun
  <2>2. CASE k > d
    <3>1. PICK x : x = k - d  OBVIOUS
    <3>2. x \in 1..len /\ k = d + x  BY <2>2, <3>1
    <3>3. h[k] = g[x]  BY <2>2, <3>1
    <3>4. h[k - 1] = g[x - 1]
      <4>1. CASE x = 1
        <5>1. k - 1 = d /\ x - 1 = 0  BY <3>2, <4>1
        <5>2. QED  BY <1>2, <5>1
      <4>2. CASE x # 1
        <5>1. ~(k - 1 <= d) /\ k - 1 \in 0..d + len /\ k - 1 - d = x - 1  BY <3>2, <4>2
        <5>2. QED  BY <5>1
      <4>3. QED  BY <4>1, <4>2
    <3>5. g[x] = Save(g[x - 1], page[x], key) /\ page[x] = all[k]  BY <3>2 DEF IsRun, IsPage
    <3>6. QED  BY <3>3, <3>4, <3>5
  <2>3. QED  BY <2>1, <2>2
<1>4. h[d + len] = g[len]
  <2>1. CASE len = 0  BY <1>2, <2>1
  <2>2. CASE len # 0
    <3>1. ~(d + len <= d) /\ d + len - d = len /\ d + len \in 0..d + len  BY <2>2
    <3>2. QED  BY <3>1
  <2>3. QED  BY <2>1, <2>2
<1>5. IsRun(h, s, all, key, d + len)
  <2> HIDE DEF h
  <2>1. QED  BY <1>1, <1>3 DEF IsRun
<1>6. QED  BY <1>4, <1>5 DEF RunEnds

(* A longer log does not change what was saved. *)
LEMMA DigestStays ==
  ASSUME NEW n \in Nat, NEW saved, IsDigest(saved, n), log \in Seq(Entry), n <= Len(log),
         NEW new, Extends(log, new)
  PROVE  \E f : IsRun(f, <<>>, new, new[1].key, n) /\ saved = f[n]
<1>1. PICK f : IsRun(f, <<>>, log, log[1].key, n) /\ saved = f[n]  BY DEF IsDigest
<1>2. \A k \in 1..n : new[k] = log[k] /\ new[1] = log[1]
  <2>1. Len(log) \in Nat  OBVIOUS
  <2>2. \A k \in 1..n : k \in 1..Len(log) /\ 1 \in 1..Len(log)  BY <2>1
  <2>3. QED  BY <2>2 DEF Extends
<1>3. \A k \in 1..n : f[k] = Save(f[k - 1], new[k], new[1].key)  BY <1>1, <1>2 DEF IsRun
<1>4. IsRun(f, <<>>, new, new[1].key, n)  BY <1>1, <1>3 DEF IsRun
<1>5. QED  BY <1>1, <1>4

LEMMA ExtendsIsPrefix ==
  ASSUME NEW T, NEW s \in Seq(T), NEW t \in Seq(T), Extends(s, t)
  PROVE  IsPrefix(s, t)
<1>1. Len(s) \in Nat /\ Len(t) \in Nat /\ Len(s) <= Len(t)  BY DEF Extends
<1>2. PICK a, b : a = SubSeq(s, 1, Len(s)) /\ b = SubSeq(t, 1, Len(s))  OBVIOUS
<1>3. a \in Seq(T) /\ Len(a) = Len(s) /\ \A k \in 1..Len(s) : a[k] = s[k]  BY <1>1, <1>2
<1>4. b \in Seq(T) /\ Len(b) = Len(s) /\ \A k \in 1..Len(s) : b[k] = t[k]
  <2>1. \A k \in 1..Len(s) : k \in 1..Len(t)  BY <1>1
  <2>2. \A k \in 1..Len(s) : t[k] \in T  BY <2>1
  <2>3. QED  BY <1>1, <1>2, <2>2
<1>5. \A k \in 1..Len(s) : a[k] = b[k]  BY <1>3, <1>4 DEF Extends
<1>6. a = b  BY <1>1, <1>3, <1>4, <1>5
<1>7. QED  BY <1>1, <1>2, <1>6 DEF IsPrefix

LEMMA DigestsAgree ==
  ASSUME TypeInv, DigestInv
  PROVE  ConsensusAgrees
<1>1. SUFFICES ASSUME NEW i \in Inst, NEW j \in Inst
      PROVE /\ IsPrefix(remote[i], remote[j]) \/ IsPrefix(remote[j], remote[i])
            /\ \/ {keys[i].consensus, keys[j].consensus} \ {None} = {}
               \/ \E k \in Inst : {keys[i].consensus, keys[j].consensus} \subseteq {k, None}
            /\ \A m, n \in DOMAIN remote[i] : m < n => remote[i][m].seq < remote[i][n].seq
  BY DEF ConsensusAgrees
<1>2. log \in Seq(Entry) /\ Len(log) \in Nat  BY DEF TypeInv, NetTypes
<1>3. \A x \in Inst : remote[x] \in Seq(SavedRow) /\ cur[x].download \in Nat /\ cur[x].download <= Len(log)
  BY DEF TypeInv, LogTypes, Cursors
<1>4. ASSUME NEW x \in Inst, NEW y \in Inst, cur[x].download <= cur[y].download
      PROVE  IsPrefix(remote[x], remote[y]) /\ Increasing(remote[y])
  <2>1. PICK d, e : d = cur[x].download /\ e = cur[y].download  OBVIOUS
  <2>2. d \in Nat /\ e \in Nat /\ d <= e /\ d \in 0..e /\ e \in 0..e /\ e <= Len(log)
    BY <1>3, <1>4, <2>1
  <2>3. PICK f : IsRun(f, <<>>, log, log[1].key, d) /\ remote[x] = f[d]
    BY <2>1 DEF DigestInv, IsDigest
  <2>4. PICK g : IsRun(g, <<>>, log, log[1].key, e) /\ remote[y] = g[e]
    BY <2>1 DEF DigestInv, IsDigest
  <2>5. remote[x] = g[d]  BY <2>2, <2>3, <2>4, RunUnique
  <2>6. <<>> \in Seq(SavedRow) /\ Increasing(<<>>)  BY DEF Increasing
  <2>7. \A k \in 1..e : log[k] \in Entry  BY <1>2, <2>2
  <2>8. Extends(g[d], g[e]) /\ Increasing(g[e])
    <3>1. \A n \in 0..e : /\ \A k \in 0..n : Extends(g[k], g[n])
                          /\ Increasing(<<>>) => Increasing(g[n])
      BY <2>2, <2>4, <2>6, <2>7, RunGrows
    <3>2. QED  BY <2>2, <2>6, <3>1
  <2>9. QED  BY <1>3, <2>4, <2>5, <2>8, ExtendsIsPrefix
<1>5. IsPrefix(remote[i], remote[j]) \/ IsPrefix(remote[j], remote[i])
  <2>1. cur[i].download <= cur[j].download \/ cur[j].download <= cur[i].download  BY <1>3
  <2>2. QED  BY <1>4, <2>1
<1>6. Increasing(remote[i])
  <2>1. cur[i].download <= cur[i].download  BY <1>3
  <2>2. QED  BY <1>4, <2>1
<1>7. \/ {keys[i].consensus, keys[j].consensus} \ {None} = {}
      \/ \E k \in Inst : {keys[i].consensus, keys[j].consensus} \subseteq {k, None}
  <2>1. CASE Len(log) = 0
    <3>1. cur[i].download = 0 /\ cur[j].download = 0  BY <1>2, <1>3, <2>1
    <3>2. keys[i].consensus = None /\ keys[j].consensus = None  BY <3>1 DEF DigestInv
    <3>3. QED  BY <3>2
  <2>2. CASE Len(log) # 0
    <3>1. log[1] \in Entry  BY <1>2, <2>2
    <3>2. PICK k \in Inst : k = log[1].key  BY <3>1 DEF Entry
    <3>3. keys[i].consensus \in {k, None} /\ keys[j].consensus \in {k, None}
      BY <3>2 DEF DigestInv
    <3>4. QED  BY <3>3
  <2>3. QED  BY <2>1, <2>2
<1>8. QED  BY <1>5, <1>6, <1>7 DEF Increasing

LEMMA DigestInit == Init => DigestInv
<1>1. SUFFICES ASSUME Init PROVE DigestInv  OBVIOUS
<1>2. \A i \in Inst : /\ remote[i] = <<>> /\ cur[i].download = 0 /\ keys[i].consensus = None
  BY <1>1 DEF Init
<1>3. IsDigest(<<>>, 0)
  <2>1. IsRun([k \in 0..0 |-> <<>>], <<>>, log, log[1].key, 0)  BY DEF IsRun
  <2>2. QED  BY <2>1 DEF IsDigest
<1>4. QED  BY <1>1, <1>2, <1>3 DEF Init, DigestInv

LEMMA DigestKept ==
  ASSUME TypeInv, DigestInv, Extends(log, log'), UNCHANGED <<remote, faults>>,
         \A i \in Inst : /\ cur'[i].download = cur[i].download
                         /\ keys'[i].consensus = keys[i].consensus
  PROVE  DigestInv'
<1>1. PICK new : new = log'  OBVIOUS
<1>2. log \in Seq(Entry) /\ Len(log) \in Nat  BY DEF TypeInv, NetTypes
<1>3. ASSUME NEW i \in Inst
      PROVE  /\ \E f : IsRun(f, <<>>, new, new[1].key, cur[i].download) /\ remote[i] = f[cur[i].download]
             /\ keys[i].consensus = IF cur[i].download = 0 THEN None ELSE new[1].key
  <2>1. cur[i].download \in Nat /\ cur[i].download <= Len(log)
    BY DEF TypeInv, LogTypes, Cursors
  <2>2. \E f : IsRun(f, <<>>, new, new[1].key, cur[i].download) /\ remote[i] = f[cur[i].download]
    BY <1>1, <1>2, <2>1, DigestStays DEF DigestInv
  <2>3. cur[i].download # 0 => new[1] = log[1]
    <3>1. cur[i].download # 0 => 1 \in 1..Len(log)  BY <1>2, <2>1
    <3>2. QED  BY <1>1, <3>1 DEF Extends
  <2>4. QED  BY <2>2, <2>3 DEF DigestInv
<1>4. QED  BY <1>1, <1>3 DEF DigestInv, IsDigest

LEMMA DigestSave ==
  ASSUME TypeInv, DigestInv, MaxFaults = 0, NEW i \in Inst, SaveRemoteCommitLog(i)
  PROVE  DigestInv'
<1>0. PICK page, d : page = PageOf(i) /\ d = cur[i].download  OBVIOUS
<1>1. /\ page \in Seq(Entry) /\ d \in Nat /\ Len(page) \in Nat /\ d + Len(page) <= Len(log)
      /\ \A k \in 1..Len(page) : page[k] = log[d + k]
  BY <1>0, PageFacts
<1>2. ~Fault(i)  BY DEF DigestInv, Fault
<1>3. UNCHANGED log  BY SaveEffect
<1>4. CASE page = <<>>
  <2>1. UNCHANGED <<remote, cur, keys, faults>>
    BY <1>0, <1>4 DEF SaveRemoteCommitLog, PageOf
  <2>2. QED  BY <1>3, <2>1, ExtendsSame, DigestKept
<1>5. CASE page # <<>>
  <2>1. PICK key : key = ConsensusKey(i, page)  OBVIOUS
  <2>2. /\ keys' = [keys EXCEPT ![i].consensus = key]
        /\ remote' = [remote EXCEPT ![i] = SavePage(remote[i], page, key)]
        /\ cur' = [cur EXCEPT ![i].download = d + Len(page)]
        /\ UNCHANGED faults
    BY <1>0, <1>2, <1>5, <2>1 DEF SaveRemoteCommitLog, PageOf
  <2>3. Len(page) > 0 /\ 1 \in 1..Len(page)  BY <1>1, <1>5
  <2>4. key = log[1].key
    <3>1. CASE d = 0
      <4>1. keys[i].consensus = None  BY <1>0, <3>1 DEF DigestInv
      <4>2. page[1] = log[1]  BY <1>1, <2>3, <3>1
      <4>3. QED  BY <2>1, <4>1, <4>2 DEF ConsensusKey
    <3>2. CASE d # 0
      <4>1. keys[i].consensus = log[1].key  BY <1>0, <3>2 DEF DigestInv
      <4>2. log \in Seq(Entry) /\ 1 \in 1..Len(log)  BY <1>1, <3>2 DEF TypeInv, NetTypes
      <4>3. log[1] \in Entry  BY <4>2
      <4>4. log[1].key # None  BY <4>3, InstAssumption DEF Entry
      <4>5. QED  BY <2>1, <4>1, <4>4 DEF ConsensusKey
    <3>3. QED  BY <3>1, <3>2
  <2>5. PICK new : new = SavePage(remote[i], page, key)  OBVIOUS
  <2>6. IsDigest(new, d + Len(page))
    <3>1. PICK f : IsRun(f, <<>>, log, log[1].key, d) /\ remote[i] = f[d]
      BY <1>0 DEF DigestInv, IsDigest
    <3>2. PICK g : IsRun(g, remote[i], page, key, Len(page)) /\ new = g[Len(page)]
      BY <1>1, <2>5, SavePageRuns
    <3>3. \E h : IsRun(h, <<>>, log, log[1].key, d + Len(page)) /\ h[d + Len(page)] = g[Len(page)]
      <4>1. IsRun(f, <<>>, log, key, d)  BY <2>4, <3>1
      <4>2. IsRun(g, f[d], page, key, Len(page))  BY <3>1, <3>2
      <4>3. PICK len \in Nat : len = Len(page)  BY <1>1
      <4>4. IsPage(page, log, d, len)  BY <1>1, <4>3 DEF IsPage
      <4>5. IsRun(g, f[d], page, key, len)  BY <4>2, <4>3
      <4>6. \E h : IsRun(h, <<>>, log, key, d + len) /\ h[d + len] = g[len]
        <5>1. PICK e : e = d + len  OBVIOUS
        <5>2. RunEnds(g[len], <<>>, log, key, e)
          <6>1. PICK r : r = f[d]  OBVIOUS
          <6>2. IsRun(g, r, page, key, len)  BY <4>5, <6>1
          <6>3. d \in Nat /\ len \in Nat  BY <1>1, <4>3
          <6>4. QED  BY <4>1, <4>4, <5>1, <6>1, <6>2, <6>3, RunJoin
        <5>3. QED  BY <5>1, <5>2 DEF RunEnds
      <4>7. QED  BY <2>4, <4>3, <4>6
    <3>4. QED  BY <3>2, <3>3 DEF IsDigest
  <2>7. /\ remote'[i] = new /\ cur'[i].download = d + Len(page) /\ keys'[i].consensus = log[1].key
        /\ \A j \in Inst \ {i} : /\ remote'[j] = remote[j] /\ cur'[j] = cur[j] /\ keys'[j] = keys[j]
    BY <2>2, <2>4, <2>5 DEF TypeInv, LogTypes
  <2>8. d + Len(page) # 0  BY <1>1, <2>3
  <2>9. ASSUME NEW j \in Inst
        PROVE  /\ IsDigest(remote'[j], cur'[j].download)
               /\ keys'[j].consensus = IF cur'[j].download = 0 THEN None ELSE log[1].key
    <3>1. CASE j = i  BY <2>6, <2>7, <2>8, <3>1
    <3>2. CASE j # i  BY <2>7, <3>2 DEF DigestInv
    <3>3. QED  BY <3>1, <3>2
  <2>10. faults' = 0  BY <2>2 DEF DigestInv
  <2>11. QED  BY <1>3, <2>9, <2>10 DEF DigestInv, IsDigest
<1>6. QED  BY <1>4, <1>5

LEMMA DigestStep ==
  ASSUME TypeInv, DigestInv, MaxFaults = 0, [Next]_vars
  PROVE  DigestInv'
<1>1. \A i \in Inst : ~Fault(i)  BY DEF DigestInv, Fault
<1>2. ASSUME UNCHANGED <<log, remote, keys, faults>>,
             \A i \in Inst : cur'[i].download = cur[i].download
      PROVE  DigestInv'
  BY <1>2, ExtendsSame, DigestKept
<1>3. CASE UNCHANGED vars  BY <1>2, <1>3 DEF vars, net, logs
<1>4. ASSUME NEW i \in Inst, Propose(i) \/ Follow(i) PROVE DigestInv'
  BY <1>2, <1>4 DEF Propose, Follow, Receive, Welcome, OneshotArrives, net, logs
<1>5. ASSUME NEW i \in Inst, SaveRemoteCommitLog(i) PROVE DigestInv'  BY <1>5, DigestSave
<1>6. ASSUME NEW i \in Inst, UpdateForkedState(i) \/ RespondReadds(i) PROVE DigestInv'
  <2>1. UNCHANGED <<log, remote, keys>>  BY <1>6, UpdateEffect, RespondEffect
  <2>2. UNCHANGED faults  BY <1>6 DEF UpdateForkedState, RespondReadds
  <2>3. UNCHANGED cur \/ \E local, rem : ForkCursors(i, local, rem)
    BY <1>6, UpdateEffect, RespondEffect
  <2>4. \A j \in Inst : cur'[j].download = cur[j].download  BY <2>3, MovedForkCursors
  <2>5. QED  BY <1>2, <2>1, <2>2, <2>4
<1>7. ASSUME NEW i \in Inst, PublishCommitLogs(i) PROVE DigestInv'
  <2>1. UNCHANGED <<remote, faults>>  BY <1>1, <1>7 DEF PublishCommitLogs
  <2>2. log \in Seq(Entry) /\ SignedEntries(i) \in Seq(Entry)  BY Signed DEF TypeInv, NetTypes
  <2>3. Extends(log, log')
    <3>1. PICK es, new : es = SignedEntries(i) /\ new = log'  OBVIOUS
    <3>2. new = log \/ new = log \o es  BY <1>7, <3>1, PublishEffect
    <3>3. CASE new = log  BY <3>1, <3>3, ExtendsSame
    <3>4. CASE new = log \o es
      <4>1. Extends(log, new)  BY <2>2, <3>1, <3>4 DEF Extends
      <4>2. QED  BY <3>1, <4>1
    <3>5. QED  BY <3>2, <3>3, <3>4
  <2>4. \A j \in Inst : cur'[j].download = cur[j].download
    <3>1. PICK u : u = Max(Unpublished(i))  OBVIOUS
    <3>2. UNCHANGED cur \/ cur' = [cur EXCEPT ![i].upload = u]  BY <1>7, <3>1, PublishEffect
    <3>3. cur \in [Inst -> [download : Nat, upload : Nat, local : Nat, rem : Nat]]
      BY DEF TypeInv, LogTypes
    <3>4. CASE UNCHANGED cur  BY <3>4
    <3>5. CASE cur' = [cur EXCEPT ![i].upload = u]  BY <3>3, <3>5
    <3>6. QED  BY <3>2, <3>4, <3>5
  <2>5. \A j \in Inst : keys'[j].consensus = keys[j].consensus
    <3>1. PICK k : k = StoredKey(i)  OBVIOUS
    <3>2. UNCHANGED keys \/ keys' = [keys EXCEPT ![i].signer = k]  BY <1>7, <3>1, PublishEffect
    <3>3. keys \in [Inst -> [signer : Key, consensus : Key]]  BY DEF TypeInv, LogTypes
    <3>4. CASE UNCHANGED keys  BY <3>4
    <3>5. CASE keys' = [keys EXCEPT ![i].signer = k]  BY <3>3, <3>5
    <3>6. QED  BY <3>2, <3>4, <3>5
  <2>6. QED  BY <2>1, <2>3, <2>4, <2>5, DigestKept
<1>8. ASSUME NEW i \in Inst, RequestReadd(i) PROVE DigestInv'
  <2>1. UNCHANGED <<log, remote, keys, cur>>  BY <1>8 DEF RequestReadd, net, logs
  <2>2. UNCHANGED faults  BY <1>1, <1>8 DEF RequestReadd
  <2>3. QED  BY <1>2, <2>1, <2>2
<1>9. QED  BY <1>3, <1>4, <1>5, <1>6, <1>7, <1>8 DEF Next, Tick

(* Whatever the entries of the remote log, the order in which several      *)
(* admins published them and the pages they are read in, two installations *)
(* never save logs that disagree: one is a prefix of the other, under one  *)
(* key, in the order of the commits (should_skip_remote_commit_log_entry,  *)
(* derive_consensus_public_key).  It takes ticks that end: a page that is  *)
(* saved again after a crash is read from where the saved log then is.     *)
THEOREM OneConsensus == ASSUME MaxFaults = 0 PROVE Spec => []ConsensusAgrees
<1>1. Init => TypeInv /\ DigestInv  BY TypeInit, DigestInit
<1>2. TypeInv /\ DigestInv /\ [Next]_vars => (TypeInv /\ DigestInv)'  BY TypeStep, DigestStep
<1>3. TypeInv /\ DigestInv => ConsensusAgrees  BY DigestsAgree
<1>4. QED  BY <1>1, <1>2, <1>3, PTL DEF Spec

-----------------------------------------------------------------------------
(* No false alarm: the chain grows *)

(* ch2 continues ch over the commits there were. *)
Follows(ch, ch2) == \A c \in 0..Len(commits) : ch2[c] = ch[c]

LEMMA CommitsGrow ==
  ASSUME TypeInv, MoreCommits
  PROVE  /\ DOMAIN commits = 1..Len(commits) /\ DOMAIN commits \subseteq DOMAIN commits'
         /\ \A c \in DOMAIN commits : commits'[c] = commits[c]
         /\ Len(commits) \in Nat /\ Len(commits) > 0
<1>1. commits \in Seq(GroupCommit) /\ Len(commits) > 0  BY DEF TypeInv, NetTypes
<1>2. CASE UNCHANGED commits  BY <1>1, <1>2
<1>3. CASE ~UNCHANGED commits
  <2>1. PICK x \in GroupCommit : commits' = Append(commits, x)  BY <1>3 DEF MoreCommits
  <2>2. PICK cs : cs = commits'  OBVIOUS
  <2>3. DOMAIN cs = 1..Len(commits) + 1 /\ \A k \in 1..Len(commits) : cs[k] = commits[k]
    BY <1>1, <2>1, <2>2, Appended
  <2>4. QED  BY <1>1, <2>2, <2>3
<1>4. QED  BY <1>2, <1>3

LEMMA ChainGrows ==
  ASSUME TypeInv, NEW ch, IsChain(ch), MoreCommits
  PROVE  \E ch2 : IsChain(ch2)' /\ Follows(ch, ch2)
<1>0. commits \in Seq(GroupCommit) /\ Len(commits) \in Nat /\ Len(commits) > 0
  BY DEF TypeInv, NetTypes
<1>1. CASE UNCHANGED commits
  <2>1. IsChain(ch)'  BY <1>1 DEF IsChain, Wins
  <2>2. QED  BY <2>1 DEF Follows
<1>2. CASE ~UNCHANGED commits
  <2>1. PICK x \in GroupCommit : commits' = Append(commits, x)  BY <1>2 DEF MoreCommits
  <2>2. PICK cs, len : cs = commits' /\ len = Len(commits)  OBVIOUS
  <2>3. /\ Len(cs) = len + 1 /\ DOMAIN cs = 1..len + 1 /\ cs[len + 1] = x
        /\ \A k \in 1..len : cs[k] = commits[k]
    BY <1>0, <2>1, <2>2, Appended
  <2>4. len \in Nat /\ len > 0 /\ DOMAIN commits = 1..len  BY <1>0, <2>2
  <2>5. ch \in [0..len -> Hist] /\ ch[len] \in Hist  BY <2>2, <2>4 DEF IsChain
  <2>6. PICK new : new = IF x.base = ch[len] THEN Append(ch[len], len + 1) ELSE ch[len]
    OBVIOUS
  <2>7. Append(ch[len], len + 1) \in Hist /\ Range(Append(ch[len], len + 1)) = Range(ch[len]) \cup {len + 1}
    <3>1. len + 1 \in Nat  BY <2>4
    <3>2. QED  BY <2>5, <3>1, Appended DEF Hist
  <2>8. new \in Hist  BY <2>5, <2>6, <2>7
  <2>9. PICK ch2 : ch2 = [c \in 0..len + 1 |-> IF c <= len THEN ch[c] ELSE new]  OBVIOUS
  <2>10. /\ ch2 \in [0..len + 1 -> Hist] /\ ch2[len + 1] = new
         /\ \A c \in 0..len : ch2[c] = ch[c]
    BY <2>4, <2>5, <2>8, <2>9
  <2>11. \A c \in 1..len : (cs[c].base = ch2[c - 1]) <=> Wins(ch, c)
    <3>1. \A c \in 1..len : c - 1 \in 0..len  BY <2>4
    <3>2. QED  BY <2>3, <2>10, <3>1 DEF Wins
  <2>12. (cs[len + 1].base = ch2[len]) <=> (x.base = ch[len])  BY <2>3, <2>4, <2>10
  <2>13. ASSUME NEW c \in 1..len + 1
         PROVE  /\ ch2[c] = IF cs[c].base = ch2[c - 1] THEN Append(ch2[c - 1], c) ELSE ch2[c - 1]
                /\ Range(ch2[c]) = {d \in 1..c : cs[d].base = ch2[d - 1]}
    <3>1. CASE c \in 1..len
      <4>1. /\ ch[c] = IF Wins(ch, c) THEN Append(ch[c - 1], c) ELSE ch[c - 1]
            /\ Range(ch[c]) = {d \in 1..c : Wins(ch, d)}
        BY <2>4, <3>1 DEF IsChain
      <4>2. ch2[c] = ch[c] /\ ch2[c - 1] = ch[c - 1]  BY <2>4, <2>10, <3>1
      <4>3. \A d \in 1..c : (cs[d].base = ch2[d - 1]) <=> Wins(ch, d)
        <5>1. \A d \in 1..c : d \in 1..len  BY <2>4, <3>1
        <5>2. QED  BY <2>11, <5>1
      <4>4. (cs[c].base = ch2[c - 1]) <=> Wins(ch, c)  BY <2>11, <3>1
      <4>5. QED  BY <4>1, <4>2, <4>3, <4>4
    <3>2. CASE c = len + 1
      <4>1. c - 1 = len /\ len \in 1..len  BY <2>4, <3>2
      <4>2. ch2[c] = new /\ ch2[c - 1] = ch[len]  BY <2>4, <2>10, <3>2, <4>1
      <4>3. (cs[c].base = ch2[c - 1]) <=> (x.base = ch[len])  BY <2>12, <3>2, <4>1
      <4>4. Range(ch[len]) = {d \in 1..len : Wins(ch, d)}  BY <2>4, <4>1 DEF IsChain
      <4>5. \A d \in 1..c : d \in 1..len \/ d = c  BY <2>4, <3>2
      <4>6. \A d \in 1..len : d \in 1..c  BY <2>4, <3>2
      <4>7. Range(new) = {d \in 1..c : cs[d].base = ch2[d - 1]}
        <5>1. c \in 1..c  BY <2>4, <3>2
        <5>2. CASE x.base = ch[len]
          <6>1. Range(new) = Range(ch[len]) \cup {c}  BY <2>6, <2>7, <3>2, <5>2
          <6>2. QED  BY <2>11, <4>3, <4>4, <4>5, <4>6, <5>1, <5>2, <6>1
        <5>3. CASE x.base # ch[len]
          <6>1. Range(new) = Range(ch[len])  BY <2>6, <5>3
          <6>2. QED  BY <2>11, <4>3, <4>4, <4>5, <4>6, <5>3, <6>1
        <5>4. QED  BY <5>2, <5>3
      <4>8. new = IF cs[c].base = ch2[c - 1] THEN Append(ch2[c - 1], c) ELSE ch2[c - 1]
        BY <2>6, <3>2, <4>2, <4>3
      <4>9. QED  BY <4>2, <4>7, <4>8
    <3>3. QED  BY <2>4, <3>1, <3>2
  <2>14. ch2[0] = <<>>  BY <2>4, <2>10 DEF IsChain
  <2>15. IsChain(ch2)'
    <3>1. Len(commits') = len + 1 /\ DOMAIN commits' = 1..len + 1  BY <2>2, <2>3
    <3>2. \A c \in 1..len + 1 : Wins(ch2, c)' <=> cs[c].base = ch2[c - 1]  BY <2>2 DEF Wins
    <3>3. ASSUME NEW c \in 1..len + 1
          PROVE  /\ ch2[c] = IF Wins(ch2, c)' THEN Append(ch2[c - 1], c) ELSE ch2[c - 1]
                 /\ Range(ch2[c]) = {d \in 1..c : Wins(ch2, d)'}
      <4>1. \A d \in 1..c : d \in 1..len + 1  BY <2>4
      <4>2. {d \in 1..c : Wins(ch2, d)'} = {d \in 1..c : cs[d].base = ch2[d - 1]}
        BY <3>2, <4>1
      <4>3. QED  BY <2>13, <3>2, <4>2
    <3>4. \A c \in DOMAIN commits' :
            /\ ch2[c] = IF Wins(ch2, c)' THEN Append(ch2[c - 1], c) ELSE ch2[c - 1]
            /\ Range(ch2[c]) = {d \in 1..c : Wins(ch2, d)'}
      BY <3>1, <3>3
    <3>5. QED  BY <2>10, <2>14, <3>1, <3>4 DEF IsChain
  <2>16. Follows(ch, ch2)  BY <2>2, <2>10 DEF Follows
  <2>17. QED  BY <2>15, <2>16
<1>3. QED  BY <1>1, <1>2

LEMMA WinsFollows ==
  ASSUME TypeInv, NEW ch, NEW ch2, Follows(ch, ch2), MoreCommits, NEW c \in DOMAIN commits
  PROVE  /\ Wins(ch2, c)' <=> Wins(ch, c)
         /\ \A j \in Inst : /\ AddsTo(ch2, j, c)' <=> AddsTo(ch, j, c)
                            /\ RemovesFrom(ch2, j, c)' <=> RemovesFrom(ch, j, c)
<1>1. /\ DOMAIN commits = 1..Len(commits) /\ Len(commits) \in Nat
      /\ c \in DOMAIN commits' /\ commits'[c] = commits[c]
  BY CommitsGrow
<1>2. c - 1 \in 0..Len(commits)  BY <1>1
<1>3. ch2[c - 1] = ch[c - 1]  BY <1>2 DEF Follows
<1>4. Wins(ch2, c)' <=> Wins(ch, c)  BY <1>1, <1>3 DEF Wins
<1>5. QED  BY <1>1, <1>4 DEF AddsTo, RemovesFrom

LEMMA KnownFollows ==
  ASSUME TypeInv, NEW ch, NEW ch2, Follows(ch, ch2), MoreCommits, NEW s, NEW a, KnownAt(ch, s, a)
  PROVE  KnownAt(ch2, s, a)'
<1>1. /\ DOMAIN commits = 1..Len(commits) /\ Len(commits) \in Nat /\ s \in DOMAIN commits
      /\ s \in DOMAIN commits'
  BY CommitsGrow DEF KnownAt
<1>2. s \in 0..Len(commits)  BY <1>1
<1>3. QED  BY <1>1, <1>2 DEF Follows, KnownAt

LEMMA PositionsGrow ==
  ASSUME TypeInv, NEW ch, NEW ch2, Follows(ch, ch2), MoreCommits, Positions(ch), UNCHANGED mls
  PROVE  Positions(ch2)'
<1>1. \A i \in Inst : mls[i].cursor \in 0..Len(commits)
  <2>1. DOMAIN commits = 1..Len(commits) /\ Len(commits) \in Nat  BY CommitsGrow
  <2>2. \A i \in Inst : mls[i].cursor \in DOMAIN commits  BY DEF TypeInv, Histories
  <2>3. QED  BY <2>1, <2>2
<1>2. QED  BY <1>1 DEF Positions, Follows

LEMMA RowsRecordedGrow ==
  ASSUME TypeInv, NEW ch, NEW ch2, Follows(ch, ch2), MoreCommits, RowsRecorded(ch), UNCHANGED rows
  PROVE  RowsRecorded(ch2)'
<1>1. SUFFICES ASSUME NEW i \in Inst, NEW n \in DOMAIN rows[i] PROVE RowOK(ch2, rows[i][n])'
  BY DEF RowsRecorded
<1>2. PICK r : r = rows[i][n]  OBVIOUS
<1>3. RowOK(ch, r)  BY <1>2 DEF RowsRecorded
<1>4. CASE r.seq # 0 /\ r.type # "RemovedFromGroup"
  <2>1. KnownAt(ch, r.seq, r.applied)  BY <1>3, <1>4 DEF RowOK
  <2>2. PICK s, a : s = r.seq /\ a = r.applied  OBVIOUS
  <2>3. KnownAt(ch2, s, a)'  BY <2>1, <2>2, KnownFollows
  <2>4. RowOK(ch2, r)'  BY <1>4, <2>2, <2>3 DEF RowOK
  <2>5. QED  BY <1>2, <2>4
<1>5. CASE ~(r.seq # 0 /\ r.type # "RemovedFromGroup")
  <2>1. RowOK(ch2, r)'  BY <1>3, <1>5 DEF RowOK
  <2>2. QED  BY <1>2, <2>1
<1>6. QED  BY <1>4, <1>5

LEMMA LogRecordedGrows ==
  ASSUME TypeInv, NEW ch, NEW ch2, Follows(ch, ch2), MoreCommits, LogRecorded(ch), UNCHANGED log
  PROVE  LogRecorded(ch2)'
<1>1. ASSUME NEW k \in DOMAIN log PROVE KnownAt(ch2, log[k].seq, log[k].applied)'
  <2>1. PICK s, a : s = log[k].seq /\ a = log[k].applied  OBVIOUS
  <2>2. KnownAt(ch, s, a)  BY <2>1 DEF LogRecorded
  <2>3. KnownAt(ch2, s, a)'  BY <2>2, KnownFollows
  <2>4. QED  BY <2>1, <2>3
<1>2. QED  BY <1>1 DEF LogRecorded

LEMMA SavedRecordedGrows ==
  ASSUME TypeInv, NEW ch, NEW ch2, Follows(ch, ch2), MoreCommits, LogRecorded(ch), SavedRecorded(ch),
         NEW i \in Inst, NEW new \in Seq(SavedRow), Extends(remote[i], new), TakenFromLog(i, new),
         remote' = [remote EXCEPT ![i] = new]
  PROVE  SavedRecorded(ch2)'
<1>1. remote'[i] = new /\ \A j \in Inst \ {i} : remote'[j] = remote[j]
  BY DEF TypeInv, LogTypes
<1>2. SUFFICES ASSUME NEW j \in Inst, NEW m \in DOMAIN remote'[j]
               PROVE  KnownAt(ch2, remote[j][m].seq, remote[j][m].applied)'
  BY DEF SavedRecorded
<1>3. PICK s, a : s = remote'[j][m].seq /\ a = remote'[j][m].applied  OBVIOUS
<1>4. KnownAt(ch, s, a)
  <2>1. CASE j # i  BY <1>1, <1>2, <1>3, <2>1 DEF SavedRecorded
  <2>2. CASE j = i /\ m \in DOMAIN remote[i]
    <3>1. remote[i] \in Seq(SavedRow)  BY DEF TypeInv, LogTypes
    <3>2. new[m] = remote[i][m]  BY <2>2, <3>1 DEF Extends
    <3>3. QED  BY <1>1, <1>3, <2>2, <3>2 DEF SavedRecorded
  <2>3. CASE j = i /\ m \notin DOMAIN remote[i]
    <3>1. PICK k \in DOMAIN log : Publishes(log[k], new[m])
      BY <1>1, <1>2, <2>3 DEF TakenFromLog
    <3>2. QED  BY <1>1, <1>3, <2>3, <3>1 DEF LogRecorded, Publishes
  <2>4. QED  BY <2>1, <2>2, <2>3
<1>5. KnownAt(ch2, s, a)'  BY <1>4, KnownFollows
<1>6. QED  BY <1>3, <1>5
-----------------------------------------------------------------------------
(* No false alarm: a commit is published *)

(* Its author adds only installations that are not in its group. *)
FittingCommit ==
  \/ UNCHANGED commits
  \/ \E x \in GroupCommit :
       /\ Range(x.base) \subseteq DOMAIN commits /\ commits' = Append(commits, x)
       /\ Shape(x) /\ \A j \in x.adds : ~InTree(x.base, j)

LEMMA FittingGrows == ASSUME FittingCommit PROVE MoreCommits
BY DEF FittingCommit, MoreCommits

(* Who is not in the group was removed from it and not added since. *)
LEMMA OutsiderRemoved ==
  ASSUME TypeInv, NEW ch, IsChain(ch), Shapes, NEW j \in Inst, ~InTree(ch[Len(commits)], j)
  PROVE  \E r \in DOMAIN commits :
           RemovesFrom(ch, j, r) /\ \A d \in r..Len(commits) : ~AddsTo(ch, j, d)
<1>1. /\ commits \in Seq(GroupCommit) /\ Len(commits) \in Nat /\ Len(commits) > 0
      /\ DOMAIN commits = 1..Len(commits)
  BY DEF TypeInv, NetTypes
<1>2. PICK len : len = Len(commits)  OBVIOUS
<1>3. len \in 1..len /\ 1 \in 1..len /\ len \in Nat  BY <1>1, <1>2
<1>4. Range(ch[len]) = {d \in 1..len : Wins(ch, d)}  BY <1>1, <1>2, <1>3 DEF IsChain
<1>5. PICK S : S = Touching(ch[len], j)  OBVIOUS
<1>6. S = {d \in 1..len : Wins(ch, d) /\ j \in commits[d].removes \cup commits[d].adds}
  BY <1>4, <1>5 DEF Touching
<1>7. Wins(ch, 1) /\ j \in commits[1].adds
  <2>1. ch[0] = <<>> /\ commits[1].base = <<>> /\ commits[1].adds = Inst
    BY DEF IsChain, Shapes
  <2>2. 1 - 1 = 0  OBVIOUS
  <2>3. QED  BY <2>1, <2>2 DEF Wins
<1>8. 1 \in S  BY <1>3, <1>6, <1>7
<1>9. S \subseteq Nat /\ S # {} /\ \A n \in S : n <= len  BY <1>3, <1>6, <1>8
<1>10. PICK r : r = Max(S)  OBVIOUS
<1>11. r \in S /\ \A n \in S : n <= r  BY <1>3, <1>9, <1>10, Greatest
<1>12. j \notin commits[r].adds
  BY <1>2, <1>5, <1>9, <1>10 DEF InTree
<1>13. r \in DOMAIN commits /\ RemovesFrom(ch, j, r)  BY <1>1, <1>2, <1>6, <1>11, <1>12 DEF RemovesFrom
<1>14. ASSUME NEW d \in r..len, AddsTo(ch, j, d) PROVE FALSE
  <2>1. d \in S  BY <1>1, <1>2, <1>6, <1>14 DEF AddsTo
  <2>2. r \in Nat  BY <1>9, <1>11
  <2>3. d = r  BY <1>11, <1>14, <2>1, <2>2
  <2>4. QED  BY <1>12, <1>14, <2>3 DEF AddsTo
<1>15. QED  BY <1>2, <1>13, <1>14

LEMMA MembershipGrows ==
  ASSUME TypeInv, NEW ch, NEW ch2, IsChain(ch), Follows(ch, ch2), Membership(ch), FittingCommit,
         UNCHANGED <<mls, welcomes>>
  PROVE  Membership(ch2)'
<1>0. MoreCommits  BY FittingGrows
<1>1. PICK len : len = Len(commits)  OBVIOUS
<1>2. /\ DOMAIN commits = 1..len /\ DOMAIN commits \subseteq DOMAIN commits'
      /\ \A c \in DOMAIN commits : commits'[c] = commits[c]
      /\ len \in Nat /\ len > 0
  BY <1>0, <1>1, CommitsGrow
<1>3. ASSUME NEW c \in DOMAIN commits, NEW j \in Inst
      PROVE  /\ AddsTo(ch2, j, c)' <=> AddsTo(ch, j, c)
             /\ RemovesFrom(ch2, j, c)' <=> RemovesFrom(ch, j, c)
  BY <1>0, <1>3, WinsFollows
<1>4. ASSUME NEW c \in DOMAIN commits', c \notin DOMAIN commits
      PROVE  /\ c = len + 1 /\ Shape(commits'[c])
             /\ \A j \in commits'[c].adds : ~InTree(commits'[c].base, j)
  <2>1. ~UNCHANGED commits  BY <1>4
  <2>2. PICK x \in GroupCommit :
          /\ commits' = Append(commits, x) /\ Shape(x) /\ \A j \in x.adds : ~InTree(x.base, j)
    BY <2>1 DEF FittingCommit
  <2>3. PICK cs : cs = commits'  OBVIOUS
  <2>4. commits \in Seq(GroupCommit)  BY DEF TypeInv, NetTypes
  <2>5. DOMAIN cs = 1..len + 1 /\ cs[len + 1] = x  BY <1>1, <2>2, <2>3, <2>4, Appended
  <2>6. c = len + 1  BY <1>2, <1>4, <2>3, <2>5
  <2>7. QED  BY <2>2, <2>3, <2>5, <2>6
<1>5. \A j \in Inst : mls[j].cursor \in DOMAIN commits  BY DEF TypeInv, Histories
<1>6. \A j \in Inst : \A c \in DOMAIN commits' : Pending(j, c)' <=> Pending(j, c)
  BY DEF Pending
<1>7. Creator \in Inst  BY InstAssumption
<1>8. ASSUME NEW j \in Inst, NEW c \in DOMAIN commits', c \notin DOMAIN commits
      PROVE  Pending(j, c)' /\ Before(j, c)'
  <2>1. c = len + 1  BY <1>4, <1>8
  <2>2. mls[j].cursor \in 1..len /\ mls[Creator].cursor \in 1..len  BY <1>2, <1>5, <1>7
  <2>3. mls[j].cursor < c /\ mls[Creator].cursor < c  BY <1>2, <2>1, <2>2
  <2>4. mls'[j].cursor < c /\ mls'[Creator].cursor < c  BY <2>3
  <2>5. mls'[j].cursor <= c /\ mls'[j].cursor # c  BY <2>1, <1>2, <2>2
  <2>6. QED  BY <2>4, <2>5 DEF Pending, Before
<1>9. Shapes'
  <2>1. 1 \in DOMAIN commits  BY <1>2
  <2>2. \A c \in DOMAIN commits' : c > 1 => Shape(commits'[c])
    BY <1>2, <1>4 DEF Membership, Shapes
  <2>3. QED  BY <1>2, <2>1, <2>2 DEF Membership, Shapes
<1>10. Sent(ch2)'
  <2>1. ASSUME NEW j \in Inst, NEW c \in welcomes[j]
        PROVE AddsTo(ch2, j, c)' /\ c <= mls[Creator].cursor
    <3>1. c \in DOMAIN commits  BY DEF TypeInv, NetTypes
    <3>2. QED  BY <1>3, <3>1 DEF Membership, Sent
  <2>2. QED  BY <2>1 DEF Sent
<1>11. Alternates(ch2)'
  <2>1. ASSUME NEW j \in Inst, NEW c \in DOMAIN commits', AddsTo(ch2, j, c)',
               NEW r \in DOMAIN commits, r < c, RemovesFrom(ch, j, r),
               \A d \in r..c - 1 : ~AddsTo(ch, j, d)
        PROVE  \E k \in 1..c - 1 : RemovesFrom(ch2, j, k)' /\ \A d \in k..c - 1 : ~AddsTo(ch2, j, d)'
    <3>1. c \in Nat /\ c <= len + 1
      <4>1. c \in DOMAIN commits \/ c = len + 1  BY <1>4, <2>1
      <4>2. QED  BY <1>2, <4>1
    <3>2. r \in 1..c - 1  BY <1>2, <2>1, <3>1
    <3>3. RemovesFrom(ch2, j, r)'  BY <1>3, <2>1
    <3>4. \A d \in r..c - 1 : d \in DOMAIN commits  BY <1>2, <3>1
    <3>5. \A d \in r..c - 1 : ~AddsTo(ch2, j, d)'  BY <1>3, <2>1, <3>4
    <3>6. QED  BY <3>2, <3>3, <3>5
  <2>2. ASSUME NEW j \in Inst, NEW c \in DOMAIN commits', AddsTo(ch2, j, c)'
        PROVE  \E k \in 1..c - 1 : RemovesFrom(ch2, j, k)' /\ \A d \in k..c - 1 : ~AddsTo(ch2, j, d)'
    <3>1. CASE c \in DOMAIN commits
      <4>1. AddsTo(ch, j, c)  BY <1>3, <2>2, <3>1
      <4>2. PICK r \in 1..c - 1 : RemovesFrom(ch, j, r) /\ \A d \in r..c - 1 : ~AddsTo(ch, j, d)
        BY <3>1, <4>1 DEF Membership, Alternates
      <4>3. r \in DOMAIN commits /\ r < c  BY <1>2, <3>1, <4>2
      <4>4. QED  BY <2>1, <2>2, <4>2, <4>3
    <3>2. CASE c \notin DOMAIN commits
      <4>1. c = len + 1 /\ \A k \in commits'[c].adds : ~InTree(commits'[c].base, k)
        BY <1>4, <3>2
      <4>2. j \in commits'[c].adds /\ commits'[c].base = ch2[c - 1]
        BY <2>2 DEF AddsTo, Wins
      <4>3. c - 1 = len /\ ch2[len] = ch[len]  BY <1>1, <1>2, <4>1 DEF Follows
      <4>4. ~InTree(ch[len], j)  BY <4>1, <4>2, <4>3
      <4>5. PICK r \in DOMAIN commits :
              RemovesFrom(ch, j, r) /\ \A d \in r..len : ~AddsTo(ch, j, d)
        BY <1>1, <4>4, OutsiderRemoved DEF Membership
      <4>6. r < c  BY <1>2, <4>1
      <4>7. QED  BY <2>1, <2>2, <4>3, <4>5, <4>6
    <3>3. QED  BY <3>1, <3>2
  <2>3. QED  BY <2>2 DEF Alternates
<1>12. ASSUME NEW j \in Inst, NEW c \in DOMAIN commits
       PROVE  LaterPending(ch2, j, c)' <=> LaterPending(ch, j, c)
  <2>1. ASSUME LaterPending(ch2, j, c)' PROVE LaterPending(ch, j, c)
    BY <1>2, <1>3, <1>6, <2>1 DEF LaterPending
  <2>2. ASSUME LaterPending(ch, j, c), NEW d \in DOMAIN commits', d > c, AddsTo(ch2, j, d)'
        PROVE  Pending(j, d)'
    <3>1. CASE d \in DOMAIN commits  BY <1>3, <1>6, <2>2, <3>1 DEF LaterPending
    <3>2. CASE d \notin DOMAIN commits  BY <1>8, <3>2
    <3>3. QED  BY <3>1, <3>2
  <2>3. LaterPending(ch, j, c) => LaterPending(ch2, j, c)'  BY <2>2 DEF LaterPending
  <2>4. QED  BY <2>1, <2>3
<1>13. ASSUME NEW j \in Inst, NEW c \in DOMAIN commits', c \notin DOMAIN commits
       PROVE  LaterPending(ch2, j, c)'
  <2>1. ASSUME NEW d \in DOMAIN commits', d > c PROVE FALSE
    <3>1. c = len + 1  BY <1>4, <1>13
    <3>2. d \in DOMAIN commits \/ d = len + 1  BY <1>4
    <3>3. QED  BY <1>2, <2>1, <3>1, <3>2
  <2>2. QED  BY <2>1 DEF LaterPending
<1>14. InOrder(ch2)'
  <2>1. ASSUME NEW j \in Inst, NEW c \in DOMAIN commits', AddsTo(ch2, j, c)', Pending(j, c)'
        PROVE  LaterPending(ch2, j, c)'
    <3>1. CASE c \in DOMAIN commits
      <4>1. AddsTo(ch, j, c) /\ Pending(j, c)  BY <1>3, <1>6, <2>1, <3>1
      <4>2. LaterPending(ch, j, c)  BY <3>1, <4>1 DEF Membership, InOrder
      <4>3. QED  BY <1>12, <3>1, <4>2
    <3>2. CASE c \notin DOMAIN commits  BY <1>13, <3>2
    <3>3. QED  BY <3>1, <3>2
  <2>2. QED  BY <2>1 DEF InOrder
<1>15. Obeyed(ch2)'
  <2>1. ASSUME NEW j \in Inst, NEW r \in DOMAIN commits', RemovesFrom(ch2, j, r)', LaterPending(ch2, j, r)'
        PROVE  Before(j, r)'
    <3>1. CASE r \in DOMAIN commits
      <4>1. RemovesFrom(ch, j, r) /\ LaterPending(ch, j, r)  BY <1>3, <1>12, <2>1, <3>1
      <4>2. Before(j, r)  BY <3>1, <4>1 DEF Membership, Obeyed
      <4>3. QED  BY <4>2 DEF Before
    <3>2. CASE r \notin DOMAIN commits  BY <1>8, <3>2
    <3>3. QED  BY <3>1, <3>2
  <2>2. QED  BY <2>1 DEF Obeyed
<1>16. QED  BY <1>9, <1>10, <1>11, <1>14, <1>15 DEF Membership
-----------------------------------------------------------------------------
(* No false alarm: commits and welcomes are processed *)

LEMMA ChainAt ==
  ASSUME TypeInv, NEW ch, IsChain(ch), NEW c \in DOMAIN commits
  PROVE  /\ ch[c] = IF Wins(ch, c) THEN Append(ch[c - 1], c) ELSE ch[c - 1]
         /\ ch[c] \in Hist /\ c \in Nat /\ c > 0 /\ ch[c - 1] \in Hist
<1>1. commits \in Seq(GroupCommit) /\ DOMAIN commits = 1..Len(commits) /\ Len(commits) \in Nat
  BY DEF TypeInv, NetTypes
<1>2. c \in 0..Len(commits) /\ c - 1 \in 0..Len(commits) /\ c \in Nat /\ c > 0  BY <1>1
<1>3. QED  BY <1>2 DEF IsChain

(* A row that is written records an epoch of the chain. *)
LEMMA RowsRecordedStep ==
  ASSUME TypeInv, NEW ch, RowsRecorded(ch), NEW i \in Inst, NEW rs, UNCHANGED commits,
         rows' = [rows EXCEPT ![i] = rs],
         rs = rows[i] \/ \E r \in LocalRow : rs = Append(rows[i], r) /\ RowOK(ch, r)
  PROVE  RowsRecorded(ch)'
<1>1. rows \in [Inst -> Seq(LocalRow)] /\ rows[i] \in Seq(LocalRow)  BY DEF TypeInv, LogTypes
<1>2. rows'[i] = rs /\ \A j \in Inst \ {i} : rows'[j] = rows[j]  BY <1>1
<1>3. \A n \in DOMAIN rs : RowOK(ch, rs[n])
  <2>1. CASE rs = rows[i]  BY <2>1 DEF RowsRecorded
  <2>2. CASE rs # rows[i]
    <3>1. PICK r \in LocalRow : rs = Append(rows[i], r) /\ RowOK(ch, r)  BY <2>2
    <3>2. /\ DOMAIN rs = 1..Len(rows[i]) + 1 /\ rs[Len(rows[i]) + 1] = r
          /\ \A k \in 1..Len(rows[i]) : rs[k] = rows[i][k]
      BY <1>1, <3>1, Appended
    <3>3. \A n \in DOMAIN rs : n \in 1..Len(rows[i]) \/ n = Len(rows[i]) + 1
      <4>1. Len(rows[i]) \in Nat  BY <1>1
      <4>2. QED  BY <3>2, <4>1
    <3>4. DOMAIN rows[i] = 1..Len(rows[i])  BY <1>1
    <3>5. QED  BY <3>1, <3>2, <3>3, <3>4 DEF RowsRecorded
  <2>3. QED  BY <2>1, <2>2
<1>4. \A j \in Inst : \A n \in DOMAIN rows'[j] : RowOK(ch, rows'[j][n])
  BY <1>2, <1>3 DEF RowsRecorded
<1>5. ASSUME NEW j \in Inst, NEW n \in DOMAIN rows'[j] PROVE RowOK(ch, rows[j][n])'
  <2>1. RowOK(ch, rows'[j][n])  BY <1>4, <1>5
  <2>2. QED  BY <2>1 DEF RowOK, KnownAt
<1>6. QED  BY <1>5 DEF RowsRecorded

(* Commit c is the next one for installation i, which is on the chain. *)
Processes(ch, i, c) ==
  /\ mls[i].active /\ c = mls[i].cursor + 1 /\ c \in DOMAIN commits
  /\ IF ~Wins(ch, c) THEN Fails(i, c, ch[c - 1])
     ELSE IF i \in commits[c].removes THEN Leaves(i, c, ch[c - 1])
     ELSE Advances(i, c, ch[c - 1])

LEMMA ReceiveProcesses ==
  ASSUME TypeInv, NEW ch, IsChain(ch), Positions(ch), NEW i \in Inst, NEW accept \in BOOLEAN,
         Receive(i, accept), glitches = 0, glitches' = 0
  PROVE  /\ Processes(ch, i, mls[i].cursor + 1) /\ mls[i].cursor \in Nat /\ mls[i].cursor > 0
         /\ ch[mls[i].cursor] = mls[i].hist
<1>0. PICK c, h : c = mls[i].cursor + 1 /\ h = mls[i].hist  OBVIOUS
<1>1. /\ mls[i].active /\ c \in DOMAIN commits /\ h \in Hist
      /\ Leaves(i, c, h) \/ Advances(i, c, h) \/ Fails(i, c, h)
  BY <1>0, ReceiveCases
<1>2. mls[i].cursor \in Nat /\ mls[i].cursor > 0 /\ c - 1 = mls[i].cursor
  <2>1. commits \in Seq(GroupCommit) /\ mls[i].cursor \in DOMAIN commits
    BY DEF TypeInv, NetTypes, Histories
  <2>2. QED  BY <1>0, <2>1
<1>3. h = ch[c - 1]  BY <1>0, <1>1, <1>2 DEF Positions
<1>4. Wins(ch, c) <=> commits[c].base = h  BY <1>3 DEF Wins
<1>5. Fails(i, c, h) => commits[c].base # h  BY DEF Fails
<1>6. CASE Leaves(i, c, h)
  <2>1. commits[c].base = h /\ i \in commits[c].removes  BY <1>6 DEF Leaves
  <2>2. QED  BY <1>0, <1>1, <1>2, <1>3, <1>4, <1>6, <2>1 DEF Processes
<1>7. CASE Advances(i, c, h)
  <2>1. commits[c].base = h /\ i \notin commits[c].removes  BY <1>7 DEF Advances
  <2>2. QED  BY <1>0, <1>1, <1>2, <1>3, <1>4, <1>7, <2>1 DEF Processes
<1>8. CASE Fails(i, c, h)
  BY <1>0, <1>1, <1>2, <1>3, <1>4, <1>5, <1>8 DEF Processes
<1>9. QED  BY <1>1, <1>6, <1>7, <1>8

(* Where it is then, and what it has written. *)
LEMMA ProcessedOnChain ==
  ASSUME TypeInv, NEW ch, IsChain(ch), Positions(ch), RowsRecorded(ch), Shapes, NEW i \in Inst,
         NEW c, Processes(ch, i, c), mls[i].cursor \in Nat, mls[i].cursor > 0,
         ch[mls[i].cursor] = mls[i].hist
  PROVE  /\ Positions(ch)' /\ RowsRecorded(ch)'
         /\ mls'[i].cursor = c /\ \A j \in Inst \ {i} : mls'[j] = mls[j]
         /\ mls'[i].active <=> ~(Wins(ch, c) /\ i \in commits[c].removes)
         /\ UNCHANGED <<commits, log, remote, status>> /\ mls'[Creator].active
<1>1. /\ mls[i].active /\ c = mls[i].cursor + 1 /\ c \in DOMAIN commits /\ c \in Nat /\ c > 1
      /\ c - 1 = mls[i].cursor
  BY DEF Processes
<1>2. PICK h : h = ch[c - 1]  OBVIOUS
<1>3. h \in Hist /\ h = mls[i].hist /\ ch[c] = IF Wins(ch, c) THEN Append(h, c) ELSE h
  BY <1>1, <1>2, ChainAt
<1>4. Shape(commits[c])  BY <1>1 DEF Shapes
<1>5. rows[i] \in Seq(LocalRow)  BY DEF TypeInv, LogTypes
<1>6. ASSUME NEW g, NEW active \in BOOLEAN, NEW rs, Moved(i, g, active, c, rs), active => g = ch[c],
             rs = rows[i] \/ \E r \in LocalRow : rs = Append(rows[i], r) /\ RowOK(ch, r),
             active <=> ~(Wins(ch, c) /\ i \in commits[c].removes)
      PROVE  /\ Positions(ch)' /\ RowsRecorded(ch)'
             /\ mls'[i].cursor = c /\ \A j \in Inst \ {i} : mls'[j] = mls[j]
             /\ mls'[i].active <=> ~(Wins(ch, c) /\ i \in commits[c].removes)
             /\ UNCHANGED <<commits, log, remote, status>> /\ mls'[Creator].active
  <2>1. /\ mls'[i].hist = g /\ mls'[i].active = active /\ mls'[i].cursor = c
        /\ \A j \in Inst \ {i} : mls'[j] = mls[j]
        /\ rows' = [rows EXCEPT ![i] = rs]
        /\ UNCHANGED <<commits, log, remote, status>>
    BY <1>6 DEF Moved
  <2>2. RowsRecorded(ch)'  BY <1>6, <2>1, RowsRecordedStep
  <2>3. \A j \in Inst : mls'[j].active => mls'[j].hist = ch[mls'[j].cursor]
    BY <1>6, <2>1 DEF Positions
  <2>4. mls'[Creator].active
    <3>1. CASE i = Creator
      <4>1. i \notin commits[c].removes  BY <1>4, <3>1 DEF Shape
      <4>2. QED  BY <1>6, <2>1, <3>1, <4>1
    <3>2. CASE i # Creator  BY <2>1, <3>2, InstAssumption DEF Shapes
    <3>3. QED  BY <3>1, <3>2
  <2>5. QED  BY <1>6, <2>1, <2>2, <2>3, <2>4 DEF Positions
<1>7. CASE ~Wins(ch, c)
  <2>1. PICK rs : rs = FailedRows(i, c)  OBVIOUS
  <2>2. Moved(i, h, TRUE, c, rs)  BY <1>2, <1>7, <2>1 DEF Processes, Fails
  <2>3. PICK r : r = Row("Failed", c, h, h)  OBVIOUS
  <2>4. rs = rows[i] \/ rs = Append(rows[i], r)  BY <1>1, <1>3, <2>1, <2>3, FailedRowsGrow
  <2>5. r \in LocalRow /\ r.type = "Failed" /\ r.seq = c /\ r.applied = h
    BY <1>1, <1>3, <2>3, RowTypes DEF CommitType
  <2>6. RowOK(ch, r)  BY <1>1, <1>3, <1>7, <2>5 DEF RowOK, KnownAt
  <2>7. QED  BY <1>3, <1>6, <1>7, <2>2, <2>4, <2>5, <2>6
<1>8. CASE Wins(ch, c) /\ i \in commits[c].removes
  <2>1. PICK r : r = Row("RemovedFromGroup", c, h, h)  OBVIOUS
  <2>2. PICK rs : rs = Append(rows[i], r)  OBVIOUS
  <2>3. Moved(i, h, FALSE, c, rs)  BY <1>2, <1>8, <2>1, <2>2 DEF Processes, Leaves
  <2>4. r \in LocalRow /\ r.type = "RemovedFromGroup" /\ r.last = h /\ r.applied = h
    BY <1>1, <1>3, <2>1, RowTypes DEF CommitType
  <2>5. RowOK(ch, r)  BY <2>4 DEF RowOK, RemovesUs, Success
  <2>6. QED  BY <1>6, <1>8, <2>2, <2>3, <2>4, <2>5
<1>9. CASE Wins(ch, c) /\ i \notin commits[c].removes
  <2>1. PICK g : g = Append(h, c)  OBVIOUS
  <2>2. PICK r : r = Row("Applied", c, h, g)  OBVIOUS
  <2>3. PICK rs : rs = Append(rows[i], r)  OBVIOUS
  <2>4. Moved(i, g, TRUE, c, rs)  BY <1>2, <1>9, <2>1, <2>2, <2>3 DEF Processes, Advances
  <2>5. g \in Hist /\ g = ch[c]  BY <1>1, <1>3, <1>9, <2>1, Appended DEF Hist
  <2>6. r \in LocalRow /\ r.type = "Applied" /\ r.seq = c /\ r.applied = g
    BY <1>1, <1>3, <2>2, <2>5, RowTypes DEF CommitType
  <2>7. RowOK(ch, r)  BY <1>1, <2>5, <2>6 DEF RowOK, KnownAt
  <2>8. QED  BY <1>6, <1>9, <2>3, <2>4, <2>5, <2>6, <2>7
<1>10. QED  BY <1>7, <1>8, <1>9

(* No addition stops being pending when a commit is processed: the welcome *)
(* is sent when the creator applies its own commit.                        *)
LEMMA ProcessedPending ==
  ASSUME TypeInv, NEW ch, IsChain(ch), Membership(ch), NEW i \in Inst,
         NEW c, Processes(ch, i, c), c \in Nat, c > 1,
         mls'[i].cursor = c, \A j \in Inst \ {i} : mls'[j] = mls[j]
  PROVE  /\ Sent(ch)'
         /\ \A j \in Inst : \A d \in DOMAIN commits :
              AddsTo(ch, j, d) => (Pending(j, d)' <=> Pending(j, d))
<1>1. c = mls[i].cursor + 1 /\ c \in DOMAIN commits  BY DEF Processes
<1>2. Shape(commits[c]) /\ Creator \in Inst  BY <1>1, InstAssumption DEF Membership, Shapes
<1>3. \A j \in Inst : mls[j].cursor \in DOMAIN commits  BY DEF TypeInv, Histories
<1>4. commits \in Seq(GroupCommit) /\ \A j \in Inst : mls[j].cursor \in Nat
  BY <1>3 DEF TypeInv, NetTypes
<1>5. UNCHANGED commits  BY DEF Processes, Fails, Leaves, Advances, Moved
<1>6. welcomes \in [Inst -> SUBSET Nat]  BY DEF TypeInv, NetTypes
<1>7. mls[Creator].cursor <= mls'[Creator].cursor
  <2>1. CASE i = Creator  BY <1>1, <1>2, <1>4, <2>1
  <2>2. CASE i # Creator  BY <1>2, <1>4, <2>2
  <2>3. QED  BY <2>1, <2>2
<1>8. ASSUME NEW j \in Inst
      PROVE  \/ welcomes'[j] = welcomes[j] /\ ~(i = Creator /\ AddsTo(ch, j, c))
             \/ /\ welcomes'[j] = welcomes[j] \cup {c}
                /\ i = Creator /\ AddsTo(ch, j, c)
  <2>1. CASE ~Wins(ch, c)
    <3>1. welcomes' = welcomes  BY <2>1 DEF Processes, Fails
    <3>2. QED  BY <2>1, <3>1 DEF AddsTo
  <2>2. CASE Wins(ch, c) /\ i \in commits[c].removes
    <3>1. welcomes' = welcomes  BY <2>2 DEF Processes, Leaves
    <3>2. i # Creator  BY <1>2, <2>2 DEF Shape
    <3>3. QED  BY <3>1, <3>2
  <2>3. CASE Wins(ch, c) /\ i \notin commits[c].removes
    <3>1. welcomes' = IF commits[c].by = i
                      THEN [k \in Inst |-> welcomes[k] \cup (IF k \in commits[c].adds THEN {c} ELSE {})]
                      ELSE welcomes
      BY <2>3 DEF Processes, Advances
    <3>2. CASE j \in commits[c].adds
      <4>1. AddsTo(ch, j, c) /\ commits[c].by = Creator  BY <1>1, <1>2, <2>3, <3>2 DEF AddsTo, Shape
      <4>2. CASE i = Creator  BY <3>1, <3>2, <4>1, <4>2
      <4>3. CASE i # Creator  BY <3>1, <4>1, <4>3
      <4>4. QED  BY <4>2, <4>3
    <3>3. CASE j \notin commits[c].adds
      <4>1. welcomes'[j] = welcomes[j]  BY <3>1, <3>3
      <4>2. QED  BY <3>3, <4>1 DEF AddsTo
    <3>4. QED  BY <3>2, <3>3
  <2>4. QED  BY <2>1, <2>2, <2>3
<1>9. Sent(ch)'
  <2>1. ASSUME NEW j \in Inst, NEW d \in welcomes'[j]
        PROVE  AddsTo(ch, j, d)' /\ d <= mls'[Creator].cursor
    <3>1. AddsTo(ch, j, d) /\ d <= mls'[Creator].cursor /\ d \in Nat
      <4>1. CASE d \in welcomes[j]
        <5>1. AddsTo(ch, j, d) /\ d <= mls[Creator].cursor /\ d \in Nat
          BY <1>6, <4>1 DEF Membership, Sent
        <5>2. mls'[Creator].cursor \in Nat
          <6>1. CASE i = Creator  BY <6>1
          <6>2. CASE i # Creator  BY <1>2, <1>4, <6>2
          <6>3. QED  BY <6>1, <6>2
        <5>3. QED  BY <1>2, <1>4, <1>7, <5>1, <5>2
      <4>2. CASE d \notin welcomes[j]
        <5>1. d = c /\ i = Creator /\ AddsTo(ch, j, c)  BY <1>8, <2>1, <4>2
        <5>2. QED  BY <5>1
      <4>3. QED  BY <4>1, <4>2
    <3>2. QED  BY <1>5, <3>1 DEF AddsTo, Wins
  <2>2. QED  BY <2>1 DEF Sent
<1>10. ASSUME NEW j \in Inst, NEW d \in DOMAIN commits, AddsTo(ch, j, d)
       PROVE  Pending(j, d)' <=> Pending(j, d)
  <2>1. d \in Nat  BY <1>4
  <2>2. CASE i # Creator
    <3>1. welcomes'[j] = welcomes[j] /\ mls'[Creator] = mls[Creator]  BY <1>2, <1>8, <2>2
    <3>2. QED  BY <3>1 DEF Pending
  <2>3. CASE i = Creator
    <3>1. CASE d = c
      <4>1. d \in welcomes'[j]  BY <1>8, <1>10, <2>3, <3>1
      <4>2. mls[Creator].cursor < d  BY <1>1, <1>2, <1>4, <2>3, <3>1
      <4>3. QED  BY <4>1, <4>2 DEF Pending
    <3>2. CASE d # c
      <4>1. d \in welcomes'[j] <=> d \in welcomes[j]  BY <1>8, <3>2
      <4>2. mls'[Creator].cursor < d <=> mls[Creator].cursor < d
        BY <1>1, <1>2, <1>4, <2>1, <2>3, <3>2
      <4>3. QED  BY <4>1, <4>2 DEF Pending
    <3>3. QED  BY <3>1, <3>2
  <2>4. QED  BY <2>2, <2>3
<1>11. QED  BY <1>9, <1>10

LEMMA ProcessedMembership ==
  ASSUME TypeInv, NEW ch, IsChain(ch), Membership(ch), NEW i \in Inst,
         NEW c, Processes(ch, i, c), c \in Nat, c > 1, mls[i].cursor \in Nat,
         mls'[i].cursor = c, \A j \in Inst \ {i} : mls'[j] = mls[j],
         mls'[i].active <=> ~(Wins(ch, c) /\ i \in commits[c].removes),
         UNCHANGED commits, mls'[Creator].active
  PROVE  Membership(ch)'
<1>1. /\ Sent(ch)'
      /\ \A j \in Inst : \A d \in DOMAIN commits :
           AddsTo(ch, j, d) => (Pending(j, d)' <=> Pending(j, d))
  BY ProcessedPending
<1>2. \A j \in Inst : \A d \in DOMAIN commits : /\ AddsTo(ch, j, d)' <=> AddsTo(ch, j, d)
                                                /\ RemovesFrom(ch, j, d)' <=> RemovesFrom(ch, j, d)
  BY DEF AddsTo, RemovesFrom, Wins
<1>3. Shapes'  BY DEF Membership, Shapes
<1>4. commits \in Seq(GroupCommit) /\ DOMAIN commits = 1..Len(commits) /\ Len(commits) \in Nat
  BY DEF TypeInv, NetTypes
<1>5. Alternates(ch)'
  <2>1. Alternates(ch)  BY DEF Membership
  <2>2. QED  BY <2>1 DEF Alternates, AddsTo, RemovesFrom, Wins
<1>6. ASSUME NEW j \in Inst, NEW d \in DOMAIN commits
      PROVE  LaterPending(ch, j, d)' <=> LaterPending(ch, j, d)
  BY <1>1, <1>2 DEF LaterPending
<1>7. InOrder(ch)'
  <2>1. ASSUME NEW j \in Inst, NEW d \in DOMAIN commits, AddsTo(ch, j, d)', Pending(j, d)'
        PROVE  LaterPending(ch, j, d)'
    <3>1. AddsTo(ch, j, d) /\ Pending(j, d)  BY <1>1, <1>2, <2>1
    <3>2. LaterPending(ch, j, d)  BY <3>1 DEF Membership, InOrder
    <3>3. QED  BY <1>6, <3>2
  <2>2. QED  BY <2>1 DEF InOrder
<1>8. Obeyed(ch)'
  <2>1. ASSUME NEW j \in Inst, NEW r \in DOMAIN commits, RemovesFrom(ch, j, r)', LaterPending(ch, j, r)'
        PROVE  Before(j, r)'
    <3>1. RemovesFrom(ch, j, r) /\ LaterPending(ch, j, r)  BY <1>2, <1>6, <2>1
    <3>2. Before(j, r)  BY <3>1 DEF Membership, Obeyed
    <3>3. CASE j # i
      <4>1. mls'[j] = mls[j]  BY <3>3
      <4>2. QED  BY <3>2, <4>1 DEF Before
    <3>4. CASE j = i
      <4>1. mls[i].active /\ c = mls[i].cursor + 1  BY DEF Processes
      <4>2. c <= r /\ r \in Nat  BY <1>4, <3>2, <3>4, <4>1 DEF Before
      <4>3. c = r => ~mls'[i].active  BY <3>1, <3>4 DEF RemovesFrom
      <4>4. QED  BY <3>4, <4>2, <4>3 DEF Before
    <3>5. QED  BY <3>3, <3>4
  <2>2. QED  BY <2>1 DEF Obeyed
<1>9. QED  BY <1>1, <1>3, <1>5, <1>7, <1>8 DEF Membership

(* The oldest welcome that i has not read: i was removed before it, and    *)
(* has not gone past it.                                                   *)
LEMMA JoinsBehind ==
  ASSUME TypeInv, NEW ch, IsChain(ch), Membership(ch), NEW i \in Inst, NEW c, c \in welcomes[i]
  PROVE  /\ AddsTo(ch, i, c) /\ c \in DOMAIN commits /\ c \in Nat /\ c > 1
         /\ c <= mls[Creator].cursor /\ mls[i].cursor < c /\ i # Creator
         /\ LaterPending(ch, i, c)
<1>1. /\ commits \in Seq(GroupCommit) /\ DOMAIN commits = 1..Len(commits) /\ Len(commits) \in Nat
      /\ Creator \in Inst
  BY InstAssumption DEF TypeInv, NetTypes
<1>2. AddsTo(ch, i, c) /\ c <= mls[Creator].cursor  BY DEF Membership, Sent
<1>3. c \in DOMAIN commits /\ c \in Nat /\ c > 1  BY <1>1, <1>2 DEF AddsTo
<1>4. i # Creator
  <2>1. Shape(commits[c]) /\ i \in commits[c].adds
    BY <1>2, <1>3 DEF Membership, Shapes, AddsTo
  <2>2. QED  BY <2>1 DEF Shape
<1>5. LaterPending(ch, i, c)
  <2>1. Pending(i, c)  BY DEF Pending
  <2>2. QED  BY <1>2, <1>3, <2>1 DEF Membership, InOrder
<1>6. PICK r \in 1..c - 1 : RemovesFrom(ch, i, r) /\ \A d \in r..c - 1 : ~AddsTo(ch, i, d)
  BY <1>2, <1>3 DEF Membership, Alternates
<1>7. LaterPending(ch, i, r)
  <2>1. ASSUME NEW d \in DOMAIN commits, d > r, AddsTo(ch, i, d) PROVE Pending(i, d)
    <3>1. d \in Nat /\ r \in Nat  BY <1>1, <1>6
    <3>2. ~(d < c)
      <4>1. d < c => d \in r..c - 1  BY <1>3, <2>1, <3>1
      <4>2. QED  BY <1>6, <2>1, <4>1
    <3>3. CASE d = c  BY <3>3 DEF Pending
    <3>4. CASE d # c
      <4>1. d > c  BY <1>3, <3>1, <3>2, <3>4
      <4>2. QED  BY <1>5, <2>1, <4>1 DEF LaterPending
    <3>5. QED  BY <3>3, <3>4
  <2>2. QED  BY <2>1 DEF LaterPending
<1>8. Before(i, r)
  <2>1. r \in DOMAIN commits  BY <1>6 DEF RemovesFrom
  <2>2. QED  BY <1>6, <1>7, <2>1 DEF Membership, Obeyed
<1>9. mls[i].cursor < c
  <2>1. mls[i].cursor \in Nat  BY <1>1 DEF TypeInv, Histories
  <2>2. mls[i].cursor <= r /\ r < c /\ r \in Nat  BY <1>3, <1>6, <1>8 DEF Before
  <2>3. QED  BY <1>3, <2>1, <2>2
<1>10. QED  BY <1>2, <1>3, <1>4, <1>5, <1>9

LEMMA JoinsMembership ==
  ASSUME TypeInv, NEW ch, IsChain(ch), Membership(ch), NEW i \in Inst, NEW c,
         c \in welcomes[i], \A d \in welcomes[i] : c <= d,
         mls'[i].cursor = c, \A j \in Inst \ {i} : mls'[j] = mls[j],
         welcomes' = [welcomes EXCEPT ![i] = @ \ {c}], UNCHANGED commits
  PROVE  Membership(ch)'
<1>1. /\ AddsTo(ch, i, c) /\ c \in DOMAIN commits /\ c \in Nat /\ c > 1
      /\ c <= mls[Creator].cursor /\ mls[i].cursor < c /\ i # Creator
      /\ LaterPending(ch, i, c)
  BY JoinsBehind
<1>2. /\ commits \in Seq(GroupCommit) /\ DOMAIN commits = 1..Len(commits) /\ Len(commits) \in Nat
      /\ Creator \in Inst /\ mls[Creator].cursor \in Nat
      /\ welcomes \in [Inst -> SUBSET Nat]
  BY InstAssumption DEF TypeInv, NetTypes, Histories
<1>3. /\ welcomes'[i] = welcomes[i] \ {c} /\ \A j \in Inst \ {i} : welcomes'[j] = welcomes[j]
      /\ mls'[Creator] = mls[Creator]
  BY <1>1, <1>2
<1>4. \A j \in Inst : \A d \in DOMAIN commits : /\ AddsTo(ch, j, d)' <=> AddsTo(ch, j, d)
                                                /\ RemovesFrom(ch, j, d)' <=> RemovesFrom(ch, j, d)
  BY DEF AddsTo, RemovesFrom, Wins
<1>5. Shapes'  BY <1>3 DEF Membership, Shapes
<1>6. Sent(ch)'
  <2>1. ASSUME NEW j \in Inst, NEW d \in welcomes'[j]
        PROVE  AddsTo(ch, j, d)' /\ d <= mls'[Creator].cursor
    <3>1. d \in welcomes[j]  BY <1>3, <2>1
    <3>2. AddsTo(ch, j, d) /\ d <= mls[Creator].cursor  BY <3>1 DEF Membership, Sent
    <3>3. QED  BY <1>3, <3>2 DEF AddsTo, Wins
  <2>2. QED  BY <2>1 DEF Sent
<1>7. Alternates(ch)'
  <2>1. Alternates(ch)  BY DEF Membership
  <2>2. QED  BY <2>1 DEF Alternates, AddsTo, RemovesFrom, Wins
<1>8. \A j \in Inst \ {i} : \A d : Pending(j, d)' <=> Pending(j, d)  BY <1>3 DEF Pending
<1>9. /\ \A d : Pending(i, d)' => Pending(i, d)
      /\ \A d : Pending(i, d) /\ d # c => Pending(i, d)'
      /\ ~Pending(i, c)'
  <2>1. ~(mls[Creator].cursor < c)  BY <1>1, <1>2
  <2>2. QED  BY <1>3, <2>1 DEF Pending
<1>10. ASSUME NEW j \in Inst, NEW d \in DOMAIN commits
       PROVE  LaterPending(ch, j, d)' => LaterPending(ch, j, d)
  BY <1>4, <1>8, <1>9 DEF LaterPending
<1>11. InOrder(ch)'
  <2>1. ASSUME NEW j \in Inst, NEW d \in DOMAIN commits, AddsTo(ch, j, d)', Pending(j, d)',
               NEW e \in DOMAIN commits, e > d, AddsTo(ch, j, e)'
        PROVE  Pending(j, e)'
    <3>1. AddsTo(ch, j, d) /\ Pending(j, d) /\ AddsTo(ch, j, e)  BY <1>4, <1>8, <1>9, <2>1
    <3>2. Pending(j, e)  BY <2>1, <3>1 DEF Membership, InOrder, LaterPending
    <3>3. CASE j # i  BY <1>8, <3>2, <3>3
    <3>4. CASE j = i
      <4>1. e # c
        <5>1. SUFFICES ASSUME e = c PROVE FALSE  OBVIOUS
        <5>2. d < c /\ d \in Nat  BY <1>2, <2>1, <5>1
        <5>3. d \notin welcomes[i]  BY <1>1, <5>2
        <5>4. ~(mls[Creator].cursor < d)  BY <1>1, <1>2, <5>2
        <5>5. QED  BY <3>1, <3>4, <5>3, <5>4 DEF Pending
      <4>2. QED  BY <1>9, <3>2, <3>4, <4>1
    <3>5. QED  BY <3>3, <3>4
  <2>2. \A j \in Inst : \A d \in DOMAIN commits :
          AddsTo(ch, j, d)' /\ Pending(j, d)' => LaterPending(ch, j, d)'
    BY <2>1 DEF LaterPending
  <2>3. QED  BY <2>2 DEF InOrder
<1>12. Obeyed(ch)'
  <2>1. ASSUME NEW j \in Inst, NEW r \in DOMAIN commits, RemovesFrom(ch, j, r)', LaterPending(ch, j, r)'
        PROVE  Before(j, r)'
    <3>1. RemovesFrom(ch, j, r) /\ LaterPending(ch, j, r)  BY <1>4, <1>10, <2>1
    <3>2. Before(j, r)  BY <3>1 DEF Membership, Obeyed
    <3>3. CASE j # i
      <4>1. mls'[j] = mls[j]  BY <3>3
      <4>2. QED  BY <3>2, <4>1 DEF Before
    <3>4. CASE j = i
      <4>1. r \in Nat  BY <1>2
      <4>2. ~(r < c)
        <5>1. AddsTo(ch, i, c)'  BY <1>1, <1>4
        <5>2. r < c => Pending(i, c)'  BY <1>1, <2>1, <3>4, <4>1, <5>1 DEF LaterPending
        <5>3. QED  BY <1>9, <5>2
      <4>3. r # c
        <5>1. Shape(commits[c])  BY <1>1 DEF Membership, Shapes
        <5>2. i \in commits[c].adds  BY <1>1 DEF AddsTo
        <5>3. i \notin commits[c].removes  BY <5>1, <5>2 DEF Shape
        <5>4. QED  BY <3>1, <3>4, <5>3 DEF RemovesFrom
      <4>4. c < r  BY <1>1, <4>1, <4>2, <4>3
      <4>5. c <= r /\ c # r  BY <1>1, <4>1, <4>4
      <4>6. QED  BY <3>4, <4>5 DEF Before
    <3>5. QED  BY <3>3, <3>4
  <2>2. QED  BY <2>1 DEF Obeyed
<1>13. QED  BY <1>5, <1>6, <1>7, <1>11, <1>12 DEF Membership

-----------------------------------------------------------------------------
(* No false alarm: the invariant *)

LEMMA ChainSame ==
  ASSUME NEW ch, IsChain(ch), UNCHANGED commits
  PROVE  IsChain(ch)'
BY DEF IsChain, Wins

LEMMA ChainReceive ==
  ASSUME TypeInv, NEW ch, OneChain(ch), NEW i \in Inst, NEW accept \in BOOLEAN,
         Receive(i, accept), glitches = 0, glitches' = 0
  PROVE  OneChain(ch)' /\ UNCHANGED status
<1>1. PICK c : c = mls[i].cursor + 1  OBVIOUS
<1>2. IsChain(ch) /\ Positions(ch) /\ Recorded(ch) /\ Membership(ch) /\ Shapes
  BY DEF OneChain, Membership
<1>3. /\ Processes(ch, i, c) /\ mls[i].cursor \in Nat /\ mls[i].cursor > 0
      /\ ch[mls[i].cursor] = mls[i].hist
  BY <1>1, <1>2, ReceiveProcesses
<1>4. c \in Nat /\ c > 1  BY <1>1, <1>3
<1>5. /\ Positions(ch)' /\ RowsRecorded(ch)'
      /\ mls'[i].cursor = c /\ \A j \in Inst \ {i} : mls'[j] = mls[j]
      /\ mls'[i].active <=> ~(Wins(ch, c) /\ i \in commits[c].removes)
      /\ UNCHANGED <<commits, log, remote, status>> /\ mls'[Creator].active
  BY <1>2, <1>3, ProcessedOnChain DEF Recorded
<1>6. Membership(ch)'  BY <1>2, <1>3, <1>4, <1>5, ProcessedMembership
<1>7. LogRecorded(ch)' /\ SavedRecorded(ch)'
  BY <1>2, <1>5 DEF Recorded, LogRecorded, SavedRecorded, KnownAt
<1>8. QED  BY <1>2, <1>5, <1>6, <1>7, ChainSame DEF OneChain, Recorded

LEMMA ChainWelcome ==
  ASSUME TypeInv, NEW ch, OneChain(ch), NEW i \in Inst, Welcome(i)
  PROVE  OneChain(ch)' /\ UNCHANGED <<status, glitches>>
<1>1. PICK c \in DOMAIN commits, h \in Hist, n \in DOMAIN commits : Joins(i, c, h, n)
  BY WelcomeCases
<1>2. IsChain(ch) /\ Positions(ch) /\ Recorded(ch) /\ Membership(ch)  BY DEF OneChain
<1>3. /\ c \in welcomes[i] /\ \A d \in welcomes[i] : c <= d
      /\ h = Append(commits[c].base, c)
      /\ n \in {c, mls[i].cursor} /\ c <= n /\ mls[i].cursor <= n
      /\ Moved(i, h, TRUE, n, Append(rows[i], Row("Welcome", 0, <<>>, h)))
      /\ welcomes' = [welcomes EXCEPT ![i] = @ \ {c}]
      /\ UNCHANGED glitches
  BY <1>1 DEF Joins
<1>4. AddsTo(ch, i, c) /\ mls[i].cursor < c /\ c \in Nat  BY <1>2, <1>3, JoinsBehind
<1>5. n = c
  <2>1. mls[i].cursor \in Nat  BY DEF TypeInv, NetTypes
  <2>2. QED  BY <1>3, <1>4, <2>1
<1>6. h = ch[c]
  <2>1. Wins(ch, c)  BY <1>4 DEF AddsTo
  <2>2. QED  BY <1>2, <1>3, <2>1, ChainAt DEF Wins
<1>7. PICK r : r = Row("Welcome", 0, <<>>, h)  OBVIOUS
<1>8. r \in LocalRow /\ r.seq = 0
  <2>1. <<>> \in Hist /\ 0 \in Nat /\ "Welcome" \in CommitType  BY DEF Hist, CommitType
  <2>2. QED  BY <1>7, <2>1 DEF Row, LocalRow
<1>9. /\ mls'[i].hist = h /\ mls'[i].cursor = c /\ \A j \in Inst \ {i} : mls'[j] = mls[j]
      /\ rows' = [rows EXCEPT ![i] = Append(rows[i], r)]
      /\ UNCHANGED <<commits, log, remote, status>>
  BY <1>3, <1>5, <1>7 DEF Moved
<1>10. RowsRecorded(ch)'
  <2>1. RowOK(ch, r)  BY <1>8 DEF RowOK
  <2>2. PICK rs : rs = Append(rows[i], r)  OBVIOUS
  <2>3. RowsRecorded(ch)  BY <1>2 DEF Recorded
  <2>4. QED  BY <1>8, <1>9, <2>1, <2>2, <2>3, RowsRecordedStep
<1>11. Positions(ch)'
  <2>1. \A j \in Inst : mls'[j].active => mls'[j].hist = ch[mls'[j].cursor]
    BY <1>2, <1>6, <1>9 DEF Positions
  <2>2. QED  BY <2>1 DEF Positions
<1>12. Membership(ch)'  BY <1>2, <1>3, <1>9, JoinsMembership
<1>13. LogRecorded(ch)' /\ SavedRecorded(ch)'
  BY <1>2, <1>9 DEF Recorded, LogRecorded, SavedRecorded, KnownAt
<1>14. QED  BY <1>2, <1>3, <1>9, <1>10, <1>11, <1>12, <1>13, ChainSame DEF OneChain, Recorded

LEMMA ChainCommits ==
  ASSUME TypeInv, NEW ch, OneChain(ch), FittingCommit,
         UNCHANGED <<mls, welcomes, rows, log>>, NEW i \in Inst, NEW new \in Seq(SavedRow),
         Extends(remote[i], new), TakenFromLog(i, new), remote' = [remote EXCEPT ![i] = new]
  PROVE  \E ch2 : OneChain(ch2)'
<1>1. MoreCommits  BY FittingGrows
<1>2. IsChain(ch) /\ Positions(ch) /\ Recorded(ch) /\ Membership(ch)  BY DEF OneChain
<1>3. PICK ch2 : IsChain(ch2)' /\ Follows(ch, ch2)  BY <1>1, <1>2, ChainGrows
<1>4. Positions(ch2)' /\ RowsRecorded(ch2)' /\ LogRecorded(ch2)'
  BY <1>1, <1>2, <1>3, PositionsGrow, RowsRecordedGrow, LogRecordedGrows DEF Recorded
<1>5. SavedRecorded(ch2)'  BY <1>1, <1>2, <1>3, SavedRecordedGrows DEF Recorded
<1>6. Membership(ch2)'  BY <1>2, <1>3, MembershipGrows
<1>7. QED  BY <1>3, <1>4, <1>5, <1>6 DEF OneChain, Recorded

(* The same when nothing is saved. *)
LEMMA ChainPublished ==
  ASSUME TypeInv, NEW ch, OneChain(ch), FittingCommit,
         UNCHANGED <<mls, welcomes, rows, log, remote>>
  PROVE  \E ch2 : OneChain(ch2)'
<1>1. PICK i \in Inst : i = Creator  BY InstAssumption
<1>2. remote \in [Inst -> Seq(SavedRow)]  BY DEF TypeInv, LogTypes
<1>3. PICK new : new = remote[i]  OBVIOUS
<1>4. /\ new \in Seq(SavedRow) /\ Extends(remote[i], new) /\ TakenFromLog(i, new)
      /\ remote' = [remote EXCEPT ![i] = new]
  BY <1>2, <1>3, ExtendsSame DEF TakenFromLog
<1>5. QED  BY <1>4, ChainCommits

(* Nobody but the creator adds and removes. *)
LEMMA FittingProposal ==
  ASSUME TypeInv, Admins = {Creator}, NEW i \in Inst, Propose(i)
  PROVE  FittingCommit
<1>1. None \in Key  BY DEF Key
<1>2. ASSUME NEW removes \in SUBSET Inst, NEW adds \in SUBSET Inst,
             commits' = Append(commits, Commit(i, removes, adds, None)),
             adds = {} \/ removes = {}, adds # {} => i = Creator, Creator \notin adds \cup removes,
             \A j \in adds : ~InTree(mls[i].hist, j)
      PROVE  FittingCommit
  <2>1. PICK x : x = Commit(i, removes, adds, None)  OBVIOUS
  <2>2. /\ x \in GroupCommit /\ Range(x.base) \subseteq DOMAIN commits
        /\ x.base = mls[i].hist /\ x.removes = removes /\ x.adds = adds /\ x.by = i
    BY <1>1, <2>1, NewCommit
  <2>3. QED  BY <1>2, <2>1, <2>2 DEF FittingCommit, Shape
<1>3. CASE commits' = Append(commits, Commit(i, {}, {}, None))
  <2>1. PICK none \in SUBSET Inst : none = {}  OBVIOUS
  <2>2. commits' = Append(commits, Commit(i, none, none, None))  BY <1>3, <2>1
  <2>3. Creator \notin none \cup none /\ \A j \in none : ~InTree(mls[i].hist, j)  BY <2>1
  <2>4. QED  BY <1>2, <2>1, <2>2, <2>3
<1>4. CASE ~(commits' = Append(commits, Commit(i, {}, {}, None)))
  <2>1. /\ i \in Admins
        /\ \E j \in Targets \ Admins :
             \/ commits' = Append(commits, Commit(i, {j}, {}, None))
             \/ /\ ~InTree(mls[i].hist, j)
                /\ commits' = Append(commits, Commit(i, {}, {j}, None))
    BY <1>4 DEF Propose
  <2>2. PICK j \in Targets \ Admins :
          \/ commits' = Append(commits, Commit(i, {j}, {}, None))
          \/ /\ ~InTree(mls[i].hist, j)
             /\ commits' = Append(commits, Commit(i, {}, {j}, None))
    BY <2>1
  <2>3. j \in Inst /\ j # Creator /\ i = Creator  BY <2>1, <2>2, InstAssumption
  <2>4. {j} \in SUBSET Inst /\ {} \in SUBSET Inst  BY <2>3
  <2>5. CASE commits' = Append(commits, Commit(i, {j}, {}, None))
    BY <1>2, <2>3, <2>4, <2>5
  <2>6. CASE ~InTree(mls[i].hist, j) /\ commits' = Append(commits, Commit(i, {}, {j}, None))
    BY <1>2, <2>3, <2>4, <2>6
  <2>7. QED  BY <2>2, <2>5, <2>6
<1>5. QED  BY <1>3, <1>4

LEMMA FittingShare ==
  ASSUME TypeInv, NEW i \in Inst, SharesKey(i)
  PROVE  FittingCommit
<1>1. CASE UNCHANGED commits  BY <1>1 DEF FittingCommit
<1>2. CASE ~UNCHANGED commits
  <2>1. PICK key \in Key : commits' = Append(commits, Commit(i, {}, {}, key))
    BY <1>2 DEF SharesKey
  <2>2. PICK x : x = Commit(i, {}, {}, key)  OBVIOUS
  <2>3. /\ x \in GroupCommit /\ Range(x.base) \subseteq DOMAIN commits
        /\ x.removes = {} /\ x.adds = {}
    BY <2>2, NewCommit
  <2>4. QED  BY <2>1, <2>2, <2>3 DEF FittingCommit, Shape
<1>3. QED  BY <1>1, <1>2

LEMMA ChainPublish ==
  ASSUME TypeInv, NEW ch, OneChain(ch), NEW i \in Inst, PublishCommitLogs(i)
  PROVE  OneChain(ch)'
<1>1. PICK es : es = SignedEntries(i)  OBVIOUS
<1>2. /\ UNCHANGED <<commits, welcomes, mls, rows, remote>>
      /\ UNCHANGED log \/ log' = log \o es
  BY <1>1, PublishEffect
<1>3. /\ es \in Seq(Entry)
      /\ \A k \in DOMAIN es : \E n \in Unpublished(i) :
           Publishable(rows[i][n]) /\ Publishes(es[k], rows[i][n])
  BY <1>1, Signed
<1>4. IsChain(ch) /\ Positions(ch) /\ Recorded(ch) /\ Membership(ch)  BY DEF OneChain
<1>5. log \in Seq(Entry)  BY DEF TypeInv, NetTypes
<1>6. \A k \in DOMAIN es : KnownAt(ch, es[k].seq, es[k].applied)
  <2>1. ASSUME NEW k \in DOMAIN es PROVE KnownAt(ch, es[k].seq, es[k].applied)
    <3>1. PICK n \in Unpublished(i) : Publishable(rows[i][n]) /\ Publishes(es[k], rows[i][n])
      BY <1>3
    <3>2. PICK r : r = rows[i][n]  OBVIOUS
    <3>3. r.seq # 0 /\ r.type # "RemovedFromGroup" /\ es[k].seq = r.seq /\ es[k].applied = r.applied
      BY <3>1, <3>2 DEF Unpublished, Publishable, Publishes
    <3>4. RowOK(ch, r)
      <4>1. n \in DOMAIN rows[i]  BY DEF Unpublished
      <4>2. QED  BY <1>4, <3>2, <4>1 DEF Recorded, RowsRecorded
    <3>5. QED  BY <3>3, <3>4 DEF RowOK
  <2>2. QED  BY <2>1
<1>7. ASSUME NEW new, new = log \/ new = log \o es, NEW k \in DOMAIN new
      PROVE  KnownAt(ch, new[k].seq, new[k].applied)
  <2>1. CASE new = log  BY <1>4, <1>7, <2>1 DEF Recorded, LogRecorded
  <2>2. CASE new = log \o es
    <3>1. /\ Len(log) \in Nat /\ Len(es) \in Nat /\ DOMAIN log = 1..Len(log)
          /\ DOMAIN es = 1..Len(es) /\ k \in 1..Len(log) + Len(es)
      BY <1>3, <1>5, <1>7, <2>2
    <3>2. CASE k <= Len(log)
      <4>1. k \in DOMAIN log /\ new[k] = log[k]  BY <1>3, <1>5, <2>2, <3>1, <3>2
      <4>2. QED  BY <1>4, <4>1 DEF Recorded, LogRecorded
    <3>3. CASE ~(k <= Len(log))
      <4>1. k - Len(log) \in DOMAIN es  BY <3>1, <3>3
      <4>2. new[k] = es[k - Len(log)]  BY <1>3, <1>5, <2>2, <3>1, <3>3
      <4>3. QED  BY <1>6, <4>1, <4>2
    <3>4. QED  BY <3>2, <3>3
  <2>3. QED  BY <1>7, <2>1, <2>2
<1>8. LogRecorded(ch)'
  <2>1. PICK new : new = log'  OBVIOUS
  <2>2. \A k \in DOMAIN new : KnownAt(ch, new[k].seq, new[k].applied)  BY <1>2, <1>7, <2>1
  <2>3. QED  BY <1>2, <2>1, <2>2 DEF LogRecorded, KnownAt
<1>9. Positions(ch)' /\ RowsRecorded(ch)' /\ SavedRecorded(ch)'
  BY <1>2, <1>4 DEF Recorded, Positions, RowsRecorded, RowOK, SavedRecorded, KnownAt
<1>10. Membership(ch)'
  BY <1>2, <1>4 DEF Membership, Shapes, Sent, Alternates, InOrder, Obeyed, AddsTo, RemovesFrom,
                    Wins, LaterPending, Pending, Before
<1>11. QED  BY <1>2, <1>4, <1>8, <1>9, <1>10, ChainSame DEF OneChain, Recorded

(* Nothing that the chain is about changes. *)
LEMMA ChainAside ==
  ASSUME TypeInv, NEW ch, OneChain(ch), UNCHANGED <<commits, welcomes, mls, rows, log, remote>>
  PROVE  \E ch2 : OneChain(ch2)'
<1>1. FittingCommit  BY DEF FittingCommit
<1>2. QED  BY <1>1, ChainPublished

(* A verdict is never forked when both logs record the chain. *)
LEMMA NoForkedBasis ==
  ASSUME TypeInv, NEW ch, OneChain(ch), NEW i \in Inst
  PROVE  ~ForkedBasis(i)
<1>1. SUFFICES ASSUME NEW n \in DOMAIN rows[i], NEW m \in DOMAIN remote[i],
                      rows[i][n].seq # 0, ~RemovesUs(rows[i][n]),
                      remote[i][m].seq = rows[i][n].seq
               PROVE  remote[i][m].applied = rows[i][n].applied
  BY DEF ForkedBasis
<1>2. RowOK(ch, rows[i][n])  BY DEF OneChain, Recorded, RowsRecorded
<1>3. KnownAt(ch, rows[i][n].seq, rows[i][n].applied)  BY <1>1, <1>2 DEF RowOK
<1>4. KnownAt(ch, remote[i][m].seq, remote[i][m].applied)
  BY DEF OneChain, Recorded, SavedRecorded
<1>5. QED  BY <1>1, <1>3, <1>4 DEF KnownAt

LEMMA AlarmStep ==
  ASSUME TypeInv, AlarmInv, Admins = {Creator}, [Next]_vars
  PROVE  AlarmInv'
<1>1. SUFFICES ASSUME glitches' = 0
               PROVE  Quiet' /\ (\A i \in Inst : status'[i] # "forked") /\ \E ch : OneChain(ch)'
  BY DEF AlarmInv, NoFalseAlarm
<1>2. glitches = 0
  <2>1. glitches \in Nat  BY DEF TypeInv, LogTypes
  <2>2. glitches' = glitches \/ glitches' = glitches + 1
    <3>1. CASE UNCHANGED vars  BY <3>1 DEF vars
    <3>2. ASSUME NEW i \in Inst, Propose(i) \/ Tick(i) PROVE UNCHANGED glitches
      BY <3>2 DEF Propose, Tick, SaveRemoteCommitLog, UpdateForkedState, PublishCommitLogs,
                  RequestReadd, RespondReadds
    <3>3. ASSUME NEW i \in Inst, Follow(i) PROVE glitches' = glitches \/ glitches' = glitches + 1
      BY <3>3 DEF Follow, Receive, Welcome, OneshotArrives
    <3>4. QED  BY <3>1, <3>2, <3>3 DEF Next
  <2>3. QED  BY <1>1, <2>1, <2>2
<1>3. Quiet /\ \A i \in Inst : status[i] # "forked"  BY <1>2 DEF AlarmInv, NoFalseAlarm
<1>4. Quiet'  BY <1>3, QuietStep
<1>5. PICK ch : OneChain(ch)  BY <1>2 DEF AlarmInv
<1>6. SUFFICES (\A i \in Inst : status'[i] # "forked") /\ \E ch2 : OneChain(ch2)'
  BY <1>4
<1>7. CASE UNCHANGED vars
  <2>1. UNCHANGED <<commits, welcomes, mls, rows, log, remote, status>>
    BY <1>7 DEF vars, net, logs
  <2>2. QED  BY <1>3, <1>5, <2>1, ChainAside
<1>8. ASSUME NEW i \in Inst, Propose(i)
      PROVE  (\A j \in Inst : status'[j] # "forked") /\ \E ch2 : OneChain(ch2)'
  <2>1. FittingCommit  BY <1>8, FittingProposal
  <2>2. UNCHANGED <<mls, welcomes, rows, log, remote, status>>  BY <1>8 DEF Propose, logs
  <2>3. QED  BY <1>3, <1>5, <2>1, <2>2, ChainPublished
<1>9. ASSUME NEW i \in Inst, Follow(i)
      PROVE  (\A j \in Inst : status'[j] # "forked") /\ \E ch2 : OneChain(ch2)'
  <2>1. ASSUME NEW accept \in BOOLEAN, Receive(i, accept)
        PROVE  OneChain(ch)' /\ UNCHANGED status
    BY <1>1, <1>2, <1>5, <2>1, ChainReceive
  <2>2. CASE Welcome(i)  BY <1>3, <1>5, <2>2, ChainWelcome
  <2>3. CASE OneshotArrives(i)
    <3>1. UNCHANGED <<commits, welcomes, mls, rows, log, remote, status>>
      BY <2>3 DEF OneshotArrives, net, logs
    <3>2. QED  BY <1>3, <1>5, <3>1, ChainAside
  <2>4. QED  BY <1>3, <1>9, <2>1, <2>2, <2>3 DEF Follow
<1>10. ASSUME NEW i \in Inst, Tick(i)
       PROVE  (\A j \in Inst : status'[j] # "forked") /\ \E ch2 : OneChain(ch2)'
  <2>1. CASE SaveRemoteCommitLog(i)
    <3>1. /\ FittingCommit /\ UNCHANGED <<welcomes, log, mls, rows, status>>
      BY <2>1, SaveEffect, FittingShare
    <3>2. PICK new \in Seq(SavedRow) :
            /\ remote' = [remote EXCEPT ![i] = new]
            /\ Extends(remote[i], new) /\ TakenFromLog(i, new)
      BY <2>1, SaveEffect
    <3>3. QED  BY <1>3, <1>5, <3>1, <3>2, ChainCommits
  <2>2. CASE UpdateForkedState(i)
    <3>1. UNCHANGED <<commits, welcomes, log, mls, rows, remote>>  BY <2>2, UpdateEffect
    <3>2. \A j \in Inst : status'[j] # "forked"
      <4>1. CASE UNCHANGED status  BY <1>3, <4>1
      <4>2. CASE ~UNCHANGED status
        <5>1. PICK verdict \in {"unknown", "clean", "forked"} :
                status' = [status EXCEPT ![i] = verdict] /\ (verdict = "forked" => ForkedBasis(i))
          BY <2>2, <4>2, UpdateEffect
        <5>2. verdict # "forked"  BY <1>5, <5>1, NoForkedBasis
        <5>3. status \in [Inst -> {"unknown", "clean", "forked"}]  BY DEF TypeInv, LogTypes
        <5>4. QED  BY <1>3, <5>1, <5>2, <5>3
      <4>3. QED  BY <4>1, <4>2
    <3>3. QED  BY <1>5, <3>1, <3>2, ChainAside
  <2>3. CASE PublishCommitLogs(i)
    <3>1. OneChain(ch)'  BY <1>5, <2>3, ChainPublish
    <3>2. UNCHANGED status  BY <2>3, PublishEffect
    <3>3. QED  BY <1>3, <3>1, <3>2
  <2>4. CASE RequestReadd(i)
    <3>1. UNCHANGED <<commits, welcomes, mls, rows, log, remote, status>>
      BY <2>4 DEF RequestReadd, net, logs
    <3>2. QED  BY <1>3, <1>5, <3>1, ChainAside
  <2>5. CASE RespondReadds(i)
    <3>1. \A j \in Inst : asked[i][j] = 0  BY <1>3 DEF Quiet
    <3>2. UNCHANGED <<commits, welcomes, mls, rows, log, remote, status>>
      BY <2>5, <3>1, RespondEffect
    <3>3. QED  BY <1>3, <1>5, <3>2, ChainAside
  <2>6. QED  BY <1>10, <2>1, <2>2, <2>3, <2>4, <2>5 DEF Tick
<1>11. QED  BY <1>7, <1>8, <1>9, <1>10 DEF Next

LEMMA AlarmInit == Init => AlarmInv
<1>1. SUFFICES ASSUME Init PROVE AlarmInv  OBVIOUS
<1>2. PICK x : x = [by |-> Creator, base |-> <<>>, removes |-> {}, adds |-> Inst, key |-> None]
  OBVIOUS
<1>3. /\ commits = <<x>> /\ DOMAIN commits = {1} /\ Len(commits) = 1 /\ commits[1] = x
      /\ x.base = <<>> /\ x.removes = {} /\ x.adds = Inst
  BY <1>1, <1>2 DEF Init
<1>4. PICK ch : ch = [c \in 0..1 |-> IF c = 0 THEN <<>> ELSE <<1>>]  OBVIOUS
<1>5. ch[0] = <<>> /\ ch[1] = <<1>> /\ ch \in [0..1 -> Hist]  BY <1>4 DEF Hist
<1>6. Wins(ch, 1)  BY <1>3, <1>5 DEF Wins
<1>7. IsChain(ch)
  <2>1. <<1>> = Append(<<>>, 1)  OBVIOUS
  <2>2. Range(<<1>>) = {d \in 1..1 : Wins(ch, d)}
    <3>1. Range(<<1>>) = {1}  BY DEF Range
    <3>2. QED  BY <1>6, <3>1
  <2>3. \A c \in DOMAIN commits :
          /\ ch[c] = IF Wins(ch, c) THEN Append(ch[c - 1], c) ELSE ch[c - 1]
          /\ Range(ch[c]) = {d \in 1..c : Wins(ch, d)}
    <3>1. ch[1] = IF Wins(ch, 1) THEN Append(ch[1 - 1], 1) ELSE ch[1 - 1]
      <4>1. 1 - 1 = 0  OBVIOUS
      <4>2. QED  BY <1>5, <1>6, <2>1, <4>1
    <3>2. QED  BY <1>3, <1>5, <2>2, <3>1
  <2>4. ch \in [0..Len(commits) -> Hist] /\ ch[0] = <<>>  BY <1>3, <1>5
  <2>5. QED  BY <2>3, <2>4 DEF IsChain
<1>8. \A i \in Inst : mls[i].hist = <<1>> /\ mls[i].active /\ mls[i].cursor = 1
  BY <1>1 DEF Init
<1>9. Positions(ch)  BY <1>5, <1>8 DEF Positions
<1>10. Recorded(ch)
  <2>1. \A i \in Inst : \A n \in DOMAIN rows[i] : RowOK(ch, rows[i][n])
    <3>1. ASSUME NEW i \in Inst, NEW n \in DOMAIN rows[i] PROVE RowOK(ch, rows[i][n])
      <4>1. rows[i] = IF i = Creator
                      THEN <<Row("GroupCreation", 0, <<>>, <<>>), Row("Applied", 1, <<>>, <<1>>)>>
                      ELSE <<Row("Welcome", 0, <<>>, <<1>>)>>
        BY <1>1 DEF Init
      <4>2. rows[i][n] \in {Row("GroupCreation", 0, <<>>, <<>>), Row("Applied", 1, <<>>, <<1>>),
                            Row("Welcome", 0, <<>>, <<1>>)}
        BY <3>1, <4>1
      <4>3. QED  BY <1>3, <1>5, <4>2 DEF Row, RowOK, KnownAt
    <3>2. QED  BY <3>1
  <2>2. log = <<>> /\ \A i \in Inst : remote[i] = <<>>  BY <1>1 DEF Init
  <2>3. QED  BY <2>1, <2>2 DEF Recorded, RowsRecorded, LogRecorded, SavedRecorded
<1>11. Membership(ch)
  <2>1. Shapes  BY <1>3, <1>8, InstAssumption DEF Shapes
  <2>2. \A i \in Inst : welcomes[i] = {}  BY <1>1 DEF Init
  <2>3. \A j \in Inst : \A c \in DOMAIN commits : ~AddsTo(ch, j, c) /\ ~RemovesFrom(ch, j, c)
    BY <1>3 DEF AddsTo, RemovesFrom
  <2>4. QED  BY <2>1, <2>2, <2>3 DEF Membership, Sent, Alternates, InOrder, Obeyed
<1>12. Quiet  BY <1>1, QuietInit
<1>13. NoFalseAlarm  BY <1>1 DEF Init, NoFalseAlarm
<1>14. QED  BY <1>7, <1>9, <1>10, <1>11, <1>12, <1>13 DEF AlarmInv, OneChain

(* In a group that its creator administers nobody is declared forked       *)
(* while no installation has diverged, whatever the removals, returns,     *)
(* lost races, republished entries and crashes: every epoch anyone         *)
(* recorded, published or saved is one of the one chain, and nobody reads  *)
(* a welcome into an epoch it has left behind.                             *)
(* (check_conversation_fork_state.)                                        *)
THEOREM NobodyFalselyForked == ASSUME Admins = {Creator} PROVE Spec => []NoFalseAlarm
<1>1. Init => TypeInv /\ AlarmInv  BY TypeInit, AlarmInit
<1>2. TypeInv /\ AlarmInv /\ [Next]_vars => (TypeInv /\ AlarmInv)'  BY TypeStep, AlarmStep
<1>3. TypeInv /\ AlarmInv => NoFalseAlarm  BY DEF AlarmInv, NoFalseAlarm
<1>4. QED  BY <1>1, <1>2, <1>3, PTL DEF Spec

-----------------------------------------------------------------------------
(* The same consensus through crashes, when the creator alone publishes *)

(* The creator's local log: one epoch after the other, none left out.      *)
Succeeds(p, r) ==
  /\ r.type \in {"Applied", "Failed"} /\ r.seq # 0
  /\ IF r.type = "Failed" THEN r.applied = p.applied
     ELSE r.last = p.applied /\ Len(r.applied) = Len(p.applied) + 1

CreatorLog ==
  LET own == rows[Creator]
  IN  /\ Len(own) > 1 /\ Increasing(own)
      /\ \A n \in 2..Len(own) : Succeeds(own[n - 1], own[n])
      /\ Last(own).seq <= mls[Creator].cursor /\ Last(own).applied = mls[Creator].hist
      /\ mls[Creator].active /\ welcomes[Creator] = {}

(* The creator stays in the group, and only its key is ever shared. *)
CreatorCommits ==
  \A c \in DOMAIN commits :
    /\ Creator \notin commits[c].removes /\ (c > 1 => Creator \notin commits[c].adds)
    /\ commits[c].key \in {None, Creator}

(* Row n of the creator, as it is published and as it is saved. *)
EntryOf(n) ==
  [seq |-> rows[Creator][n].seq, ok |-> Success(rows[Creator][n]),
   last |-> rows[Creator][n].last, applied |-> rows[Creator][n].applied, key |-> Creator]
CopyOf(n) ==
  [seq |-> rows[Creator][n].seq, ok |-> Success(rows[Creator][n]),
   applied |-> rows[Creator][n].applied]

(* A row is published, again perhaps, when the one before it was. *)
Publishing(k, n) ==
  /\ n \in 2..Len(rows[Creator]) /\ log[k] = EntryOf(n)
  /\ n = 2 \/ \E j \in 1..k - 1 : log[j] = EntryOf(n - 1)

LogCopies ==
  /\ \A k \in DOMAIN log : \E n \in 2..Len(rows[Creator]) : Publishing(k, n)
  /\ \A n \in 2..cur[Creator].upload : \E k \in DOMAIN log : log[k] = EntryOf(n)

OneKey ==
  /\ log # <<>> => keys[Creator].signer = Creator
  /\ keys[Creator].signer \in {None, Creator}
  /\ \A i \in Inst : keys[i].consensus \in {None, Creator}
                     /\ (keys[i].consensus # None => log # <<>>)

(* What was saved is the beginning of the creator's log, and has the rows  *)
(* of all the entries before the cursor.                                   *)
IsCopy(s) == Len(s) < Len(rows[Creator]) /\ \A m \in 1..Len(s) : s[m] = CopyOf(m + 1)
Covers(s, d) == \A k \in 1..d : \E m \in 1..Len(s) : log[k] = EntryOf(m + 1)

SavedCopies == \A i \in Inst : IsCopy(remote[i]) /\ Covers(remote[i], cur[i].download)

CopyInv == CreatorLog /\ CreatorCommits /\ LogCopies /\ OneKey /\ SavedCopies

LEMMA CreatorRows ==
  ASSUME TypeInv, CreatorLog
  PROVE  /\ Creator \in Inst /\ rows[Creator] \in Seq(LocalRow)
         /\ Len(rows[Creator]) \in Nat /\ Len(rows[Creator]) > 1
         /\ \A n \in 1..Len(rows[Creator]) : rows[Creator][n] \in LocalRow /\ rows[Creator][n].seq \in Nat
         /\ \A m, n \in 1..Len(rows[Creator]) : m < n => rows[Creator][m].seq < rows[Creator][n].seq
<1>1. Creator \in Inst  BY InstAssumption
<1>2. rows[Creator] \in Seq(LocalRow)  BY <1>1 DEF TypeInv, LogTypes
<1>3. PICK own : own = rows[Creator]  OBVIOUS
<1>4. own \in Seq(LocalRow) /\ Len(own) \in Nat /\ Len(own) > 1 /\ DOMAIN own = 1..Len(own)
      /\ \A n \in 1..Len(own) : own[n] \in LocalRow
  BY <1>2, <1>3 DEF CreatorLog
<1>5. \A n \in 1..Len(own) : own[n].seq \in Nat  BY <1>4 DEF LocalRow
<1>6. \A m, n \in 1..Len(own) : m < n => own[m].seq < own[n].seq
  BY <1>3, <1>4 DEF CreatorLog, Increasing
<1>7. QED  BY <1>1, <1>3, <1>4, <1>5, <1>6

(* Saving one more entry: the next row of the creator is kept, and one     *)
(* that was saved before is skipped.                                       *)
LEMMA SaveCopy ==
  ASSUME TypeInv, CreatorLog, NEW s \in Seq(SavedRow), IsCopy(s), NEW n \in 2..Len(rows[Creator]),
         n <= Len(s) + 2
  PROVE  LET t == Save(s, EntryOf(n), Creator)
         IN t \in Seq(SavedRow) /\ IsCopy(t) /\ Len(s) <= Len(t) /\ n <= Len(t) + 1
<1>0. PICK own, len : own = rows[Creator] /\ len = Len(s)  OBVIOUS
<1>1. /\ own \in Seq(LocalRow) /\ Len(own) \in Nat /\ Len(own) > 1
      /\ \A k \in 1..Len(own) : own[k] \in LocalRow /\ own[k].seq \in Nat
      /\ \A k, m \in 1..Len(own) : k < m => own[k].seq < own[m].seq
  BY <1>0, CreatorRows
<1>2. /\ len \in Nat /\ len < Len(own) /\ DOMAIN s = 1..len
      /\ \A m \in 1..len : s[m] = CopyOf(m + 1)
  BY <1>0 DEF IsCopy
<1>3. n \in Nat /\ n \in 1..Len(own) /\ n - 1 \in 1..Len(own) /\ n > 1  BY <1>0, <1>1
<1>4. PICK e : e = EntryOf(n)  OBVIOUS
<1>5. /\ e.seq = own[n].seq /\ e.ok = Success(own[n]) /\ e.last = own[n].last
      /\ e.applied = own[n].applied /\ e.key = Creator
  BY <1>0, <1>4 DEF EntryOf
<1>6. CASE n <= len + 1
  <2>1. s # <<>> /\ Last(s) = s[len]  BY <1>0, <1>2, <1>3, <1>6 DEF Last
  <2>2. len \in 1..len /\ len + 1 \in 1..Len(own)  BY <1>2, <1>3, <1>6
  <2>3. s[len].seq = own[len + 1].seq
    <3>1. s[len] = CopyOf(len + 1)  BY <1>2, <2>2
    <3>2. QED  BY <1>0, <3>1 DEF CopyOf
  <2>4. e.seq <= s[len].seq
    <3>1. CASE n = len + 1  BY <1>1, <1>5, <2>2, <2>3, <3>1
    <3>2. CASE n # len + 1
      <4>1. n < len + 1  BY <1>2, <1>3, <1>6, <3>2
      <4>2. own[n].seq < own[len + 1].seq  BY <1>1, <1>3, <2>2, <4>1
      <4>3. QED  BY <1>1, <1>3, <1>5, <2>2, <2>3, <4>2
    <3>3. QED  BY <3>1, <3>2
  <2>5. Skip(s, e, Creator)  BY <2>1, <2>4 DEF Skip
  <2>6. Save(s, e, Creator) = s  BY <2>5 DEF Save
  <2>7. QED  BY <1>0, <1>2, <1>4, <1>6, <2>6
<1>7. CASE ~(n <= len + 1)
  <2>1. n = len + 2  BY <1>0, <1>2, <1>3, <1>7
  <2>2. Succeeds(own[n - 1], own[n])  BY <1>0, <1>3 DEF CreatorLog
  <2>3. ~Skip(s, e, Creator)
    <3>1. CASE s = <<>>  BY <1>5, <3>1 DEF Skip
    <3>2. CASE s # <<>>
      <4>1. len > 0 /\ len \in 1..len /\ Last(s) = s[len] /\ len + 1 = n - 1
        BY <1>0, <1>2, <2>1, <3>2 DEF Last
      <4>2. s[len] = CopyOf(n - 1)  BY <1>2, <4>1
      <4>3. PICK p : p = own[n - 1]  OBVIOUS
      <4>4. s[len].seq = p.seq /\ s[len].applied = p.applied  BY <1>0, <4>2, <4>3 DEF CopyOf
      <4>5. ~(e.seq <= s[len].seq)
        <5>1. p.seq < own[n].seq /\ p.seq \in Nat /\ own[n].seq \in Nat  BY <1>1, <1>3, <4>3
        <5>2. QED  BY <1>5, <4>4, <5>1
      <4>6. e.ok => e.last = p.applied /\ Len(e.applied) = Len(p.applied) + 1
        BY <1>5, <2>2, <4>3 DEF Succeeds, Success
      <4>7. ~e.ok => e.applied = p.applied  BY <1>5, <2>2, <4>3 DEF Succeeds, Success
      <4>8. QED  BY <1>5, <3>2, <4>1, <4>4, <4>5, <4>6, <4>7 DEF Skip
    <3>3. QED  BY <3>1, <3>2
  <2>4. PICK x : x = [seq |-> e.seq, ok |-> e.ok, applied |-> e.applied]  OBVIOUS
  <2>5. x = CopyOf(n)  BY <1>0, <1>5, <2>4 DEF CopyOf
  <2>6. x \in SavedRow
    <3>1. own[n] \in LocalRow /\ Success(own[n]) \in BOOLEAN  BY <1>1, <1>3 DEF Success
    <3>2. QED  BY <1>5, <2>4, <3>1 DEF LocalRow, SavedRow
  <2>7. PICK t : t = Append(s, x)  OBVIOUS
  <2>8. Save(s, e, Creator) = t  BY <2>3, <2>4, <2>7 DEF Save
  <2>9. /\ t \in Seq(SavedRow) /\ Len(t) = len + 1 /\ t[len + 1] = x
        /\ \A k \in 1..len : t[k] = s[k]
    BY <1>0, <2>6, <2>7, Appended
  <2>10. IsCopy(t)
    <3>1. Len(t) < Len(own)  BY <1>1, <1>2, <1>3, <2>1, <2>9
    <3>2. \A m \in 1..Len(t) : m \in 1..len \/ m = len + 1  BY <1>2, <2>9
    <3>3. (len + 1) + 1 = n  BY <1>2, <2>1
    <3>4. \A m \in 1..Len(t) : t[m] = CopyOf(m + 1)  BY <1>2, <2>5, <2>9, <3>2, <3>3
    <3>5. QED  BY <1>0, <3>1, <3>4 DEF IsCopy
  <2>11. len <= Len(t) /\ n <= Len(t) + 1  BY <1>2, <2>1, <2>9
  <2>12. QED  BY <1>0, <1>4, <2>8, <2>9, <2>10, <2>11
<1>8. QED  BY <1>6, <1>7

(* What is left of a page once its first n entries are saved. *)
LEMMA RunCopies ==
  ASSUME TypeInv, CreatorLog, LogCopies, NEW saved \in Seq(SavedRow), IsCopy(saved),
         NEW d \in Nat, Covers(saved, d), NEW page, NEW len \in Nat, IsPage(page, log, d, len),
         d + len <= Len(log), NEW f, IsRun(f, saved, page, Creator, len)
  PROVE  \A n \in 0..len :
           f[n] \in Seq(SavedRow) /\ IsCopy(f[n]) /\ Covers(f[n], d + n)
<1> DEFINE P(n) == f[n] \in Seq(SavedRow) /\ IsCopy(f[n]) /\ Covers(f[n], d + n)
           Bad == {n \in 0..len : ~P(n)}
<1>1. SUFFICES ASSUME Bad # {} PROVE FALSE  OBVIOUS
<1>2. PICK n : n = Min(Bad)  OBVIOUS
<1>3. n \in Bad /\ \A m \in Bad : n <= m
  <2>1. Bad \subseteq Nat  OBVIOUS
  <2> HIDE DEF Bad
  <2>2. QED  BY <1>1, <1>2, <2>1, Least
<1>4. n # 0
  <2>1. f[0] = saved /\ d + 0 = d  BY DEF IsRun
  <2>2. P(0)  BY <2>1
  <2>3. QED  BY <1>3, <2>2
<1>5. n - 1 \in 0..len /\ n \in 1..len /\ n - 1 \notin Bad  BY <1>3, <1>4
<1>6. P(n - 1)  BY <1>5
<1>7. PICK s, t, k : s = f[n - 1] /\ t = f[n] /\ k = d + n  OBVIOUS
<1>8. s \in Seq(SavedRow) /\ IsCopy(s) /\ Covers(s, k - 1)
  <2>1. d + (n - 1) = k - 1  BY <1>5, <1>7
  <2>2. QED  BY <1>6, <1>7, <2>1
<1>9. k \in DOMAIN log /\ k \in Nat /\ k > 0
  <2>1. log \in Seq(Entry)  BY DEF TypeInv, NetTypes
  <2>2. QED  BY <1>5, <1>7, <2>1
<1>10. t = Save(s, log[k], Creator)  BY <1>5, <1>7 DEF IsRun, IsPage
<1>11. PICK x \in 2..Len(rows[Creator]) : Publishing(k, x)  BY <1>9 DEF LogCopies
<1>12. Len(s) \in Nat /\ Len(s) < Len(rows[Creator])  BY <1>8 DEF IsCopy
<1>13. x <= Len(s) + 2
  <2>1. CASE x = 2  BY <1>12, <2>1
  <2>2. CASE x # 2
    <3>1. PICK j \in 1..k - 1 : log[j] = EntryOf(x - 1)  BY <1>11, <2>2 DEF Publishing
    <3>2. PICK m \in 1..Len(s) : log[j] = EntryOf(m + 1)  BY <1>8, <3>1 DEF Covers
    <3>3. rows[Creator][x - 1].seq = rows[Creator][m + 1].seq
      <4>1. PICK p, q : p = x - 1 /\ q = m + 1  OBVIOUS
      <4>2. EntryOf(p) = EntryOf(q)  BY <3>1, <3>2, <4>1
      <4>3. EntryOf(p).seq = rows[Creator][p].seq /\ EntryOf(q).seq = rows[Creator][q].seq
        BY DEF EntryOf
      <4>4. QED  BY <4>1, <4>2, <4>3
    <3>4. x - 1 \in 1..Len(rows[Creator]) /\ m + 1 \in 1..Len(rows[Creator])
      <4>1. Len(rows[Creator]) \in Nat  BY CreatorRows
      <4>2. QED  BY <1>11, <1>12, <3>2, <4>1
    <3>5. x - 1 = m + 1
      <4>1. PICK p, q : p = x - 1 /\ q = m + 1  OBVIOUS
      <4>2. p \in Nat /\ q \in Nat /\ p \in 1..Len(rows[Creator]) /\ q \in 1..Len(rows[Creator])
        BY <3>4, <4>1
      <4>3. rows[Creator][p].seq \in Nat /\ rows[Creator][q].seq \in Nat
            /\ rows[Creator][p].seq = rows[Creator][q].seq
        BY <3>3, <4>1, <4>2, CreatorRows
      <4>4. ~(p < q) /\ ~(q < p)
        <5>1. p < q => rows[Creator][p].seq < rows[Creator][q].seq  BY <4>2, CreatorRows
        <5>2. q < p => rows[Creator][q].seq < rows[Creator][p].seq  BY <4>2, CreatorRows
        <5>3. QED  BY <4>3, <5>1, <5>2
      <4>5. QED  BY <4>1, <4>2, <4>4
    <3>6. QED  BY <1>11, <1>12, <3>2, <3>5
  <2>3. QED  BY <2>1, <2>2
<1>14. t \in Seq(SavedRow) /\ IsCopy(t) /\ Len(s) <= Len(t) /\ x <= Len(t) + 1
  BY <1>8, <1>10, <1>11, <1>13, SaveCopy DEF Publishing
<1>15. Covers(t, k)
  <2>1. Len(t) \in Nat  BY <1>14
  <2>2. ASSUME NEW j \in 1..k PROVE \E m \in 1..Len(t) : log[j] = EntryOf(m + 1)
    <3>1. CASE j = k
      <4>1. x - 1 \in 1..Len(t) /\ (x - 1) + 1 = x  BY <1>11, <1>14, <2>1
      <4>2. log[k] = EntryOf(x)  BY <1>11 DEF Publishing
      <4>3. QED  BY <3>1, <4>1, <4>2
    <3>2. CASE j # k
      <4>1. j \in 1..k - 1  BY <1>9, <3>2
      <4>2. PICK m \in 1..Len(s) : log[j] = EntryOf(m + 1)  BY <1>8, <4>1 DEF Covers
      <4>3. m \in 1..Len(t)  BY <1>12, <1>14, <2>1, <4>2
      <4>4. QED  BY <4>2, <4>3
    <3>3. QED  BY <3>1, <3>2
  <2>3. QED  BY <2>2 DEF Covers
<1>16. P(n)  BY <1>7, <1>14, <1>15
<1>17. QED  BY <1>3, <1>16

LEMMA CopiesAgree ==
  ASSUME TypeInv, CopyInv
  PROVE  ConsensusAgrees
<1>1. SUFFICES ASSUME NEW i \in Inst, NEW j \in Inst
      PROVE /\ IsPrefix(remote[i], remote[j]) \/ IsPrefix(remote[j], remote[i])
            /\ \/ {keys[i].consensus, keys[j].consensus} \ {None} = {}
               \/ \E k \in Inst : {keys[i].consensus, keys[j].consensus} \subseteq {k, None}
            /\ \A m, n \in DOMAIN remote[i] : m < n => remote[i][m].seq < remote[i][n].seq
  BY DEF ConsensusAgrees
<1>2. \A x \in Inst : remote[x] \in Seq(SavedRow) /\ Len(remote[x]) \in Nat /\ IsCopy(remote[x])
  BY DEF TypeInv, LogTypes, CopyInv, SavedCopies
<1>3. CreatorLog  BY DEF CopyInv
<1>4. ASSUME NEW x \in Inst, NEW y \in Inst, Len(remote[x]) <= Len(remote[y])
      PROVE  IsPrefix(remote[x], remote[y])
  <2>1. \A m \in 1..Len(remote[x]) : m \in 1..Len(remote[y])  BY <1>2, <1>4
  <2>2. \A m \in 1..Len(remote[x]) : remote[y][m] = remote[x][m]  BY <1>2, <2>1 DEF IsCopy
  <2>3. Extends(remote[x], remote[y])  BY <1>4, <2>2 DEF Extends
  <2>4. QED  BY <1>2, <2>3, ExtendsIsPrefix
<1>5. IsPrefix(remote[i], remote[j]) \/ IsPrefix(remote[j], remote[i])
  <2>1. Len(remote[i]) <= Len(remote[j]) \/ Len(remote[j]) <= Len(remote[i])  BY <1>2
  <2>2. QED  BY <1>4, <2>1
<1>6. {keys[i].consensus, keys[j].consensus} \subseteq {Creator, None} /\ Creator \in Inst
  BY InstAssumption DEF CopyInv, OneKey
<1>7. ASSUME NEW m \in DOMAIN remote[i], NEW n \in DOMAIN remote[i], m < n
      PROVE  remote[i][m].seq < remote[i][n].seq
  <2>1. PICK s, own : s = remote[i] /\ own = rows[Creator]  OBVIOUS
  <2>2. m \in 1..Len(s) /\ n \in 1..Len(s) /\ Len(s) \in Nat  BY <1>2, <2>1
  <2>3. PICK p, q : p = m + 1 /\ q = n + 1  OBVIOUS
  <2>4. Len(own) \in Nat /\ Len(s) < Len(own)  BY <1>2, <1>3, <2>1, CreatorRows DEF IsCopy
  <2>5. p \in 1..Len(own) /\ q \in 1..Len(own) /\ p < q  BY <1>7, <2>2, <2>3, <2>4
  <2>6. own[p].seq < own[q].seq  BY <1>3, <2>1, <2>5, CreatorRows
  <2>7. s[m] = CopyOf(p) /\ s[n] = CopyOf(q)  BY <1>2, <2>1, <2>2, <2>3 DEF IsCopy
  <2>8. QED  BY <2>1, <2>6, <2>7 DEF CopyOf
<1>8. QED  BY <1>5, <1>6, <1>7

LEMMA CopyInit == Init => CopyInv
<1>1. SUFFICES ASSUME Init PROVE CopyInv  OBVIOUS
<1>2. PICK r, s : r = Row("GroupCreation", 0, <<>>, <<>>) /\ s = Row("Applied", 1, <<>>, <<1>>)
  OBVIOUS
<1>3. /\ r.seq = 0 /\ r.applied = <<>>
      /\ s.type = "Applied" /\ s.seq = 1 /\ s.last = <<>> /\ s.applied = <<1>>
  BY <1>2 DEF Row
<1>4. Creator \in Inst /\ rows[Creator] = <<r, s>>  BY <1>1, <1>2, InstAssumption DEF Init
<1>5. CreatorLog
  <2>1. PICK own : own = <<r, s>>  OBVIOUS
  <2>2. /\ Len(own) = 2 /\ DOMAIN own = 1..2 /\ own[1] = r /\ own[2] = s /\ Last(own) = s
    BY <2>1 DEF Last
  <2>3. Increasing(own)
    <3>1. ASSUME NEW m \in 1..2, NEW n \in 1..2, m < n PROVE own[m].seq < own[n].seq
      <4>1. m = 1 /\ n = 2  BY <3>1
      <4>2. QED  BY <1>3, <2>2, <4>1
    <3>2. QED  BY <2>2, <3>1 DEF Increasing
  <2>4. \A n \in 2..Len(own) : Succeeds(own[n - 1], own[n])
    <3>1. \A n \in 2..Len(own) : n = 2 /\ n - 1 = 1  BY <2>2
    <3>2. Len(<<1>>) = Len(<<>>) + 1  OBVIOUS
    <3>3. Succeeds(r, s)  BY <1>3, <3>2 DEF Succeeds
    <3>4. QED  BY <2>2, <3>1, <3>3
  <2>5. mls[Creator].hist = <<1>> /\ mls[Creator].cursor = 1 /\ mls[Creator].active
        /\ welcomes[Creator] = {}
    BY <1>1, <1>4 DEF Init
  <2>6. QED  BY <1>3, <1>4, <2>1, <2>2, <2>3, <2>4, <2>5 DEF CreatorLog
<1>6. CreatorCommits
  <2>1. PICK x : x = [by |-> Creator, base |-> <<>>, removes |-> {}, adds |-> Inst, key |-> None]
    OBVIOUS
  <2>2. commits = <<x>>  BY <1>1, <2>1 DEF Init
  <2>3. DOMAIN commits = {1} /\ commits[1].removes = {} /\ commits[1].key = None  BY <2>1, <2>2
  <2>4. QED  BY <2>3 DEF CreatorCommits
<1>7. log = <<>> /\ \A i \in Inst : /\ remote[i] = <<>> /\ cur[i].download = 0 /\ cur[i].upload = 0
                                    /\ keys[i].signer = None /\ keys[i].consensus = None
  BY <1>1 DEF Init
<1>8. LogCopies /\ OneKey  BY <1>4, <1>7 DEF LogCopies, OneKey
<1>9. SavedCopies
  <2>1. Len(rows[Creator]) = 2 /\ Len(<<>>) = 0  BY <1>4
  <2>2. IsCopy(<<>>) /\ Covers(<<>>, 0)  BY <2>1 DEF IsCopy, Covers
  <2>3. QED  BY <1>7, <2>2 DEF SavedCopies
<1>10. QED  BY <1>5, <1>6, <1>8, <1>9 DEF CopyInv

(* The logs stay copies while the creator's own log grows and nothing is   *)
(* published or saved.                                                     *)
LEMMA CopiesStay ==
  ASSUME TypeInv, CreatorLog, LogCopies, OneKey, SavedCopies,
         UNCHANGED <<log, remote, keys>>, Extends(rows[Creator], rows'[Creator]),
         rows'[Creator] \in Seq(LocalRow),
         cur'[Creator].upload = cur[Creator].upload,
         \A i \in Inst : cur'[i].download = cur[i].download
  PROVE  LogCopies' /\ OneKey' /\ SavedCopies'
<1>1. PICK own, new : own = rows[Creator] /\ new = rows'[Creator]  OBVIOUS
<1>2. /\ Len(own) \in Nat /\ Len(new) \in Nat /\ Len(own) <= Len(new)
      /\ \A n \in 1..Len(own) : new[n] = own[n]
  BY <1>1, CreatorRows DEF Extends
<1>3. \A n \in 1..Len(own) : EntryOf(n)' = EntryOf(n) /\ CopyOf(n)' = CopyOf(n)
  <2>1. ASSUME NEW n \in 1..Len(own) PROVE rows'[Creator][n] = rows[Creator][n]
    BY <1>1, <1>2
  <2>2. QED  BY <1>1, <2>1 DEF EntryOf, CopyOf, Success
<1>4. \A n \in 2..Len(own) : n \in 1..Len(own) /\ n - 1 \in 1..Len(own) /\ n \in 2..Len(new)
  BY <1>2
<1>5. ASSUME NEW k \in DOMAIN log, NEW n \in 2..Len(own), Publishing(k, n)
      PROVE  n \in 2..Len(new) /\ Publishing(k, n)'
  <2>1. EntryOf(n)' = EntryOf(n) /\ EntryOf(n - 1)' = EntryOf(n - 1) /\ n \in 2..Len(rows'[Creator])
    BY <1>1, <1>3, <1>4
  <2>2. QED  BY <1>1, <1>5, <2>1 DEF Publishing
<1>6. LogCopies'
  <2>1. \A k \in DOMAIN log : \E n \in 2..Len(new) : Publishing(k, n)'
    <3>1. ASSUME NEW k \in DOMAIN log PROVE \E n \in 2..Len(new) : Publishing(k, n)'
      <4>1. PICK n \in 2..Len(own) : Publishing(k, n)  BY <1>1 DEF LogCopies
      <4>2. QED  BY <1>5, <4>1
    <3>2. QED  BY <3>1
  <2>2. ASSUME NEW n \in 2..cur[Creator].upload PROVE \E k \in DOMAIN log : log[k] = EntryOf(n)'
    <3>1. PICK k \in DOMAIN log : log[k] = EntryOf(n)  BY DEF LogCopies
    <3>2. n \in 1..Len(own)
      <4>1. cur[Creator].upload <= Len(own) /\ cur[Creator].upload \in Nat
        BY <1>1, CreatorRows DEF TypeInv, LogTypes, Cursors
      <4>2. QED  BY <1>2, <4>1
    <3>3. QED  BY <1>3, <3>1, <3>2
  <2>3. PICK u : u = cur[Creator].upload  OBVIOUS
  <2>4. \A n \in 2..u : \E k \in DOMAIN log' : log'[k] = EntryOf(n)'  BY <2>2, <2>3
  <2>5. \A n \in 2..cur'[Creator].upload : \E k \in DOMAIN log' : log'[k] = EntryOf(n)'
    BY <2>3, <2>4
  <2>6. \A k \in DOMAIN log' : \E n \in 2..Len(rows'[Creator]) : Publishing(k, n)'
    BY <1>1, <2>1
  <2>7. QED  BY <2>5, <2>6 DEF LogCopies
<1>7. OneKey'  BY DEF OneKey
<1>8. SavedCopies'
  <2>1. ASSUME NEW i \in Inst
        PROVE  IsCopy(remote[i])' /\ Covers(remote[i], cur[i].download)'
    <3>1. PICK s, d : s = remote[i] /\ d = cur[i].download  OBVIOUS
    <3>2. IsCopy(s) /\ Covers(s, d)  BY <3>1 DEF SavedCopies
    <3>3. Len(s) \in Nat /\ Len(s) < Len(own)
      BY <1>1, <3>1, <3>2 DEF IsCopy, TypeInv, LogTypes
    <3>4. \A m \in 1..Len(s) : m + 1 \in 1..Len(own)  BY <1>2, <3>3
    <3>5. Len(s) < Len(new) /\ \A m \in 1..Len(s) : s[m] = CopyOf(m + 1)'
      BY <1>2, <1>3, <3>2, <3>3, <3>4 DEF IsCopy
    <3>6. \A k \in 1..d : \E m \in 1..Len(s) : log[k] = EntryOf(m + 1)'
      BY <1>3, <3>2, <3>4 DEF Covers
    <3>7. remote'[i] = s /\ cur'[i].download = d  BY <3>1
    <3>8. IsCopy(remote[i])'  BY <1>1, <3>5, <3>7 DEF IsCopy
    <3>9. Covers(remote[i], cur[i].download)'  BY <3>6, <3>7 DEF Covers
    <3>10. QED  BY <3>8, <3>9
  <2>2. QED  BY <2>1 DEF SavedCopies
<1>9. QED  BY <1>6, <1>7, <1>8

(* A commit that leaves the creator in its group and shares its key alone. *)
CreatorSafe ==
  \/ UNCHANGED commits
  \/ \E x \in GroupCommit :
       /\ commits' = Append(commits, x)
       /\ Creator \notin x.removes \cup x.adds /\ x.key \in {None, Creator}

LEMMA CommitsStay ==
  ASSUME TypeInv, CreatorCommits, CreatorSafe
  PROVE  CreatorCommits'
<1>1. CASE UNCHANGED commits  BY <1>1 DEF CreatorCommits
<1>2. CASE ~UNCHANGED commits
  <2>1. PICK x \in GroupCommit :
          /\ commits' = Append(commits, x)
          /\ Creator \notin x.removes \cup x.adds /\ x.key \in {None, Creator}
    BY <1>2 DEF CreatorSafe
  <2>2. PICK cs : cs = commits'  OBVIOUS
  <2>3. commits \in Seq(GroupCommit) /\ Len(commits) \in Nat /\ DOMAIN commits = 1..Len(commits)
    BY DEF TypeInv, NetTypes
  <2>4. /\ DOMAIN cs = 1..Len(commits) + 1 /\ cs[Len(commits) + 1] = x
        /\ \A k \in 1..Len(commits) : cs[k] = commits[k]
    BY <2>1, <2>2, <2>3, Appended
  <2>5. \A c \in DOMAIN cs : c \in DOMAIN commits \/ c = Len(commits) + 1  BY <2>3, <2>4
  <2>6. \A c \in DOMAIN cs : /\ Creator \notin cs[c].removes /\ (c > 1 => Creator \notin cs[c].adds)
                             /\ cs[c].key \in {None, Creator}
    BY <2>1, <2>3, <2>4, <2>5 DEF CreatorCommits
  <2>7. QED  BY <2>2, <2>6 DEF CreatorCommits
<1>3. QED  BY <1>1, <1>2

LEMMA SafeCommit ==
  ASSUME TypeInv, NEW i \in Inst, NEW removes \in SUBSET Inst, NEW adds \in SUBSET Inst,
         Creator \notin removes \cup adds, NEW key \in {None, Creator},
         commits' = Append(commits, Commit(i, removes, adds, key))
  PROVE  CreatorSafe
<1>1. PICK x : x = Commit(i, removes, adds, key)  OBVIOUS
<1>2. key \in Key  BY InstAssumption DEF Key
<1>3. x \in GroupCommit /\ x.removes = removes /\ x.adds = adds  BY <1>1, <1>2, NewCommit
<1>4. x.key = key  BY <1>1 DEF Commit
<1>5. QED  BY <1>1, <1>3, <1>4 DEF CreatorSafe

LEMMA SafeProposal ==
  ASSUME TypeInv, NEW i \in Inst, Propose(i)
  PROVE  CreatorSafe
<1>1. \E removes, adds \in SUBSET Inst :
        Creator \notin removes \cup adds /\ commits' = Append(commits, Commit(i, removes, adds, None))
  <2>1. CASE commits' = Append(commits, Commit(i, {}, {}, None))
    <3>1. PICK none \in SUBSET Inst : none = {}  OBVIOUS
    <3>2. Creator \notin none \cup none /\ commits' = Append(commits, Commit(i, none, none, None))
      BY <2>1, <3>1
    <3>3. QED  BY <3>2
  <2>2. CASE ~(commits' = Append(commits, Commit(i, {}, {}, None)))
    <3>1. PICK j \in Targets \ Admins :
            \/ commits' = Append(commits, Commit(i, {j}, {}, None))
            \/ commits' = Append(commits, Commit(i, {}, {j}, None))
      BY <2>2 DEF Propose
    <3>2. j \in Inst /\ j # Creator  BY InstAssumption, <3>1
    <3>3. Creator \notin {j} \cup {} /\ Creator \notin {} \cup {j}  BY <3>2
    <3>4. {j} \in SUBSET Inst /\ {} \in SUBSET Inst  BY <3>2
    <3>5. QED  BY <3>1, <3>3, <3>4
  <2>3. QED  BY <2>1, <2>2
<1>2. PICK removes, adds \in SUBSET Inst :
        Creator \notin removes \cup adds /\ commits' = Append(commits, Commit(i, removes, adds, None))
  BY <1>1
<1>3. QED  BY <1>2, SafeCommit

LEMMA SafeAnswer ==
  ASSUME TypeInv, Admins = {Creator}, NEW i \in Inst, RespondReadds(i)
  PROVE  CreatorSafe
<1>1. CASE UNCHANGED commits  BY <1>1 DEF CreatorSafe
<1>2. CASE ~UNCHANGED commits
  <2>1. PICK js : js = {j \in {k \in Inst \ {i} : Awaiting(i, k)} : InTree(mls[i].hist, j)}
    OBVIOUS
  <2>2. /\ commits' = Append(commits, Commit(i, js, js, None))
        /\ ~Refused(i, CheckForkState(i))
    BY <1>2, <2>1 DEF RespondReadds
  <2>3. i = Creator  BY <2>2 DEF Refused
  <2>4. js \in SUBSET Inst /\ Creator \notin js \cup js  BY <2>1, <2>3
  <2>5. QED  BY <2>2, <2>4, SafeCommit
<1>3. QED  BY <1>1, <1>2

(* An installation moves on, or a row is added to its log. *)
LEMMA CopyMoved ==
  ASSUME TypeInv, CopyInv, NEW i \in Inst, NEW h, NEW active, NEW c, NEW rs, i # Creator,
         Moved(i, h, active, c, rs), welcomes'[Creator] = {}
  PROVE  CopyInv'
<1>1. Creator \in Inst /\ rows \in [Inst -> Seq(LocalRow)]
  BY InstAssumption DEF TypeInv, LogTypes
<1>2. /\ rows'[Creator] = rows[Creator] /\ mls'[Creator] = mls[Creator]
      /\ UNCHANGED <<commits, log, remote, cur, keys>>
  BY <1>1 DEF Moved
<1>3. CreatorLog'  BY <1>2 DEF CopyInv, CreatorLog
<1>4. CreatorCommits'  BY <1>2 DEF CopyInv, CreatorCommits
<1>5. Extends(rows[Creator], rows'[Creator]) /\ rows'[Creator] \in Seq(LocalRow)
  BY <1>1, <1>2 DEF Extends
<1>6. QED  BY <1>2, <1>3, <1>4, <1>5, CopiesStay DEF CopyInv

(* The creator records every commit it processes.                          *)
LEMMA CreatorReceives ==
  ASSUME TypeInv, CopyInv, NEW accept \in BOOLEAN, Receive(Creator, accept)
  PROVE  \E r \in LocalRow, g \in Hist :
           /\ Moved(Creator, g, TRUE, mls[Creator].cursor + 1, Append(rows[Creator], r))
           /\ r.seq = mls[Creator].cursor + 1 /\ r.applied = g
           /\ Succeeds(Last(rows[Creator]), r)
           /\ g = mls[Creator].hist \/ g = Append(mls[Creator].hist, mls[Creator].cursor + 1)
<1>0. PICK c, h : c = mls[Creator].cursor + 1 /\ h = mls[Creator].hist  OBVIOUS
<1>1. /\ c \in DOMAIN commits /\ h \in Hist /\ Creator \in Inst
      /\ Leaves(Creator, c, h) \/ Advances(Creator, c, h) \/ Fails(Creator, c, h)
  BY <1>0, InstAssumption, ReceiveCases
<1>2. c \in Nat /\ c > 1
  <2>1. commits \in Seq(GroupCommit) /\ mls[Creator].cursor \in DOMAIN commits
    BY <1>1 DEF TypeInv, NetTypes, Histories
  <2>2. QED  BY <1>0, <1>1, <2>1
<1>3. PICK own : own = rows[Creator]  OBVIOUS
<1>4. own \in Seq(LocalRow) /\ Len(own) \in Nat /\ Len(own) > 1 /\ Len(own) \in 2..Len(own)
  BY <1>3, CreatorRows DEF CopyInv
<1>5. PICK p : p = Last(own)  OBVIOUS
<1>6. /\ p = own[Len(own)] /\ p.applied = h
      /\ Succeeds(own[Len(own) - 1], own[Len(own)])
  BY <1>0, <1>3, <1>4, <1>5 DEF CopyInv, CreatorLog, Last
<1> SUFFICES \E r \in LocalRow, g \in Hist :
               /\ Moved(Creator, g, TRUE, c, Append(own, r))
               /\ r.seq = c /\ r.applied = g /\ Succeeds(p, r) /\ (g = h \/ g = Append(h, c))
  BY <1>0, <1>3, <1>5
<1>7. CASE Advances(Creator, c, h)
  <2>1. PICK g : g = Append(h, c)  OBVIOUS
  <2>2. g \in Hist /\ Len(g) = Len(h) + 1  BY <1>1, <1>2, <2>1, Appended DEF Hist
  <2>3. PICK r : r = Row("Applied", c, h, g)  OBVIOUS
  <2>4. r \in LocalRow /\ r.type = "Applied" /\ r.seq = c /\ r.last = h /\ r.applied = g
    BY <1>1, <1>2, <2>2, <2>3, RowTypes DEF CommitType
  <2>5. Succeeds(p, r)  BY <1>2, <1>6, <2>2, <2>4 DEF Succeeds
  <2>6. Moved(Creator, g, TRUE, c, Append(own, r))  BY <1>3, <1>7, <2>1, <2>3 DEF Advances
  <2>7. QED  BY <2>1, <2>2, <2>4, <2>5, <2>6
<1>8. CASE Fails(Creator, c, h)
  <2>1. PICK r : r = Row("Failed", c, h, h)  OBVIOUS
  <2>2. r \in LocalRow /\ r.type = "Failed" /\ r.seq = c /\ r.applied = h
    BY <1>1, <1>2, <2>1, RowTypes DEF CommitType
  <2>3. Succeeds(p, r)  BY <1>2, <1>6, <2>2 DEF Succeeds
  <2>4. p.type # "Welcome"  BY <1>6 DEF Succeeds
  <2>5. FailedRows(Creator, c) = Append(own, r)
    BY <1>0, <1>3, <1>5, <2>1, <2>4 DEF FailedRows
  <2>6. Moved(Creator, h, TRUE, c, Append(own, r))  BY <1>8, <2>5 DEF Fails
  <2>7. QED  BY <1>1, <2>2, <2>3, <2>6
<1>9. ~Leaves(Creator, c, h)
  <2>1. Creator \notin commits[c].removes  BY <1>1 DEF CopyInv, CreatorCommits
  <2>2. QED  BY <2>1 DEF Leaves
<1>10. QED  BY <1>1, <1>7, <1>8, <1>9

LEMMA CopyReceive ==
  ASSUME TypeInv, CopyInv, NEW i \in Inst, NEW accept \in BOOLEAN, Receive(i, accept)
  PROVE  CopyInv'
<1>0. PICK c, h : c = mls[i].cursor + 1 /\ h = mls[i].hist  OBVIOUS
<1>1. /\ c \in DOMAIN commits /\ h \in Hist /\ mls[i].active
      /\ Leaves(i, c, h) \/ Advances(i, c, h) \/ Fails(i, c, h)
  BY <1>0, ReceiveCases
<1>2. c \in Nat /\ c > 1 /\ mls[i].cursor \in Nat
  <2>1. commits \in Seq(GroupCommit) /\ mls[i].cursor \in DOMAIN commits
    BY DEF TypeInv, NetTypes, Histories
  <2>2. QED  BY <1>0, <1>1, <2>1
<1>3. Creator \notin commits[c].removes /\ Creator \notin commits[c].adds
  BY <1>1, <1>2 DEF CopyInv, CreatorCommits
<1>4. Creator \in Inst /\ welcomes \in [Inst -> SUBSET Nat] /\ welcomes[Creator] = {}
  BY InstAssumption DEF TypeInv, NetTypes, CopyInv, CreatorLog
<1>5. welcomes'[Creator] = {}
  BY <1>1, <1>3, <1>4 DEF Leaves, Advances, Fails
<1>6. CASE i # Creator
  <2>1. \E g, active, rs : Moved(i, g, active, c, rs)
    BY <1>1 DEF Leaves, Advances, Fails
  <2>2. QED  BY <1>5, <1>6, <2>1, CopyMoved
<1>7. CASE i = Creator
  <2>1. PICK own : own = rows[Creator]  OBVIOUS
  <2>2. /\ own \in Seq(LocalRow) /\ Len(own) \in Nat /\ Len(own) > 1
        /\ DOMAIN own = 1..Len(own)
        /\ \A n \in 1..Len(own) : own[n] \in LocalRow /\ own[n].seq \in Nat
        /\ \A m, n \in 1..Len(own) : m < n => own[m].seq < own[n].seq
    BY <2>1, CreatorRows DEF CopyInv
  <2>3. /\ \A n \in 2..Len(own) : Succeeds(own[n - 1], own[n])
        /\ Last(own).seq <= mls[Creator].cursor /\ Last(own).applied = h
    BY <1>0, <1>7, <2>1 DEF CopyInv, CreatorLog
  <2>4. PICK len \in Nat : len = Len(own)  BY <2>2
  <2>5. Last(own) = own[len] /\ len \in 1..len /\ len \in 2..len  BY <2>2, <2>4 DEF Last
  <2>6. PICK r \in LocalRow, g \in Hist :
          /\ Moved(i, g, TRUE, c, Append(own, r)) /\ r.seq = c /\ r.applied = g
          /\ Succeeds(own[len], r)
    BY <1>0, <1>7, <2>1, <2>4, <2>5, CreatorReceives
  <2>7. PICK new : new = Append(own, r)  OBVIOUS
  <2>8. /\ new \in Seq(LocalRow) /\ Len(new) = len + 1 /\ DOMAIN new = 1..len + 1
        /\ new[len + 1] = r /\ \A k \in 1..len : new[k] = own[k]
        /\ Last(new) = r
    BY <2>2, <2>4, <2>6, <2>7, Appended
  <2>9. /\ rows'[Creator] = new /\ mls'[Creator].cursor = c /\ mls'[Creator].hist = g
        /\ mls'[Creator].active /\ UNCHANGED <<commits, log, remote, cur, keys>>
    <3>1. rows \in [Inst -> Seq(LocalRow)]  BY DEF TypeInv, LogTypes
    <3>2. QED  BY <1>4, <1>7, <2>6, <2>7, <3>1 DEF Moved
  <2>10. own[len].seq < c /\ own[len].seq \in Nat
    <3>1. own[len].seq \in Nat  BY <2>2, <2>4, <2>5
    <3>2. QED  BY <1>0, <1>2, <1>7, <2>3, <2>5, <3>1
  <2>11. Increasing(new)
    <3>1. ASSUME NEW m \in 1..len + 1, NEW n \in 1..len + 1, m < n
          PROVE  new[m].seq < new[n].seq
      <4>1. m \in 1..len  BY <2>2, <2>4, <3>1
      <4>2. CASE n \in 1..len  BY <2>2, <2>4, <2>8, <3>1, <4>1, <4>2
      <4>3. CASE n = len + 1
        <5>1. new[m].seq = own[m].seq /\ new[n].seq = c  BY <2>6, <2>8, <4>1, <4>3
        <5>2. own[m].seq <= own[len].seq /\ own[m].seq \in Nat
          <6>1. CASE m = len  BY <2>10, <6>1
          <6>2. CASE m # len
            <7>1. m < len  BY <2>4, <4>1, <6>2
            <7>2. own[m].seq < own[len].seq /\ own[m].seq \in Nat
              BY <2>2, <2>4, <2>5, <4>1, <7>1
            <7>3. QED  BY <2>10, <7>2
          <6>3. QED  BY <6>1, <6>2
        <5>3. QED  BY <1>2, <2>10, <5>1, <5>2
      <4>4. QED  BY <2>2, <2>4, <3>1, <4>2, <4>3
    <3>2. QED  BY <2>8, <3>1 DEF Increasing
  <2>12. \A n \in 2..Len(new) : Succeeds(new[n - 1], new[n])
    <3>1. ASSUME NEW n \in 2..len + 1 PROVE Succeeds(new[n - 1], new[n])
      <4>1. CASE n = len + 1
        <5>1. n - 1 = len  BY <2>2, <2>4, <4>1
        <5>2. QED  BY <2>5, <2>6, <2>8, <4>1, <5>1
      <4>2. CASE n # len + 1
        <5>1. n \in 2..len /\ n \in 1..len /\ n - 1 \in 1..len  BY <2>2, <2>4, <4>2
        <5>2. QED  BY <2>3, <2>4, <2>8, <5>1
      <4>3. QED  BY <4>1, <4>2
    <3>2. QED  BY <2>8, <3>1
  <2>13. CreatorLog'
    <3>1. Len(new) > 1 /\ Last(new).seq <= c /\ Last(new).applied = g
      BY <1>2, <2>2, <2>4, <2>6, <2>8
    <3>2. QED  BY <1>5, <2>9, <2>11, <2>12, <3>1 DEF CreatorLog
  <2>14. CreatorCommits'  BY <2>9 DEF CopyInv, CreatorCommits
  <2>15. Extends(rows[Creator], rows'[Creator]) /\ rows'[Creator] \in Seq(LocalRow)
    <3>1. Len(own) <= Len(new) /\ \A k \in 1..Len(own) : new[k] = own[k]
      BY <2>2, <2>4, <2>8
    <3>2. QED  BY <2>1, <2>8, <2>9, <3>1 DEF Extends
  <2>16. QED  BY <2>9, <2>13, <2>14, <2>15, CopiesStay DEF CopyInv
<1>8. QED  BY <1>6, <1>7

LEMMA CopyWelcome ==
  ASSUME TypeInv, CopyInv, NEW i \in Inst, Welcome(i)
  PROVE  CopyInv'
<1>1. PICK c \in DOMAIN commits, h \in Hist, n \in DOMAIN commits : Joins(i, c, h, n)
  BY WelcomeCases
<1>2. /\ c \in welcomes[i] /\ Moved(i, h, TRUE, n, Append(rows[i], Row("Welcome", 0, <<>>, h)))
      /\ welcomes' = [welcomes EXCEPT ![i] = @ \ {c}]
  BY <1>1 DEF Joins
<1>3. Creator \in Inst /\ welcomes \in [Inst -> SUBSET Nat] /\ welcomes[Creator] = {}
  BY InstAssumption DEF TypeInv, NetTypes, CopyInv, CreatorLog
<1>4. i # Creator /\ welcomes'[Creator] = {}  BY <1>2, <1>3
<1>5. PICK rs : rs = Append(rows[i], Row("Welcome", 0, <<>>, h))  OBVIOUS
<1>6. QED  BY <1>2, <1>4, <1>5, CopyMoved

(* Saving a page of the creator's entries, or the beginning of one.        *)
LEMMA PageCopied ==
  ASSUME TypeInv, CreatorLog, LogCopies, NEW saved \in Seq(SavedRow), IsCopy(saved),
         NEW d \in Nat, Covers(saved, d), NEW page \in Seq(Entry), NEW len \in Nat,
         len = Len(page), IsPage(page, log, d, len), d + len <= Len(log)
  PROVE  LET new == SavePage(saved, page, Creator)
         IN new \in Seq(SavedRow) /\ IsCopy(new) /\ Covers(new, d + len)
<1>1. PICK f : IsRun(f, saved, page, Creator, len) /\ SavePage(saved, page, Creator) = f[len]
  BY SavePageRuns
<1>2. len \in 0..len  OBVIOUS
<1>3. f[len] \in Seq(SavedRow) /\ IsCopy(f[len]) /\ Covers(f[len], d + len)
  BY <1>1, <1>2, RunCopies
<1>4. QED  BY <1>1, <1>3

(* Neither log has changed. *)
LEMMA LogCopiesSame ==
  ASSUME LogCopies, UNCHANGED <<log, rows>>, cur'[Creator].upload = cur[Creator].upload
  PROVE  LogCopies'
<1>1. \A n : EntryOf(n)' = EntryOf(n)  BY DEF EntryOf, Success
<1>2. ASSUME NEW k \in DOMAIN log PROVE \E n \in 2..Len(rows[Creator]) : Publishing(k, n)'
  <2>1. PICK n \in 2..Len(rows[Creator]) : Publishing(k, n)  BY <1>2 DEF LogCopies
  <2>2. Publishing(k, n)'  BY <1>1, <2>1 DEF Publishing
  <2>3. QED  BY <2>2
<1>3. ASSUME NEW n \in 2..cur'[Creator].upload PROVE \E k \in DOMAIN log' : log'[k] = EntryOf(n)'
  BY <1>1 DEF LogCopies
<1>4. QED  BY <1>2, <1>3 DEF LogCopies

SavesCopy(i, new, e) ==
  /\ remote' = [remote EXCEPT ![i] = new] /\ IsCopy(new) /\ Covers(new, e)
  /\ \/ UNCHANGED cur /\ e = cur[i].download
     \/ cur' = [cur EXCEPT ![i].download = e]

LEMMA CopySave ==
  ASSUME TypeInv, CopyInv, NEW i \in Inst, SaveRemoteCommitLog(i)
  PROVE  CopyInv'
<1>0. PICK page, d : page = PageOf(i) /\ d = cur[i].download  OBVIOUS
<1>1. /\ page \in Seq(Entry) /\ d \in Nat /\ Len(page) \in Nat /\ d + Len(page) <= Len(log)
      /\ \A k \in 1..Len(page) : page[k] = log[d + k] /\ d + k \in DOMAIN log
  BY <1>0, PageFacts
<1>2. /\ CreatorLog /\ CreatorCommits /\ LogCopies /\ OneKey /\ SavedCopies /\ Creator \in Inst
      /\ Extends(rows[Creator], rows[Creator]) /\ rows[Creator] \in Seq(LocalRow)
  BY ExtendsSame, InstAssumption DEF CopyInv, TypeInv, LogTypes
<1>3. UNCHANGED <<welcomes, log, mls, rows>>  BY SaveEffect
<1>4. CreatorLog'  BY <1>2, <1>3 DEF CreatorLog
<1>5. CASE page = <<>>
  <2>1. UNCHANGED <<commits, remote, cur, keys>>
    BY <1>0, <1>5 DEF SaveRemoteCommitLog, PageOf
  <2>2. CreatorCommits'  BY <1>2, <2>1 DEF CreatorCommits
  <2>3. QED  BY <1>2, <1>3, <1>4, <2>1, <2>2, CopiesStay DEF CopyInv
<1>6. CASE page # <<>>
  <2>1. PICK key : key = ConsensusKey(i, page)  OBVIOUS
  <2>2. /\ keys' = [keys EXCEPT ![i].consensus = key]
        /\ UNCHANGED commits \/ commits' = Append(commits, Commit(i, {}, {}, key))
        /\ \/ /\ remote' = [remote EXCEPT ![i] = SavePage(remote[i], page, key)]
              /\ cur' = [cur EXCEPT ![i].download = d + Len(page)]
           \/ /\ \E n \in 1..Len(page) :
                   remote' = [remote EXCEPT ![i] = SavePage(remote[i], SubSeq(page, 1, n), key)]
              /\ UNCHANGED cur
    BY <1>0, <1>6, <2>1 DEF SaveRemoteCommitLog, PageOf
  <2>3. 1 \in 1..Len(page) /\ log # <<>>
    <3>1. 1 \in 1..Len(page)  BY <1>1, <1>6
    <3>2. d + 1 \in DOMAIN log  BY <1>1, <3>1
    <3>3. QED  BY <3>1, <3>2
  <2>4. key = Creator
    <3>1. PICK k \in DOMAIN log : page[1] = log[k]  BY <1>1, <2>3
    <3>2. PICK n : log[k] = EntryOf(n)  BY <1>2 DEF LogCopies, Publishing
    <3>3. page[1].key = Creator  BY <3>1, <3>2 DEF EntryOf
    <3>4. keys[i].consensus \in {None, Creator}  BY <1>2 DEF OneKey
    <3>5. QED  BY <2>1, <3>3, <3>4 DEF ConsensusKey
  <2>5. CreatorCommits'
    <3>1. CreatorSafe
      <4>1. CASE UNCHANGED commits  BY <4>1 DEF CreatorSafe
      <4>2. CASE ~UNCHANGED commits
        <5>1. PICK none \in SUBSET Inst : none = {}  OBVIOUS
        <5>2. commits' = Append(commits, Commit(i, none, none, key)) /\ Creator \notin none \cup none
          BY <2>2, <4>2, <5>1
        <5>3. key \in {None, Creator}  BY <2>4
        <5>4. QED  BY <5>2, <5>3, SafeCommit
      <4>3. QED  BY <4>1, <4>2
    <3>2. QED  BY <1>2, <3>1, CommitsStay
  <2>6. OneKey'
    <3>1. keys \in [Inst -> [signer : Key, consensus : Key]]  BY DEF TypeInv, LogTypes
    <3>2. \A j \in Inst : keys'[j].signer = keys[j].signer
      BY <2>2, <3>1
    <3>3. \A j \in Inst : keys'[j].consensus \in {keys[j].consensus, Creator}
      BY <2>2, <2>4, <3>1
    <3>4. \A j \in Inst : keys'[j].consensus \in {None, Creator}  BY <1>2, <3>3 DEF OneKey
    <3>5. QED  BY <1>2, <1>3, <2>3, <3>2, <3>4 DEF OneKey
  <2>7. remote[i] \in Seq(SavedRow) /\ IsCopy(remote[i]) /\ Covers(remote[i], d)
    BY <1>0, <1>2 DEF SavedCopies, TypeInv, LogTypes
  <2>8a. \E new, e : SavesCopy(i, new, e)
    <3>1. PICK len \in Nat : len = Len(page)  BY <1>1
    <3>2. CASE /\ remote' = [remote EXCEPT ![i] = SavePage(remote[i], page, key)]
               /\ cur' = [cur EXCEPT ![i].download = d + Len(page)]
      <4>1. PICK new : new = SavePage(remote[i], page, Creator)  OBVIOUS
      <4>2. IsPage(page, log, d, len)  BY <1>1, <3>1 DEF IsPage
      <4>3. d + len <= Len(log) /\ d + len \in Nat  BY <1>1, <3>1
      <4>4. IsCopy(new) /\ Covers(new, d + len)
        BY <1>1, <1>2, <2>7, <3>1, <4>1, <4>2, <4>3, PageCopied
      <4>5. PICK e : e = d + len  OBVIOUS
      <4>6. remote' = [remote EXCEPT ![i] = new] /\ cur' = [cur EXCEPT ![i].download = e]
        BY <2>4, <3>1, <3>2, <4>1, <4>5
      <4>7. SavesCopy(i, new, e)  BY <4>4, <4>5, <4>6 DEF SavesCopy
      <4>8. QED  BY <4>7
    <3>3. CASE /\ \E n \in 1..Len(page) :
                    remote' = [remote EXCEPT ![i] = SavePage(remote[i], SubSeq(page, 1, n), key)]
               /\ UNCHANGED cur
      <4>1. PICK n \in 1..Len(page) :
              remote' = [remote EXCEPT ![i] = SavePage(remote[i], SubSeq(page, 1, n), key)]
        BY <3>3
      <4>2. PICK part : part = SubSeq(page, 1, n)  OBVIOUS
      <4>3. n \in Nat /\ n <= len  BY <3>1
      <4>4. part \in Seq(Entry) /\ Len(part) = n /\ \A k \in 1..n : part[k] = page[k]
        BY <1>1, <3>1, <4>2, <4>3
      <4>5. PICK new : new = SavePage(remote[i], part, Creator)  OBVIOUS
      <4>6. IsPage(part, log, d, n)
        <5>1. \A k \in 1..n : k \in 1..Len(page)  BY <3>1, <4>3
        <5>2. QED  BY <1>1, <4>4, <5>1 DEF IsPage
      <4>7. d + n <= Len(log)
        <5>1. log \in Seq(Entry)  BY DEF TypeInv, NetTypes
        <5>2. Len(log) \in Nat  BY <5>1
        <5>3. QED  BY <1>1, <3>1, <4>3, <5>2
      <4>8. IsCopy(new) /\ Covers(new, d + n)
        BY <1>1, <1>2, <2>7, <4>3, <4>4, <4>5, <4>6, <4>7, PageCopied
      <4>9. Covers(new, d)
        <5>1. \A k \in 1..d : k \in 1..d + n  BY <1>1, <4>3
        <5>2. QED  BY <4>8, <5>1 DEF Covers
      <4>10. remote' = [remote EXCEPT ![i] = new]  BY <2>4, <4>1, <4>2, <4>5
      <4>11. SavesCopy(i, new, d)  BY <1>0, <3>3, <4>8, <4>9, <4>10 DEF SavesCopy
      <4>12. QED  BY <4>11
    <3>4. QED  BY <2>2, <3>2, <3>3
  <2>8. PICK new, e :
          /\ remote' = [remote EXCEPT ![i] = new] /\ IsCopy(new) /\ Covers(new, e)
          /\ \/ UNCHANGED cur /\ e = d
             \/ cur' = [cur EXCEPT ![i].download = e]
    BY <1>0, <2>8a DEF SavesCopy
  <2>9. /\ remote'[i] = new /\ \A j \in Inst \ {i} : remote'[j] = remote[j]
        /\ cur'[i].download = e
        /\ \A j \in Inst : cur'[j].upload = cur[j].upload
        /\ \A j \in Inst \ {i} : cur'[j].download = cur[j].download
    <3>1. cur \in [Inst -> [download : Nat, upload : Nat, local : Nat, rem : Nat]]
          /\ remote \in [Inst -> Seq(SavedRow)]
      BY DEF TypeInv, LogTypes
    <3>2. CASE UNCHANGED cur /\ e = d  BY <1>0, <2>8, <3>1, <3>2
    <3>3. CASE cur' = [cur EXCEPT ![i].download = e]  BY <2>8, <3>1, <3>3
    <3>4. QED  BY <2>8, <3>2, <3>3
  <2>10. SavedCopies'
    <3>1. ASSUME NEW j \in Inst PROVE IsCopy(remote'[j]) /\ Covers(remote'[j], cur'[j].download)
      <4>1. CASE j = i  BY <2>8, <2>9, <4>1
      <4>2. CASE j # i  BY <1>2, <2>9, <4>2 DEF SavedCopies
      <4>3. QED  BY <4>1, <4>2
    <3>2. QED  BY <1>3, <3>1 DEF SavedCopies, IsCopy, CopyOf, Covers, EntryOf, Success
  <2>11. LogCopies'
    <3>1. cur'[Creator].upload = cur[Creator].upload  BY <1>2, <2>9
    <3>2. LogCopies  BY <1>2
    <3>3. QED  BY <1>3, <3>1, <3>2, LogCopiesSame
  <2>12. QED  BY <1>4, <2>5, <2>6, <2>10, <2>11 DEF CopyInv
<1>7. QED  BY <1>5, <1>6

(* The k-th number of an interval. *)
LEMMA NthInterval ==
  ASSUME NEW a \in Nat, NEW b \in Nat, a <= b
  PROVE  /\ Cardinality(a..b) = b - a + 1
         /\ \A k \in 1..b - a + 1 : Nth(a..b, k) = a + k - 1
<1>1. ASSUME NEW n \in a..b PROVE Cardinality({m \in a..b : m <= n}) = n - a + 1
  <2>1. {m \in a..b : m <= n} = a..n  OBVIOUS
  <2>2. Cardinality(a..n) = n - a + 1  BY FS_Interval
  <2>3. QED  BY <2>1, <2>2
<1>2. ASSUME NEW k \in 1..b - a + 1 PROVE Nth(a..b, k) = a + k - 1
  <2>1. a + k - 1 \in a..b /\ (a + k - 1) - a + 1 = k  OBVIOUS
  <2>2. Cardinality({m \in a..b : m <= a + k - 1}) = k  BY <1>1, <2>1
  <2>3. \A n \in a..b : Cardinality({m \in a..b : m <= n}) = k => n = a + k - 1
    <3>1. \A n \in a..b : Cardinality({m \in a..b : m <= n}) = k => n - a + 1 = k  BY <1>1
    <3>2. \A n \in a..b : n - a + 1 = k => n = a + k - 1  OBVIOUS
    <3>3. QED  BY <3>1, <3>2
  <2>4. QED  BY <2>1, <2>2, <2>3 DEF Nth
<1>3. Cardinality(a..b) = b - a + 1  BY FS_Interval
<1>4. QED  BY <1>2, <1>3

LEMMA CreatorSigns ==
  ASSUME TypeInv, CreatorCommits, OneKey
  PROVE  SigningKey(Creator) = Creator /\ StoredKey(Creator) = Creator
<1>1. Creator \in Inst /\ Creator # None  BY InstAssumption
<1>2. PICK h : h = mls[Creator].hist  OBVIOUS
<1>3. h \in Hist /\ Range(h) \subseteq DOMAIN commits
  BY <1>1, <1>2 DEF TypeInv, NetTypes, Histories
<1>4. MetadataSigner(h) \in {None, Creator}
  <2> DEFINE shares == {c \in Range(h) : commits[c].key # None}
  <2>1. CASE shares = {}  BY <2>1 DEF MetadataSigner
  <2>2. CASE shares # {}
    <3>1. commits \in Seq(GroupCommit)  BY DEF TypeInv, NetTypes
    <3>2. shares \subseteq Nat /\ shares \subseteq DOMAIN commits /\ Len(commits) \in Nat
      BY <1>3, <3>1
    <3>3. \A n \in shares : n <= Len(commits)  BY <3>1, <3>2
    <3>4. MetadataSigner(h) = commits[Max(shares)].key  BY <2>2 DEF MetadataSigner
    <3> HIDE DEF shares
    <3>5. Max(shares) \in DOMAIN commits  BY <2>2, <3>2, <3>3, Greatest
    <3>6. QED  BY <3>4, <3>5 DEF CreatorCommits
  <2>3. QED  BY <2>1, <2>2
<1>5. /\ keys[Creator].signer \in {None, Creator} /\ keys[Creator].consensus \in {None, Creator}
      /\ keys[Creator].consensus = Creator => keys[Creator].signer = Creator
  BY <1>1 DEF OneKey
<1>6. SigningKey(Creator) = Creator
  BY <1>1, <1>2, <1>4, <1>5 DEF SigningKey
<1>7. QED  BY <1>1, <1>6 DEF StoredKey

(* The creator signs its log from the upload cursor to the end. *)
LEMMA CreatorPages ==
  ASSUME TypeInv, CreatorLog, CreatorCommits, OneKey, Unpublished(Creator) # {}, NEW es,
         es = SignedEntries(Creator), NEW a \in Nat,
         a = IF cur[Creator].upload = 0 THEN 2 ELSE cur[Creator].upload + 1
  PROVE  /\ a \in 2..Len(rows[Creator]) /\ Len(es) = Len(rows[Creator]) - a + 1
         /\ \A k \in 1..Len(es) : es[k] = EntryOf(a + k - 1)
         /\ Max(Unpublished(Creator)) = Len(rows[Creator])
<1>1. PICK own, up : own = rows[Creator] /\ up = cur[Creator].upload  OBVIOUS
<1>2. Creator \in Inst /\ own \in Seq(LocalRow) /\ Len(own) \in Nat /\ Len(own) > 1
  BY <1>1, CreatorRows
<1>3. PICK len \in Nat : len = Len(own)  BY <1>2
<1>4. up \in Nat /\ up <= len  BY <1>1, <1>2, <1>3 DEF TypeInv, LogTypes, Cursors
<1>5. own[1].seq = 0  BY <1>1, <1>2 DEF TypeInv, Cursors
<1>6. \A n \in 2..len : own[n].seq # 0 /\ own[n].type \in {"Applied", "Failed"}
  BY <1>1, <1>3 DEF CreatorLog, Succeeds
<1>7. Unpublished(Creator) = a..len
  <2>1. ASSUME NEW n \in Unpublished(Creator) PROVE n \in a..len
    <3>1. n \in 1..len /\ n > up /\ own[n].seq # 0
      BY <1>1, <1>2, <1>3 DEF Unpublished
    <3>2. n # 1  BY <1>5, <3>1
    <3>3. QED  BY <1>1, <1>4, <3>1, <3>2
  <2>2. ASSUME NEW n \in a..len PROVE n \in Unpublished(Creator)
    <3>1. n \in 2..len /\ n \in 1..len /\ n > up  BY <1>1, <1>4
    <3>2. n \in DOMAIN own  BY <1>2, <1>3, <3>1
    <3>3. own[n].seq # 0  BY <1>6, <3>1
    <3>4. QED  BY <1>1, <3>1, <3>2, <3>3 DEF Unpublished
  <2>3. QED  BY <2>1, <2>2
<1>8. a \in 2..len  BY <1>1, <1>3, <1>4, <1>7
<1>9. {n \in Unpublished(Creator) : Publishable(rows[Creator][n])} = a..len
  <2>1. \A n \in a..len : n \in 2..len  BY <1>8
  <2>2. QED  BY <1>1, <1>6, <1>7, <2>1 DEF Publishable
<1>10. /\ Cardinality(a..len) = len - a + 1
       /\ \A k \in 1..len - a + 1 : Nth(a..len, k) = a + k - 1
  <2>1. a <= len  BY <1>8
  <2>2. QED  BY <2>1, NthInterval
<1>11. SigningKey(Creator) = Creator /\ Creator # None  BY CreatorSigns, InstAssumption
<1>12. es = [k \in 1..len - a + 1 |->
               [seq |-> rows[Creator][Nth(a..len, k)].seq,
                ok |-> Success(rows[Creator][Nth(a..len, k)]),
                last |-> rows[Creator][Nth(a..len, k)].last,
                applied |-> rows[Creator][Nth(a..len, k)].applied, key |-> Creator]]
  BY <1>9, <1>10, <1>11 DEF SignedEntries
<1>13. PICK m \in Nat : m = len - a + 1  BY <1>8
<1>14. Len(es) = m /\ \A k \in 1..m : es[k] = EntryOf(a + k - 1)
  <2>1. \A k \in 1..m : es[k] = EntryOf(Nth(a..len, k))  BY <1>12, <1>13 DEF EntryOf
  <2>2. Len(es) = m  BY <1>12, <1>13
  <2>3. QED  BY <1>10, <1>13, <2>1, <2>2
<1>15. Max(Unpublished(Creator)) = len
  <2>1. PICK u : u = Max(Unpublished(Creator))  OBVIOUS
  <2>2. u \in 1..len /\ \A n \in Unpublished(Creator) : n <= u
    BY <1>1, <1>2, <1>3, <2>1, LastUnpublished
  <2>3. len \in Unpublished(Creator)  BY <1>7, <1>8
  <2>4. len <= u /\ u <= len /\ u \in Nat  BY <2>2, <2>3
  <2>5. QED  BY <2>1, <2>4
<1>16. QED  BY <1>1, <1>3, <1>8, <1>13, <1>14, <1>15

(* Places counted from a. *)
LEMMA Places ==
  ASSUME NEW b \in Nat, NEW a \in 2..b
  PROVE  LET m == b - a + 1
         IN /\ \A x \in 1..m : a + x - 1 \in 2..b
            /\ \A n \in a..b : n - a + 1 \in 1..m /\ n = a + (n - a + 1) - 1
  OBVIOUS

(* What is appended to the remote log follows what is there. *)
LEMMA CopiesAppended ==
  ASSUME TypeInv, CreatorLog, LogCopies, NEW es \in Seq(Entry), NEW a \in Nat,
         a = IF cur[Creator].upload = 0 THEN 2 ELSE cur[Creator].upload + 1,
         a \in 2..Len(rows[Creator]), Len(es) = Len(rows[Creator]) - a + 1,
         \A k \in 1..Len(es) : es[k] = EntryOf(a + k - 1), UNCHANGED rows,
         log' = log \o es, cur'[Creator].upload \in {cur[Creator].upload, Len(rows[Creator])}
  PROVE  LogCopies'
<1>1. PICK new : new = log'  OBVIOUS
<1>2. PICK len \in Nat, own \in Nat, m \in Nat, up \in Nat :
        len = Len(log) /\ own = Len(rows[Creator]) /\ m = Len(es) /\ up = cur[Creator].upload
  <2>1. /\ log \in Seq(Entry) /\ Len(rows[Creator]) \in Nat
        /\ cur[Creator].upload \in Nat
    BY CreatorRows, InstAssumption DEF TypeInv, NetTypes, LogTypes
  <2>2. Len(log) \in Nat /\ Len(es) \in Nat  BY <2>1
  <2>3. QED  BY <2>1, <2>2
<1>3. /\ DOMAIN log = 1..len /\ DOMAIN new = 1..len + m
      /\ \A k \in 1..len : new[k] = log[k]
      /\ \A k \in 1..m : new[len + k] = es[k]
  <2>1. log \in Seq(Entry)  BY DEF TypeInv, NetTypes
  <2>2. QED  BY <1>1, <1>2, <2>1
<1>4. up \in Nat  BY <1>2, InstAssumption DEF TypeInv, LogTypes
<1>5. a \in 2..own /\ m = own - a + 1 /\ own \in Nat /\ m \in Nat  BY <1>2
<1>5a. a = IF up = 0 THEN 2 ELSE up + 1  BY <1>2
<1>5b. /\ \A x \in 1..m : a + x - 1 \in 2..own
       /\ \A n \in a..own : n - a + 1 \in 1..m /\ n = a + (n - a + 1) - 1
  <2>1. a \in 2..own /\ own \in Nat /\ m = own - a + 1  BY <1>5
  <2>2. /\ \A x \in 1..own - a + 1 : a + x - 1 \in 2..own
        /\ \A n \in a..own : n - a + 1 \in 1..own - a + 1 /\ n = a + (n - a + 1) - 1
    BY <2>1, Places
  <2>3. QED  BY <2>1, <2>2, Zenon
<1>6. \A k \in 1..m : new[len + k] = EntryOf(a + k - 1)  BY <1>2, <1>3
<1>7. ASSUME NEW k \in 1..len + m
      PROVE  \E n \in 2..own :
               /\ new[k] = EntryOf(n)
               /\ n = 2 \/ \E j \in 1..k - 1 : new[j] = EntryOf(n - 1)
  <2>1. CASE k \in 1..len
    <3>1. PICK n \in 2..own :
            /\ log[k] = EntryOf(n)
            /\ n = 2 \/ \E j \in 1..k - 1 : log[j] = EntryOf(n - 1)
      BY <1>2, <1>3, <2>1 DEF LogCopies, Publishing
    <3>2. \A j \in 1..k - 1 : j \in 1..len  BY <2>1
    <3>3. QED  BY <1>3, <2>1, <3>1, <3>2
  <2>2. CASE k \notin 1..len
    <3>1. PICK x \in Int : x = k - len  OBVIOUS
    <3>2. x \in 1..m /\ k = len + x  BY <2>2, <3>1
    <3>3. PICK n \in Int : n = a + x - 1  BY <1>5, <3>2
    <3>4. n \in 2..own /\ new[k] = EntryOf(n)
      <4>1. n \in 2..own  BY <1>5b, <3>2, <3>3
      <4>2. QED  BY <1>6, <3>2, <3>3, <4>1
    <3>5. n = 2 \/ \E j \in 1..k - 1 : new[j] = EntryOf(n - 1)
      <4>1. CASE x # 1
        <5>1. x - 1 \in 1..m /\ n - 1 = a + (x - 1) - 1  BY <3>2, <3>3, <4>1
        <5>2. new[len + (x - 1)] = EntryOf(n - 1)  BY <1>6, <5>1
        <5>3. len + (x - 1) \in 1..k - 1  BY <3>2, <5>1
        <5>4. QED  BY <5>2, <5>3
      <4>2. CASE x = 1 /\ up # 0 /\ n # 2
        <5>1. n - 1 = up /\ up \in 2..up  BY <1>4, <1>5, <1>5a, <3>3, <3>4, <4>2
        <5>2. PICK j \in DOMAIN log : log[j] = EntryOf(up)  BY <1>2, <5>1 DEF LogCopies
        <5>3. j \in 1..k - 1 /\ new[j] = log[j]  BY <1>3, <3>2, <4>2
        <5>4. QED  BY <5>1, <5>2, <5>3
      <4>3. CASE x = 1 /\ up = 0  BY <1>5a, <3>3, <4>3
      <4>4. QED  BY <4>1, <4>2, <4>3
    <3>6. QED  BY <3>4, <3>5
  <2>3. QED  BY <2>1, <2>2
<1>8. ASSUME NEW n \in 2..cur'[Creator].upload PROVE \E k \in DOMAIN new : new[k] = EntryOf(n)
  <2>1. n \in 2..up \/ n \in 2..own  BY <1>2
  <2>2. CASE n \in 2..up
    <3>1. PICK k \in DOMAIN log : log[k] = EntryOf(n)  BY <1>2, <2>2 DEF LogCopies
    <3>2. k \in DOMAIN new /\ new[k] = log[k]  BY <1>3
    <3>3. QED  BY <3>1, <3>2
  <2>3. CASE n \in 2..own /\ n \notin 2..up
    <3>1. n >= a  BY <1>4, <1>5, <1>5a, <2>3
    <3>2. PICK x \in Int : x = n - a + 1  BY <2>3
    <3>3. x \in 1..m /\ n = a + x - 1
      <4>1. n \in a..own  BY <2>3, <3>1
      <4>2. QED  BY <1>5b, <3>2, <4>1
    <3>4. new[len + x] = EntryOf(n) /\ len + x \in DOMAIN new  BY <1>3, <1>6, <3>3
    <3>5. QED  BY <3>4
  <2>4. QED  BY <2>1, <2>2, <2>3
<1>9. \A n : EntryOf(n)' = EntryOf(n)  BY DEF EntryOf, Success
<1>10. \A k \in DOMAIN new : \E n \in 2..own : Publishing(k, n)'
  <2>1. ASSUME NEW k \in DOMAIN new PROVE \E n \in 2..own : Publishing(k, n)'
    <3>1. PICK n \in 2..own :
            /\ new[k] = EntryOf(n)
            /\ n = 2 \/ \E j \in 1..k - 1 : new[j] = EntryOf(n - 1)
      BY <1>3, <1>7
    <3>2. Publishing(k, n)'  BY <1>1, <1>2, <1>9, <3>1 DEF Publishing
    <3>3. QED  BY <3>2
  <2>2. QED  BY <2>1
<1>11. QED  BY <1>1, <1>2, <1>8, <1>9, <1>10 DEF LogCopies

LEMMA CopyPublish ==
  ASSUME TypeInv, CopyInv, Admins = {Creator}, NEW i \in Inst, PublishCommitLogs(i)
  PROVE  CopyInv'
<1>1. UNCHANGED <<commits, welcomes, mls, rows, remote>>  BY PublishEffect
<1>2. /\ CreatorLog /\ CreatorCommits /\ LogCopies /\ OneKey /\ SavedCopies /\ Creator \in Inst
      /\ rows[Creator] \in Seq(LocalRow)
  BY CreatorRows DEF CopyInv
<1>3. CreatorLog' /\ CreatorCommits'  BY <1>1, <1>2 DEF CreatorLog, CreatorCommits
<1>4. CASE UNCHANGED <<log, cur, keys>>
  <2>1. Extends(rows[Creator], rows'[Creator])  BY <1>1, ExtendsSame
  <2>2. QED  BY <1>1, <1>2, <1>3, <1>4, <2>1, CopiesStay DEF CopyInv
<1>5. CASE ~UNCHANGED <<log, cur, keys>>
  <2>1. i = Creator  BY <1>5 DEF PublishCommitLogs
  <2>2. Unpublished(Creator) # {}  BY <1>5, <2>1 DEF PublishCommitLogs
  <2>3. PICK key : key = StoredKey(i)  OBVIOUS
  <2>4. key = Creator  BY <1>2, <2>1, <2>3, CreatorSigns
  <2>5. keys' = [keys EXCEPT ![i].signer = key]
    BY <1>5, <2>1, <2>2, <2>3 DEF PublishCommitLogs
  <2>6. PICK es : es = SignedEntries(Creator)  OBVIOUS
  <2>7. PICK last : last = Max(Unpublished(Creator))  OBVIOUS
  <2>8. \/ UNCHANGED <<log, cur>>
        \/ log' = log \o es /\ (UNCHANGED cur \/ cur' = [cur EXCEPT ![i].upload = last])
    BY <2>1, <2>6, <2>7, PublishEffect
  <2>9. cur \in [Inst -> [download : Nat, upload : Nat, local : Nat, rem : Nat]]
    BY DEF TypeInv, LogTypes
  <2>10. PICK a \in Nat : a = IF cur[Creator].upload = 0 THEN 2 ELSE cur[Creator].upload + 1
    <3>1. PICK up \in Nat : up = cur[Creator].upload  BY <1>2, <2>9
    <3>2. PICK a : a = IF up = 0 THEN 2 ELSE up + 1  OBVIOUS
    <3>3. a \in Nat  BY <3>2
    <3>4. QED  BY <3>1, <3>2, <3>3
  <2>11. /\ a \in 2..Len(rows[Creator]) /\ Len(es) = Len(rows[Creator]) - a + 1
         /\ \A k \in 1..Len(es) : es[k] = EntryOf(a + k - 1)
         /\ last = Len(rows[Creator])
    BY <1>2, <2>2, <2>6, <2>7, <2>10, CreatorPages
  <2>12. es \in Seq(Entry) /\ log \in Seq(Entry)  BY <1>2, <2>6, Signed DEF TypeInv, NetTypes
  <2>13. /\ \A j \in Inst : cur'[j].download = cur[j].download
         /\ cur'[Creator].upload \in {cur[Creator].upload, last}
    <3>1. CASE UNCHANGED cur  BY <3>1
    <3>2. CASE cur' = [cur EXCEPT ![i].upload = last]  BY <1>2, <2>1, <2>9, <3>2
    <3>3. QED  BY <2>8, <3>1, <3>2
  <2>14. LogCopies'
    <3>1. CASE UNCHANGED <<log, cur>>
      <4>1. LogCopies  BY <1>2
      <4>2. QED  BY <1>1, <3>1, <4>1, LogCopiesSame
    <3>2. CASE log' = log \o es
      BY <1>1, <1>2, <2>10, <2>11, <2>12, <2>13, <3>2, CopiesAppended
    <3>3. QED  BY <2>8, <3>1, <3>2
  <2>15. PICK new : new = log'  OBVIOUS
  <2>16. \A k \in DOMAIN log : k \in DOMAIN new /\ new[k] = log[k]
    <3>1. CASE new = log  BY <3>1
    <3>2. CASE new = log \o es  BY <2>12, <3>2
    <3>3. QED  BY <2>8, <2>15, <3>1, <3>2
  <2>17. OneKey'
    <3>1. keys \in [Inst -> [signer : Key, consensus : Key]]  BY DEF TypeInv, LogTypes
    <3>2. keys'[Creator].signer = Creator /\ \A j \in Inst : keys'[j].consensus = keys[j].consensus
      BY <1>2, <2>1, <2>4, <2>5, <3>1
    <3>3. log # <<>> => new # <<>>
      <4>1. CASE log # <<>>
        <5>1. 1 \in DOMAIN log  BY <2>12, <4>1
        <5>2. 1 \in DOMAIN new  BY <2>16, <5>1
        <5>3. QED  BY <5>2
      <4>2. QED  BY <4>1
    <3>4. QED  BY <1>2, <2>15, <3>2, <3>3 DEF OneKey
  <2>18. SavedCopies'
    <3>1. ASSUME NEW j \in Inst PROVE Covers(remote[j], cur[j].download)'
      <4>1. cur[j].download \in Nat /\ cur[j].download <= Len(log) /\ Len(log) \in Nat
        BY <2>9, <2>12 DEF TypeInv, Cursors
      <4>2. \A k \in 1..cur[j].download : k \in DOMAIN log  BY <2>12, <4>1
      <4>3. \A k \in 1..cur[j].download : \E m \in 1..Len(remote[j]) : log[k] = EntryOf(m + 1)
        BY <1>2 DEF SavedCopies, Covers
      <4>4. \A n : EntryOf(n)' = EntryOf(n)  BY <1>1 DEF EntryOf, Success
      <4>5. QED  BY <1>1, <2>13, <2>15, <2>16, <4>2, <4>3, <4>4 DEF Covers
    <3>2. \A j \in Inst : IsCopy(remote[j])'
      BY <1>1, <1>2 DEF SavedCopies, IsCopy, CopyOf, Success
    <3>3. QED  BY <3>1, <3>2 DEF SavedCopies
  <2>19. QED  BY <1>3, <2>14, <2>17, <2>18 DEF CopyInv
<1>6. QED  BY <1>4, <1>5

LEMMA CopyStep ==
  ASSUME TypeInv, CopyInv, Admins = {Creator}, [Next]_vars
  PROVE  CopyInv'
<1>1. /\ CreatorLog /\ CreatorCommits /\ LogCopies /\ OneKey /\ SavedCopies /\ Creator \in Inst
      /\ Extends(rows[Creator], rows[Creator]) /\ rows[Creator] \in Seq(LocalRow)
  BY CreatorRows, ExtendsSame DEF CopyInv
<1>2. ASSUME UNCHANGED <<welcomes, log, mls, rows, remote, keys>>, CreatorSafe,
             \A j \in Inst : cur'[j].download = cur[j].download /\ cur'[j].upload = cur[j].upload
      PROVE  CopyInv'
  <2>1. CreatorLog'  BY <1>1, <1>2 DEF CreatorLog
  <2>2. CreatorCommits'  BY <1>1, <1>2, CommitsStay
  <2>3. LogCopies' /\ OneKey' /\ SavedCopies'  BY <1>1, <1>2, CopiesStay
  <2>4. QED  BY <2>1, <2>2, <2>3 DEF CopyInv
<1>3. UNCHANGED commits => CreatorSafe  BY DEF CreatorSafe
<1>4. CASE UNCHANGED vars  BY <1>2, <1>3, <1>4 DEF vars, net, logs
<1>5. ASSUME NEW i \in Inst, Propose(i) PROVE CopyInv'
  <2>1. CreatorSafe  BY <1>5, SafeProposal
  <2>2. QED  BY <1>2, <1>5, <2>1 DEF Propose, logs
<1>6. ASSUME NEW i \in Inst, Follow(i) PROVE CopyInv'
  <2>1. ASSUME OneshotArrives(i) PROVE CopyInv'
    BY <1>2, <1>3, <2>1 DEF OneshotArrives, net, logs
  <2>2. QED  BY <1>6, <2>1, CopyReceive, CopyWelcome DEF Follow
<1>7. ASSUME NEW i \in Inst, SaveRemoteCommitLog(i) PROVE CopyInv'  BY <1>7, CopySave
<1>8. ASSUME NEW i \in Inst, UpdateForkedState(i) \/ RespondReadds(i) PROVE CopyInv'
  <2>1. UNCHANGED <<welcomes, log, mls, rows, remote, keys>>
    BY <1>8, UpdateEffect, RespondEffect
  <2>2. UNCHANGED cur \/ \E local, rem : ForkCursors(i, local, rem)
    BY <1>8, UpdateEffect, RespondEffect
  <2>3. \A j \in Inst : cur'[j].download = cur[j].download /\ cur'[j].upload = cur[j].upload
    BY <2>2, MovedForkCursors
  <2>4. CreatorSafe
    <3>1. CASE UpdateForkedState(i)  BY <1>3, <3>1, UpdateEffect
    <3>2. CASE RespondReadds(i)  BY <3>2, SafeAnswer
    <3>3. QED  BY <1>8, <3>1, <3>2
  <2>5. QED  BY <1>2, <2>1, <2>3, <2>4
<1>9. ASSUME NEW i \in Inst, PublishCommitLogs(i) PROVE CopyInv'  BY <1>9, CopyPublish
<1>10. ASSUME NEW i \in Inst, RequestReadd(i) PROVE CopyInv'
  BY <1>2, <1>3, <1>10 DEF RequestReadd, net, logs
<1>11. QED  BY <1>4, <1>5, <1>6, <1>7, <1>8, <1>9, <1>10 DEF Next, Tick

(* When the creator is the only super admin its uploads are the only       *)
(* entries, and then no crash of the worker, failed download or repeated   *)
(* upload makes two installations save logs that disagree: what anyone     *)
(* has saved is the beginning of the creator's own log, without a gap      *)
(* (save_remote_commit_log_entries_and_update_cursors, one entry at a      *)
(* time before the cursor, should_skip_remote_commit_log_entry).           *)
THEOREM ConsensusThroughCrashes == ASSUME Admins = {Creator} PROVE Spec => []ConsensusAgrees
<1>1. Init => TypeInv /\ CopyInv  BY TypeInit, CopyInit
<1>2. TypeInv /\ CopyInv /\ [Next]_vars => (TypeInv /\ CopyInv)'  BY TypeStep, CopyStep
<1>3. TypeInv /\ CopyInv => ConsensusAgrees  BY CopiesAgree
<1>4. QED  BY <1>1, <1>2, <1>3, PTL DEF Spec

-----------------------------------------------------------------------------
(* A request is answered once, when the creator alone answers *)

(* Installation j, with remote log r, has seen commit c in the consensus.  *)
Shown(r, c) == \E m \in DOMAIN r : r[m].seq >= c

(* Every commit of a history was made on the ones before it.               *)
Builds(cs, h) ==
  \A m, n \in DOMAIN h : m < n => h[m] < h[n] /\ h[m] \in Range(cs[h[n]].base)

(* The commits of a history that add an installation again.                *)
Again(cs, h, j) == {c \in Range(h) : j \in cs[c].removes \cap cs[c].adds}

RequestTypes ==
  /\ \A i \in Inst : \A m \in mail[i] : m.from \in Inst /\ m.seq \in Nat
  /\ asked \in [Inst -> [Inst -> Nat]] /\ answered \in [Inst -> [Inst -> Nat]]

HistoriesBuild ==
  /\ \A i \in Inst : Builds(commits, mls[i].hist)
  /\ \A d \in DOMAIN commits : /\ Builds(commits, commits[d].base)
                               /\ \A c \in Range(commits[d].base) : c < d

(* A request names a commit that its author has seen, and who answers has  *)
(* not forked.                                                             *)
RequestsSeen ==
  /\ \A i \in Inst : status[i] = "forked" => i # Creator /\ remote[i] # <<>>
  /\ \A i \in Inst : \A m \in mail[i] : Shown(remote[m.from], m.seq)
  /\ \A j \in Inst : asked[Creator][j] # 0 => Shown(remote[j], asked[Creator][j])

(* A commit that added an installation again is noted as the answer, until *)
(* the installation has seen it.                                           *)
AnswersNoted ==
  \A j \in Inst : \A c \in Again(commits, mls[Creator].hist, j) :
    c <= answered[Creator][j] \/ Shown(remote[j], c)

(* Whoever was to be added once more had seen the time before.             *)
OlderSeen(x) ==
  \A j \in x.removes \cap x.adds : \A c \in Again(commits, x.base, j) : Shown(remote[j], c)
AnswersSeen == \A d \in DOMAIN commits : OlderSeen(commits[d])

AnswerInv == RequestTypes /\ HistoriesBuild /\ RequestsSeen /\ AnswersNoted /\ AnswersSeen

(* Nothing that was seen is forgotten.                                     *)
RemoteGrows == \A j \in Inst : \A c \in Nat : Shown(remote[j], c) => Shown(remote'[j], c)

LEMMA ShownStays ==
  ASSUME TypeInv, NEW i \in Inst, NEW new \in Seq(SavedRow), Extends(remote[i], new),
         remote' = [remote EXCEPT ![i] = new]
  PROVE  RemoteGrows
<1>1. remote \in [Inst -> Seq(SavedRow)]  BY DEF TypeInv, LogTypes
<1>2. ASSUME NEW j \in Inst, NEW c \in Nat, Shown(remote[j], c) PROVE Shown(remote'[j], c)
  <2>1. CASE j # i  BY <1>1, <1>2, <2>1
  <2>2. CASE j = i
    <3>1. PICK old : old = remote[i]  OBVIOUS
    <3>2. old \in Seq(SavedRow)  BY <1>1, <3>1
    <3>3. PICK m \in DOMAIN old : old[m].seq >= c  BY <1>2, <2>2, <3>1 DEF Shown
    <3>4. m \in 1..Len(old) /\ m \in DOMAIN new
      BY <3>1, <3>2, <3>3 DEF Extends
    <3>5. new[m] = old[m]  BY <3>1, <3>4 DEF Extends
    <3>6. Shown(new, c)  BY <3>3, <3>4, <3>5 DEF Shown
    <3>7. QED  BY <1>1, <2>2, <3>6
  <2>3. QED  BY <2>1, <2>2
<1>3. QED  BY <1>2 DEF RemoteGrows

LEMMA ShownSame == ASSUME UNCHANGED remote PROVE RemoteGrows
BY DEF RemoteGrows

(* A history and its commits, when others are published.                   *)
LEMMA HistoryStays ==
  ASSUME NEW cs, NEW cs2, NEW h \in Hist, \A c \in Range(h) : cs2[c] = cs[c]
  PROVE  /\ Builds(cs, h) => Builds(cs2, h)
         /\ \A j : Again(cs2, h, j) = Again(cs, h, j)
<1>1. \A n \in DOMAIN h : h[n] \in Range(h)  BY DEF Range
<1>2. Builds(cs, h) => Builds(cs2, h)  BY <1>1 DEF Builds
<1>3. ASSUME NEW j PROVE Again(cs2, h, j) = Again(cs, h, j)  BY DEF Again
<1>4. QED  BY <1>2, <1>3

LEMMA HistoryBuilt ==
  ASSUME NEW cs, NEW h \in Hist, NEW c \in Nat, Builds(cs, h), cs[c].base = h,
         \A b \in Range(h) : b < c
  PROVE  Builds(cs, Append(h, c))
<1>1. PICK g : g = Append(h, c)  OBVIOUS
<1>2. PICK len \in Nat : len = Len(h)  BY DEF Hist
<1>3. /\ DOMAIN g = 1..len + 1 /\ DOMAIN h = 1..len /\ g[len + 1] = c
      /\ \A k \in 1..len : g[k] = h[k]
  BY <1>1, <1>2, Appended DEF Hist
<1>4. ASSUME NEW m \in 1..len + 1, NEW n \in 1..len + 1, m < n
      PROVE  g[m] < g[n] /\ g[m] \in Range(cs[g[n]].base)
  <2>1. m \in 1..len  BY <1>2, <1>4
  <2>2. CASE n \in 1..len
    <3>1. h[m] < h[n] /\ h[m] \in Range(cs[h[n]].base)  BY <1>3, <1>4, <2>1, <2>2 DEF Builds
    <3>2. QED  BY <1>3, <2>1, <2>2, <3>1
  <2>3. CASE n = len + 1
    <3>1. h[m] \in Range(h)  BY <1>3, <2>1 DEF Range
    <3>2. g[m] = h[m] /\ g[n] = c  BY <1>3, <2>1, <2>3
    <3>3. QED  BY <3>1, <3>2
  <2>4. QED  BY <1>2, <1>4, <2>2, <2>3
<1>5. QED  BY <1>1, <1>3, <1>4 DEF Builds

(* A commit on the author's epoch, that adds again only who has seen the   *)
(* time before.                                                            *)
FairCommit ==
  \/ UNCHANGED commits
  \/ \E i \in Inst : \E x \in GroupCommit :
       commits' = Append(commits, x) /\ x.base = mls[i].hist /\ OlderSeen(x)

LEMMA CommitAnswered ==
  ASSUME TypeInv, HistoriesBuild, AnswersSeen, FairCommit, UNCHANGED mls, RemoteGrows
  PROVE  /\ HistoriesBuild' /\ AnswersSeen'
         /\ \A i, j \in Inst : Again(commits', mls[i].hist, j) = Again(commits, mls[i].hist, j)
<1>1. PICK cs, cs2 : cs = commits /\ cs2 = commits'  OBVIOUS
<1>2. /\ cs \in Seq(GroupCommit) /\ Len(cs) \in Nat /\ DOMAIN cs = 1..Len(cs)
      /\ \A i \in Inst : mls[i].hist \in Hist /\ Range(mls[i].hist) \subseteq DOMAIN cs
  BY <1>1 DEF TypeInv, NetTypes, Histories
<1>3. \A d \in DOMAIN cs : cs[d] \in GroupCommit /\ cs[d].base \in Hist
                           /\ Range(cs[d].base) \subseteq DOMAIN cs
  <2>1. \A d \in DOMAIN cs : cs[d] \in GroupCommit  BY <1>2
  <2>2. \A d \in DOMAIN cs : Range(cs[d].base) \subseteq DOMAIN cs
    BY <1>1 DEF TypeInv, Histories
  <2>3. QED  BY <2>1, <2>2 DEF GroupCommit
<1>4. \A d \in DOMAIN cs : cs2[d] = cs[d]
  <2>1. CASE cs2 = cs  BY <2>1
  <2>2. CASE cs2 # cs
    <3>1. PICK x \in GroupCommit : cs2 = Append(cs, x)  BY <1>1, <2>2 DEF FairCommit
    <3>2. QED  BY <1>2, <3>1
  <2>3. QED  BY <2>1, <2>2
<1>5. ASSUME NEW h \in Hist, Range(h) \subseteq DOMAIN cs
      PROVE  /\ Builds(cs, h) => Builds(cs2, h)
             /\ \A j : Again(cs2, h, j) = Again(cs, h, j)
  <2>1. \A c \in Range(h) : cs2[c] = cs[c]  BY <1>4, <1>5
  <2>2. QED  BY <2>1, HistoryStays
<1>6. \A i \in Inst : Builds(cs, mls[i].hist) /\ Builds(cs2, mls[i].hist)
  BY <1>1, <1>2, <1>5 DEF HistoriesBuild
<1>7. \A i, j \in Inst : Again(cs2, mls[i].hist, j) = Again(cs, mls[i].hist, j)
  BY <1>2, <1>5
<1>8. ASSUME NEW x \in GroupCommit, Range(x.base) \subseteq DOMAIN cs, OlderSeen(x)
      PROVE  OlderSeen(x)'
  <2>1. x.base \in Hist /\ x.removes \subseteq Inst  BY DEF GroupCommit
  <2>2. ASSUME NEW j \in x.removes \cap x.adds, NEW c \in Again(cs2, x.base, j)
        PROVE  Shown(remote'[j], c)
    <3>1. c \in Again(cs, x.base, j) /\ j \in Inst  BY <1>5, <1>8, <2>1, <2>2
    <3>2. c \in Nat  BY <1>2, <1>8, <3>1 DEF Again
    <3>3. Shown(remote[j], c)  BY <1>1, <1>8, <2>2, <3>1 DEF OlderSeen
    <3>4. QED  BY <3>1, <3>2, <3>3 DEF RemoteGrows
  <2>3. QED  BY <1>1, <2>2 DEF OlderSeen
<1>9. ASSUME NEW d \in DOMAIN cs2
      PROVE  /\ Builds(cs2, cs2[d].base) /\ \A c \in Range(cs2[d].base) : c < d
             /\ OlderSeen(cs2[d])'
  <2>1. CASE d \in DOMAIN cs
    <3>1. PICK x : x = cs[d]  OBVIOUS
    <3>2. x \in GroupCommit /\ x.base \in Hist /\ Range(x.base) \subseteq DOMAIN cs
      BY <1>3, <2>1, <3>1
    <3>3. Builds(cs, x.base) /\ (\A c \in Range(x.base) : c < d) /\ OlderSeen(x)
      BY <1>1, <2>1, <3>1 DEF HistoriesBuild, AnswersSeen
    <3>4. Builds(cs2, x.base) /\ OlderSeen(x)'  BY <1>5, <1>8, <3>2, <3>3
    <3>5. cs2[d] = x  BY <1>4, <2>1, <3>1
    <3>6. QED  BY <3>3, <3>4, <3>5
  <2>2. CASE d \notin DOMAIN cs
    <3>1. PICK i \in Inst, x \in GroupCommit :
            cs2 = Append(cs, x) /\ x.base = mls[i].hist /\ OlderSeen(x)
      BY <1>1, <1>9, <2>2 DEF FairCommit
    <3>2. d = Len(cs) + 1 /\ cs2[d] = x  BY <1>2, <1>9, <2>2, <3>1
    <3>3. Builds(cs2, x.base) /\ Range(x.base) \subseteq DOMAIN cs  BY <1>2, <1>6, <3>1
    <3>4. \A c \in Range(x.base) : c < d  BY <1>2, <3>2, <3>3
    <3>5. OlderSeen(x)'  BY <1>8, <3>1, <3>3
    <3>6. QED  BY <3>2, <3>3, <3>4, <3>5
  <2>3. QED  BY <2>1, <2>2
<1>10. HistoriesBuild'  BY <1>1, <1>6, <1>9 DEF HistoriesBuild
<1>11. AnswersSeen'  BY <1>1, <1>9 DEF AnswersSeen
<1>12. QED  BY <1>1, <1>7, <1>10, <1>11

(* An installation moves along: the rest of the group is as it was. *)
LEMMA MoveAnswered ==
  ASSUME TypeInv, HistoriesBuild, AnswersSeen, NEW i \in Inst, NEW h \in Hist,
         UNCHANGED <<commits, remote>>, mls'[i].hist = h, \A j \in Inst \ {i} : mls'[j] = mls[j],
         \/ h = mls[i].hist
         \/ \E c \in DOMAIN commits : h = Append(commits[c].base, c)
  PROVE  HistoriesBuild' /\ AnswersSeen'
<1>1. PICK cs : cs = commits  OBVIOUS
<1>2. \A d \in DOMAIN cs : d \in Nat /\ cs[d].base \in Hist
  <2>1. cs \in Seq(GroupCommit)  BY <1>1 DEF TypeInv, NetTypes
  <2>2. \A d \in DOMAIN cs : d \in Nat /\ cs[d] \in GroupCommit  BY <2>1
  <2>3. QED  BY <2>2 DEF GroupCommit
<1>3. /\ \A j \in Inst : Builds(cs, mls[j].hist)
      /\ \A d \in DOMAIN cs : Builds(cs, cs[d].base) /\ \A c \in Range(cs[d].base) : c < d
  BY <1>1 DEF HistoriesBuild
<1>4. Builds(cs, h)
  <2>1. CASE h = mls[i].hist  BY <1>3, <2>1
  <2>2. CASE \E c \in DOMAIN cs : h = Append(cs[c].base, c)
    <3>1. PICK c \in DOMAIN cs : h = Append(cs[c].base, c)  BY <2>2
    <3>2. PICK g : g = cs[c].base  OBVIOUS
    <3>3. Builds(cs, Append(g, c))  BY <1>2, <1>3, <3>1, <3>2, HistoryBuilt
    <3>4. QED  BY <3>1, <3>2, <3>3
  <2>3. QED  BY <1>1, <2>1, <2>2
<1>5. \A j \in Inst : Builds(cs, mls'[j].hist)
  <2>1. ASSUME NEW j \in Inst PROVE Builds(cs, mls'[j].hist)
    <3>1. CASE j = i  BY <1>4, <3>1
    <3>2. CASE j # i  BY <1>3, <3>2
    <3>3. QED  BY <3>1, <3>2
  <2>2. QED  BY <2>1
<1>6. HistoriesBuild'  BY <1>1, <1>3, <1>5 DEF HistoriesBuild
<1>7. AnswersSeen'  BY DEF AnswersSeen, OlderSeen
<1>8. QED  BY <1>6, <1>7

(* The creator's own answers grow with its history. *)
LEMMA MarkedAnswers ==
  ASSUME RequestTypes, NEW i \in Inst, NEW js, NEW c \in Nat, answered' = MarkAnswered(i, js, c)
  PROVE  /\ answered' \in [Inst -> [Inst -> Nat]]
         /\ \A k, j \in Inst : answered[k][j] <= answered'[k][j]
         /\ \A j \in Inst \cap js : c <= answered'[i][j]
<1>1. answered \in [Inst -> [Inst -> Nat]]  BY DEF RequestTypes
<1>2. \A a, b \in Nat : Max({a, b}) \in Nat /\ a <= Max({a, b}) /\ b <= Max({a, b})
  <2>1. ASSUME NEW a \in Nat, NEW b \in Nat
        PROVE  Max({a, b}) \in Nat /\ a <= Max({a, b}) /\ b <= Max({a, b})
    <3>1. PICK S : S = {a, b}  OBVIOUS
    <3>2. S \subseteq Nat /\ S # {} /\ \A n \in S : n <= a + b  BY <3>1
    <3>3. a + b \in Nat  OBVIOUS
    <3>4. Max(S) \in S /\ \A n \in S : n <= Max(S)  BY <3>2, <3>3, Greatest
    <3>5. QED  BY <3>1, <3>2, <3>4
  <2>2. QED  BY <2>1
<1>3. PICK row : row = [j \in Inst |->
                          IF j \in js THEN Max({c, answered[i][j]}) ELSE answered[i][j]]
  OBVIOUS
<1>4. answered' = [answered EXCEPT ![i] = row]  BY <1>3 DEF MarkAnswered
<1>5. \A j \in Inst : row[j] \in Nat /\ answered[i][j] <= row[j] /\ (j \in js => c <= row[j])
  <2>1. ASSUME NEW j \in Inst
        PROVE  row[j] \in Nat /\ answered[i][j] <= row[j] /\ (j \in js => c <= row[j])
    <3>1. answered[i][j] \in Nat  BY <1>1
    <3>2. QED  BY <1>2, <1>3, <3>1
  <2>2. QED  BY <2>1
<1>6. row \in [Inst -> Nat]
  <2>1. row = [j \in Inst |-> row[j]]  BY <1>3
  <2>2. QED  BY <1>5, <2>1
<1>7. answered'[i] = row /\ \A k \in Inst \ {i} : answered'[k] = answered[k]  BY <1>1, <1>4
<1>8. \A k, j \in Inst : answered[k][j] <= answered'[k][j]
  <2>1. ASSUME NEW k \in Inst, NEW j \in Inst PROVE answered[k][j] <= answered'[k][j]
    <3>1. CASE k = i  BY <1>5, <1>7, <3>1
    <3>2. CASE k # i
      <4>1. answered[k][j] \in Nat  BY <1>1
      <4>2. QED  BY <1>7, <3>2, <4>1
    <3>3. QED  BY <3>1, <3>2
  <2>2. QED  BY <2>1
<1>9. QED  BY <1>1, <1>4, <1>5, <1>6, <1>7, <1>8

LEMMA RequestsStay ==
  ASSUME RequestTypes, RequestsSeen, RemoteGrows, UNCHANGED <<asked, mail, status>>,
         \A i \in Inst : remote[i] # <<>> => remote'[i] # <<>>
  PROVE  RequestsSeen'
<1>1. \A i \in Inst : status'[i] = "forked" => i # Creator /\ remote'[i] # <<>>
  BY DEF RequestsSeen
<1>2. \A i \in Inst : \A m \in mail'[i] : Shown(remote'[m.from], m.seq)
  <2>1. ASSUME NEW i \in Inst, NEW m \in mail[i] PROVE Shown(remote'[m.from], m.seq)
    <3>1. m.from \in Inst /\ m.seq \in Nat  BY DEF RequestTypes
    <3>2. Shown(remote[m.from], m.seq)  BY DEF RequestsSeen
    <3>3. QED  BY <3>1, <3>2 DEF RemoteGrows
  <2>2. QED  BY <2>1
<1>3. \A j \in Inst : asked'[Creator][j] # 0 => Shown(remote'[j], asked'[Creator][j])
  <2>1. ASSUME NEW j \in Inst, asked[Creator][j] # 0 PROVE Shown(remote'[j], asked[Creator][j])
    <3>1. asked[Creator][j] \in Nat  BY InstAssumption DEF RequestTypes
    <3>2. QED  BY <2>1, <3>1 DEF RequestsSeen, RemoteGrows
  <2>2. QED  BY <2>1
<1>4. QED  BY <1>1, <1>2, <1>3 DEF RequestsSeen

(* The notes stay good while the creator's history and answers do. *)
LEMMA NotesStay ==
  ASSUME TypeInv, RequestTypes, AnswersNoted, RemoteGrows,
         \A j \in Inst : Again(commits', mls'[Creator].hist, j) = Again(commits, mls[Creator].hist, j),
         answered' \in [Inst -> [Inst -> Nat]],
         \A j \in Inst : answered[Creator][j] <= answered'[Creator][j]
  PROVE  AnswersNoted'
<1>1. Creator \in Inst  BY InstAssumption
<1>2. ASSUME NEW j \in Inst, NEW c \in Again(commits, mls[Creator].hist, j)
      PROVE  c <= answered'[Creator][j] \/ Shown(remote'[j], c)
  <2>1. c \in Nat
    <3>1. Range(mls[Creator].hist) \subseteq DOMAIN commits /\ commits \in Seq(GroupCommit)
      BY <1>1 DEF TypeInv, NetTypes, Histories
    <3>2. QED  BY <1>2, <3>1 DEF Again
  <2>2. c <= answered[Creator][j] \/ Shown(remote[j], c)  BY <1>2 DEF AnswersNoted
  <2>3. answered[Creator][j] \in Nat /\ answered'[Creator][j] \in Nat
        /\ answered[Creator][j] <= answered'[Creator][j]
    BY <1>1 DEF RequestTypes
  <2>4. QED  BY <2>1, <2>2, <2>3 DEF RemoteGrows
<1>3. QED  BY <1>2 DEF AnswersNoted

LEMMA AnswerStays ==
  ASSUME TypeInv, AnswerInv, FairCommit, UNCHANGED <<mls, answered>>, RemoteGrows
  PROVE  HistoriesBuild' /\ AnswersNoted' /\ AnswersSeen'
<1>1. Creator \in Inst /\ RequestTypes /\ HistoriesBuild /\ AnswersSeen /\ AnswersNoted
  BY InstAssumption DEF AnswerInv
<1>2. /\ HistoriesBuild' /\ AnswersSeen'
      /\ \A i, j \in Inst : Again(commits', mls[i].hist, j) = Again(commits, mls[i].hist, j)
  BY <1>1, CommitAnswered
<1>3. answered \in [Inst -> [Inst -> Nat]] /\ \A j \in Inst : answered[Creator][j] \in Nat
  BY <1>1 DEF RequestTypes
<1>4. \A j \in Inst : answered[Creator][j] <= answered'[Creator][j]  BY <1>3
<1>5. \A j \in Inst : Again(commits', mls'[Creator].hist, j) = Again(commits, mls[Creator].hist, j)
  BY <1>1, <1>2
<1>6. AnswersNoted'  BY <1>1, <1>3, <1>4, <1>5, NotesStay
<1>7. QED  BY <1>2, <1>6

(* A commit that removes nobody it adds answers nobody. *)
LEMMA NobodyAgain ==
  ASSUME TypeInv, NEW i \in Inst, NEW removes \in SUBSET Inst, NEW adds \in SUBSET Inst,
         NEW key \in Key, removes \cap adds = {},
         commits' = Append(commits, Commit(i, removes, adds, key))
  PROVE  FairCommit
<1>1. PICK x : x = Commit(i, removes, adds, key)  OBVIOUS
<1>2. x \in GroupCommit /\ x.base = mls[i].hist  BY <1>1, NewCommit
<1>3. x.removes \cap x.adds = {}  BY <1>1 DEF Commit
<1>4. OlderSeen(x)  BY <1>3 DEF OlderSeen
<1>5. QED  BY <1>1, <1>2, <1>4 DEF FairCommit

LEMMA AnswerPropose ==
  ASSUME TypeInv, AnswerInv, NEW i \in Inst, Propose(i)
  PROVE  AnswerInv'
<1>1. UNCHANGED <<mls, remote, status, asked, answered, mail>>  BY DEF Propose, logs, readds
<1>2. FairCommit
  <2>1. \E removes, adds \in SUBSET Inst :
          /\ removes \cap adds = {}
          /\ commits' = Append(commits, Commit(i, removes, adds, None))
    <3>1. CASE commits' = Append(commits, Commit(i, {}, {}, None))
      <4>1. PICK none \in SUBSET Inst : none = {}  OBVIOUS
      <4>2. none \cap none = {} /\ commits' = Append(commits, Commit(i, none, none, None))
        BY <3>1, <4>1
      <4>3. QED  BY <4>2
    <3>2. CASE ~(commits' = Append(commits, Commit(i, {}, {}, None)))
      <4>1. PICK j \in Targets \ Admins :
              \/ commits' = Append(commits, Commit(i, {j}, {}, None))
              \/ commits' = Append(commits, Commit(i, {}, {j}, None))
        BY <3>2 DEF Propose
      <4>2. j \in Inst  BY InstAssumption, <4>1
      <4>3. {j} \in SUBSET Inst /\ {} \in SUBSET Inst /\ {j} \cap {} = {} /\ {} \cap {j} = {}
        BY <4>2
      <4>4. QED  BY <4>1, <4>3
    <3>3. QED  BY <3>1, <3>2
  <2>2. None \in Key  BY DEF Key
  <2>3. QED  BY <2>1, <2>2, NobodyAgain
<1>3. RemoteGrows  BY <1>1, ShownSame
<1>4. HistoriesBuild' /\ AnswersNoted' /\ AnswersSeen'  BY <1>1, <1>2, <1>3, AnswerStays
<1>5. RequestTypes' /\ RequestsSeen'  BY <1>1 DEF AnswerInv, RequestTypes, RequestsSeen
<1>6. QED  BY <1>4, <1>5 DEF AnswerInv

LEMMA AnswerSave ==
  ASSUME TypeInv, AnswerInv, NEW i \in Inst, SaveRemoteCommitLog(i)
  PROVE  AnswerInv'
<1>1. SharesKey(i) /\ UNCHANGED <<mls, status, asked, answered, mail>>
  BY SaveEffect DEF readds
<1>2. PICK new \in Seq(SavedRow) :
        remote' = [remote EXCEPT ![i] = new] /\ Extends(remote[i], new)
  BY SaveEffect
<1>3. RemoteGrows  BY <1>2, ShownStays
<1>4. FairCommit
  <2>1. CASE UNCHANGED commits  BY <2>1 DEF FairCommit
  <2>2. CASE ~UNCHANGED commits
    <3>1. PICK key \in Key : commits' = Append(commits, Commit(i, {}, {}, key))
      BY <1>1, <2>2 DEF SharesKey
    <3>2. PICK none \in SUBSET Inst : none = {}  OBVIOUS
    <3>3. none \cap none = {} /\ commits' = Append(commits, Commit(i, none, none, key))
      BY <3>1, <3>2
    <3>4. QED  BY <3>1, <3>3, NobodyAgain
  <2>3. QED  BY <2>1, <2>2
<1>5. HistoriesBuild' /\ AnswersNoted' /\ AnswersSeen'  BY <1>1, <1>3, <1>4, AnswerStays
<1>6. ASSUME NEW j \in Inst, remote[j] # <<>> PROVE remote'[j] # <<>>
  <2>1. remote \in [Inst -> Seq(SavedRow)]  BY DEF TypeInv, LogTypes
  <2>2. CASE j # i  BY <1>2, <1>6, <2>1, <2>2
  <2>3. CASE j = i
    <3>1. PICK old : old = remote[i]  OBVIOUS
    <3>2. old \in Seq(SavedRow) /\ old # <<>> /\ Len(old) <= Len(new)
      BY <1>2, <1>6, <2>1, <2>3, <3>1 DEF Extends
    <3>3. new # <<>>  BY <1>2, <3>2
    <3>4. QED  BY <1>2, <2>1, <2>3, <3>3
  <2>4. QED  BY <2>2, <2>3
<1>7. RequestTypes'  BY <1>1 DEF AnswerInv, RequestTypes
<1>8. RequestsSeen'  BY <1>1, <1>3, <1>6, RequestsStay DEF AnswerInv
<1>9. QED  BY <1>5, <1>7, <1>8 DEF AnswerInv

(* What the creator saved is its own log, so it never finds itself forked. *)
LEMMA CreatorAgrees ==
  ASSUME TypeInv, CopyInv
  PROVE  ~ForkedBasis(Creator)
<1>1. SUFFICES ASSUME ForkedBasis(Creator) PROVE FALSE  OBVIOUS
<1>2. PICK own, saved : own = rows[Creator] /\ saved = remote[Creator]  OBVIOUS
<1>3. /\ own \in Seq(LocalRow) /\ saved \in Seq(SavedRow) /\ Len(own) \in Nat
      /\ \A m, n \in 1..Len(own) : m < n => own[m].seq < own[n].seq
      /\ \A n \in 1..Len(own) : own[n].seq \in Nat
      /\ IsCopy(saved)
  <2>1. Creator \in Inst /\ CreatorLog /\ SavedCopies  BY InstAssumption DEF CopyInv
  <2>2. saved \in Seq(SavedRow) /\ IsCopy(saved)  BY <1>2, <2>1 DEF TypeInv, LogTypes, SavedCopies
  <2>3. QED  BY <1>2, <2>1, <2>2, CreatorRows
<1>4. PICK n \in DOMAIN own, m \in DOMAIN saved :
        saved[m].seq = own[n].seq /\ saved[m].applied # own[n].applied
  BY <1>1, <1>2 DEF ForkedBasis
<1>5. n \in 1..Len(own) /\ m + 1 \in 1..Len(own) /\ saved[m] = CopyOf(m + 1)
  <2>1. Len(saved) < Len(own) /\ \A k \in 1..Len(saved) : saved[k] = CopyOf(k + 1)
    BY <1>2, <1>3 DEF IsCopy
  <2>2. Len(saved) \in Nat /\ m \in 1..Len(saved) /\ n \in 1..Len(own)  BY <1>3, <1>4
  <2>3. m + 1 \in 1..Len(own)  BY <1>3, <2>1, <2>2
  <2>4. QED  BY <2>1, <2>2, <2>3
<1>6. saved[m].seq = own[m + 1].seq /\ saved[m].applied = own[m + 1].applied
  BY <1>2, <1>5 DEF CopyOf
<1>7. n = m + 1
  <2>1. PICK k : k = m + 1  OBVIOUS
  <2>2. k \in 1..Len(own) /\ own[k].seq = own[n].seq  BY <1>4, <1>5, <1>6, <2>1
  <2>3. ~(n < k) /\ ~(k < n)  BY <1>3, <1>5, <2>2
  <2>4. QED  BY <1>3, <1>5, <2>1, <2>2, <2>3
<1>8. QED  BY <1>4, <1>6, <1>7

LEMMA AnswerUpdate ==
  ASSUME TypeInv, CopyInv, AnswerInv, NEW i \in Inst, UpdateForkedState(i)
  PROVE  AnswerInv'
<1>1. UNCHANGED <<commits, mls, remote, asked, answered, mail>>  BY UpdateEffect DEF readds
<1>2. RemoteGrows /\ FairCommit  BY <1>1, ShownSame DEF FairCommit
<1>3. HistoriesBuild' /\ AnswersNoted' /\ AnswersSeen'  BY <1>1, <1>2, AnswerStays
<1>4. RequestTypes'  BY <1>1 DEF AnswerInv, RequestTypes
<1>5. ASSUME NEW j \in Inst, status'[j] = "forked" PROVE j # Creator /\ remote[j] # <<>>
  <2>1. CASE status[j] = "forked"  BY <2>1 DEF AnswerInv, RequestsSeen
  <2>2. CASE status[j] # "forked"
    <3>1. PICK verdict : /\ status' = [status EXCEPT ![i] = verdict]
                         /\ verdict = "forked" => ForkedBasis(i)
      BY <1>5, <2>2, UpdateEffect
    <3>2. status \in [Inst -> {"unknown", "clean", "forked"}] /\ remote \in [Inst -> Seq(SavedRow)]
      BY DEF TypeInv, LogTypes
    <3>3. j = i /\ verdict = "forked"  BY <1>5, <2>2, <3>1, <3>2
    <3>4. ForkedBasis(i)  BY <3>1, <3>3
    <3>5. i # Creator  BY <3>4, CreatorAgrees
    <3>6. DOMAIN remote[i] # {}  BY <3>4 DEF ForkedBasis
    <3>7. remote[i] # <<>>  BY <3>6
    <3>8. QED  BY <3>3, <3>5, <3>7
  <2>3. QED  BY <2>1, <2>2
<1>6. RequestsSeen'  BY <1>1, <1>5 DEF AnswerInv, RequestsSeen
<1>7. QED  BY <1>3, <1>4, <1>6 DEF AnswerInv

(* The commit moves the history along, and is noted as the answer. *)
LEMMA ReceiveMarks ==
  ASSUME TypeInv, NEW i \in Inst, NEW accept \in BOOLEAN, Receive(i, accept)
  PROVE  \E c \in DOMAIN commits : \E h, g \in Hist :
           /\ h = mls[i].hist /\ mls'[i].hist = g /\ \A j \in Inst \ {i} : mls'[j] = mls[j]
           /\ UNCHANGED <<commits, remote, status, asked, mail>>
           /\ \/ g = h /\ UNCHANGED answered
              \/ /\ g = h \/ (commits[c].base = h /\ g = Append(h, c))
                 /\ answered' = MarkAnswered(i, commits[c].removes \cap commits[c].adds, c)
<1>1. PICK c, h : c = mls[i].cursor + 1 /\ h = mls[i].hist  OBVIOUS
<1>2. /\ c \in DOMAIN commits /\ h \in Hist
      /\ Leaves(i, c, h) \/ Advances(i, c, h) \/ Fails(i, c, h)
  BY <1>1, ReceiveCases
<1>3. c \in Nat /\ Append(h, c) \in Hist
  <2>1. commits \in Seq(GroupCommit)  BY DEF TypeInv, NetTypes
  <2>2. c \in Nat  BY <1>2, <2>1
  <2>3. QED  BY <1>2, <2>2, Appended DEF Hist
<1>4. PICK g \in Hist : /\ mls'[i].hist = g /\ \A j \in Inst \ {i} : mls'[j] = mls[j]
                        /\ UNCHANGED <<commits, remote, status, asked, mail>>
                        /\ g = h \/ (commits[c].base = h /\ g = Append(h, c))
  <2>1. CASE Leaves(i, c, h)  BY <1>2, <2>1 DEF Leaves, Moved
  <2>2. CASE Advances(i, c, h)  BY <1>3, <2>2 DEF Advances, Moved
  <2>3. CASE Fails(i, c, h)  BY <1>2, <2>3 DEF Fails, Moved
  <2>4. QED  BY <1>2, <2>1, <2>2, <2>3
<1>5. \/ g = h /\ UNCHANGED answered
      \/ answered' = MarkAnswered(i, commits[c].removes \cap commits[c].adds, c)
  <2>1. CASE answered' = MarkAnswered(i, commits[c].removes \cap commits[c].adds, c)  BY <2>1
  <2>2. CASE ~(answered' = MarkAnswered(i, commits[c].removes \cap commits[c].adds, c))
    <3>1. mls' = [mls EXCEPT ![i].cursor = c] /\ UNCHANGED answered
      BY <1>1, <2>2 DEF Receive
    <3>2. mls \in [Inst -> [hist : Hist, active : BOOLEAN, cursor : Nat]]
      BY DEF TypeInv, NetTypes
    <3>3. mls'[i].hist = mls[i].hist  BY <3>1, <3>2
    <3>4. QED  BY <1>1, <1>4, <3>1, <3>3
  <2>3. QED  BY <2>1, <2>2
<1>6. QED  BY <1>1, <1>2, <1>4, <1>5

LEMMA AnswerReceive ==
  ASSUME TypeInv, AnswerInv, NEW i \in Inst, NEW accept \in BOOLEAN, Receive(i, accept)
  PROVE  AnswerInv'
<1>1. PICK c \in DOMAIN commits, h \in Hist, g \in Hist :
           /\ h = mls[i].hist /\ mls'[i].hist = g /\ \A j \in Inst \ {i} : mls'[j] = mls[j]
           /\ UNCHANGED <<commits, remote, status, asked, mail>>
           /\ \/ g = h /\ UNCHANGED answered
              \/ /\ g = h \/ (commits[c].base = h /\ g = Append(h, c))
                 /\ answered' = MarkAnswered(i, commits[c].removes \cap commits[c].adds, c)
  BY ReceiveMarks
<1>2. /\ Creator \in Inst /\ RequestTypes /\ HistoriesBuild /\ AnswersSeen /\ AnswersNoted
      /\ RequestsSeen /\ c \in Nat
  <2>1. commits \in Seq(GroupCommit)  BY DEF TypeInv, NetTypes
  <2>2. QED  BY <2>1, InstAssumption DEF AnswerInv
<1>3. RemoteGrows  BY <1>1, ShownSame
<1>4. g = mls[i].hist \/ \E d \in DOMAIN commits : g = Append(commits[d].base, d)  BY <1>1
<1>5. HistoriesBuild' /\ AnswersSeen'  BY <1>1, <1>2, <1>4, MoveAnswered
<1>6. answered' \in [Inst -> [Inst -> Nat]] /\ \A k, j \in Inst : answered[k][j] <= answered'[k][j]
  <2>1. CASE UNCHANGED answered
    <3>1. \A k, j \in Inst : answered[k][j] \in Nat  BY <1>2 DEF RequestTypes
    <3>2. QED  BY <1>2, <2>1, <3>1 DEF RequestTypes
  <2>2. CASE ~UNCHANGED answered  BY <1>1, <1>2, <2>2, MarkedAnswers
  <2>3. QED  BY <2>1, <2>2
<1>7. AnswersNoted'
  <2>1. CASE mls'[Creator].hist = mls[Creator].hist
    <3>1. \A j \in Inst : Again(commits', mls'[Creator].hist, j) = Again(commits, mls[Creator].hist, j)
      BY <1>1, <2>1
    <3>2. \A j \in Inst : answered[Creator][j] <= answered'[Creator][j]  BY <1>2, <1>6
    <3>3. QED  BY <1>2, <1>3, <1>6, <3>1, <3>2, NotesStay
  <2>2. CASE mls'[Creator].hist # mls[Creator].hist
    <3>1. /\ i = Creator /\ g = Append(h, c)
          /\ answered' = MarkAnswered(i, commits[c].removes \cap commits[c].adds, c)
      BY <1>1, <1>2, <2>2
    <3>2. PICK js : js = commits[c].removes \cap commits[c].adds  OBVIOUS
    <3>3. \A j \in Inst \cap js : c <= answered'[Creator][j]
      BY <1>2, <3>1, <3>2, MarkedAnswers
    <3>4. Range(g) = Range(h) \cup {c}  BY <1>2, <3>1, Appended DEF Hist
    <3>5. ASSUME NEW j \in Inst, NEW k \in Again(commits, g, j)
          PROVE  k <= answered'[Creator][j] \/ Shown(remote[j], k)
      <4>1. CASE k = c
        <5>1. j \in js  BY <3>2, <3>5, <4>1 DEF Again
        <5>2. QED  BY <3>3, <4>1, <5>1
      <4>2. CASE k # c
        <5>1. k \in Again(commits, h, j)  BY <3>4, <3>5, <4>2 DEF Again
        <5>2. k <= answered[Creator][j] \/ Shown(remote[j], k)
          BY <1>1, <1>2, <3>1, <5>1 DEF AnswersNoted
        <5>3. k \in Nat
          <6>1. Range(h) \subseteq DOMAIN commits /\ commits \in Seq(GroupCommit)
            BY <1>1, <1>2, <3>1 DEF TypeInv, NetTypes, Histories
          <6>2. QED  BY <5>1, <6>1 DEF Again
        <5>4. answered[Creator][j] \in Nat /\ answered'[Creator][j] \in Nat
              /\ answered[Creator][j] <= answered'[Creator][j]
          BY <1>2, <1>6 DEF RequestTypes
        <5>5. QED  BY <5>2, <5>3, <5>4
      <4>3. QED  BY <4>1, <4>2
    <3>6. mls'[Creator].hist = g  BY <1>1, <3>1
    <3>7. QED  BY <1>1, <3>5, <3>6 DEF AnswersNoted
  <2>3. QED  BY <2>1, <2>2
<1>8. RequestTypes' /\ RequestsSeen'  BY <1>1, <1>2, <1>6 DEF RequestTypes, RequestsSeen
<1>9. QED  BY <1>5, <1>7, <1>8 DEF AnswerInv

LEMMA AnswerWelcome ==
  ASSUME TypeInv, CopyInv, AnswerInv, NEW i \in Inst, Welcome(i)
  PROVE  AnswerInv'
<1>1. PICK c \in DOMAIN commits, h \in Hist, n \in DOMAIN commits : Joins(i, c, h, n)
  BY WelcomeCases
<1>2. /\ c \in welcomes[i] /\ h = Append(commits[c].base, c)
      /\ mls'[i].hist = h /\ \A j \in Inst \ {i} : mls'[j] = mls[j]
      /\ UNCHANGED <<commits, remote, status, asked, mail>>
  BY <1>1 DEF Joins, Moved
<1>3. Creator \in Inst /\ i # Creator
  BY <1>2, InstAssumption DEF CopyInv, CreatorLog
<1>4. /\ RequestTypes /\ HistoriesBuild /\ AnswersSeen /\ AnswersNoted /\ RequestsSeen
      /\ RemoteGrows
  BY <1>2, ShownSame DEF AnswerInv
<1>5. HistoriesBuild' /\ AnswersSeen'  BY <1>2, <1>4, MoveAnswered
<1>6. PICK d \in Nat : answered' = MarkAnswered(i, {i}, d)
  <2>1. welcomes[i] \subseteq Nat /\ welcomes[i] # {}  BY DEF Welcome, TypeInv, NetTypes
  <2>2. Min(welcomes[i]) \in welcomes[i]  BY <2>1, Least
  <2>3. QED  BY <2>1, <2>2 DEF Welcome
<1>7. answered' \in [Inst -> [Inst -> Nat]] /\ \A k, j \in Inst : answered[k][j] <= answered'[k][j]
  BY <1>4, <1>6, MarkedAnswers
<1>8. \A j \in Inst : Again(commits', mls'[Creator].hist, j) = Again(commits, mls[Creator].hist, j)
  BY <1>2, <1>3
<1>9. \A j \in Inst : answered[Creator][j] <= answered'[Creator][j]  BY <1>3, <1>7
<1>10. AnswersNoted'  BY <1>4, <1>7, <1>8, <1>9, NotesStay
<1>11. RequestTypes' /\ RequestsSeen'  BY <1>2, <1>4, <1>7 DEF RequestTypes, RequestsSeen
<1>12. QED  BY <1>5, <1>10, <1>11 DEF AnswerInv

(* A request arrives, perhaps again, perhaps late. *)
LEMMA AnswerOneshot ==
  ASSUME TypeInv, AnswerInv, NEW i \in Inst, OneshotArrives(i)
  PROVE  AnswerInv'
<1>1. PICK m \in mail[i] :
        /\ mail' = [mail EXCEPT ![i] = @ \ {m}]
        /\ asked' = IF InTree(mls[i].hist, m.from)
                    THEN [asked EXCEPT ![i][m.from] = Max({m.seq, @})]
                    ELSE asked
        /\ UNCHANGED <<commits, mls, remote, status, answered>>
  BY DEF OneshotArrives, net, logs
<1>2. /\ RequestTypes /\ RequestsSeen /\ Creator \in Inst /\ RemoteGrows /\ FairCommit
  BY <1>1, InstAssumption, ShownSame DEF AnswerInv, FairCommit
<1>3. HistoriesBuild' /\ AnswersNoted' /\ AnswersSeen'  BY <1>1, <1>2, AnswerStays
<1>4. /\ m.from \in Inst /\ m.seq \in Nat /\ Shown(remote[m.from], m.seq)
      /\ asked \in [Inst -> [Inst -> Nat]]
  BY <1>2 DEF RequestTypes, RequestsSeen
<1>5. PICK s, old : old = asked[i][m.from] /\ s = Max({m.seq, old})  OBVIOUS
<1>6. s \in {m.seq, old} /\ s \in Nat
  <2>1. PICK S : S = {m.seq, old}  OBVIOUS
  <2>2. old \in Nat  BY <1>4, <1>5
  <2>3. S \subseteq Nat /\ S # {} /\ m.seq + old \in Nat /\ \A n \in S : n <= m.seq + old
    BY <1>4, <2>1, <2>2
  <2>4. s = Max(S)  BY <1>5, <2>1
  <2>5. s \in S  BY <2>3, <2>4, Greatest
  <2>6. QED  BY <2>1, <2>3, <2>5
<1>7. asked' \in {asked, [asked EXCEPT ![i][m.from] = s]}  BY <1>1, <1>5
<1>8. /\ asked' \in [Inst -> [Inst -> Nat]]
      /\ \A k, j \in Inst : asked'[k][j] = asked[k][j] \/ (j = m.from /\ asked'[k][j] = m.seq)
  <2>1. CASE asked' = asked  BY <1>4, <2>1
  <2>2. CASE asked' = [asked EXCEPT ![i][m.from] = s]
    <3>1. asked' \in [Inst -> [Inst -> Nat]]  BY <1>4, <1>6, <2>2
    <3>2. \A k, j \in Inst : asked'[k][j] = IF k = i /\ j = m.from THEN s ELSE asked[k][j]
      BY <1>4, <2>2
    <3>3. QED  BY <1>5, <1>6, <3>1, <3>2
  <2>3. QED  BY <1>7, <2>1, <2>2
<1>9. \A k \in Inst : mail'[k] \subseteq mail[k]
  <2>1. \A k \in Inst : mail'[k] \in {mail[k], mail[k] \ {m}}  BY <1>1 
  <2>2. QED  BY <2>1
<1>10. RequestTypes'  BY <1>1, <1>2, <1>8, <1>9 DEF RequestTypes
<1>11. RequestsSeen'
  <2>1. \A k \in Inst : \A x \in mail'[k] : Shown(remote[x.from], x.seq)
    BY <1>2, <1>9 DEF RequestsSeen
  <2>2. \A j \in Inst : asked'[Creator][j] # 0 => Shown(remote[j], asked'[Creator][j])
    BY <1>2, <1>4, <1>8 DEF RequestsSeen
  <2>3. QED  BY <1>1, <1>2, <2>1, <2>2 DEF RequestsSeen
<1>12. QED  BY <1>3, <1>10, <1>11 DEF AnswerInv

LEMMA AnswerRequest ==
  ASSUME TypeInv, CopyInv, AnswerInv, NEW i \in Inst, RequestReadd(i)
  PROVE  AnswerInv'
<1>1. UNCHANGED <<commits, mls, remote, status, answered>>  BY DEF RequestReadd, net, logs
<1>2. /\ RequestTypes /\ RequestsSeen /\ Creator \in Inst /\ RemoteGrows /\ FairCommit
  BY <1>1, InstAssumption, ShownSame DEF AnswerInv, FairCommit
<1>3. HistoriesBuild' /\ AnswersNoted' /\ AnswersSeen'  BY <1>1, <1>2, AnswerStays
<1>4. CASE ~Recovery \/ status[i] # "forked" \/ Awaiting(i, i)
  <2>1. UNCHANGED <<asked, mail>>  BY <1>4 DEF RequestReadd
  <2>2. RequestTypes' /\ RequestsSeen'  BY <1>1, <1>2, <2>1 DEF RequestTypes, RequestsSeen
  <2>3. QED  BY <1>3, <2>2 DEF AnswerInv
<1>5. CASE ~(~Recovery \/ status[i] # "forked" \/ Awaiting(i, i))
  <2>1. PICK saved, own : saved = remote[i] /\ own = rows[Creator]  OBVIOUS
  <2>2. PICK S : S = {saved[m].seq : m \in DOMAIN saved}  OBVIOUS
  <2>3. PICK latest : latest = Max(S)  OBVIOUS
  <2>4. i # Creator /\ saved # <<>> /\ saved \in Seq(SavedRow) /\ IsCopy(saved)
    BY <1>2, <1>5, <2>1 DEF RequestsSeen, TypeInv, LogTypes, CopyInv, SavedCopies
  <2>5. PICK len \in Nat : /\ len = Len(own) /\ len > 1 /\ \A n \in 1..len : own[n].seq \in Nat
                           /\ \A m, n \in 1..len : m < n => own[m].seq < own[n].seq
    BY <2>1, CreatorRows DEF CopyInv
  <2>6. /\ DOMAIN saved = 1..Len(saved) /\ Len(saved) \in Nat /\ Len(saved) < len
        /\ \A m \in 1..Len(saved) : saved[m].seq = own[m + 1].seq
    <3>1. Len(saved) < len /\ \A m \in 1..Len(saved) : saved[m] = CopyOf(m + 1)
      BY <2>1, <2>4, <2>5 DEF IsCopy
    <3>2. DOMAIN saved = 1..Len(saved) /\ Len(saved) \in Nat  BY <2>4
    <3>3. ASSUME NEW m \in 1..Len(saved) PROVE saved[m].seq = own[m + 1].seq
      <4>1. saved[m] = CopyOf(m + 1)  BY <3>1
      <4>2. QED  BY <2>1, <4>1 DEF CopyOf
    <3>4. QED  BY <3>1, <3>2, <3>3
  <2>7. PICK b \in Nat : b = own[len].seq  BY <2>5
  <2>8. ASSUME NEW m \in DOMAIN saved PROVE saved[m].seq \in Nat /\ saved[m].seq <= b
    <3>1. PICK n \in 1..len : n = m + 1  BY <2>5, <2>6
    <3>2. saved[m].seq = own[n].seq /\ own[n].seq \in Nat  BY <2>5, <2>6, <3>1
    <3>3. CASE n = len  BY <2>7, <3>2, <3>3
    <3>4. CASE n # len
      <4>1. n < len /\ len \in 1..len  BY <2>5, <3>1, <3>4
      <4>2. own[n].seq < own[len].seq  BY <2>5, <4>1
      <4>3. QED  BY <2>7, <3>2, <4>2
    <3>5. QED  BY <3>3, <3>4
  <2>9. S \subseteq Nat /\ S # {} /\ \A n \in S : n <= b
    <3>1. 1 \in DOMAIN saved  BY <2>4
    <3>2. QED  BY <2>2, <2>8, <3>1
  <2>10. latest \in S  BY <2>3, <2>9, Greatest
  <2>11. latest \in Nat /\ Shown(saved, latest)
    <3>1. PICK m \in DOMAIN saved : latest = saved[m].seq  BY <2>2, <2>10
    <3>2. latest \in Nat /\ saved[m].seq >= latest  BY <2>8, <3>1
    <3>3. QED  BY <3>2 DEF Shown
  <2>12. PICK x : x = [from |-> i, seq |-> latest]  OBVIOUS
  <2>13. mail' = [j \in Inst |-> IF j \in Admins \ {i} THEN mail[j] \cup {x} ELSE mail[j]]
    BY <1>5, <2>1, <2>2, <2>3, <2>12 DEF RequestReadd
  <2>14. \A j \in Inst : \A m \in mail'[j] : m \in mail[j] \/ m = x  BY <2>13
  <2>15. asked \in [Inst -> [Inst -> Nat]]  BY <1>2 DEF RequestTypes
  <2>16. asked' \in [Inst -> [Inst -> Nat]] /\ asked'[Creator] = asked[Creator]
    <3>1. CASE UNCHANGED asked  BY <2>15, <3>1
    <3>2. CASE ~UNCHANGED asked
      <4>1. PICK s : s = Max({latest, asked[i][i]})  OBVIOUS
      <4>2. asked' = [asked EXCEPT ![i][i] = s]
        BY <1>5, <2>1, <2>2, <2>3, <3>2, <4>1 DEF RequestReadd
      <4>3. s \in Nat
        <5>1. PICK T : T = {latest, asked[i][i]}  OBVIOUS
        <5>2. asked[i][i] \in Nat  BY <2>15
        <5>3. PICK e : e = latest + asked[i][i]  OBVIOUS
        <5>4. T \subseteq Nat /\ T # {} /\ e \in Nat /\ \A n \in T : n <= e
          BY <2>11, <5>1, <5>2, <5>3
        <5>5. Max(T) \in T  BY <5>4, Greatest
        <5>6. QED  BY <4>1, <5>1, <5>4, <5>5
      <4>4. QED  BY <1>2, <2>4, <2>15, <4>2, <4>3
    <3>3. QED  BY <3>1, <3>2
  <2>17. RequestTypes'
    BY <1>1, <1>2, <2>11, <2>12, <2>14, <2>16 DEF RequestTypes
  <2>18. RequestsSeen'
    <3>1. \A j \in Inst : \A m \in mail'[j] : Shown(remote[m.from], m.seq)
      BY <1>2, <2>1, <2>11, <2>12, <2>14 DEF RequestsSeen
    <3>2. QED  BY <1>1, <1>2, <2>16, <3>1 DEF RequestsSeen
  <2>19. QED  BY <1>3, <2>17, <2>18 DEF AnswerInv
<1>6. QED  BY <1>4, <1>5

(* Who still waits for an answer has seen every earlier one. *)
LEMMA WaitersHaveSeen ==
  ASSUME TypeInv, AnswerInv, NEW j \in Inst, Awaiting(Creator, j),
         NEW c \in Again(commits, mls[Creator].hist, j)
  PROVE  Shown(remote[j], c)
<1>1. Creator \in Inst  BY InstAssumption
<1>2. PICK s \in Nat, t \in Nat : s = asked[Creator][j] /\ t = answered[Creator][j]
  BY <1>1 DEF AnswerInv, RequestTypes
<1>3. t <= s /\ Shown(remote[j], s)
  BY <1>2 DEF Awaiting, AnswerInv, RequestsSeen
<1>4. c \in Nat
  <2>1. Range(mls[Creator].hist) \subseteq DOMAIN commits /\ commits \in Seq(GroupCommit)
    BY <1>1 DEF TypeInv, NetTypes, Histories
  <2>2. QED  BY <2>1 DEF Again
<1>5. c <= t \/ Shown(remote[j], c)  BY <1>2 DEF AnswerInv, AnswersNoted
<1>6. ASSUME c <= t PROVE Shown(remote[j], c)
  <2>1. PICK saved : saved = remote[j]  OBVIOUS
  <2>2. saved \in Seq(SavedRow)  BY <2>1 DEF TypeInv, LogTypes
  <2>3. PICK m \in DOMAIN saved : saved[m].seq >= s  BY <1>3, <2>1 DEF Shown
  <2>4. saved[m] \in SavedRow  BY <2>2, <2>3
  <2>5. saved[m].seq \in Nat  BY <2>4 DEF SavedRow
  <2>6. saved[m].seq >= c  BY <1>2, <1>3, <1>4, <1>6, <2>3, <2>5
  <2>7. QED  BY <2>1, <2>3, <2>6 DEF Shown
<1>7. QED  BY <1>5, <1>6

(* What the creator commits and forgets when it answers. *)
LEMMA AnswersGiven ==
  ASSUME TypeInv, CopyInv, AnswerInv, Admins = {Creator}, NEW i \in Inst, RespondReadds(i)
  PROVE  \E gone \in SUBSET Inst :
           /\ asked' = [asked EXCEPT ![i] = [j \in Inst |-> IF j \in gone THEN 0 ELSE asked[i][j]]]
           /\ answered' = [answered EXCEPT ![i] =
                             [j \in Inst |-> IF j \in gone THEN 0 ELSE answered[i][j]]]
           /\ i = Creator => \A j \in gone : Awaiting(Creator, j)
           /\ \/ UNCHANGED commits
              \/ /\ i = Creator
                 /\ \E js \in SUBSET Inst : /\ \A j \in js : Awaiting(Creator, j)
                                            /\ commits' = Append(commits, Commit(i, js, js, None))
<1>1. asked \in [Inst -> [Inst -> Nat]] /\ answered \in [Inst -> [Inst -> Nat]]
  BY DEF AnswerInv, RequestTypes
<1>2. CASE \A j \in Inst : ~Awaiting(i, j)
  <2>1. UNCHANGED <<commits, asked, answered>>  BY <1>2 DEF RespondReadds
  <2>2. PICK gone \in SUBSET Inst : gone = {}  OBVIOUS
  <2>3. /\ asked = [asked EXCEPT ![i] = [j \in Inst |-> IF j \in gone THEN 0 ELSE asked[i][j]]]
        /\ answered = [answered EXCEPT ![i] =
                         [j \in Inst |-> IF j \in gone THEN 0 ELSE answered[i][j]]]
    BY <1>1, <2>2
  <2>4. QED  BY <2>1, <2>2, <2>3
<1>3. CASE ~\A j \in Inst : ~Awaiting(i, j)
  <2>1. PICK check : check = CheckForkState(i)  OBVIOUS
  <2>2. PICK pending : pending = {j \in Inst \ {i} : Awaiting(i, j)}  OBVIOUS
  <2>3. PICK verified : verified = {j \in pending : InTree(mls[i].hist, j)}  OBVIOUS
  <2>4. PICK gone : gone = IF Refused(i, check) THEN Inst \ {i}
                           ELSE IF check.verdict = "unknown" THEN {} ELSE pending \ verified
    OBVIOUS
  <2>5. /\ asked' = [asked EXCEPT ![i] = [j \in Inst |-> IF j \in gone THEN 0 ELSE asked[i][j]]]
        /\ answered' = [answered EXCEPT ![i] =
                          [j \in Inst |-> IF j \in gone THEN 0 ELSE answered[i][j]]]
        /\ IF ~Refused(i, check) /\ check.verdict = "clean" /\ verified # {}
           THEN commits' = Append(commits, Commit(i, verified, verified, None))
           ELSE UNCHANGED commits
    BY <1>3, <2>1, <2>2, <2>3, <2>4 DEF RespondReadds
  <2>6. gone \in SUBSET Inst /\ verified \in SUBSET Inst  BY <2>2, <2>3, <2>4
  <2>7. i = Creator => ~Refused(i, check)
    <3>1. SUFFICES ASSUME i = Creator PROVE ~Refused(i, check)  OBVIOUS
    <3>2. check.verdict = "forked" => status[i] = "forked" \/ ForkedBasis(i)
      BY <2>1, CheckFacts
    <3>3. status[i] # "forked" /\ ~ForkedBasis(i)
      BY <3>1, CreatorAgrees DEF AnswerInv, RequestsSeen
    <3>4. mls[i].active /\ i \in Admins  BY <3>1 DEF CopyInv, CreatorLog
    <3>5. QED  BY <3>2, <3>3, <3>4 DEF Refused
  <2>8. i = Creator => \A j \in gone : Awaiting(Creator, j)  BY <2>2, <2>4, <2>7
  <2>9. commits' # commits => i = Creator /\ \A j \in verified : Awaiting(Creator, j)
    BY <2>2, <2>3, <2>5 DEF Refused
  <2>10. QED  BY <2>5, <2>6, <2>8, <2>9
<1>4. QED  BY <1>2, <1>3

LEMMA AnswerRespond ==
  ASSUME TypeInv, CopyInv, AnswerInv, Admins = {Creator}, NEW i \in Inst, RespondReadds(i)
  PROVE  AnswerInv'
<1>1. UNCHANGED <<mls, remote, status, mail>>  BY RespondEffect
<1>2. PICK gone \in SUBSET Inst :
           /\ asked' = [asked EXCEPT ![i] = [j \in Inst |-> IF j \in gone THEN 0 ELSE asked[i][j]]]
           /\ answered' = [answered EXCEPT ![i] =
                             [j \in Inst |-> IF j \in gone THEN 0 ELSE answered[i][j]]]
           /\ i = Creator => \A j \in gone : Awaiting(Creator, j)
           /\ \/ UNCHANGED commits
              \/ /\ i = Creator
                 /\ \E js \in SUBSET Inst : /\ \A j \in js : Awaiting(Creator, j)
                                            /\ commits' = Append(commits, Commit(i, js, js, None))
  BY AnswersGiven
<1>3. /\ RequestTypes /\ HistoriesBuild /\ RequestsSeen /\ AnswersNoted /\ AnswersSeen
      /\ Creator \in Inst /\ RemoteGrows
      /\ asked \in [Inst -> [Inst -> Nat]] /\ answered \in [Inst -> [Inst -> Nat]]
  BY <1>1, InstAssumption, ShownSame DEF AnswerInv, RequestTypes
<1>4. FairCommit
  <2>1. CASE UNCHANGED commits  BY <2>1 DEF FairCommit
  <2>2. CASE ~UNCHANGED commits
    <3>1. PICK js \in SUBSET Inst : /\ \A j \in js : Awaiting(Creator, j)
                                    /\ commits' = Append(commits, Commit(Creator, js, js, None))
      BY <1>2, <2>2
    <3>2. PICK x : x = Commit(Creator, js, js, None)  OBVIOUS
    <3>3. None \in Key  BY DEF Key
    <3>4. x \in GroupCommit /\ x.base = mls[Creator].hist /\ x.removes = js /\ x.adds = js
      <4>1. Creator \in Inst /\ js \in SUBSET Inst  BY <1>3
      <4>2. x \in GroupCommit  BY <3>2, <3>3, <4>1, NewCommit
      <4>3. QED  BY <3>2, <4>2 DEF Commit
    <3>5. OlderSeen(x)  BY <3>1, <3>4, WaitersHaveSeen DEF OlderSeen
    <3>6. QED  BY <1>3, <3>1, <3>2, <3>4, <3>5 DEF FairCommit
  <2>3. QED  BY <2>1, <2>2
<1>5. /\ HistoriesBuild' /\ AnswersSeen'
      /\ \A j \in Inst : Again(commits', mls[Creator].hist, j) = Again(commits, mls[Creator].hist, j)
  BY <1>1, <1>3, <1>4, CommitAnswered
<1>6. /\ asked' \in [Inst -> [Inst -> Nat]] /\ answered' \in [Inst -> [Inst -> Nat]]
      /\ \A j \in Inst : asked'[Creator][j] \in {0, asked[Creator][j]}
      /\ \A j \in Inst : answered'[Creator][j] = answered[Creator][j] \/ (i = Creator /\ j \in gone)
  <2>1. PICK f, g : /\ f = [j \in Inst |-> IF j \in gone THEN 0 ELSE asked[i][j]]
                    /\ g = [j \in Inst |-> IF j \in gone THEN 0 ELSE answered[i][j]]
    OBVIOUS
  <2>2. /\ f \in [Inst -> Nat] /\ g \in [Inst -> Nat]
        /\ \A j \in Inst : f[j] \in {0, asked[i][j]} /\ (g[j] = answered[i][j] \/ j \in gone)
    BY <1>3, <2>1
  <2>3. asked' = [asked EXCEPT ![i] = f] /\ answered' = [answered EXCEPT ![i] = g]
    BY <1>2, <2>1
  <2>4. QED  BY <1>3, <2>2, <2>3
<1>7. AnswersNoted'
  <2>1. ASSUME NEW j \in Inst, NEW c \in Again(commits, mls[Creator].hist, j)
        PROVE  c <= answered'[Creator][j] \/ Shown(remote[j], c)
    <3>1. CASE answered'[Creator][j] = answered[Creator][j]
      BY <1>3, <2>1, <3>1 DEF AnswersNoted
    <3>2. CASE i = Creator /\ j \in gone
      <4>1. Awaiting(Creator, j)  BY <1>2, <3>2
      <4>2. QED  BY <2>1, <4>1, WaitersHaveSeen
    <3>3. QED  BY <1>6, <3>1, <3>2
  <2>2. QED  BY <1>1, <1>5, <2>1 DEF AnswersNoted
<1>8. RequestTypes'  BY <1>1, <1>3, <1>6 DEF RequestTypes
<1>9. RequestsSeen'  BY <1>1, <1>3, <1>6 DEF RequestsSeen
<1>10. QED  BY <1>5, <1>7, <1>8, <1>9 DEF AnswerInv

LEMMA AnswerInit == Init => AnswerInv
<1>1. SUFFICES ASSUME Init PROVE AnswerInv  OBVIOUS
<1>2. PICK cs : cs = commits  OBVIOUS
<1>3. Len(cs) = 1 /\ DOMAIN cs = {1} /\ cs[1].base = <<>> /\ cs[1].removes = {}
  <2>1. PICK x : x = [by |-> Creator, base |-> <<>>, removes |-> {}, adds |-> Inst, key |-> None]
    OBVIOUS
  <2>2. cs = <<x>>  BY <1>1, <1>2, <2>1 DEF Init
  <2>3. QED  BY <2>1, <2>2
<1>4. /\ \A i \in Inst : mls[i].hist = <<1>> /\ status[i] = "unknown" /\ mail[i] = {}
      /\ asked = [i \in Inst |-> [j \in Inst |-> 0]]
      /\ answered = [i \in Inst |-> [j \in Inst |-> 0]]
  BY <1>1 DEF Init
<1>5. RequestTypes  BY <1>4 DEF RequestTypes
<1>6. HistoriesBuild
  <2>1. Builds(cs, <<>>) /\ Range(<<>>) = {}  BY DEF Builds, Range
  <2>2. Builds(cs, <<1>>)
    <3>1. DOMAIN <<1>> = {1}  OBVIOUS
    <3>2. \A m, n \in {1} : ~(m < n)  OBVIOUS
    <3>3. QED  BY <3>1, <3>2 DEF Builds
  <2>3. QED  BY <1>2, <1>3, <1>4, <2>1, <2>2 DEF HistoriesBuild
<1>7. RequestsSeen  BY <1>4, InstAssumption DEF RequestsSeen
<1>8. AnswersNoted
  <2>1. Range(<<1>>) = {1}  BY DEF Range
  <2>2. \A j : Again(cs, <<1>>, j) = {}  BY <1>3, <2>1 DEF Again
  <2>3. QED  BY <1>2, <1>4, <2>2, InstAssumption DEF AnswersNoted
<1>9. AnswersSeen  BY <1>2, <1>3 DEF AnswersSeen, OlderSeen
<1>10. QED  BY <1>5, <1>6, <1>7, <1>8, <1>9 DEF AnswerInv

LEMMA AnswerStep ==
  ASSUME TypeInv, CopyInv, AnswerInv, Admins = {Creator}, [Next]_vars
  PROVE  AnswerInv'
<1>1. ASSUME UNCHANGED <<commits, mls, remote, status, asked, answered, mail>> PROVE AnswerInv'
  <2>1. RemoteGrows /\ FairCommit  BY <1>1, ShownSame DEF FairCommit
  <2>2. HistoriesBuild' /\ AnswersNoted' /\ AnswersSeen'  BY <1>1, <2>1, AnswerStays
  <2>3. RequestTypes' /\ RequestsSeen'  BY <1>1 DEF AnswerInv, RequestTypes, RequestsSeen
  <2>4. QED  BY <2>2, <2>3 DEF AnswerInv
<1>2. CASE UNCHANGED vars  BY <1>1, <1>2 DEF vars, net, logs, readds
<1>3. ASSUME NEW i \in Inst, Propose(i) PROVE AnswerInv'  BY <1>3, AnswerPropose
<1>4. ASSUME NEW i \in Inst, Follow(i) PROVE AnswerInv'
  BY <1>4, AnswerReceive, AnswerWelcome, AnswerOneshot DEF Follow
<1>5. ASSUME NEW i \in Inst, PublishCommitLogs(i) PROVE AnswerInv'
  BY <1>1, <1>5 DEF PublishCommitLogs, readds
<1>6. ASSUME NEW i \in Inst, Tick(i) PROVE AnswerInv'
  BY <1>5, <1>6, AnswerSave, AnswerUpdate, AnswerRequest, AnswerRespond DEF Tick
<1>7. QED  BY <1>2, <1>3, <1>4, <1>6 DEF Next

LEMMA AnswersOnce ==
  ASSUME TypeInv, AnswerInv
  PROVE  AnsweredOnce
<1>1. ASSUME NEW i \in Inst, NEW j \in Inst, NEW c \in Readds(mls[i].hist, j),
             NEW d \in Readds(mls[i].hist, j), c < d
      PROVE  Shown(remote[j], c)
  <2>1. PICK h : h = mls[i].hist  OBVIOUS
  <2>2. /\ h \in Hist /\ Range(h) \subseteq DOMAIN commits /\ commits \in Seq(GroupCommit)
        /\ Builds(commits, h)
    BY <2>1 DEF TypeInv, NetTypes, Histories, AnswerInv, HistoriesBuild
  <2>3. /\ c \in Range(h) /\ j \in commits[c].removes \cap commits[c].adds
        /\ d \in Range(h) /\ j \in commits[d].removes \cap commits[d].adds
    BY <1>1, <2>1 DEF Readds
  <2>4. PICK m \in DOMAIN h, n \in DOMAIN h : c = h[m] /\ d = h[n]  BY <2>3 DEF Range
  <2>5. m < n
    <3>1. c \in Nat /\ d \in Nat /\ m \in Nat /\ n \in Nat  BY <2>2, <2>3, <2>4 DEF Hist
    <3>2. CASE n < m
      <4>1. d < c  BY <2>2, <2>4, <3>2 DEF Builds
      <4>2. QED  BY <1>1, <3>1, <4>1
    <3>3. CASE n = m  BY <1>1, <2>4, <3>1, <3>3
    <3>4. QED  BY <3>1, <3>2, <3>3
  <2>6. c \in Range(commits[d].base)  BY <2>2, <2>4, <2>5 DEF Builds
  <2>7. d \in DOMAIN commits /\ OlderSeen(commits[d])  BY <2>2, <2>3 DEF AnswerInv, AnswersSeen
  <2>8. c \in Again(commits, commits[d].base, j)  BY <2>3, <2>6 DEF Again
  <2>9. QED  BY <2>3, <2>7, <2>8 DEF OlderSeen
<1>2. QED  BY <1>1 DEF AnsweredOnce, Shown

(* When the creator is the only super admin an installation that asked to  *)
(* be added again is added again once: whatever it repeats, and however    *)
(* late its requests arrive or its answers are noted, the next time comes  *)
(* after it has seen the time before in the consensus                      *)
(* (is_awaiting_readd, mark_readd_requests_as_responded,                   *)
(* validate_pending_readds).                                               *)
THEOREM AddedAgainOnce == ASSUME Admins = {Creator} PROVE Spec => []AnsweredOnce
<1>1. Init => TypeInv /\ CopyInv /\ AnswerInv  BY TypeInit, CopyInit, AnswerInit
<1>2. TypeInv /\ CopyInv /\ AnswerInv /\ [Next]_vars => (TypeInv /\ CopyInv /\ AnswerInv)'
  BY TypeStep, CopyStep, AnswerStep
<1>3. TypeInv /\ AnswerInv => AnsweredOnce  BY AnswersOnce
<1>4. QED  BY <1>1, <1>2, <1>3, PTL DEF Spec

-----------------------------------------------------------------------------
(* A divergence is noticed, when the creator alone publishes *)

(* The creator was at epoch h.                                             *)
Taken(h) == \E m \in DOMAIN rows[Creator] : rows[Creator][m].applied = h

(* It has one row for every commit, and never takes one back.              *)
OwnRows ==
  LET own == rows[Creator]
  IN  /\ Len(own) = mls[Creator].cursor + 1
      /\ \A n \in 1..Len(own) :
           own[n].seq = n - 1 /\ Extends(own[n].applied, mls[Creator].hist)

LastRows == \A i \in Inst : LastRow(i)

(* The rows of commits are in the order of the commits.                    *)
Rises(rs, c) ==
  \A n \in DOMAIN rs :
    /\ rs[n].seq <= c
    /\ rs[n].seq # 0 => \A m \in DOMAIN rs : m < n => rs[m].seq < rs[n].seq
Rising == \A i \in Inst : Rises(rows[i], mls[i].cursor)

(* Who is added starts from an epoch of the creator.                       *)
CreatorInvites == \A c \in DOMAIN commits : commits[c].adds # {} => commits[c].by = Creator
WelcomesTaken == \A i \in Inst : \A c \in welcomes[i] : Taken(Append(commits[c].base, c))
StartsTaken ==
  \A i \in Inst : \A n \in DOMAIN rows[i] : rows[i][n].seq = 0 => Taken(rows[i][n].applied)

(* What the fork check has passed agreed with the creator, unless it said  *)
(* so; and what it has passed of the saved log it has of its own as well.  *)
LocalPassed(i, local) ==
  local # 0 => RemovesUs(rows[i][local]) \/ Taken(rows[i][local].applied)
RemotePassed(i, local, rem) ==
  rem # 0 => \E n \in 1..local : rem <= rows[i][n].seq
ChecksTaken ==
  \A i \in Inst \ {Creator} :
    /\ status[i] # "forked" => LocalPassed(i, cur[i].local)
    /\ RemotePassed(i, cur[i].local, cur[i].rem)

NoticeInv ==
  /\ LastRows /\ OwnRows /\ Rising
  /\ CreatorInvites /\ WelcomesTaken /\ StartsTaken /\ ChecksTaken

LEMMA TakenStays ==
  ASSUME TypeInv, [Next]_vars
  PROVE  \A h : Taken(h) => Taken(h)'
<1>1. PICK own, new : own = rows[Creator] /\ new = rows'[Creator]  OBVIOUS
<1>2. Extends(own, new) /\ own \in Seq(LocalRow) /\ new \in Seq(LocalRow)
  BY <1>1, InstAssumption, TypeStep, RowsGrow DEF TypeInv, LogTypes
<1>3. ASSUME NEW h, Taken(h) PROVE \E m \in DOMAIN new : new[m].applied = h
  <2>1. PICK m \in DOMAIN own : own[m].applied = h  BY <1>1, <1>3 DEF Taken
  <2>2. m \in DOMAIN new /\ new[m] = own[m]  BY <1>2, <2>1 DEF Extends
  <2>3. QED  BY <2>1, <2>2
<1>4. QED  BY <1>1, <1>3 DEF Taken

(* One more row.                                                           *)
LEMMA RisesOn ==
  ASSUME NEW rs \in Seq(LocalRow), NEW c \in Nat, Rises(rs, c), NEW d \in Nat, c <= d
  PROVE  /\ Rises(rs, d)
         /\ \A r \in LocalRow : r.seq = 0 \/ (r.seq = d /\ c < d) => Rises(Append(rs, r), d)
<1>1. \A n \in DOMAIN rs : rs[n].seq \in Nat /\ rs[n].seq <= c
  <2>1. \A n \in DOMAIN rs : rs[n] \in LocalRow  OBVIOUS
  <2>2. QED  BY <2>1 DEF Rises, LocalRow
<1>2. Rises(rs, d)
  <2>1. \A n \in DOMAIN rs : rs[n].seq <= d  BY <1>1
  <2>2. QED  BY <2>1 DEF Rises
<1>3. ASSUME NEW r \in LocalRow, r.seq = 0 \/ (r.seq = d /\ c < d)
      PROVE  Rises(Append(rs, r), d)
  <2>1. PICK t, len : t = Append(rs, r) /\ len = Len(rs)  OBVIOUS
  <2>2. /\ len \in Nat /\ DOMAIN rs = 1..len /\ DOMAIN t = 1..len + 1 /\ t[len + 1] = r
        /\ \A k \in 1..len : t[k] = rs[k]
    BY <2>1, Appended
  <2>3. ASSUME NEW n \in 1..len + 1
        PROVE  t[n].seq <= d /\ (t[n].seq # 0 => \A m \in 1..len + 1 : m < n => t[m].seq < t[n].seq)
    <3>1. CASE n \in 1..len
      <4>1. t[n] = rs[n] /\ rs[n].seq <= d  BY <1>1, <2>2, <3>1
      <4>2. \A m \in 1..len + 1 : m < n => m \in 1..len  BY <2>2, <3>1
      <4>3. QED  BY <2>2, <3>1, <4>1, <4>2 DEF Rises
    <3>2. CASE n = len + 1
      <4>1. t[n] = r /\ r.seq <= d  BY <1>3, <2>2, <3>2
      <4>2. \A m \in 1..len + 1 : m < n => m \in 1..len  BY <2>2, <3>2
      <4>3. ASSUME r.seq # 0, NEW m \in 1..len PROVE t[m].seq < r.seq
        <5>1. t[m].seq \in Nat /\ t[m].seq <= c  BY <1>1, <2>2
        <5>2. QED  BY <1>3, <4>3, <5>1
      <4>4. QED  BY <4>1, <4>2, <4>3
    <3>3. QED  BY <2>2, <3>1, <3>2
  <2>4. QED  BY <2>1, <2>2, <2>3 DEF Rises
<1>4. QED  BY <1>2, <1>3

(* What a move of installation i leaves behind.                            *)
LEMMA NoticeMoved ==
  ASSUME TypeInv, TypeInv', LastRows, Rising, NEW i \in Inst, NEW h \in Hist, NEW active \in BOOLEAN,
         NEW c \in Nat, mls[i].cursor <= c, NEW rs, Moved(i, h, active, c, rs),
         rs = rows[i] \/ \E r \in LocalRow : rs = Append(rows[i], r)
                                             /\ (r.seq = 0 \/ (r.seq = c /\ mls[i].cursor < c)),
         active => Last(rs).applied = h /\ ~RemovesUs(Last(rs))
  PROVE  LastRows' /\ Rising'
<1>1. /\ rows'[i] = rs /\ mls'[i].hist = h /\ mls'[i].active = active /\ mls'[i].cursor = c
      /\ \A j \in Inst \ {i} : mls'[j] = mls[j] /\ rows'[j] = rows[j]
  BY DEF Moved, TypeInv, LogTypes
<1>2. rows[i] \in Seq(LocalRow) /\ mls[i].cursor \in Nat /\ Rises(rows[i], mls[i].cursor)
  BY DEF TypeInv, LogTypes, NetTypes, Rising
<1>3. Rises(rs, c)
  <2>1. PICK old, d : old = rows[i] /\ d = mls[i].cursor  OBVIOUS
  <2>2. old \in Seq(LocalRow) /\ d \in Nat /\ d <= c /\ Rises(old, d)  BY <1>2, <2>1
  <2>3. /\ Rises(old, c)
        /\ \A r \in LocalRow : r.seq = 0 \/ (r.seq = c /\ d < c) => Rises(Append(old, r), c)
    BY <2>2, RisesOn
  <2>4. QED  BY <2>1, <2>3
<1>4. Rising'  BY <1>1, <1>3 DEF Rising, Rises
<1>5. ASSUME NEW j \in Inst PROVE LastRow(j)'
  <2>1. CASE j = i
    <3>1. mls'[j].active => Last(rows'[j]).applied = mls'[j].hist /\ ~RemovesUs(Last(rows'[j]))
      BY <1>1, <2>1
    <3>2. QED  BY <3>1 DEF LastRow, RemovesUs, Success
  <2>2. CASE j # i  BY <1>1, <2>2 DEF LastRows, LastRow, RemovesUs, Success
  <2>3. QED  BY <2>1, <2>2
<1>6. QED  BY <1>4, <1>5 DEF LastRows

(* The checks that were made stay right while the logs grow.               *)
LEMMA ChecksStay ==
  ASSUME TypeInv, [Next]_vars, NEW i \in Inst \ {Creator}, NEW local \in 0..Len(rows[i]), NEW rem
  PROVE  /\ LocalPassed(i, local) => LocalPassed(i, local)'
         /\ RemotePassed(i, local, rem) => RemotePassed(i, local, rem)'
<1>1. PICK rs : rs = rows'[i]  OBVIOUS
<1>2. /\ Len(rows[i]) \in Nat /\ local \in Nat
      /\ \A n \in 1..local : rs[n] = rows[i][n]
  <2>1. Len(rows[i]) \in Nat  BY DEF TypeInv, LogTypes
  <2>2. Extends(rows[i], rs)  BY <1>1, RowsGrow
  <2>3. \A n \in 1..local : n \in 1..Len(rows[i])  BY <2>1
  <2>4. QED  BY <2>1, <2>2, <2>3 DEF Extends
<1>3. \A h : Taken(h) => Taken(h)'  BY TakenStays
<1>4. LocalPassed(i, local) => LocalPassed(i, local)'
  <2>1. SUFFICES ASSUME LocalPassed(i, local), local # 0
                 PROVE  RemovesUs(rs[local]) \/ Taken(rs[local].applied)'
    BY <1>1 DEF LocalPassed, RemovesUs, Success
  <2>2. rs[local] = rows[i][local]  BY <1>2, <2>1
  <2>3. PICK h : h = rows[i][local].applied  OBVIOUS
  <2>4. RemovesUs(rows[i][local]) \/ Taken(h)  BY <2>1, <2>3 DEF LocalPassed
  <2>5. Taken(h) => Taken(h)'  BY <1>3
  <2>6. QED  BY <2>2, <2>3, <2>4, <2>5 DEF Taken
<1>5. RemotePassed(i, local, rem) => RemotePassed(i, local, rem)'
  BY <1>1, <1>2 DEF RemotePassed
<1>6. QED  BY <1>4, <1>5

(* What a check of installation i that finds no fork has compared.         *)
LEMMA CheckPasses ==
  ASSUME TypeInv, NEW i \in Inst
  PROVE  LET check == CheckForkState(i)
         IN /\ check.verdict # "forked" =>
                 \/ check.local = cur[i].local
                 \/ check.local \in DOMAIN rows[i] /\ rows[i][check.local].seq = 0
                 \/ check.local \in DOMAIN rows[i] /\ RemovesUs(rows[i][check.local])
                 \/ \E m \in DOMAIN remote[i] : remote[i][m].applied = rows[i][check.local].applied
            /\ \/ check.rem = cur[i].rem
               \/ \E n \in 1..check.local : /\ check.rem \in DOMAIN remote[i]
                                            /\ remote[i][check.rem].seq = rows[i][n].seq
<1>0. PICK check : check = CheckForkState(i)  OBVIOUS
<1> DEFINE L        == Len(rows[i])
           local    == cur[i].local
           rem      == cur[i].rem
           floor    == Max({local, ChainStart(i)})
           fresh    == {n \in DOMAIN rows[i] : n > floor /\ rows[i][n].seq # 0}
           removals == {n \in fresh : RemovesUs(rows[i][n])}
           matches  == {n \in fresh \ removals : Matching(i, rows[i][n].seq) # {}}
<1>1. /\ L \in Nat /\ DOMAIN rows[i] = 1..L /\ Len(remote[i]) \in Nat
      /\ DOMAIN remote[i] = 1..Len(remote[i]) /\ local \in 0..L /\ rem \in Nat
      /\ rows[i] # <<>> /\ rows[i][1].seq = 0 /\ 1 \in 1..L
  <2>1. rows[i] \in Seq(LocalRow) /\ remote[i] \in Seq(SavedRow)  BY DEF TypeInv, LogTypes
  <2>2. cur[i] \in [download : Nat, upload : Nat, local : Nat, rem : Nat]
    BY DEF TypeInv, LogTypes
  <2>3. rows[i] # <<>> /\ rows[i][1].seq = 0 /\ local <= L  BY DEF TypeInv, Cursors
  <2>4. QED  BY <2>1, <2>2, <2>3
<1>2. ChainStart(i) \in 1..L /\ rows[i][ChainStart(i)].seq = 0
  <2> DEFINE S == {n \in DOMAIN rows[i] : rows[i][n].seq = 0}
  <2>1. S \subseteq Nat /\ S # {} /\ \A n \in S : n <= L  BY <1>1
  <2>2. ChainStart(i) = Max(S)  BY DEF ChainStart
  <2>3. Max(S) \in S
    <3> HIDE DEF S
    <3>1. QED  BY <1>1, <2>1, Greatest
  <2>4. QED  BY <1>1, <2>2, <2>3
<1>3. floor = local \/ (floor \in 1..L /\ rows[i][floor].seq = 0)
  <2> DEFINE S == {local, ChainStart(i)}
  <2>1. S \subseteq Nat /\ S # {} /\ \A n \in S : n <= L  BY <1>1, <1>2
  <2>2. floor = Max(S)  OBVIOUS
  <2> HIDE DEF S, floor
  <2>3. floor \in S  BY <1>1, <2>1, <2>2, Greatest
  <2>4. QED  BY <1>2, <2>3 DEF S
<1>4. floor \in 0..L  BY <1>1, <1>3
<1> HIDE DEF floor
<1>5. fresh \subseteq 1..L  BY <1>1
<1>6. CASE fresh = {}
  <2>1. check = [local |-> floor, rem |-> rem, verdict |-> Kept(i)]
    BY <1>0, <1>6 DEF CheckForkState, floor
  <2>2. check.local = floor /\ check.rem = rem  BY <2>1
  <2>3. QED  BY <1>0, <1>1, <1>3, <2>2
<1>7. CASE fresh # {} /\ matches = {}
  <2> DEFINE S == {floor} \cup removals
  <2>1. check = [local |-> Max(S), rem |-> rem, verdict |-> "unknown"]
    BY <1>0, <1>7 DEF CheckForkState, floor
  <2>2. S \subseteq Nat /\ S # {} /\ \A n \in S : n <= L  BY <1>1, <1>4, <1>5
  <2>3. Max(S) \in S
    <3> HIDE DEF S
    <3>1. QED  BY <1>1, <2>2, Greatest
  <2>4. check.local \in {floor} \cup removals /\ check.rem = rem  BY <2>1, <2>3
  <2>5. \A n \in removals : n \in DOMAIN rows[i] /\ RemovesUs(rows[i][n])  OBVIOUS
  <2> HIDE DEF fresh, removals, matches
  <2>6. QED  BY <1>0, <1>1, <1>3, <2>4, <2>5
<1>8. CASE fresh # {} /\ matches # {}
  <2>1. PICK n : n = Max(matches)  OBVIOUS
  <2>2. n \in matches
    <3>1. matches \subseteq Nat /\ \A k \in matches : k <= L  BY <1>1, <1>5
    <3> HIDE DEF matches
    <3>2. QED  BY <1>1, <1>8, <2>1, <3>1, Greatest
  <2>3. n \in fresh /\ Matching(i, rows[i][n].seq) # {}  BY <2>2
  <2>4. PICK m : m = Max(Matching(i, rows[i][n].seq))  OBVIOUS
  <2>5. m \in Matching(i, rows[i][n].seq)
    <3> DEFINE S == Matching(i, rows[i][n].seq)
    <3>1. S \subseteq Nat /\ \A k \in S : k <= Len(remote[i])  BY <1>1 DEF Matching
    <3>2. S # {} /\ m = Max(S)  BY <2>3, <2>4
    <3> HIDE DEF S
    <3>3. m \in S  BY <1>1, <3>1, <3>2, Greatest
    <3>4. QED  BY <3>3 DEF S
  <2>6. m \in DOMAIN remote[i] /\ remote[i][m].seq = rows[i][n].seq  BY <2>5 DEF Matching
  <2>7. check = Matched(i, n, m, fresh)
    BY <1>0, <1>8, <2>1, <2>4 DEF CheckForkState, floor
  <2> DEFINE S == {n} \cup removals
  <2>8. check.local = Max(S) /\ check.rem = Max({m, rem})
        /\ (check.verdict # "forked" => rows[i][n].applied = remote[i][m].applied)
    BY <2>7 DEF Matched, SameEpoch
  <2>9. check.local \in S /\ n <= check.local
    <3>1. S \subseteq Nat /\ S # {} /\ n \in S /\ \A k \in S : k <= L  BY <1>1, <1>5, <2>3
    <3> HIDE DEF S
    <3>2. QED  BY <1>1, <2>8, <3>1, Greatest
  <2>10. check.local \in Nat /\ n \in 1..check.local
    <3>1. S \subseteq Nat /\ n \in Nat /\ 1 <= n  BY <1>1, <1>5, <2>3
    <3>2. check.local \in Nat  BY <2>9, <3>1
    <3> HIDE DEF S
    <3>3. QED  BY <2>9, <3>1, <3>2
  <2>11. check.rem \in {m, rem}
    <3> DEFINE Q == {m, rem}
    <3>1. m \in Nat /\ rem \in Nat  BY <1>1, <2>6
    <3>2. m + rem \in Nat /\ m <= m + rem /\ rem <= m + rem  BY <3>1
    <3>3. Q \subseteq Nat /\ Q # {} /\ \A k \in Q : k <= m + rem  BY <3>1, <3>2
    <3>4. check.rem = Max(Q)  BY <2>8
    <3> HIDE DEF Q
    <3>5. check.rem \in Q  BY <3>2, <3>3, <3>4, Greatest
    <3>6. QED  BY <3>5 DEF Q
  <2>12. check.verdict # "forked" =>
           \/ check.local \in DOMAIN rows[i] /\ RemovesUs(rows[i][check.local])
           \/ \E k \in DOMAIN remote[i] : remote[i][k].applied = rows[i][check.local].applied
    <3>1. check.local = n \/ check.local \in removals  BY <2>9
    <3>2. \A k \in removals : k \in DOMAIN rows[i] /\ RemovesUs(rows[i][k])  OBVIOUS
    <3> HIDE DEF fresh, removals, matches, S
    <3>3. QED  BY <2>6, <2>8, <3>1, <3>2
  <2>13. check.rem = rem \/ \E k \in 1..check.local : /\ check.rem \in DOMAIN remote[i]
                                                      /\ remote[i][check.rem].seq = rows[i][k].seq
    BY <2>6, <2>10, <2>11
  <2>14. QED  BY <1>0, <2>12, <2>13
<1>9. QED  BY <1>6, <1>7, <1>8

(* What everybody saved, and where it stands in the creator's own log.     *)
LEMMA SavedTaken ==
  ASSUME TypeInv, CopyInv, OwnRows, NEW i \in Inst, NEW m \in DOMAIN remote[i]
  PROVE  remote[i][m].seq = m /\ Taken(remote[i][m].applied)
<1>1. PICK own, s : own = rows[Creator] /\ s = remote[i]  OBVIOUS
<1>2. /\ Len(own) \in Nat /\ DOMAIN own = 1..Len(own) /\ \A n \in 1..Len(own) : own[n].seq = n - 1
  <2>1. own \in Seq(LocalRow)  BY <1>1, CreatorRows DEF CopyInv
  <2>2. QED  BY <1>1, <2>1 DEF OwnRows
<1>3. /\ Len(s) \in Nat /\ m \in 1..Len(s) /\ Len(s) < Len(own) /\ s[m] = CopyOf(m + 1)
  <2>1. s \in Seq(SavedRow) /\ IsCopy(s)  BY <1>1 DEF TypeInv, LogTypes, CopyInv, SavedCopies
  <2>2. QED  BY <1>1, <2>1 DEF IsCopy
<1>4. m + 1 \in 1..Len(own) /\ (m + 1) - 1 = m  BY <1>2, <1>3
<1>5. PICK n : n = m + 1  OBVIOUS
<1>6. s[m].seq = own[n].seq /\ s[m].applied = own[n].applied  BY <1>1, <1>3, <1>5 DEF CopyOf
<1>7. QED  BY <1>1, <1>2, <1>4, <1>5, <1>6 DEF Taken

(* A commit by whom it may be that adds somebody.                          *)
InvitingCommit ==
  \/ UNCHANGED commits
  \/ \E x \in GroupCommit : commits' = Append(commits, x) /\ (x.adds # {} => x.by = Creator)

LEMMA InvitesStay ==
  ASSUME TypeInv, CreatorInvites, InvitingCommit
  PROVE  CreatorInvites' /\ \A c \in DOMAIN commits : commits'[c] = commits[c]
<1>1. CASE UNCHANGED commits  BY <1>1 DEF CreatorInvites
<1>2. CASE ~UNCHANGED commits
  <2>1. PICK x \in GroupCommit : commits' = Append(commits, x) /\ (x.adds # {} => x.by = Creator)
    BY <1>2 DEF InvitingCommit
  <2>2. PICK cs, len : cs = commits' /\ len = Len(commits)  OBVIOUS
  <2>3. /\ len \in Nat /\ DOMAIN commits = 1..len /\ DOMAIN cs = 1..len + 1
        /\ cs[len + 1] = x /\ \A k \in 1..len : cs[k] = commits[k]
    <3>1. commits \in Seq(GroupCommit)  BY DEF TypeInv, NetTypes
    <3>2. QED  BY <2>1, <2>2, <3>1, Appended
  <2>4. \A c \in 1..len + 1 : c \in 1..len \/ c = len + 1  BY <2>3
  <2>5. \A c \in DOMAIN cs : cs[c].adds # {} => cs[c].by = Creator
    BY <2>1, <2>3, <2>4 DEF CreatorInvites
  <2>6. QED  BY <2>2, <2>3, <2>5 DEF CreatorInvites
<1>3. QED  BY <1>1, <1>2

LEMMA InvitingMade ==
  ASSUME TypeInv, NEW i \in Inst, NEW removes \in SUBSET Inst, NEW adds \in SUBSET Inst,
         NEW key \in Key, adds # {} => i = Creator,
         commits' = Append(commits, Commit(i, removes, adds, key))
  PROVE  InvitingCommit
<1>1. PICK x : x = Commit(i, removes, adds, key)  OBVIOUS
<1>2. x \in GroupCommit /\ x.adds = adds /\ x.by = i  BY <1>1, NewCommit
<1>3. QED  BY <1>1, <1>2 DEF InvitingCommit

LEMMA InvitingSteps ==
  ASSUME TypeInv, Admins = {Creator}, NEW i \in Inst,
         Propose(i) \/ SaveRemoteCommitLog(i) \/ RespondReadds(i)
  PROVE  InvitingCommit
<1>1. CASE UNCHANGED commits  BY <1>1 DEF InvitingCommit
<1>2. CASE ~UNCHANGED commits
  <2>0. PICK none \in SUBSET Inst : none = {}  OBVIOUS
  <2>1. None \in Key  BY DEF Key
  <2>2. CASE Propose(i)
    <3>1. CASE commits' = Append(commits, Commit(i, none, none, None))
      BY <2>0, <2>1, <3>1, InvitingMade
    <3>2. CASE ~(commits' = Append(commits, Commit(i, none, none, None)))
      <4>1. i \in Admins
        BY <2>0, <2>2, <3>2 DEF Propose
      <4>2. PICK j \in Targets \ Admins :
              \/ commits' = Append(commits, Commit(i, {j}, {}, None))
              \/ commits' = Append(commits, Commit(i, {}, {j}, None))
        BY <2>0, <2>2, <3>2 DEF Propose
      <4>3. j \in Inst /\ i = Creator  BY <4>1, <4>2, InstAssumption
      <4>4. PICK js \in SUBSET Inst : js = {j}  BY <4>3
      <4>5. \/ commits' = Append(commits, Commit(i, js, none, None))
            \/ commits' = Append(commits, Commit(i, none, js, None))
        BY <2>0, <4>2, <4>4
      <4>6. QED  BY <2>1, <4>3, <4>5, InvitingMade
    <3>3. QED  BY <3>1, <3>2
  <2>3. CASE SaveRemoteCommitLog(i)
    <3>1. PICK key \in Key : commits' = Append(commits, Commit(i, none, none, key))
      BY <1>2, <2>0, <2>3, SaveEffect DEF SharesKey
    <3>2. QED  BY <2>0, <3>1, InvitingMade
  <2>4. CASE RespondReadds(i)
    <3>1. PICK js \in SUBSET Inst : commits' = Append(commits, Commit(i, js, js, None))
      BY <1>2, <2>4, RespondEffect
    <3>2. i = Creator
      <4>1. ~Refused(i, CheckForkState(i))  BY <1>2, <2>4 DEF RespondReadds
      <4>2. QED  BY <4>1 DEF Refused
    <3>3. QED  BY <2>1, <3>1, <3>2, InvitingMade
  <2>5. QED  BY <2>2, <2>3, <2>4
<1>3. QED  BY <1>1, <1>2

(* The steps in which nobody moves or checks.                              *)
LEMMA NoticeAside ==
  ASSUME TypeInv, TypeInv', NoticeInv, [Next]_vars, InvitingCommit,
         UNCHANGED <<welcomes, mls, rows, status>>,
         \A j \in Inst \ {Creator} : cur'[j].local = cur[j].local /\ cur'[j].rem = cur[j].rem
  PROVE  NoticeInv'
<1>1. LastRows' /\ OwnRows' /\ Rising'
  BY DEF NoticeInv, LastRows, LastRow, RemovesUs, Success, OwnRows, Rising, Rises
<1>2. CreatorInvites' /\ \A c \in DOMAIN commits : commits'[c] = commits[c]
  BY InvitesStay DEF NoticeInv
<1>3. \A h : Taken(h)' <=> Taken(h)  BY DEF Taken
<1>4. WelcomesTaken'
  <2>1. ASSUME NEW j \in Inst, NEW c \in welcomes[j]
        PROVE  \E m \in DOMAIN rows[Creator] :
                 rows[Creator][m].applied = Append(commits'[c].base, c)
    <3>1. c \in DOMAIN commits  BY DEF TypeInv, NetTypes
    <3>2. Taken(Append(commits[c].base, c))  BY DEF NoticeInv, WelcomesTaken
    <3>3. QED  BY <1>2, <3>1, <3>2 DEF Taken
  <2>2. QED  BY <2>1 DEF WelcomesTaken, Taken
<1>5. StartsTaken'  BY DEF NoticeInv, StartsTaken, Taken
<1>6. ChecksTaken'
  BY DEF NoticeInv, ChecksTaken, LocalPassed, RemotePassed, RemovesUs, Success, Taken
<1>7. QED  BY <1>1, <1>2, <1>4, <1>5, <1>6 DEF NoticeInv

(* The fork check.                                                         *)
LEMMA NoticeUpdate ==
  ASSUME TypeInv, TypeInv', CopyInv, NoticeInv, [Next]_vars, NEW i \in Inst, UpdateForkedState(i)
  PROVE  NoticeInv'
<1>1. UNCHANGED <<commits, welcomes, mls, rows, remote>>  BY UpdateEffect
<1>2. InvitingCommit  BY <1>1 DEF InvitingCommit
<1>3. CASE status[i] = "forked"
  <2>1. UNCHANGED <<cur, status>>  BY <1>3 DEF UpdateForkedState
  <2>2. QED  BY <1>1, <1>2, <2>1, NoticeAside
<1>4. CASE status[i] # "forked"
  <2>1. PICK check : check = CheckForkState(i)  OBVIOUS
  <2>2. PICK local, rem, verdict :
          local = check.local /\ rem = check.rem /\ verdict = check.verdict
    OBVIOUS
  <2>3. /\ cur' = [cur EXCEPT ![i].local = local, ![i].rem = rem]
        /\ status' = [status EXCEPT ![i] = verdict]
    BY <1>4, <2>1, <2>2 DEF UpdateForkedState, MoveForkCursors
  <2>4. /\ cur'[i].local = local /\ cur'[i].rem = rem /\ status'[i] = verdict
        /\ \A j \in Inst \ {i} : cur'[j] = cur[j] /\ status'[j] = status[j]
    <3>1. /\ cur \in [Inst -> [download : Nat, upload : Nat, local : Nat, rem : Nat]]
          /\ status \in [Inst -> {"unknown", "clean", "forked"}]
      BY DEF TypeInv, LogTypes
    <3>2. QED  BY <2>3, <3>1
  <2>5. local \in cur[i].local..Len(rows[i])  BY <2>1, <2>2, CheckFacts
  <2>6. /\ LastRows' /\ OwnRows' /\ Rising' /\ CreatorInvites' /\ WelcomesTaken' /\ StartsTaken'
    BY <1>1 DEF NoticeInv, LastRows, LastRow, RemovesUs, Success, OwnRows, Rising, Rises,
                CreatorInvites, WelcomesTaken, StartsTaken, Taken
  <2>7. ASSUME NEW j \in Inst \ {Creator}
        PROVE  /\ status'[j] # "forked" => LocalPassed(j, cur'[j].local)
               /\ RemotePassed(j, cur'[j].local, cur'[j].rem)
    <3>1. CASE j # i  BY <2>4, <3>1 DEF NoticeInv, ChecksTaken
    <3>2. CASE j = i
      <4>1. LocalPassed(i, cur[i].local) /\ RemotePassed(i, cur[i].local, cur[i].rem)
        BY <1>4, <3>2 DEF NoticeInv, ChecksTaken
      <4>2. verdict # "forked" => LocalPassed(i, local)
        <5>1. SUFFICES ASSUME verdict # "forked", local # cur[i].local PROVE LocalPassed(i, local)
          BY <4>1
        <5>2. \/ local \in DOMAIN rows[i] /\ rows[i][local].seq = 0
              \/ local \in DOMAIN rows[i] /\ RemovesUs(rows[i][local])
              \/ \E m \in DOMAIN remote[i] : remote[i][m].applied = rows[i][local].applied
          BY <2>1, <2>2, <5>1, CheckPasses
        <5>3. OwnRows /\ StartsTaken  BY DEF NoticeInv
        <5>4. \A m \in DOMAIN remote[i] : Taken(remote[i][m].applied)  BY <5>3, SavedTaken
        <5>5. QED  BY <5>2, <5>3, <5>4 DEF LocalPassed, StartsTaken
      <4>3. RemotePassed(i, local, rem)
        <5>1. CASE rem = cur[i].rem
          <6>1. \A n \in 1..cur[i].local : n \in 1..local
            <7>1. /\ cur \in [Inst -> [download : Nat, upload : Nat, local : Nat, rem : Nat]]
                  /\ rows[i] \in Seq(LocalRow)
              BY DEF TypeInv, LogTypes
            <7>2. cur[i].local \in Nat /\ Len(rows[i]) \in Nat  BY <7>1
            <7>3. QED  BY <2>5, <7>2
          <6>2. QED  BY <4>1, <5>1, <6>1 DEF RemotePassed
        <5>2. CASE rem # cur[i].rem
          <6>1. PICK n \in 1..local : rem \in DOMAIN remote[i] /\ remote[i][rem].seq = rows[i][n].seq
            BY <2>1, <2>2, <5>2, CheckPasses
          <6>2. remote[i][rem].seq = rem /\ rem \in Nat
            <7>1. remote[i] \in Seq(SavedRow) /\ OwnRows  BY DEF TypeInv, LogTypes, NoticeInv
            <7>2. QED  BY <6>1, <7>1, SavedTaken
          <6>3. rem <= rows[i][n].seq  BY <6>1, <6>2
          <6>4. QED  BY <6>3 DEF RemotePassed
        <5>3. QED  BY <5>1, <5>2
      <4>4. QED  BY <2>4, <3>2, <4>2, <4>3
    <3>3. QED  BY <3>1, <3>2
  <2>8. ChecksTaken'
    BY <1>1, <2>7 DEF ChecksTaken, LocalPassed, RemotePassed, RemovesUs, Success, Taken
  <2>9. QED  BY <2>6, <2>8 DEF NoticeInv
<1>5. QED  BY <1>3, <1>4

LEMMA StartsStay ==
  ASSUME TypeInv, [Next]_vars, StartsTaken, NEW i \in Inst, NEW h, NEW active, NEW c, NEW rs,
         Moved(i, h, active, c, rs),
         rs = rows[i] \/ \E r \in LocalRow : rs = Append(rows[i], r)
                                             /\ (r.seq = 0 => Taken(r.applied))
  PROVE  StartsTaken'
<1>1. rows'[i] = rs /\ \A j \in Inst \ {i} : rows'[j] = rows[j]  BY DEF Moved, TypeInv, LogTypes
<1>2. \A n \in DOMAIN rs : rs[n].seq = 0 => Taken(rs[n].applied)
  <2>1. CASE rs = rows[i]  BY <2>1 DEF StartsTaken
  <2>2. CASE rs # rows[i]
    <3>1. PICK r \in LocalRow : rs = Append(rows[i], r) /\ (r.seq = 0 => Taken(r.applied))
      BY <2>2
    <3>2. PICK old, len : old = rows[i] /\ len = Len(old)  OBVIOUS
    <3>3. old \in Seq(LocalRow)  BY <3>2 DEF TypeInv, LogTypes
    <3>4. /\ len \in Nat /\ DOMAIN old = 1..len /\ DOMAIN rs = 1..len + 1 /\ rs[len + 1] = r
          /\ \A k \in 1..len : rs[k] = old[k]
      BY <3>1, <3>2, <3>3, Appended
    <3>5. \A n \in 1..len + 1 : n \in 1..len \/ n = len + 1  BY <3>4
    <3>6. QED  BY <3>1, <3>2, <3>4, <3>5 DEF StartsTaken
  <2>3. QED  BY <2>1, <2>2
<1>3. \A g : Taken(g) => Taken(g)'  BY TakenStays
<1>4. ASSUME NEW j \in Inst, NEW n \in DOMAIN rows'[j], rows'[j][n].seq = 0
      PROVE  \E m \in DOMAIN rows'[Creator] :
               rows'[Creator][m].applied = rows'[j][n].applied
  <2>1. PICK g : g = rows'[j][n].applied  OBVIOUS
  <2>2. Taken(g)
    <3>1. CASE j = i  BY <1>1, <1>2, <1>4, <2>1, <3>1
    <3>2. CASE j # i  BY <1>1, <1>4, <2>1, <3>2 DEF StartsTaken
    <3>3. QED  BY <3>1, <3>2
  <2>3. Taken(g)'  BY <1>3, <2>2
  <2>4. QED  BY <2>1, <2>3 DEF Taken
<1>5. QED  BY <1>4 DEF StartsTaken, Taken

(* What was checked, when an installation moves.                           *)
LEMMA ChecksMoved ==
  ASSUME TypeInv, [Next]_vars, ChecksTaken, UNCHANGED <<cur, status>>
  PROVE  ChecksTaken'
<1>1. ASSUME NEW j \in Inst \ {Creator}
      PROVE  /\ status[j] # "forked" => LocalPassed(j, cur[j].local)'
             /\ RemotePassed(j, cur[j].local, cur[j].rem)'
  <2>1. PICK local, rem : local = cur[j].local /\ rem = cur[j].rem  OBVIOUS
  <2>2. local \in 0..Len(rows[j])
    <3>1. /\ cur \in [Inst -> [download : Nat, upload : Nat, local : Nat, rem : Nat]]
          /\ rows[j] \in Seq(LocalRow) /\ cur[j].local <= Len(rows[j])
      BY DEF TypeInv, LogTypes, Cursors
    <3>2. QED  BY <2>1, <3>1
  <2>3. /\ LocalPassed(j, local) => LocalPassed(j, local)'
        /\ RemotePassed(j, local, rem) => RemotePassed(j, local, rem)'
    BY <2>2, ChecksStay
  <2>4. /\ status[j] # "forked" => LocalPassed(j, local)
        /\ RemotePassed(j, local, rem)
    BY <2>1 DEF ChecksTaken
  <2>5. local = cur'[j].local /\ rem = cur'[j].rem  BY <2>1
  <2>6. QED  BY <2>3, <2>4, <2>5 DEF LocalPassed, RemotePassed
<1>2. QED  BY <1>1 DEF ChecksTaken

LEMMA ExtendsOn ==
  ASSUME NEW T, NEW s \in Seq(T), NEW t \in Seq(T), NEW u \in Seq(T), Extends(s, t), Extends(t, u)
  PROVE  Extends(s, u)
<1>1. Len(s) \in Nat /\ Len(t) \in Nat /\ Len(u) \in Nat /\ Len(s) <= Len(t) /\ Len(t) <= Len(u)
  BY DEF Extends
<1>2. \A k \in 1..Len(s) : k \in 1..Len(t)  BY <1>1
<1>3. QED  BY <1>1, <1>2 DEF Extends

(* The creator's own log, and the welcomes it sends.                       *)
LEMMA OwnReceive ==
  ASSUME TypeInv, CopyInv, OwnRows, NEW accept \in BOOLEAN, Receive(Creator, accept)
  PROVE  /\ OwnRows'
         /\ \E m \in DOMAIN rows'[Creator] : rows'[Creator][m].applied = mls'[Creator].hist
<1>1. PICK own, h, c : /\ own = rows[Creator] /\ h = mls[Creator].hist
                       /\ c = mls[Creator].cursor + 1
  OBVIOUS
<1>2. PICK r \in LocalRow, g \in Hist :
        /\ Moved(Creator, g, TRUE, c, Append(own, r)) /\ r.seq = c /\ r.applied = g
        /\ g = h \/ g = Append(h, c)
  BY <1>1, CreatorReceives
<1>3. /\ Creator \in Inst /\ own \in Seq(LocalRow) /\ h \in Hist /\ c \in Nat /\ Len(own) = c
      /\ \A n \in 1..Len(own) : own[n] \in LocalRow
  <2>1. Creator \in Inst /\ mls[Creator].hist \in Hist /\ mls[Creator].cursor \in Nat
    BY InstAssumption DEF TypeInv, NetTypes
  <2>2. QED  BY <1>1, <2>1, CreatorRows DEF CopyInv, OwnRows
<1>4. PICK new : new = Append(own, r)  OBVIOUS
<1>5. /\ Len(new) = c + 1 /\ DOMAIN new = 1..c + 1 /\ new[c + 1] = r
      /\ \A k \in 1..c : new[k] = own[k]
  BY <1>3, <1>4, Appended
<1>6. rows'[Creator] = new /\ mls'[Creator].hist = g /\ mls'[Creator].cursor = c
  BY <1>2, <1>3, <1>4 DEF Moved, TypeInv, LogTypes
<1>7. Extends(h, g)
  <2>1. CASE g = h  BY <2>1, ExtendsSame
  <2>2. CASE g = Append(h, c)  BY <1>3, <2>2, Appended DEF Extends, Hist
  <2>3. QED  BY <1>2, <2>1, <2>2
<1>8. ASSUME NEW n \in 1..c + 1
      PROVE  new[n].seq = n - 1 /\ Extends(new[n].applied, g)
  <2>1. CASE n \in 1..c
    <3>1. new[n] = own[n] /\ own[n].seq = n - 1 /\ Extends(own[n].applied, h)
      BY <1>1, <1>3, <1>5, <2>1 DEF OwnRows
    <3>2. own[n].applied \in Hist  BY <1>3, <2>1 DEF LocalRow
    <3>3. Extends(own[n].applied, g)  BY <1>2, <1>3, <1>7, <3>1, <3>2, ExtendsOn DEF Hist
    <3>4. QED  BY <3>1, <3>3
  <2>2. CASE n = c + 1  BY <1>2, <1>3, <1>5, <2>2, ExtendsSame
  <2>3. QED  BY <1>3, <2>1, <2>2
<1>9. OwnRows'  BY <1>5, <1>6, <1>8 DEF OwnRows
<1>10. \E m \in DOMAIN rows'[Creator] : rows'[Creator][m].applied = mls'[Creator].hist
  <2>1. c + 1 \in DOMAIN new /\ new[c + 1].applied = g  BY <1>2, <1>3, <1>5
  <2>2. QED  BY <1>6, <2>1
<1>11. QED  BY <1>9, <1>10

LEMMA NoticeReceive ==
  ASSUME TypeInv, TypeInv', CopyInv, NoticeInv, [Next]_vars,
         NEW i \in Inst, NEW accept \in BOOLEAN, Receive(i, accept)
  PROVE  NoticeInv'
<1>1. PICK c, h : c = mls[i].cursor + 1 /\ h = mls[i].hist  OBVIOUS
<1>2. c \in DOMAIN commits /\ c \in Nat /\ c # 0 /\ mls[i].cursor < c
      /\ (Leaves(i, c, h) \/ Advances(i, c, h) \/ Fails(i, c, h))
  <2>1. mls[i].cursor \in Nat  BY DEF TypeInv, NetTypes
  <2>2. QED  BY <1>1, <2>1, ReceiveCases
<1>3. PICK g, active, rs : RowSet(i, g, active, c, rs)
  BY <1>1, ReceiveMoves DEF NoticeInv, LastRows
<1>4. /\ g \in Hist /\ active \in BOOLEAN /\ Moved(i, g, active, c, rs)
      /\ rs = rows[i] \/ \E r \in LocalRow : r.seq = c /\ rs = Append(rows[i], r)
      /\ active => Last(rs).applied = g /\ ~RemovesUs(Last(rs))
  BY <1>3 DEF RowSet
<1>5. UNCHANGED <<commits, cur, status>>
      /\ \A j \in Inst \ {i} : mls'[j] = mls[j] /\ rows'[j] = rows[j]
  BY <1>4 DEF Moved, TypeInv, LogTypes
<1>6. LastRows' /\ Rising'
  <2>1. rs = rows[i] \/ \E r \in LocalRow : rs = Append(rows[i], r)
                                            /\ (r.seq = 0 \/ (r.seq = c /\ mls[i].cursor < c))
    BY <1>2, <1>4
  <2>2. mls[i].cursor <= c
    <3>1. mls[i].cursor \in Nat  BY DEF TypeInv, NetTypes
    <3>2. QED  BY <1>2, <3>1
  <2>3. QED  BY <1>2, <1>4, <2>1, <2>2, NoticeMoved DEF NoticeInv
<1>7. StartsTaken'
  <2>1. rs = rows[i] \/ \E r \in LocalRow : rs = Append(rows[i], r)
                                            /\ (r.seq = 0 => Taken(r.applied))
    BY <1>2, <1>4
  <2>2. QED  BY <1>4, <2>1, StartsStay DEF NoticeInv
<1>8. ChecksTaken'  BY <1>5, ChecksMoved DEF NoticeInv
<1>9. CreatorInvites'  BY <1>5 DEF NoticeInv, CreatorInvites
<1>10. OwnRows'
  <2>1. CASE i = Creator  BY <2>1, OwnReceive DEF NoticeInv
  <2>2. CASE i # Creator
    <3>1. mls'[Creator] = mls[Creator] /\ rows'[Creator] = rows[Creator]
      BY <1>5, <2>2, InstAssumption
    <3>2. QED  BY <3>1 DEF NoticeInv, OwnRows
  <2>3. QED  BY <2>1, <2>2
<1>11. WelcomesTaken'
  <2>1. \A x : Taken(x) => Taken(x)'  BY TakenStays
  <2>2. ASSUME NEW j \in Inst, NEW d \in welcomes'[j]
        PROVE  \E m \in DOMAIN rows'[Creator] :
                 rows'[Creator][m].applied = Append(commits[d].base, d)
    <3>1. CASE d \in welcomes[j]
      <4>1. PICK x : x = Append(commits[d].base, d)  OBVIOUS
      <4>2. Taken(x)  BY <3>1, <4>1 DEF NoticeInv, WelcomesTaken
      <4>3. Taken(x)'  BY <2>1, <4>2
      <4>4. QED  BY <4>1, <4>3 DEF Taken
    <3>2. CASE d \notin welcomes[j]
      <4>1. Advances(i, c, h) /\ commits[c].by = i /\ j \in commits[c].adds /\ d = c
        <5>1. welcomes' # welcomes  BY <3>2, <2>2
        <5>2. Advances(i, c, h)  BY <1>2, <5>1 DEF Leaves, Fails
        <5>3. commits[c].by = i  BY <5>1, <5>2 DEF Advances
        <5>4. welcomes'[j] = welcomes[j] \cup (IF j \in commits[c].adds THEN {c} ELSE {})
          BY <5>2, <5>3 DEF Advances
        <5>5. QED  BY <2>2, <3>2, <5>2, <5>3, <5>4
      <4>2. i = Creator  BY <1>2, <4>1 DEF NoticeInv, CreatorInvites
      <4>3. \E m \in DOMAIN rows'[Creator] : rows'[Creator][m].applied = mls'[Creator].hist
        BY <4>2, OwnReceive DEF NoticeInv
      <4>4. mls'[Creator].hist = Append(commits[d].base, d)
        BY <4>1, <4>2 DEF Advances, Moved
      <4>5. QED  BY <4>3, <4>4
    <3>3. QED  BY <3>1, <3>2
  <2>3. QED  BY <1>5, <2>2 DEF WelcomesTaken, Taken
<1>12. QED  BY <1>6, <1>7, <1>8, <1>9, <1>10, <1>11 DEF NoticeInv

LEMMA NoticeWelcome ==
  ASSUME TypeInv, TypeInv', CopyInv, NoticeInv, [Next]_vars, NEW i \in Inst, Welcome(i)
  PROVE  NoticeInv'
<1>1. PICK c \in DOMAIN commits, h \in Hist, n \in DOMAIN commits, r \in LocalRow :
        /\ Joins(i, c, h, n) /\ Moved(i, h, TRUE, n, Append(rows[i], r))
        /\ r.seq = 0 /\ r.applied = h /\ ~RemovesUs(r)
  BY WelcomeMoves
<1>2. PICK rs : rs = Append(rows[i], r)  OBVIOUS
<1>3. /\ rows[i] \in Seq(LocalRow) /\ Last(rs) = r /\ n \in Nat
  <2>1. rows[i] \in Seq(LocalRow) /\ commits \in Seq(GroupCommit)
    BY DEF TypeInv, LogTypes, NetTypes
  <2>2. QED  BY <1>2, <2>1, Appended
<1>4. /\ c \in welcomes[i] /\ h = Append(commits[c].base, c) /\ mls[i].cursor <= n
      /\ welcomes' = [welcomes EXCEPT ![i] = @ \ {c}]
  BY <1>1 DEF Joins
<1>5. /\ Moved(i, h, TRUE, n, rs) /\ UNCHANGED <<commits, cur, status>>
      /\ \A j \in Inst \ {i} : mls'[j] = mls[j] /\ rows'[j] = rows[j]
  BY <1>1, <1>2 DEF Moved, TypeInv, LogTypes
<1>6. LastRows' /\ Rising'
  <2>1. rs = rows[i] \/ \E x \in LocalRow : rs = Append(rows[i], x)
                                            /\ (x.seq = 0 \/ (x.seq = n /\ mls[i].cursor < n))
    BY <1>1, <1>2
  <2>2. TRUE => Last(rs).applied = h /\ ~RemovesUs(Last(rs))  BY <1>1, <1>3
  <2>3. QED  BY <1>3, <1>4, <1>5, <2>1, <2>2, NoticeMoved DEF NoticeInv
<1>7. StartsTaken'
  <2>1. Taken(h)  BY <1>4 DEF NoticeInv, WelcomesTaken
  <2>2. rs = rows[i] \/ \E x \in LocalRow : rs = Append(rows[i], x)
                                            /\ (x.seq = 0 => Taken(x.applied))
    BY <1>1, <1>2, <2>1
  <2>3. QED  BY <1>5, <2>2, StartsStay DEF NoticeInv
<1>8. ChecksTaken'  BY <1>5, ChecksMoved DEF NoticeInv
<1>9. CreatorInvites'  BY <1>5 DEF NoticeInv, CreatorInvites
<1>10. OwnRows'
  <2>1. i # Creator  BY <1>4 DEF CopyInv, CreatorLog
  <2>2. mls'[Creator] = mls[Creator] /\ rows'[Creator] = rows[Creator]
    BY <1>5, <2>1, InstAssumption
  <2>3. QED  BY <2>2 DEF NoticeInv, OwnRows
<1>11. WelcomesTaken'
  <2>1. \A j \in Inst : welcomes'[j] \subseteq welcomes[j]
    BY <1>4 DEF TypeInv, NetTypes
  <2>2. ASSUME NEW j \in Inst, NEW d \in welcomes'[j]
        PROVE  \E m \in DOMAIN rows'[Creator] :
                 rows'[Creator][m].applied = Append(commits[d].base, d)
    <3>1. PICK x : x = Append(commits[d].base, d)  OBVIOUS
    <3>2. Taken(x)  BY <2>1, <3>1 DEF NoticeInv, WelcomesTaken
    <3>3. Taken(x)'  BY <3>2, TakenStays
    <3>4. QED  BY <3>1, <3>3 DEF Taken
  <2>3. QED  BY <1>5, <2>2 DEF WelcomesTaken, Taken
<1>12. QED  BY <1>6, <1>7, <1>8, <1>9, <1>10, <1>11 DEF NoticeInv

LEMMA NoticeInit == Init => NoticeInv
<1>1. SUFFICES ASSUME Init PROVE NoticeInv  OBVIOUS
<1>2. PICK r, s, w : /\ r = Row("GroupCreation", 0, <<>>, <<>>) /\ s = Row("Applied", 1, <<>>, <<1>>)
                     /\ w = Row("Welcome", 0, <<>>, <<1>>)
  OBVIOUS
<1>3. /\ r.seq = 0 /\ r.applied = <<>> /\ s.seq = 1 /\ s.applied = <<1>>
      /\ w.seq = 0 /\ w.applied = <<1>>
  BY <1>2 DEF Row
<1>4. /\ Creator \in Inst /\ rows[Creator] = <<r, s>>
      /\ \A i \in Inst \ {Creator} : rows[i] = <<w>>
      /\ \A i \in Inst : /\ mls[i].hist = <<1>> /\ mls[i].cursor = 1 /\ welcomes[i] = {}
                         /\ cur[i].local = 0 /\ cur[i].rem = 0
  BY <1>1, <1>2, InstAssumption DEF Init
<1>5. PICK own, one : own = <<r, s>> /\ one = <<w>>  OBVIOUS
<1>6. /\ Len(own) = 2 /\ DOMAIN own = 1..2 /\ own[1] = r /\ own[2] = s
      /\ DOMAIN one = {1} /\ one[1] = w
  BY <1>5
<1>7. LastRows  BY <1>1, CleanInit DEF CleanInv, LastRows
<1>8. OwnRows
  <2>1. Extends(<<>>, <<1>>)  BY DEF Extends
  <2>2. ASSUME NEW n \in 1..2 PROVE own[n].seq = n - 1 /\ Extends(own[n].applied, <<1>>)
    <3>1. n = 1 \/ n = 2  OBVIOUS
    <3>2. QED  BY <1>3, <1>6, <2>1, <3>1, ExtendsSame
  <2>3. QED  BY <1>4, <1>5, <1>6, <2>2 DEF OwnRows
<1>9. Rising
  <2>1. Rises(own, 1)
    <3>1. ASSUME NEW n \in 1..2
          PROVE  own[n].seq <= 1 /\ (own[n].seq # 0 => \A m \in 1..2 : m < n => own[m].seq < own[n].seq)
      <4>1. CASE n = 1  BY <1>3, <1>6, <4>1
      <4>2. CASE n = 2
        <5>1. \A m \in 1..2 : m < 2 => m = 1  OBVIOUS
        <5>2. QED  BY <1>3, <1>6, <4>2, <5>1
      <4>3. QED  BY <4>1, <4>2
    <3>2. QED  BY <1>6, <3>1 DEF Rises
  <2>2. Rises(one, 1)  BY <1>3, <1>6 DEF Rises
  <2>3. ASSUME NEW i \in Inst PROVE Rises(rows[i], mls[i].cursor)
    BY <1>4, <1>5, <2>1, <2>2
  <2>4. QED  BY <2>3 DEF Rising
<1>10. CreatorInvites
  <2>1. PICK x : x = [by |-> Creator, base |-> <<>>, removes |-> {}, adds |-> Inst, key |-> None]
    OBVIOUS
  <2>2. commits = <<x>> /\ x.by = Creator  BY <1>1, <2>1 DEF Init
  <2>3. DOMAIN commits = {1} /\ commits[1] = x  BY <2>2
  <2>4. QED  BY <2>2, <2>3 DEF CreatorInvites
<1>11. WelcomesTaken  BY <1>4 DEF WelcomesTaken
<1>12. StartsTaken
  <2>1. Taken(<<>>) /\ Taken(<<1>>)  BY <1>3, <1>4, <1>5, <1>6 DEF Taken
  <2>2. ASSUME NEW i \in Inst, NEW n \in DOMAIN rows[i] PROVE Taken(rows[i][n].applied)
    <3>1. CASE i = Creator
      <4>1. n = 1 \/ n = 2  BY <1>4, <1>5, <1>6, <2>2, <3>1
      <4>2. QED  BY <1>3, <1>4, <1>5, <1>6, <2>1, <3>1, <4>1
    <3>2. CASE i # Creator  BY <1>3, <1>4, <1>5, <1>6, <2>1, <2>2, <3>2
    <3>3. QED  BY <3>1, <3>2
  <2>3. QED  BY <2>2 DEF StartsTaken
<1>13. ChecksTaken  BY <1>4 DEF ChecksTaken, LocalPassed, RemotePassed
<1>14. QED  BY <1>7, <1>8, <1>9, <1>10, <1>11, <1>12, <1>13 DEF NoticeInv

(* Only the creator checks its own log when it answers requests.           *)
LEMMA NoticeRespond ==
  ASSUME TypeInv, TypeInv', NoticeInv, Admins = {Creator}, [Next]_vars,
         NEW i \in Inst, RespondReadds(i)
  PROVE  NoticeInv'
<1>1. InvitingCommit /\ UNCHANGED <<welcomes, mls, rows, status>>
  BY InvitingSteps, RespondEffect
<1>2. \A j \in Inst \ {Creator} : cur'[j] = cur[j]
  <2>1. CASE i = Creator
    <3>1. UNCHANGED cur \/ \E local, rem : ForkCursors(i, local, rem)  BY RespondEffect
    <3>2. QED  BY <2>1, <3>1, MovedForkCursors
  <2>2. CASE i # Creator  BY <2>2 DEF RespondReadds
  <2>3. QED  BY <2>1, <2>2
<1>3. QED  BY <1>1, <1>2, NoticeAside

LEMMA NoticeStep ==
  ASSUME TypeInv, CopyInv, NoticeInv, Admins = {Creator}, [Next]_vars
  PROVE  NoticeInv'
<1>1. TypeInv'  BY TypeStep
<1>2. UNCHANGED commits => InvitingCommit  BY DEF InvitingCommit
<1>3. cur \in [Inst -> [download : Nat, upload : Nat, local : Nat, rem : Nat]]
  BY DEF TypeInv, LogTypes
<1>4. CASE UNCHANGED vars  BY <1>1, <1>2, <1>4, NoticeAside DEF vars, net, logs
<1>5. ASSUME NEW i \in Inst, Propose(i) PROVE NoticeInv'
  <2>1. InvitingCommit  BY <1>5, InvitingSteps
  <2>2. QED  BY <1>1, <1>5, <2>1, NoticeAside DEF Propose, logs
<1>6. ASSUME NEW i \in Inst, Follow(i) PROVE NoticeInv'
  <2>1. ASSUME OneshotArrives(i) PROVE NoticeInv'
    BY <1>1, <1>2, <2>1, NoticeAside DEF OneshotArrives, net, logs
  <2>2. QED  BY <1>1, <1>6, <2>1, NoticeReceive, NoticeWelcome DEF Follow
<1>7. ASSUME NEW i \in Inst, SaveRemoteCommitLog(i) PROVE NoticeInv'
  <2>1. InvitingCommit /\ UNCHANGED <<welcomes, mls, rows, status>>
    BY <1>7, InvitingSteps, SaveEffect
  <2>2. PICK d \in Nat : cur' = [cur EXCEPT ![i].download = d]  BY <1>7, SaveEffect
  <2>3. \A j \in Inst : cur'[j].local = cur[j].local /\ cur'[j].rem = cur[j].rem
    BY <1>3, <2>2
  <2>4. QED  BY <1>1, <2>1, <2>3, NoticeAside
<1>8. ASSUME NEW i \in Inst, PublishCommitLogs(i) PROVE NoticeInv'
  <2>1. InvitingCommit /\ UNCHANGED <<welcomes, mls, rows, status>>
    BY <1>2, <1>8, PublishEffect
  <2>2. PICK u : u = Max(Unpublished(i))  OBVIOUS
  <2>3. UNCHANGED cur \/ cur' = [cur EXCEPT ![i].upload = u]  BY <1>8, <2>2, PublishEffect
  <2>4. \A j \in Inst : cur'[j].local = cur[j].local /\ cur'[j].rem = cur[j].rem
    <3>1. CASE UNCHANGED cur  BY <3>1
    <3>2. CASE cur' = [cur EXCEPT ![i].upload = u]  BY <1>3, <3>2
    <3>3. QED  BY <2>3, <3>1, <3>2
  <2>5. QED  BY <1>1, <2>1, <2>4, NoticeAside
<1>9. ASSUME NEW i \in Inst, RequestReadd(i) PROVE NoticeInv'
  BY <1>1, <1>2, <1>9, NoticeAside DEF RequestReadd, net, logs
<1>10. QED
  BY <1>1, <1>4, <1>5, <1>6, <1>7, <1>8, <1>9, NoticeUpdate, NoticeRespond DEF Next, Tick

(* The check that compares the newest local row. *)
LEMMA NewestCompared ==
  ASSUME TypeInv, NEW i \in Inst, NEW N, N = Len(rows[i]), cur[i].local < N,
         rows[i][N].seq # 0, ~RemovesUs(rows[i][N]),
         NEW p, Matching(i, rows[i][N].seq) = {p}, p \in Nat,
         CheckForkState(i).verdict # "forked"
  PROVE  rows[i][N].applied = remote[i][p].applied
<1> DEFINE floor    == Max({cur[i].local, ChainStart(i)})
           fresh    == {n \in DOMAIN rows[i] : n > floor /\ rows[i][n].seq # 0}
           removals == {n \in fresh : RemovesUs(rows[i][n])}
           matches  == {n \in fresh \ removals : Matching(i, rows[i][n].seq) # {}}
<1>1. /\ N \in Nat /\ DOMAIN rows[i] = 1..N /\ cur[i].local \in Nat
      /\ rows[i] # <<>> /\ rows[i][1].seq = 0 /\ 1 \in 1..N
  <2>1. rows[i] \in Seq(LocalRow) /\ rows[i] # <<>> /\ rows[i][1].seq = 0
    BY DEF TypeInv, LogTypes, Cursors
  <2>2. cur \in [Inst -> [download : Nat, upload : Nat, local : Nat, rem : Nat]]
    BY DEF TypeInv, LogTypes
  <2>3. QED  BY <2>1, <2>2
<1>2. ChainStart(i) \in 1..N /\ rows[i][ChainStart(i)].seq = 0
  <2> DEFINE S == {n \in DOMAIN rows[i] : rows[i][n].seq = 0}
  <2>1. S \subseteq Nat /\ S # {} /\ \A n \in S : n <= N  BY <1>1
  <2>2. ChainStart(i) = Max(S)  BY DEF ChainStart
  <2>3. Max(S) \in S
    <3> HIDE DEF S
    <3>1. QED  BY <1>1, <2>1, Greatest
  <2>4. QED  BY <1>1, <2>2, <2>3
<1>3. ChainStart(i) < N
  <2>1. PICK start : start = ChainStart(i)  OBVIOUS
  <2>2. start \in 1..N /\ start # N  BY <1>2, <2>1
  <2>3. QED  BY <1>1, <2>1, <2>2
<1>4. floor < N
  <2> DEFINE S == {cur[i].local, ChainStart(i)}
  <2>1. S \subseteq Nat /\ S # {} /\ \A n \in S : n <= N /\ n < N  BY <1>1, <1>2, <1>3
  <2>2. floor = Max(S)  OBVIOUS
  <2> HIDE DEF S, floor
  <2>3. floor \in S  BY <1>1, <2>1, <2>2, Greatest
  <2>4. QED  BY <2>1, <2>3
<1> HIDE DEF floor
<1>5. N \in matches /\ fresh # {} /\ matches # {}
  <2>1. floor < N /\ N \in 1..N  BY <1>1, <1>4
  <2>2. floor \in Nat
    <3> DEFINE S == {cur[i].local, ChainStart(i)}
    <3>1. S \subseteq Nat /\ S # {} /\ \A n \in S : n <= N  BY <1>1, <1>2, <1>3
    <3>2. floor = Max(S)  BY DEF floor
    <3> HIDE DEF S
    <3>3. QED  BY <1>1, <3>1, <3>2, Greatest
  <2>3. N \in fresh  BY <1>1, <2>1, <2>2
  <2>4. QED  BY <2>3
<1>6. Max(matches) = N
  <2>1. matches \subseteq Nat /\ \A n \in matches : n <= N  BY <1>1
  <2> HIDE DEF matches
  <2>2. PICK top : top = Max(matches)  OBVIOUS
  <2>3. top \in matches /\ N <= top  BY <1>1, <1>5, <2>1, <2>2, Greatest
  <2>4. top <= N /\ top \in Nat  BY <2>1, <2>3
  <2>5. QED  BY <1>1, <2>2, <2>3, <2>4
<1>7. Max({p}) = p
  <2>1. PICK S : S = {p}  OBVIOUS
  <2>2. S \subseteq Nat /\ S # {} /\ \A n \in S : n <= p  BY <2>1
  <2>3. Max(S) \in S  BY <2>2, Greatest
  <2>4. QED  BY <2>1, <2>3
<1>8. CheckForkState(i) = Matched(i, N, p, fresh)
  <2>1. CheckForkState(i)
          = Matched(i, Max(matches), Max(Matching(i, rows[i][Max(matches)].seq)), fresh)
    BY <1>5 DEF CheckForkState, floor
  <2>2. QED  BY <1>6, <1>7, <2>1
<1>9. QED  BY <1>8 DEF Matched, SameEpoch

(* Once everybody has published, downloaded and checked everything, whoever *)
(* finds no fork is at an epoch of the creator.                             *)
LEMMA SettledTaken ==
  ASSUME TypeInv, CopyInv, NoticeInv, Admins = {Creator}, \A j \in Inst : Settled(j),
         NEW i \in Inst, mls[i].active, status[i] # "forked"
  PROVE  Taken(mls[i].hist)
<1>1. CreatorLog /\ OwnRows  BY DEF CopyInv, NoticeInv
<1>2. PICK own, hist : own = rows[Creator] /\ hist = mls[i].hist  OBVIOUS
<1>3. /\ own \in Seq(LocalRow) /\ Len(own) \in Nat /\ Len(own) > 1 /\ DOMAIN own = 1..Len(own)
      /\ \A n \in 1..Len(own) : own[n].seq = n - 1
      /\ Len(own) = mls[Creator].cursor + 1 /\ Creator \in Inst
  BY <1>1, <1>2, CreatorRows DEF OwnRows
<1>4. CASE i = Creator
  <2>1. own[Len(own)].applied = hist /\ Len(own) \in DOMAIN own
    BY <1>1, <1>2, <1>3, <1>4 DEF CreatorLog, Last
  <2>2. QED  BY <1>2, <2>1 DEF Taken
<1>5. CASE i # Creator
  <2>1. PICK rs, N, saved : rs = rows[i] /\ N = Len(rs) /\ saved = remote[i]  OBVIOUS
  <2>2. PICK local, rem, p : local = cur[i].local /\ rem = cur[i].rem /\ p = rs[N].seq  OBVIOUS
  <2>3. /\ rs \in Seq(LocalRow) /\ rs # <<>> /\ N \in Nat /\ N > 0 /\ DOMAIN rs = 1..N /\ N \in 1..N
        /\ local \in Nat /\ local <= N /\ rem \in Nat /\ p \in Nat
        /\ saved \in Seq(SavedRow) /\ Len(saved) \in Nat /\ DOMAIN saved = 1..Len(saved)
    <3>1. rs \in Seq(LocalRow) /\ rs # <<>> /\ saved \in Seq(SavedRow) /\ cur[i].local <= N
      BY <2>1 DEF TypeInv, LogTypes, Cursors
    <3>2. cur \in [Inst -> [download : Nat, upload : Nat, local : Nat, rem : Nat]]
      BY DEF TypeInv, LogTypes
    <3>3. N \in 1..N  BY <2>1, <3>1
    <3>4. rs[N] \in LocalRow  BY <2>1, <3>1, <3>3
    <3>5. p \in Nat  BY <2>2, <3>4 DEF LocalRow
    <3>6. QED  BY <2>1, <2>2, <3>1, <3>2, <3>3, <3>5
  <2>4. rs[N].applied = hist /\ ~RemovesUs(rs[N])
    BY <1>2, <2>1 DEF NoticeInv, LastRows, LastRow, Last
  <2>5. CASE p = 0  BY <1>2, <2>1, <2>2, <2>3, <2>4, <2>5 DEF NoticeInv, StartsTaken
  <2>6. CASE local = N
    <3>1. LocalPassed(i, N)  BY <1>5, <2>2, <2>6 DEF NoticeInv, ChecksTaken
    <3>2. QED  BY <1>2, <2>1, <2>3, <2>4, <3>1 DEF LocalPassed
  <2>7. CASE p # 0 /\ local < N
    <3>1. /\ p <= mls[i].cursor
          /\ \A n \in 1..N : n < N => rs[n].seq < p
      <4>1. Rises(rs, mls[i].cursor)  BY <2>1 DEF NoticeInv, Rising
      <4>2. QED  BY <2>2, <2>3, <2>7, <4>1 DEF Rises
    <3>2. p < Len(own)
      <4>1. mls[i].cursor = Len(commits) /\ mls[Creator].cursor = Len(commits)
        BY <1>1, <1>3 DEF CreatorLog, Settled, Synced
      <4>2. commits \in Seq(GroupCommit)  BY DEF TypeInv, NetTypes
      <4>3. Len(commits) \in Nat  BY <4>2
      <4>4. QED  BY <1>3, <2>3, <3>1, <4>1, <4>3
    <3>3. p + 1 \in 2..Len(own) /\ own[p + 1].seq = p
      <4>1. p + 1 \in 1..Len(own) /\ p + 1 \in 2..Len(own)  BY <1>3, <2>3, <2>7, <3>2
      <4>2. PICK q : q = p + 1  OBVIOUS
      <4>3. own[q].seq = q - 1  BY <1>3, <4>1, <4>2
      <4>4. QED  BY <2>3, <4>1, <4>2, <4>3
    <3>4. p + 1 \in 2..cur[Creator].upload
      <4>1. SigningKey(Creator) # None
        BY InstAssumption, CreatorSigns DEF CopyInv
      <4>2. Unpublished(Creator) = {}  BY <1>3, <4>1 DEF Settled
      <4>3. cur[Creator].upload \in Nat
        <5>1. cur \in [Inst -> [download : Nat, upload : Nat, local : Nat, rem : Nat]]
          BY DEF TypeInv, LogTypes
        <5>2. QED  BY <1>3, <5>1
      <4>4. PICK q : q = p + 1  OBVIOUS
      <4>5. q \in 1..Len(own) /\ q \in Nat /\ q > 1  BY <1>3, <3>3, <4>4
      <4>6. own[q].seq # 0  BY <2>7, <3>3, <4>4
      <4>7. ~(q > cur[Creator].upload)  BY <1>2, <1>3, <4>2, <4>5, <4>6 DEF Unpublished
      <4>8. QED  BY <4>3, <4>4, <4>5, <4>7
    <3>5. PICK k \in DOMAIN log : log[k] = EntryOf(p + 1)  BY <3>4 DEF CopyInv, LogCopies
    <3>6. PICK m \in 1..Len(saved) : log[k] = EntryOf(m + 1)
      <4>1. Covers(saved, Len(log))  BY <2>1 DEF CopyInv, SavedCopies, Settled
      <4>2. k \in 1..Len(log)
        <5>1. log \in Seq(Entry)  BY DEF TypeInv, NetTypes
        <5>2. QED  BY <3>5, <5>1
      <4>3. QED  BY <4>1, <4>2 DEF Covers
    <3>7. m = p
      <4>1. IsCopy(saved)  BY <2>1 DEF CopyInv, SavedCopies
      <4>2. m + 1 \in 1..Len(own)  BY <1>2, <1>3, <2>3, <3>6, <4>1 DEF IsCopy
      <4>3. PICK x, y : x = p + 1 /\ y = m + 1  OBVIOUS
      <4>4. own[x].seq = own[y].seq  BY <1>2, <3>5, <3>6, <4>3 DEF EntryOf
      <4>5. own[y].seq = y - 1 /\ own[x].seq = p  BY <1>3, <3>3, <4>2, <4>3
      <4>6. QED  BY <2>3, <3>6, <4>3, <4>4, <4>5
    <3>8. rem < p
      <4>1. RemotePassed(i, local, rem)  BY <1>5, <2>2 DEF NoticeInv, ChecksTaken
      <4>2. CASE rem = 0  BY <2>3, <2>7, <4>2
      <4>3. CASE rem # 0
        <5>1. PICK n \in 1..local : rem <= rs[n].seq  BY <2>1, <4>1, <4>3 DEF RemotePassed
        <5>2. n \in 1..N /\ n < N  BY <2>3, <2>7, <5>1
        <5>3. PICK e : e = rs[n].seq  OBVIOUS
        <5>4. rs[n] \in LocalRow  BY <2>3, <5>2
        <5>5. e \in Nat  BY <5>3, <5>4 DEF LocalRow
        <5>6. rem <= e /\ e < p  BY <3>1, <5>1, <5>2, <5>3
        <5>7. QED  BY <2>3, <5>5, <5>6
      <4>4. QED  BY <4>2, <4>3
    <3>9. \A n \in DOMAIN saved : saved[n].seq = n /\ Taken(saved[n].applied)
      BY <1>1, <2>1, SavedTaken
    <3>10. Matching(i, p) = {p}
      <4>1. p \in DOMAIN saved  BY <2>3, <3>6, <3>7
      <4>2. p > rem  BY <2>3, <3>8
      <4>3. QED  BY <2>1, <2>2, <3>9, <4>1, <4>2 DEF Matching
    <3>11. rs[N].applied = saved[p].applied
      <4>1. CheckForkState(i).verdict # "forked"  BY DEF Settled
      <4>2. /\ N = Len(rows[i]) /\ cur[i].local < N /\ rows[i][N].seq # 0
            /\ ~RemovesUs(rows[i][N]) /\ Matching(i, rows[i][N].seq) = {p}
        BY <2>1, <2>2, <2>4, <2>7, <3>10
      <4>3. rows[i][N].applied = remote[i][p].applied  BY <2>3, <4>1, <4>2, NewestCompared
      <4>4. QED  BY <2>1, <4>3
    <3>12. QED  BY <1>2, <2>3, <2>4, <3>6, <3>7, <3>9, <3>11
  <2>8. QED  BY <2>3, <2>5, <2>6, <2>7
<1>6. QED  BY <1>4, <1>5

LEMMA NoticedWhenSettled ==
  ASSUME TypeInv, CopyInv, NoticeInv, Admins = {Creator}
  PROVE  DivergenceNoticed
<1>1. SUFFICES ASSUME \A i \in Inst : Settled(i), \A i \in Inst : status[i] # "forked",
                      NEW i \in Inst, NEW j \in Inst, Diverged(i, j)
               PROVE  FALSE
  BY DEF DivergenceNoticed
<1>2. PICK own, all, s, t :
        own = rows[Creator] /\ all = mls[Creator].hist /\ s = mls[i].hist /\ t = mls[j].hist
  OBVIOUS
<1>3. s \in Hist /\ t \in Hist /\ all \in Hist /\ Len(s) \in Nat /\ Len(t) \in Nat
  <2>1. s \in Hist /\ t \in Hist /\ all \in Hist
    BY <1>2, InstAssumption DEF TypeInv, NetTypes
  <2>2. QED  BY <2>1 DEF Hist
<1>4. ASSUME NEW h, Taken(h) PROVE Extends(h, all)
  <2>1. own \in Seq(LocalRow)  BY <1>2, CreatorRows DEF CopyInv
  <2>2. PICK m \in 1..Len(own) : own[m].applied = h  BY <1>2, <1>4, <2>1 DEF Taken
  <2>3. QED  BY <1>2, <2>2 DEF NoticeInv, OwnRows
<1>5. Extends(s, all) /\ Extends(t, all)
  <2>1. Taken(s) /\ Taken(t)  BY <1>1, <1>2, SettledTaken DEF Diverged
  <2>2. QED  BY <1>4, <2>1
<1>6. ASSUME Len(s) <= Len(t) PROVE FALSE
  <2>1. Extends(s, t)
    <3>1. \A k \in 1..Len(s) : k \in 1..Len(t)  BY <1>3, <1>6
    <3>2. QED  BY <1>5, <1>6, <3>1 DEF Extends
  <2>2. IsPrefix(s, t)  BY <1>3, <2>1, ExtendsIsPrefix DEF Hist
  <2>3. QED  BY <1>1, <1>2, <2>2 DEF Diverged
<1>7. ASSUME Len(t) <= Len(s) PROVE FALSE
  <2>1. Extends(t, s)
    <3>1. \A k \in 1..Len(t) : k \in 1..Len(s)  BY <1>3, <1>7
    <3>2. QED  BY <1>5, <1>7, <3>1 DEF Extends
  <2>2. IsPrefix(t, s)  BY <1>3, <2>1, ExtendsIsPrefix DEF Hist
  <2>3. QED  BY <1>1, <1>2, <2>2 DEF Diverged
<1>8. QED  BY <1>3, <1>6, <1>7

(* When the creator is the only super admin a divergence does not go       *)
(* unnoticed: once everybody has published, downloaded and checked         *)
(* everything there is, whoever found no fork is at an epoch of the        *)
(* creator's own history, so that two installations on incompatible        *)
(* histories cannot both have found none - through skipped removals, new   *)
(* chain starts, cursors that the answering of requests moves, late        *)
(* welcomes and crashes (tick: check_conversation_fork_state of all the    *)
(* members together, through the remote log).                              *)
THEOREM DivergencesNoticed == ASSUME Admins = {Creator} PROVE Spec => []DivergenceNoticed
<1>1. Init => TypeInv /\ CopyInv /\ NoticeInv  BY TypeInit, CopyInit, NoticeInit
<1>2. TypeInv /\ CopyInv /\ NoticeInv /\ [Next]_vars => (TypeInv /\ CopyInv /\ NoticeInv)'
  BY TypeStep, CopyStep, NoticeStep
<1>3. TypeInv /\ CopyInv /\ NoticeInv => DivergenceNoticed  BY NoticedWhenSettled
<1>4. QED  BY <1>1, <1>2, <1>3, PTL DEF Spec
=============================================================================
