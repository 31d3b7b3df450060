---------------------- MODULE EnvelopeOrder_proofs ----------------------
(***************************************************************************)
(* Neither the sync nor a subscription takes an envelope before the commit *)
(* it depends on, and neither loses one, for any number of originators and *)
(* messages.                                                               *)
(*                                                                         *)
(* The first half is about the sort: a loop of CausalSort::sort keeps that *)
(* what it has sorted comes after what it depends on, and of every         *)
(* originator in order.  The second half is the inductive invariant of the *)
(* two readers, which rests on what a pass of the sort makes of a batch.   *)
(***************************************************************************)
EXTENDS EnvelopeOrder, FiniteSetTheorems, WellFoundedInduction, TLAPS

-----------------------------------------------------------------------------
(* Lists and recursion *)

(* Induction over 0..N, for a set. *)
LEMMA UpTo ==
  ASSUME NEW N \in Nat, NEW G, 0 \in G, \A n \in 1..N : n - 1 \in G => n \in G
  PROVE  \A n \in 0..N : n \in G
<1> DEFINE R == {ss \in Nat \X Nat : ss[1] < ss[2]}
           Bad == {n \in 0..N : n \notin G}
<1>1. IsWellFoundedOn(R, Nat)
  <2>1. R = OpToRel(<, Nat)  BY DEF OpToRel
  <2>2. IsWellFoundedOn(OpToRel(<, Nat), Nat)  BY NatLessThanWellFounded
  <2>3. QED  BY <2>1, <2>2
<1>2. SUFFICES ASSUME Bad # {} PROVE FALSE  OBVIOUS
<1>3. Bad \subseteq Nat  OBVIOUS
<1>4. PICK m \in Bad : \A n \in Bad : ~(<<n, m>> \in R)
  <2> HIDE DEF R, Bad
  <2>1. QED  BY <1>1, <1>2, <1>3, WFMin
<1>5. m \in 1..N /\ m - 1 \in 0..N /\ m - 1 < m  BY <1>4
<1>6. m - 1 \notin Bad
  <2>1. <<m - 1, m>> \in R  BY <1>5
  <2>2. QED  BY <1>4, <2>1
<1>7. QED  BY <1>4, <1>5, <1>6

(* f is defined by recursion on 0..N. *)
IsRec(f, T, b, N, g) ==
  f \in [0..N -> T] /\ f[0] = b /\ \A n \in 1..N : f[n] = g[n][f[n - 1]]

(* A function defined by recursion over 0..N exists. *)
LEMMA Recursion ==
  ASSUME NEW T, NEW b \in T, NEW N \in Nat, NEW g, \A n \in 1..N : \A x \in T : g[n][x] \in T
  PROVE  \E f : IsRec(f, T, b, N, g)
<1> DEFINE Rec(f, n) == f \in [0..n -> T] /\ f[0] = b /\ \A k \in 1..n : f[k] = g[k][f[k - 1]]
           G == {n \in 0..N : \E f : Rec(f, n)}
<1>1. 0 \in G
  <2>1. Rec([k \in 0..0 |-> b], 0)  OBVIOUS
  <2> HIDE DEF Rec
  <2>2. QED  BY <2>1
<1>2. ASSUME NEW n \in 1..N, n - 1 \in G PROVE n \in G
  <2>1. PICK f : Rec(f, n - 1)  BY <1>2
  <2>2. n - 1 \in 0..n - 1 /\ n \in Nat /\ n - 1 \in Nat  OBVIOUS
  <2>3. f[n - 1] \in T /\ g[n][f[n - 1]] \in T  BY <2>1, <2>2
  <2> DEFINE h == [k \in 0..n |-> IF k = n THEN g[n][f[n - 1]] ELSE f[k]]
  <2>4. h \in [0..n -> T]
    <3>1. \A k \in 0..n : k # n => k \in 0..n - 1  OBVIOUS
    <3>2. QED  BY <2>1, <2>3, <3>1
  <2>5. h[0] = b  BY <2>1
  <2>6. ASSUME NEW k \in 1..n PROVE h[k] = g[k][h[k - 1]]
    <3>1. h[k - 1] = f[k - 1]  OBVIOUS
    <3>2. CASE k = n  BY <3>1, <3>2
    <3>3. CASE k # n
      <4>1. k \in 1..n - 1 /\ h[k] = f[k]  BY <3>3
      <4>2. QED  BY <2>1, <3>1, <4>1
    <3>4. QED  BY <3>2, <3>3
  <2> HIDE DEF h
  <2>7. Rec(h, n)  BY <2>4, <2>5, <2>6
  <2>8. QED  BY <2>7
<1>3. \A n \in 0..N : n \in G
  <2> HIDE DEF G
  <2>1. QED  BY <1>1, <1>2, UpTo
<1>4. QED  BY <1>3 DEF IsRec

-----------------------------------------------------------------------------
(* The causal sort *)

(* Envelopes by their cursors, and clocks. *)
Envelope == All \X (Nat \ {0})
Envelopes(S) == S \subseteq Envelope /\ \A e \in S : Dep(e) \in Nat
Clock == [All -> Nat]

(* x is somewhere in list, before position k. *)
Before(x, list, k) == \E i \in 1..k - 1 : list[i] = x
In(x, list) == \E i \in 1..Len(list) : list[i] = x

(* The two parts of recover_newly_valid. *)
Splits(S) == [valid : Seq(S), waits : Seq(S)]

(* The first n of the missed, divided by whether clock dominates them and   *)
(* in the order they had.                                                   *)
IsSplit(va, wa, missed, n, clock) ==
  /\ Len(va) + Len(wa) = n
  /\ \A k \in 1..Len(va) :
       /\ Dominates(clock, va[k])
       /\ \E i \in 1..n : va[k] = missed[i]
            /\ \A j \in 1..i - 1 : Before(missed[j], va, k) \/ In(missed[j], wa)
  /\ \A k \in 1..Len(wa) :
       /\ ~Dominates(clock, wa[k])
       /\ \E i \in 1..n : wa[k] = missed[i]
            /\ \A j \in 1..i - 1 : In(missed[j], va) \/ Before(missed[j], wa, k)
  /\ \A i \in 1..n : In(missed[i], va) \/ In(missed[i], wa)

(* What In and Before say of a list with one more element. *)
LEMMA Appended ==
  ASSUME NEW S, NEW s \in Seq(S), NEW x \in S
  PROVE  LET t == Append(s, x)
         IN /\ t \in Seq(S) /\ Len(s) \in Nat /\ Len(t) = Len(s) + 1
            /\ t[Len(s) + 1] = x /\ \A k \in 1..Len(s) : t[k] = s[k]
            /\ \A y : In(y, t) <=> In(y, s) \/ y = x
            /\ \A y, k : k \in 1..Len(s) + 1 => (Before(y, t, k) <=> Before(y, s, k))
            /\ \A y : Before(y, t, Len(s) + 1) <=> In(y, s)
<1>0. PICK t : t = Append(s, x)  OBVIOUS
<1>1. /\ t \in Seq(S) /\ Len(s) \in Nat /\ Len(t) = Len(s) + 1
      /\ t[Len(s) + 1] = x /\ \A k \in 1..Len(s) : t[k] = s[k]
  BY <1>0
<1>2. PICK n \in Nat : n = Len(s)  BY <1>1
<1>3. \A y : In(y, t) <=> In(y, s) \/ y = x
  <2>1. ASSUME NEW y, In(y, t) PROVE In(y, s) \/ y = x  BY <1>1, <1>2, <2>1 DEF In
  <2>2. ASSUME NEW y, In(y, s) \/ y = x PROVE In(y, t)
    <3>1. CASE In(y, s)  BY <1>1, <1>2, <3>1 DEF In
    <3>2. CASE y = x
      <4>1. n + 1 \in 1..Len(t)  BY <1>1, <1>2
      <4>2. QED  BY <1>1, <1>2, <3>2, <4>1 DEF In
    <3>3. QED  BY <2>2, <3>1, <3>2
  <2>3. QED  BY <2>1, <2>2
<1>4. ASSUME NEW y, NEW k \in 1..n + 1 PROVE Before(y, t, k) <=> Before(y, s, k)
  <2>1. \A i \in 1..k - 1 : i \in 1..n  BY <1>2
  <2>2. QED  BY <1>1, <1>2, <2>1 DEF Before
<1>5. ASSUME NEW y PROVE Before(y, t, n + 1) <=> In(y, s)
  <2>1. n + 1 - 1 = n  BY <1>2
  <2>2. QED  BY <1>1, <1>2, <2>1 DEF Before, In
<1>6. QED  BY <1>0, <1>1, <1>2, <1>3, <1>4, <1>5

(* Before anything is looked at nothing is divided. *)
LEMMA SplitStart ==
  ASSUME NEW S, NEW missed, NEW clock
  PROVE  LET x == [valid |-> << >>, waits |-> << >>]
         IN x \in Splits(S) /\ IsSplit(x.valid, x.waits, missed, 0, clock)
  BY DEF Splits, IsSplit

(* One more missed envelope goes to those the clock dominates or to those   *)
(* that wait (recover_newly_valid).                                         *)
LEMMA SplitStep ==
  ASSUME NEW S, NEW missed \in Seq(S), NEW clock, NEW n \in 1..Len(missed),
         NEW x \in Splits(S), IsSplit(x.valid, x.waits, missed, n - 1, clock),
         NEW y, y = IF Dominates(clock, missed[n])
                    THEN [x EXCEPT !.valid = Append(@, missed[n])]
                    ELSE [x EXCEPT !.waits = Append(@, missed[n])]
  PROVE  y \in Splits(S) /\ IsSplit(y.valid, y.waits, missed, n, clock)
<1> DEFINE e == missed[n]
<1>1. e \in S /\ n \in Nat /\ n - 1 \in Nat /\ n - 1 + 1 = n  OBVIOUS
<1>2a. PICK va \in Seq(S), wa \in Seq(S) : va = x.valid /\ wa = x.waits  BY DEF Splits
<1>2. PICK lv \in Nat, lw \in Nat : lv = Len(va) /\ lw = Len(wa)
  BY <1>2a, SMTT(30)
<1>3. x = [valid |-> va, waits |-> wa] /\ va \in Seq(S) /\ wa \in Seq(S)
  BY <1>2a DEF Splits
<1>4. /\ lv + lw = n - 1
      /\ \A k \in 1..lv :
           /\ Dominates(clock, va[k])
           /\ \E i \in 1..n - 1 : va[k] = missed[i]
                /\ \A j \in 1..i - 1 : Before(missed[j], va, k) \/ In(missed[j], wa)
      /\ \A k \in 1..lw :
           /\ ~Dominates(clock, wa[k])
           /\ \E i \in 1..n - 1 : wa[k] = missed[i]
                /\ \A j \in 1..i - 1 : In(missed[j], va) \/ Before(missed[j], wa, k)
      /\ \A i \in 1..n - 1 : In(missed[i], va) \/ In(missed[i], wa)
  BY <1>2, <1>2a DEF IsSplit
<1>5. \A i \in 1..n - 1 : i \in 1..n
  BY <1>1
<1>6. \A i \in 1..n : i \in 1..n - 1 \/ i = n
  BY <1>1
<1>7. CASE Dominates(clock, e)
  <2>1. PICK t : t = Append(va, e)  OBVIOUS
  <2>2. y = [valid |-> t, waits |-> wa]  BY <1>3, <1>7, <2>1
  <2>3. /\ t \in Seq(S) /\ Len(t) = lv + 1
        /\ t[lv + 1] = e /\ \A k \in 1..lv : t[k] = va[k]
        /\ \A z : In(z, t) <=> In(z, va) \/ z = e
        /\ \A z, k : k \in 1..lv + 1 => (Before(z, t, k) <=> Before(z, va, k))
        /\ \A z : Before(z, t, lv + 1) <=> In(z, va)
    <3>1. e \in S  BY <1>1
    <3> HIDE DEF e
    <3>2. QED  BY <1>2, <2>1, <3>1, Appended
  <2>4. ASSUME NEW k \in 1..lv + 1
        PROVE  /\ Dominates(clock, t[k])
               /\ \E i \in 1..n : t[k] = missed[i]
                   /\ \A j \in 1..i - 1 : Before(missed[j], t, k) \/ In(missed[j], wa)
    <3>1. CASE k = lv + 1
      <4>1. \A j \in 1..n - 1 : Before(missed[j], t, lv + 1) \/ In(missed[j], wa)
        BY <1>4, <2>3
      <4>2. t[lv + 1] = missed[n] /\ Dominates(clock, t[lv + 1])  BY <1>7, <2>3
      <4>3. n \in 1..n  BY <1>1
      <4>4. QED  BY <3>1, <4>1, <4>2, <4>3
    <3>2. CASE k # lv + 1
      <4>1. k \in 1..lv  BY <1>2, <3>2
      <4>2. QED  BY <1>4, <1>5, <2>3, <4>1, ZenonT(40)
    <3>3. QED  BY <3>1, <3>2
  <2>5. lv + 1 + lw = n  BY <1>1, <1>4
  <2>6. ASSUME NEW k \in 1..lw
        PROVE  /\ ~Dominates(clock, wa[k])
               /\ \E i \in 1..n : wa[k] = missed[i]
                    /\ \A j \in 1..i - 1 : In(missed[j], t) \/ Before(missed[j], wa, k)
    BY <1>4, <1>5, <2>3
  <2>7. \A i \in 1..n : In(missed[i], t) \/ In(missed[i], wa)  BY <1>4, <1>6, <2>3
  <2>8. IsSplit(t, wa, missed, n, clock)
    BY <1>2, <2>3, <2>4, <2>5, <2>6, <2>7 DEF IsSplit
  <2>9. y.valid = t /\ y.waits = wa  BY <2>2
  <2>10. y \in Splits(S)
    <3>1. t \in Seq(S)  BY <2>3
    <3>2. va \in Seq(S) /\ wa \in Seq(S)  OBVIOUS
    <3>3. [valid |-> t, waits |-> wa] \in [valid : Seq(S), waits : Seq(S)]  BY <3>1, <3>2
    <3>4. QED  BY <2>2, <3>3 DEF Splits
  <2>11. QED  BY <2>8, <2>9, <2>10
<1>8. CASE ~Dominates(clock, e)
  <2>1. PICK t : t = Append(wa, e)  OBVIOUS
  <2>2. y = [valid |-> va, waits |-> t]  BY <1>3, <1>8, <2>1
  <2>3. /\ t \in Seq(S) /\ Len(t) = lw + 1
        /\ t[lw + 1] = e /\ \A k \in 1..lw : t[k] = wa[k]
        /\ \A z : In(z, t) <=> In(z, wa) \/ z = e
        /\ \A z, k : k \in 1..lw + 1 => (Before(z, t, k) <=> Before(z, wa, k))
        /\ \A z : Before(z, t, lw + 1) <=> In(z, wa)
    <3>1. e \in S  BY <1>1
    <3> HIDE DEF e
    <3>2. QED  BY <1>2, <2>1, <3>1, Appended
  <2>4. ASSUME NEW k \in 1..lw + 1
        PROVE  /\ ~Dominates(clock, t[k])
               /\ \E i \in 1..n : t[k] = missed[i]
                   /\ \A j \in 1..i - 1 : In(missed[j], va) \/ Before(missed[j], t, k)
    <3>1. CASE k = lw + 1
      <4>1. \A j \in 1..n - 1 : In(missed[j], va) \/ Before(missed[j], t, lw + 1)
        BY <1>4, <2>3
      <4>2. t[lw + 1] = missed[n] /\ ~Dominates(clock, t[lw + 1])  BY <1>8, <2>3
      <4>3. n \in 1..n  BY <1>1
      <4>4. QED  BY <3>1, <4>1, <4>2, <4>3
    <3>2. CASE k # lw + 1
      <4>1. k \in 1..lw  BY <1>2, <3>2, SMTT(30)
      <4>2. QED  BY <1>4, <1>5, <2>3, <4>1, ZenonT(40)
    <3>3. QED  BY <3>1, <3>2
  <2>5. lv + (lw + 1) = n  BY <1>1, <1>4
  <2>6. ASSUME NEW k \in 1..lv
        PROVE  /\ Dominates(clock, va[k])
               /\ \E i \in 1..n : va[k] = missed[i]
                    /\ \A j \in 1..i - 1 : Before(missed[j], va, k) \/ In(missed[j], t)
    BY <1>4, <1>5, <2>3
  <2>7. \A i \in 1..n : In(missed[i], va) \/ In(missed[i], t)  BY <1>4, <1>6, <2>3
  <2>8. IsSplit(va, t, missed, n, clock)
    BY <1>2, <2>3, <2>4, <2>5, <2>6, <2>7 DEF IsSplit
  <2>9. y.valid = va /\ y.waits = t  BY <2>2, SMTT(30)
  <2>10. y \in Splits(S)
    <3>1. t \in Seq(S)  BY <2>3
    <3>2. va \in Seq(S) /\ wa \in Seq(S)  OBVIOUS
    <3>3. [valid |-> va, waits |-> t] \in [valid : Seq(S), waits : Seq(S)]  BY <3>1, <3>2
    <3>4. QED  BY <2>2, <3>3 DEF Splits
  <2>11. QED  BY <2>8, <2>9, <2>10
<1>9. QED  BY <1>7, <1>8

(* recover_newly_valid divides all that was missed by whether the clock     *)
(* dominates it, and keeps the order within both parts.                     *)
LEMMA ExtractSplits ==
  ASSUME NEW S, NEW missed \in Seq(S), NEW clock
  PROVE  LET x == Extract(missed, clock)
         IN x \in Splits(S) /\ IsSplit(x.valid, x.waits, missed, Len(missed), clock)
<1> DEFINE N == Len(missed)
           b == [valid |-> << >>, waits |-> << >>]
           Next1(n, x) == IF Dominates(clock, missed[n])
                          THEN [x EXCEPT !.valid = Append(@, missed[n])]
                          ELSE [x EXCEPT !.waits = Append(@, missed[n])]
           Body(f) == [n \in 0..N |-> IF n = 0 THEN b ELSE Next1(n, f[n - 1])]
           g == [n \in 1..N |-> [x \in Splits(S) |-> Next1(n, x)]]
<1>1. N \in Nat /\ b \in Splits(S)  BY DEF Splits
<1>2. \A n \in 1..N : \A x \in Splits(S) : g[n][x] \in Splits(S) /\ g[n][x] = Next1(n, x)
  <2>1. ASSUME NEW n \in 1..N, NEW x \in Splits(S) PROVE Next1(n, x) \in Splits(S)
    <3>1. missed[n] \in S  OBVIOUS
    <3>2. /\ Append(x.valid, missed[n]) \in Seq(S) /\ Append(x.waits, missed[n]) \in Seq(S)
      BY <3>1 DEF Splits
    <3>3. QED  BY <3>2 DEF Splits
  <2> HIDE DEF Next1
  <2>2. QED  BY <2>1
<1>3. PICK f \in [0..N -> Splits(S)] : f[0] = b /\ \A n \in 1..N : f[n] = g[n][f[n - 1]]
  <2>1. \A n \in 1..N : \A x \in Splits(S) : g[n][x] \in Splits(S)  BY <1>2
  <2>2. PICK T, gg, bb : T = Splits(S) /\ gg = g /\ bb = b  OBVIOUS
  <2> HIDE DEF N, b, g
  <2>3. bb \in T /\ \A n \in 1..N : \A x \in T : gg[n][x] \in T  BY <1>1, <2>1, <2>2
  <2>4. PICK f : IsRec(f, T, bb, N, gg)  BY <1>1, <2>3, Recursion
  <2>5. QED  BY <2>2, <2>4 DEF IsRec
<1>4. \A n \in 1..N : n - 1 \in 0..N /\ f[n] = Next1(n, f[n - 1])
  <2>1. \A n \in 1..N : n - 1 \in 0..N  BY <1>1
  <2> HIDE DEF N, b, g, Next1
  <2>2. QED  BY <1>2, <1>3, <2>1
<1>5. f = Body(f)
  <2>1. \A n \in 0..N : f[n] = IF n = 0 THEN b ELSE Next1(n, f[n - 1])
    <3>1. \A n \in 0..N : n # 0 => n \in 1..N  BY <1>1
    <3> HIDE DEF N, b, g, Next1
    <3>2. QED  BY <1>3, <1>4, <3>1
  <2> HIDE DEF N, b, g, Next1
  <2>2. QED  BY <1>3, <2>1
<1> DEFINE h == CHOOSE h : h = Body(h)
<1>6. h = Body(h)
  <2> HIDE DEF N, b, g, Next1, Body
  <2>1. QED  BY <1>5
<1>7. Extract(missed, clock) = h[N]  BY DEF Extract
<1> DEFINE G == {n \in 0..N : h[n] \in Splits(S) /\ IsSplit(h[n].valid, h[n].waits, missed, n, clock)}
<1> HIDE DEF h
<1>8. 0 \in G
  <2>1. h[0] = b  BY <1>1, <1>6
  <2>2. QED  BY <1>1, <2>1, SplitStart
<1>9. ASSUME NEW n \in 1..N, n - 1 \in G PROVE n \in G
  <2>1. h[n] = Next1(n, h[n - 1])
    <3>1. n \in 0..N /\ n # 0  BY <1>1
    <3>2. h[n] = IF n = 0 THEN b ELSE Next1(n, h[n - 1])
      <4> HIDE DEF N, b, Next1
      <4>1. QED  BY <1>6, <3>1
    <3>3. QED  BY <3>1, <3>2
  <2>2. h[n - 1] \in Splits(S)
        /\ IsSplit(h[n - 1].valid, h[n - 1].waits, missed, n - 1, clock)
    BY <1>9
  <2>3. h[n] \in Splits(S) /\ IsSplit(h[n].valid, h[n].waits, missed, n, clock)
    BY <2>1, <2>2, SplitStep
  <2>4. QED  BY <1>1, <2>3
<1>10. \A n \in 0..N : n \in G
  <2> HIDE DEF N, G
  <2>1. QED  BY <1>1, <1>8, <1>9, UpTo
<1>11. QED  BY <1>1, <1>7, <1>10

(* The state of the loop of the sort. *)
State(S) == [sorted : Seq(S), rest : Seq(S), missed : Seq(S), clock : Clock]

(* The head of the rest is kept, v becomes valid with it. *)
Keep(s, t, v) ==
  /\ Dominates(s.clock, s.rest[1])
  /\ t.sorted = Append(s.sorted, s.rest[1]) /\ t.clock = Apply(s.clock, s.rest[1])
  /\ t.rest = v \o Tail(s.rest)
  /\ IsSplit(v, t.missed, s.missed, Len(s.missed), t.clock)

(* The head of the rest is missed. *)
Miss(s, t) ==
  /\ ~Dominates(s.clock, s.rest[1])
  /\ t.sorted = s.sorted /\ t.clock = s.clock
  /\ t.rest = Tail(s.rest) /\ t.missed = Append(s.missed, s.rest[1])

(* The larger of two numbers. *)
LEMMA Larger ==
  ASSUME NEW a \in Int, NEW b \in Int
  PROVE  Max({a, b}) = IF a >= b THEN a ELSE b
<1>1. PICK m : m = IF a >= b THEN a ELSE b  OBVIOUS
<1>2. m \in {a, b} /\ \A y \in {a, b} : m >= y  BY <1>1
<1>3. \A x \in {a, b} : (\A y \in {a, b} : x >= y) => x = m  BY <1>1
<1>4. QED  BY <1>1, <1>2, <1>3 DEF Max

(* apply moves the clock of the envelope's originator forward, and no       *)
(* other.                                                                   *)
LEMMA Applied ==
  ASSUME NEW c \in Clock, NEW e \in Envelope
  PROVE  LET d == Apply(c, e)
         IN /\ d \in Clock /\ e[2] <= d[e[1]]
            /\ \A o \in All : c[o] <= d[o] /\ (d[o] = c[o] \/ (o = e[1] /\ d[o] = e[2]))
            /\ \A o \in All : o # e[1] \/ e[2] <= c[o] => d[o] = c[o]
<1>1. e[1] \in All /\ e[2] \in Nat  BY DEF Envelope
<1>2. c[e[1]] \in Nat  BY <1>1 DEF Clock
<1>3. PICK m : m = Max({c[e[1]], e[2]})  OBVIOUS
<1>4. m = IF c[e[1]] >= e[2] THEN c[e[1]] ELSE e[2]  BY <1>1, <1>2, <1>3, Larger
<1>5. Apply(c, e) = [c EXCEPT ![e[1]] = m]  BY <1>3 DEF Apply
<1>6. m \in Nat /\ m >= c[e[1]] /\ m >= e[2] /\ m \in {c[e[1]], e[2]}  BY <1>1, <1>2, <1>4
<1>7. PICK d : d = Apply(c, e)  OBVIOUS
<1>8. d \in Clock /\ d[e[1]] = m /\ \A o \in All \ {e[1]} : d[o] = c[o]
  BY <1>1, <1>5, <1>6, <1>7 DEF Clock
<1>9. \A o \in All : c[o] \in Nat  BY DEF Clock
<1>10. QED  BY <1>1, <1>4, <1>6, <1>7, <1>8, <1>9

(* A turn of CausalSort's loop keeps the head of the rest if the clock      *)
(* dominates it, and misses it otherwise.                                   *)
LEMMA StepShape ==
  ASSUME NEW S, Envelopes(S), NEW s \in State(S), s.rest # << >>
  PROVE  LET t == SortStep(s)
         IN t \in State(S) /\ (Miss(s, t) \/ \E v \in Seq(S) : Keep(s, t, v))
<1>1. PICK e, now, split :
        e = Head(s.rest) /\ now = Apply(s.clock, e) /\ split = Extract(s.missed, now)
  OBVIOUS
<1>2. s.sorted \in Seq(S) /\ s.rest \in Seq(S) /\ s.missed \in Seq(S) /\ s.clock \in Clock
  BY DEF State
<1>3. e \in S /\ e = s.rest[1] /\ Tail(s.rest) \in Seq(S)  BY <1>1, <1>2
<1>4. e \in Envelope  BY <1>3 DEF Envelopes
<1>5. now \in Clock  BY <1>1, <1>2, <1>4, Applied
<1>6. split \in Splits(S) /\ IsSplit(split.valid, split.waits, s.missed, Len(s.missed), now)
  BY <1>1, <1>2, ExtractSplits
<1>7. split.valid \in Seq(S) /\ split.waits \in Seq(S)  BY <1>6 DEF Splits
<1>8. CASE Dominates(s.clock, e)
  <2>1. PICK t : t = SortStep(s)  OBVIOUS
  <2>2. t = [sorted |-> Append(s.sorted, e), rest |-> split.valid \o Tail(s.rest),
             missed |-> split.waits, clock |-> now]
    BY <1>1, <1>8, <2>1 DEF SortStep
  <2>3. Append(s.sorted, e) \in Seq(S) /\ split.valid \o Tail(s.rest) \in Seq(S)
    BY <1>2, <1>3, <1>7
  <2>4. t \in State(S)  BY <1>5, <1>7, <2>2, <2>3 DEF State
  <2>5. Keep(s, t, split.valid)  BY <1>1, <1>3, <1>6, <1>8, <2>2 DEF Keep
  <2>6. QED  BY <1>7, <2>1, <2>4, <2>5
<1>9. CASE ~Dominates(s.clock, e)
  <2>1. PICK t : t = SortStep(s)  OBVIOUS
  <2>2. t = [s EXCEPT !.rest = Tail(@), !.missed = Append(@, e)]
    BY <1>1, <1>9, <2>1 DEF SortStep
  <2>3. /\ t.sorted = s.sorted /\ t.clock = s.clock
        /\ t.rest = Tail(s.rest) /\ t.missed = Append(s.missed, e)
    BY <2>2 DEF State
  <2>4. Append(s.missed, e) \in Seq(S)  BY <1>2, <1>3
  <2>5. t \in State(S)  BY <1>2, <1>3, <2>2, <2>4 DEF State
  <2>6. Miss(s, t)  BY <1>3, <1>9, <2>3 DEF Miss
  <2>7. QED  BY <2>1, <2>5, <2>6
<1>10. QED  BY <1>8, <1>9

(* What is put before the tail. *)
LEMMA Joined ==
  ASSUME NEW S, NEW v \in Seq(S), NEW r \in Seq(S), r # << >>
  PROVE  LET t == v \o Tail(r)
             n == Len(v)
         IN /\ t \in Seq(S) /\ n \in Nat /\ Len(t) \in Nat /\ Len(t) = n + Len(r) - 1
            /\ \A k \in 1..n : t[k] = v[k]
            /\ \A k \in n + 1..Len(t) : t[k] = r[k - n + 1]
            /\ \A y : In(y, r) => y = r[1] \/ In(y, t)
            /\ \A y : In(y, v) => In(y, t)
            /\ \A y : In(y, t) => In(y, v) \/ In(y, r)
            /\ \A y, k : k \in 1..n + 1 => (Before(y, t, k) <=> Before(y, v, k))
            /\ \A y, k : k \in n + 1..Len(t) + 1 =>
                 /\ Before(y, r, k - n + 1) => y = r[1] \/ Before(y, t, k)
                 /\ In(y, v) => Before(y, t, k)
<1>1. PICK t, n : t = v \o Tail(r) /\ n = Len(v)  OBVIOUS
<1>2. /\ t \in Seq(S) /\ n \in Nat /\ Len(r) \in Nat \ {0} /\ Len(t) = n + Len(r) - 1
      /\ \A k \in 1..n : t[k] = v[k]
  BY <1>1
<1>3. \A k \in n + 1..Len(t) : t[k] = r[k - n + 1]
  <2>1. Tail(r) \in Seq(S) /\ Len(Tail(r)) = Len(r) - 1
        /\ \A k \in 1..Len(r) - 1 : Tail(r)[k] = r[k + 1]
    OBVIOUS
  <2>2. ASSUME NEW k \in n + 1..Len(t) PROVE t[k] = r[k - n + 1]
    <3>1. k - n \in 1..Len(r) - 1  BY <1>2
    <3>2. t[k] = Tail(r)[k - n]  BY <1>1, <1>2, <2>1, <3>1
    <3>3. QED  BY <2>1, <3>1, <3>2
  <2>3. QED  BY <2>2
<1>4. PICK len \in Nat, m \in Nat : len = Len(r) /\ m = Len(t) /\ len > 0 /\ m = n + len - 1
  BY <1>2
<1>5. \A i \in 2..len : i + n - 1 \in n + 1..m /\ t[i + n - 1] = r[i]
  <2>1. ASSUME NEW i \in 2..len PROVE i + n - 1 \in n + 1..m /\ i + n - 1 - n + 1 = i
    BY <1>2, <1>4
  <2>2. ASSUME NEW i \in 2..len PROVE t[i + n - 1] = r[i]
    <3>1. PICK k : k = i + n - 1  OBVIOUS
    <3>2. k \in n + 1..Len(t) /\ k - n + 1 = i  BY <1>2, <1>4, <2>1, <3>1
    <3>3. QED  BY <1>3, <3>1, <3>2
  <2>3. QED  BY <2>1, <2>2
<1>6. ASSUME NEW y, In(y, r) PROVE y = r[1] \/ In(y, t)
  <2>1. PICK i \in 1..len : r[i] = y  BY <1>4, <1>6 DEF In
  <2>2. CASE i # 1
    <3>1. i \in 2..len /\ i + n - 1 \in 1..m  BY <1>2, <1>4, <2>2
    <3>2. QED  BY <1>4, <1>5, <2>1, <3>1 DEF In
  <2>3. QED  BY <2>1, <2>2
<1>7. ASSUME NEW y, In(y, v) PROVE In(y, t)
  <2>1. PICK i \in 1..n : v[i] = y  BY <1>1, <1>7 DEF In
  <2>2. i \in 1..m  BY <1>2, <1>4
  <2>3. QED  BY <1>2, <1>4, <2>1, <2>2 DEF In
<1>8. ASSUME NEW y, In(y, t) PROVE In(y, v) \/ In(y, r)
  <2>1. PICK i \in 1..m : t[i] = y  BY <1>4, <1>8 DEF In
  <2>2. CASE i \in 1..n  BY <1>1, <1>2, <2>1, <2>2 DEF In
  <2>3. CASE i \notin 1..n
    <3>1. i \in n + 1..m /\ i - n + 1 \in 1..len  BY <1>2, <1>4, <2>3
    <3>2. QED  BY <1>3, <1>4, <2>1, <3>1 DEF In
  <2>4. QED  BY <2>2, <2>3
<1>9. ASSUME NEW y, NEW k \in 1..n + 1 PROVE Before(y, t, k) <=> Before(y, v, k)
  <2>1. \A i \in 1..k - 1 : i \in 1..n  BY <1>2
  <2>2. QED  BY <1>2, <2>1 DEF Before
<1>10. ASSUME NEW y, NEW k \in n + 1..m + 1
       PROVE  /\ Before(y, r, k - n + 1) => y = r[1] \/ Before(y, t, k)
              /\ In(y, v) => Before(y, t, k)
  <2>1. ASSUME Before(y, r, k - n + 1), y # r[1] PROVE Before(y, t, k)
    <3>0. PICK q : q = k - n + 1  OBVIOUS
    <3>1. PICK i \in 1..q - 1 : r[i] = y  BY <2>1, <3>0 DEF Before
    <3>2. i # 1  BY <2>1, <3>1
    <3>3. i \in 2..len /\ i + n - 1 \in 1..k - 1  BY <1>2, <1>4, <3>0, <3>2
    <3>4. QED  BY <1>5, <3>1, <3>3 DEF Before
  <2>2. ASSUME In(y, v) PROVE Before(y, t, k)
    <3>1. PICK i \in 1..n : v[i] = y  BY <1>1, <2>2 DEF In
    <3>2. i \in 1..k - 1  BY <1>2
    <3>3. QED  BY <1>2, <3>1, <3>2 DEF Before
  <2>3. QED  BY <2>1, <2>2
<1>11. QED  BY <1>1, <1>2, <1>3, <1>4, <1>6, <1>7, <1>8, <1>9, <1>10

(* The envelopes of e's originator between base and e. *)
Smaller(e, base) == {<<e[1], t>> : t \in base[e[1]] + 1..e[2] - 1}

(* What has been kept is dominated by the clock, which is made of it, and   *)
(* what was missed is not.                                                  *)
Clocked(s, c) ==
  /\ \A o \in All : c[o] <= s.clock[o]
  /\ s.clock[Mls] = c[Mls] \/ In(<<Mls, s.clock[Mls]>>, s.sorted)
  /\ \A k \in 1..Len(s.sorted) :
       LET e == s.sorted[k]
       IN /\ Dominates(s.clock, e) /\ e[2] <= s.clock[e[1]]
          /\ \/ Dep(e) <= c[Mls]
             \/ \E i \in 1..k - 1 : IsCommit(s.sorted[i]) /\ Dep(e) <= s.sorted[i][2]
  /\ \A k \in 1..Len(s.missed) : ~Dominates(s.clock, s.missed[k])

(* Nothing is lost or comes from elsewhere. *)
Total(s, list) ==
  /\ Len(s.sorted) + Len(s.rest) + Len(s.missed) = Len(list)
  /\ \A x : In(x, list) <=> In(x, s.sorted) \/ In(x, s.rest) \/ In(x, s.missed)

(* The commit at k of the rest is there already, or newer than those before. *)
Repeated(s, k) ==
  In(s.rest[k], s.sorted) \/ In(s.rest[k], s.missed) \/ Before(s.rest[k], s.rest, k)
Newest(s, k) ==
  /\ \A i \in 1..k - 1 : IsCommit(s.rest[i]) => s.rest[i][2] < s.rest[k][2]
  /\ \A i \in 1..Len(s.missed) : IsCommit(s.missed[i]) => s.missed[i][2] < s.rest[k][2]

(* The first f of the rest are valid and do not move the clock's commits; n *)
(* turns have been taken.                                                   *)
Pending(s, f, n) ==
  /\ \A k \in 1..f :
       Dominates(s.clock, s.rest[k]) /\ (IsCommit(s.rest[k]) => s.rest[k][2] <= s.clock[Mls])
  /\ s.rest = << >> \/ n <= 2 * Len(s.sorted) + f + Len(s.missed)
  /\ \A k \in f + 1..Len(s.rest) : IsCommit(s.rest[k]) => Repeated(s, k) \/ Newest(s, k)

(* Of each originator in O everything after base comes in order. *)
InOrder(s, f, O, base) ==
  /\ \A k \in 1..Len(s.sorted) : s.sorted[k][1] \in O =>
       \A d \in Smaller(s.sorted[k], base) : Before(d, s.sorted, k)
  /\ \A k \in 1..Len(s.rest) : s.rest[k][1] \in O =>
       \A d \in Smaller(s.rest[k], base) :
         In(d, s.sorted) \/ Before(d, s.rest, k) \/ In(d, s.missed)
  /\ \A k \in 1..Len(s.missed) : s.missed[k][1] \in O =>
       \A d \in Smaller(s.missed[k], base) :
         In(d, s.sorted) \/ Before(d, s.rest, f + 1) \/ Before(d, s.missed, k)
  /\ Mls \in O => \A k \in 1..Len(s.missed) : ~IsCommit(s.missed[k])

(* The first p of the list stay where they are. *)
Stays(s, f, list, p) ==
  /\ \A k \in 1..Len(s.sorted) : k <= p => s.sorted[k] = list[k]
  /\ Len(s.sorted) < p => f = p - Len(s.sorted)
       /\ \A k \in 1..f : s.rest[k] = list[Len(s.sorted) + k]

Loop(s, n, list, p, c, O, base) ==
  /\ Clocked(s, c) /\ Total(s, list)
  /\ \E f \in 0..Len(s.rest) :
       Pending(s, f, n) /\ InOrder(s, f, O, base) /\ Stays(s, f, list, p)

(* What the order rests on: the dependencies of an originator do not go    *)
(* back, and a commit depends on an earlier one.                           *)
Tracked(S, O, base, c) ==
  /\ O \subseteq All /\ base \in Clock
  /\ \A d, e \in S : d[1] = e[1] /\ d[1] \in O \ {Mls} /\ d[2] < e[2] => Dep(d) <= Dep(e)
  /\ Mls \in O => base[Mls] <= c[Mls] /\ \A e \in S : IsCommit(e) => Dep(e) < e[2]

(* What the lemmas on one turn assume. *)
Turn(S, s, t) == Envelopes(S) /\ s \in State(S) /\ t \in State(S) /\ s.rest # << >>

(* What a turn starts from, and its head. *)
LEMMA TurnTypes ==
  ASSUME NEW S, NEW s, NEW t, Turn(S, s, t)
  PROVE  /\ s.sorted \in Seq(S) /\ s.rest \in Seq(S) /\ s.missed \in Seq(S) /\ s.clock \in Clock
         /\ t.sorted \in Seq(S) /\ t.rest \in Seq(S) /\ t.missed \in Seq(S) /\ t.clock \in Clock
         /\ s.rest[1] \in S /\ s.rest[1] \in Envelope /\ s.clock[Mls] \in Nat /\ t.clock[Mls] \in Nat
         /\ Len(s.sorted) \in Nat /\ Len(s.rest) \in Nat \ {0} /\ Len(s.missed) \in Nat
         /\ Len(t.sorted) \in Nat /\ Len(t.rest) \in Nat /\ Len(t.missed) \in Nat
<1>1. /\ s.sorted \in Seq(S) /\ s.rest \in Seq(S) /\ s.missed \in Seq(S) /\ s.clock \in Clock
      /\ t.sorted \in Seq(S) /\ t.rest \in Seq(S) /\ t.missed \in Seq(S) /\ t.clock \in Clock
  BY DEF Turn, State
<1>2. s.rest # << >> /\ Envelopes(S)  BY DEF Turn
<1>3. s.rest[1] \in S /\ Len(s.rest) \in Nat \ {0}  BY <1>1, <1>2
<1>4. s.rest[1] \in Envelope  BY <1>2, <1>3 DEF Envelopes
<1>5. Mls \in All  BY DEF All
<1>6. s.clock[Mls] \in Nat /\ t.clock[Mls] \in Nat  BY <1>1, <1>5 DEF Clock
<1>7. /\ Len(s.sorted) \in Nat /\ Len(s.missed) \in Nat
      /\ Len(t.sorted) \in Nat /\ Len(t.rest) \in Nat /\ Len(t.missed) \in Nat
  BY <1>1
<1>8. QED  BY <1>1, <1>3, <1>4, <1>6, <1>7

(* What keeping the head does. *)
Kept(s, t, v, e, n, l) ==
  /\ Dominates(s.clock, e) /\ t.clock = Apply(s.clock, e)
  /\ n \in Nat /\ n + Len(t.missed) = Len(s.missed)
  /\ Len(t.sorted) = l + 1 /\ Len(t.rest) = n + Len(s.rest) - 1
  /\ t.sorted[l + 1] = e /\ \A k \in 1..l : t.sorted[k] = s.sorted[k]
  /\ \A y : In(y, t.sorted) <=> In(y, s.sorted) \/ y = e
  /\ \A y, k : k \in 1..l + 1 => (Before(y, t.sorted, k) <=> Before(y, s.sorted, k))
  /\ \A y : Before(y, t.sorted, l + 1) <=> In(y, s.sorted)
  /\ \A k \in 1..n : t.rest[k] = v[k]
  /\ \A k \in n + 1..Len(t.rest) : t.rest[k] = s.rest[k - n + 1]
  /\ \A y : In(y, s.rest) => y = e \/ In(y, t.rest)
  /\ \A y : In(y, v) => In(y, t.rest)
  /\ \A y : In(y, t.rest) => In(y, v) \/ In(y, s.rest)
  /\ \A y, k : k \in 1..n + 1 => (Before(y, t.rest, k) <=> Before(y, v, k))
  /\ \A y, k : k \in n + 1..Len(t.rest) + 1 =>
       /\ Before(y, s.rest, k - n + 1) => y = e \/ Before(y, t.rest, k)
       /\ In(y, v) => Before(y, t.rest, k)

(* Where everything is after a turn that keeps its head. *)
LEMMA KeepShape ==
  ASSUME NEW S, NEW s, NEW t, Turn(S, s, t), NEW v \in Seq(S), Keep(s, t, v)
  PROVE  Kept(s, t, v, s.rest[1], Len(v), Len(s.sorted))
<1>0. PICK e, n, l : e = s.rest[1] /\ n = Len(v) /\ l = Len(s.sorted)  OBVIOUS
<1>1. /\ s.sorted \in Seq(S) /\ s.rest \in Seq(S) /\ e \in S  BY <1>0, TurnTypes
<1>2. s.rest # << >>  BY DEF Turn
<1>3. /\ t.sorted = Append(s.sorted, e) /\ t.rest = v \o Tail(s.rest)
      /\ Dominates(s.clock, e) /\ t.clock = Apply(s.clock, e)
  BY <1>0 DEF Keep
<1>4. n + Len(t.missed) = Len(s.missed)  BY <1>0 DEF Keep, IsSplit
<1>5. PICK r \in Seq(S), q \in Seq(S) : r = s.rest /\ q = s.sorted  BY <1>1
<1>6. /\ Len(t.sorted) = l + 1
      /\ t.sorted[l + 1] = e /\ \A k \in 1..l : t.sorted[k] = q[k]
      /\ \A y : In(y, t.sorted) <=> In(y, q) \/ y = e
      /\ \A y, k : k \in 1..l + 1 => (Before(y, t.sorted, k) <=> Before(y, q, k))
      /\ \A y : Before(y, t.sorted, l + 1) <=> In(y, q)
  BY <1>0, <1>1, <1>3, <1>5, Appended
<1>7. /\ n \in Nat /\ Len(t.rest) = n + Len(r) - 1
      /\ \A k \in 1..n : t.rest[k] = v[k]
      /\ \A k \in n + 1..Len(t.rest) : t.rest[k] = r[k - n + 1]
      /\ \A y : In(y, r) => y = e \/ In(y, t.rest)
      /\ \A y : In(y, v) => In(y, t.rest)
      /\ \A y : In(y, t.rest) => In(y, v) \/ In(y, r)
      /\ \A y, k : k \in 1..n + 1 => (Before(y, t.rest, k) <=> Before(y, v, k))
      /\ \A y, k : k \in n + 1..Len(t.rest) + 1 =>
           /\ Before(y, r, k - n + 1) => y = e \/ Before(y, t.rest, k)
           /\ In(y, v) => Before(y, t.rest, k)
  BY <1>0, <1>2, <1>3, <1>5, Joined, SMTT(30)
<1>8. Kept(s, t, v, e, n, l)  BY <1>3, <1>4, <1>5, <1>6, <1>7 DEF Kept
<1>9. QED  BY <1>0, <1>8

(* What becomes valid, and what does not. *)
LEMMA KeepSplit ==
  ASSUME NEW S, NEW s, NEW t, Turn(S, s, t), NEW v \in Seq(S), Keep(s, t, v)
  PROVE  /\ \A k \in 1..Len(v) :
              /\ Dominates(t.clock, v[k])
              /\ \E i \in 1..Len(s.missed) : v[k] = s.missed[i]
                   /\ \A d : Before(d, s.missed, i) => Before(d, v, k) \/ In(d, t.missed)
         /\ \A k \in 1..Len(t.missed) :
              /\ ~Dominates(t.clock, t.missed[k])
              /\ \E i \in 1..Len(s.missed) : t.missed[k] = s.missed[i]
                   /\ \A d : Before(d, s.missed, i) => In(d, v) \/ Before(d, t.missed, k)
         /\ \A d : In(d, s.missed) <=> In(d, v) \/ In(d, t.missed)
<1>1. PICK m, w, len : m = s.missed /\ w = t.missed /\ len = Len(m)  OBVIOUS
<1>2. IsSplit(v, w, m, len, t.clock)  BY <1>1 DEF Keep
<1>3. ASSUME NEW k \in 1..Len(v)
      PROVE  /\ Dominates(t.clock, v[k])
             /\ \E i \in 1..len : v[k] = m[i]
                  /\ \A d : Before(d, m, i) => Before(d, v, k) \/ In(d, w)
  <2>1. PICK i \in 1..len : v[k] = m[i]
               /\ \A j \in 1..i - 1 : Before(m[j], v, k) \/ In(m[j], w)
    BY <1>2 DEF IsSplit
  <2>2. \A d : Before(d, m, i) => Before(d, v, k) \/ In(d, w)
    <3>1. ASSUME NEW d, Before(d, m, i) PROVE Before(d, v, k) \/ In(d, w)
      <4>1. PICK j \in 1..i - 1 : m[j] = d  BY <3>1 DEF Before
      <4>2. QED  BY <2>1, <4>1
    <3>2. QED  BY <3>1
  <2>3. Dominates(t.clock, v[k])  BY <1>2 DEF IsSplit
  <2>4. QED  BY <2>1, <2>2, <2>3
<1>4. ASSUME NEW k \in 1..Len(w)
      PROVE  /\ ~Dominates(t.clock, w[k])
             /\ \E i \in 1..len : w[k] = m[i]
                  /\ \A d : Before(d, m, i) => In(d, v) \/ Before(d, w, k)
  <2>1. PICK i \in 1..len : w[k] = m[i]
               /\ \A j \in 1..i - 1 : In(m[j], v) \/ Before(m[j], w, k)
    BY <1>2 DEF IsSplit
  <2>2. \A d : Before(d, m, i) => In(d, v) \/ Before(d, w, k)
    <3>1. ASSUME NEW d, Before(d, m, i) PROVE In(d, v) \/ Before(d, w, k)
      <4>1. PICK j \in 1..i - 1 : m[j] = d  BY <3>1 DEF Before
      <4>2. QED  BY <2>1, <4>1
    <3>2. QED  BY <3>1
  <2>3. ~Dominates(t.clock, w[k])  BY <1>2 DEF IsSplit
  <2>4. QED  BY <2>1, <2>2, <2>3
<1>5. ASSUME NEW d PROVE In(d, m) <=> In(d, v) \/ In(d, w)
  <2>1. ASSUME In(d, m) PROVE In(d, v) \/ In(d, w)
    <3>1. PICK j \in 1..len : m[j] = d  BY <1>1, <2>1 DEF In
    <3>2. QED  BY <1>2, <3>1 DEF IsSplit
  <2>2. ASSUME In(d, v) PROVE In(d, m)
    <3>1. PICK k \in 1..Len(v) : v[k] = d  BY <2>2 DEF In
    <3>2. PICK i \in 1..len : v[k] = m[i]  BY <1>3
    <3>3. QED  BY <1>1, <3>1, <3>2 DEF In
  <2>3. ASSUME In(d, w) PROVE In(d, m)
    <3>1. PICK k \in 1..Len(w) : w[k] = d  BY <2>3 DEF In
    <3>2. PICK i \in 1..len : w[k] = m[i]  BY <1>4
    <3>3. QED  BY <1>1, <3>1, <3>2 DEF In
  <2>4. QED  BY <2>1, <2>2, <2>3
<1>6. QED  BY <1>1, <1>3, <1>4, <1>5

(* What missing the head does. *)
Missed(s, t, e, n) ==
  /\ ~Dominates(s.clock, e) /\ t.clock = s.clock /\ t.sorted = s.sorted
  /\ Len(t.rest) = Len(s.rest) - 1 /\ \A k \in 1..Len(t.rest) : t.rest[k] = s.rest[k + 1]
  /\ \A y : In(y, s.rest) => y = e \/ In(y, t.rest)
  /\ \A y : In(y, t.rest) => In(y, s.rest)
  /\ \A y : \A k \in 1..Len(t.rest) + 1 :
       Before(y, s.rest, k + 1) => y = e \/ Before(y, t.rest, k)
  /\ Len(t.missed) = n + 1
  /\ t.missed[n + 1] = e /\ \A k \in 1..n : t.missed[k] = s.missed[k]
  /\ \A y : In(y, t.missed) <=> In(y, s.missed) \/ y = e
  /\ \A y, k : k \in 1..n + 1 => (Before(y, t.missed, k) <=> Before(y, s.missed, k))
  /\ \A y : Before(y, t.missed, n + 1) <=> In(y, s.missed)

(* Where everything is after a turn that misses its head. *)
LEMMA MissShape ==
  ASSUME NEW S, NEW s, NEW t, Turn(S, s, t), Miss(s, t)
  PROVE  Missed(s, t, s.rest[1], Len(s.missed))
<1>0. PICK e, n : e = s.rest[1] /\ n = Len(s.missed)  OBVIOUS
<1>1. /\ s.missed \in Seq(S) /\ s.rest \in Seq(S) /\ e \in S  BY <1>0, TurnTypes
<1>2. s.rest # << >>  BY DEF Turn
<1>3. /\ t.missed = Append(s.missed, e) /\ t.rest = Tail(s.rest)
      /\ ~Dominates(s.clock, e) /\ t.clock = s.clock /\ t.sorted = s.sorted
  BY <1>0 DEF Miss
<1>5. PICK r \in Seq(S), q \in Seq(S) : r = s.rest /\ q = s.missed  BY <1>1
<1>6. /\ Len(t.missed) = n + 1
      /\ t.missed[n + 1] = e /\ \A k \in 1..n : t.missed[k] = q[k]
      /\ \A y : In(y, t.missed) <=> In(y, q) \/ y = e
      /\ \A y, k : k \in 1..n + 1 => (Before(y, t.missed, k) <=> Before(y, q, k))
      /\ \A y : Before(y, t.missed, n + 1) <=> In(y, q)
  BY <1>0, <1>1, <1>3, <1>5, Appended
<1>4. PICK u : u = Tail(r)  OBVIOUS
<1>7. PICK len \in Nat : len = Len(r) /\ u = Tail(r) /\ len > 0  BY <1>2, <1>4, <1>5
<1>8. Len(u) = len - 1 /\ \A k \in 1..len - 1 : u[k] = r[k + 1]  BY <1>2, <1>5, <1>7
<1>9. \A i \in 2..len : i - 1 \in 1..len - 1 /\ u[i - 1] = r[i]
  <2>1. ASSUME NEW i \in 2..len PROVE i - 1 \in 1..len - 1 /\ i - 1 + 1 = i  BY <1>7
  <2>2. QED  BY <1>8, <2>1
<1>10. ASSUME NEW y, In(y, r) PROVE y = e \/ In(y, u)
  <2>1. PICK i \in 1..len : r[i] = y  BY <1>7, <1>10 DEF In
  <2>2. CASE i # 1
    <3>1. i \in 2..len  BY <1>7, <2>2
    <3>2. QED  BY <1>8, <1>9, <2>1, <3>1 DEF In
  <2>3. QED  BY <1>0, <1>5, <2>1, <2>2
<1>11. ASSUME NEW y, In(y, u) PROVE In(y, r)
  <2>1. PICK i \in 1..len - 1 : u[i] = y  BY <1>8, <1>11 DEF In
  <2>2. i + 1 \in 1..len  BY <1>7
  <2>3. QED  BY <1>7, <1>8, <2>1, <2>2 DEF In
<1>12. ASSUME NEW y, NEW k \in 1..len, Before(y, r, k + 1), y # e PROVE Before(y, u, k)
  <2>1. PICK i \in 1..k : r[i] = y
    <3>1. k + 1 - 1 = k  BY <1>7
    <3>2. QED  BY <1>12, <3>1 DEF Before
  <2>2. i \in 2..len /\ i - 1 \in 1..k - 1  BY <1>0, <1>5, <1>7, <1>12, <2>1
  <2>3. QED  BY <1>9, <2>1, <2>2 DEF Before
<1>13. Len(u) + 1 = len  BY <1>7, <1>8
<1>14. Missed(s, t, e, n)
  BY <1>3, <1>5, <1>6, <1>7, <1>8, <1>10, <1>11, <1>12, <1>13 DEF Missed
<1>15. QED  BY <1>0, <1>14

(* A later clock dominates what an earlier one does. *)
LEMMA DominatesMore ==
  ASSUME NEW S, Envelopes(S), NEW e \in S, NEW c \in Clock, NEW d \in Clock,
         c[Mls] <= d[Mls], Dominates(c, e)
  PROVE  Dominates(d, e)
<1>1. Dep(e) \in Nat  BY DEF Envelopes
<1>2. c[Mls] \in Nat /\ d[Mls] \in Nat  BY DEF Clock, All
<1>3. QED  BY <1>1, <1>2 DEF Dominates

(* The clock after a turn that keeps its head: only a commit newer than it  *)
(* moves its commits.                                                       *)
LEMMA KeepClock ==
  ASSUME NEW S, NEW s, NEW t, Turn(S, s, t), NEW v \in Seq(S), Keep(s, t, v)
  PROVE  LET e == s.rest[1]
         IN /\ e[2] <= t.clock[e[1]]
            /\ \A o \in All : s.clock[o] <= t.clock[o]
            /\ t.clock[Mls] = s.clock[Mls] \/ (IsCommit(e) /\ e[2] = t.clock[Mls])
            /\ ~IsCommit(e) \/ e[2] <= s.clock[Mls] => t.clock[Mls] = s.clock[Mls]
            /\ \A d \in S : Dominates(s.clock, d) => Dominates(t.clock, d)
<1>1. PICK e \in Envelope : e = s.rest[1]  BY TurnTypes
<1>2. t.clock = Apply(s.clock, e)  BY <1>1 DEF Keep
<1>3. s.clock \in Clock /\ t.clock \in Clock  BY TurnTypes
<1>4. /\ e[2] <= t.clock[e[1]]
      /\ \A o \in All : s.clock[o] <= t.clock[o]
           /\ (t.clock[o] = s.clock[o] \/ (o = e[1] /\ t.clock[o] = e[2]))
      /\ \A o \in All : o # e[1] \/ e[2] <= s.clock[o] => t.clock[o] = s.clock[o]
  BY <1>2, <1>3, Applied
<1>5. Mls \in All  BY DEF All
<1>6. \A d \in S : Dominates(s.clock, d) => Dominates(t.clock, d)
  BY <1>3, <1>4, <1>5, DominatesMore DEF Turn
<1>7. QED  BY <1>1, <1>4, <1>5, <1>6 DEF IsCommit

(* A kept envelope is dominated by the clock and comes after a commit that  *)
(* makes it so; what still waits is not dominated.                          *)
LEMMA KeepClocked ==
  ASSUME NEW S, NEW s, NEW t, Turn(S, s, t), NEW v \in Seq(S), Keep(s, t, v),
         NEW c \in Clock, Clocked(s, c)
  PROVE  Clocked(t, c)
<1>1. PICK e \in S : e = s.rest[1]  BY TurnTypes
<1>2. PICK n \in Nat : n = Len(s.sorted)  BY TurnTypes
<1>3. /\ Dominates(s.clock, e) /\ Len(t.sorted) = n + 1
      /\ t.sorted[n + 1] = e /\ \A k \in 1..n : t.sorted[k] = s.sorted[k]
      /\ \A y : In(y, t.sorted) <=> In(y, s.sorted) \/ y = e
  <2>1. Kept(s, t, v, e, Len(v), n)  BY <1>1, <1>2, KeepShape
  <2>2. QED  BY <2>1 DEF Kept
<1>4. /\ e[2] <= t.clock[e[1]]
      /\ \A o \in All : s.clock[o] <= t.clock[o]
      /\ t.clock[Mls] = s.clock[Mls] \/ (IsCommit(e) /\ e[2] = t.clock[Mls])
      /\ \A d \in S : Dominates(s.clock, d) => Dominates(t.clock, d)
  BY <1>1, KeepClock
<1>5. /\ s.clock \in Clock /\ t.clock \in Clock /\ e \in Envelope /\ Mls \in All /\ S \subseteq Envelope
      /\ s.sorted \in Seq(S)
  BY <1>1, TurnTypes DEF All, Turn, Envelopes
<1>6. \A o \in All : c[o] \in Nat /\ s.clock[o] \in Nat /\ t.clock[o] \in Nat  BY <1>5 DEF Clock
<1>7. /\ \A o \in All : c[o] <= s.clock[o]
      /\ s.clock[Mls] = c[Mls] \/ In(<<Mls, s.clock[Mls]>>, s.sorted)
      /\ \A k \in 1..n :
           LET d == s.sorted[k]
           IN /\ Dominates(s.clock, d) /\ d[2] <= s.clock[d[1]]
              /\ \/ Dep(d) <= c[Mls]
                 \/ \E i \in 1..k - 1 : IsCommit(s.sorted[i]) /\ Dep(d) <= s.sorted[i][2]
  BY <1>2 DEF Clocked
<1>8. \A o \in All : c[o] <= t.clock[o]  BY <1>4, <1>6, <1>7
<1>9. t.clock[Mls] = c[Mls] \/ In(<<Mls, t.clock[Mls]>>, t.sorted)
  <2>1. CASE t.clock[Mls] = s.clock[Mls]  BY <1>3, <1>7, <2>1
  <2>2. CASE IsCommit(e) /\ e[2] = t.clock[Mls]
    <3>1. e = <<e[1], e[2]>>  BY <1>5 DEF Envelope
    <3>2. e = <<Mls, t.clock[Mls]>>  BY <2>2, <3>1 DEF IsCommit
    <3>3. QED  BY <1>3, <3>2
  <2>3. QED  BY <1>4, <2>1, <2>2
<1>10. ASSUME NEW k \in 1..n + 1
       PROVE  LET d == t.sorted[k]
              IN /\ Dominates(t.clock, d) /\ d[2] <= t.clock[d[1]]
                 /\ \/ Dep(d) <= c[Mls]
                    \/ \E i \in 1..k - 1 : IsCommit(t.sorted[i]) /\ Dep(d) <= t.sorted[i][2]
  <2>1. CASE k = n + 1
    <3>1. Dominates(t.clock, e) /\ e[2] <= t.clock[e[1]]  BY <1>1, <1>3, <1>4
    <3>2. Dep(e) <= s.clock[Mls]  BY <1>3 DEF Dominates
    <3>3. CASE s.clock[Mls] = c[Mls]  BY <1>3, <2>1, <3>1, <3>2, <3>3
    <3>4. CASE In(<<Mls, s.clock[Mls]>>, s.sorted)
      <4>1. PICK i \in 1..n : s.sorted[i] = <<Mls, s.clock[Mls]>>  BY <1>2, <3>4 DEF In
      <4>2. t.sorted[i] = <<Mls, s.clock[Mls]>> /\ i \in 1..k - 1  BY <1>3, <2>1, <4>1
      <4>3. IsCommit(t.sorted[i]) /\ Dep(e) <= t.sorted[i][2]  BY <3>2, <4>2 DEF IsCommit
      <4>4. QED  BY <1>3, <2>1, <3>1, <4>2, <4>3
    <3>5. QED  BY <1>7, <3>3, <3>4
  <2>2. CASE k # n + 1
    <3>1. k \in 1..n /\ \A i \in 1..k - 1 : i \in 1..n  BY <2>2
    <3>2. PICK d \in S : d = s.sorted[k] /\ d = t.sorted[k]  BY <1>2, <1>3, <1>5, <3>1
    <3>3. d[1] \in All /\ d[2] \in Nat  BY <1>5, <3>2 DEF Envelope
    <3>4. Dominates(s.clock, d) /\ d[2] <= s.clock[d[1]]  BY <1>7, <3>1, <3>2
    <3>5. Dominates(t.clock, d) /\ d[2] <= t.clock[d[1]]  BY <1>4, <1>6, <3>3, <3>4
    <3>6. \/ Dep(d) <= c[Mls]
          \/ \E i \in 1..k - 1 : IsCommit(t.sorted[i]) /\ Dep(d) <= t.sorted[i][2]
      BY <1>3, <1>7, <3>1, <3>2
    <3>7. QED  BY <3>2, <3>5, <3>6
  <2>3. QED  BY <2>1, <2>2
<1>11. \A k \in 1..Len(t.missed) : ~Dominates(t.clock, t.missed[k])  BY KeepSplit
<1>12. QED  BY <1>3, <1>8, <1>9, <1>10, <1>11 DEF Clocked

(* A missed envelope is not dominated, and the clock stays. *)
LEMMA MissClocked ==
  ASSUME NEW S, NEW s, NEW t, Turn(S, s, t), Miss(s, t), NEW c \in Clock, Clocked(s, c)
  PROVE  Clocked(t, c)
<1>1. PICK n \in Nat : n = Len(s.missed)  BY TurnTypes
<1>2. /\ ~Dominates(s.clock, s.rest[1]) /\ t.clock = s.clock /\ t.sorted = s.sorted
      /\ Len(t.missed) = n + 1
      /\ t.missed[n + 1] = s.rest[1] /\ \A k \in 1..n : t.missed[k] = s.missed[k]
  <2>1. Missed(s, t, s.rest[1], n)  BY <1>1, MissShape
  <2>2. QED  BY <2>1 DEF Missed
<1>3. ASSUME NEW k \in 1..n + 1 PROVE ~Dominates(t.clock, t.missed[k])
  <2>1. k = n + 1 \/ k \in 1..n  OBVIOUS
  <2>2. \A i \in 1..n : ~Dominates(s.clock, s.missed[i])  BY <1>1 DEF Clocked
  <2>3. QED  BY <1>2, <2>1, <2>2
<1>4. QED  BY <1>2, <1>3 DEF Clocked

(* A turn that keeps its head loses no envelope and makes up none. *)
LEMMA KeepTotal ==
  ASSUME NEW S, NEW s, NEW t, Turn(S, s, t), NEW v \in Seq(S), Keep(s, t, v),
         NEW list, Total(s, list)
  PROVE  Total(t, list)
<1>1. PICK e \in S : e = s.rest[1]  BY TurnTypes
<1>2. /\ \A y : In(y, t.sorted) <=> In(y, s.sorted) \/ y = e
      /\ \A y : In(y, s.rest) => y = e \/ In(y, t.rest)
      /\ \A y : In(y, v) => In(y, t.rest)
      /\ \A y : In(y, t.rest) => In(y, v) \/ In(y, s.rest)
  <2>1. Kept(s, t, v, e, Len(v), Len(s.sorted))  BY <1>1, KeepShape
  <2>2. QED  BY <2>1 DEF Kept
<1>3. \A d : In(d, s.missed) <=> In(d, v) \/ In(d, t.missed)  BY KeepSplit
<1>4. In(e, s.rest)
  <2>1. 1 \in 1..Len(s.rest)  BY TurnTypes
  <2>2. QED  BY <1>1, <2>1 DEF In
<1>5. \A x : In(x, list) <=> In(x, s.sorted) \/ In(x, s.rest) \/ In(x, s.missed)  BY DEF Total
<1>6. \A x : In(x, list) <=> In(x, t.sorted) \/ In(x, t.rest) \/ In(x, t.missed)
  BY <1>2, <1>3, <1>4, <1>5
<1>7. Len(t.sorted) + Len(t.rest) + Len(t.missed) = Len(list)
  <2>1. /\ Len(v) \in Nat /\ Len(v) + Len(t.missed) = Len(s.missed)
        /\ Len(t.sorted) = Len(s.sorted) + 1 /\ Len(t.rest) = Len(v) + Len(s.rest) - 1
    <3>1. Kept(s, t, v, e, Len(v), Len(s.sorted))  BY <1>1, KeepShape
    <3>2. QED  BY <3>1 DEF Kept
  <2>2. /\ Len(s.sorted) \in Nat /\ Len(s.rest) \in Nat /\ Len(s.missed) \in Nat
        /\ Len(t.missed) \in Nat
    BY TurnTypes
  <2>3. Len(s.sorted) + Len(s.rest) + Len(s.missed) = Len(list)  BY DEF Total
  <2>4. PICK a, b, m, x : a = Len(s.sorted) /\ b = Len(s.rest) /\ m = Len(t.missed) /\ x = Len(v)
    OBVIOUS
  <2>5. a \in Int /\ b \in Int /\ m \in Int /\ x \in Int  BY <2>1, <2>2, <2>4
  <2>7. (a + 1) + (x + b - 1) + m = a + b + (x + m)  BY <2>5
  <2>6. QED  BY <2>1, <2>3, <2>4, <2>7
<1>8. QED  BY <1>6, <1>7 DEF Total

(* Nor does one that misses it. *)
LEMMA MissTotal ==
  ASSUME NEW S, NEW s, NEW t, Turn(S, s, t), Miss(s, t), NEW list, Total(s, list)
  PROVE  Total(t, list)
<1>1. PICK e \in S : e = s.rest[1]  BY TurnTypes
<1>2. /\ t.sorted = s.sorted
      /\ \A y : In(y, s.rest) => y = e \/ In(y, t.rest)
      /\ \A y : In(y, t.rest) => In(y, s.rest)
      /\ \A y : In(y, t.missed) <=> In(y, s.missed) \/ y = e
  <2>1. Missed(s, t, e, Len(s.missed))  BY <1>1, MissShape
  <2>2. QED  BY <2>1 DEF Missed
<1>4. In(e, s.rest)
  <2>1. 1 \in 1..Len(s.rest)  BY TurnTypes
  <2>2. QED  BY <1>1, <2>1 DEF In
<1>5. \A x : In(x, list) <=> In(x, s.sorted) \/ In(x, s.rest) \/ In(x, s.missed)  BY DEF Total
<1>6. \A x : In(x, list) <=> In(x, t.sorted) \/ In(x, t.rest) \/ In(x, t.missed)
  BY <1>2, <1>4, <1>5
<1>7. Len(t.sorted) + Len(t.rest) + Len(t.missed) = Len(list)
  <2>1. /\ Len(t.sorted) = Len(s.sorted) /\ Len(t.rest) = Len(s.rest) - 1
        /\ Len(t.missed) = Len(s.missed) + 1
    <3>1. Missed(s, t, e, Len(s.missed))  BY <1>1, MissShape
    <3>2. QED  BY <3>1 DEF Missed
  <2>2. Len(s.sorted) \in Nat /\ Len(s.rest) \in Nat /\ Len(s.missed) \in Nat  BY TurnTypes
  <2>3. Len(s.sorted) + Len(s.rest) + Len(s.missed) = Len(list)  BY DEF Total
  <2>4. PICK a, b, m : a = Len(s.sorted) /\ b = Len(s.rest) /\ m = Len(s.missed)  OBVIOUS
  <2>5. a \in Int /\ b \in Int /\ m \in Int  BY <2>2, <2>4
  <2>7. a + (b - 1) + (m + 1) = a + b + m  BY <2>5
  <2>6. QED  BY <2>1, <2>3, <2>4, <2>7
<1>8. QED  BY <1>6, <1>7 DEF Total

(* While something valid is pending nothing more becomes valid. *)
LEMMA NoneValid ==
  ASSUME NEW S, NEW s, NEW t, Turn(S, s, t), NEW v \in Seq(S), Keep(s, t, v),
         NEW c, Clocked(s, c), t.clock[Mls] = s.clock[Mls]
  PROVE  Len(v) = 0
<1>1. Len(v) \in Nat  OBVIOUS
<1>2. ASSUME NEW k \in 1..Len(v) PROVE FALSE
  <2>1. PICK i \in 1..Len(s.missed) : v[k] = s.missed[i]  BY KeepSplit
  <2>2. Dominates(t.clock, v[k])  BY KeepSplit
  <2>3. ~Dominates(s.clock, v[k])  BY <2>1 DEF Clocked
  <2>4. QED  BY <2>2, <2>3 DEF Dominates
<1>3. QED  BY <1>1, <1>2

(* How many of the rest are pending once the head is kept. *)
Left(f, n) == IF f = 0 THEN n ELSE f - 1

(* The valid envelopes at the head of the rest are used up one by one; the  *)
(* loop takes two turns for an envelope at most.                            *)
LEMMA KeepPending ==
  ASSUME NEW S, NEW s, NEW t, Turn(S, s, t), NEW v \in Seq(S), Keep(s, t, v),
         NEW c, Clocked(s, c), NEW f \in 0..Len(s.rest), NEW m \in Nat, Pending(s, f, m)
  PROVE  /\ f # 0 => Len(v) = 0
         /\ Left(f, Len(v)) \in 0..Len(t.rest) /\ Pending(t, Left(f, Len(v)), m + 1)
<1>1. PICK e \in S : e = s.rest[1]  BY TurnTypes
<1>2. PICK n \in Nat, l \in Nat, r \in Nat, q \in Nat :
        /\ n = Len(v) /\ l = Len(s.sorted) /\ r = Len(s.rest) /\ q = Len(t.rest)
        /\ r > 0
  BY TurnTypes
<1>3. Kept(s, t, v, e, n, l)  BY <1>1, <1>2, KeepShape
<1>4. q = n + r - 1 /\ f \in Nat /\ f <= r  BY <1>2, <1>3 DEF Kept
<1>5. /\ Dominates(s.clock, e)
      /\ t.clock[Mls] = s.clock[Mls] \/ (IsCommit(e) /\ e[2] = t.clock[Mls])
      /\ ~IsCommit(e) \/ e[2] <= s.clock[Mls] => t.clock[Mls] = s.clock[Mls]
      /\ \A d \in S : Dominates(s.clock, d) => Dominates(t.clock, d)
      /\ s.clock[Mls] <= t.clock[Mls]
  <2>1. Mls \in All  BY DEF All
  <2>2. QED  BY <1>1, <1>3, <2>1, KeepClock DEF Kept
<1>6. /\ \A k \in 1..f :
           Dominates(s.clock, s.rest[k]) /\ (IsCommit(s.rest[k]) => s.rest[k][2] <= s.clock[Mls])
      /\ m <= 2 * l + f + Len(s.missed)
      /\ \A k \in f + 1..r : IsCommit(s.rest[k]) => Repeated(s, k) \/ Newest(s, k)
  BY <1>2 DEF Pending, Turn
<1>7. f # 0 => n = 0
  <2>1. ASSUME f # 0 PROVE n = 0
    <3>1. 1 \in 1..f  BY <2>1
    <3>2. t.clock[Mls] = s.clock[Mls]  BY <1>1, <1>5, <1>6, <3>1
    <3>3. QED  BY <1>2, <3>2, NoneValid
  <2>2. QED  BY <2>1
<1>8. PICK g \in Nat : g = Left(f, n) /\ g <= q /\ (f = 0 => g = n) /\ (f # 0 => g = f - 1 /\ n = 0)
  <2>1. CASE f = 0
    <3>1. n \in Nat /\ n = Left(f, n) /\ n <= q  BY <1>2, <1>4, <2>1 DEF Left
    <3>2. QED  BY <2>1, <3>1
  <2>2. CASE f # 0
    <3>1. f - 1 \in Nat /\ f - 1 = Left(f, n) /\ f - 1 <= q /\ n = 0
      BY <1>2, <1>4, <1>7, <2>2 DEF Left
    <3>2. QED  BY <2>2, <3>1
  <2>3. QED  BY <2>1, <2>2
<1>9. \A k \in 1..n : Dominates(t.clock, v[k]) /\ \E i \in 1..Len(s.missed) : v[k] = s.missed[i]
  BY <1>2, KeepSplit
<1>10. f = 0 /\ t.clock[Mls] # s.clock[Mls] =>
         Newest(s, 1) /\ IsCommit(e) /\ e[2] = t.clock[Mls]
  <2>1. ASSUME f = 0, t.clock[Mls] # s.clock[Mls] PROVE Newest(s, 1)
    <3>1. IsCommit(e) /\ ~(e[2] <= s.clock[Mls])  BY <1>5, <2>1
    <3>2. Repeated(s, 1) \/ Newest(s, 1)  BY <1>1, <1>2, <1>6, <2>1, <3>1
    <3>3. ~In(e, s.sorted)
      <4>1. ASSUME NEW i \in 1..Len(s.sorted), s.sorted[i] = e PROVE FALSE
        <5>1. e[2] <= s.clock[e[1]]  BY <4>1 DEF Clocked
        <5>2. QED  BY <3>1, <5>1 DEF IsCommit
      <4>2. QED  BY <4>1 DEF In
    <3>4. ~In(e, s.missed)
      <4>1. ASSUME NEW i \in 1..Len(s.missed), s.missed[i] = e PROVE FALSE
        BY <1>5, <4>1 DEF Clocked
      <4>2. QED  BY <4>1 DEF In
    <3>5. ~Before(e, s.rest, 1)  BY DEF Before
    <3>6. QED  BY <1>1, <3>2, <3>3, <3>4, <3>5 DEF Repeated
  <2>2. QED  BY <1>5, <2>1
<1>11. ASSUME NEW k \in 1..g
       PROVE  Dominates(t.clock, t.rest[k]) /\ (IsCommit(t.rest[k]) => t.rest[k][2] <= t.clock[Mls])
  <2>1. CASE f = 0
    <3>1. k \in 1..n /\ t.rest[k] = v[k]  BY <1>3, <1>8, <2>1 DEF Kept
    <3>2. PICK i \in 1..Len(s.missed) : v[k] = s.missed[i]  BY <1>9, <3>1
    <3>3. Dominates(t.clock, v[k]) /\ ~Dominates(s.clock, v[k])
      BY <1>9, <3>1, <3>2 DEF Clocked
    <3>4. t.clock[Mls] # s.clock[Mls]  BY <3>3 DEF Dominates
    <3>5. IsCommit(v[k]) => v[k][2] < e[2]  BY <1>1, <1>10, <2>1, <3>2, <3>4 DEF Newest
    <3>6. v[k] \in S /\ e \in S /\ S \subseteq Envelope  BY <1>2, <3>1 DEF Turn, Envelopes
    <3>7. v[k][2] \in Nat /\ e[2] \in Nat  BY <3>6 DEF Envelope
    <3>8. IsCommit(v[k]) => v[k][2] <= t.clock[Mls]  BY <1>10, <2>1, <3>4, <3>5, <3>7
    <3>9. QED  BY <3>1, <3>3, <3>8
  <2>2. CASE f # 0
    <3>1. n = 0 /\ k + 1 \in 1..f /\ k \in n + 1..q /\ k - n + 1 = k + 1
      BY <1>4, <1>8, <2>2
    <3>2. t.rest[k] = s.rest[k + 1]
      <4>1. t.rest[k] = s.rest[k - n + 1]  BY <1>2, <1>3, <3>1 DEF Kept
      <4>2. QED  BY <3>1, <4>1
    <3>3. k + 1 \in 1..Len(s.rest) /\ s.rest \in Seq(S)  BY <1>2, <1>4, <3>1, TurnTypes
    <3>4. s.rest[k + 1] \in S /\ S \subseteq Envelope  BY <3>3 DEF Turn, Envelopes
    <3>5. Dominates(s.clock, s.rest[k + 1])
          /\ (IsCommit(s.rest[k + 1]) => s.rest[k + 1][2] <= s.clock[Mls])
      BY <1>6, <3>1
    <3>6. s.rest[k + 1][2] \in Nat  BY <3>4 DEF Envelope
    <3>7. s.clock[Mls] \in Nat /\ t.clock[Mls] \in Nat  BY TurnTypes
    <3>8. QED  BY <1>5, <3>2, <3>4, <3>5, <3>6, <3>7, SMTT(30)
  <2>3. QED  BY <2>1, <2>2
<1>12. m + 1 <= 2 * Len(t.sorted) + g + Len(t.missed)
  <2>1. PICK x \in Nat, y \in Nat : x = Len(s.missed) /\ y = Len(t.missed)  BY TurnTypes
  <2>2. n + y = x /\ Len(t.sorted) = l + 1  BY <1>3, <2>1 DEF Kept
  <2>3. m <= 2 * l + f + x  BY <1>6, <2>1
  <2>4. m + 1 <= 2 * (l + 1) + g + y  BY <1>4, <1>8, <2>2, <2>3, SMTT(30)
  <2>5. QED  BY <2>1, <2>2, <2>4
<1>13. ASSUME NEW k \in g + 1..q, IsCommit(t.rest[k])
       PROVE  Repeated(t, k) \/ Newest(t, k)
  <2>1. PICK j \in Nat : j = k - n + 1 /\ j \in f + 1..r /\ j \in 2..r /\ k \in n + 1..q
    BY <1>4, <1>8
  <2>2. t.rest[k] = s.rest[j]  BY <1>2, <1>3, <2>1 DEF Kept
  <2>3. PICK x : x = s.rest[j]  OBVIOUS
  <2>4. Repeated(s, j) \/ Newest(s, j)  BY <1>6, <1>13, <2>1, <2>2
  <2>5. \A y : In(y, s.missed) <=> In(y, v) \/ In(y, t.missed)  BY KeepSplit
  <2>6. /\ \A y : In(y, t.sorted) <=> In(y, s.sorted) \/ y = e
        /\ \A y : Before(y, s.rest, j) => y = e \/ Before(y, t.rest, k)
        /\ \A y : In(y, v) => Before(y, t.rest, k)
    <3>1. k \in n + 1..Len(t.rest) + 1  BY <1>2, <2>1
    <3>2. QED  BY <1>3, <2>1, <3>1 DEF Kept
  <2>7. CASE Repeated(s, j)  BY <2>2, <2>3, <2>5, <2>6, <2>7 DEF Repeated
  <2>8. CASE Newest(s, j)
    <3>1. \A i \in 1..j - 1 : IsCommit(s.rest[i]) => s.rest[i][2] < x[2]
      BY <2>3, <2>8 DEF Newest
    <3>2. \A i \in 1..Len(s.missed) : IsCommit(s.missed[i]) => s.missed[i][2] < x[2]
      BY <2>3, <2>8 DEF Newest
    <3>3. \A y : In(y, s.missed) /\ IsCommit(y) => y[2] < x[2]  BY <3>2 DEF In
    <3>4. ASSUME NEW i \in 1..k - 1, IsCommit(t.rest[i]) PROVE t.rest[i][2] < x[2]
      <4>1. CASE i \in 1..n
        <5>1. t.rest[i] = v[i]  BY <1>3, <4>1 DEF Kept
        <5>2. In(v[i], v)  BY <1>2, <4>1 DEF In
        <5>3. QED  BY <2>5, <3>3, <3>4, <5>1, <5>2
      <4>2. CASE i \notin 1..n
        <5>0. /\ i - n + 1 \in Nat /\ i - n + 1 >= 1 /\ i - n + 1 <= j - 1
              /\ i >= n + 1 /\ i <= q
          BY <1>2, <1>4, <2>1, <4>2, SMTT(30)
        <5>1. PICK h \in Nat : h = i - n + 1 /\ h \in 1..j - 1 /\ i \in n + 1..Len(t.rest)
          <6>1. i - n + 1 \in 1..j - 1 /\ i \in n + 1..Len(t.rest)  BY <1>2, <2>1, <5>0
          <6>2. QED  BY <5>0, <6>1
        <5>2. t.rest[i] = s.rest[h]  BY <1>3, <5>1 DEF Kept
        <5>3. QED  BY <3>1, <3>4, <5>1, <5>2
      <4>3. QED  BY <4>1, <4>2
    <3>5. ASSUME NEW i \in 1..Len(t.missed), IsCommit(t.missed[i]) PROVE t.missed[i][2] < x[2]
      <4>1. In(t.missed[i], t.missed)  BY DEF In
      <4>2. QED  BY <2>5, <3>3, <3>5, <4>1
    <3>6. QED  BY <2>2, <2>3, <3>4, <3>5 DEF Newest
  <2>9. QED  BY <2>4, <2>7, <2>8
<1>14. Pending(t, g, m + 1)  BY <1>2, <1>11, <1>12, <1>13 DEF Pending
<1>15. QED  BY <1>2, <1>7, <1>8, <1>14

(* A miss happens only when none of the rest is known to be valid, and      *)
(* costs a turn.                                                            *)
LEMMA MissPending ==
  ASSUME NEW S, NEW s, NEW t, Turn(S, s, t), Miss(s, t),
         NEW f \in 0..Len(s.rest), NEW m \in Nat, Pending(s, f, m)
  PROVE  f = 0 /\ Pending(t, 0, m + 1)
<1>1. PICK e \in S : e = s.rest[1]  BY TurnTypes
<1>2. PICK n \in Nat, l \in Nat, r \in Nat, q \in Nat :
        /\ n = Len(s.missed) /\ l = Len(s.sorted) /\ r = Len(s.rest) /\ q = Len(t.rest)
        /\ r > 0
  BY TurnTypes
<1>3. Missed(s, t, e, n)  BY <1>1, <1>2, MissShape
<1>4. q = r - 1 /\ f \in Nat  BY <1>2, <1>3 DEF Missed
<1>5. /\ \A k \in 1..f : Dominates(s.clock, s.rest[k])
      /\ m <= 2 * l + f + n
      /\ \A k \in f + 1..r : IsCommit(s.rest[k]) => Repeated(s, k) \/ Newest(s, k)
  BY <1>2 DEF Pending, Turn
<1>6. f = 0
  <2>1. ASSUME f # 0 PROVE FALSE
    <3>1. 1 \in 1..f  BY <1>4, <2>1
    <3>2. QED  BY <1>1, <1>3, <1>5, <3>1 DEF Missed
  <2>2. QED  BY <2>1
<1>7. m + 1 <= 2 * Len(t.sorted) + 0 + Len(t.missed)
  <2>1. Len(t.sorted) = l /\ Len(t.missed) = n + 1  BY <1>2, <1>3 DEF Missed
  <2>2. m + 1 <= 2 * l + 0 + (n + 1)  BY <1>5, <1>6
  <2>3. QED  BY <2>1, <2>2
<1>8. ASSUME NEW k \in 0 + 1..q, IsCommit(t.rest[k])
      PROVE  Repeated(t, k) \/ Newest(t, k)
  <2>1. PICK j \in Nat : j = k + 1 /\ j \in f + 1..r /\ j \in 2..r  BY <1>4, <1>6
  <2>2. t.rest[k] = s.rest[j]  BY <1>2, <1>3, <2>1 DEF Missed
  <2>3. PICK x : x = s.rest[j]  OBVIOUS
  <2>4. Repeated(s, j) \/ Newest(s, j)  BY <1>5, <1>8, <2>1, <2>2
  <2>5. /\ \A y : In(y, t.missed) <=> In(y, s.missed) \/ y = e
        /\ t.sorted = s.sorted
        /\ \A y : Before(y, s.rest, j) => y = e \/ Before(y, t.rest, k)
    <3>1. k \in 1..Len(t.rest) + 1  BY <1>2
    <3>2. QED  BY <1>3, <2>1, <3>1 DEF Missed
  <2>6. CASE Repeated(s, j)  BY <2>2, <2>3, <2>5, <2>6 DEF Repeated
  <2>7. CASE Newest(s, j)
    <3>1. \A i \in 1..j - 1 : IsCommit(s.rest[i]) => s.rest[i][2] < x[2]
      BY <2>3, <2>7 DEF Newest
    <3>2. \A i \in 1..n : IsCommit(s.missed[i]) => s.missed[i][2] < x[2]
      BY <1>2, <2>3, <2>7 DEF Newest
    <3>3. \A i \in 1..k - 1 : IsCommit(t.rest[i]) => t.rest[i][2] < x[2]
      <4>1. ASSUME NEW i \in 1..k - 1 PROVE t.rest[i] = s.rest[i + 1] /\ i + 1 \in 1..j - 1
        <5>1. i \in 1..Len(t.rest) /\ i + 1 \in 1..j - 1  BY <1>2, <2>1
        <5>2. QED  BY <1>3, <5>1 DEF Missed
      <4>2. QED  BY <3>1, <4>1
    <3>4. ASSUME NEW i \in 1..n + 1, IsCommit(t.missed[i]) PROVE t.missed[i][2] < x[2]
      <4>1. i = n + 1 \/ i \in 1..n  OBVIOUS
      <4>2. CASE i = n + 1
        <5>1. t.missed[i] = s.rest[1] /\ 1 \in 1..j - 1  BY <1>1, <1>3, <2>1, <4>2 DEF Missed
        <5>2. QED  BY <3>1, <3>4, <5>1
      <4>3. CASE i \in 1..n
        <5>1. t.missed[i] = s.missed[i]  BY <1>3, <4>3 DEF Missed
        <5>2. QED  BY <3>2, <3>4, <4>3, <5>1
      <4>4. QED  BY <4>1, <4>2, <4>3
    <3>5. Len(t.missed) = n + 1  BY <1>3 DEF Missed
    <3>6. QED  BY <2>2, <2>3, <3>3, <3>4, <3>5 DEF Newest
  <2>8. QED  BY <2>4, <2>6, <2>7
<1>9. Pending(t, 0, m + 1)
  <2>1. \A k \in 1..0 : FALSE  OBVIOUS
  <2>2. \A k \in 0 + 1..Len(t.rest) : IsCommit(t.rest[k]) => Repeated(t, k) \/ Newest(t, k)
    BY <1>2, <1>8
  <2>3. QED  BY <1>7, <2>1, <2>2 DEF Pending
<1>10. QED  BY <1>6, <1>9

(* What is somewhere in the rest is its head or further on. *)
LEMMA Headless ==
  ASSUME NEW x, NEW list
  PROVE  ~Before(x, list, 1) /\ ~Before(x, list, 0 + 1)
  BY DEF Before

(* Each originator's envelopes stay in their order when the head is kept    *)
(* and what it makes valid comes right after it.                            *)
LEMMA KeepOrder ==
  ASSUME NEW S, NEW s, NEW t, Turn(S, s, t), NEW v \in Seq(S), Keep(s, t, v),
         NEW c, Clocked(s, c), NEW f \in 0..Len(s.rest), f # 0 => Len(v) = 0,
         NEW O, NEW base, Tracked(S, O, base, c), InOrder(s, f, O, base)
  PROVE  InOrder(t, Left(f, Len(v)), O, base)
<1>1. PICK e \in S : e = s.rest[1]  BY TurnTypes
<1>2. PICK n \in Nat, l \in Nat, r \in Nat, q \in Nat, w \in Nat, m \in Nat :
        /\ n = Len(v) /\ l = Len(s.sorted) /\ r = Len(s.rest) /\ q = Len(t.rest)
        /\ w = Len(t.missed) /\ m = Len(s.missed) /\ r > 0
  <2>1. /\ Len(v) \in Nat /\ Len(s.sorted) \in Nat /\ Len(s.rest) \in Nat \ {0} /\ Len(t.rest) \in Nat
        /\ Len(t.missed) \in Nat /\ Len(s.missed) \in Nat
    BY TurnTypes
  <2>2. Len(s.rest) \in Nat /\ Len(s.rest) > 0  BY <2>1
  <2>3. QED  BY <2>1, <2>2, Zenon
<1>3. Kept(s, t, v, e, n, l)  BY <1>1, <1>2, KeepShape
<1>4. q = n + r - 1 /\ f \in Nat /\ f <= r /\ Len(t.sorted) = l + 1 /\ Dominates(s.clock, e)
  BY <1>2, <1>3 DEF Kept
<1>5. PICK g \in Nat : g = Left(f, n) /\ (f = 0 => g = n) /\ (f # 0 => g = f - 1 /\ n = 0)
  <2>1. f = 0 => Left(f, n) = n  BY DEF Left
  <2>2. f # 0 => Left(f, n) = f - 1 /\ f - 1 \in Nat /\ n = 0  BY <1>2, <1>4 DEF Left
  <2>3. QED  BY <1>2, <2>1, <2>2
<1>6. /\ \A k \in 1..l : s.sorted[k][1] \in O =>
           \A d \in Smaller(s.sorted[k], base) : Before(d, s.sorted, k)
      /\ \A k \in 1..r : s.rest[k][1] \in O =>
           \A d \in Smaller(s.rest[k], base) :
             In(d, s.sorted) \/ Before(d, s.rest, k) \/ In(d, s.missed)
      /\ \A k \in 1..m : s.missed[k][1] \in O =>
           \A d \in Smaller(s.missed[k], base) :
             In(d, s.sorted) \/ Before(d, s.rest, f + 1) \/ Before(d, s.missed, k)
      /\ Mls \in O => \A k \in 1..m : ~IsCommit(s.missed[k])
  BY <1>2 DEF InOrder
<1>7. /\ t.sorted[l + 1] = e /\ \A k \in 1..l : t.sorted[k] = s.sorted[k]
      /\ \A y : In(y, t.sorted) <=> In(y, s.sorted) \/ y = e
      /\ \A y, k : k \in 1..l + 1 => (Before(y, t.sorted, k) <=> Before(y, s.sorted, k))
      /\ \A y : Before(y, t.sorted, l + 1) <=> In(y, s.sorted)
      /\ \A k \in 1..n : t.rest[k] = v[k]
      /\ \A k \in n + 1..q : t.rest[k] = s.rest[k - n + 1]
      /\ \A y, k : k \in 1..n + 1 => (Before(y, t.rest, k) <=> Before(y, v, k))
      /\ \A y, k : k \in n + 1..q + 1 =>
           /\ Before(y, s.rest, k - n + 1) => y = e \/ Before(y, t.rest, k)
           /\ In(y, v) => Before(y, t.rest, k)
  BY <1>2, <1>3 DEF Kept
<1>8. /\ \A k \in 1..n : \E i \in 1..m : v[k] = s.missed[i]
           /\ \A d : Before(d, s.missed, i) => Before(d, v, k) \/ In(d, t.missed)
      /\ \A k \in 1..w : \E i \in 1..m : t.missed[k] = s.missed[i]
           /\ \A d : Before(d, s.missed, i) => In(d, v) \/ Before(d, t.missed, k)
      /\ \A d : In(d, s.missed) <=> In(d, v) \/ In(d, t.missed)
  <2>1. /\ \A k \in 1..Len(v) :
             /\ Dominates(t.clock, v[k])
             /\ \E i \in 1..Len(s.missed) : v[k] = s.missed[i]
                  /\ \A d : Before(d, s.missed, i) => Before(d, v, k) \/ In(d, t.missed)
        /\ \A k \in 1..Len(t.missed) :
             /\ ~Dominates(t.clock, t.missed[k])
             /\ \E i \in 1..Len(s.missed) : t.missed[k] = s.missed[i]
                  /\ \A d : Before(d, s.missed, i) => In(d, v) \/ Before(d, t.missed, k)
        /\ \A d : In(d, s.missed) <=> In(d, v) \/ In(d, t.missed)
    BY KeepSplit
  <2>2. QED  BY <1>2, <2>1
<1>9. ASSUME NEW d \in Smaller(e, base), e[1] \in O PROVE In(d, s.sorted)
  <2>1. 1 \in 1..r  BY <1>2
  <2>2. In(d, s.sorted) \/ In(d, s.missed)  BY <1>1, <1>6, <1>9, <2>1, Headless
  <2>3. ASSUME In(d, s.missed) PROVE FALSE
    <3>1. PICK i \in 1..m : s.missed[i] = d  BY <1>2, <2>3 DEF In
    <3>2. d \in S /\ ~Dominates(s.clock, d)  BY <1>2, <3>1, TurnTypes DEF Clocked
    <3>3. d[1] = e[1] /\ d[2] < e[2]
      <4>1. PICK x \in base[e[1]] + 1..e[2] - 1 : d = <<e[1], x>>  BY <1>9 DEF Smaller
      <4>2. e[1] \in All /\ e[2] \in Nat  BY <1>1, TurnTypes DEF Envelope
      <4>3. base[e[1]] \in Nat  BY <4>2 DEF Tracked, Clock
      <4>4. x < e[2]  BY <4>2, <4>3
      <4>5. QED  BY <4>1, <4>4
    <3>4. CASE e[1] = Mls  BY <1>6, <1>9, <3>1, <3>3, <3>4 DEF IsCommit
    <3>5. CASE e[1] # Mls
      <4>1. d[1] \in O \ {Mls}  BY <1>9, <3>3, <3>5
      <4>2. Dep(d) <= Dep(e)  BY <3>2, <3>3, <4>1 DEF Tracked
      <4>3. Dep(d) \in Nat /\ Dep(e) \in Nat /\ s.clock[Mls] \in Nat
        BY <3>2, TurnTypes DEF Turn, Envelopes
      <4>4. QED  BY <1>4, <3>2, <4>2, <4>3 DEF Dominates
    <3>6. QED  BY <3>4, <3>5
  <2>4. QED  BY <2>2, <2>3
<1>10. ASSUME NEW k \in 1..l + 1, t.sorted[k][1] \in O, NEW d \in Smaller(t.sorted[k], base)
       PROVE  Before(d, t.sorted, k)
  <2>1. CASE k = l + 1  BY <1>7, <1>9, <1>10, <2>1
  <2>2. CASE k # l + 1
    <3>1. k \in 1..l  BY <2>2
    <3>2. QED  BY <1>6, <1>7, <1>10, <3>1
  <2>3. QED  BY <2>1, <2>2
<1>11. ASSUME NEW k \in 1..q, t.rest[k][1] \in O, NEW d \in Smaller(t.rest[k], base)
       PROVE  In(d, t.sorted) \/ Before(d, t.rest, k) \/ In(d, t.missed)
  <2>1. CASE k \in 1..n
    <3>1. PICK i \in 1..m : v[k] = s.missed[i]
             /\ \A x : Before(x, s.missed, i) => Before(x, v, k) \/ In(x, t.missed)
      BY <1>8, <2>1
    <3>2. t.rest[k] = s.missed[i] /\ f = 0  BY <1>5, <1>7, <2>1, <3>1
    <3>3. In(d, s.sorted) \/ Before(d, s.missed, i)
      BY <1>6, <1>11, <3>2, Headless
    <3>4. k \in 1..n + 1  BY <1>2, <2>1
    <3>5. QED  BY <1>7, <3>1, <3>3, <3>4
  <2>2. CASE k \notin 1..n
    <3>1. PICK j : j = k - n + 1  OBVIOUS
    <3>2. k \in n + 1..q /\ k \in n + 1..q + 1 /\ j \in 1..r  BY <1>2, <1>4, <2>2, <3>1
    <3>3. t.rest[k] = s.rest[j]  BY <1>7, <3>1, <3>2
    <3>4. In(d, s.sorted) \/ Before(d, s.rest, j) \/ In(d, s.missed)
      BY <1>6, <1>11, <3>2, <3>3
    <3>5. /\ Before(d, s.rest, j) => d = e \/ Before(d, t.rest, k)
          /\ In(d, v) => Before(d, t.rest, k)
      BY <1>7, <3>1, <3>2
    <3>6. QED  BY <1>7, <1>8, <3>4, <3>5
  <2>3. QED  BY <2>1, <2>2
<1>12. ASSUME NEW k \in 1..w, t.missed[k][1] \in O, NEW d \in Smaller(t.missed[k], base)
       PROVE  In(d, t.sorted) \/ Before(d, t.rest, g + 1) \/ Before(d, t.missed, k)
  <2>1. PICK i \in 1..m : t.missed[k] = s.missed[i]
           /\ \A x : Before(x, s.missed, i) => In(x, v) \/ Before(x, t.missed, k)
    BY <1>8
  <2>2. In(d, s.sorted) \/ Before(d, s.rest, f + 1) \/ Before(d, s.missed, i)
    BY <1>6, <1>12, <2>1
  <2>3. ASSUME Before(d, s.rest, f + 1) PROVE d = e \/ Before(d, t.rest, g + 1)
    <3>1. f # 0  BY <2>3, Headless
    <3>2. f \in n + 1..q + 1 /\ f - n + 1 = f + 1 /\ g + 1 = f  BY <1>2, <1>4, <1>5, <3>1
    <3>3. Before(d, s.rest, f - n + 1) => d = e \/ Before(d, t.rest, f)  BY <1>7, <3>2
    <3>4. QED  BY <2>3, <3>2, <3>3
  <2>4. ASSUME In(d, v) PROVE Before(d, t.rest, g + 1)
    <3>1. n # 0  BY <1>2, <2>4 DEF In
    <3>2. g = n /\ g + 1 \in n + 1..q + 1  BY <1>2, <1>4, <1>5, <3>1
    <3>3. QED  BY <1>7, <2>4, <3>2
  <2>5. QED  BY <1>7, <2>1, <2>2, <2>3, <2>4
<1>13. Mls \in O => \A k \in 1..w : ~IsCommit(t.missed[k])  BY <1>6, <1>8
<1>14. InOrder(t, g, O, base)
  BY <1>2, <1>4, <1>10, <1>11, <1>12, <1>13 DEF InOrder
<1>15. QED  BY <1>2, <1>5, <1>14

(* And when it is missed, as later ones of its originator wait for what it  *)
(* waits for.                                                               *)
LEMMA MissOrder ==
  ASSUME NEW S, NEW s, NEW t, Turn(S, s, t), Miss(s, t),
         NEW c \in Clock, Clocked(s, c),
         NEW O, NEW base, Tracked(S, O, base, c), InOrder(s, 0, O, base)
  PROVE  InOrder(t, 0, O, base)
<1>1. PICK e \in S : e = s.rest[1]  BY TurnTypes
<1>2. PICK n \in Nat, l \in Nat, r \in Nat, q \in Nat :
        /\ n = Len(s.missed) /\ l = Len(s.sorted) /\ r = Len(s.rest) /\ q = Len(t.rest)
        /\ r > 0
  BY TurnTypes
<1>3. Missed(s, t, e, n)  BY <1>1, <1>2, MissShape
<1>4. q = r - 1 /\ t.sorted = s.sorted /\ Len(t.missed) = n + 1 /\ ~Dominates(s.clock, e)
  BY <1>2, <1>3 DEF Missed
<1>6. /\ \A k \in 1..l : s.sorted[k][1] \in O =>
           \A d \in Smaller(s.sorted[k], base) : Before(d, s.sorted, k)
      /\ \A k \in 1..r : s.rest[k][1] \in O =>
           \A d \in Smaller(s.rest[k], base) :
             In(d, s.sorted) \/ Before(d, s.rest, k) \/ In(d, s.missed)
      /\ \A k \in 1..n : s.missed[k][1] \in O =>
           \A d \in Smaller(s.missed[k], base) :
             In(d, s.sorted) \/ Before(d, s.missed, k)
      /\ Mls \in O => \A k \in 1..n : ~IsCommit(s.missed[k])
  BY <1>2, Headless DEF InOrder
<1>7. /\ \A k \in 1..q : t.rest[k] = s.rest[k + 1]
      /\ \A y : \A k \in 1..q + 1 : Before(y, s.rest, k + 1) => y = e \/ Before(y, t.rest, k)
      /\ t.missed[n + 1] = e /\ \A k \in 1..n : t.missed[k] = s.missed[k]
      /\ \A y : In(y, t.missed) <=> In(y, s.missed) \/ y = e
      /\ \A y, k : k \in 1..n + 1 => (Before(y, t.missed, k) <=> Before(y, s.missed, k))
      /\ \A y : Before(y, t.missed, n + 1) <=> In(y, s.missed)
  BY <1>2, <1>3 DEF Missed
<1>8. ASSUME NEW d \in Smaller(e, base), e[1] \in O PROVE In(d, s.sorted) \/ In(d, s.missed)
  <2>1. 1 \in 1..r  BY <1>2
  <2>2. QED  BY <1>1, <1>6, <1>8, <2>1, Headless
<1>9. ASSUME Mls \in O, IsCommit(e) PROVE FALSE
  <2>1. /\ e \in Envelope /\ Dep(e) \in Nat /\ base \in Clock /\ s.clock \in Clock /\ Mls \in All
        /\ base[Mls] <= c[Mls] /\ Dep(e) < e[2]
    BY <1>1, <1>9, TurnTypes DEF Tracked, Turn, Envelopes, All
  <2>2. base[Mls] \in Nat /\ c[Mls] \in Nat /\ s.clock[Mls] \in Nat /\ e[2] \in Nat
    BY <2>1 DEF Clock, Envelope
  <2>3. c[Mls] <= s.clock[Mls]  BY <2>1 DEF Clocked
  <2>4. s.clock[Mls] < Dep(e)  BY <1>4, <2>1, <2>2 DEF Dominates
  <2>5. Dep(e) \in base[Mls] + 1..e[2] - 1  BY <2>1, <2>2, <2>3, <2>4
  <2>6. PICK d : d = <<Mls, Dep(e)>>  OBVIOUS
  <2>7. d \in Smaller(e, base)  BY <1>9, <2>5, <2>6 DEF Smaller, IsCommit
  <2>8. In(d, s.sorted) \/ In(d, s.missed)  BY <1>8, <1>9, <2>7 DEF IsCommit
  <2>9. ASSUME In(d, s.sorted) PROVE FALSE
    <3>1. PICK i \in 1..l : s.sorted[i] = d  BY <1>2, <2>9 DEF In
    <3>2. d[2] <= s.clock[d[1]]  BY <1>2, <3>1 DEF Clocked
    <3>3. QED  BY <2>1, <2>2, <2>4, <2>6, <3>2
  <2>10. ASSUME In(d, s.missed) PROVE FALSE
    <3>1. PICK i \in 1..n : s.missed[i] = d  BY <1>2, <2>10 DEF In
    <3>2. QED  BY <1>6, <1>9, <2>6, <3>1 DEF IsCommit
  <2>11. QED  BY <2>8, <2>9, <2>10
<1>10. ASSUME NEW k \in 1..q, t.rest[k][1] \in O, NEW d \in Smaller(t.rest[k], base)
       PROVE  In(d, t.sorted) \/ Before(d, t.rest, k) \/ In(d, t.missed)
  <2>1. k + 1 \in 1..r /\ k \in 1..q + 1  BY <1>2, <1>4
  <2>2. t.rest[k] = s.rest[k + 1]  BY <1>7
  <2>3. In(d, s.sorted) \/ Before(d, s.rest, k + 1) \/ In(d, s.missed)
    BY <1>6, <1>10, <2>1, <2>2
  <2>4. Before(d, s.rest, k + 1) => d = e \/ Before(d, t.rest, k)  BY <1>7, <2>1
  <2>5. QED  BY <1>4, <1>7, <2>3, <2>4
<1>11. ASSUME NEW k \in 1..n + 1, t.missed[k][1] \in O, NEW d \in Smaller(t.missed[k], base)
       PROVE  In(d, t.sorted) \/ Before(d, t.missed, k)
  <2>1. CASE k = n + 1  BY <1>4, <1>7, <1>8, <1>11, <2>1
  <2>2. CASE k # n + 1
    <3>1. k \in 1..n  BY <2>2
    <3>2. QED  BY <1>4, <1>6, <1>7, <1>11, <3>1
  <2>3. QED  BY <2>1, <2>2
<1>12. Mls \in O => \A k \in 1..n + 1 : ~IsCommit(t.missed[k])
  <2>1. ASSUME Mls \in O, NEW k \in 1..n + 1 PROVE ~IsCommit(t.missed[k])
    <3>1. CASE k = n + 1  BY <1>7, <1>9, <2>1, <3>1
    <3>2. CASE k # n + 1
      <4>1. k \in 1..n  BY <3>2
      <4>2. QED  BY <1>6, <1>7, <2>1, <4>1
    <3>3. QED  BY <3>1, <3>2
  <2>2. QED  BY <2>1
<1>13. QED  BY <1>2, <1>4, <1>6, <1>10, <1>11, <1>12 DEF InOrder

(* What was sorted by an earlier pass stays at the head of the list when    *)
(* its next is kept.                                                        *)
LEMMA KeepStays ==
  ASSUME NEW S, NEW s, NEW t, Turn(S, s, t), NEW v \in Seq(S), Keep(s, t, v),
         NEW f \in 0..Len(s.rest), f # 0 => Len(v) = 0,
         NEW list, NEW p \in Nat, Stays(s, f, list, p)
  PROVE  Stays(t, Left(f, Len(v)), list, p)
<1>1. PICK e \in S : e = s.rest[1]  BY TurnTypes
<1>2. PICK n \in Nat, l \in Nat, r \in Nat, q \in Nat :
        /\ n = Len(v) /\ l = Len(s.sorted) /\ r = Len(s.rest) /\ q = Len(t.rest)
        /\ r > 0
  BY TurnTypes
<1>3. Kept(s, t, v, e, n, l)  BY <1>1, <1>2, KeepShape
<1>4. /\ q = n + r - 1 /\ f \in Nat /\ f <= r /\ Len(t.sorted) = l + 1
      /\ t.sorted[l + 1] = e /\ \A k \in 1..l : t.sorted[k] = s.sorted[k]
      /\ \A k \in n + 1..q : t.rest[k] = s.rest[k - n + 1]
  BY <1>2, <1>3 DEF Kept
<1>5. /\ \A k \in 1..l : k <= p => s.sorted[k] = list[k]
      /\ l < p => f = p - l /\ \A k \in 1..f : s.rest[k] = list[l + k]
  BY <1>2 DEF Stays
<1>6. PICK g : g = Left(f, n)  OBVIOUS
<1>7. ASSUME NEW k \in 1..l + 1, k <= p PROVE t.sorted[k] = list[k]
  <2>1. CASE k = l + 1
    <3>1. l < p /\ 1 \in 1..f /\ f = p - l  BY <1>2, <1>4, <1>5, <1>7, <2>1
    <3>2. s.rest[1] = list[l + 1]  BY <1>5, <3>1
    <3>3. QED  BY <1>1, <1>4, <2>1, <3>2
  <2>2. CASE k # l + 1
    <3>1. k \in 1..l  BY <1>2, <2>2
    <3>2. QED  BY <1>4, <1>5, <1>7, <3>1
  <2>3. QED  BY <2>1, <2>2
<1>8. ASSUME l + 1 < p
      PROVE  g = p - (l + 1) /\ \A k \in 1..g : t.rest[k] = list[l + 1 + k]
  <2>1. l < p /\ f = p - l /\ f # 0  BY <1>2, <1>5, <1>8
  <2>2. g = f - 1 /\ n = 0  BY <1>2, <1>6, <2>1 DEF Left
  <2>3. ASSUME NEW k \in 1..g PROVE t.rest[k] = list[l + 1 + k]
    <3>1. k \in n + 1..q /\ k - n + 1 = k + 1 /\ k + 1 \in 1..f /\ l + (k + 1) = l + 1 + k
      <4>0. PICK x \in Nat : x = f /\ x <= r /\ k \in 1..x - 1  BY <1>4, <2>2
      <4>1. q = 0 + r - 1  BY <1>4, <2>2
      <4>2a. PICK y \in Nat : y = k /\ 1 <= y /\ y <= x - 1  BY <4>0
      <4>2b. y + 1 \in 1..x /\ y - 0 + 1 = y + 1  BY <4>0, <4>2a
      <4>2c. y \in 0 + 1..q  BY <1>2, <4>0, <4>1, <4>2a
      <4>2e. l \in Int /\ y \in Int  BY <1>2, <4>2a
      <4>2d. l + (y + 1) = l + 1 + y  BY <4>2e
      <4>2. k + 1 \in 1..x /\ k - 0 + 1 = k + 1 /\ k \in 0 + 1..q /\ l + (k + 1) = l + 1 + k
        BY <4>2a, <4>2b, <4>2c, <4>2d
      <4>3. QED  BY <2>2, <4>0, <4>2
    <3>2. t.rest[k] = s.rest[k + 1]
      <4>1. t.rest[k] = s.rest[k - n + 1]  BY <1>4, <3>1
      <4>2. QED  BY <3>1, <4>1
    <3>3. s.rest[k + 1] = list[l + (k + 1)]  BY <1>5, <2>1, <3>1
    <3>4. QED  BY <3>1, <3>2, <3>3
  <2>4. QED  BY <1>2, <2>1, <2>2, <2>3
<1>9. Stays(t, g, list, p)  BY <1>4, <1>7, <1>8 DEF Stays
<1>10. QED  BY <1>2, <1>6, <1>9

(* And it is never missed. *)
LEMMA MissStays ==
  ASSUME NEW S, NEW s, NEW t, Turn(S, s, t), Miss(s, t),
         NEW list, NEW p \in Nat, Stays(s, 0, list, p)
  PROVE  Stays(t, 0, list, p)
<1>1. Missed(s, t, s.rest[1], Len(s.missed))  BY MissShape
<1>2. t.sorted = s.sorted  BY <1>1 DEF Missed
<1>3. Len(s.sorted) \in Nat  BY TurnTypes
<1>4. ~(Len(s.sorted) < p)  BY <1>3 DEF Stays
<1>5. QED  BY <1>2, <1>4 DEF Stays

(* A turn of CausalSort's loop keeps all that the proof says of it. *)
LEMMA LoopStep ==
  ASSUME NEW S, Envelopes(S), NEW s \in State(S), NEW m \in Nat, NEW list,
         NEW p \in Nat, NEW c \in Clock, NEW O, NEW base, Tracked(S, O, base, c),
         Loop(s, m, list, p, c, O, base)
  PROVE  SortStep(s) \in State(S) /\ Loop(SortStep(s), m + 1, list, p, c, O, base)
<1>1. PICK f \in 0..Len(s.rest) :
        Pending(s, f, m) /\ InOrder(s, f, O, base) /\ Stays(s, f, list, p)
  BY DEF Loop
<1>2. Clocked(s, c) /\ Total(s, list)  BY DEF Loop
<1>3. CASE s.rest = << >>
  <2>1. SortStep(s) = s  BY <1>3 DEF SortStep
  <2>2. Pending(s, f, m + 1)  BY <1>1, <1>3 DEF Pending
  <2>3. Loop(s, m + 1, list, p, c, O, base)  BY <1>1, <1>2, <2>2 DEF Loop
  <2>4. QED  BY <2>1, <2>3
<1>4. CASE s.rest # << >>
  <2>1. PICK t \in State(S) : t = SortStep(s) /\ (Miss(s, t) \/ \E v \in Seq(S) : Keep(s, t, v))
    BY <1>4, StepShape
  <2>2. Turn(S, s, t)  BY <1>4 DEF Turn
  <2>3. CASE Miss(s, t)
    <3>1. f = 0 /\ Pending(t, 0, m + 1)  BY <1>1, <2>2, <2>3, MissPending
    <3>2. Clocked(t, c) /\ Total(t, list)  BY <1>2, <2>2, <2>3, MissClocked, MissTotal
    <3>3. InOrder(t, 0, O, base)  BY <1>1, <1>2, <2>2, <2>3, <3>1, MissOrder
    <3>4. Stays(t, 0, list, p)  BY <1>1, <2>2, <2>3, <3>1, MissStays
    <3>5. 0 \in 0..Len(t.rest)  BY <2>2, TurnTypes
    <3>6. Loop(t, m + 1, list, p, c, O, base)  BY <3>1, <3>2, <3>3, <3>4, <3>5 DEF Loop
    <3>7. QED  BY <2>1, <3>6
  <2>4. ASSUME NEW v \in Seq(S), Keep(s, t, v) PROVE Loop(t, m + 1, list, p, c, O, base)
    <3>0. PICK g : g = Left(f, Len(v))  OBVIOUS
    <3>1. (f # 0 => Len(v) = 0) /\ g \in 0..Len(t.rest) /\ Pending(t, g, m + 1)
      BY <1>1, <1>2, <2>2, <2>4, <3>0, KeepPending
    <3>2. Clocked(t, c) /\ Total(t, list)  BY <1>2, <2>2, <2>4, KeepClocked, KeepTotal
    <3>3. InOrder(t, g, O, base)  BY <1>1, <1>2, <2>2, <2>4, <3>0, <3>1, KeepOrder
    <3>4. Stays(t, g, list, p)  BY <1>1, <2>2, <2>4, <3>0, <3>1, KeepStays
    <3>5. QED  BY <3>1, <3>2, <3>3, <3>4 DEF Loop
  <2>5. QED  BY <2>1, <2>3, <2>4
<1>5. QED  BY <1>3, <1>4

(* Before the first turn. *)
Start(list, c) == [sorted |-> << >>, rest |-> list, missed |-> << >>, clock |-> c]

(* CausalSort::sort comes to its end within two turns for an envelope,      *)
(* with all of this true of its result.                                     *)
LEMMA CausalLoop ==
  ASSUME NEW S, Envelopes(S), NEW list \in Seq(S), NEW p \in Nat, NEW c \in Clock,
         NEW O, NEW base, Tracked(S, O, base, c),
         Loop(Start(list, c), 0, list, p, c, O, base)
  PROVE  LET s == Causal(list, c)
         IN s \in State(S) /\ s.rest = << >> /\ Loop(s, 2 * Len(list), list, p, c, O, base)
<1> DEFINE N == 2 * Len(list)
           b == [sorted |-> << >>, rest |-> list, missed |-> << >>, clock |-> c]
           Body(f) == [n \in 0..N |-> IF n = 0 THEN b ELSE SortStep(f[n - 1])]
           T == {x \in State(S) : \E m \in 0..N : Loop(x, m, list, p, c, O, base)}
           g == [n \in 1..N |-> [x \in State(S) |-> SortStep(x)]]
<1>1. N \in Nat /\ b \in State(S)  BY DEF State
<1>2. \A n \in 1..N : \A x \in State(S) : g[n][x] = SortStep(x)  OBVIOUS
<1>3. \A x \in State(S) : SortStep(x) \in State(S)
  <2>1. ASSUME NEW x \in State(S) PROVE SortStep(x) \in State(S)
    <3>1. CASE x.rest = << >>  BY <3>1 DEF SortStep
    <3>2. CASE x.rest # << >>  BY <3>2, StepShape
    <3>3. QED  BY <3>1, <3>2
  <2>2. QED  BY <2>1
<1>4. PICK f \in [0..N -> State(S)] : f[0] = b /\ \A n \in 1..N : f[n] = g[n][f[n - 1]]
  <2>1. \A n \in 1..N : \A x \in State(S) : g[n][x] \in State(S)  BY <1>2, <1>3
  <2>2. PICK Q, gg, bb, M : Q = State(S) /\ gg = g /\ bb = b /\ M = N  OBVIOUS
  <2> HIDE DEF N, b, g
  <2>3. bb \in Q /\ M \in Nat /\ \A n \in 1..M : \A x \in Q : gg[n][x] \in Q
    BY <1>1, <2>1, <2>2
  <2>4. PICK f : IsRec(f, Q, bb, M, gg)  BY <2>3, Recursion
  <2>5. QED  BY <2>2, <2>4 DEF IsRec
<1>5. f = Body(f)
  <2>1. \A n \in 0..N : n # 0 => n \in 1..N /\ n - 1 \in 0..N  BY <1>1
  <2> HIDE DEF N, b, g
  <2>2. \A n \in 0..N : f[n] = IF n = 0 THEN b ELSE SortStep(f[n - 1])
    <3>1. ASSUME NEW n \in 0..N, n # 0 PROVE f[n] = SortStep(f[n - 1])
      <4>1. n \in 1..N /\ f[n - 1] \in State(S)  BY <1>4, <2>1, <3>1
      <4>2. QED  BY <1>2, <1>4, <4>1
    <3>2. QED  BY <1>4, <3>1
  <2>3. QED  BY <1>4, <2>2
<1> DEFINE h == CHOOSE h : h = Body(h)
<1>6. h = Body(h)
  <2> HIDE DEF N, b, g, Body
  <2>1. QED  BY <1>5
<1>7. Causal(list, c) = h[N]  BY DEF Causal
<1> DEFINE G == {n \in 0..N : h[n] \in State(S) /\ Loop(h[n], n, list, p, c, O, base)}
<1> HIDE DEF h
<1>8. 0 \in G
  <2>1. h[0] = b  BY <1>1, <1>6
  <2>2. QED  BY <1>1, <2>1 DEF Start
<1>9. ASSUME NEW n \in 1..N, n - 1 \in G PROVE n \in G
  <2>1. n \in 0..N /\ n # 0 /\ n - 1 \in Nat /\ n - 1 + 1 = n  BY <1>1
  <2>2. h[n] = SortStep(h[n - 1])
    <3> HIDE DEF N, b
    <3>1. QED  BY <1>6, <2>1
  <2>3. h[n - 1] \in State(S) /\ Loop(h[n - 1], n - 1, list, p, c, O, base)  BY <1>9
  <2>4. h[n] \in State(S) /\ Loop(h[n], n, list, p, c, O, base)
    BY <2>1, <2>2, <2>3, LoopStep
  <2>5. QED  BY <2>1, <2>4
<1>10. \A n \in 0..N : n \in G
  <2> HIDE DEF N, G
  <2>1. QED  BY <1>1, <1>8, <1>9, UpTo
<1>11. PICK s \in State(S) : s = Causal(list, c) /\ Loop(s, N, list, p, c, O, base)
  BY <1>1, <1>7, <1>10
<1>12. s.rest = << >>
  <2>1. PICK f1 \in 0..Len(s.rest) : Pending(s, f1, N)  BY <1>11 DEF Loop
  <2>2. /\ Len(s.sorted) \in Nat /\ Len(s.rest) \in Nat /\ Len(s.missed) \in Nat
        /\ s.rest \in Seq(S)
    BY DEF State
  <2>3. Len(s.sorted) + Len(s.rest) + Len(s.missed) = Len(list)  BY <1>11 DEF Loop, Total
  <2>4. ASSUME s.rest # << >> PROVE FALSE
    <3>1. N <= 2 * Len(s.sorted) + f1 + Len(s.missed)  BY <2>1, <2>4 DEF Pending
    <3>2. Len(s.rest) # 0  BY <2>2, <2>4
    <3>3. PICK x \in Nat, y \in Nat, z \in Nat, w \in Nat, u \in Nat :
            /\ x = Len(s.sorted) /\ y = Len(s.rest) /\ z = Len(s.missed) /\ w = Len(list)
            /\ u = f1
      BY <2>2
    <3>4. 2 * w <= 2 * x + u + z /\ x + y + z = w /\ y > 0 /\ u <= y
      <4>1. 2 * w <= 2 * x + u + z  BY <3>1, <3>3
      <4>2. x + y + z = w  BY <2>3, <3>3
      <4>3. y > 0 /\ u <= y  BY <3>2, <3>3
      <4>4. QED  BY <4>1, <4>2, <4>3
    <3>5. QED  BY <3>4
  <2>5. QED  BY <2>4
<1>13. QED  BY <1>11, <1>12

(* A list of a set holds its elements. *)
LEMMA Listing ==
  ASSUME NEW E, NEW n \in Nat, NEW f \in [1..n -> E], Range(f) = E
  PROVE  f \in Seq(E) /\ Len(f) = n /\ \A x : In(x, f) <=> x \in E
<1>1. f \in Seq(E) /\ Len(f) = n  OBVIOUS
<1>2. ASSUME NEW x, In(x, f) PROVE x \in E  BY <1>1, <1>2 DEF In
<1>3. ASSUME NEW x \in E PROVE In(x, f)
  <2>1. PICK k \in 1..n : f[k] = x  BY DEF Range
  <2>2. QED  BY <1>1, <2>1 DEF In
<1>4. QED  BY <1>1, <1>2, <1>3

(* TimestampSort::sort: a list of the whole batch by time. *)
LEMMA ByTime ==
  ASSUME NEW E, IsFiniteSet(E), NEW list \in TimestampSort(E)
  PROVE  /\ list \in Seq(E) /\ \A x : In(x, list) <=> x \in E
         /\ \A j, k \in 1..Len(list) : j < k => Time(list[j]) <= Time(list[k])
<1>1. Cardinality(E) \in Nat  BY FS_CardinalityType
<1>2. /\ list \in [1..Cardinality(E) -> E] /\ Range(list) = E
      /\ \A j, k \in DOMAIN list : j < k => Time(list[j]) <= Time(list[k])
  BY DEF TimestampSort, Orders
<1>3. list \in Seq(E) /\ Len(list) = Cardinality(E) /\ \A x : In(x, list) <=> x \in E
  BY <1>1, <1>2, Listing
<1>4. QED  BY <1>2, <1>3

(* A node's answer lists each originator's envelopes in their order. *)
LEMMA ByOriginator ==
  ASSUME NEW E, IsFiniteSet(E), NEW list \in Listed(E)
  PROVE  /\ list \in Seq(E) /\ \A x : In(x, list) <=> x \in E
         /\ \A j, k \in 1..Len(list) :
              j < k /\ list[j][1] = list[k][1] => list[j][2] <= list[k][2]
<1>1. Cardinality(E) \in Nat  BY FS_CardinalityType
<1>2. /\ list \in [1..Cardinality(E) -> E] /\ Range(list) = E
      /\ \A j, k \in DOMAIN list : j < k => (list[j][1] = list[k][1] => list[j][2] <= list[k][2])
  BY DEF Listed, Orders
<1>3. list \in Seq(E) /\ Len(list) = Cardinality(E) /\ \A x : In(x, list) <=> x \in E
  BY <1>1, <1>2, Listing
<1>4. QED  BY <1>2, <1>3

(* What comes out of the icebox's table comes in any order. *)
LEMMA InAnyOrder ==
  ASSUME NEW E, IsFiniteSet(E), NEW list \in Unordered(E)
  PROVE  list \in Seq(E) /\ \A x : In(x, list) <=> x \in E
<1>1. Cardinality(E) \in Nat  BY FS_CardinalityType
<1>2. list \in [1..Cardinality(E) -> E] /\ Range(list) = E  BY DEF Unordered, Orders
<1>3. QED  BY <1>1, <1>2, Listing

(* The elements of a list. *)
LEMMA InSet ==
  ASSUME NEW S, NEW list \in Seq(S), NEW x
  PROVE  x \in ToSet(list) <=> In(x, list)
BY DEF ToSet, In

(* A list in a larger set. *)
LEMMA SeqIn ==
  ASSUME NEW S, NEW list \in Seq(S), NEW T, \A x : In(x, list) => x \in T
  PROVE  list \in Seq(T)
<1>1. \A k \in 1..Len(list) : list[k] \in T  BY DEF In
<1>2. QED  BY <1>1

(* t is s and then u, where s has n elements. *)
Concat(t, S, s, u, n) ==
  /\ t \in Seq(S) /\ n \in Nat /\ Len(u) \in Nat /\ Len(t) = n + Len(u)
  /\ \A k \in 1..n : t[k] = s[k]
  /\ \A k \in n + 1..Len(t) : k - n \in 1..Len(u) /\ t[k] = u[k - n]
  /\ \A x : In(x, t) <=> In(x, s) \/ In(x, u)
  /\ \A x, k : Before(x, s, k) /\ k \in 1..n => Before(x, t, k)
  /\ \A x, k : Before(x, u, k) /\ k \in 1..Len(u) => Before(x, t, n + k)
  /\ \A x, k : In(x, s) /\ k > n /\ k \in Nat => Before(x, t, k)

(* Two lists one after the other. *)
LEMMA Concatenated ==
  ASSUME NEW S, NEW s \in Seq(S), NEW u \in Seq(S), NEW t, t = s \o u, NEW n, n = Len(s)
  PROVE  Concat(t, S, s, u, n)
<1>1. PICK m : m = Len(u)  OBVIOUS
<1>2. /\ t \in Seq(S) /\ n \in Nat /\ m \in Nat /\ Len(t) = n + m
      /\ \A k \in 1..n : t[k] = s[k]
      /\ \A k \in 1..m : t[n + k] = u[k]
  BY <1>1
<1>3. ASSUME NEW k \in n + 1..Len(t) PROVE k - n \in 1..m /\ t[k] = u[k - n]
  <2>1. PICK i : i = k - n  OBVIOUS
  <2>2. i \in 1..m /\ n + i = k  BY <1>2, <2>1
  <2>3. t[n + i] = u[i]  BY <1>2, <2>2
  <2>4. QED  BY <2>1, <2>2, <2>3
<1>4. ASSUME NEW x, In(x, t) PROVE In(x, s) \/ In(x, u)
  <2>1. PICK k \in 1..Len(t) : t[k] = x  BY <1>4 DEF In
  <2>2. CASE k \in 1..n  BY <1>1, <1>2, <2>1, <2>2 DEF In
  <2>3. CASE k \notin 1..n
    <3>1. k \in n + 1..Len(t)  BY <1>2, <2>3
    <3>2. QED  BY <1>1, <1>3, <2>1, <3>1 DEF In
  <2>4. QED  BY <2>2, <2>3
<1>5. ASSUME NEW x, In(x, s) PROVE In(x, t)
  <2>1. PICK k \in 1..n : s[k] = x  BY <1>1, <1>5 DEF In
  <2>2. k \in 1..Len(t)  BY <1>2
  <2>3. QED  BY <1>2, <2>1, <2>2 DEF In
<1>6. ASSUME NEW x, In(x, u) PROVE In(x, t)
  <2>1. PICK k \in 1..m : u[k] = x  BY <1>1, <1>6 DEF In
  <2>2. n + k \in 1..Len(t)  BY <1>2
  <2>3. QED  BY <1>2, <2>1, <2>2 DEF In
<1>7. ASSUME NEW x, NEW k \in 1..n, Before(x, s, k) PROVE Before(x, t, k)
  <2>1. PICK i \in 1..k - 1 : s[i] = x  BY <1>7 DEF Before
  <2>2. i \in 1..n  BY <1>2
  <2>3. QED  BY <1>2, <2>1, <2>2 DEF Before
<1>8. ASSUME NEW x, NEW k \in 1..m, Before(x, u, k) PROVE Before(x, t, n + k)
  <2>1. PICK i \in 1..k - 1 : u[i] = x  BY <1>8 DEF Before
  <2>2. i \in 1..m /\ n + i \in 1..n + k - 1  BY <1>2
  <2>3. t[n + i] = x  BY <1>2, <2>1, <2>2
  <2>4. PICK j \in 1..(n + k) - 1 : j = n + i  BY <1>2, <2>2
  <2>5. t[j] = x  BY <2>3, <2>4
  <2>6. QED  BY <2>4, <2>5 DEF Before
<1>9. ASSUME NEW x, In(x, s), NEW k \in Nat, k > n PROVE Before(x, t, k)
  <2>1. PICK i \in 1..n : s[i] = x  BY <1>1, <1>9 DEF In
  <2>2. i \in 1..k - 1  BY <1>2, <1>9
  <2>3. QED  BY <1>2, <2>1, <2>2 DEF Before
<1>10. QED  BY <1>1, <1>2, <1>3, <1>4, <1>5, <1>6, <1>7, <1>8, <1>9 DEF Concat

-----------------------------------------------------------------------------
(* What the node has, and a batch of it *)

(* What the node has. *)
Held == {e \in Envelope : e[2] <= node[e[1]]}

(* What an originator sequences. *)
Entry == [dep : Nat, time : Nat]

(* The types of the variables. *)
TypeOK ==
  /\ log \in [All -> Seq(Entry)]
  /\ node \in Clock /\ cursor \in Clock
  /\ done \in Seq(Held)
  /\ job \in [phase : {"idle", "resolve", "process"}, envelopes : Seq(Held),
              missing : Seq(Held), clock : Clock \union {<< >>}, rounds : Nat]
  /\ stream \in [open : BOOLEAN, base : Clock, clock : Clock, at : Clock, out : Seq(Held)]
  /\ used \in [syncs : Nat, streams : Nat, resolved : BOOLEAN]

(* A node has a prefix of what was sequenced, and nobody has read more; an  *)
(* originator's clock goes forward, and a commit depends on an earlier      *)
(* one.                                                                     *)
Network ==
  /\ \A o \in All :
       /\ cursor[o] <= node[o] /\ node[o] <= Len(log[o]) /\ Len(log[o]) <= Bound(o)
       /\ stream.base[o] <= stream.at[o] /\ stream.at[o] <= node[o]
  /\ \A o \in All : \A k \in 1..Len(log[o]) :
       /\ log[o][k].dep <= Len(log[Mls]) /\ (o = Mls => log[o][k].dep < k)
       /\ \A i \in 1..k - 1 :
            log[o][i].time < log[o][k].time /\ (Monotone => log[o][i].dep <= log[o][k].dep)

(* The icebox has messages that the node has. *)
Iced == icebox \subseteq Held /\ \A e \in icebox : ~IsCommit(e)

(* What the assumptions on the constants say. *)
LEMMA Naturals ==
  /\ Page \in Nat /\ MaxCommits \in Nat /\ MaxMessages \in Nat /\ MaxTime \in Nat
  /\ IsFiniteSet(All) /\ Mls \in All /\ Mls \notin Origs /\ Origs \subseteq All
  /\ Max({MaxCommits, MaxMessages}) \in Nat
  /\ MaxCommits <= Max({MaxCommits, MaxMessages}) /\ MaxMessages <= Max({MaxCommits, MaxMessages})
<1>1. /\ Page \in Nat /\ MaxCommits \in Nat /\ MaxMessages \in Nat /\ MaxTime \in Nat
      /\ Mls \in All /\ Mls \notin Origs /\ Origs \subseteq All
  BY OrderAssumption DEF All
<1>2. IsFiniteSet(Origs) /\ IsFiniteSet({Mls})  BY OrderAssumption, FS_Singleton
<1>3. IsFiniteSet(All)  BY <1>2, FS_Union DEF All
<1>4. Max({MaxCommits, MaxMessages}) = IF MaxCommits >= MaxMessages THEN MaxCommits ELSE MaxMessages
  BY <1>1, Larger
<1>5. QED  BY <1>1, <1>3, <1>4

(* An envelope the node has is in its originator's log, and depends on a    *)
(* commit; a commit depends on an earlier one.                              *)
LEMMA HeldFacts ==
  ASSUME TypeOK, Network
  PROVE  /\ Envelopes(Held)
         /\ \A e \in Held :
              /\ e = <<e[1], e[2]>> /\ e[1] \in All /\ e[2] \in Nat \ {0}
              /\ e[2] <= node[e[1]] /\ e[2] \in 1..Len(log[e[1]])
              /\ Dep(e) \in 0..MaxCommits /\ Time(e) \in Nat
              /\ IsCommit(e) => Dep(e) < e[2]
<1>1. SUFFICES ASSUME NEW e \in Held
               PROVE  /\ e = <<e[1], e[2]>> /\ e[1] \in All /\ e[2] \in Nat \ {0}
                      /\ e[2] <= node[e[1]] /\ e[2] \in 1..Len(log[e[1]])
                      /\ Dep(e) \in 0..MaxCommits /\ Time(e) \in Nat
                      /\ IsCommit(e) => Dep(e) < e[2]
  <2>1. Held \subseteq Envelope  BY DEF Held
  <2>2. QED  BY <2>1 DEF Envelopes
<1>2. e = <<e[1], e[2]>> /\ e[1] \in All /\ e[2] \in Nat \ {0} /\ e[2] <= node[e[1]]
  BY DEF Held, Envelope
<1>3. PICK o, k, len : o = e[1] /\ k = e[2] /\ len = Len(log[o])  OBVIOUS
<1>4. o \in All /\ Mls \in All /\ log[o] \in Seq(Entry)
      /\ log[Mls] \in Seq(Entry)
  BY <1>2, <1>3, Naturals DEF TypeOK
<1>4a. PICK l \in Seq(Entry), lm \in Seq(Entry) :
         l = log[o] /\ lm = log[Mls]
  BY <1>4
<1>5. len \in Nat /\ Len(log[Mls]) \in Nat /\ node[o] \in Nat
  <2>1. Len(l) \in Nat /\ Len(lm) \in Nat  OBVIOUS
  <2>2. node[o] \in Nat  BY <1>4 DEF TypeOK, Clock
  <2>3. QED  BY <1>3, <1>4a, <2>1, <2>2
<1>6. node[o] <= len /\ Len(log[Mls]) <= MaxCommits  BY <1>3, <1>4 DEF Network, Bound
<1>7. k \in 1..len  BY <1>2, <1>3, <1>5, <1>6
<1>8. log[o][k] \in Entry
  <2>1. k \in 1..Len(l)  BY <1>3, <1>4a, <1>7
  <2>2. l[k] \in Entry  BY <2>1
  <2>3. QED  BY <1>4a, <2>2
<1>9. Dep(e) = log[o][k].dep /\ Time(e) = log[o][k].time  BY <1>3 DEF Dep, Time
<1>10. log[o][k].dep <= Len(log[Mls]) /\ (o = Mls => log[o][k].dep < k)
  BY <1>3, <1>4, <1>7 DEF Network
<1>11. Dep(e) \in Nat /\ Time(e) \in Nat  BY <1>8, <1>9 DEF Entry
<1>12. Dep(e) \in 0..MaxCommits  BY <1>5, <1>6, <1>9, <1>10, <1>11, Naturals
<1>13. QED  BY <1>2, <1>3, <1>7, <1>9, <1>10, <1>11, <1>12 DEF IsCommit

(* An originator's clock goes forward, and the epochs of its senders too    *)
(* where they are at one epoch.                                             *)
LEMMA HeldOrder ==
  ASSUME TypeOK, Network, NEW d \in Held, NEW e \in Held, d[1] = e[1], d[2] < e[2]
  PROVE  Time(d) < Time(e) /\ (Monotone => Dep(d) <= Dep(e))
<1>1. PICK o, i, k : o = e[1] /\ k = e[2] /\ i = d[2]  OBVIOUS
<1>2. /\ o \in All /\ i \in Nat \ {0} /\ k \in Nat /\ k \in 1..Len(log[o])
  BY <1>1, HeldFacts
<1>3. i \in 1..k - 1  BY <1>1, <1>2
<1>4. log[o][i].time < log[o][k].time /\ (Monotone => log[o][i].dep <= log[o][k].dep)
  BY <1>2, <1>3 DEF Network
<1>5. QED  BY <1>1, <1>4 DEF Dep, Time

(* The node has finitely many envelopes. *)
LEMMA HeldFinite ==
  ASSUME TypeOK, Network
  PROVE  LET M == Max({MaxCommits, MaxMessages})
         IN /\ Held \subseteq All \X (1..M) /\ IsFiniteSet(All \X (1..M)) /\ IsFiniteSet(Held)
            /\ \A E \in SUBSET Held : IsFiniteSet(E)
<1>1. PICK M : M = Max({MaxCommits, MaxMessages})  OBVIOUS
<1>2. M \in Nat /\ MaxCommits <= M /\ MaxMessages <= M /\ MaxCommits \in Nat /\ MaxMessages \in Nat
  BY <1>1, Naturals
<1>3. ASSUME NEW e \in Held PROVE e \in All \X (1..M)
  <2>1. /\ e = <<e[1], e[2]>> /\ e[1] \in All /\ e[2] \in Nat \ {0} /\ e[2] \in 1..Len(log[e[1]])
    BY HeldFacts
  <2>2. Len(log[e[1]]) <= Bound(e[1]) /\ log[e[1]] \in Seq(Entry)
    BY <2>1 DEF Network, TypeOK
  <2>3. Bound(e[1]) \in Nat /\ Bound(e[1]) <= M  BY <1>2 DEF Bound
  <2>4. Len(log[e[1]]) \in Nat  BY <2>2
  <2>5. e[2] \in 1..M  BY <1>2, <2>1, <2>2, <2>3, <2>4
  <2>6. QED  BY <2>1, <2>5
<1>4. IsFiniteSet(1..M)  BY <1>2, FS_Interval
<1>5. IsFiniteSet(All \X (1..M))  BY <1>4, Naturals, FS_Product
<1>6. IsFiniteSet(Held)  BY <1>3, <1>5, FS_Subset
<1>7. \A E \in SUBSET Held : IsFiniteSet(E)  BY <1>6, FS_Subset
<1>8. QED  BY <1>1, <1>3, <1>5, <1>6, <1>7

(* A query answers what the node has past the cursors. *)
LEMMA AfterFacts ==
  ASSUME TypeOK, Network, NEW c \in Clock
  PROVE  After(c) = {e \in Held : e[2] > c[e[1]]}
<1>1. ASSUME NEW e \in After(c) PROVE e \in Held /\ e[2] > c[e[1]]
  <2>1. PICK o \in All : e \in {o} \X (1..node[o]) /\ e[2] > c[e[1]]  BY DEF After
  <2>2. node[o] \in Nat  BY DEF TypeOK, Clock
  <2>3. e = <<e[1], e[2]>> /\ e[1] = o /\ e[2] \in 1..node[o]  BY <2>1
  <2>4. e[2] \in Nat \ {0} /\ e[2] <= node[o]  BY <2>2, <2>3
  <2>5. e \in Envelope  BY <2>3, <2>4 DEF Envelope
  <2>6. QED  BY <2>1, <2>3, <2>4, <2>5 DEF Held
<1>2. ASSUME NEW e \in Held, e[2] > c[e[1]] PROVE e \in After(c)
  <2>1. e = <<e[1], e[2]>> /\ e[1] \in All /\ e[2] \in Nat \ {0} /\ e[2] <= node[e[1]]
    BY HeldFacts
  <2>2. node[e[1]] \in Nat  BY <2>1 DEF TypeOK, Clock
  <2>3. e[2] \in 1..node[e[1]]  BY <2>1, <2>2
  <2>4. e \in {e[1]} \X (1..node[e[1]])  BY <2>1, <2>3
  <2>5. QED  BY <1>2, <2>1, <2>4 DEF After
<1>3. QED  BY <1>1, <1>2

(* What the network's order lets the sort rest on. *)
LEMMA NetworkTracked ==
  ASSUME TypeOK, Network, NEW S \in SUBSET Held, NEW O \in SUBSET All,
         Monotone \/ O \subseteq {Mls}, NEW base \in Clock, NEW c \in Clock,
         Mls \in O => base[Mls] <= c[Mls]
  PROVE  Tracked(S, O, base, c) /\ Envelopes(S)
<1>1. \A d, e \in S : d[1] = e[1] /\ d[1] \in O \ {Mls} /\ d[2] < e[2] => Dep(d) <= Dep(e)
  BY HeldOrder
<1>2. \A e \in S : IsCommit(e) => Dep(e) < e[2]  BY HeldFacts
<1>3. Envelopes(S)  BY HeldFacts DEF Envelopes
<1>4. QED  BY <1>1, <1>2, <1>3 DEF Tracked

(* Every envelope of O comes after those of its originator past base. *)
NoGap(list, O, base) ==
  \A k \in 1..Len(list) : list[k][1] \in O =>
    \A d \in Smaller(list[k], base) : Before(d, list, k)

(* What a pass of the sort over E makes of it. *)
Result(s, E, c, O, base) ==
  /\ s.sorted \in Seq(E) /\ s.missed \in Seq(E) /\ s.clock \in Clock
  /\ Clocked(s, c) /\ NoGap(s.sorted, O, base)
  /\ \A x : x \in E <=> In(x, s.sorted) \/ In(x, s.missed)
  /\ Mls \in O => \A x \in E : In(x, s.missed) => ~IsCommit(x)

(* What the loop of CausalSort::sort makes of a batch, and that what was    *)
(* in place stays there.                                                    *)
LEMMA PassResult ==
  ASSUME NEW E, Envelopes(E), NEW list \in Seq(E), \A x \in E : In(x, list),
         NEW p \in Nat, p <= Len(list), NEW c \in Clock, NEW O, NEW base, Tracked(E, O, base, c),
         Loop(Start(list, c), 0, list, p, c, O, base)
  PROVE  LET s == Causal(list, c)
         IN /\ Result(s, E, c, O, base) /\ p <= Len(s.sorted)
            /\ \A k \in 1..p : s.sorted[k] = list[k]
<1>1. PICK s \in State(E) :
        /\ s = Causal(list, c) /\ s.rest = << >>
        /\ Loop(s, 2 * Len(list), list, p, c, O, base)
  BY CausalLoop
<1>2. s.sorted \in Seq(E) /\ s.missed \in Seq(E) /\ s.clock \in Clock  BY DEF State
<1>3. Clocked(s, c) /\ Total(s, list)  BY <1>1 DEF Loop
<1>4. PICK f \in 0..Len(s.rest) : InOrder(s, f, O, base) /\ Stays(s, f, list, p)
  BY <1>1 DEF Loop
<1>5. NoGap(s.sorted, O, base)  BY <1>4 DEF InOrder, NoGap
<1>6. \A x : ~In(x, s.rest)  BY <1>1 DEF In
<1>7. \A x : x \in E <=> In(x, s.sorted) \/ In(x, s.missed)
  <2>1. \A x : In(x, list) => x \in E  BY DEF In
  <2>2. QED  BY <1>3, <1>6, <2>1 DEF Total
<1>8. Mls \in O => \A x \in E : In(x, s.missed) => ~IsCommit(x)
  BY <1>4 DEF InOrder, In
<1>9. p <= Len(s.sorted) /\ \A k \in 1..p : s.sorted[k] = list[k]
  <2>1. f = 0  BY <1>1, <1>4
  <2>2. PICK l \in Nat : l = Len(s.sorted)  BY <1>2
  <2>3. p <= l  BY <1>4, <2>1, <2>2 DEF Stays
  <2>4. \A k \in 1..p : k \in 1..l /\ k <= p  BY <2>2, <2>3
  <2>5. QED  BY <1>4, <2>2, <2>3, <2>4 DEF Stays
<1>10. QED  BY <1>1, <1>2, <1>3, <1>5, <1>7, <1>8, <1>9 DEF Result

(* Where the parts of the list of a resolution are. *)
Parts(t, S, q, r, m, u, a, b) ==
  /\ t \in Seq(S) /\ Len(t) \in Nat /\ a + b <= Len(t)
  /\ \A k \in 1..a : t[k] = q[k] /\ \A x : Before(x, q, k) => Before(x, t, k)
  /\ \A k \in a + 1..a + b :
       /\ k - a \in 1..b /\ t[k] = r[k - a]
       /\ \A x : Before(x, r, k - a) => Before(x, t, k)
  /\ \A k \in a + b + 1..Len(t) :
       /\ In(t[k], m) \/ In(t[k], u)
       /\ \A x : In(x, r) => Before(x, t, k)
  /\ \A x : In(x, t) <=> In(x, q) \/ In(x, r) \/ In(x, m) \/ In(x, u)

(* The list order sorts again: the sorted ones, those resolved, those       *)
(* missing and their children in the icebox.                                *)
LEMMA FourParts ==
  ASSUME NEW S, NEW q \in Seq(S), NEW r \in Seq(S), NEW m \in Seq(S), NEW u \in Seq(S),
         NEW a \in Nat, a = Len(q), NEW b \in Nat, b = Len(r)
  PROVE  Parts(q \o r \o m \o u, S, q, r, m, u, a, b)
<1>1. PICK t1, t2, t : t1 = q \o r /\ t2 = t1 \o m /\ t = t2 \o u  OBVIOUS
<1>2. /\ t1 \in Seq(S) /\ Len(t1) = a + b
      /\ \A k \in 1..a : t1[k] = q[k]
      /\ \A k \in a + 1..a + b : k - a \in 1..b /\ t1[k] = r[k - a]
      /\ \A x : In(x, t1) <=> In(x, q) \/ In(x, r)
      /\ \A x, k : Before(x, q, k) /\ k \in 1..a => Before(x, t1, k)
      /\ \A x, k : Before(x, r, k) /\ k \in 1..b => Before(x, t1, a + k)
  <2>1. Concat(t1, S, q, r, a)  BY <1>1, Concatenated
  <2>2. QED  BY <2>1 DEF Concat
<1>3. PICK n \in Nat : n = a + b /\ n = Len(t1)  BY <1>2
<1>4. /\ t2 \in Seq(S) /\ Len(m) \in Nat /\ Len(t2) = n + Len(m)
      /\ \A k \in 1..n : t2[k] = t1[k]
      /\ \A k \in n + 1..Len(t2) : k - n \in 1..Len(m) /\ t2[k] = m[k - n]
      /\ \A x : In(x, t2) <=> In(x, t1) \/ In(x, m)
      /\ \A x, k : Before(x, t1, k) /\ k \in 1..n => Before(x, t2, k)
      /\ \A x, k : In(x, t1) /\ k > n /\ k \in Nat => Before(x, t2, k)
  <2>1. Concat(t2, S, t1, m, n)  BY <1>1, <1>2, <1>3, Concatenated
  <2>2. QED  BY <2>1 DEF Concat
<1>5. PICK h \in Nat : h = Len(t2) /\ n <= h  BY <1>3, <1>4
<1>6. /\ t \in Seq(S) /\ Len(u) \in Nat /\ Len(t) = h + Len(u)
      /\ \A k \in 1..h : t[k] = t2[k]
      /\ \A k \in h + 1..Len(t) : k - h \in 1..Len(u) /\ t[k] = u[k - h]
      /\ \A x : In(x, t) <=> In(x, t2) \/ In(x, u)
      /\ \A x, k : Before(x, t2, k) /\ k \in 1..h => Before(x, t, k)
      /\ \A x, k : In(x, t2) /\ k > h /\ k \in Nat => Before(x, t, k)
  <2>1. Concat(t, S, t2, u, h)  BY <1>1, <1>4, <1>5, Concatenated
  <2>2. QED  BY <2>1 DEF Concat
<1>7. ASSUME NEW k \in 1..n
      PROVE  t[k] = t1[k] /\ \A x : Before(x, t1, k) => Before(x, t, k)
  <2>1. k \in 1..h  BY <1>3, <1>5
  <2>2. QED  BY <1>4, <1>6, <2>1
<1>8. ASSUME NEW k \in 1..a PROVE t[k] = q[k] /\ \A x : Before(x, q, k) => Before(x, t, k)
  <2>1. k \in 1..n  BY <1>3
  <2>2. QED  BY <1>2, <1>7, <2>1
<1>9. ASSUME NEW k \in a + 1..n
      PROVE  /\ k - a \in 1..b /\ t[k] = r[k - a]
             /\ \A x : Before(x, r, k - a) => Before(x, t, k)
  <2>1. k \in 1..n /\ a + (k - a) = k  BY <1>3
  <2>2. k - a \in 1..b /\ t1[k] = r[k - a]  BY <1>2, <1>3
  <2>3. \A x : Before(x, r, k - a) => Before(x, t1, a + (k - a))  BY <1>2, <2>2
  <2>4. QED  BY <1>7, <2>1, <2>2, <2>3
<1>10. ASSUME NEW k \in n + 1..Len(t)
       PROVE  (In(t[k], m) \/ In(t[k], u)) /\ \A x : In(x, r) => Before(x, t, k)
  <2>1. k \in Nat /\ k > n  BY <1>3
  <2>2. CASE k <= h
    <3>1. k \in 1..h /\ k \in n + 1..Len(t2)  BY <1>3, <1>5, <2>1, <2>2
    <3>2. t[k] = m[k - n] /\ k - n \in 1..Len(m)  BY <1>4, <1>6, <3>1
    <3>3. In(t[k], m)  BY <3>2 DEF In
    <3>4. \A x : In(x, r) => Before(x, t, k)  BY <1>2, <1>4, <1>6, <2>1, <3>1
    <3>5. QED  BY <3>3, <3>4
  <2>3. CASE ~(k <= h)
    <3>1. k > h /\ k \in h + 1..Len(t)  BY <1>5, <1>6, <2>1, <2>3
    <3>2. t[k] = u[k - h] /\ k - h \in 1..Len(u)  BY <1>6, <3>1
    <3>3. In(t[k], u)  BY <3>2 DEF In
    <3>4. \A x : In(x, r) => Before(x, t, k)  BY <1>2, <1>4, <1>6, <2>1, <3>1
    <3>5. QED  BY <3>3, <3>4
  <2>4. QED  BY <2>2, <2>3
<1>11. Len(t) \in Nat /\ a + b <= Len(t)  BY <1>3, <1>5, <1>6
<1>12. \A x : In(x, t) <=> In(x, q) \/ In(x, r) \/ In(x, m) \/ In(x, u)
  BY <1>2, <1>4, <1>6
<1>13. Parts(t, S, q, r, m, u, a, b)
  BY <1>3, <1>6, <1>8, <1>9, <1>10, <1>11, <1>12 DEF Parts
<1>14. QED  BY <1>1, <1>13

(* Before the first turn everything is in the rest. *)
LEMMA Starting ==
  ASSUME NEW S, NEW list \in Seq(S), NEW c \in Clock, NEW s, s = Start(list, c)
  PROVE  /\ s.sorted = << >> /\ s.missed = << >> /\ s.rest = list /\ s.clock = c
         /\ Clocked(s, c) /\ Total(s, list) /\ Len(list) \in Nat
<1>4. /\ s.sorted = << >> /\ s.missed = << >> /\ s.rest = list /\ s.clock = c
  BY DEF Start
<1>5. Clocked(s, c)
  <2>1. \A o \in All : c[o] <= s.clock[o]  BY <1>4 DEF Clock
  <2>2. Len(s.sorted) = 0 /\ Len(s.missed) = 0 /\ \A k \in 1..0 : FALSE  BY <1>4
  <2>3. QED  BY <1>4, <2>1, <2>2 DEF Clocked
<1>6. Total(s, list)
  <2>1. \A x : ~In(x, << >>)  BY DEF In
  <2>2. Len(s.sorted) = 0 /\ Len(s.missed) = 0 /\ Len(list) \in Nat  BY <1>4
  <2>3. 0 + Len(list) + 0 = Len(list)  BY <2>2
  <2>4. QED  BY <1>4, <2>1, <2>2, <2>3 DEF Total
<1>7. QED  BY <1>4, <1>5, <1>6

(* The first pass over a batch sorted by time: causal order, and each       *)
(* originator of O without a gap.                                           *)
LEMMA FirstPass ==
  ASSUME TypeOK, Network, NEW E \in SUBSET Held, NEW list \in TimestampSort(E),
         NEW c \in Clock, NEW O \in SUBSET All, Monotone \/ O \subseteq {Mls},
         NEW base \in Clock, Mls \in O => base[Mls] <= c[Mls],
         \A e \in E : e[1] \in O => Smaller(e, base) \subseteq E
  PROVE  Result(Causal(list, c), E, c, O, base)
<1>1. /\ list \in Seq(E) /\ \A x : In(x, list) <=> x \in E
      /\ \A j, k \in 1..Len(list) : j < k => Time(list[j]) <= Time(list[k])
  <2>1. IsFiniteSet(E)  BY HeldFinite
  <2>2. QED  BY <2>1, ByTime
<1>2. Tracked(E, O, base, c) /\ Envelopes(E)  BY NetworkTracked
<1>3. PICK s : s = Start(list, c)  OBVIOUS
<1>4. /\ s.sorted = << >> /\ s.missed = << >> /\ s.rest = list /\ s.clock = c
      /\ Clocked(s, c) /\ Total(s, list) /\ Len(list) \in Nat
  BY <1>1, <1>3, Starting
<1>7. ASSUME NEW i \in 1..Len(list), NEW k \in 1..Len(list), i < k, list[i][1] = list[k][1]
      PROVE  list[i] = list[k] \/ list[i][2] < list[k][2]
  <2>1. PICK d \in Held, e \in Held : d = list[i] /\ e = list[k]  BY <1>1
  <2>2. /\ d = <<d[1], d[2]>> /\ e = <<e[1], e[2]>> /\ d[2] \in Nat /\ e[2] \in Nat
        /\ Time(d) \in Nat /\ Time(e) \in Nat
    BY HeldFacts
  <2>3. d[1] = e[1] /\ Time(d) <= Time(e)  BY <1>1, <1>7, <2>1
  <2>4. ~(e[2] < d[2])
    <3>1. e[2] < d[2] => Time(e) < Time(d)  BY <2>3, HeldOrder
    <3>2. QED  BY <2>2, <2>3, <3>1
  <2>5. d[2] = e[2] \/ d[2] < e[2]  BY <2>2, <2>4
  <2>6. d[2] = e[2] => d = e  BY <2>2, <2>3
  <2>7. QED  BY <2>1, <2>5, <2>6
<1>8. Pending(s, 0, 0)
  <2>1. ASSUME NEW k \in 1..Len(list), IsCommit(list[k]) PROVE Repeated(s, k) \/ Newest(s, k)
    <3>1. ASSUME ~Before(list[k], list, k), NEW i \in 1..k - 1, IsCommit(list[i])
          PROVE  list[i][2] < list[k][2]
      <4>1. i \in 1..Len(list) /\ i < k  BY <1>1
      <4>2. list[i] # list[k]  BY <3>1 DEF Before
      <4>3. list[i][1] = list[k][1]  BY <2>1, <3>1 DEF IsCommit
      <4>4. QED  BY <1>7, <4>1, <4>2, <4>3
    <3>2. \A i \in 1..Len(s.missed) : FALSE  BY <1>4
    <3>3. QED  BY <1>4, <3>1, <3>2 DEF Repeated, Newest
  <2>2. 0 <= 2 * Len(s.sorted) + 0 + Len(s.missed)  BY <1>4
  <2>3. \A k \in 1..0 : FALSE  OBVIOUS
  <2>4. \A k \in 0 + 1..Len(s.rest) : IsCommit(s.rest[k]) => Repeated(s, k) \/ Newest(s, k)
    BY <1>4, <2>1
  <2>5. QED  BY <2>2, <2>3, <2>4 DEF Pending
<1>9. ASSUME NEW k \in 1..Len(list), list[k][1] \in O, NEW d \in Smaller(list[k], base)
      PROVE  Before(d, list, k)
  <2>1. PICK e \in E : e = list[k]  BY <1>1
  <2>2. d \in E  BY <1>9, <2>1
  <2>3. e[1] \in All /\ e[2] \in Nat /\ base[e[1]] \in Nat
    <3>1. e[1] \in All /\ e[2] \in Nat  BY HeldFacts
    <3>2. QED  BY <3>1 DEF Clock
  <2>4. d[1] = e[1] /\ d[2] \in Nat /\ d[2] < e[2]  BY <1>9, <2>1, <2>3 DEF Smaller
  <2>5. PICK i \in 1..Len(list) : list[i] = d  BY <1>1, <2>2 DEF In
  <2>6. i < k
    <3>1. ASSUME ~(i < k) PROVE FALSE
      <4>1. i = k \/ k < i  BY <3>1, <1>1
      <4>2. k < i => list[k] = list[i] \/ list[k][2] < list[i][2]  BY <1>7, <2>1, <2>4, <2>5
      <4>3. list[k][2] < list[i][2] \/ list[k] = list[i]  BY <4>1, <4>2
      <4>4. QED  BY <2>1, <2>3, <2>4, <2>5, <4>3
    <3>2. QED  BY <3>1
  <2>7. i \in 1..k - 1  BY <2>6, <1>1
  <2>8. QED  BY <2>5, <2>7 DEF Before
<1>10. InOrder(s, 0, O, base)
  <2>1. Len(s.sorted) = 0 /\ Len(s.missed) = 0 /\ \A k \in 1..0 : FALSE  BY <1>4
  <2>2. QED  BY <1>4, <1>9, <2>1 DEF InOrder
<1>11. Stays(s, 0, list, 0)
  <2>1. Len(s.sorted) = 0 /\ \A k \in 1..0 : FALSE  BY <1>4
  <2>2. QED  BY <2>1 DEF Stays
<1>12. Len(list) \in Nat /\ 0 \in 0..Len(s.rest)  BY <1>1, <1>4
<1>13. Loop(s, 0, list, 0, c, O, base)
  BY <1>4, <1>8, <1>10, <1>11, <1>12 DEF Loop
<1>14. QED
  <2>1. \A x \in E : In(x, list)  BY <1>1
  <2>2. Loop(Start(list, c), 0, list, 0, c, O, base)  BY <1>3, <1>13
  <2>3. list \in Seq(E) /\ 0 \in Nat /\ 0 <= Len(list)  BY <1>1, <1>12
  <2>4. QED  BY <1>2, <2>1, <2>2, <2>3, PassResult

(* A further pass, over what the first one kept, what was found, what was  *)
(* missed and what was in the icebox.                                      *)
Again(env, mis, c, base, O, least, found, resolved, children, list, E) ==
  /\ env \in Seq(Held) /\ mis \in Seq(Held) /\ c \in Clock /\ base \in Clock
  /\ Clocked([sorted |-> env, rest |-> << >>, missed |-> mis, clock |-> c], base)
  /\ O \in SUBSET Origs /\ (Monotone \/ O = {}) /\ NoGap(env, O, base)
  /\ least \in Nat /\ c[Mls] < least /\ (\A x : In(x, mis) => least <= Dep(x))
  /\ found = {e \in Held : e[1] = Mls => e[2] > least}
  /\ resolved \in Listed(found)
  /\ \E kids \in SUBSET icebox : children \in Unordered(kids)
  /\ list = env \o resolved \o mis \o children
  /\ E = {x \in Held : In(x, list)}

(* The pass after the resolver has answered: what was sorted stays first,   *)
(* and what comes after it is in order too, except for the commits, of      *)
(* which some may never come.                                               *)
LEMMA AgainPass ==
  ASSUME TypeOK, Network, Iced,
         NEW env, NEW mis, NEW c, NEW base, NEW O, NEW least, NEW found, NEW resolved,
         NEW children, NEW list, NEW E,
         Again(env, mis, c, base, O, least, found, resolved, children, list, E)
  PROVE  Result(Causal(list, c), E, base, O, base)
<1>0. /\ env \in Seq(Held) /\ mis \in Seq(Held) /\ c \in Clock /\ base \in Clock
      /\ O \in SUBSET Origs /\ (Monotone \/ O = {}) /\ NoGap(env, O, base)
      /\ least \in Nat /\ c[Mls] < least /\ (\A x : In(x, mis) => least <= Dep(x))
      /\ O \subseteq All /\ Mls \notin O /\ Mls \in All /\ found \subseteq Held
      /\ \A e : e \in found <=> e \in Held /\ (e[1] = Mls => e[2] > least)
  BY Naturals DEF Again
<1>1. /\ resolved \in Seq(Held) /\ \A x : In(x, resolved) <=> x \in found
      /\ \A j, k \in 1..Len(resolved) :
           j < k /\ resolved[j][1] = resolved[k][1] => resolved[j][2] <= resolved[k][2]
  <2>1. found \in SUBSET Held /\ resolved \in Listed(found)  BY <1>0 DEF Again
  <2>2. IsFiniteSet(found)  BY <2>1, HeldFinite
  <2>3. /\ resolved \in Seq(found) /\ \A x : In(x, resolved) <=> x \in found
        /\ \A j, k \in 1..Len(resolved) :
             j < k /\ resolved[j][1] = resolved[k][1] => resolved[j][2] <= resolved[k][2]
    BY <2>1, <2>2, ByOriginator
  <2>4. resolved \in Seq(Held)  BY <2>1, <2>3, SeqIn
  <2>5. QED  BY <2>3, <2>4
<1>2. children \in Seq(Held) /\ \A x : In(x, children) => x \in icebox
  <2>0. PICK kids \in SUBSET icebox : children \in Unordered(kids)  BY DEF Again
  <2>1. kids \in SUBSET Held  BY DEF Iced
  <2>2. IsFiniteSet(kids)  BY <2>1, HeldFinite
  <2>3. children \in Seq(kids) /\ \A x : In(x, children) <=> x \in kids  BY <2>0, <2>2, InAnyOrder
  <2>4. children \in Seq(Held)  BY <2>1, <2>3, SeqIn
  <2>5. QED  BY <2>3, <2>4
<1>3. PICK a \in Nat, b \in Nat : a = Len(env) /\ b = Len(resolved)  BY <1>0, <1>1
<1>4. /\ list \in Seq(Held) /\ Len(list) \in Nat /\ a + b <= Len(list)
      /\ \A k \in 1..a : list[k] = env[k] /\ \A x : Before(x, env, k) => Before(x, list, k)
      /\ \A k \in a + 1..a + b :
           /\ k - a \in 1..b /\ list[k] = resolved[k - a]
           /\ \A x : Before(x, resolved, k - a) => Before(x, list, k)
      /\ \A k \in a + b + 1..Len(list) :
           /\ In(list[k], mis) \/ In(list[k], children)
           /\ \A x : In(x, resolved) => Before(x, list, k)
      /\ \A x : In(x, list) <=> In(x, env) \/ In(x, resolved) \/ In(x, mis) \/ In(x, children)
  <2>0. list = env \o resolved \o mis \o children  BY DEF Again
  <2>1. Parts(list, Held, env, resolved, mis, children, a, b)
    BY <1>0, <1>1, <1>2, <1>3, <2>0, FourParts
  <2>2. QED  BY <2>1 DEF Parts
<1>5. PICK len \in Nat : len = Len(list) /\ a + b <= len  BY <1>4
<1>6. \A k \in 1..len : k \in 1..a \/ k \in a + 1..a + b \/ k \in a + b + 1..len  BY <1>3, <1>5
<1>7. list \in Seq(E) /\ (\A x \in E : In(x, list)) /\ E \in SUBSET Held
  <2>0. list \in Seq(Held) /\ E = {x \in Held : In(x, list)}  BY <1>4 DEF Again
  <2>1. \A x : In(x, list) => x \in Held  BY <2>0 DEF In
  <2>2. \A x : In(x, list) => x \in E  BY <2>0, <2>1
  <2>3. list \in Seq(E)  BY <2>0, <2>2, SeqIn
  <2>4. QED  BY <2>0, <2>3
<1>8. Tracked(E, O, base, c) /\ Envelopes(E)  BY <1>0, <1>7, NetworkTracked
<1>9. PICK s : s = Start(list, c)  OBVIOUS
<1>10. /\ s.sorted = << >> /\ s.missed = << >> /\ s.rest = list /\ s.clock = c
       /\ Clocked(s, c) /\ Total(s, list) /\ Len(list) \in Nat
  <2>1. list \in Seq(E) /\ c \in Clock  BY <1>0, <1>7
  <2>2. QED  BY <1>9, <2>1, Starting
<1>11. /\ \A o \in All : base[o] <= c[o]
       /\ c[Mls] = base[Mls] \/ In(<<Mls, c[Mls]>>, env)
       /\ \A k \in 1..a :
            LET e == env[k]
            IN /\ Dominates(c, e) /\ e[2] <= c[e[1]]
               /\ \/ Dep(e) <= base[Mls]
                  \/ \E i \in 1..k - 1 : IsCommit(env[i]) /\ Dep(e) <= env[i][2]
  <2>1. PICK u : u = [sorted |-> env, rest |-> << >>, missed |-> mis, clock |-> c]  OBVIOUS
  <2>2. u.sorted = env /\ u.clock = c /\ Clocked(u, base)  BY <2>1 DEF Again
  <2>3. QED  BY <1>3, <2>2 DEF Clocked
<1>12. \A x \in Held : x[2] \in Nat \ {0} /\ Dep(x) \in Nat /\ (IsCommit(x) => Dep(x) < x[2])
  BY HeldFacts
<1>13. c[Mls] \in Nat /\ base[Mls] \in Nat  BY <1>0 DEF Clock
<1>14. ASSUME NEW k \in a + b + 1..len, NEW x \in found PROVE Before(x, list, k)
  BY <1>1, <1>4, <1>5, <1>14
<1>15. ASSUME NEW k \in a + 1..len, IsCommit(list[k]), ~Before(list[k], list, k),
              NEW i \in 1..k - 1, IsCommit(list[i])
       PROVE  list[i][2] < list[k][2]
  <2>1. k \in 1..len /\ i \in 1..len /\ i < k  BY <1>3, <1>5
  <2>0. list \in Seq(Held)  BY <1>4
  <2>2. PICK d \in Held, e \in Held : d = list[i] /\ e = list[k]  BY <1>5, <2>0, <2>1
  <2>2a. /\ d[2] \in Nat /\ e[2] \in Nat /\ Dep(e) \in Nat /\ Dep(e) < e[2]
         /\ IsCommit(d) /\ IsCommit(e) /\ ~Before(e, list, k)
    BY <1>12, <1>15, <2>2
  <2>2b. d = <<Mls, d[2]>> /\ e = <<Mls, e[2]>>  BY <2>2a, HeldFacts DEF IsCommit
  <2>3. CASE k \in a + b + 1..len
    <3>1. In(e, mis)
      <4>1. In(e, mis) \/ In(e, children)  BY <1>4, <1>5, <2>2, <2>3
      <4>2. ~In(e, children)  BY <1>2, <2>2a DEF Iced
      <4>3. QED  BY <4>1, <4>2
    <3>2. least <= Dep(e)  BY <1>0, <3>1
    <3>3. e[2] > least  BY <1>0, <2>2a, <3>2
    <3>4. e \in found  BY <1>0, <2>2, <3>3
    <3>5. QED  BY <1>14, <2>2a, <2>3, <3>4
  <2>4. CASE k \in a + 1..a + b
    <3>1. k - a \in 1..b /\ e = resolved[k - a]
          /\ \A x : Before(x, resolved, k - a) => Before(x, list, k)
      BY <1>4, <2>2, <2>4
    <3>2. e[2] > least
      <4>1. In(e, resolved)  BY <1>3, <3>1 DEF In
      <4>2. QED  BY <1>0, <1>1, <2>2a, <4>1 DEF IsCommit
    <3>3. CASE i \in 1..a
      <4>1. d = env[i]  BY <1>4, <2>2, <3>3
      <4>2. d[2] <= c[d[1]]  BY <1>11, <3>3, <4>1
      <4>3. d[2] <= c[Mls]  BY <2>2a, <4>2 DEF IsCommit
      <4>4. d[2] < e[2]  BY <1>0, <1>13, <2>2a, <3>2, <4>3
      <4>5. QED  BY <2>2, <4>4
    <3>4. CASE i \notin 1..a
      <4>1. PICK j \in Nat, h \in Nat : j = i - a /\ h = k - a /\ j \in 1..b /\ h \in 1..b /\ j < h
                /\ i \in a + 1..a + b /\ j \in 1..h - 1
        <5>1. i >= a + 1 /\ i <= k - 1 /\ k <= a + b /\ i \in Nat /\ k \in Nat
          BY <1>3, <1>5, <2>1, <2>4, <3>4
        <5>2. i - a \in Nat /\ k - a \in Nat  BY <1>3, <5>1
        <5>3. /\ i - a \in 1..b /\ k - a \in 1..b /\ i - a < k - a /\ i \in a + 1..a + b
              /\ i - a \in 1..(k - a) - 1
          BY <1>3, <5>1
        <5>4. QED  BY <5>2, <5>3
      <4>2. d = resolved[j] /\ e = resolved[h]
        <5>1. d = resolved[i - a]  BY <1>4, <2>2, <4>1
        <5>2. QED  BY <3>1, <4>1, <5>1
      <4>3. d[2] <= e[2]
        <5>1. resolved[j][1] = resolved[h][1]  BY <2>2a, <4>2 DEF IsCommit
        <5>2. QED  BY <1>1, <1>3, <4>1, <4>2, <5>1
      <4>4. d # e
        <5>1. ~Before(e, resolved, h)  BY <2>2a, <3>1, <4>1
        <5>2. QED  BY <4>1, <4>2, <5>1 DEF Before
      <4>5. d[2] < e[2]  BY <2>2a, <2>2b, <4>3, <4>4
      <4>6. QED  BY <2>2, <4>5
    <3>5. QED  BY <3>3, <3>4
  <2>5. QED  BY <1>5, <2>3, <2>4
<1>16. Pending(s, a, 0)
  <2>1. ASSUME NEW k \in 1..a
        PROVE  Dominates(s.clock, s.rest[k]) /\ (IsCommit(s.rest[k]) => s.rest[k][2] <= s.clock[Mls])
    <3>1. PICK e : e = env[k] /\ s.rest[k] = e  BY <1>4, <1>10, <2>1
    <3>2. Dominates(c, e) /\ e[2] <= c[e[1]]  BY <1>11, <2>1, <3>1
    <3>3. QED  BY <1>10, <3>1, <3>2 DEF IsCommit
  <2>2. ASSUME NEW k \in a + 1..len, IsCommit(list[k]) PROVE Repeated(s, k) \/ Newest(s, k)
    <3>1. \A i \in 1..Len(s.missed) : FALSE  BY <1>10
    <3>2. QED  BY <1>10, <1>15, <2>2, <3>1 DEF Repeated, Newest
  <2>3. 0 <= 2 * Len(s.sorted) + a + Len(s.missed)
    <3>1. Len(s.sorted) = 0 /\ Len(s.missed) = 0  BY <1>10
    <3>2. 0 <= 2 * 0 + a + 0  BY <1>3
    <3>3. QED  BY <3>1, <3>2
  <2>4. QED  BY <1>5, <1>10, <2>1, <2>2, <2>3 DEF Pending
<1>17. ASSUME NEW k \in 1..len, list[k][1] \in O, NEW d \in Smaller(list[k], base)
       PROVE  Before(d, list, k)
  <2>1. CASE k \in 1..a  BY <1>0, <1>3, <1>4, <1>17, <2>1 DEF NoGap
  <2>2. CASE k \notin 1..a
    <3>0. list \in Seq(Held)  BY <1>4
    <3>1. PICK e \in Held : e = list[k]  BY <1>5, <3>0
    <3>2. e[1] \in All /\ e[2] \in Nat /\ e[2] <= node[e[1]] /\ base[e[1]] \in Nat /\ node[e[1]] \in Nat
      <4>1. e[1] \in All /\ e[2] \in Nat /\ e[2] <= node[e[1]]  BY HeldFacts
      <4>2. QED  BY <1>0, <4>1 DEF Clock, TypeOK
    <3>3. PICK x \in base[e[1]] + 1..e[2] - 1 : d = <<e[1], x>>  BY <1>17, <3>1 DEF Smaller
    <3>4. x \in Nat \ {0} /\ x < e[2] /\ x <= node[e[1]]
      <4>1. PICK low \in Nat, top \in Nat, n \in Nat :
              low = base[e[1]] /\ top = e[2] /\ n = node[e[1]] /\ top <= n
        BY <3>2
      <4>2. x \in low + 1..top - 1  BY <3>3, <4>1
      <4>3. x \in Nat /\ x > 0 /\ x < top /\ x <= n  BY <4>1, <4>2
      <4>4. QED  BY <4>1, <4>3
    <3>5. d \in Held /\ d[1] = e[1] /\ d[1] # Mls /\ d[2] = x
      <4>1. d \in Envelope  BY <3>2, <3>3, <3>4 DEF Envelope
      <4>2. QED  BY <1>0, <1>17, <3>1, <3>3, <3>4, <4>1 DEF Held
    <3>6. d \in found  BY <1>0, <3>5
    <3>7. CASE k \in a + b + 1..len  BY <1>14, <3>6, <3>7
    <3>8. CASE k \in a + 1..a + b
      <4>1. k - a \in 1..b /\ e = resolved[k - a]
            /\ \A y : Before(y, resolved, k - a) => Before(y, list, k)
        BY <1>4, <3>1, <3>8
      <4>2. PICK j \in 1..b : resolved[j] = d  BY <1>1, <1>3, <3>6 DEF In
      <4>3. PICK h \in Nat : h = k - a /\ h \in 1..b  BY <4>1
      <4>4. j < h
        <5>1. h < j => resolved[h][2] <= resolved[j][2]
          BY <1>1, <1>3, <3>5, <4>1, <4>2, <4>3
        <5>1a. e = resolved[h] /\ d = resolved[j] /\ d[2] < e[2] /\ d[2] \in Nat /\ e[2] \in Nat
          BY <3>2, <3>4, <3>5, <4>1, <4>2, <4>3
        <5>1b. ~(e[2] <= d[2])  BY <5>1a
        <5>2. ~(h < j) /\ h # j  BY <5>1, <5>1a, <5>1b
        <5>3. QED  BY <4>2, <4>3, <5>2
      <4>5. j \in 1..h - 1  BY <4>3, <4>4
      <4>6. Before(d, resolved, h)  BY <4>2, <4>5 DEF Before
      <4>7. QED  BY <4>1, <4>3, <4>6
    <3>9. QED  BY <1>6, <2>2, <3>7, <3>8
  <2>3. QED  BY <2>1, <2>2
<1>18. InOrder(s, a, O, base)
  <2>1. Len(s.sorted) = 0 /\ Len(s.missed) = 0 /\ \A k \in 1..0 : FALSE  BY <1>10
  <2>2. QED  BY <1>5, <1>10, <1>17, <2>1 DEF InOrder
<1>19. Stays(s, a, list, a)
  <2>1. Len(s.sorted) = 0 /\ \A k \in 1..0 : FALSE  BY <1>10
  <2>2. a = a - 0 /\ \A k \in 1..a : 0 + k = k  BY <1>3
  <2>3. QED  BY <1>10, <2>1, <2>2 DEF Stays
<1>20. a \in 0..Len(s.rest) /\ a <= Len(list)  BY <1>3, <1>5, <1>10
<1>21. Loop(Start(list, c), 0, list, a, c, O, base)
  BY <1>9, <1>10, <1>16, <1>18, <1>19, <1>20 DEF Loop
<1>22. PICK t : t = Causal(list, c)  OBVIOUS
<1>23. Result(t, E, c, O, base) /\ a <= Len(t.sorted) /\ \A k \in 1..a : t.sorted[k] = env[k]
  <2>1. list \in Seq(E) /\ (\A x \in E : In(x, list)) /\ c \in Clock  BY <1>0, <1>7
  <2>2. Result(t, E, c, O, base) /\ a <= Len(t.sorted) /\ \A k \in 1..a : t.sorted[k] = list[k]
    BY <1>8, <1>20, <1>21, <1>22, <2>1, PassResult
  <2>3. \A k \in 1..a : list[k] = env[k]  BY <1>4
  <2>4. QED  BY <2>2, <2>3
<1>24. PICK l \in Nat : l = Len(t.sorted) /\ a <= l  BY <1>23 DEF Result
<1>25. /\ \A o \in All : c[o] <= t.clock[o]
       /\ t.clock[Mls] = c[Mls] \/ In(<<Mls, t.clock[Mls]>>, t.sorted)
       /\ \A k \in 1..l :
            LET e == t.sorted[k]
            IN /\ Dominates(t.clock, e) /\ e[2] <= t.clock[e[1]]
               /\ \/ Dep(e) <= c[Mls]
                  \/ \E i \in 1..k - 1 : IsCommit(t.sorted[i]) /\ Dep(e) <= t.sorted[i][2]
       /\ \A k \in 1..Len(t.missed) : ~Dominates(t.clock, t.missed[k])
  BY <1>23, <1>24 DEF Result, Clocked
<1>26. \A o \in All : base[o] <= t.clock[o]
  <2>1. t.clock \in Clock  BY <1>23 DEF Result
  <2>2. \A o \in All : base[o] \in Nat /\ c[o] \in Nat /\ t.clock[o] \in Nat  BY <1>0, <2>1 DEF Clock
  <2>3. QED  BY <1>11, <1>25, <2>2
<1>27. c[Mls] # base[Mls] => \E i \in 1..a : t.sorted[i] = <<Mls, c[Mls]>>
  BY <1>3, <1>11, <1>23 DEF In
<1>28. t.clock[Mls] = base[Mls] \/ In(<<Mls, t.clock[Mls]>>, t.sorted)
  <2>1. ASSUME NEW i \in 1..a, t.sorted[i] = <<Mls, c[Mls]>> PROVE In(<<Mls, c[Mls]>>, t.sorted)
    <3>1. i \in 1..Len(t.sorted)  BY <1>3, <1>24
    <3>2. QED  BY <2>1, <3>1 DEF In
  <2>2. QED  BY <1>25, <1>27, <2>1
<1>29. ASSUME NEW k \in 1..l
       PROVE  LET e == t.sorted[k]
              IN \/ Dep(e) <= base[Mls]
                 \/ \E i \in 1..k - 1 : IsCommit(t.sorted[i]) /\ Dep(e) <= t.sorted[i][2]
  <2>1. CASE k \in 1..a
    <3>1. \A i \in 1..k - 1 : i \in 1..a  BY <1>3, <2>1
    <3>2. t.sorted[k] = env[k] /\ \A i \in 1..k - 1 : t.sorted[i] = env[i]  BY <1>23, <2>1, <3>1
    <3>3. QED  BY <1>11, <2>1, <3>2
  <2>2. CASE k \notin 1..a
    <3>1. PICK e : e = t.sorted[k]  OBVIOUS
    <3>2. CASE Dep(e) <= c[Mls] /\ c[Mls] # base[Mls]
      <4>1. PICK i \in 1..a : t.sorted[i] = <<Mls, c[Mls]>>  BY <1>27, <3>2
      <4>2. i \in 1..k - 1  BY <1>3, <1>24, <2>2
      <4>3. IsCommit(t.sorted[i]) /\ Dep(e) <= t.sorted[i][2]  BY <3>2, <4>1 DEF IsCommit
      <4>4. QED  BY <3>1, <4>2, <4>3
    <3>3. QED  BY <1>25, <3>1, <3>2
  <2>3. QED  BY <2>1, <2>2
<1>30. Clocked(t, base)  BY <1>24, <1>25, <1>26, <1>28, <1>29 DEF Clocked
<1>31. QED  BY <1>22, <1>23, <1>30 DEF Result

-----------------------------------------------------------------------------
(* The inductive invariant *)

(* A page is large enough for everything. *)
WholePages == Cardinality(All \X (1..Max({MaxCommits, MaxMessages}))) <= Page

(* The originators of which nothing is skipped, and the commits until the   *)
(* resolver has been asked.                                                 *)
Whole == IF Monotone /\ WholePages THEN Origs ELSE {}
First == IF used.resolved THEN {} ELSE {Mls}

(* What the list holds comes after what it depends on. *)
Met(list, base) ==
  \A k \in 1..Len(list) :
    \/ Dep(list[k]) <= base
    \/ \E i \in 1..k - 1 : IsCommit(list[i]) /\ Dep(list[k]) <= list[i][2]

(* The state of the loop that made the job. *)
Pass(j) == [sorted |-> j.envelopes, rest |-> << >>, missed |-> j.missing, clock |-> j.clock]

(* The list under way, and what a resolution starts from. *)
JobInv ==
  /\ Met(job.envelopes, cursor[Mls]) /\ NoGap(job.envelopes, Whole \union First, cursor)
  /\ job.phase = "resolve" =>
       job.missing # << >> /\ job.clock \in Clock /\ Clocked(Pass(job), cursor)

(* What has been processed. *)
DoneInv ==
  /\ \A s \in 1..cursor[Mls] : Covered(s, ToSet(done))
  /\ \A o \in Whole : \A s \in 1..cursor[o] : <<o, s>> \in ToSet(done)
  /\ InCausalOrder

(* What the subscription has handed out. *)
StreamInv ==
  /\ stream.clock[Mls] = stream.at[Mls]
  /\ \A s \in stream.base[Mls] + 1..stream.at[Mls] : In(<<Mls, s>>, stream.out)
  /\ StreamCausal

(* Before the first sync the icebox keeps what the subscription could not   *)
(* hand out.                                                                *)
Kept0(o, s) == <<o, s>> \in icebox /\ Dep(<<o, s>>) > stream.at[Mls]
FreshInv ==
  used.syncs = 0 =>
    /\ job.phase = "idle" /\ \A o \in All : cursor[o] = 0
    /\ stream.open => \A o \in All : \A s \in stream.base[o] + 1..stream.at[o] :
         In(<<o, s>>, stream.out) \/ Kept0(o, s)

(* The inductive invariant. *)
OrderInv ==
  TypeOK /\ Network /\ Iced /\ JobInv /\ DoneInv /\ StreamInv /\ FreshInv

(* The types of what the readers keep. *)
LEMMA JobTypes ==
  ASSUME TypeOK
  PROVE  /\ job.envelopes \in Seq(Held) /\ job.missing \in Seq(Held)
         /\ job.phase \in {"idle", "resolve", "process"} /\ job.rounds \in Nat
         /\ stream.base \in Clock /\ stream.clock \in Clock /\ stream.at \in Clock
         /\ stream.out \in Seq(Held) /\ stream.open \in BOOLEAN
         /\ used.syncs \in Nat /\ used.resolved \in BOOLEAN /\ used.streams \in Nat
         /\ cursor \in Clock /\ node \in Clock /\ done \in Seq(Held)
  BY DEF TypeOK

(* What precedes an envelope of the node is on the node. *)
LEMMA SmallerFacts ==
  ASSUME TypeOK, Network, NEW e \in Held, NEW base \in Clock, NEW d \in Smaller(e, base)
  PROVE  /\ d \in Held /\ d[1] = e[1] /\ d = <<e[1], d[2]>>
         /\ d[2] \in Nat \ {0} /\ base[e[1]] < d[2] /\ d[2] < e[2]
<1>1. e[1] \in All /\ e[2] \in Nat /\ e[2] <= node[e[1]]  BY HeldFacts
<1>2. PICK low \in Nat, n \in Nat, top \in Nat :
        low = base[e[1]] /\ n = node[e[1]] /\ top = e[2] /\ top <= n
  BY <1>1 DEF Clock, TypeOK
<1>3. PICK x \in low + 1..top - 1 : d = <<e[1], x>>  BY <1>2 DEF Smaller
<1>4. x \in Nat /\ x > 0 /\ low < x /\ x < top /\ x <= n  BY <1>2, <1>3
<1>5. d[1] = e[1] /\ d[2] = x /\ x \in Nat \ {0}  BY <1>3, <1>4
<1>6. d \in Envelope  BY <1>1, <1>3, <1>5 DEF Envelope
<1>7. d \in Held  BY <1>2, <1>4, <1>5, <1>6 DEF Held
<1>8. QED  BY <1>2, <1>3, <1>4, <1>5, <1>7

(* The originators of which nothing is skipped are all those of messages    *)
(* or none.                                                                 *)
LEMMA WholeFacts ==
  /\ Whole \subseteq Origs /\ Whole \subseteq All /\ Mls \notin Whole
  /\ Monotone \/ Whole = {}
  /\ Whole # {} => WholePages /\ Whole = Origs
  BY Naturals DEF Whole

(* What the readers know holds still when the network moves on: envelopes   *)
(* do not change.                                                           *)
LEMMA SameDeps ==
  ASSUME OrderInv, UNCHANGED <<cursor, icebox, done, job, stream, used>>,
         \A e \in Held : Dep(e)' = Dep(e)
  PROVE  JobInv' /\ DoneInv' /\ StreamInv' /\ FreshInv'
<1>1. TypeOK /\ Iced /\ JobInv /\ DoneInv /\ StreamInv /\ FreshInv  BY DEF OrderInv
<1>2. /\ \A k \in 1..Len(job.envelopes) : job.envelopes[k] \in Held
      /\ \A k \in 1..Len(job.missing) : job.missing[k] \in Held
      /\ \A k \in 1..Len(done) : done[k] \in Held
      /\ \A k \in 1..Len(stream.out) : stream.out[k] \in Held
  BY <1>1, JobTypes
<1>3. /\ DOMAIN done = 1..Len(done) /\ DOMAIN stream.out = 1..Len(stream.out)
  BY <1>1, JobTypes
<1>4. Met(job.envelopes, cursor[Mls])'
  <2>1. Met(job.envelopes, cursor[Mls])  BY <1>1 DEF JobInv
  <2>2. QED  BY <1>2, <2>1 DEF Met, IsCommit
<1>5. (job.phase = "resolve" => Clocked(Pass(job), cursor))'
  <2>1. ASSUME job.phase = "resolve" PROVE Clocked(Pass(job), cursor)'
    <3>1. Clocked(Pass(job), cursor)  BY <1>1, <2>1 DEF JobInv
    <3>0. PICK s : s = Pass(job)  OBVIOUS
    <3>2. s = Pass(job) /\ s.sorted = job.envelopes /\ s.missed = job.missing
      BY <3>0 DEF Pass
    <3>3. s = Pass(job)'  BY <3>2 DEF Pass
    <3>4. /\ \A o \in All : cursor[o] <= s.clock[o]
          /\ s.clock[Mls] = cursor[Mls] \/ In(<<Mls, s.clock[Mls]>>, s.sorted)
      BY <3>1, <3>2 DEF Clocked
    <3>5. ASSUME NEW k \in 1..Len(s.sorted)
          PROVE  LET e == s.sorted[k]
                 IN /\ Dep(e)' <= s.clock[Mls] /\ e[2] <= s.clock[e[1]]
                    /\ \/ Dep(e)' <= cursor[Mls]
                       \/ \E i \in 1..k - 1 : IsCommit(s.sorted[i]) /\ Dep(e)' <= s.sorted[i][2]
      <4>1. PICK e \in Held : e = s.sorted[k]  BY <1>2, <3>2
      <4>2. Dep(e)' = Dep(e)  BY <4>1
      <4>3. /\ Dep(e) <= s.clock[Mls] /\ e[2] <= s.clock[e[1]]
            /\ \/ Dep(e) <= cursor[Mls]
               \/ \E i \in 1..k - 1 : IsCommit(s.sorted[i]) /\ Dep(e) <= s.sorted[i][2]
        BY <3>1, <3>2, <4>1 DEF Clocked, Dominates
      <4>4. QED  BY <4>1, <4>2, <4>3
    <3>6. ASSUME NEW k \in 1..Len(s.missed) PROVE ~(Dep(s.missed[k])' <= s.clock[Mls])
      <4>1. PICK e \in Held : e = s.missed[k]  BY <1>2, <3>2
      <4>2. Dep(e)' = Dep(e)  BY <4>1
      <4>3. ~(Dep(e) <= s.clock[Mls])  BY <3>1, <3>2, <4>1 DEF Clocked, Dominates
      <4>4. QED  BY <4>1, <4>2, <4>3
    <3>7. QED  BY <3>3, <3>4, <3>5, <3>6 DEF Clocked, Dominates, IsCommit
  <2>2. QED  BY <2>1
<1>6. JobInv'  BY <1>1, <1>4, <1>5 DEF JobInv, NoGap, Smaller, Whole, First
<1>7. DoneInv'
  <2>1. InCausalOrder'  BY <1>1, <1>2, <1>3 DEF DoneInv, InCausalOrder, Covered, IsCommit
  <2>2. QED  BY <1>1, <2>1 DEF DoneInv, Covered, IsCommit, Whole
<1>8. StreamInv'
  <2>1. StreamCausal'  BY <1>1, <1>2, <1>3 DEF StreamInv, StreamCausal
  <2>2. QED  BY <1>1, <2>1 DEF StreamInv
<1>9. FreshInv'
  <2>1. \A o, s : Kept0(o, s) => Kept0(o, s)'  BY <1>1 DEF Kept0, Iced
  <2>2. QED  BY <1>1, <2>1 DEF FreshInv
<1>10. QED  BY <1>6, <1>7, <1>8, <1>9

-----------------------------------------------------------------------------
(* The steps of the network and of the subscription's start *)

(* The invariant holds of the initial state. *)
LEMMA InitOrder == Init => OrderInv
<1> SUFFICES ASSUME Init PROVE OrderInv  OBVIOUS
<1> USE DEF Init
<1>1. \A o \in All : log[o] = << >> /\ node[o] = 0 /\ cursor[o] = 0  OBVIOUS
<1>2. /\ job = [phase |-> "idle", envelopes |-> << >>, missing |-> << >>, clock |-> << >>, rounds |-> 0]
      /\ done = << >> /\ icebox = {} /\ cursor \in Clock /\ node \in Clock
      /\ stream = [open |-> FALSE, base |-> cursor, clock |-> cursor, at |-> cursor, out |-> << >>]
      /\ used = [syncs |-> 0, streams |-> 0, resolved |-> FALSE]
  BY DEF Idle, Clock
<1>3. TypeOK
  <2>1. log \in [All -> Seq(Entry)]  OBVIOUS
  <2>2. job \in [phase : {"idle", "resolve", "process"}, envelopes : Seq(Held),
                 missing : Seq(Held), clock : Clock \union {<< >>}, rounds : Nat]
    BY <1>2
  <2>3. stream \in [open : BOOLEAN, base : Clock, clock : Clock, at : Clock, out : Seq(Held)]
    BY <1>2
  <2>4. used \in [syncs : Nat, streams : Nat, resolved : BOOLEAN]  BY <1>2
  <2>5. done \in Seq(Held)  BY <1>2
  <2>6. QED  BY <1>2, <2>1, <2>2, <2>3, <2>4, <2>5 DEF TypeOK
<1>4. Network
  <2>1. \A o \in All : Bound(o) \in Nat  BY Naturals DEF Bound
  <2>2. \A o \in All : Len(log[o]) = 0 /\ \A k \in 1..0 : FALSE  BY <1>1
  <2>3. \A o \in All : stream.base[o] = 0 /\ stream.at[o] = 0  BY <1>1, <1>2
  <2>4. QED  BY <1>1, <2>1, <2>2, <2>3 DEF Network
<1>5. Iced  BY <1>2 DEF Iced
<1>6. \A k \in 1..0 : FALSE  OBVIOUS
<1>7. JobInv
  <2>1. Len(job.envelopes) = 0 /\ job.phase = "idle"  BY <1>2
  <2>2. QED  BY <1>6, <2>1 DEF JobInv, Met, NoGap
<1>8. DoneInv
  <2>1. Whole \subseteq All /\ Mls \in All  BY WholeFacts, Naturals
  <2>2. DOMAIN done = {}  BY <1>2
  <2>3. QED  BY <1>1, <1>6, <2>1, <2>2 DEF DoneInv, InCausalOrder
<1>9. StreamInv
  <2>1. Mls \in All  BY Naturals
  <2>2. /\ stream.clock[Mls] = 0 /\ stream.at[Mls] = 0 /\ stream.base[Mls] = 0
        /\ DOMAIN stream.out = {} /\ \A s \in 0 + 1..0 : FALSE
    BY <1>1, <1>2, <2>1
  <2>3. QED  BY <2>2 DEF StreamInv, StreamCausal
<1>10. FreshInv  BY <1>1, <1>2 DEF FreshInv
<1>11. QED  BY <1>3, <1>4, <1>5, <1>7, <1>8, <1>9, <1>10 DEF OrderInv

(* An originator that sequences an envelope keeps the invariant. *)
LEMMA PublishOrder ==
  ASSUME OrderInv, NEW o \in All, Publish(o)
  PROVE  OrderInv'
<1>1. TypeOK /\ Network /\ Iced  BY DEF OrderInv
<1>2. /\ log[o] \in Seq(Entry) /\ log[Mls] \in Seq(Entry) /\ Mls \in All
      /\ \A x \in All : log[x] \in Seq(Entry) /\ Len(log[x]) \in Nat
  BY <1>1, Naturals DEF TypeOK
<1>3. PICK n \in Nat, m \in Nat : n = Len(log[o]) /\ m = Len(log[Mls])  BY <1>2
<1>4. PICK dep \in 0..m, time \in 1..MaxTime :
        /\ time > LastOf(o, LAMBDA e : e.time, 0)
        /\ Monotone => dep >= LastOf(o, LAMBDA e : e.dep, 0)
        /\ log' = [log EXCEPT ![o] = Append(@, [dep |-> dep, time |-> time])]
  BY <1>3 DEF Publish
<1>5. PICK new \in Entry : new = [dep |-> dep, time |-> time]
  <2>1. dep \in Nat /\ time \in Nat  BY <1>3, Naturals
  <2>2. [dep |-> dep, time |-> time] \in Entry  BY <2>1 DEF Entry
  <2>3. QED  BY <2>2
<1>6. new.dep = dep /\ new.time = time /\ dep \in Nat /\ dep <= m /\ time \in Nat /\ time > 0
  BY <1>3, <1>5, Naturals
<1>7. UNCHANGED <<node, cursor, icebox, done, job, stream, used>> /\ n < Bound(o)
  BY <1>3 DEF Publish
<1>8. /\ log' \in [All -> Seq(Entry)] /\ \A x \in All \ {o} : log'[x] = log[x]
      /\ log'[o] \in Seq(Entry) /\ Len(log'[o]) = n + 1 /\ log'[o][n + 1] = new
      /\ \A k \in 1..n : log'[o][k] = log[o][k]
  <2>1. log' = [log EXCEPT ![o] = Append(@, new)]  BY <1>4, <1>5
  <2>2. PICK l \in Seq(Entry) : l = log[o] /\ n = Len(l)  BY <1>2, <1>3
  <2>3. PICK t : t = Append(l, new)  OBVIOUS
  <2>4. t \in Seq(Entry) /\ Len(t) = n + 1 /\ t[n + 1] = new /\ \A k \in 1..n : t[k] = l[k]
    BY <2>2, <2>3
  <2>5. log' = [log EXCEPT ![o] = t]  BY <2>1, <2>2, <2>3
  <2>6. log'[o] = t /\ \A x \in All \ {o} : log'[x] = log[x]  BY <1>1, <2>5 DEF TypeOK
  <2>7. log' \in [All -> Seq(Entry)]  BY <1>1, <2>4, <2>5 DEF TypeOK
  <2>8. QED  BY <2>2, <2>4, <2>6, <2>7
<1>9. \A x \in All : \A k \in 1..Len(log[x]) : log'[x][k] = log[x][k]
  BY <1>3, <1>8
<1>10. Held' = Held  BY <1>7 DEF Held
<1>11. \A e \in Held : Dep(e)' = Dep(e)
  <2>1. ASSUME NEW e \in Held PROVE Dep(e)' = Dep(e)
    <3>1. e[1] \in All /\ e[2] \in 1..Len(log[e[1]])  BY <1>1, HeldFacts
    <3>2. QED  BY <1>9, <3>1 DEF Dep
  <2>2. QED  BY <2>1
<1>12. TypeOK'  BY <1>1, <1>7, <1>8, <1>10 DEF TypeOK
<1>13. Iced'  BY <1>1, <1>7, <1>10 DEF Iced, IsCommit
<1>14. n > 0 => log[o][n].time < time /\ (Monotone => log[o][n].dep <= dep)
  <2>1. ASSUME n > 0 PROVE log[o][n].time < time /\ (Monotone => log[o][n].dep <= dep)
    <3>1. log[o] # << >> /\ n \in 1..n  BY <1>3, <2>1
    <3>2. log[o][n] \in Entry  BY <1>2, <1>3, <3>1
    <3>3. log[o][n].time \in Nat /\ log[o][n].dep \in Nat  BY <3>2 DEF Entry
    <3>4. Last(log[o]) = log[o][n]  BY <1>3 DEF Last
    <3>5. time > log[o][n].time  BY <1>4, <3>1, <3>4 DEF LastOf
    <3>6. Monotone => dep >= log[o][n].dep  BY <1>4, <3>1, <3>4 DEF LastOf
    <3>7. QED  BY <1>6, <3>3, <3>5, <3>6
  <2>2. QED  BY <2>1
<1>15. /\ \A x \in All :
            /\ cursor[x] <= node[x] /\ node[x] <= Len(log[x]) /\ Len(log[x]) <= Bound(x)
            /\ stream.base[x] <= stream.at[x] /\ stream.at[x] <= node[x]
       /\ \A x \in All : \A k \in 1..Len(log[x]) :
            /\ log[x][k].dep <= Len(log[Mls]) /\ (x = Mls => log[x][k].dep < k)
            /\ \A i \in 1..k - 1 :
                 log[x][i].time < log[x][k].time /\ (Monotone => log[x][i].dep <= log[x][k].dep)
  BY <1>1 DEF Network
<1>16. m <= Len(log'[Mls]) /\ Len(log'[Mls]) \in Nat
  <2>1. CASE o = Mls  BY <1>3, <1>8, <2>1
  <2>2. CASE o # Mls  BY <1>2, <1>3, <1>8, <2>2
  <2>3. QED  BY <2>1, <2>2
<1>17. \A x \in All : \A k \in 1..Len(log[x]) : log[x][k].dep \in Nat /\ log[x][k].time \in Nat
  <2>1. \A x \in All : \A k \in 1..Len(log[x]) : log[x][k] \in Entry  BY <1>2
  <2>2. QED  BY <2>1 DEF Entry
<1>18. ASSUME NEW x \in All, NEW k \in 1..Len(log[x])
       PROVE  /\ log'[x][k].dep <= Len(log'[Mls]) /\ (x = Mls => log'[x][k].dep < k)
              /\ \A i \in 1..k - 1 :
                   log'[x][i].time < log'[x][k].time /\ (Monotone => log'[x][i].dep <= log'[x][k].dep)
  <2>1. log'[x][k] = log[x][k]  BY <1>9
  <2>2. \A i \in 1..k - 1 : i \in 1..Len(log[x])  BY <1>2
  <2>3. \A i \in 1..k - 1 : log'[x][i] = log[x][i]  BY <1>9, <2>2
  <2>4. log[x][k].dep \in Nat /\ log[x][k].dep <= m  BY <1>3, <1>15, <1>17
  <2>5. log[x][k].dep <= Len(log'[Mls])  BY <1>16, <2>4
  <2>6. QED  BY <1>15, <2>1, <2>3, <2>5
<1>19. /\ new.dep <= Len(log'[Mls]) /\ (o = Mls => new.dep < n + 1)
       /\ \A i \in 1..n :
            log'[o][i].time < new.time /\ (Monotone => log'[o][i].dep <= new.dep)
  <2>1. new.dep <= Len(log'[Mls])  BY <1>6, <1>16
  <2>2. o = Mls => new.dep < n + 1  BY <1>3, <1>6
  <2>3. ASSUME NEW i \in 1..n
        PROVE  log'[o][i].time < new.time /\ (Monotone => log'[o][i].dep <= new.dep)
    <3>1. log'[o][i] = log[o][i] /\ n > 0 /\ n \in 1..n  BY <1>8
    <3>2. CASE i = n  BY <1>6, <1>14, <3>1, <3>2
    <3>3. CASE i # n
      <4>1. i \in 1..n - 1  BY <3>3
      <4>2. log[o][i].time < log[o][n].time /\ (Monotone => log[o][i].dep <= log[o][n].dep)
        BY <1>3, <1>15, <3>1, <4>1
      <4>3. /\ log[o][i].time \in Nat /\ log[o][n].time \in Nat
            /\ log[o][i].dep \in Nat /\ log[o][n].dep \in Nat
        BY <1>3, <1>17, <3>1
      <4>4. QED  BY <1>6, <1>14, <3>1, <4>2, <4>3
    <3>4. QED  BY <3>2, <3>3
  <2>4. QED  BY <2>1, <2>2, <2>3
<1>20. ASSUME NEW x \in All, NEW k \in 1..Len(log'[x])
       PROVE  /\ log'[x][k].dep <= Len(log'[Mls]) /\ (x = Mls => log'[x][k].dep < k)
              /\ \A i \in 1..k - 1 :
                   log'[x][i].time < log'[x][k].time /\ (Monotone => log'[x][i].dep <= log'[x][k].dep)
  <2>1. CASE k \in 1..Len(log[x])  BY <1>18, <2>1
  <2>2. CASE k \notin 1..Len(log[x])
    <3>1. x = o
      <4>1. x # o => Len(log'[x]) = Len(log[x])  BY <1>8
      <4>2. QED  BY <2>2, <4>1
    <3>2. k = n + 1 /\ k - 1 = n  BY <1>3, <1>8, <2>2, <3>1
    <3>3. QED  BY <1>8, <1>19, <3>1, <3>2
  <2>3. QED  BY <2>1, <2>2
<1>21. ASSUME NEW x \in All PROVE node[x] <= Len(log'[x]) /\ Len(log'[x]) <= Bound(x)
  <2>1. CASE x = o
    <3>1. node[x] \in Nat /\ node[x] <= n  BY <1>1, <1>3, <1>15, <2>1 DEF TypeOK, Clock
    <3>2. Bound(o) \in Nat  BY Naturals DEF Bound
    <3>3. QED  BY <1>7, <1>8, <2>1, <3>1, <3>2
  <2>2. CASE x # o  BY <1>8, <1>15, <2>2
  <2>3. QED  BY <2>1, <2>2
<1>22. Network'  BY <1>7, <1>15, <1>20, <1>21 DEF Network, Bound
<1>23. JobInv' /\ DoneInv' /\ StreamInv' /\ FreshInv'  BY <1>7, <1>11, SameDeps
<1>24. QED  BY <1>12, <1>13, <1>22, <1>23 DEF OrderInv

(* A list in a set is one in a larger set. *)
LEMMA MoreHeld ==
  ASSUME NEW S, NEW T, S \subseteq T
  PROVE  \A s \in Seq(S) : s \in Seq(T)
  OBVIOUS

(* An envelope that reaches the node keeps the invariant. *)
LEMMA ReplicateOrder ==
  ASSUME OrderInv, NEW o \in All, Replicate(o)
  PROVE  OrderInv'
<1>1. TypeOK /\ Network /\ Iced  BY DEF OrderInv
<1>2. /\ node[o] < Len(log[o]) /\ node' = [node EXCEPT ![o] = @ + 1]
      /\ UNCHANGED <<log, cursor, icebox, done, job, stream, used>>
  BY DEF Replicate
<1>3. node \in Clock /\ node[o] \in Nat /\ log[o] \in Seq(Entry)  BY <1>1 DEF TypeOK, Clock
<1>4. /\ node' \in Clock /\ node'[o] = node[o] + 1
      /\ \A x \in All : node[x] <= node'[x]
      /\ \A x \in All \ {o} : node'[x] = node[x]
  BY <1>2, <1>3 DEF Clock
<1>5. Held \subseteq Held'
  <2>1. ASSUME NEW e \in Held PROVE e \in Held'
    <3>1. e \in Envelope /\ e[1] \in All /\ e[2] \in Nat /\ e[2] <= node[e[1]]
      BY DEF Held, Envelope
    <3>2. node[e[1]] \in Nat /\ node'[e[1]] \in Nat /\ node[e[1]] <= node'[e[1]]
      BY <1>3, <1>4, <3>1 DEF Clock
    <3>3. e[2] <= node'[e[1]]  BY <3>1, <3>2
    <3>4. QED  BY <3>1, <3>3 DEF Held, Envelope
  <2>2. QED  BY <2>1
<1>6. \A s \in Seq(Held) : s \in Seq(Held)'
  BY <1>5, MoreHeld
<1>7. TypeOK'
  <2>1. job' \in [phase : {"idle", "resolve", "process"}, envelopes : Seq(Held)',
                 missing : Seq(Held)', clock : Clock \union {<< >>}, rounds : Nat]
    BY <1>1, <1>2, <1>6 DEF TypeOK
  <2>2. stream' \in [open : BOOLEAN, base : Clock, clock : Clock, at : Clock, out : Seq(Held)']
    BY <1>1, <1>2, <1>6 DEF TypeOK
  <2>3. done' \in Seq(Held)'  BY <1>1, <1>2, <1>6 DEF TypeOK
  <2>4. QED  BY <1>1, <1>2, <1>4, <2>1, <2>2, <2>3 DEF TypeOK, Clock
<1>8. Iced'  BY <1>1, <1>2, <1>5 DEF Iced, IsCommit
<1>9. Network'
  <2>1. ASSUME NEW x \in All
        PROVE  cursor[x] <= node'[x] /\ node'[x] <= Len(log[x]) /\ stream.at[x] <= node'[x]
    <3>1. /\ cursor[x] \in Nat /\ node[x] \in Nat /\ node'[x] \in Nat /\ stream.at[x] \in Nat
          /\ Len(log[x]) \in Nat
      BY <1>1, <1>4 DEF TypeOK, Clock
    <3>2. cursor[x] <= node[x] /\ node[x] <= Len(log[x]) /\ stream.at[x] <= node[x]
      BY <1>1 DEF Network
    <3>3. QED  BY <1>2, <1>4, <3>1, <3>2
  <2>2. QED  BY <1>1, <1>2, <2>1 DEF Network, Bound
<1>10. \A e \in Held : Dep(e)' = Dep(e)  BY <1>2 DEF Dep
<1>11. JobInv' /\ DoneInv' /\ StreamInv' /\ FreshInv'  BY <1>2, <1>10, SameDeps
<1>12. QED  BY <1>7, <1>8, <1>9, <1>11 DEF OrderInv

(* A step that leaves the network alone leaves what the node has alone. *)
LEMMA NodeSame ==
  ASSUME UNCHANGED <<log, node>>
  PROVE  Held' = Held /\ \A e : Dep(e)' = Dep(e)
  BY DEF Held, Dep

(* A sync that ends or fails keeps the invariant: what it had not           *)
(* processed is queried again.                                              *)
LEMMA IdleOrder ==
  ASSUME OrderInv, job' = Idle, UNCHANGED <<log, node, cursor, icebox, done, stream, used>>
  PROVE  OrderInv'
<1>1. TypeOK /\ Network /\ Iced /\ JobInv /\ DoneInv /\ StreamInv /\ FreshInv  BY DEF OrderInv
<1>2. Held' = Held /\ \A e : Dep(e)' = Dep(e)  BY NodeSame
<1>3. job' = [phase |-> "idle", envelopes |-> << >>, missing |-> << >>, clock |-> << >>, rounds |-> 0]
  BY DEF Idle
<1>4. TypeOK'
  <2>1. job' \in [phase : {"idle", "resolve", "process"}, envelopes : Seq(Held),
                 missing : Seq(Held), clock : Clock \union {<< >>}, rounds : Nat]
    BY <1>3
  <2>2. QED  BY <1>1, <1>2, <2>1 DEF TypeOK
<1>5. Network'  BY <1>1 DEF Network, Bound
<1>6. Iced'  BY <1>1, <1>2 DEF Iced, IsCommit
<1>7. JobInv'
  <2>1. job'.envelopes = << >> /\ job'.phase = "idle"  BY <1>3
  <2>2. Len(job'.envelopes) = 0 /\ \A k \in 1..0 : FALSE  BY <2>1
  <2>3. Met(job.envelopes, cursor[Mls])'  BY <2>2 DEF Met
  <2>4. NoGap(job.envelopes, Whole \union First, cursor)'  BY <2>2 DEF NoGap
  <2>5. QED  BY <2>1, <2>3, <2>4 DEF JobInv
<1>8. DoneInv'  BY <1>1, <1>2 DEF DoneInv, InCausalOrder, Covered, IsCommit, Whole
<1>9. StreamInv'  BY <1>1, <1>2 DEF StreamInv, StreamCausal
<1>10. FreshInv'  BY <1>1, <1>2, <1>3 DEF FreshInv, Kept0
<1>11. QED  BY <1>4, <1>5, <1>6, <1>7, <1>8, <1>9, <1>10 DEF OrderInv

(* A subscription that starts from the cursors keeps the invariant. *)
LEMMA SubscribeOrder ==
  ASSUME OrderInv, Subscribe
  PROVE  OrderInv'
<1>1. TypeOK /\ Network /\ Iced /\ JobInv /\ DoneInv /\ StreamInv /\ FreshInv  BY DEF OrderInv
<1>2. /\ UNCHANGED <<log, node, cursor, icebox, done, job>>
      /\ used' = [used EXCEPT !.streams = @ + 1]
      /\ stream' = [open |-> TRUE, base |-> cursor, clock |-> cursor, at |-> cursor, out |-> << >>]
  BY DEF Subscribe
<1>3. Held' = Held /\ \A e : Dep(e)' = Dep(e)  BY <1>2, NodeSame
<1>4. used' \in [syncs : Nat, streams : Nat, resolved : BOOLEAN]
      /\ used'.syncs = used.syncs /\ used'.resolved = used.resolved
  <2>1. used \in [syncs : Nat, streams : Nat, resolved : BOOLEAN]  BY <1>1 DEF TypeOK
  <2>2. QED  BY <1>2, <2>1
<1>5. /\ stream'.open = TRUE /\ stream'.base = cursor /\ stream'.clock = cursor
      /\ stream'.at = cursor /\ stream'.out = << >> /\ cursor \in Clock
      /\ \A o \in All : cursor[o] \in Nat
  BY <1>1, <1>2 DEF TypeOK, Clock
<1>6. TypeOK'
  <2>1. stream' \in [open : BOOLEAN, base : Clock, clock : Clock, at : Clock, out : Seq(Held)]
    BY <1>2, <1>5
  <2>2. QED  BY <1>1, <1>2, <1>3, <1>4, <2>1 DEF TypeOK
<1>7. Network'  BY <1>1, <1>2, <1>5 DEF Network, Bound
<1>8. Iced'  BY <1>1, <1>2, <1>3 DEF Iced, IsCommit
<1>9. JobInv'
  <2>1. Whole' = Whole /\ First' = First  BY <1>4 DEF Whole, First
  <2>2. Met(job.envelopes, cursor[Mls])'
    <3>1. Met(job.envelopes, cursor[Mls])  BY <1>1 DEF JobInv
    <3>2. QED  BY <1>2, <1>3, <3>1 DEF Met, IsCommit
  <2>3. NoGap(job.envelopes, Whole \union First, cursor)'
    BY <1>1, <1>2, <2>1 DEF JobInv, NoGap, Smaller
  <2>4. (job.phase = "resolve" => job.missing # << >> /\ job.clock \in Clock
           /\ Clocked(Pass(job), cursor))'
    BY <1>1, <1>2, <1>3 DEF JobInv, Clocked, Pass, Dominates, IsCommit
  <2>5. QED  BY <2>2, <2>3, <2>4 DEF JobInv
<1>10. DoneInv'
  <2>1. \A c, P : Covered(c, P)' = Covered(c, P)  BY <1>4 DEF Covered, IsCommit
  <2>2. Whole' = Whole  BY DEF Whole
  <2>3. InCausalOrder'  BY <1>1, <1>2, <1>3, <1>4 DEF DoneInv, InCausalOrder, Covered, IsCommit
  <2>4. QED  BY <1>1, <1>2, <1>4, <2>2, <2>3 DEF DoneInv, Covered, IsCommit
<1>11. StreamInv'
  <2>1. cursor[Mls] \in Nat  BY <1>5, Naturals
  <2>2. DOMAIN stream'.out = {} /\ \A s \in cursor[Mls] + 1..cursor[Mls] : FALSE
    BY <1>5, <2>1
  <2>3. QED  BY <1>5, <2>2 DEF StreamInv, StreamCausal
<1>12. FreshInv'
  <2>1. \A o \in All : \A s \in cursor[o] + 1..cursor[o] : FALSE  BY <1>5
  <2>2. QED  BY <1>1, <1>2, <1>4, <1>5, <2>1 DEF FreshInv
<1>13. QED  BY <1>6, <1>7, <1>8, <1>9, <1>10, <1>11, <1>12 DEF OrderInv

-----------------------------------------------------------------------------
(* The steps of the sync *)

(* recover_lost_children finds what is in the icebox. *)
LEMMA LostChildrenIced == \A E : LostChildren(E) \subseteq icebox
  BY DEF LostChildren, FutureDependents

(* A page that is large enough holds everything past the cursors. *)
LEMMA WholePage ==
  ASSUME TypeOK, Network, WholePages, NEW P \in Pages
  PROVE  P = After(cursor)
<1>1. PICK rest : rest = After(cursor)  OBVIOUS
<1>2. P \in SUBSET rest /\ Cardinality(P) = Min({Page, Cardinality(rest)})
  BY <1>1 DEF Pages
<1>3. PICK X : X = All \X (1..Max({MaxCommits, MaxMessages}))  OBVIOUS
<1>4. Held \subseteq X /\ IsFiniteSet(X)  BY <1>3, HeldFinite
<1>5. rest \subseteq Held  BY <1>1, AfterFacts DEF TypeOK
<1>6. IsFiniteSet(rest) /\ Cardinality(rest) <= Cardinality(X)
  BY <1>4, <1>5, FS_Subset
<1>7. Cardinality(rest) \in Nat /\ Cardinality(X) \in Nat  BY <1>4, <1>6, FS_CardinalityType
<1>8. Cardinality(X) <= Page /\ Page \in Nat  BY <1>3, Naturals DEF WholePages
<1>9. Min({Page, Cardinality(rest)}) = Cardinality(rest)
  <2>1. PICK n \in Nat : n = Cardinality(rest) /\ n <= Page  BY <1>6, <1>7, <1>8
  <2>2. n \in {Page, n} /\ \A y \in {Page, n} : n <= y  BY <1>8, <2>1
  <2>3. \A x \in {Page, n} : (\A y \in {Page, n} : x <= y) => x = n  BY <1>8, <2>1
  <2>4. Min({Page, n}) = n  BY <2>2, <2>3 DEF Min
  <2>5. QED  BY <2>1, <2>4
<1>10. QED  BY <1>1, <1>2, <1>6, <1>9, FS_Subset

(* A pass over what the node has makes the list to process: it comes after  *)
(* what it depends on, without a gap.                                       *)
LEMMA PassedJob ==
  ASSUME OrderInv, UNCHANGED <<log, node, cursor, done, stream>>,
         icebox' = icebox, used'.syncs \in Nat \ {0},
         used' \in [syncs : Nat, streams : Nat, resolved : BOOLEAN],
         used'.resolved = used.resolved \/ used'.resolved = TRUE,
         NEW E \in SUBSET Held, NEW s, NEW O, Whole \subseteq O,
         Result(s, E, cursor, O, cursor), used'.resolved \/ Mls \in O,
         NEW r \in Nat,
         job' = [phase |-> Sorted(s), envelopes |-> s.sorted, missing |-> s.missed,
                 clock |-> s.clock, rounds |-> r]
  PROVE  OrderInv'
<1>1. TypeOK /\ Network /\ Iced /\ JobInv /\ DoneInv /\ StreamInv /\ FreshInv  BY DEF OrderInv
<1>2. Held' = Held /\ \A e : Dep(e)' = Dep(e)  BY NodeSame
<1>3. /\ s.sorted \in Seq(E) /\ s.missed \in Seq(E) /\ s.clock \in Clock
      /\ Clocked(s, cursor) /\ NoGap(s.sorted, O, cursor)
  BY DEF Result
<1>4. s.sorted \in Seq(Held) /\ s.missed \in Seq(Held)  BY <1>3, MoreHeld
<1>5. /\ job'.phase = Sorted(s) /\ job'.envelopes = s.sorted /\ job'.missing = s.missed
      /\ job'.clock = s.clock
  OBVIOUS
<1>6. Sorted(s) \in {"idle", "resolve", "process"} /\ (Sorted(s) = "resolve" => s.missed # << >>)
  BY DEF Sorted
<1>7. TypeOK'
  <2>1. job' \in [phase : {"idle", "resolve", "process"}, envelopes : Seq(Held),
                 missing : Seq(Held), clock : Clock \union {<< >>}, rounds : Nat]
    BY <1>3, <1>4, <1>6
  <2>2. QED  BY <1>1, <1>2, <2>1 DEF TypeOK
<1>8. Network'  BY <1>1 DEF Network, Bound
<1>9. Iced'  BY <1>1, <1>2 DEF Iced, IsCommit
<1>10. JobInv'
  <2>1. Met(s.sorted, cursor[Mls])  BY <1>3 DEF Met, Clocked
  <2>2. Met(job.envelopes, cursor[Mls])'  BY <1>2, <1>5, <2>1 DEF Met, IsCommit
  <2>3. Whole' = Whole /\ First' \subseteq O  BY DEF Whole, First
  <2>4. NoGap(job.envelopes, Whole \union First, cursor)'
    BY <1>3, <1>5, <2>3 DEF NoGap, Smaller
  <2>5. Clocked(Pass(job), cursor)'
    <3>1. PICK u : u = [sorted |-> s.sorted, rest |-> << >>, missed |-> s.missed, clock |-> s.clock]
      OBVIOUS
    <3>2. u = Pass(job)' /\ u.sorted = s.sorted /\ u.missed = s.missed /\ u.clock = s.clock
      BY <1>5, <3>1 DEF Pass
    <3>3. Clocked(s, cursor)'  BY <1>2, <1>3 DEF Clocked, Dominates, IsCommit
    <3>4. QED  BY <3>2, <3>3 DEF Clocked, Dominates, IsCommit
  <2>6. QED  BY <1>3, <1>5, <1>6, <2>2, <2>4, <2>5 DEF JobInv
<1>11. DoneInv'
  <2>2. Whole' = Whole  BY DEF Whole
  <2>3. InCausalOrder'
    <3>1. \A k \in DOMAIN done : Dep(done[k]) = 0
            \/ Covered(Dep(done[k]), ToSet(SubSeq(done, 1, k - 1)))
      BY <1>1 DEF DoneInv, InCausalOrder
    <3>2. ASSUME NEW k \in DOMAIN done
          PROVE  Dep(done[k])' = 0 \/ Covered(Dep(done[k]), ToSet(SubSeq(done, 1, k - 1)))'
      <4>1. PICK d, P : d = Dep(done[k]) /\ P = ToSet(SubSeq(done, 1, k - 1))  OBVIOUS
      <4>2. Dep(done[k])' = d /\ P = ToSet(SubSeq(done, 1, k - 1))'  BY <1>2, <4>1
      <4>3. d = 0 \/ Covered(d, P)  BY <3>1, <4>1
      <4>4. Covered(d, P) => \E e \in P : IsCommit(e) /\ (e[2] = d \/ (used'.resolved /\ e[2] > d))
        BY DEF Covered
      <4>5. QED  BY <4>2, <4>3, <4>4 DEF Covered, IsCommit
    <3>3. QED  BY <3>2 DEF InCausalOrder
  <2>4. \A x \in 1..cursor[Mls] : Covered(x, ToSet(done))'
    <3>1. \A x \in 1..cursor[Mls] : Covered(x, ToSet(done))  BY <1>1 DEF DoneInv
    <3>2. QED  BY <3>1 DEF Covered, IsCommit
  <2>5. QED  BY <1>1, <2>2, <2>3, <2>4 DEF DoneInv
<1>12. StreamInv'  BY <1>1, <1>2 DEF StreamInv, StreamCausal
<1>13. FreshInv'  BY DEF FreshInv
<1>14. QED  BY <1>7, <1>8, <1>9, <1>10, <1>11, <1>12, <1>13 DEF OrderInv

(* The query of a sync and its first pass keep the invariant. *)
LEMMA SyncQueryOrder ==
  ASSUME OrderInv, SyncQuery
  PROVE  OrderInv'
<1>1. TypeOK /\ Network /\ Iced  BY DEF OrderInv
<1>2a. PICK P \in Pages : \E list \in TimestampSort(P \union LostChildren(P)) :
        job' = [Idle EXCEPT !.phase = Sorted(Causal(list, cursor)),
                            !.envelopes = Causal(list, cursor).sorted,
                            !.missing = Causal(list, cursor).missed,
                            !.clock = Causal(list, cursor).clock]
  BY DEF SyncQuery
<1>2. PICK list \in TimestampSort(P \union LostChildren(P)) :
        job' = [Idle EXCEPT !.phase = Sorted(Causal(list, cursor)),
                            !.envelopes = Causal(list, cursor).sorted,
                            !.missing = Causal(list, cursor).missed,
                            !.clock = Causal(list, cursor).clock]
  BY <1>2a
<1>3. PICK s, E, O : /\ s = Causal(list, cursor) /\ E = P \union LostChildren(P)
                     /\ O = Whole \union {Mls}
  OBVIOUS
<1>4. job' = [phase |-> Sorted(s), envelopes |-> s.sorted, missing |-> s.missed,
              clock |-> s.clock, rounds |-> 0]
  BY <1>2, <1>3 DEF Idle
<1>5. P \subseteq After(cursor)
      /\ \A e \in P, d \in After(cursor) : d[1] = e[1] /\ d[2] < e[2] => d \in P
  BY DEF Pages
<1>6. cursor \in Clock /\ After(cursor) = {e \in Held : e[2] > cursor[e[1]]}
  BY <1>1, AfterFacts DEF TypeOK
<1>7. LostChildren(P) \subseteq icebox /\ icebox \subseteq Held /\ \A e \in icebox : ~IsCommit(e)
  BY <1>1, LostChildrenIced DEF Iced
<1>8. E \in SUBSET Held  BY <1>3, <1>5, <1>6, <1>7
<1>9. O \in SUBSET All /\ (Monotone \/ O \subseteq {Mls}) /\ Mls \in O /\ Whole \subseteq O
  BY <1>3, WholeFacts, Naturals
<1>10. ASSUME NEW e \in E, e[1] \in O, NEW d \in Smaller(e, cursor) PROVE d \in E
  <2>1. d \in Held /\ d[1] = e[1] /\ cursor[e[1]] < d[2] /\ d[2] < e[2] /\ d[2] \in Nat
    BY <1>1, <1>6, <1>8, <1>10, SmallerFacts
  <2>2. d \in After(cursor)
    <3>1. cursor[e[1]] \in Nat  BY <1>6, <1>8, HeldFacts, <1>1 DEF Clock
    <3>2. d[2] > cursor[d[1]]  BY <2>1, <3>1
    <3>3. QED  BY <1>6, <2>1, <3>2
  <2>3. CASE e[1] = Mls
    <3>1. e \in P  BY <1>3, <1>7, <1>10, <2>3 DEF IsCommit
    <3>2. QED  BY <1>3, <1>5, <2>1, <2>2, <3>1
  <2>4. CASE e[1] # Mls
    <3>1. WholePages  BY <1>3, <1>10, <2>4, WholeFacts
    <3>2. QED  BY <1>1, <1>3, <2>2, <3>1, WholePage
  <2>5. QED  BY <2>3, <2>4
<1>11. Result(s, E, cursor, O, cursor)
  <2>1. \A e \in E : e[1] \in O => Smaller(e, cursor) \subseteq E  BY <1>10
  <2>2. list \in TimestampSort(E) /\ cursor[Mls] <= cursor[Mls]
    BY <1>2, <1>3, <1>6, Naturals DEF Clock
  <2>3. Result(Causal(list, cursor), E, cursor, O, cursor)
    BY <1>1, <1>6, <1>8, <1>9, <2>1, <2>2, FirstPass
  <2>4. QED  BY <1>3, <2>3
<1>12. /\ UNCHANGED <<log, node, cursor, done, stream>> /\ icebox' = icebox
       /\ used' \in [syncs : Nat, streams : Nat, resolved : BOOLEAN]
       /\ used'.syncs \in Nat \ {0} /\ used'.resolved = used.resolved
  <2>1. used' = [used EXCEPT !.syncs = @ + 1]  BY DEF SyncQuery
  <2>2. used \in [syncs : Nat, streams : Nat, resolved : BOOLEAN]  BY <1>1 DEF TypeOK
  <2>3. used' \in [syncs : Nat, streams : Nat, resolved : BOOLEAN]
        /\ used'.syncs = used.syncs + 1 /\ used'.resolved = used.resolved
    BY <2>1, <2>2
  <2>4. used.syncs \in Nat /\ used.syncs + 1 # 0 /\ used.syncs + 1 \in Nat  BY <2>2
  <2>5. QED  BY <2>3, <2>4 DEF SyncQuery
<1>13. QED  BY <1>4, <1>8, <1>9, <1>11, <1>12, PassedJob

(* A set of numbers has a least one. *)
LEMMA LeastOf ==
  ASSUME NEW S \in SUBSET Nat, S # {}
  PROVE  Min(S) \in S /\ \A y \in S : Min(S) <= y
<1> DEFINE R == {ss \in Nat \X Nat : ss[1] < ss[2]}
<1>1. IsWellFoundedOn(R, Nat)
  <2>1. R = OpToRel(<, Nat)  BY DEF OpToRel
  <2>2. IsWellFoundedOn(OpToRel(<, Nat), Nat)  BY NatLessThanWellFounded
  <2>3. QED  BY <2>1, <2>2
<1>2. PICK m \in S : \A n \in S : ~(<<n, m>> \in R)
  <2> HIDE DEF R
  <2>1. QED  BY <1>1, WFMin
<1>3. \A n \in S : m <= n
  <2>1. ASSUME NEW n \in S PROVE m <= n
    <3>1. n \in Nat /\ m \in Nat  OBVIOUS
    <3>2. ~(n < m)  BY <1>2, <3>1
    <3>3. QED  BY <3>1, <3>2
  <2>2. QED  BY <2>1
<1>4. QED  BY <1>3 DEF Min

(* A round of the resolver keeps the invariant, whether it finds something  *)
(* or the missing envelopes are iced.                                       *)
LEMMA SyncResolveOrder ==
  ASSUME OrderInv, SyncResolve
  PROVE  OrderInv'
<1>1. TypeOK /\ Network /\ Iced /\ JobInv /\ DoneInv /\ StreamInv /\ FreshInv  BY DEF OrderInv
<1>2. /\ job.phase = "resolve" /\ UNCHANGED <<log, node, cursor, done, stream>>
      /\ used' = [used EXCEPT !.resolved = TRUE]
  BY DEF SyncResolve
<1>3. /\ job.missing # << >> /\ job.clock \in Clock /\ Clocked(Pass(job), cursor)
      /\ Met(job.envelopes, cursor[Mls]) /\ NoGap(job.envelopes, Whole \union First, cursor)
  BY <1>1, <1>2 DEF JobInv
<1>4. used.syncs \in Nat \ {0}
  <2>1. used.syncs \in Nat  BY <1>1, JobTypes
  <2>2. QED  BY <1>1, <1>2, <2>1 DEF FreshInv
<1>5. /\ used' \in [syncs : Nat, streams : Nat, resolved : BOOLEAN]
      /\ used'.syncs \in Nat \ {0} /\ used'.resolved = TRUE
  <2>1. used \in [syncs : Nat, streams : Nat, resolved : BOOLEAN]  BY <1>1 DEF TypeOK
  <2>2. QED  BY <1>2, <1>4, <2>1
<1>6. PICK env, mis, c : env = job.envelopes /\ mis = job.missing /\ c = job.clock  OBVIOUS
<1>7. env \in Seq(Held) /\ mis \in Seq(Held) /\ c \in Clock /\ cursor \in Clock
  BY <1>1, <1>3, <1>6, JobTypes
<1>8. PICK least : least = Min(Required(job))  OBVIOUS
<1>9. least \in Nat /\ c[Mls] < least /\ \A x : In(x, mis) => least <= Dep(x)
  <2>1. \A x : x \in ToSet(mis) <=> In(x, mis)  BY <1>7, InSet
  <2>2. \A x : In(x, mis) => x \in Held  BY <1>7 DEF In
  <2>3. Required(job) \in SUBSET Nat
    <3>1. \A x \in Held : Dep(x) \in Nat  BY <1>1, HeldFacts
    <3>2. QED  BY <1>6, <2>1, <2>2, <3>1 DEF Required
  <2>4. Required(job) # {}
    <3>1. 1 \in 1..Len(mis)  BY <1>3, <1>6, <1>7
    <3>2. In(mis[1], mis)  BY <3>1 DEF In
    <3>3. QED  BY <1>6, <2>1, <3>2 DEF Required
  <2>5. least \in Required(job) /\ \A y \in Required(job) : least <= y
    BY <1>8, <2>3, <2>4, LeastOf
  <2>6. \A x : In(x, mis) => least <= Dep(x)  BY <1>6, <2>1, <2>5 DEF Required
  <2>7. PICK x \in ToSet(mis) : least = Dep(x)  BY <1>6, <2>5 DEF Required
  <2>8. PICK k \in 1..Len(mis) : mis[k] = x  BY <2>1, <2>7 DEF In
  <2>9. ~Dominates(c, x)  BY <1>3, <1>6, <2>8 DEF Clocked, Pass
  <2>10. c[Mls] \in Nat  BY <1>7, Naturals DEF Clock
  <2>11. QED  BY <2>3, <2>5, <2>6, <2>7, <2>9, <2>10 DEF Dominates
<1>10. PICK found : found = After(LeastCursor(job))  OBVIOUS
<1>11. found = {e \in Held : e[1] = Mls => e[2] > least}
  <2>1. PICK d : d = LeastCursor(job)  OBVIOUS
  <2>2. d = [o \in All |-> IF o = Mls THEN least ELSE 0]  BY <1>8, <2>1 DEF LeastCursor
  <2>3. d \in Clock  BY <1>9, <2>2 DEF Clock
  <2>4. found = {e \in Held : e[2] > d[e[1]]}  BY <1>1, <1>10, <2>1, <2>3, AfterFacts
  <2>5. ASSUME NEW e \in Held PROVE e[2] > d[e[1]] <=> (e[1] = Mls => e[2] > least)
    <3>1. e[1] \in All /\ e[2] \in Nat \ {0}  BY <1>1, HeldFacts
    <3>2. CASE e[1] = Mls  BY <2>2, <3>1, <3>2
    <3>3. CASE e[1] # Mls
      <4>1. d[e[1]] = 0 /\ e[2] > 0  BY <2>2, <3>1, <3>3
      <4>2. QED  BY <3>3, <4>1
    <3>4. QED  BY <3>2, <3>3
  <2>6. QED  BY <2>4, <2>5
<1>12. CASE found = {}
  <2>1. icebox' = icebox \union ToSet(mis)
        /\ job' = [job EXCEPT !.phase = "process", !.missing = << >>]
    BY <1>6, <1>10, <1>12 DEF SyncResolve
  <2>2. ASSUME NEW x \in ToSet(mis) PROVE x \in Held /\ ~IsCommit(x)
    <3>1. In(x, mis)  BY <1>7, <2>2, InSet
    <3>2. x \in Held  BY <1>7, <3>1 DEF In
    <3>3. ASSUME IsCommit(x) PROVE FALSE
      <4>1. least <= Dep(x) /\ Dep(x) < x[2] /\ Dep(x) \in Nat /\ x[2] \in Nat
        BY <1>1, <1>9, <3>1, <3>2, <3>3, HeldFacts
      <4>2. x[2] > least  BY <1>9, <4>1
      <4>3. QED  BY <1>11, <1>12, <3>2, <4>2
    <3>4. QED  BY <3>2, <3>3
  <2>3. Held' = Held /\ \A e : Dep(e)' = Dep(e)  BY <1>2, NodeSame
  <2>4. job \in [phase : {"idle", "resolve", "process"}, envelopes : Seq(Held),
                 missing : Seq(Held), clock : Clock \union {<< >>}, rounds : Nat]
    BY <1>1 DEF TypeOK
  <2>5. /\ job' \in [phase : {"idle", "resolve", "process"}, envelopes : Seq(Held),
                     missing : Seq(Held), clock : Clock \union {<< >>}, rounds : Nat]
        /\ job'.phase = "process" /\ job'.envelopes = job.envelopes
    <3>1. << >> \in Seq(Held)  OBVIOUS
    <3>2. QED  BY <2>1, <2>4, <3>1
  <2>6. TypeOK'  BY <1>1, <1>2, <1>5, <2>3, <2>5 DEF TypeOK
  <2>7. Network'  BY <1>1, <1>2 DEF Network, Bound
  <2>8. Iced'  BY <1>1, <2>1, <2>2, <2>3 DEF Iced, IsCommit
  <2>9. JobInv'
    <3>1. Met(job.envelopes, cursor[Mls])'  BY <1>2, <1>3, <2>3, <2>5 DEF Met, IsCommit
    <3>2. Whole' = Whole /\ First' = {}  BY <1>5 DEF Whole, First
    <3>3. NoGap(job.envelopes, Whole \union First, cursor)'
      BY <1>2, <1>3, <2>5, <3>2 DEF NoGap, Smaller
    <3>4. QED  BY <2>5, <3>1, <3>3 DEF JobInv
  <2>10. DoneInv'
    <3>1. Whole' = Whole  BY DEF Whole
    <3>2. InCausalOrder'
      <4>1. \A k \in DOMAIN done : Dep(done[k]) = 0
              \/ Covered(Dep(done[k]), ToSet(SubSeq(done, 1, k - 1)))
        BY <1>1 DEF DoneInv, InCausalOrder
      <4>2. ASSUME NEW k \in DOMAIN done
            PROVE  Dep(done[k])' = 0 \/ Covered(Dep(done[k]), ToSet(SubSeq(done, 1, k - 1)))'
        <5>1. PICK d, P : d = Dep(done[k]) /\ P = ToSet(SubSeq(done, 1, k - 1))  OBVIOUS
        <5>2. Dep(done[k])' = d /\ P = ToSet(SubSeq(done, 1, k - 1))'  BY <1>2, <2>3, <5>1
        <5>3. d = 0 \/ Covered(d, P)  BY <4>1, <5>1
        <5>4. Covered(d, P) => \E e \in P : IsCommit(e) /\ (e[2] = d \/ e[2] > d)
          BY DEF Covered
        <5>5. QED  BY <1>5, <5>2, <5>3, <5>4 DEF Covered, IsCommit
      <4>3. QED  BY <1>2, <4>2 DEF InCausalOrder
    <3>3. \A x \in 1..cursor[Mls] : Covered(x, ToSet(done))'
      <4>1. \A x \in 1..cursor[Mls] : Covered(x, ToSet(done))  BY <1>1 DEF DoneInv
      <4>2. QED  BY <1>2, <1>5, <4>1 DEF Covered, IsCommit
    <3>4. QED  BY <1>1, <1>2, <3>1, <3>2, <3>3 DEF DoneInv
  <2>11. StreamInv'  BY <1>1, <1>2, <2>3 DEF StreamInv, StreamCausal
  <2>12. FreshInv'  BY <1>5 DEF FreshInv
  <2>13. QED  BY <2>6, <2>7, <2>8, <2>9, <2>10, <2>11, <2>12 DEF OrderInv
<1>13. CASE found # {}
  <2>1. icebox' = icebox /\ \E resolved \in Listed(found) :
          \E children \in Unordered(LostChildren(ToSet(env \o resolved \o mis))) :
            LET s == Causal(env \o resolved \o mis \o children, c)
            IN job' = [job EXCEPT !.phase = Sorted(s), !.envelopes = s.sorted,
                         !.missing = s.missed, !.clock = s.clock, !.rounds = @ + 1]
    BY <1>6, <1>10, <1>13 DEF SyncResolve
  <2>2. PICK resolved \in Listed(found) :
          \E children \in Unordered(LostChildren(ToSet(env \o resolved \o mis))) :
            LET s == Causal(env \o resolved \o mis \o children, c)
            IN job' = [job EXCEPT !.phase = Sorted(s), !.envelopes = s.sorted,
                         !.missing = s.missed, !.clock = s.clock, !.rounds = @ + 1]
    BY <2>1
  <2>3. PICK children \in Unordered(LostChildren(ToSet(env \o resolved \o mis))) :
            LET s == Causal(env \o resolved \o mis \o children, c)
            IN job' = [job EXCEPT !.phase = Sorted(s), !.envelopes = s.sorted,
                         !.missing = s.missed, !.clock = s.clock, !.rounds = @ + 1]
    BY <2>2
  <2>4. PICK list, kids : /\ list = env \o resolved \o mis \o children
                          /\ kids = LostChildren(ToSet(env \o resolved \o mis))
    OBVIOUS
  <2>5. PICK s, E : s = Causal(list, c) /\ E = {x \in Held : In(x, list)}  OBVIOUS
  <2>6. job' = [phase |-> Sorted(s), envelopes |-> s.sorted, missing |-> s.missed,
                clock |-> s.clock, rounds |-> job.rounds + 1]
    <3>1. job \in [phase : {"idle", "resolve", "process"}, envelopes : Seq(Held),
                   missing : Seq(Held), clock : Clock \union {<< >>}, rounds : Nat]
      BY <1>1 DEF TypeOK
    <3>2. job' = [job EXCEPT !.phase = Sorted(s), !.envelopes = s.sorted,
                    !.missing = s.missed, !.clock = s.clock, !.rounds = @ + 1]
      BY <2>3, <2>4, <2>5
    <3>3. QED  BY <3>1, <3>2
  <2>7. Again(env, mis, c, cursor, Whole, least, found, resolved, children, list, E)
    <3>1. kids \in SUBSET icebox /\ children \in Unordered(kids)  BY <2>4, LostChildrenIced
    <3>2. Clocked([sorted |-> env, rest |-> << >>, missed |-> mis, clock |-> c], cursor)
      BY <1>3, <1>6 DEF Pass
    <3>3. NoGap(env, Whole, cursor)  BY <1>3, <1>6 DEF NoGap
    <3>4. Whole \in SUBSET Origs /\ (Monotone \/ Whole = {})  BY WholeFacts
    <3>5. QED  BY <1>7, <1>9, <1>11, <2>4, <2>5, <3>1, <3>2, <3>3, <3>4 DEF Again
  <2>8. Result(s, E, cursor, Whole, cursor)  BY <1>1, <2>5, <2>7, AgainPass
  <2>9. E \in SUBSET Held /\ job.rounds + 1 \in Nat /\ Whole \subseteq Whole
    BY <1>1, <2>5, JobTypes
  <2>10. QED  BY <1>2, <1>5, <2>1, <2>6, <2>8, <2>9, PassedJob
<1>14. QED  BY <1>12, <1>13

(* What is left when the head of the list has been processed, or skipped,   *)
(* still comes after what it depends on and has no gap.                     *)
LEMMA DropHead ==
  ASSUME TypeOK, Network, NEW q \in Seq(Held), q # << >>, NEW t, t = Tail(q),
         NEW c \in Clock, NEW d \in Clock, \A o \in All : c[o] <= d[o],
         NEW h, h = q[1], h[2] <= d[h[1]], NEW O, Met(q, c[Mls]), NoGap(q, O, c)
  PROVE  /\ t \in Seq(Held) /\ Met(t, d[Mls]) /\ NoGap(t, O, d)
         /\ h \in Held /\ Dep(h) <= c[Mls] /\ (h[1] \in O => Smaller(h, c) = {})
<1>1. PICK n \in Nat : n = Len(q)  OBVIOUS
<1>2. /\ t \in Seq(Held) /\ Len(t) = n - 1 /\ n >= 1 /\ \A k \in 1..n - 1 : t[k] = q[k + 1]
  BY <1>1
<1>3. \A k \in 1..n : q[k] \in Held  BY <1>1
<1>4. h \in Held /\ 1 \in 1..n /\ \A k \in 1..1 - 1 : FALSE  BY <1>2, <1>3
<1>5. Mls \in All /\ c[Mls] \in Nat /\ d[Mls] \in Nat /\ c[Mls] <= d[Mls]
  BY Naturals DEF Clock
<1>6. ASSUME NEW k \in 1..n - 1
      PROVE  \/ Dep(t[k]) <= d[Mls]
             \/ \E i \in 1..k - 1 : IsCommit(t[i]) /\ Dep(t[k]) <= t[i][2]
  <2>1. k + 1 \in 1..n /\ (k + 1) - 1 = k /\ t[k] = q[k + 1]  BY <1>2
  <2>2. PICK e \in Held : e = q[k + 1]  BY <1>3, <2>1
  <2>3. Dep(e) \in Nat  BY HeldFacts
  <2>4. Dep(e) <= c[Mls] \/ \E i \in 1..k : IsCommit(q[i]) /\ Dep(e) <= q[i][2]
    BY <1>1, <2>1, <2>2 DEF Met
  <2>5. CASE Dep(e) <= c[Mls]
    <3>1. Dep(e) <= d[Mls]  BY <1>5, <2>3, <2>5
    <3>2. QED  BY <2>1, <2>2, <3>1
  <2>6. ASSUME NEW i \in 1..k, IsCommit(q[i]), Dep(e) <= q[i][2]
        PROVE  \/ Dep(e) <= d[Mls]
               \/ \E j \in 1..k - 1 : IsCommit(t[j]) /\ Dep(e) <= t[j][2]
    <3>1. CASE i = 1
      <4>1. h[1] = Mls /\ h[2] \in Nat /\ Dep(e) <= h[2]
        BY <1>4, <2>6, <3>1, HeldFacts DEF IsCommit
      <4>2. QED  BY <1>5, <2>3, <4>1
    <3>2. CASE i # 1
      <4>1. PICK j \in 1..k - 1 : j + 1 = i
        <5>1. i - 1 \in 1..k - 1 /\ (i - 1) + 1 = i  BY <3>2
        <5>2. QED  BY <5>1
      <4>2. j \in 1..n - 1  BY <1>1
      <4>3. t[j] = q[i]  BY <1>2, <4>1, <4>2
      <4>4. QED  BY <2>6, <4>1, <4>3
    <3>3. QED  BY <3>1, <3>2
  <2>7. QED  BY <2>1, <2>2, <2>4, <2>5, <2>6
<1>7. Met(t, d[Mls])  BY <1>2, <1>6 DEF Met
<1>8. ASSUME NEW k \in 1..n - 1, t[k][1] \in O, NEW x \in Smaller(t[k], d)
      PROVE  Before(x, t, k)
  <2>1. k + 1 \in 1..n /\ (k + 1) - 1 = k /\ t[k] = q[k + 1]  BY <1>2
  <2>2. PICK e \in Held : e = q[k + 1]  BY <1>3, <2>1
  <2>3. /\ x \in Held /\ x[1] = e[1] /\ x = <<e[1], x[2]>>
        /\ x[2] \in Nat \ {0} /\ d[e[1]] < x[2] /\ x[2] < e[2]
    BY <1>8, <2>1, <2>2, SmallerFacts
  <2>4. e[1] \in All /\ e[2] \in Nat /\ c[e[1]] \in Nat /\ d[e[1]] \in Nat /\ c[e[1]] <= d[e[1]]
    BY HeldFacts DEF Clock
  <2>5. x \in Smaller(e, c)
    <3>1. \A m, low, high, top \in Nat : low <= high /\ high < m /\ m < top => m \in low + 1..top - 1
      OBVIOUS
    <3>1b. x[2] \in c[e[1]] + 1..e[2] - 1  BY <2>3, <2>4, <3>1
    <3>2. QED  BY <2>3, <3>1b DEF Smaller
  <2>6. Before(x, q, k + 1)  BY <1>1, <1>8, <2>1, <2>2, <2>5 DEF NoGap
  <2>7. PICK i \in 1..k : q[i] = x  BY <2>1, <2>6 DEF Before
  <2>8. i # 1
    <3>1. ASSUME i = 1 PROVE FALSE
      <4>1. x = h  BY <2>7, <3>1
      <4>2. x[2] <= d[e[1]]  BY <2>3, <4>1
      <4>3. QED  BY <2>3, <2>4, <4>2
    <3>2. QED  BY <3>1
  <2>9. PICK j \in 1..k - 1 : j + 1 = i
    <3>1. i - 1 \in 1..k - 1 /\ (i - 1) + 1 = i  BY <2>8
    <3>2. QED  BY <3>1
  <2>10. j \in 1..n - 1  BY <1>1
  <2>11. t[j] = x  BY <1>2, <2>7, <2>9, <2>10
  <2>12. QED  BY <2>9, <2>11 DEF Before
<1>9. NoGap(t, O, d)  BY <1>2, <1>8 DEF NoGap
<1>10. Dep(h) <= c[Mls]  BY <1>1, <1>4 DEF Met
<1>11. h[1] \in O => Smaller(h, c) = {}
  <2>1. \A x : ~Before(x, q, 1)  BY <1>4 DEF Before
  <2>2. QED  BY <1>1, <1>4, <2>1 DEF NoGap
<1>12. QED  BY <1>2, <1>4, <1>7, <1>9, <1>10, <1>11

(* What a list has processed when one more is. *)
Extends(t, s, x, n) ==
  /\ n \in Nat /\ DOMAIN t = 1..n + 1 /\ t[n + 1] = x
  /\ DOMAIN s = 1..n /\ \A k \in 1..n : t[k] = s[k]
  /\ ToSet(t) = ToSet(s) \union {x}
  /\ \A k \in 1..n : SubSeq(t, 1, k - 1) = SubSeq(s, 1, k - 1)
  /\ SubSeq(t, 1, (n + 1) - 1) = s

(* The list of what has been processed when one more is. *)
LEMMA OneMore ==
  ASSUME NEW S, NEW s \in Seq(S), NEW x \in S, NEW t, t = Append(s, x), NEW n, n = Len(s)
  PROVE  Extends(t, s, x, n)
<1>1. /\ n \in Nat /\ t \in Seq(S) /\ DOMAIN t = 1..n + 1 /\ t[n + 1] = x /\ Len(t) = n + 1
      /\ DOMAIN s = 1..n /\ \A k \in 1..n : t[k] = s[k]
  OBVIOUS
<1>2. ToSet(t) = ToSet(s) \union {x}
  <2>1. ASSUME NEW y \in ToSet(t) PROVE y \in ToSet(s) \union {x}
    <3>1. PICK k \in 1..n + 1 : t[k] = y  BY <1>1 DEF ToSet
    <3>2. k \in 1..n \/ k = n + 1  BY <1>1
    <3>3. QED  BY <1>1, <3>1, <3>2 DEF ToSet
  <2>2. ASSUME NEW y \in ToSet(s) PROVE y \in ToSet(t)
    <3>1. PICK k \in 1..n : s[k] = y  BY <1>1 DEF ToSet
    <3>2. k \in 1..n + 1 /\ t[k] = y  BY <1>1, <3>1
    <3>3. QED  BY <1>1, <3>2 DEF ToSet
  <2>3. x \in ToSet(t)
    <3>1. n + 1 \in 1..n + 1  BY <1>1
    <3>2. QED  BY <1>1, <3>1 DEF ToSet
  <2>4. QED  BY <2>1, <2>2, <2>3
<1>3. ASSUME NEW k \in 1..n PROVE SubSeq(t, 1, k - 1) = SubSeq(s, 1, k - 1)
  <2>1. PICK u, v : u = SubSeq(t, 1, k - 1) /\ v = SubSeq(s, 1, k - 1)  OBVIOUS
  <2>2. u \in Seq(S) /\ v \in Seq(S) /\ Len(u) = k - 1 /\ Len(v) = k - 1
    BY <1>1, <2>1
  <2>3. \A i \in 1..k - 1 : u[i] = t[i] /\ v[i] = s[i]  BY <1>1, <2>1
  <2>4. \A i \in 1..k - 1 : i \in 1..n  BY <1>1
  <2>5. \A i \in 1..k - 1 : u[i] = v[i]  BY <1>1, <2>3, <2>4
  <2>6. u = v  BY <2>2, <2>5
  <2>7. QED  BY <2>1, <2>6
<1>4. SubSeq(t, 1, (n + 1) - 1) = s
  <2>1. PICK u : u = SubSeq(t, 1, n)  OBVIOUS
  <2>2. u \in Seq(S) /\ Len(u) = n  BY <1>1, <2>1
  <2>3. \A i \in 1..n : u[i] = t[i]  BY <1>1, <2>1
  <2>4. \A i \in 1..n : u[i] = s[i]  BY <1>1, <2>3
  <2>5. u = s  BY <1>1, <2>2, <2>4
  <2>6. (n + 1) - 1 = n  BY <1>1
  <2>7. QED  BY <2>1, <2>5, <2>6
<1>5. QED  BY <1>1, <1>2, <1>3, <1>4 DEF Extends

(* process_message keeps the invariant: it skips a head at or below the     *)
(* cursor, and otherwise passes nothing that was not processed, but for     *)
(* commits a resolution replaced and originators out of order.              *)
LEMMA SyncProcessOrder ==
  ASSUME OrderInv, SyncProcess
  PROVE  OrderInv'
<1>1. TypeOK /\ Network /\ Iced /\ JobInv /\ DoneInv /\ StreamInv /\ FreshInv  BY DEF OrderInv
<1>2. PICK q, t, h : q = job.envelopes /\ t = Tail(q) /\ h = q[1]  OBVIOUS
<1>3. /\ job.phase = "process" /\ q # << >> /\ UNCHANGED <<log, node, stream, used>>
      /\ job' = [job EXCEPT !.envelopes = t]
      /\ IF h[2] <= cursor[h[1]]
         THEN UNCHANGED <<cursor, done, icebox>>
         ELSE /\ cursor' = [cursor EXCEPT ![h[1]] = h[2]]
              /\ done' = Append(done, h)
              /\ icebox' = Prune(icebox, cursor')
  <2>1. q \in Seq(Held) /\ q # << >>  BY <1>1, <1>2, JobTypes DEF SyncProcess
  <2>2. Head(q) = h  BY <1>2, <2>1
  <2>3. QED  BY <1>2, <2>2 DEF SyncProcess
<1>4. q \in Seq(Held) /\ cursor \in Clock /\ done \in Seq(Held) /\ used.syncs \in Nat
  BY <1>1, <1>2, JobTypes
<1>5. h \in Held /\ h[1] \in All /\ h[2] \in Nat \ {0} /\ h[2] <= node[h[1]] /\ Dep(h) \in Nat
      /\ h = <<h[1], h[2]>>
  <2>1. 1 \in 1..Len(q)  BY <1>3, <1>4
  <2>2. h \in Held  BY <1>2, <1>4, <2>1
  <2>3. QED  BY <1>1, <2>2, HeldFacts
<1>6. Held' = Held /\ \A e : Dep(e)' = Dep(e)  BY <1>3, NodeSame
<1>7. PICK new : new = cursor'  OBVIOUS
<1>8. /\ new \in Clock /\ (\A o \in All : cursor[o] <= new[o]) /\ h[2] <= new[h[1]]
      /\ \A o \in All : new[o] = cursor[o] \/ (o = h[1] /\ new[o] = h[2])
  <2>1. \A o \in All : cursor[o] \in Nat  BY <1>4 DEF Clock
  <2>2. CASE h[2] <= cursor[h[1]]
    <3>1. new = cursor  BY <1>3, <1>7, <2>2
    <3>2. QED  BY <1>4, <2>1, <2>2, <3>1
  <2>3. CASE ~(h[2] <= cursor[h[1]])
    <3>1. new = [cursor EXCEPT ![h[1]] = h[2]]  BY <1>3, <1>7, <2>3
    <3>2. new \in [All -> Nat] /\ new[h[1]] = h[2] /\ \A o \in All \ {h[1]} : new[o] = cursor[o]
      BY <1>4, <1>5, <3>1 DEF Clock
    <3>3. cursor[h[1]] <= h[2]  BY <1>5, <2>1, <2>3
    <3>4. ASSUME NEW o \in All
          PROVE  cursor[o] <= new[o] /\ (new[o] = cursor[o] \/ (o = h[1] /\ new[o] = h[2]))
      <4>1. CASE o = h[1]  BY <3>2, <3>3, <4>1
      <4>2. CASE o # h[1]  BY <2>1, <3>2, <4>2
      <4>3. QED  BY <4>1, <4>2
    <3>5. QED  BY <1>5, <3>2, <3>4 DEF Clock
  <2>4. QED  BY <2>2, <2>3
<1>9. Met(q, cursor[Mls]) /\ NoGap(q, Whole \union First, cursor)
  BY <1>1, <1>2 DEF JobInv
<1>10. /\ t \in Seq(Held) /\ Met(t, new[Mls]) /\ NoGap(t, Whole \union First, new)
       /\ Dep(h) <= cursor[Mls] /\ (h[1] \in Whole \union First => Smaller(h, cursor) = {})
  BY <1>1, <1>2, <1>3, <1>4, <1>8, <1>9, DropHead, ZenonT(60)
<1>11. /\ job' \in [phase : {"idle", "resolve", "process"}, envelopes : Seq(Held),
                    missing : Seq(Held), clock : Clock \union {<< >>}, rounds : Nat]
       /\ job'.phase = "process" /\ job'.envelopes = t
  <2>1. job \in [phase : {"idle", "resolve", "process"}, envelopes : Seq(Held),
                 missing : Seq(Held), clock : Clock \union {<< >>}, rounds : Nat]
    BY <1>1 DEF TypeOK
  <2>2. QED  BY <1>3, <1>10, <2>1
<1>12. icebox' \subseteq icebox
  <2>1. Prune(icebox, cursor') \subseteq icebox  BY DEF Prune
  <2>2. QED  BY <1>3, <2>1
<1>13. done' \in Seq(Held)
  <2>1. Append(done, h) \in Seq(Held)  BY <1>4, <1>5
  <2>2. QED  BY <1>3, <1>4, <2>1
<1>14. TypeOK'  BY <1>1, <1>3, <1>6, <1>7, <1>8, <1>11, <1>13 DEF TypeOK, Clock
<1>15. Network'
  <2>1. \A o \in All : new[o] <= node[o]  BY <1>1, <1>5, <1>8 DEF Network
  <2>2. QED  BY <1>1, <1>3, <1>7, <2>1 DEF Network, Bound
<1>16. Iced'  BY <1>1, <1>6, <1>12 DEF Iced, IsCommit
<1>17. JobInv'
  <2>1. Whole' = Whole /\ First' = First  BY <1>3 DEF Whole, First
  <2>2. Met(job.envelopes, cursor[Mls])'  BY <1>6, <1>7, <1>10, <1>11 DEF Met, IsCommit
  <2>3. NoGap(job.envelopes, Whole \union First, cursor)'
    BY <1>7, <1>10, <1>11, <2>1 DEF NoGap, Smaller
  <2>4. QED  BY <1>11, <2>2, <2>3 DEF JobInv
<1>18. DoneInv'
  <2>0. Whole' = Whole /\ used' = used  BY <1>3 DEF Whole
  <2>1. CASE h[2] <= cursor[h[1]]
    <3>1. UNCHANGED <<cursor, done, used>>  BY <1>3, <2>1
    <3>2. InCausalOrder'  BY <1>1, <1>6, <3>1 DEF DoneInv, InCausalOrder, Covered, IsCommit
    <3>3. QED  BY <1>1, <2>0, <3>1, <3>2 DEF DoneInv, Covered, IsCommit
  <2>2. CASE ~(h[2] <= cursor[h[1]])
    <3>1. PICK n : n = Len(done)  OBVIOUS
    <3>2. done' = Append(done, h)  BY <1>3, <2>2
    <3>3. /\ n \in Nat /\ DOMAIN done' = 1..n + 1 /\ done'[n + 1] = h
          /\ DOMAIN done = 1..n /\ \A k \in 1..n : done'[k] = done[k]
          /\ ToSet(done') = ToSet(done) \union {h}
          /\ \A k \in 1..n : SubSeq(done', 1, k - 1) = SubSeq(done, 1, k - 1)
          /\ SubSeq(done', 1, (n + 1) - 1) = done
      <4>1. PICK u : u = done'  OBVIOUS
      <4>2. u = Append(done, h)  BY <3>2, <4>1
      <4>3. Extends(u, done, h, n)  BY <1>4, <1>5, <3>1, <4>2, OneMore
      <4>4. QED  BY <4>1, <4>3 DEF Extends
    <3>4. /\ \A x \in 1..cursor[Mls] : Covered(x, ToSet(done))
          /\ \A o \in Whole : \A x \in 1..cursor[o] : <<o, x>> \in ToSet(done)
      <4>1. DoneInv  BY <1>1
      <4>2. QED  BY <4>1 DEF DoneInv
    <3>5. ASSUME NEW o \in All, NEW x \in 1..new[o], x \notin 1..cursor[o]
          PROVE  /\ o = h[1] /\ x <= h[2]
                 /\ <<o, x>> = h \/ <<o, x>> \in Smaller(h, cursor)
      <4>1. cursor[o] \in Nat /\ new[o] \in Nat  BY <1>4, <1>8 DEF Clock
      <4>2. o = h[1] /\ new[o] = h[2]  BY <1>8, <3>5
      <4>3. x = h[2] \/ x \in cursor[o] + 1..h[2] - 1  BY <3>5, <4>1, <4>2
      <4>4. QED  BY <1>5, <3>5, <4>1, <4>2, <4>3 DEF Smaller
    <3>6. ASSUME NEW x \in 1..new[Mls] PROVE Covered(x, ToSet(done'))
      <4>1. CASE x \in 1..cursor[Mls]
        <5>1. Covered(x, ToSet(done))  BY <3>4, <4>1
        <5>2. QED  BY <3>3, <5>1 DEF Covered
      <4>2. CASE x \notin 1..cursor[Mls]
        <5>1. /\ Mls = h[1] /\ x <= h[2]
              /\ <<Mls, x>> = h \/ <<Mls, x>> \in Smaller(h, cursor)
          BY <3>5, <4>2, Naturals
        <5>2. h \in ToSet(done') /\ IsCommit(h)  BY <3>3, <5>1 DEF IsCommit
        <5>3. CASE x = h[2]  BY <5>2, <5>3 DEF Covered
        <5>4. CASE x # h[2]
          <6>1. h[1] \notin Whole \union First  BY <1>10, <5>1, <5>4
          <6>2. used.resolved  BY <5>1, <6>1 DEF First
          <6>3. h[2] > x  BY <1>5, <5>1, <5>4
          <6>4. QED  BY <5>2, <6>2, <6>3 DEF Covered
        <5>5. QED  BY <5>3, <5>4
      <4>3. QED  BY <4>1, <4>2
    <3>7. ASSUME NEW o \in Whole, NEW x \in 1..new[o] PROVE <<o, x>> \in ToSet(done')
      <4>1. CASE x \in 1..cursor[o]  BY <3>3, <3>4, <4>1
      <4>2. CASE x \notin 1..cursor[o]
        <5>1. o \in All  BY WholeFacts
        <5>2. /\ o = h[1] /\ (<<o, x>> = h \/ <<o, x>> \in Smaller(h, cursor))
          BY <3>5, <4>2, <5>1
        <5>2a. Smaller(h, cursor) = {}  BY <1>10, <5>2
        <5>3. <<o, x>> = h  BY <5>2, <5>2a
        <5>4. QED  BY <3>3, <5>3
      <4>3. QED  BY <4>1, <4>2
    <3>8. ASSUME NEW k \in 1..n + 1
          PROVE  Dep(done'[k]) = 0 \/ Covered(Dep(done'[k]), ToSet(SubSeq(done', 1, k - 1)))
      <4>1. CASE k \in 1..n
        <5>1. InCausalOrder  BY <1>1 DEF DoneInv
        <5>2. QED  BY <3>3, <4>1, <5>1 DEF InCausalOrder
      <4>2. CASE k \notin 1..n
        <5>1. k = n + 1  BY <3>3, <4>2
        <5>2. Dep(h) = 0 \/ Dep(h) \in 1..cursor[Mls]
          <6>1. cursor[Mls] \in Nat  BY <1>4, Naturals DEF Clock
          <6>2. QED  BY <1>5, <1>10, <6>1
        <5>3. QED  BY <3>3, <3>4, <5>1, <5>2
      <4>3. QED  BY <4>1, <4>2
    <3>9. \A c, P : Covered(c, P)' = Covered(c, P)  BY <2>0 DEF Covered, IsCommit
    <3>10. InCausalOrder'
      <4>1. ASSUME NEW k \in DOMAIN done'
            PROVE  Dep(done[k])' = 0 \/ Covered(Dep(done[k]), ToSet(SubSeq(done, 1, k - 1)))'
        <5>1. PICK d, P : d = Dep(done'[k]) /\ P = ToSet(SubSeq(done', 1, k - 1))  OBVIOUS
        <5>2. Dep(done[k])' = d /\ P = ToSet(SubSeq(done, 1, k - 1))'  BY <1>6, <5>1 DEF Dep
        <5>3. d = 0 \/ Covered(d, P)  BY <3>3, <3>8, <4>1, <5>1
        <5>4. Covered(d, P) => \E e \in P : IsCommit(e) /\ (e[2] = d \/ (used.resolved /\ e[2] > d))
          BY DEF Covered
        <5>5. QED  BY <2>0, <5>2, <5>3, <5>4 DEF Covered, IsCommit
      <4>2. QED  BY <4>1 DEF InCausalOrder
    <3>11. (\A x \in 1..cursor[Mls] : Covered(x, ToSet(done)))'
      <4>1. \A x \in 1..cursor'[Mls] : Covered(x, ToSet(done'))  BY <1>7, <3>6
      <4>2. QED  BY <2>0, <4>1 DEF Covered, IsCommit
    <3>12. QED  BY <1>7, <2>0, <3>7, <3>10, <3>11 DEF DoneInv
  <2>3. QED  BY <2>1, <2>2
<1>19. StreamInv'  BY <1>1, <1>3, <1>6 DEF StreamInv, StreamCausal
<1>20. FreshInv'  BY <1>1, <1>3 DEF FreshInv
<1>21. QED  BY <1>14, <1>15, <1>16, <1>17, <1>18, <1>19, <1>20 DEF OrderInv

-----------------------------------------------------------------------------
(* The steps of the subscription *)

(* future_dependents finds what depends on a commit of the batch: no        *)
(* commit is in the icebox.                                                 *)
LEMMA DependentsFound ==
  ASSUME \A s \in 1..MaxCommits : <<Mls, s>> \notin icebox,
         NEW E, NEW e \in icebox, Dep(e) \in 1..MaxCommits, <<Mls, Dep(e)>> \in E
  PROVE  e \in E \/ e \in LostChildren(E)
<1> DEFINE start == {d[2] : d \in {d \in E : IsCommit(d)}}
           Body(f) == [s \in 0..MaxCommits |->
             s # 0 /\ (s \in start \/ (<<Mls, s>> \in icebox /\ f[Dep(<<Mls, s>>)]))]
           g == [s \in 0..MaxCommits |-> s # 0 /\ s \in start]
<1>1. Dep(e) \in start /\ MaxCommits \in Nat
  <2>1. PICK d : d = <<Mls, Dep(e)>>  OBVIOUS
  <2>2. d \in E /\ IsCommit(d) /\ d[2] = Dep(e)  BY <2>1 DEF IsCommit
  <2>3. QED  BY <2>2, Naturals
<1>2. g = Body(g)
  <2>1. \A s \in 0..MaxCommits : s # 0 => s \in 1..MaxCommits  BY <1>1
  <2> HIDE DEF start
  <2>2. QED  BY <2>1
<1> DEFINE h == CHOOSE h : h = Body(h)
<1>3. h = Body(h)
  <2> HIDE DEF Body, g
  <2>1. QED  BY <1>2
<1>4. h[Dep(e)]
  <2>1. Dep(e) \in 0..MaxCommits /\ Dep(e) # 0  BY <1>1
  <2>2. Body(h)[Dep(e)]
    <3> HIDE DEF h, start
    <3>1. QED  BY <1>1, <2>1
  <2> HIDE DEF h, Body
  <2>3. QED  BY <1>3, <2>2
<1>5. e \in FutureDependents(E)
  <2>1. h[Dep(e)] /\ e \in icebox  BY <1>4
  <2>2. QED  BY <2>1 DEF FutureDependents
<1>6. QED  BY <1>5 DEF LostChildren

(* A frame: what is sorted is handed out, and what waits is iced.           *)
Frame(to, F, E, list, s, iced) ==
  /\ to \in Clock /\ \A o \in All : stream.at[o] <= to[o] /\ to[o] <= node[o]
  /\ F = {e \in After(stream.at) : e[2] <= to[e[1]]} /\ E = F \union LostChildren(F)
  /\ list \in TimestampSort(E) /\ s = Causal(list, stream.clock)
  /\ iced = icebox \union ToSet(s.missed)
  /\ stream' = [stream EXCEPT !.clock = s.clock, !.at = to, !.out = @ \o s.sorted]
  /\ icebox' = iced \/ icebox' = Prune(iced, cursor)
  /\ UNCHANGED <<log, node, cursor, done, job, used>>

(* The frame that StreamFrame takes. *)
LEMMA FrameTaken ==
  ASSUME TypeOK, StreamFrame
  PROVE  \E to, F, E, list, s, iced : Frame(to, F, E, list, s, iced)
<1>1. PICK to \in [All -> 0..Max({MaxCommits, MaxMessages})] :
        /\ \A o \in All : to[o] \in stream.at[o]..node[o]
        /\ LET F == {e \in After(stream.at) : e[2] <= to[e[1]]}
           IN \E list \in TimestampSort(F \union LostChildren(F)) :
                LET s == Causal(list, stream.clock)
                    iced == icebox \union ToSet(s.missed)
                    fresh == \E e \in ToSet(s.sorted) : ~IsCommit(e) /\ e[2] > cursor[e[1]]
                IN /\ stream' = [stream EXCEPT !.clock = s.clock, !.at = to,
                                               !.out = @ \o s.sorted]
                   /\ icebox' = IF fresh THEN Prune(iced, cursor) ELSE iced
  BY DEF StreamFrame
<1>2. PICK F, E : F = {e \in After(stream.at) : e[2] <= to[e[1]]} /\ E = F \union LostChildren(F)
  OBVIOUS
<1>3. PICK list \in TimestampSort(E) :
        LET s == Causal(list, stream.clock)
            iced == icebox \union ToSet(s.missed)
            fresh == \E e \in ToSet(s.sorted) : ~IsCommit(e) /\ e[2] > cursor[e[1]]
        IN /\ stream' = [stream EXCEPT !.clock = s.clock, !.at = to, !.out = @ \o s.sorted]
           /\ icebox' = IF fresh THEN Prune(iced, cursor) ELSE iced
  BY <1>1, <1>2
<1>4. PICK s : s = Causal(list, stream.clock)  OBVIOUS
<1>5. PICK iced : iced = icebox \union ToSet(s.missed)  OBVIOUS
<1>6. /\ stream' = [stream EXCEPT !.clock = s.clock, !.at = to, !.out = @ \o s.sorted]
      /\ icebox' = iced \/ icebox' = Prune(iced, cursor)
  BY <1>3, <1>4, <1>5
<1>7. to \in Clock /\ \A o \in All : stream.at[o] <= to[o] /\ to[o] <= node[o]
  <2>1. \A o \in All : stream.at[o] \in Nat /\ node[o] \in Nat  BY JobTypes DEF Clock
  <2>2. \A o \in All : to[o] \in Nat /\ stream.at[o] <= to[o] /\ to[o] <= node[o]
    BY <1>1, <2>1
  <2>3. QED  BY <1>1, <2>2 DEF Clock
<1>8. Frame(to, F, E, list, s, iced)
  BY <1>2, <1>3, <1>4, <1>5, <1>6, <1>7 DEF Frame, StreamFrame
<1>9. QED  BY <1>8

(* What a frame sorts. *)
Framed(to, F, E, s) ==
  /\ \A e : e \in F <=> e \in Held /\ stream.at[e[1]] < e[2] /\ e[2] <= to[e[1]]
  /\ E \in SUBSET Held /\ F \subseteq E /\ \A e \in E : IsCommit(e) => e \in F
  /\ Result(s, E, stream.clock, {Mls}, stream.at)
  /\ s.clock[Mls] = to[Mls]

(* What a frame of the subscription sorts, and that its clock for commits   *)
(* is its position.                                                         *)
LEMMA FrameSorted ==
  ASSUME OrderInv, NEW to, NEW F, NEW E, NEW list, NEW s, NEW iced,
         Frame(to, F, E, list, s, iced)
  PROVE  Framed(to, F, E, s)
<1>1. TypeOK /\ Network /\ Iced /\ StreamInv  BY DEF OrderInv
<1>2. /\ to \in Clock /\ \A o \in All : stream.at[o] <= to[o] /\ to[o] <= node[o]
      /\ F = {e \in After(stream.at) : e[2] <= to[e[1]]} /\ E = F \union LostChildren(F)
      /\ list \in TimestampSort(E) /\ s = Causal(list, stream.clock)
  BY DEF Frame
<1>3. stream.at \in Clock /\ stream.clock \in Clock  BY <1>1, JobTypes
<1>4. \A e \in Held : e[1] \in All /\ e[2] \in Nat \ {0}  BY <1>1, HeldFacts
<1>5. \A o \in All : stream.at[o] \in Nat /\ to[o] \in Nat  BY <1>2, <1>3 DEF Clock
<1>6. \A e : e \in F <=> e \in Held /\ stream.at[e[1]] < e[2] /\ e[2] <= to[e[1]]
  <2>1. After(stream.at) = {e \in Held : e[2] > stream.at[e[1]]}
    BY <1>1, <1>3, AfterFacts
  <2>2. QED  BY <1>2, <1>4, <1>5, <2>1
<1>7. LostChildren(F) \subseteq icebox /\ icebox \subseteq Held /\ \A e \in icebox : ~IsCommit(e)
  BY <1>1, LostChildrenIced DEF Iced
<1>8. E \in SUBSET Held /\ F \subseteq E /\ \A e \in E : IsCommit(e) => e \in F
  BY <1>2, <1>6, <1>7
<1>9. ASSUME NEW e \in E, e[1] \in {Mls}, NEW d \in Smaller(e, stream.at) PROVE d \in E
  <2>1. e \in F /\ e \in Held /\ e[2] <= to[e[1]]  BY <1>6, <1>8, <1>9 DEF IsCommit
  <2>2. d \in Held /\ d[1] = e[1] /\ stream.at[e[1]] < d[2] /\ d[2] < e[2] /\ d[2] \in Nat
    BY <1>1, <1>3, <1>9, <2>1, SmallerFacts
  <2>3. d[2] <= to[d[1]]  BY <1>4, <1>5, <2>1, <2>2
  <2>4. QED  BY <1>6, <1>8, <2>2, <2>3
<1>10. stream.clock[Mls] = stream.at[Mls] /\ Mls \in All  BY <1>1, Naturals DEF StreamInv
<1>11. Result(s, E, stream.clock, {Mls}, stream.at)
  <2>1. {Mls} \in SUBSET All /\ {Mls} \subseteq {Mls}  BY Naturals
  <2>2. stream.at[Mls] <= stream.clock[Mls]  BY <1>5, <1>10
  <2>3. \A e \in E : e[1] \in {Mls} => Smaller(e, stream.at) \subseteq E  BY <1>9
  <2>4. QED  BY <1>1, <1>2, <1>3, <1>8, <2>1, <2>2, <2>3, FirstPass
<1>12. PICK now \in Nat, a \in Nat, b \in Nat :
         now = s.clock[Mls] /\ a = stream.at[Mls] /\ b = to[Mls] /\ a <= b
  <2>1. s.clock \in Clock  BY <1>11 DEF Result
  <2>2. QED  BY <1>2, <1>5, <1>10, <2>1 DEF Clock
<1>13. a <= now /\ (now = a \/ In(<<Mls, now>>, s.sorted))
  BY <1>10, <1>11, <1>12 DEF Result, Clocked
<1>14. ASSUME NEW x \in Nat, In(<<Mls, x>>, s.sorted) PROVE a < x /\ x <= b
  <2>1. <<Mls, x>> \in E  BY <1>11, <1>14 DEF Result, In
  <2>2. PICK e : e = <<Mls, x>>  OBVIOUS
  <2>3. e \in F /\ e[1] = Mls /\ e[2] = x  BY <1>8, <2>1, <2>2 DEF IsCommit
  <2>4. QED  BY <1>6, <1>12, <2>3
<1>15. now <= b  BY <1>12, <1>13, <1>14
<1>16. ASSUME a < b PROVE b <= now
  <2>1. PICK e : e = <<Mls, b>>  OBVIOUS
  <2>2. e \in Held
    <3>1. b <= node[Mls] /\ b \in Nat \ {0}  BY <1>2, <1>10, <1>12, <1>16
    <3>2. e \in Envelope  BY <1>10, <2>1, <3>1 DEF Envelope
    <3>3. QED  BY <2>1, <3>1, <3>2 DEF Held
  <2>3. e[1] = Mls /\ e[2] = b  BY <2>1
  <2>4. e \in E  BY <1>6, <1>8, <1>12, <1>16, <2>2, <2>3
  <2>5. In(e, s.sorted)  BY <1>11, <2>3, <2>4 DEF Result, IsCommit
  <2>6. PICK k \in 1..Len(s.sorted) : s.sorted[k] = e  BY <2>5 DEF In
  <2>7. e[2] <= s.clock[e[1]]  BY <1>11, <2>6 DEF Result, Clocked
  <2>8. QED  BY <1>12, <2>3, <2>7
<1>17. now = b  BY <1>12, <1>13, <1>15, <1>16
<1>18. QED  BY <1>6, <1>8, <1>11, <1>12, <1>17 DEF Framed

(* A frame hands out all its commits, and nothing before the commit it      *)
(* depends on.                                                              *)
LEMMA FrameCausal ==
  ASSUME OrderInv, NEW to, NEW F, NEW E, NEW list, NEW s, NEW iced,
         Frame(to, F, E, list, s, iced)
  PROVE  /\ stream'.out \in Seq(Held)
         /\ \A x : In(x, stream'.out) <=> In(x, stream.out) \/ In(x, s.sorted)
         /\ \A x \in stream.base[Mls] + 1..to[Mls] : In(<<Mls, x>>, stream'.out)
         /\ \A k \in 1..Len(stream'.out) : Dep(stream'.out[k]) <= stream.base[Mls]
              \/ \E i \in 1..(k - 1) : stream'.out[i] = <<Mls, Dep(stream'.out[k])>>
<1>1. TypeOK /\ Network /\ StreamInv  BY DEF OrderInv
<1>2. /\ \A e : e \in F <=> e \in Held /\ stream.at[e[1]] < e[2] /\ e[2] <= to[e[1]]
      /\ E \in SUBSET Held /\ F \subseteq E /\ \A e \in E : IsCommit(e) => e \in F
      /\ Result(s, E, stream.clock, {Mls}, stream.at)
      /\ s.clock[Mls] = to[Mls]
  <2>1. Framed(to, F, E, s)  BY FrameSorted
  <2>2. QED  BY <2>1 DEF Framed
<1>3. PICK o, u, q : o = stream.out /\ u = stream'.out /\ q = s.sorted  OBVIOUS
<1>4. o \in Seq(Held) /\ q \in Seq(Held)
  <2>1. q \in Seq(E)  BY <1>2, <1>3 DEF Result
  <2>2. q \in Seq(Held)  BY <1>2, <2>1, MoreHeld
  <2>3. QED  BY <1>1, <1>3, <2>2, JobTypes
<1>5. u = o \o q
  <2>1. stream \in [open : BOOLEAN, base : Clock, clock : Clock, at : Clock, out : Seq(Held)]
    BY <1>1 DEF TypeOK
  <2>2. stream' = [stream EXCEPT !.clock = s.clock, !.at = to, !.out = @ \o s.sorted]
    BY DEF Frame
  <2>3. QED  BY <1>3, <2>1, <2>2
<1>6. PICK n \in Nat : n = Len(o)  BY <1>4
<1>7. Concat(u, Held, o, q, n)  BY <1>4, <1>5, <1>6, Concatenated
<1>8. /\ u \in Seq(Held) /\ Len(q) \in Nat /\ Len(u) = n + Len(q)
      /\ \A k \in 1..n : u[k] = o[k]
      /\ \A k \in n + 1..Len(u) : k - n \in 1..Len(q) /\ u[k] = q[k - n]
      /\ \A x : In(x, u) <=> In(x, o) \/ In(x, q)
      /\ \A x, k : Before(x, q, k) /\ k \in 1..Len(q) => Before(x, u, n + k)
      /\ \A x, k : In(x, o) /\ k > n /\ k \in Nat => Before(x, u, k)
  BY <1>7 DEF Concat
<1>9. PICK base \in Nat, a \in Nat, b \in Nat :
        /\ base = stream.base[Mls] /\ a = stream.at[Mls] /\ b = to[Mls]
        /\ base <= a /\ a <= b /\ b <= node[Mls]
  <2>1. /\ stream.base[Mls] \in Nat /\ stream.at[Mls] \in Nat /\ Mls \in All
    BY <1>1, JobTypes, Naturals DEF Clock
  <2>2. to[Mls] \in Nat /\ stream.at[Mls] <= to[Mls] /\ to[Mls] <= node[Mls]
    BY <2>1 DEF Frame, Clock
  <2>3. QED  BY <1>1, <2>1, <2>2 DEF Network
<1>10. stream.clock[Mls] = a /\ \A x \in base + 1..a : In(<<Mls, x>>, o)
  BY <1>1, <1>3, <1>9 DEF StreamInv
<1>11. ASSUME NEW x \in base + 1..b PROVE In(<<Mls, x>>, u)
  <2>1. CASE x \in base + 1..a  BY <1>8, <1>10, <2>1
  <2>2. CASE x \notin base + 1..a
    <3>1. PICK e : e = <<Mls, x>>  OBVIOUS
    <3>2. x \in Nat \ {0} /\ a < x /\ x <= b  BY <1>9, <2>2
    <3>3. x <= node[Mls]
      <4>1. node[Mls] \in Nat  BY <1>1, Naturals DEF TypeOK, Clock
      <4>2. \A x1, y, z \in Nat : x1 <= y /\ y <= z => x1 <= z  OBVIOUS
      <4>3. QED  BY <1>9, <3>2, <4>1, <4>2
    <3>4. e \in Held  BY <3>1, <3>2, <3>3, Naturals DEF Held, Envelope
    <3>5. e[1] = Mls /\ e[2] = x  BY <3>1
    <3>6. e \in E  BY <1>2, <1>9, <3>2, <3>4, <3>5
    <3>7. In(e, q)  BY <1>2, <1>3, <3>5, <3>6 DEF Result, IsCommit
    <3>8. QED  BY <1>8, <3>1, <3>7
  <2>3. QED  BY <2>1, <2>2
<1>12. ASSUME NEW k \in 1..Len(u)
       PROVE  Dep(u[k]) <= base \/ Before(<<Mls, Dep(u[k])>>, u, k)
  <2>1. CASE k \in 1..n
    <3>1. k \in DOMAIN o /\ StreamCausal  BY <1>1, <1>4, <1>6, <2>1 DEF StreamInv
    <3>2. Dep(o[k]) <= base \/ \E i \in 1..(k - 1) : o[i] = <<Mls, Dep(o[k])>>
      BY <1>3, <1>9, <3>1 DEF StreamCausal
    <3>3. \A i \in 1..(k - 1) : i \in 1..n  BY <1>6, <2>1
    <3>4. QED  BY <1>8, <2>1, <3>2, <3>3 DEF Before
  <2>2. CASE k \notin 1..n
    <3>1. k \in n + 1..Len(u) /\ k \in Nat /\ k > n  BY <1>6, <1>8, <2>2
    <3>2. PICK j \in 1..Len(q) : j = k - n /\ u[k] = q[j] /\ n + j = k
      <4>1. k - n \in 1..Len(q) /\ u[k] = q[k - n] /\ n + (k - n) = k  BY <1>6, <1>8, <3>1
      <4>2. QED  BY <4>1
    <3>3. PICK e \in Held : e = q[j]  BY <1>4
    <3>4. Dep(e) \in Nat  BY <1>1, HeldFacts
    <3>5. CASE Dep(e) <= base  BY <3>2, <3>3, <3>5
    <3>6. CASE base < Dep(e) /\ Dep(e) <= a
      <4>1. Dep(e) \in base + 1..a  BY <1>9, <3>4, <3>6
      <4>2. In(<<Mls, Dep(e)>>, o)  BY <1>10, <4>1
      <4>3. QED  BY <1>8, <3>1, <3>2, <3>3, <4>2
    <3>7. CASE a < Dep(e)
      <4>1. Dep(e) <= a \/ \E i \in 1..j - 1 : IsCommit(q[i]) /\ Dep(e) <= q[i][2]
        BY <1>2, <1>3, <1>10, <3>2, <3>3 DEF Result, Clocked
      <4>2. PICK i \in 1..j - 1 : IsCommit(q[i]) /\ Dep(e) <= q[i][2]
        <5>1. ~(Dep(e) <= a)  BY <1>9, <3>4, <3>7
        <5>2. QED  BY <4>1, <5>1
      <4>3. i \in 1..Len(q)  BY <1>8
      <4>4. PICK d \in Held : d = q[i]  BY <1>4, <4>3
      <4>5. d[1] = Mls /\ d = <<Mls, d[2]>> /\ d[2] \in Nat
        BY <1>1, <4>2, <4>4, HeldFacts DEF IsCommit
      <4>6. Before(<<Mls, Dep(e)>>, q, j)
        <5>1. CASE Dep(e) = d[2]
          <6>1. q[i] = <<Mls, Dep(e)>>  BY <4>4, <4>5, <5>1
          <6>2. QED  BY <6>1 DEF Before
        <5>2. CASE Dep(e) # d[2]
          <6>0. \A x, y, z \in Nat : x < y /\ y <= z /\ y # z => y \in x + 1..z - 1  OBVIOUS
          <6>1. Dep(e) \in a + 1..d[2] - 1
            <7>1. a \in Nat /\ Dep(e) \in Nat /\ d[2] \in Nat /\ Dep(e) <= d[2]
              BY <1>9, <3>4, <4>2, <4>4, <4>5
            <7>2. QED  BY <3>7, <5>2, <6>0, <7>1
          <6>2. <<Mls, Dep(e)>> \in Smaller(d, stream.at)  BY <1>9, <4>5, <6>1 DEF Smaller
          <6>3. Before(<<Mls, Dep(e)>>, q, i)
            BY <1>2, <1>3, <4>3, <4>4, <4>5, <6>2 DEF Result, NoGap
          <6>4. PICK m \in 1..i - 1 : q[m] = <<Mls, Dep(e)>>  BY <6>3 DEF Before
          <6>5. m \in 1..j - 1  BY <1>8
          <6>6. QED  BY <6>4, <6>5 DEF Before
        <5>3. QED  BY <5>1, <5>2
      <4>7. Before(<<Mls, Dep(e)>>, u, n + j)  BY <1>8, <4>6
      <4>8. QED  BY <3>2, <3>3, <4>7
    <3>8. QED  BY <1>9, <3>4, <3>5, <3>6, <3>7
  <2>3. QED  BY <2>1, <2>2
<1>13. QED  BY <1>3, <1>8, <1>9, <1>11, <1>12 DEF Before

(* Before the first sync what a frame does not hand out is in the icebox,   *)
(* and waits for a commit still to come.                                    *)
LEMMA FrameFresh ==
  ASSUME OrderInv, NEW to, NEW F, NEW E, NEW list, NEW s, NEW iced,
         Frame(to, F, E, list, s, iced)
  PROVE  FreshInv'
<1>1. TypeOK /\ Network /\ Iced /\ FreshInv  BY DEF OrderInv
<1>2. UNCHANGED <<log, node, cursor, done, job, used>>  BY DEF Frame
<1>3. SUFFICES ASSUME used.syncs = 0
               PROVE  /\ job.phase = "idle" /\ \A o \in All : cursor[o] = 0
                      /\ stream'.open => \A o \in All : \A x \in stream'.base[o] + 1..stream'.at[o] :
                           In(<<o, x>>, stream'.out) \/ Kept0(o, x)'
  BY <1>2 DEF FreshInv
<1>4. /\ job.phase = "idle" /\ \A o \in All : cursor[o] = 0
      /\ stream.open => \A o \in All : \A x \in stream.base[o] + 1..stream.at[o] :
           In(<<o, x>>, stream.out) \/ Kept0(o, x)
  BY <1>1, <1>3 DEF FreshInv
<1>5. /\ \A e : e \in F <=> e \in Held /\ stream.at[e[1]] < e[2] /\ e[2] <= to[e[1]]
      /\ E \in SUBSET Held /\ F \subseteq E /\ \A e \in E : IsCommit(e) => e \in F
      /\ Result(s, E, stream.clock, {Mls}, stream.at)
      /\ s.clock[Mls] = to[Mls]
  <2>1. Framed(to, F, E, s)  BY FrameSorted
  <2>2. QED  BY <2>1 DEF Framed
<1>6. \A x : In(x, stream'.out) <=> In(x, stream.out) \/ In(x, s.sorted)  BY FrameCausal
<1>7. /\ stream'.open = stream.open /\ stream'.base = stream.base /\ stream'.at = to
  <2>1. stream \in [open : BOOLEAN, base : Clock, clock : Clock, at : Clock, out : Seq(Held)]
    BY <1>1 DEF TypeOK
  <2>2. stream' = [stream EXCEPT !.clock = s.clock, !.at = to, !.out = @ \o s.sorted]
    BY DEF Frame
  <2>3. QED  BY <2>1, <2>2
<1>8. to \in Clock /\ stream.at \in Clock /\ stream.base \in Clock
      /\ \A o \in All : stream.at[o] <= to[o] /\ to[o] <= node[o]
  BY <1>1, JobTypes DEF Frame
<1>9. iced = icebox \union ToSet(s.missed) /\ s.missed \in Seq(E)
  BY <1>5 DEF Frame, Result
<1>10. iced \subseteq Held
  <2>1. ASSUME NEW x \in ToSet(s.missed) PROVE x \in Held
    <3>1. In(x, s.missed)  BY <1>9, <2>1, InSet
    <3>2. QED  BY <1>5, <1>9, <3>1 DEF In
  <2>2. QED  BY <1>1, <1>9, <2>1 DEF Iced
<1>11. icebox' = iced
  <2>1. \A e \in iced : e[2] > cursor[e[1]]
    <3>1. \A e \in Held : e[1] \in All /\ e[2] \in Nat \ {0}  BY <1>1, HeldFacts
    <3>2. QED  BY <1>4, <1>10, <3>1
  <2>2. Prune(iced, cursor) = iced  BY <2>1 DEF Prune
  <2>3. QED  BY <2>2 DEF Frame
<1>12. ASSUME NEW e \in E, ~In(e, s.sorted)
       PROVE  e \in icebox' /\ to[Mls] < Dep(e)
  <2>1. In(e, s.missed)  BY <1>5, <1>12 DEF Result
  <2>2. e \in icebox'  BY <1>9, <1>11, <2>1, InSet
  <2>3. PICK k \in 1..Len(s.missed) : s.missed[k] = e  BY <2>1 DEF In
  <2>4. ~(Dep(e) <= to[Mls])  BY <1>5, <2>3 DEF Result, Clocked, Dominates
  <2>5. Dep(e) \in Nat /\ to[Mls] \in Nat  BY <1>1, <1>5, <1>8, HeldFacts, Naturals DEF Clock
  <2>6. QED  BY <2>2, <2>4, <2>5
<1>13. \A e : Dep(e)' = Dep(e)  BY <1>2, NodeSame
<1>14. ASSUME stream.open, NEW o \in All, NEW x \in stream.base[o] + 1..to[o]
       PROVE  In(<<o, x>>, stream'.out) \/ (<<o, x>> \in icebox' /\ to[Mls] < Dep(<<o, x>>))
  <2>1. PICK base \in Nat, a \in Nat, b \in Nat, n \in Nat :
          base = stream.base[o] /\ a = stream.at[o] /\ b = to[o] /\ n = node[o]
    BY <1>1, <1>8 DEF Clock, TypeOK
  <2>2. base <= a /\ a <= b /\ b <= n  BY <1>1, <1>8, <2>1 DEF Network
  <2>3. x \in Nat \ {0} /\ x <= b /\ x <= n  BY <1>14, <2>1, <2>2
  <2>4. PICK e : e = <<o, x>>  OBVIOUS
  <2>5. e \in Held /\ e[1] = o /\ e[2] = x
    <3>1. e[1] = o /\ e[2] = x  BY <2>4
    <3>2. e \in Envelope  BY <2>3, <2>4 DEF Envelope
    <3>3. QED  BY <2>1, <2>3, <3>1, <3>2 DEF Held
  <2>6. CASE a < x
    <3>1. e \in E  BY <1>5, <2>1, <2>3, <2>5, <2>6
    <3>2. QED  BY <1>6, <1>12, <2>4, <3>1
  <2>7. CASE ~(a < x)
    <3>1. x \in stream.base[o] + 1..stream.at[o]  BY <1>14, <2>1, <2>2, <2>3, <2>7
    <3>2. In(e, stream.out) \/ (e \in icebox /\ Dep(e) > stream.at[Mls])
      BY <1>4, <1>14, <2>4, <3>1 DEF Kept0
    <3>3. CASE In(e, stream.out)  BY <1>6, <2>4, <3>3
    <3>4. CASE e \in icebox /\ Dep(e) > stream.at[Mls]
      <4>1. /\ Dep(e) \in 0..MaxCommits /\ Dep(e) \in Nat /\ to[Mls] \in Nat
            /\ stream.at[Mls] \in Nat /\ node[Mls] \in Nat /\ to[Mls] <= node[Mls] /\ Mls \in All
            /\ MaxCommits \in Nat
        <5>1. Mls \in All /\ MaxCommits \in Nat  BY Naturals
        <5>2. Dep(e) \in 0..MaxCommits  BY <1>1, <2>5, HeldFacts
        <5>3. Dep(e) \in Nat  BY <5>1, <5>2
        <5>4. to[Mls] \in Nat /\ stream.at[Mls] \in Nat /\ node[Mls] \in Nat /\ to[Mls] <= node[Mls]
          BY <1>1, <1>8, <5>1 DEF Clock, TypeOK
        <5>5. QED  BY <5>1, <5>2, <5>3, <5>4
      <4>2. CASE to[Mls] < Dep(e)  BY <1>9, <1>11, <2>4, <3>4, <4>2
      <4>3. CASE ~(to[Mls] < Dep(e))
        <5>1. PICK m \in Nat : m = Dep(e) /\ m \in 1..MaxCommits /\ stream.at[Mls] < m
                /\ m <= to[Mls] /\ m <= node[Mls]
          BY <3>4, <4>1, <4>3
        <5>2. PICK d : d = <<Mls, m>>  OBVIOUS
        <5>3. d[1] = Mls /\ d[2] = m  BY <5>2
        <5>4. d \in Envelope  BY <4>1, <5>1, <5>2 DEF Envelope
        <5>5. d \in Held  BY <5>1, <5>3, <5>4 DEF Held
        <5>6. d \in F  BY <1>5, <5>1, <5>3, <5>5
        <5>7. \A y \in 1..MaxCommits : <<Mls, y>> \notin icebox
          BY <1>1 DEF Iced, IsCommit
        <5>8. e \in F \/ e \in LostChildren(F)
          BY <3>4, <5>1, <5>2, <5>6, <5>7, DependentsFound
        <5>9. e \in E  BY <5>8 DEF Frame
        <5>10. QED  BY <1>6, <1>12, <2>4, <5>9
      <4>4. QED  BY <4>2, <4>3
    <3>5. QED  BY <3>2, <3>3, <3>4
  <2>8. QED  BY <2>6, <2>7
<1>15. ASSUME NEW o \in All, NEW x, <<o, x>> \in icebox', to[Mls] < Dep(<<o, x>>)
       PROVE  Kept0(o, x)'
  <2>1. Dep(<<o, x>>)' > stream'.at[Mls]  BY <1>7, <1>13, <1>15
  <2>2. QED  BY <1>15, <2>1 DEF Kept0
<1>16. QED  BY <1>4, <1>7, <1>14, <1>15

(* A frame of the subscription keeps the invariant (order_offline). *)
LEMMA StreamFrameOrder ==
  ASSUME OrderInv, StreamFrame
  PROVE  OrderInv'
<1>1. TypeOK /\ Network /\ Iced /\ JobInv /\ DoneInv /\ StreamInv /\ FreshInv  BY DEF OrderInv
<1>2. PICK to, F, E, list, s, iced : Frame(to, F, E, list, s, iced)  BY <1>1, FrameTaken
<1>3. UNCHANGED <<log, node, cursor, done, job, used>>  BY <1>2 DEF Frame
<1>4. Held' = Held /\ \A e : Dep(e)' = Dep(e)  BY <1>3, NodeSame
<1>5. /\ E \in SUBSET Held /\ \A e \in E : IsCommit(e) => e \in F
      /\ Result(s, E, stream.clock, {Mls}, stream.at)
      /\ s.clock[Mls] = to[Mls]
  <2>1. Framed(to, F, E, s)  BY <1>2, FrameSorted
  <2>2. QED  BY <2>1 DEF Framed
<1>6. /\ stream'.out \in Seq(Held)
      /\ \A x \in stream.base[Mls] + 1..to[Mls] : In(<<Mls, x>>, stream'.out)
      /\ \A k \in 1..Len(stream'.out) : Dep(stream'.out[k]) <= stream.base[Mls]
           \/ \E i \in 1..(k - 1) : stream'.out[i] = <<Mls, Dep(stream'.out[k])>>
  BY <1>2, FrameCausal
<1>7. stream \in [open : BOOLEAN, base : Clock, clock : Clock, at : Clock, out : Seq(Held)]
  BY <1>1 DEF TypeOK
<1>8. /\ stream'.open = stream.open /\ stream'.base = stream.base /\ stream'.at = to
      /\ stream'.clock = s.clock
      /\ stream' \in [open : BOOLEAN, base : Clock, clock : Clock, at : Clock, out : Seq(Held)]
  <2>1. stream' = [stream EXCEPT !.clock = s.clock, !.at = to, !.out = @ \o s.sorted]
    BY <1>2 DEF Frame
  <2>2. to \in Clock /\ s.clock \in Clock  BY <1>2, <1>5 DEF Frame, Result
  <2>3. PICK u : u = stream.out \o s.sorted  OBVIOUS
  <2>4. stream' = [stream EXCEPT !.clock = s.clock, !.at = to, !.out = u]  BY <2>1, <2>3
  <2>5. stream'.out = u  BY <1>7, <2>4
  <2>6. u \in Seq(Held)  BY <1>6, <2>5
  <2>7. QED  BY <1>7, <2>2, <2>4, <2>6
<1>9. TypeOK'  BY <1>1, <1>3, <1>4, <1>8 DEF TypeOK
<1>10. Network'
  <2>1. ASSUME NEW o \in All PROVE stream.base[o] <= to[o] /\ to[o] <= node[o]
    <3>1. stream.base[o] \in Nat /\ stream.at[o] \in Nat /\ to[o] \in Nat
          /\ stream.at[o] <= to[o] /\ to[o] <= node[o]
      BY <1>1, <1>2, JobTypes DEF Frame, Clock
    <3>2. stream.base[o] <= stream.at[o]  BY <1>1 DEF Network
    <3>3. QED  BY <3>1, <3>2
  <2>2. QED  BY <1>1, <1>3, <1>8, <2>1 DEF Network, Bound
<1>11. Iced'
  <2>1. icebox' \subseteq icebox \union ToSet(s.missed)  BY <1>2 DEF Frame, Prune
  <2>2. ASSUME NEW x \in ToSet(s.missed) PROVE x \in Held /\ ~IsCommit(x)
    <3>1. s.missed \in Seq(E)  BY <1>5 DEF Result
    <3>2. In(x, s.missed)  BY <2>2, <3>1, InSet
    <3>3. x \in E  BY <3>1, <3>2 DEF In
    <3>4. QED  BY <1>5, <3>2, <3>3 DEF Result
  <2>3. QED  BY <1>1, <1>4, <2>1, <2>2 DEF Iced, IsCommit
<1>12. JobInv'
  <2>1. Whole' = Whole /\ First' = First  BY <1>3 DEF Whole, First
  <2>2. Met(job.envelopes, cursor[Mls])'
    <3>1. Met(job.envelopes, cursor[Mls])  BY <1>1 DEF JobInv
    <3>2. QED  BY <1>3, <1>4, <3>1 DEF Met, IsCommit
  <2>3. NoGap(job.envelopes, Whole \union First, cursor)'
    BY <1>1, <1>3, <2>1 DEF JobInv, NoGap, Smaller
  <2>4. (job.phase = "resolve" => job.missing # << >> /\ job.clock \in Clock
           /\ Clocked(Pass(job), cursor))'
    BY <1>1, <1>3, <1>4 DEF JobInv, Clocked, Pass, Dominates, IsCommit
  <2>5. QED  BY <2>2, <2>3, <2>4 DEF JobInv
<1>13. DoneInv'
  <2>1. Whole' = Whole  BY DEF Whole
  <2>2. InCausalOrder'  BY <1>1, <1>3, <1>4 DEF DoneInv, InCausalOrder, Covered, IsCommit
  <2>3. QED  BY <1>1, <1>3, <2>1, <2>2 DEF DoneInv, Covered, IsCommit
<1>14. StreamInv'
  <2>1. DOMAIN stream'.out = 1..Len(stream'.out)  BY <1>6
  <2>2. StreamCausal'  BY <1>4, <1>6, <1>8, <2>1 DEF StreamCausal
  <2>3. QED  BY <1>5, <1>6, <1>8, <2>2 DEF StreamInv
<1>15. FreshInv'  BY <1>2, FrameFresh
<1>16. QED  BY <1>9, <1>10, <1>11, <1>12, <1>13, <1>14, <1>15 DEF OrderInv

(* Every step keeps the invariant. *)
LEMMA OrderStep == OrderInv /\ [Next]_vars => OrderInv'
<1> SUFFICES ASSUME OrderInv, [Next]_vars PROVE OrderInv'  OBVIOUS
<1>1. ASSUME NEW o \in All, Publish(o) PROVE OrderInv'  BY <1>1, PublishOrder
<1>2. ASSUME NEW o \in All, Replicate(o) PROVE OrderInv'  BY <1>2, ReplicateOrder
<1>3. CASE SyncQuery  BY <1>3, SyncQueryOrder
<1>4. CASE SyncResolve  BY <1>4, SyncResolveOrder
<1>5. CASE SyncFails  BY <1>5, IdleOrder DEF SyncFails
<1>6. CASE SyncProcess  BY <1>6, SyncProcessOrder
<1>7. CASE SyncEnds  BY <1>7, IdleOrder DEF SyncEnds
<1>8. CASE Subscribe  BY <1>8, SubscribeOrder
<1>9. CASE StreamFrame  BY <1>9, StreamFrameOrder
<1>10. CASE UNCHANGED vars
  <2>1. UNCHANGED <<log, node, cursor, icebox, done, job, stream, used>>  BY <1>10 DEF vars
  <2>2. Held' = Held /\ \A e : Dep(e)' = Dep(e)  BY <2>1, NodeSame
  <2>3. TypeOK /\ Network /\ Iced  BY DEF OrderInv
  <2>4. TypeOK'  BY <2>1, <2>2, <2>3 DEF TypeOK
  <2>5. Network'  BY <2>1, <2>3 DEF Network, Bound
  <2>6. Iced'  BY <2>1, <2>2, <2>3 DEF Iced, IsCommit
  <2>7. JobInv' /\ DoneInv' /\ StreamInv' /\ FreshInv'  BY <2>1, <2>2, SameDeps
  <2>8. QED  BY <2>4, <2>5, <2>6, <2>7 DEF OrderInv
<1>11. QED
  BY <1>1, <1>2, <1>3, <1>4, <1>5, <1>6, <1>7, <1>8, <1>9, <1>10 DEF Next

-----------------------------------------------------------------------------
(* The theorems *)

(* Types, what the network has in order, what the list under way and the    *)
(* processed ones satisfy, and the subscription: in every reachable state,  *)
(* for any number of originators, any page and any bounds.                  *)
THEOREM EnvelopesOrdered == Spec => []OrderInv
<1>1. OrderInv /\ [Next]_vars => OrderInv'  BY OrderStep
<1>2. QED  BY InitOrder, <1>1, PTL DEF Spec

(* The sync processes no envelope before the commit it depends on, or,      *)
(* once the resolver was asked, a newer one in its place (process_messages  *)
(* after order).                                                            *)
THEOREM SyncInCausalOrder == Spec => []InCausalOrder
<1>1. OrderInv => InCausalOrder  BY DEF OrderInv, DoneInv
<1>2. QED  BY <1>1, EnvelopesOrdered, PTL

(* A subscription hands out no envelope before the commit it depends on,    *)
(* unless that commit was past when it started (OrderedStream).             *)
THEOREM SubscriptionInCausalOrder == Spec => []StreamCausal
<1>1. OrderInv => StreamCausal  BY DEF OrderInv, StreamInv
<1>2. QED  BY <1>1, EnvelopesOrdered, PTL

(* A subscription that has been sent everything before the first sync has   *)
(* handed out everything whose dependency is on the node: the icebox holds  *)
(* what waits, and gives it back.                                           *)
THEOREM SubscriptionComplete == Spec => []StreamComplete
<1>1. ASSUME OrderInv PROVE StreamComplete
  <2>1. TypeOK /\ Network /\ FreshInv  BY <1>1 DEF OrderInv
  <2>2. SUFFICES ASSUME stream.open, stream.at = node, used.syncs = 0,
                        NEW e \in After(stream.base), Dep(e) <= node[Mls]
                 PROVE  e \in ToSet(stream.out)
    BY DEF StreamComplete
  <2>3. stream.base \in Clock /\ stream.out \in Seq(Held)  BY <2>1, JobTypes
  <2>4. e \in Held /\ e[2] > stream.base[e[1]]  BY <2>1, <2>2, <2>3, AfterFacts
  <2>5. e = <<e[1], e[2]>> /\ e[1] \in All /\ e[2] \in Nat /\ e[2] <= node[e[1]]
        /\ Dep(e) \in Nat
    BY <2>1, <2>4, HeldFacts
  <2>6. /\ stream.base[e[1]] \in Nat /\ node[e[1]] \in Nat /\ node[Mls] \in Nat
    BY <2>1, <2>3, <2>5, Naturals DEF Clock, TypeOK
  <2>7. e[2] \in stream.base[e[1]] + 1..stream.at[e[1]]  BY <2>2, <2>4, <2>5, <2>6
  <2>8. In(<<e[1], e[2]>>, stream.out) \/ Kept0(e[1], e[2])
    BY <2>1, <2>2, <2>5, <2>7 DEF FreshInv
  <2>9. ~Kept0(e[1], e[2])  BY <2>2, <2>5, <2>6 DEF Kept0
  <2>10. In(e, stream.out)  BY <2>5, <2>8, <2>9
  <2>11. QED  BY <2>3, <2>10, InSet
<1>2. OrderInv => StreamComplete  BY <1>1
<1>3. QED  BY <1>2, EnvelopesOrdered, PTL

(* What NothingSkipped says of the commits. *)
CommitsCovered == \A s \in 1..cursor[Mls] : Covered(s, ToSet(done))

(* The cursor of the commits never passes one that was not processed,       *)
(* unless the resolver was asked and a newer one took its place; with       *)
(* pages of any size.                                                       *)
THEOREM CommitsNotSkipped == Spec => []CommitsCovered
<1>1. OrderInv => CommitsCovered  BY DEF OrderInv, DoneInv, CommitsCovered
<1>2. QED  BY <1>1, EnvelopesOrdered, PTL

(* With senders at one epoch behind each originator, and pages that hold    *)
(* everything, no cursor ever passes an envelope that was not processed     *)
(* (process_message would skip it, prune_icebox delete it).                 *)
THEOREM SyncSkipsNothing ==
  ASSUME Monotone, WholePages
  PROVE  Spec => []NothingSkipped
<1>1. Whole = Origs  BY DEF Whole
<1>2. OrderInv => NothingSkipped  BY <1>1 DEF OrderInv, DoneInv, NothingSkipped
<1>3. QED  BY <1>2, EnvelopesOrdered, PTL
=============================================================================
