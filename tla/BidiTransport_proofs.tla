------------------------ MODULE BidiTransport_proofs ------------------------
(***************************************************************************)
(* What holds of BidiTransport as long as no wire dies and the app does    *)
(* not suspend the transport.                                              *)
(*                                                                         *)
(* First come lists, and for each operator of the ledger what it changes;  *)
(* then, for every handler, that it keeps the invariants of BidiInv.       *)
(***************************************************************************)
EXTENDS BidiInv, FiniteSetTheorems, SequenceTheorems, WellFoundedInduction, TLAPS

-----------------------------------------------------------------------------
(* Lists *)

(* Induction over 0..N, for a set. *)
LEMMA UpTo ==
  ASSUME NEW N \in Nat, NEW G, 0 \in G, \A n \in 1..N : n - 1 \in G => n \in G
  PROVE  \A n \in 0..N : n \in G
<1> DEFINE R == {ss \in Nat \X Nat : ss[1] < ss[2]}
           Bad == {n \in 0..N : n \notin G}
<1>1. IsWellFoundedOn(R, Nat)
  <2>1. R = OpToRel(<, Nat)  BY DEF OpToRel
  <2>2. IsWellFoundedOn(OpToRel(<, Nat), Nat)  BY NatLessThanWellFounded
  <2>3. QED  BY <2>1, <2>2
<1>2. SUFFICES ASSUME Bad # {} PROVE FALSE  OBVIOUS
<1>3. Bad \subseteq Nat  OBVIOUS
<1>4. PICK m \in Bad : \A n \in Bad : ~(<<n, m>> \in R)
  <2> HIDE DEF R, Bad
  <2>1. QED  BY <1>1, <1>2, <1>3, WFMin
<1>5. m \in 1..N /\ m - 1 \in 0..N /\ m - 1 < m  BY <1>4
<1>6. m - 1 \notin Bad
  <2>1. <<m - 1, m>> \in R  BY <1>5
  <2>2. QED  BY <1>4, <2>1
<1>7. QED  BY <1>4, <1>5, <1>6

LEMMA Prefix ==
  ASSUME NEW T, NEW q \in Seq(T), NEW n \in 0..Len(q)
  PROVE  /\ SubSeq(q, 1, n) \in Seq(T) /\ Len(SubSeq(q, 1, n)) = n
         /\ \A k \in 1..n : SubSeq(q, 1, n)[k] = q[k]
<1>0. Len(q) \in Nat  OBVIOUS
<1>1. \A i \in 1..n : q[i] \in T  BY <1>0
<1>2. /\ SubSeq(q, 1, n) \in Seq(T)
      /\ Len(SubSeq(q, 1, n)) = IF 1 <= n THEN n - 1 + 1 ELSE 0
      /\ \A k \in 1..n - 1 + 1 : SubSeq(q, 1, n)[k] = q[1 + k - 1]
  BY <1>0, <1>1, SubSeqProperties
<1>3. IF 1 <= n THEN n - 1 + 1 = n ELSE n = 0  BY <1>0
<1>4. \A k \in 1..n : k \in 1..n - 1 + 1 /\ 1 + k - 1 = k  BY <1>0
<1>5. QED  BY <1>2, <1>3, <1>4

(* r is made of the members of q that are in S, in the order of q; h says   *)
(* where they stood.                                                        *)
Picked(r, q, S, h) ==
  /\ h \in [1..Len(r) -> 1..Len(q)]
  /\ \A i, j \in 1..Len(r) : i < j => h[i] < h[j]
  /\ \A i \in 1..Len(r) : r[i] = q[h[i]] /\ r[i] \in S
  /\ \A k \in 1..Len(q) : q[k] \in S => \E i \in 1..Len(r) : h[i] = k

PickedOf(r, q, S) == \E h : Picked(r, q, S, h)

(* One more member. *)
LEMMA PickOne ==
  ASSUME NEW T, NEW q \in Seq(T), NEW S, NEW n \in 1..Len(q), NEW r \in Seq(T),
         PickedOf(r, SubSeq(q, 1, n - 1), S), NEW r2,
         r2 = IF q[n] \in S THEN Append(r, q[n]) ELSE r
  PROVE  r2 \in Seq(T) /\ PickedOf(r2, SubSeq(q, 1, n), S)
<1>0. n \in Nat /\ n - 1 \in Nat /\ n <= Len(q) /\ q[n] \in T /\ Len(r) \in Nat /\ Len(q) \in Nat
  OBVIOUS
<1> DEFINE p == SubSeq(q, 1, n - 1)
           p2 == SubSeq(q, 1, n)
<1>1. p \in Seq(T) /\ Len(p) = n - 1 /\ \A k \in 1..n - 1 : p[k] = q[k]
  <2>1. n - 1 \in 0..Len(q)  BY <1>0
  <2>2. QED  BY <2>1, Prefix
<1>2. p2 \in Seq(T) /\ Len(p2) = n /\ \A k \in 1..n : p2[k] = q[k]
  <2>1. n \in 0..Len(q)  BY <1>0
  <2>2. QED  BY <2>1, Prefix
<1>3. PICK h : Picked(r, p, S, h)  BY DEF PickedOf
<1> SUFFICES r2 \in Seq(T) /\ PickedOf(r2, p2, S)  OBVIOUS
<1> HIDE DEF p, p2
<1>4. r2 \in Seq(T)  BY <1>0
<1>5. CASE q[n] \in S
  <2>1. /\ r2 = Append(r, q[n]) /\ Len(r2) = Len(r) + 1 /\ r2[Len(r) + 1] = q[n]
        /\ \A i \in 1..Len(r) : r2[i] = r[i]
    BY <1>5, <1>0
  <2> DEFINE g == [i \in 1..Len(r) + 1 |-> IF i = Len(r) + 1 THEN n ELSE h[i]]
  <2>2. \A i \in 1..Len(r) + 1 : i # Len(r) + 1 => i \in 1..Len(r)  BY <1>0
  <2>3. \A i \in 1..Len(r) : h[i] \in 1..n - 1 /\ h[i] \in 1..n /\ h[i] < n
    <3>1. h \in [1..Len(r) -> 1..n - 1]  BY <1>1, <1>3 DEF Picked
    <3>2. \A x \in 1..n - 1 : x \in 1..n /\ x < n  BY <1>0
    <3>3. QED  BY <3>1, <3>2
  <2>4. g \in [1..Len(r2) -> 1..Len(p2)]  BY <1>0, <1>2, <2>1, <2>2, <2>3
  <2>5. \A i, j \in 1..Len(r2) : i < j => g[i] < g[j]
    <3>1. ASSUME NEW i \in 1..Len(r2), NEW j \in 1..Len(r2), i < j PROVE g[i] < g[j]
      <4>1. i \in 1..Len(r) /\ g[i] = h[i]  BY <1>0, <2>1, <3>1
      <4>2. CASE j = Len(r) + 1  BY <2>3, <4>1, <4>2, <2>1
      <4>3. CASE j # Len(r) + 1
        <5>1. j \in 1..Len(r) /\ g[j] = h[j]  BY <2>1, <2>2, <4>3
        <5>2. QED  BY <1>3, <3>1, <4>1, <5>1 DEF Picked
      <4>4. QED  BY <4>2, <4>3
    <3>2. QED  BY <3>1
  <2>6. \A i \in 1..Len(r2) : r2[i] = p2[g[i]] /\ r2[i] \in S
    <3>1. ASSUME NEW i \in 1..Len(r2) PROVE r2[i] = p2[g[i]] /\ r2[i] \in S
      <4>1. CASE i = Len(r) + 1  BY <1>0, <1>2, <1>5, <2>1, <4>1
      <4>2. CASE i # Len(r) + 1
        <5>1. i \in 1..Len(r) /\ g[i] = h[i] /\ r2[i] = r[i]  BY <2>1, <2>2, <4>2
        <5>2. r[i] = p[h[i]] /\ r[i] \in S  BY <1>3, <5>1 DEF Picked
        <5>3. QED  BY <1>1, <1>2, <2>3, <5>1, <5>2
      <4>3. QED  BY <4>1, <4>2
    <3>2. QED  BY <3>1
  <2>7. \A k \in 1..Len(p2) : p2[k] \in S => \E i \in 1..Len(r2) : g[i] = k
    <3>1. ASSUME NEW k \in 1..Len(p2), p2[k] \in S PROVE \E i \in 1..Len(r2) : g[i] = k
      <4>1. CASE k = n
        <5>1. Len(r) + 1 \in 1..Len(r2) /\ g[Len(r) + 1] = n  BY <1>0, <2>1
        <5>2. QED  BY <4>1, <5>1
      <4>2. CASE k # n
        <5>1. k \in 1..Len(p) /\ p[k] = p2[k]  BY <1>0, <1>1, <1>2, <4>2
        <5>2. PICK i \in 1..Len(r) : h[i] = k  BY <1>3, <3>1, <5>1 DEF Picked
        <5>3. i \in 1..Len(r2) /\ g[i] = h[i]  BY <1>0, <2>1
        <5>4. QED  BY <5>2, <5>3
      <4>3. QED  BY <4>1, <4>2
    <3>2. QED  BY <3>1
  <2> HIDE DEF g
  <2>8. Picked(r2, p2, S, g)  BY <2>4, <2>5, <2>6, <2>7 DEF Picked
  <2>9. QED  BY <1>2, <1>4, <2>8 DEF PickedOf
<1>6. CASE q[n] \notin S
  <2>1. r2 = r  BY <1>6
  <2>2. h \in [1..Len(r2) -> 1..Len(p2)]
    <3>1. 1..Len(p) \subseteq 1..Len(p2)  BY <1>0, <1>1, <1>2
    <3>2. QED  BY <1>3, <2>1, <3>1 DEF Picked
  <2>3. \A i \in 1..Len(r2) : r2[i] = p2[h[i]] /\ r2[i] \in S
    <3>1. ASSUME NEW i \in 1..Len(r2) PROVE r2[i] = p2[h[i]] /\ r2[i] \in S
      <4>1. h[i] \in 1..Len(p) /\ r[i] = p[h[i]] /\ r[i] \in S  BY <1>3, <2>1 DEF Picked
      <4>2. h[i] \in 1..n - 1 /\ h[i] \in 1..n  BY <1>0, <1>1, <4>1
      <4>3. p2[h[i]] = p[h[i]]
        <5>1. \A k \in 1..n - 1 : k \in 1..n => p2[k] = p[k]  BY <1>1, <1>2
        <5>2. QED  BY <4>2, <5>1
      <4>4. QED  BY <2>1, <4>1, <4>3
    <3>2. QED  BY <3>1
  <2>4. \A k \in 1..Len(p2) : p2[k] \in S => \E i \in 1..Len(r2) : h[i] = k
    <3>1. ASSUME NEW k \in 1..Len(p2), p2[k] \in S PROVE \E i \in 1..Len(r2) : h[i] = k
      <4>1. k # n  BY <1>2, <1>0, <1>6, <3>1
      <4>2. k \in 1..Len(p) /\ p[k] = p2[k]  BY <1>0, <1>1, <1>2, <4>1
      <4>3. QED  BY <1>3, <2>1, <3>1, <4>2 DEF Picked
    <3>2. QED  BY <3>1
  <2>5. Picked(r2, p2, S, h)  BY <1>3, <2>1, <2>2, <2>3, <2>4 DEF Picked
  <2>6. QED  BY <1>2, <1>4, <2>5 DEF PickedOf
<1>7. QED  BY <1>5, <1>6

(* Among keeps what is in S, in its order. *)
LEMMA AmongPicks ==
  ASSUME NEW T, NEW q \in Seq(T), NEW S
  PROVE  Among(q, S) \in Seq(T) /\ PickedOf(Among(q, S), q, S)
<1> DEFINE N == Len(q)
           Step(n, x) == IF q[n] \in S THEN Append(x, q[n]) ELSE x
           Body(f) == [n \in 0..N |-> IF n = 0 THEN << >>
                                      ELSE IF q[n] \in S THEN Append(f[n - 1], q[n]) ELSE f[n - 1]]
           Part(f, m) == f = [n \in 0..m |-> IF n = 0 THEN << >> ELSE Step(n, f[n - 1])]
           Some == {m \in 0..N : \E f : Part(f, m)}
<1>1. N \in Nat  OBVIOUS
<1>2. 0 \in Some
  <2>1. Part([n \in 0..0 |-> << >>], 0)  OBVIOUS
  <2> HIDE DEF Part
  <2>2. QED  BY <1>1, <2>1
<1>3. ASSUME NEW m \in 1..N, m - 1 \in Some PROVE m \in Some
  <2>1. PICK f : Part(f, m - 1)  BY <1>3
  <2> DEFINE g == [n \in 0..m |-> IF n = m THEN Step(m, f[m - 1]) ELSE f[n]]
  <2> HIDE DEF Step
  <2>2. m \in Nat /\ m # 0 /\ m - 1 \in 0..m /\ m - 1 # m  BY <1>1
  <2>3. \A n \in 0..m : g[n] = IF n = 0 THEN << >> ELSE Step(n, g[n - 1])
    <3>1. ASSUME NEW n \in 0..m, n # 0 PROVE g[n - 1] = f[n - 1]  BY <1>1, <3>1
    <3>2. ASSUME NEW n \in 0..m, n # m PROVE n \in 0..m - 1  BY <1>1, <3>2
    <3>3. \A n \in 0..m - 1 : f[n] = IF n = 0 THEN << >> ELSE Step(n, f[n - 1])
      BY <2>1
    <3>4. QED  BY <2>2, <3>1, <3>2, <3>3
  <2>4. Part(g, m)  BY <2>3
  <2> HIDE DEF Part
  <2>5. QED  BY <1>3, <2>4
<1>4. \A m \in 0..N : m \in Some
  <2> HIDE DEF Some, N
  <2>1. QED  BY <1>1, <1>2, <1>3, UpTo
<1>5. PICK f : Part(f, N)
  <2> HIDE DEF Part
  <2>1. N \in Some  BY <1>1, <1>4
  <2>2. QED  BY <2>1
<1>6. f = Body(f)  BY <1>5
<1> DEFINE h == CHOOSE h : h = Body(h)
<1>7. h = Body(h)
  <2> HIDE DEF Body
  <2>1. QED  BY <1>6
<1>8. Among(q, S) = h[N]  BY DEF Among
<1> DEFINE G == {n \in 0..N : h[n] \in Seq(T) /\ PickedOf(h[n], SubSeq(q, 1, n), S)}
<1> HIDE DEF h
<1>9. 0 \in G
  <2>1. h[0] = << >>  BY <1>1, <1>7
  <2>2. SubSeq(q, 1, 0) = << >>  OBVIOUS
  <2>3. Picked(<< >>, << >>, S, [i \in 1..0 |-> 0])  BY DEF Picked
  <2>4. PickedOf(h[0], SubSeq(q, 1, 0), S)  BY <2>1, <2>2, <2>3 DEF PickedOf
  <2>5. h[0] \in Seq(T)  BY <2>1, EmptySeq
  <2>6. QED  BY <1>1, <2>4, <2>5
<1>10. ASSUME NEW n \in 1..N, n - 1 \in G PROVE n \in G
  <2>1. h[n] = IF q[n] \in S THEN Append(h[n - 1], q[n]) ELSE h[n - 1]
    <3>1. n \in 0..N /\ n # 0  BY <1>1
    <3>2. QED  BY <1>7, <3>1
  <2>2. h[n - 1] \in Seq(T) /\ PickedOf(h[n - 1], SubSeq(q, 1, n - 1), S)  BY <1>10
  <2>3. h[n] \in Seq(T) /\ PickedOf(h[n], SubSeq(q, 1, n), S)  BY <2>1, <2>2, PickOne
  <2>4. QED  BY <1>1, <2>3
<1>11. N \in G
  <2> HIDE DEF G, N
  <2>1. \A n \in 0..N : n \in G  BY <1>1, <1>9, <1>10, UpTo
  <2>2. QED  BY <1>1, <2>1
<1>12. SubSeq(q, 1, N) = q  OBVIOUS
<1>13. QED  BY <1>8, <1>11, <1>12

(* What all or nothing of is in S. *)
LEMMA AmongAll ==
  ASSUME NEW T, NEW q \in Seq(T), NEW S, \A i \in 1..Len(q) : q[i] \in S
  PROVE  Among(q, S) = q
<1>1. PICK r \in Seq(T) : r = Among(q, S) /\ PickedOf(r, q, S)  BY AmongPicks
<1>2. PICK h : Picked(r, q, S, h)  BY <1>1 DEF PickedOf
<1>3. PICK m \in Nat, n \in Nat : m = Len(r) /\ n = Len(q)  OBVIOUS
<1> DEFINE G == {k \in 0..n : k <= m /\ \A i \in 1..k : h[i] = i}
<1>4. 0 \in G  BY <1>3
<1>5. ASSUME NEW k \in 1..n, k - 1 \in G PROVE k \in G
  <2>1. PICK i \in 1..m : h[i] = k  BY <1>2, <1>3 DEF Picked
  <2>2. ~(i < k)
    <3>1. ASSUME i < k PROVE FALSE
      <4>1. i \in 1..k - 1 /\ k - 1 \in Nat  BY <1>3, <3>1
      <4>2. h[i] = i  BY <1>5, <4>1
      <4>3. QED  BY <2>1, <3>1, <4>2
    <3>2. QED  BY <3>1
  <2>3. k \in 1..m /\ h[k] \in 1..n  BY <1>2, <1>3, <2>1, <2>2 DEF Picked
  <2>4. ~(h[k] < k)
    <3>1. ASSUME h[k] < k PROVE FALSE
      <4>1. h[k] \in 1..k - 1 /\ h[k] \in 1..m /\ h[k] \in Int  BY <1>3, <2>3, <3>1
      <4>2. h[h[k]] = h[k]  BY <1>5, <4>1
      <4>3. h[h[k]] < h[k]  BY <1>2, <1>3, <2>3, <3>1, <4>1 DEF Picked
      <4>4. QED  BY <4>1, <4>2, <4>3
    <3>2. QED  BY <3>1
  <2>5. k < i => h[k] < h[i]  BY <1>2, <1>3, <2>1, <2>3 DEF Picked
  <2>6. h[k] = k  BY <1>3, <2>1, <2>2, <2>3, <2>4, <2>5
  <2>7. \A j \in 1..k : j = k \/ j \in 1..k - 1  BY <1>3
  <2>8. QED  BY <1>5, <2>3, <2>6, <2>7
<1>6. n \in G
  <2> HIDE DEF G
  <2>1. \A k \in 0..n : k \in G  BY <1>4, <1>5, UpTo
  <2>2. QED  BY <2>1
<1>7. m = n
  <2>1. ASSUME n < m PROVE FALSE
    <3>1. n + 1 \in 1..m /\ h[n + 1] \in 1..n  BY <1>2, <1>3, <2>1 DEF Picked
    <3>2. h[n + 1] \in 1..m /\ h[n + 1] < n + 1 /\ h[n + 1] \in Int  BY <1>3, <2>1, <3>1
    <3>3. h[h[n + 1]] = h[n + 1]  BY <1>6, <3>1
    <3>4. h[h[n + 1]] < h[n + 1]  BY <1>2, <1>3, <3>1, <3>2 DEF Picked
    <3>5. QED  BY <3>2, <3>3, <3>4
  <2>2. QED  BY <1>6, <2>1
<1>8. \A i \in 1..n : r[i] = q[i]  BY <1>2, <1>3, <1>6, <1>7 DEF Picked
<1>9. r = q  BY <1>3, <1>7, <1>8, SeqEqual
<1>10. QED  BY <1>1, <1>9

LEMMA AmongNone ==
  ASSUME NEW T, NEW q \in Seq(T), NEW S, \A i \in 1..Len(q) : q[i] \notin S
  PROVE  Among(q, S) = << >>
<1>1. PICK r \in Seq(T) : r = Among(q, S) /\ PickedOf(r, q, S)  BY AmongPicks
<1>2. PICK h : Picked(r, q, S, h)  BY <1>1 DEF PickedOf
<1>3. \A i \in 1..Len(r) : FALSE  BY <1>2 DEF Picked
<1>4. Len(r) = 0
  <2>1. Len(r) \in Nat  OBVIOUS
  <2>2. QED  BY <1>3, <2>1
<1>5. r = << >>  BY <1>4, EmptySeq
<1>6. QED  BY <1>1, <1>5

-----------------------------------------------------------------------------
(* Runs of cursors *)

(* The cursors right above a, without a gap. *)
IsRun(q, a) == \A i \in 1..Len(q) : q[i] = a + i

IsRising(q) == \A i, j \in 1..Len(q) : i < j => q[i] < q[j]

(* A rising list that holds all of a+1..b and nothing else. *)
LEMMA RisingIsRun ==
  ASSUME NEW q \in Seq(Nat), IsRising(q), NEW a \in Nat, NEW b \in Nat,
         \A i \in 1..Len(q) : q[i] \in a + 1..b,
         \A c \in a + 1..b : \E i \in 1..Len(q) : q[i] = c
  PROVE  IsRun(q, a) /\ (a <= b => Len(q) = b - a) /\ (b <= a => q = << >>)
<1>0. PICK n \in Nat : n = Len(q)  OBVIOUS
<1>1. CASE b <= a
  <2>1. \A i \in 1..n : FALSE  BY <1>0, <1>1
  <2>2. n = 0  BY <2>1
  <2>3. q = << >>  BY <1>0, <2>2, EmptySeq
  <2>4. QED  BY <1>0, <1>1, <2>2, <2>3 DEF IsRun
<1>2. CASE a < b
  <2>0. PICK m \in Nat : b = a + m  BY <1>2
  <2> DEFINE G == {k \in 0..m : k <= n /\ \A i \in 1..k : q[i] = a + i}
  <2>1. m \in Nat /\ 0 \in G  BY <2>0
  <2>2. ASSUME NEW k \in 1..m, k - 1 \in G PROVE k \in G
    <3>1. a + k \in a + 1..b /\ k \in Nat  BY <2>0
    <3>2. PICK i \in 1..n : q[i] = a + k  BY <1>0, <3>1
    <3>3. ~(i < k)
      <4>1. ASSUME i < k PROVE FALSE
        <5>1. i \in 1..k - 1  BY <3>1, <4>1
        <5>2. q[i] = a + i  BY <2>2, <5>1
        <5>3. QED  BY <3>1, <3>2, <4>1, <5>2
      <4>2. QED  BY <4>1
    <3>4. k \in 1..n /\ q[k] \in Nat /\ a + 1 <= q[k]  BY <1>0, <3>1, <3>2, <3>3
    <3>5. q[k] <= a + k
      <4>1. CASE k < i
        <5>1. q[k] < q[i]  BY <1>0, <3>4, <4>1 DEF IsRising
        <5>2. QED  BY <3>1, <3>2, <3>4, <5>1
      <4>2. CASE k = i  BY <3>1, <3>2, <4>2
      <4>3. QED  BY <3>1, <3>3, <4>1, <4>2
    <3>6. a + k <= q[k]
      <4>1. CASE k = 1  BY <1>2, <3>4, <4>1
      <4>2. CASE k # 1
        <5>1. k - 1 \in 1..k - 1 /\ k - 1 \in 1..n /\ k - 1 < k  BY <3>1, <3>4, <4>2
        <5>2. q[k - 1] = a + (k - 1)  BY <2>2, <5>1
        <5>3. q[k - 1] < q[k]  BY <1>0, <3>4, <5>1 DEF IsRising
        <5>4. \A v \in Nat : a + (k - 1) < v => a + k <= v  BY <3>1
        <5>5. QED  BY <3>4, <5>2, <5>3, <5>4
      <4>3. QED  BY <4>1, <4>2
    <3>7. q[k] = a + k
      <4>1. \A v \in Nat : v <= a + k /\ a + k <= v => v = a + k  BY <3>1
      <4>2. QED  BY <3>4, <3>5, <3>6, <4>1
    <3>8. \A j \in 1..k : j = k \/ j \in 1..k - 1  BY <3>1
    <3>9. \A j \in 1..k - 1 : q[j] = a + j  BY <2>2
    <3>10. k \in 0..m /\ k <= n  BY <3>4
    <3>11. QED  BY <3>7, <3>8, <3>9, <3>10
  <2>3. m \in G
    <3> HIDE DEF G
    <3>1. \A k \in 0..m : k \in G  BY <2>1, <2>2, UpTo
    <3>2. QED  BY <2>1, <3>1
  <2>4. n = m
    <3>1. ASSUME m < n PROVE FALSE
      <4>1. m + 1 \in 1..n /\ m \in 1..m /\ m \in 1..n /\ m < m + 1  BY <1>2, <2>0, <3>1
      <4>2. q[m] = b  BY <2>0, <2>3, <4>1
      <4>3. q[m] < q[m + 1]  BY <1>0, <4>1 DEF IsRising
      <4>4. q[m + 1] \in a + 1..b  BY <1>0, <4>1
      <4>5. \A v \in a + 1..b : ~(b < v)  OBVIOUS
      <4>6. QED  BY <4>2, <4>3, <4>4, <4>5
    <3>2. QED  BY <2>3, <3>1
  <2>5. Len(q) = b - a  BY <1>0, <2>0, <2>4
  <2>6. ~(b <= a)  BY <1>2
  <2>7. \A i \in 1..n : q[i] = a + i  BY <2>3, <2>4
  <2>8. QED  BY <1>0, <2>5, <2>6, <2>7 DEF IsRun
<1>3. QED  BY <1>1, <1>2

(* Filtering keeps a list rising. *)
LEMMA PickedRises ==
  ASSUME NEW q \in Seq(Nat), IsRising(q), NEW S
  PROVE  LET r == Among(q, S)
         IN /\ r \in Seq(Nat) /\ IsRising(r)
            /\ \A i \in 1..Len(r) : r[i] \in S /\ \E k \in 1..Len(q) : r[i] = q[k]
            /\ \A k \in 1..Len(q) : q[k] \in S => \E i \in 1..Len(r) : r[i] = q[k]
<1>1. PICK r \in Seq(Nat) : r = Among(q, S) /\ PickedOf(r, q, S)  BY AmongPicks
<1>2. PICK h : Picked(r, q, S, h)  BY <1>1 DEF PickedOf
<1>3. IsRising(r)
  <2>1. ASSUME NEW i \in 1..Len(r), NEW j \in 1..Len(r), i < j PROVE r[i] < r[j]
    <3>1. h[i] < h[j] /\ r[i] = q[h[i]] /\ r[j] = q[h[j]] /\ h[i] \in 1..Len(q) /\ h[j] \in 1..Len(q)
      BY <1>2, <2>1 DEF Picked
    <3>2. QED  BY <3>1 DEF IsRising
  <2>2. QED  BY <2>1 DEF IsRising
<1>4. \A i \in 1..Len(r) : r[i] \in S /\ \E k \in 1..Len(q) : r[i] = q[k]
  BY <1>2 DEF Picked
<1>5. \A k \in 1..Len(q) : q[k] \in S => \E i \in 1..Len(r) : r[i] = q[k]
  BY <1>2 DEF Picked
<1>6. QED  BY <1>1, <1>3, <1>4, <1>5

(* Two runs, one right after the other. *)
LEMMA RunAfterRun ==
  ASSUME NEW p \in Seq(Nat), NEW q \in Seq(Nat), NEW a \in Nat, IsRun(p, a), IsRun(q, a + Len(p))
  PROVE  p \o q \in Seq(Nat) /\ IsRun(p \o q, a) /\ Len(p \o q) = Len(p) + Len(q)
<1>0. PICK m \in Nat, n \in Nat : m = Len(p) /\ n = Len(q)  OBVIOUS
<1> DEFINE r == p \o q
<1>1. /\ r \in Seq(Nat) /\ Len(r) = m + n
      /\ \A i \in 1..m + n : r[i] = IF i <= m THEN p[i] ELSE q[i - m]
  BY <1>0, ConcatProperties
<1> SUFFICES r \in Seq(Nat) /\ IsRun(r, a) /\ Len(r) = Len(p) + Len(q)  OBVIOUS
<1> HIDE DEF r
<1>2. ASSUME NEW i \in 1..m + n PROVE r[i] = a + i
  <2>1. CASE i <= m
    <3>1. i \in 1..m  BY <2>1
    <3>2. QED  BY <1>0, <1>1, <2>1, <3>1 DEF IsRun
  <2>2. CASE ~(i <= m)
    <3>1. i - m \in 1..n /\ i \in Nat  BY <2>2
    <3>2. q[i - m] = (a + m) + (i - m)  BY <1>0, <3>1 DEF IsRun
    <3>3. QED  BY <1>1, <2>2, <3>1, <3>2
  <2>3. QED  BY <2>1, <2>2
<1>3. QED  BY <1>0, <1>1, <1>2 DEF IsRun

LEMMA RunAndOne ==
  ASSUME NEW p \in Seq(Nat), NEW a \in Nat, IsRun(p, a), NEW c, c = a + Len(p) + 1
  PROVE  Append(p, c) \in Seq(Nat) /\ IsRun(Append(p, c), a) /\ Len(Append(p, c)) = Len(p) + 1
<1>1. PICK m \in Nat : m = Len(p)  OBVIOUS
<1> DEFINE r == Append(p, c)
<1>2. r \in Seq(Nat) /\ Len(r) = m + 1 /\ r[m + 1] = c /\ \A i \in 1..m : r[i] = p[i]
  <2>1. c \in Nat  BY <1>1
  <2>2. QED  BY <1>1, <2>1, AppendProperties
<1> SUFFICES r \in Seq(Nat) /\ IsRun(r, a) /\ Len(r) = Len(p) + 1  OBVIOUS
<1> HIDE DEF r
<1>3. ASSUME NEW i \in 1..m + 1 PROVE r[i] = a + i
  <2>1. CASE i = m + 1  BY <1>1, <1>2, <2>1
  <2>2. CASE i \in 1..m  BY <1>1, <1>2, <2>2 DEF IsRun
  <2>3. QED  BY <2>1, <2>2
<1>4. QED  BY <1>1, <1>2, <1>3 DEF IsRun

-----------------------------------------------------------------------------
(* The least and the greatest *)
LEMMA MaxIn ==
  ASSUME NEW N \in Nat, NEW S \in SUBSET (0..N), S # {}
  PROVE  Max(S) \in S /\ \A y \in S : y <= Max(S)
<1> DEFINE G == {n \in 0..N : (\E x \in S : x <= n) =>
                     \E x \in S : \A y \in S : y <= n => y <= x}
<1>1. 0 \in G  OBVIOUS
<1>2. ASSUME NEW n \in 1..N, n - 1 \in G PROVE n \in G
  <2>1. CASE n \in S  BY <2>1
  <2>2. CASE n \notin S
    <3>1. \A y \in S : y <= n <=> y <= n - 1  BY <2>2
    <3>2. QED  BY <1>2, <3>1
  <2>3. QED  BY <2>1, <2>2
<1>3. N \in G
  <2> HIDE DEF G
  <2>1. \A n \in 0..N : n \in G  BY <1>1, <1>2, UpTo
  <2>2. QED  BY <2>1
<1>4. PICK x \in S : \A y \in S : y <= x
  <2>1. \A y \in S : y <= N  OBVIOUS
  <2>2. PICK x \in S : \A y \in S : y <= N => y <= x  BY <1>3, <2>1
  <2>3. QED  BY <2>1, <2>2
<1>5. \E z \in S : \A y \in S : z >= y  BY <1>4
<1>6. QED  BY <1>5 DEF Max

LEMMA MinIn ==
  ASSUME NEW S \in SUBSET Nat, S # {}
  PROVE  Min(S) \in S /\ \A y \in S : Min(S) <= y
<1> DEFINE R == {ss \in Nat \X Nat : ss[1] < ss[2]}
<1>1. IsWellFoundedOn(R, Nat)
  <2>1. R = OpToRel(<, Nat)  BY DEF OpToRel
  <2>2. IsWellFoundedOn(OpToRel(<, Nat), Nat)  BY NatLessThanWellFounded
  <2>3. QED  BY <2>1, <2>2
<1>2. PICK m \in S : \A n \in S : ~(<<n, m>> \in R)
  <2> HIDE DEF R
  <2>1. QED  BY <1>1, WFMin
<1>3. \A n \in S : m <= n
  <2>1. ASSUME NEW n \in S, ~(m <= n) PROVE FALSE
    <3>1. <<n, m>> \in R  BY <2>1
    <3>2. QED  BY <1>2, <3>1
  <2>2. QED  BY <2>1
<1>4. QED  BY <1>3 DEF Min

-----------------------------------------------------------------------------
(* Add-sets as waves *)

(* Every member of a finite set is listed, once. *)
LEMMA Listed ==
  ASSUME NEW S, IsFiniteSet(S)
  PROVE  LET q == SetToSeq(S)
         IN /\ q \in Seq(S) /\ Len(q) = Cardinality(S) /\ Cardinality(S) \in Nat
            /\ \A x \in S : \E i \in 1..Len(q) : q[i] = x
            /\ \A i, j \in 1..Len(q) : q[i] = q[j] => i = j
<1> DEFINE N == Cardinality(S)
           P(f) == f \in [1..N -> S] /\ IsInjective(f)
<1>1. N \in Nat /\ ExistsBijection(1..N, S)  BY FS_CardinalityType
<1>2. \E f : P(f)
  BY <1>1 DEF ExistsBijection, Bijection, Injection
<1>3. PICK q : q = SetToSeq(S) /\ P(q)
  BY <1>2 DEF SetToSeq
<1>4. q \in Seq(S) /\ Len(q) = N  BY <1>1, <1>3
<1>5. \A i, j \in 1..N : q[i] = q[j] => i = j  BY <1>3 DEF IsInjective
<1>6. q \in Surjection(1..N, S)
  <2>1. q \in Injection(1..N, S)  BY <1>3 DEF Injection
  <2>2. IsFiniteSet(1..N) /\ Cardinality(1..N) = N
    <3>1. Cardinality(1..N) = IF 1 > N THEN 0 ELSE N - 1 + 1  BY <1>1, FS_Interval
    <3>2. IsFiniteSet(1..N)  BY <1>1, FS_Interval
    <3>3. QED  BY <1>1, <3>1, <3>2
  <2>3. QED  BY <2>1, <2>2, FS_Injection
<1>7. \A x \in S : \E i \in 1..N : q[i] = x  BY <1>6 DEF Surjection
<1>8. QED  BY <1>1, <1>3, <1>4, <1>5, <1>7

(* Division, by what it bounds. *)
LEMMA DivBounds ==
  ASSUME NEW C \in Nat \ {0}, NEW a \in Nat
  PROVE  /\ a \div C \in Nat /\ C * (a \div C) <= a /\ a < C * (a \div C) + C
  OBVIOUS

LEMMA DivIs ==
  ASSUME NEW C \in Nat \ {0}, NEW a \in Nat, NEW q \in Nat, C * q <= a, a < C * q + C
  PROVE  a \div C = q
<1>1. PICK p \in Nat : p = a \div C /\ C * p <= a /\ a < C * p + C  BY DivBounds
<1>2. ASSUME NEW u \in Nat, NEW v \in Nat, u < v PROVE C * u + C <= C * v
  <2>1. PICK d \in Nat : v = u + 1 + d  BY <1>2
  <2>2. C * v = C * u + C + C * d  BY <2>1
  <2>3. C * d \in Nat  OBVIOUS
  <2>4. C * u \in Nat  OBVIOUS
  <2>5. QED  BY <2>2, <2>3, <2>4
<1>3. C * p \in Nat /\ C * q \in Nat  OBVIOUS
<1>4. ~(p < q)
  <2>1. ASSUME p < q PROVE FALSE
    <3>1. C * p + C <= C * q  BY <1>2, <2>1
    <3>2. QED  BY <1>1, <1>3, <3>1
  <2>2. QED  BY <2>1
<1>5. ~(q < p)
  <2>1. ASSUME q < p PROVE FALSE
    <3>1. C * q + C <= C * p  BY <1>2, <2>1
    <3>2. QED  BY <1>1, <1>3, <3>1
  <2>2. QED  BY <2>1
<1>6. QED  BY <1>1, <1>4, <1>5

LEMMA DivOrder ==
  ASSUME NEW C \in Nat \ {0}, NEW a \in Nat, NEW b \in Nat, a <= b
  PROVE  a \div C <= b \div C
<1>1. PICK p \in Nat : p = a \div C /\ C * p <= a /\ a < C * p + C  BY DivBounds
<1>2. PICK q \in Nat : q = b \div C /\ C * q <= b /\ b < C * q + C  BY DivBounds
<1>3. ASSUME q < p PROVE FALSE
  <2>1. PICK d \in Nat : p = q + 1 + d  BY <1>3
  <2>2. C * p = C * q + C + C * d  BY <2>1
  <2>3. C * d \in Nat /\ C * q \in Nat /\ C * p \in Nat  OBVIOUS
  <2>4. QED  BY <1>1, <1>2, <2>2, <2>3
<1>4. QED  BY <1>1, <1>2, <1>3

(* chunk_waves splits an add-set: c is made of n waves. *)
Parts(c, n, adds) ==
  /\ n \in Nat /\ c \in Seq(Adds) /\ Len(c) = n
  /\ DOMAIN adds # {} => 1 <= n
  /\ \A i \in 1..n : /\ DOMAIN c[i] # {} /\ DOMAIN c[i] \subseteq DOMAIN adds
                     /\ \A t \in DOMAIN c[i] : c[i][t] = adds[t]
  /\ \A t \in DOMAIN adds : \E i \in 1..n : t \in DOMAIN c[i]
  /\ \A i, j \in 1..n : i # j => DOMAIN c[i] \intersect DOMAIN c[j] = {}

LEMMA ChunksPart ==
  ASSUME BidiAssumption, NEW adds \in Adds
  PROVE  \E n : Parts(Chunks(adds), n, adds)
<1> DEFINE S == DOMAIN adds
           C == ChunkCap
           order == SetToSeq(S)
           N == Len(order)
           chunk(k) == (k - 1) \div C + 1
           topics(i) == {order[k] : k \in {j \in 1..N : chunk(j) = i}}
           c == [i \in {chunk(k) : k \in 1..N} |-> [t \in topics(i) |-> adds[t]]]
           n == IF N = 0 THEN 0 ELSE chunk(N)
<1>1. S \in SUBSET Topics /\ adds \in [S -> Nat] /\ IsFiniteSet(S) /\ C \in Nat \ {0}
  <2>1. PICK T \in SUBSET Topics : adds \in [T -> Nat]  BY DEF Adds
  <2>2. S = T  BY <2>1
  <2>3. QED  BY <2>1, <2>2, FS_Subset DEF BidiAssumption
<1>2. /\ order \in Seq(S) /\ N = Cardinality(S) /\ N \in Nat
      /\ \A x \in S : \E i \in 1..N : order[i] = x
      /\ \A i, j \in 1..N : order[i] = order[j] => i = j
  BY <1>1, Listed
<1>3. Chunks(adds) = c  BY DEF Chunks
<1>4. \A k \in 1..N : chunk(k) \in Nat \ {0} /\ order[k] \in S
  <2>1. ASSUME NEW k \in 1..N PROVE chunk(k) \in Nat \ {0} /\ order[k] \in S
    <3>1. k - 1 \in Nat  BY <1>2
    <3>2. (k - 1) \div C \in Nat  BY <1>1, <3>1, DivBounds
    <3>3. QED  BY <1>2, <3>2
  <2>2. QED  BY <2>1
<1> HIDE DEF order
<1>5. \A k \in 1..N : chunk(k) <= n
  <2>1. ASSUME NEW k \in 1..N PROVE chunk(k) <= n
    <3>1. k - 1 \in Nat /\ N - 1 \in Nat /\ k - 1 <= N - 1 /\ N # 0 /\ N \in 1..N  BY <1>2
    <3>2. (k - 1) \div C <= (N - 1) \div C  BY <1>1, <3>1, DivOrder
    <3>3. chunk(k) \in Nat /\ chunk(N) \in Nat  BY <1>4, <3>1
    <3>4. (k - 1) \div C \in Nat /\ (N - 1) \div C \in Nat  BY <1>1, <3>1, DivBounds
    <3>5. QED  BY <3>1, <3>2, <3>4
  <2>2. QED  BY <2>1
<1>6. n \in Nat
  <2>1. CASE N = 0  BY <2>1
  <2>2. CASE N # 0
    <3>1. N \in 1..N  BY <1>2, <2>2
    <3>2. chunk(N) \in Nat  BY <1>4, <3>1
    <3>3. QED  BY <3>2, <2>2
  <2>3. QED  BY <2>1, <2>2
<1>7. \A i \in 1..n : \E k \in 1..N : chunk(k) = i
  <2>1. ASSUME NEW i \in 1..n PROVE \E k \in 1..N : chunk(k) = i
    <3>0. N # 0  BY <2>1
    <3>1. i \in Nat /\ i - 1 \in Nat /\ N - 1 \in Nat /\ n = chunk(N)  BY <1>2, <1>6, <3>0
    <3>2. PICK p \in Nat : p = (N - 1) \div C /\ C * p <= N - 1  BY <1>1, <3>1, DivBounds
    <3>3. i - 1 <= p
      <4>1. i <= p + 1  BY <3>1, <3>2
      <4>2. QED  BY <3>1, <3>2, <4>1
    <3>30. PICK x \in Nat : x = i - 1  BY <3>1
    <3>4. PICK d \in Nat : p = x + d
      <4>1. x <= p  BY <3>3, <3>30
      <4>2. p - x \in Nat /\ p = x + (p - x)  BY <4>1
      <4>3. QED  BY <4>2
    <3>5. PICK e \in Nat : e = C * x  BY <1>1
    <3>6. e <= N - 1
      <4>1. C * p = e + C * d  BY <1>1, <3>4, <3>5
      <4>2. C * d \in Nat  BY <1>1
      <4>3. QED  BY <3>1, <3>2, <3>5, <4>1, <4>2
    <3>7. e + 1 \in 1..N  BY <1>2, <3>6
    <3>8. e \div C = i - 1
      <4>1. C * x <= e /\ e < C * x + C  BY <1>1, <3>5
      <4>2. QED  BY <1>1, <3>30, <4>1, DivIs
    <3>9. chunk(e + 1) = i
      <4>1. (e + 1) - 1 = e  OBVIOUS
      <4>2. QED  BY <3>1, <3>8, <4>1
    <3>10. QED  BY <3>7, <3>9
  <2>2. QED  BY <2>1
<1> DEFINE D == {chunk(k) : k \in 1..N}
<1> HIDE DEF chunk
<1>8. D = 1..n
  <2>1. ASSUME NEW i \in D PROVE i \in 1..n
    <3>1. PICK k \in 1..N : i = chunk(k)  BY <2>1
    <3>2. QED  BY <1>4, <1>5, <1>6, <3>1
  <2>2. 1..n \subseteq D  BY <1>7
  <2>3. QED  BY <2>1, <2>2
<1> HIDE DEF n
<1>9. \A i \in 1..n : /\ c[i] = [t \in topics(i) |-> adds[t]] /\ topics(i) \subseteq S
                      /\ DOMAIN c[i] = topics(i)
  <2>1. ASSUME NEW i \in 1..n
        PROVE c[i] = [t \in topics(i) |-> adds[t]] /\ topics(i) \subseteq S
              /\ DOMAIN c[i] = topics(i)
    <3>1. i \in D  BY <1>8
    <3>2. c[i] = [t \in topics(i) |-> adds[t]]  BY <3>1
    <3>3. topics(i) \subseteq S  BY <1>4
    <3>4. QED  BY <3>2, <3>3
  <2>2. QED  BY <2>1
<1>10. c \in Seq(Adds) /\ Len(c) = n
  <2>1. ASSUME NEW i \in 1..n PROVE c[i] \in Adds
    <3>1. topics(i) \in SUBSET Topics  BY <1>1, <1>9
    <3>2. c[i] \in [topics(i) -> Nat]  BY <1>1, <1>9
    <3>3. QED  BY <3>1, <3>2 DEF Adds
  <2>2. c \in [1..n -> Adds]
    <3>1. c = [i \in 1..n |-> c[i]]  BY <1>8
    <3>2. QED  BY <2>1, <3>1
  <2> HIDE DEF c
  <2>3. QED  BY <1>6, <2>2
<1>11. S # {} => 1 <= n
  <2>1. ASSUME NEW x \in S PROVE 1 <= n
    <3>1. PICK k \in 1..N : order[k] = x  BY <1>2
    <3>2. chunk(k) \in Nat \ {0} /\ chunk(k) <= n  BY <1>4, <1>5
    <3>3. QED  BY <1>6, <3>2
  <2>2. QED  BY <2>1
<1>12. \A i \in 1..n : topics(i) # {}
  <2>1. ASSUME NEW i \in 1..n PROVE topics(i) # {}
    <3>1. PICK k \in 1..N : chunk(k) = i  BY <1>7
    <3>2. order[k] \in topics(i)  BY <3>1
    <3>3. QED  BY <3>2
  <2>2. QED  BY <2>1
<1>13. \A t \in S : \E i \in 1..n : t \in topics(i)
  <2>1. ASSUME NEW t \in S PROVE \E i \in 1..n : t \in topics(i)
    <3>1. PICK k \in 1..N : order[k] = t  BY <1>2
    <3>2. chunk(k) \in 1..n  BY <1>8
    <3>3. t \in topics(chunk(k))  BY <3>1
    <3>4. QED  BY <3>2, <3>3
  <2>2. QED  BY <2>1
<1>14. \A i, j \in 1..n : i # j => topics(i) \intersect topics(j) = {}
  <2>1. ASSUME NEW i \in 1..n, NEW j \in 1..n, NEW t \in topics(i), t \in topics(j)
        PROVE i = j
    <3>1. PICK k \in 1..N : order[k] = t /\ chunk(k) = i  OBVIOUS
    <3>2. PICK m \in 1..N : order[m] = t /\ chunk(m) = j  BY <2>1
    <3>3. k = m  BY <1>2, <3>1, <3>2
    <3>4. QED  BY <3>1, <3>2, <3>3
  <2>2. QED  BY <2>1
<1>15. \A i \in 1..n : \A t \in DOMAIN c[i] : c[i][t] = adds[t]
  <2>1. ASSUME NEW i \in 1..n, NEW t \in DOMAIN c[i] PROVE c[i][t] = adds[t]
    <3>1. t \in topics(i) /\ c[i] = [u \in topics(i) |-> adds[u]]  BY <1>9
    <3> HIDE DEF topics
    <3>2. QED  BY <3>1
  <2>2. QED  BY <2>1
<1> HIDE DEF topics
<1>16. Parts(c, n, adds)
  <2> HIDE DEF c
  <2>1. QED  BY <1>6, <1>9, <1>10, <1>11, <1>12, <1>13, <1>14, <1>15 DEF Parts
<1>17. QED  BY <1>3, <1>16

-----------------------------------------------------------------------------
(* What the ledger's operators change *)

Named(L) ==
  DOMAIN L = {"leases", "last_seen", "waves", "next_wave", "next_lease",
              "conn", "suspended", "waiting", "deferred", "outbox",
              "dial", "closed", "dropped", "removes"}

(* What no operator of this section changes. *)
Steers(L, M) ==
  /\ Named(M)
  /\ M.suspended = L.suspended /\ M.dial = L.dial /\ M.closed = L.closed
  /\ M.waiting = L.waiting /\ M.deferred = L.deferred

NewLease(L, asks) ==
  [floors |-> asks,
   live_snap |-> [t \in DOMAIN asks |-> L.last_seen[t]],
   replayed |-> [t \in DOMAIN asks |-> 0], held |-> [t \in DOMAIN asks |-> << >>],
   preexisting |-> DOMAIN L.waves, caught_up |-> FALSE,
   wedged |-> FALSE, got |-> [t \in DOMAIN asks |-> << >>],
   asked |-> [t \in DOMAIN asks |-> log[t]]]

Queue(owner, first, c) ==
  [i \in 1..Len(c) |-> [lease |-> owner, id |-> first + i - 1, adds |-> c[i], removes |-> {}]]

(* A lease joins: M is L with a lease of asks, in the waves c. *)
Enlisted(L, M, asks, c, n) ==
  LET l == L.next_lease
  IN /\ Parts(c, n, asks) /\ Steers(L, M)
     /\ M.conn = L.conn /\ M.last_seen = L.last_seen
     /\ M.dropped = L.dropped /\ M.removes = L.removes
     /\ M.next_lease = l + 1 /\ M.next_wave = L.next_wave + n
     /\ DOMAIN M.leases = DOMAIN L.leases \union {l}
     /\ \A k \in DOMAIN L.leases : M.leases[k] = L.leases[k]
     /\ M.leases[l] = NewLease(L, asks)
     /\ DOMAIN M.waves = DOMAIN L.waves \union (L.next_wave .. L.next_wave + n - 1)
     /\ \A w \in DOMAIN L.waves : M.waves[w] = L.waves[w]
     /\ \A i \in 1..n : M.waves[L.next_wave + i - 1] =
                          [owner |-> l, claims |-> c[i], holds |-> {}]
     /\ M.outbox = IF L.conn THEN L.outbox \o Queue(l, L.next_wave, c) ELSE << >>

LEMMA EnlistIs ==
  ASSUME BidiAssumption, NEW L, LedgerType(L), NEW asks \in Adds
  PROVE  \E c, n : Enlisted(L, Enlist(L, asks), asks, c, n)
<1> DEFINE l == L.next_lease
           R == Register(L, asks)
           A == AddWaves(R, l, asks)
           M == Enlist(L, asks)
           c == Chunks(asks)
<1>0. Named(L) /\ l \in Nat \ {0} /\ L.next_wave \in Nat \ {0} /\ l \notin DOMAIN L.leases
  <2>1. Named(L) /\ l \in Nat \ {0} /\ L.next_wave \in Nat \ {0}
        /\ DOMAIN L.leases \subseteq 1..l - 1
    BY DEF LedgerType, Named
  <2>2. l \notin 1..l - 1  BY <2>1
  <2>3. QED  BY <2>1, <2>2
<1>1. /\ Steers(L, R) /\ R.conn = L.conn /\ R.last_seen = L.last_seen
      /\ R.dropped = L.dropped /\ R.removes = L.removes
      /\ R.next_lease = l + 1 /\ R.next_wave = L.next_wave /\ R.waves = L.waves
      /\ R.outbox = L.outbox
      /\ R.leases = With(L.leases, [k \in {l} |-> NewLease(L, asks)])
  BY <1>0 DEF Register, Named, Steers, NewLease
<1>2. /\ DOMAIN R.leases = DOMAIN L.leases \union {l} /\ R.leases[l] = NewLease(L, asks)
      /\ \A k \in DOMAIN L.leases : R.leases[k] = L.leases[k]
  BY <1>0, <1>1 DEF With
<1>3. PICK n : Parts(c, n, asks)  BY ChunksPart
<1>4. n \in Nat /\ Len(c) = n  BY <1>3 DEF Parts
<1> DEFINE ids == L.next_wave .. L.next_wave + n - 1
           new == [w \in ids |-> [owner |-> l, claims |-> c[w - L.next_wave + 1],
                                  holds |-> {}]]
<1> HIDE DEF R, c
<1>5. /\ Steers(R, A) /\ A.conn = R.conn /\ A.last_seen = R.last_seen
      /\ A.dropped = R.dropped /\ A.removes = R.removes
      /\ A.next_lease = R.next_lease /\ A.leases = R.leases
      /\ A.next_wave = L.next_wave + n
      /\ A.waves = With(L.waves, new)
      /\ A.outbox = L.outbox \o Queue(l, L.next_wave, c)
  BY <1>1, <1>4 DEF AddWaves, Named, Steers, Queue, c
<1>6. DOMAIN A.waves = DOMAIN L.waves \union ids
  BY <1>5 DEF With
<1>7. \A w \in DOMAIN L.waves : A.waves[w] = L.waves[w]
  <2>1. ASSUME NEW w \in DOMAIN L.waves PROVE w \notin ids
    <3>1. w \in 1..L.next_wave - 1  BY DEF LedgerType
    <3>2. QED  BY <1>0, <1>4, <3>1
  <2> HIDE DEF ids
  <2>2. QED  BY <1>5, <2>1 DEF With
<1>8. \A i \in 1..n : A.waves[L.next_wave + i - 1] = [owner |-> l, claims |-> c[i], holds |-> {}]
  <2>1. ASSUME NEW i \in 1..n
        PROVE A.waves[L.next_wave + i - 1] = [owner |-> l, claims |-> c[i], holds |-> {}]
    <3>1. L.next_wave + i - 1 \in ids /\ (L.next_wave + i - 1) - L.next_wave + 1 = i
      BY <1>0, <1>4
    <3> HIDE DEF ids
    <3>2. QED  BY <1>5, <3>1 DEF With
  <2>2. QED  BY <2>1
<1> HIDE DEF A, ids, new
<1>9. /\ Steers(L, M) /\ M.conn = A.conn /\ M.last_seen = A.last_seen
      /\ M.dropped = A.dropped /\ M.removes = A.removes
      /\ M.next_lease = A.next_lease /\ M.leases = A.leases
      /\ M.next_wave = A.next_wave /\ M.waves = A.waves
      /\ M.outbox = IF A.conn THEN A.outbox ELSE << >>
  BY <1>1, <1>5 DEF Enlist, A, R, Steers, Named
<1> HIDE DEF M
<1>10. Enlisted(L, M, asks, c, n)
  BY <1>1, <1>2, <1>3, <1>5, <1>6, <1>7, <1>8, <1>9 DEF Enlisted, ids
<1>11. QED  BY <1>10 DEF M

-----------------------------------------------------------------------------
(* Completion *)

Due(L, ls) == {l \in ls \intersect DOMAIN L.leases : ~L.leases[l].caught_up}
Done(L, ls) == {l \in Due(L, ls) : Blockers(L, l) = {}}

Completed(L, M, ls) ==
  /\ Steers(L, M) /\ M.conn = L.conn /\ M.last_seen = L.last_seen
  /\ M.removes = L.removes /\ M.outbox = L.outbox
  /\ M.next_lease = L.next_lease /\ M.next_wave = L.next_wave
  /\ M.dropped = L.dropped \union {l \in Done(L, ls) : L.leases[l].wedged}
  /\ DOMAIN M.leases = DOMAIN L.leases
  /\ \A l \in DOMAIN L.leases :
       M.leases[l] = IF l \in Done(L, ls) THEN CaughtUp(L.leases[l]) ELSE L.leases[l]
  /\ DOMAIN M.waves = DOMAIN L.waves
  /\ \A w \in DOMAIN L.waves :
       /\ DOMAIN M.waves[w] = DOMAIN L.waves[w]
       /\ M.waves[w].owner = L.waves[w].owner /\ M.waves[w].claims = L.waves[w].claims
       /\ L.waves[w].holds \subseteq M.waves[w].holds
       /\ M.waves[w].holds \subseteq L.waves[w].holds \union Due(L, ls)
  /\ \A l \in Due(L, ls) \ Done(L, ls) : \E w \in DOMAIN L.waves : l \in M.waves[w].holds

LEMMA CompleteAllIs ==
  ASSUME NEW L, LedgerType(L), NEW ls, NEW pick \in BOOLEAN
  PROVE  Completed(L, CompleteAll(L, ls, pick), ls)
<1> DEFINE M == CompleteAll(L, ls, pick)
           on(l) == IF pick THEN Min(Blockers(L, l)) ELSE Max(Blockers(L, l))
           due == Due(L, ls)
           done == Done(L, ls)
           waits(w) == {l \in due \ done : on(l) = w}
<1>0. Named(L) /\ L.next_wave \in Nat \ {0} /\ DOMAIN L.waves \subseteq 1..L.next_wave - 1
      /\ \A w \in DOMAIN L.waves : WaveType(L.waves[w])
  BY DEF LedgerType, Named
<1>1. /\ Steers(L, M) /\ M.conn = L.conn /\ M.last_seen = L.last_seen
      /\ M.removes = L.removes /\ M.outbox = L.outbox
      /\ M.next_lease = L.next_lease /\ M.next_wave = L.next_wave
      /\ M.dropped = L.dropped \union {l \in done : L.leases[l].wedged}
      /\ M.leases = [l \in DOMAIN L.leases |-> IF l \in done THEN CaughtUp(L.leases[l])
                                               ELSE L.leases[l]]
      /\ M.waves = [w \in DOMAIN L.waves |->
                     [L.waves[w] EXCEPT !.holds = @ \union waits(w)]]
  <2> DEFINE F == [l \in DOMAIN L.leases |-> IF l \in done THEN CaughtUp(L.leases[l])
                                            ELSE L.leases[l]]
             G == [w \in DOMAIN L.waves |->
                    [L.waves[w] EXCEPT !.holds = @ \union waits(w)]]
             D == L.dropped \union {l \in done : L.leases[l].wedged}
  <2>0. M = [L EXCEPT
               !.leases = [l \in DOMAIN @ |-> IF l \in done THEN CaughtUp(@[l]) ELSE @[l]],
               !.waves = [w \in DOMAIN @ |->
                           [L.waves[w] EXCEPT !.holds = @ \union waits(w)]],
               !.dropped = @ \union {l \in done : L.leases[l].wedged}]
    BY ZenonT(20) DEF CompleteAll, Due, Done
  <2>1. M.leases = F
    <3> HIDE DEF M, on, due, done, waits
    <3>1. QED  BY <1>0, <2>0 DEF Named
  <2>2. M.waves = G /\ M.dropped = D
    <3>1. M.waves = G
      <4> HIDE DEF M, on, due, done, waits
      <4>1. QED  BY <1>0, <2>0 DEF Named
    <3>2. M.dropped = D
      <4> HIDE DEF M, on, due, done, waits
      <4>1. QED  BY <1>0, <2>0 DEF Named
    <3>3. QED BY <3>1, <3>2
  <2>3. /\ Steers(L, M) /\ M.conn = L.conn /\ M.last_seen = L.last_seen
        /\ M.removes = L.removes /\ M.outbox = L.outbox
        /\ M.next_lease = L.next_lease /\ M.next_wave = L.next_wave
    <3> HIDE DEF M, on, due, done, waits
    <3>1. QED  BY <1>0, <2>0 DEF Named, Steers
  <2> HIDE DEF M, on, due, done, waits
  <2>4. QED  BY <2>1, <2>2, <2>3
<1>2. \A l \in due \ done : on(l) \in DOMAIN L.waves
  <2>1. ASSUME NEW l \in due \ done PROVE on(l) \in DOMAIN L.waves
    <3>1. Blockers(L, l) # {} /\ Blockers(L, l) \subseteq DOMAIN L.waves
      BY DEF Done, Blockers
    <3>2. L.next_wave - 1 \in Nat /\ Blockers(L, l) \in SUBSET (0..L.next_wave - 1)
          /\ Blockers(L, l) \in SUBSET Nat
      BY <1>0, <3>1
    <3>3. Min(Blockers(L, l)) \in Blockers(L, l)  BY <3>1, <3>2, MinIn
    <3>4. Max(Blockers(L, l)) \in Blockers(L, l)  BY <3>1, <3>2, MaxIn
    <3>5. QED  BY <3>1, <3>3, <3>4
  <2>2. QED  BY <2>1
<1> HIDE DEF M, on, due, done, waits
<1>3. \A w \in DOMAIN L.waves :
        /\ DOMAIN M.waves[w] = DOMAIN L.waves[w]
        /\ M.waves[w].owner = L.waves[w].owner /\ M.waves[w].claims = L.waves[w].claims
        /\ M.waves[w].holds = L.waves[w].holds \union waits(w)
  BY <1>0, <1>1 DEF WaveType
<1>4. \A l \in due \ done : \E w \in DOMAIN L.waves : l \in M.waves[w].holds
  BY <1>2, <1>3 DEF waits
<1>5. Completed(L, M, ls)
  BY <1>1, <1>3, <1>4 DEF Completed, due, done, waits
<1>6. QED  BY <1>5 DEF M

-----------------------------------------------------------------------------
(* Leaving *)

Own(L, l) == {i \in DOMAIN L.outbox : L.outbox[i].lease = l}
Kept(L, l) == {L.outbox[i] : i \in DOMAIN L.outbox \ Own(L, l)}
Purged(L, l) == {L.outbox[i].id : i \in Own(L, l)} \intersect DOMAIN L.waves
Orphaned(L, l) == {t \in DOMAIN L.leases[l].floors : Holders(L, t) = {l}}

Left(L, M, l) ==
  /\ Steers(L, M) /\ M.conn = L.conn
  /\ M.next_lease = L.next_lease /\ M.next_wave = L.next_wave
  /\ M.dropped = L.dropped \ {l}
  /\ M.removes = L.removes \union Orphaned(L, l)
  /\ M.last_seen = [t \in Topics |-> IF t \in Orphaned(L, l) THEN 0 ELSE L.last_seen[t]]
  /\ M.outbox = Among(L.outbox, Kept(L, l))
  /\ DOMAIN M.leases = DOMAIN L.leases \ {l}
  /\ \A k \in DOMAIN L.leases \ {l} : M.leases[k] = L.leases[k]
  /\ DOMAIN M.waves = DOMAIN L.waves \ Purged(L, l)
  /\ \A w \in DOMAIN L.waves \ Purged(L, l) :
       /\ DOMAIN M.waves[w] = DOMAIN L.waves[w]
       /\ M.waves[w].owner = L.waves[w].owner /\ M.waves[w].claims = L.waves[w].claims
       /\ M.waves[w].holds = L.waves[w].holds \ {l}

Freed(L, l) == (UNION {L.waves[w].holds : w \in Purged(L, l)}) \ {l}

(* The lease goes, then those that waited on its waves are looked at. *)
LEMMA DropOneIs ==
  ASSUME NEW L, LedgerType(L), NEW l \in DOMAIN L.leases, NEW pick
  PROVE  \E K : Left(L, K, l) /\ DropOne(L, l, pick) = CompleteAll(K, Freed(L, l), pick)
<1> DEFINE A == [L EXCEPT !.outbox = Among(@, Kept(L, l)), !.dropped = @ \ {l}]
           purged == Purged(L, l)
           waves == [w \in DOMAIN A.waves \ purged |-> [A.waves[w] EXCEPT !.holds = @ \ {l}]]
           orphaned == {t \in DOMAIN A.leases[l].floors : Holders(A, t) = {l}}
           K == [A EXCEPT !.leases = Without(@, {l}), !.waves = waves,
                   !.last_seen = [t \in Topics |-> IF t \in orphaned THEN 0 ELSE @[t]],
                   !.removes = @ \union orphaned]
           released == UNION {A.waves[w].holds : w \in purged}
<1>0. Named(L) /\ \A w \in DOMAIN L.waves : WaveType(L.waves[w])
  BY DEF LedgerType, Named
<1>1. /\ Steers(L, A) /\ A.conn = L.conn
      /\ A.next_lease = L.next_lease /\ A.next_wave = L.next_wave
      /\ A.dropped = L.dropped \ {l} /\ A.removes = L.removes /\ A.last_seen = L.last_seen
      /\ A.outbox = Among(L.outbox, Kept(L, l))
      /\ A.leases = L.leases /\ A.waves = L.waves
  BY <1>0 DEF Named, Steers
<1>2. DropOne(L, l, pick) = DerefLedger(A, l, purged, pick)
  BY DEF DropOne, Own, Kept, Purged
<1> HIDE DEF A
<1>3. DerefLedger(A, l, purged, pick) = CompleteAll(K, released \ {l}, pick)
  BY <1>1 DEF DerefLedger
<1>4. orphaned = Orphaned(L, l)  BY <1>1 DEF Orphaned, Holders
<1>5. released \ {l} = Freed(L, l)
  <2>1. \A w \in purged : A.waves[w].holds = L.waves[w].holds  BY <1>1
  <2>2. ASSUME NEW k PROVE k \in released <=> \E w \in purged : k \in L.waves[w].holds
    BY <2>1
  <2>3. ASSUME NEW k PROVE k \in Freed(L, l) <=> k # l /\ \E w \in purged : k \in L.waves[w].holds
    BY DEF Freed
  <2> HIDE DEF released, purged
  <2>4. QED  BY <2>2, <2>3, ZenonT(20)
<1> HIDE DEF orphaned, released
<1>6. /\ Steers(L, K) /\ K.conn = L.conn
      /\ K.next_lease = L.next_lease /\ K.next_wave = L.next_wave
      /\ K.dropped = L.dropped \ {l}
      /\ K.removes = L.removes \union Orphaned(L, l)
      /\ K.last_seen = [t \in Topics |-> IF t \in Orphaned(L, l) THEN 0 ELSE L.last_seen[t]]
      /\ K.outbox = Among(L.outbox, Kept(L, l))
      /\ K.leases = Without(L.leases, {l}) /\ K.waves = waves
  BY <1>1, <1>4 DEF Named, Steers
<1>7. /\ DOMAIN K.leases = DOMAIN L.leases \ {l}
      /\ \A k \in DOMAIN L.leases \ {l} : K.leases[k] = L.leases[k]
  BY <1>6 DEF Without
<1>8. /\ DOMAIN K.waves = DOMAIN L.waves \ purged
      /\ \A w \in DOMAIN L.waves \ purged :
           /\ DOMAIN K.waves[w] = DOMAIN L.waves[w]
           /\ K.waves[w].owner = L.waves[w].owner /\ K.waves[w].claims = L.waves[w].claims
           /\ K.waves[w].holds = L.waves[w].holds \ {l}
  <2> HIDE DEF K, purged
  <2>1. K.waves = [w \in DOMAIN L.waves \ purged |-> [L.waves[w] EXCEPT !.holds = @ \ {l}]]
    BY <1>1, <1>6
  <2>2. QED  BY <1>0, <2>1 DEF WaveType
<1> HIDE DEF K
<1>9. Left(L, K, l)  BY <1>6, <1>7, <1>8 DEF Left
<1>10. QED  BY <1>2, <1>3, <1>5, <1>9

-----------------------------------------------------------------------------
(* Types *)

LEMMA LeaseTypes ==
  ASSUME NEW L, LedgerType(L)
  PROVE  /\ Named(L) /\ L.next_lease \in Nat \ {0} /\ L.next_wave \in Nat \ {0}
         /\ DOMAIN L.leases \subseteq LeaseIds /\ DOMAIN L.leases \subseteq 1..L.next_lease - 1
         /\ \A l \in DOMAIN L.leases : l \in Nat /\ l # 0 /\ l < L.next_lease /\ LeaseType(L.leases[l])
         /\ DOMAIN L.waves \subseteq 1..L.next_wave - 1
         /\ \A w \in DOMAIN L.waves : w \in Nat /\ w # 0 /\ w < L.next_wave /\ WaveType(L.waves[w])
         /\ L.last_seen \in [Topics -> Nat] /\ L.outbox \in Seq(Mutates)
         /\ L.conn \in BOOLEAN /\ L.suspended \in BOOLEAN
         /\ L.dropped \subseteq DOMAIN L.leases /\ L.removes \subseteq Topics
<1>1. /\ Named(L) /\ L.next_lease \in Nat \ {0} /\ L.next_wave \in Nat \ {0}
      /\ DOMAIN L.leases \subseteq LeaseIds /\ DOMAIN L.leases \subseteq 1..L.next_lease - 1
      /\ \A l \in DOMAIN L.leases : LeaseType(L.leases[l])
      /\ DOMAIN L.waves \subseteq 1..L.next_wave - 1
      /\ \A w \in DOMAIN L.waves : WaveType(L.waves[w])
      /\ L.last_seen \in [Topics -> Nat] /\ L.outbox \in Seq(Mutates)
      /\ L.conn \in BOOLEAN /\ L.suspended \in BOOLEAN
      /\ L.dropped \subseteq DOMAIN L.leases /\ L.removes \subseteq Topics
  BY DEF LedgerType, Named
<1>2. \A l \in 1..L.next_lease - 1 : l \in Nat /\ l # 0 /\ l < L.next_lease  BY <1>1
<1>3. \A l \in 1..L.next_wave - 1 : l \in Nat /\ l # 0 /\ l < L.next_wave  BY <1>1
<1>4. QED  BY <1>1, <1>2, <1>3

LEMMA TypedLedger ==
  ASSUME NEW L, Named(L), L.next_lease \in Nat \ {0}, L.next_wave \in Nat \ {0},
         DOMAIN L.leases \subseteq LeaseIds, DOMAIN L.leases \subseteq 1..L.next_lease - 1,
         \A l \in DOMAIN L.leases : LeaseType(L.leases[l]),
         DOMAIN L.waves \subseteq 1..L.next_wave - 1,
         \A w \in DOMAIN L.waves : WaveType(L.waves[w]),
         L.last_seen \in [Topics -> Nat], L.outbox \in Seq(Mutates),
         L.conn \in BOOLEAN, L.suspended \in BOOLEAN,
         L.dropped \subseteq DOMAIN L.leases, L.removes \subseteq Topics
  PROVE  LedgerType(L)
BY DEF LedgerType, Named

LEMMA CaughtUpType ==
  ASSUME NEW s, LeaseType(s)
  PROVE  LeaseType(CaughtUp(s)) /\ CaughtUp(s).floors = s.floors
<1> DEFINE T == DOMAIN s.floors
           new == [t \in T |-> s.got[t] \o Among(s.held[t], Above(s.replayed[t]))]
           M == CaughtUp(s)
<1>0. /\ DOMAIN s = {"floors", "live_snap", "replayed", "held", "preexisting",
                     "caught_up", "wedged", "got", "asked"}
      /\ T \subseteq Topics
      /\ s.floors \in [T -> Nat] /\ s.asked \in [T -> Nat]
      /\ s.live_snap \in [T -> Nat] /\ s.replayed \in [T -> Nat]
      /\ s.held \in [T -> Seq(Nat)] /\ s.got \in [T -> Seq(Nat)]
      /\ s.preexisting \subseteq Nat
      /\ s.caught_up \in BOOLEAN /\ s.wedged \in BOOLEAN
  BY DEF LeaseType
<1>1. new \in [T -> Seq(Nat)]
  <2>1. ASSUME NEW t \in T PROVE s.got[t] \o Among(s.held[t], Above(s.replayed[t])) \in Seq(Nat)
    <3>1. s.held[t] \in Seq(Nat) /\ s.got[t] \in Seq(Nat)  BY <1>0
    <3>2. Among(s.held[t], Above(s.replayed[t])) \in Seq(Nat)  BY <3>1, AmongPicks
    <3>3. QED  BY <3>1, <3>2
  <2>2. QED  BY <2>1
<1>2. M = [s EXCEPT !.caught_up = TRUE, !.got = IF s.wedged THEN @ ELSE new,
             !.held = [t \in T |-> << >>], !.live_snap = [t \in T |-> 0],
             !.replayed = [t \in T |-> 0]]
  BY DEF CaughtUp
<1> HIDE DEF M, new
<1>3. /\ DOMAIN M = DOMAIN s /\ M.floors = s.floors /\ M.asked = s.asked
      /\ M.live_snap = [t \in T |-> 0] /\ M.replayed = [t \in T |-> 0]
      /\ M.held = [t \in T |-> << >>] /\ M.preexisting = s.preexisting
      /\ M.caught_up = TRUE /\ M.wedged = s.wedged
  BY <1>0, <1>2
<1>4. M.got \in [T -> Seq(Nat)]  BY <1>0, <1>1, <1>2
<1>5. M.held \in [T -> Seq(Nat)]  BY <1>3, EmptySeq
<1>6. M.live_snap \in [T -> Nat] /\ M.replayed \in [T -> Nat]  BY <1>3
<1>7. LeaseType(M)
  <2> HIDE DEF T
  <2>1. DOMAIN M.floors = T  BY <1>3 DEF T
  <2>2. QED  BY <1>0, <1>3, <1>4, <1>5, <1>6, <2>1 DEF LeaseType
<1>8. QED  BY <1>3, <1>7 DEF M

LEMMA CompletedType ==
  ASSUME NEW L, LedgerType(L), NEW M, NEW ls, Completed(L, M, ls)
  PROVE  /\ LedgerType(M)
         /\ \A l \in DOMAIN L.leases : M.leases[l].floors = L.leases[l].floors
<1>1. \A l \in Done(L, ls) : l \in DOMAIN L.leases  BY DEF Done, Due
<1>2. ASSUME NEW l \in DOMAIN L.leases
      PROVE  LeaseType(M.leases[l]) /\ M.leases[l].floors = L.leases[l].floors
  <2>1. LeaseType(L.leases[l])  BY LeaseTypes
  <2>2. M.leases[l] = CaughtUp(L.leases[l]) \/ M.leases[l] = L.leases[l]  BY DEF Completed
  <2>3. QED  BY <2>1, <2>2, CaughtUpType
<1>3. ASSUME NEW w \in DOMAIN L.waves PROVE WaveType(M.waves[w])
  <2>1. WaveType(L.waves[w])  BY LeaseTypes
  <2>2. Due(L, ls) \subseteq Nat  BY LeaseTypes DEF Due
  <2>3. QED  BY <2>1, <2>2 DEF Completed, WaveType
<1>4. QED
  <2>1. LedgerType(M)
    BY <1>1, <1>2, <1>3, LeaseTypes, TypedLedger DEF Completed, Steers
  <2>2. QED  BY <1>2, <2>1

LEMMA LeftType ==
  ASSUME NEW L, LedgerType(L), NEW M, NEW l \in DOMAIN L.leases, Left(L, M, l)
  PROVE  LedgerType(M)
<1>1. ASSUME NEW w \in DOMAIN L.waves \ Purged(L, l) PROVE WaveType(M.waves[w])
  <2>1. WaveType(L.waves[w])  BY LeaseTypes
  <2>2. QED  BY <2>1 DEF Left, WaveType
<1>2. M.outbox \in Seq(Mutates)
  <2>1. L.outbox \in Seq(Mutates)  BY LeaseTypes
  <2>2. QED  BY <2>1, AmongPicks DEF Left
<1>3. Orphaned(L, l) \subseteq Topics  BY LeaseTypes DEF Orphaned, LeaseType
<1>4. M.last_seen \in [Topics -> Nat]  BY LeaseTypes DEF Left
<1>5. M.dropped \subseteq DOMAIN M.leases  BY LeaseTypes DEF Left
<1>6. QED
  BY <1>1, <1>2, <1>3, <1>4, <1>5, LeaseTypes, TypedLedger DEF Left, Steers

-----------------------------------------------------------------------------
(* drop_leases *)

(* One round: l goes, and what waited on its unsent waves is looked at. *)
Dropped(L, M, l) == \E K : LedgerType(K) /\ Left(L, K, l) /\ Completed(K, M, Freed(L, l))

LEMMA DropOneStep ==
  ASSUME NEW L, LedgerType(L), NEW l \in DOMAIN L.leases, NEW pick \in BOOLEAN
  PROVE  Dropped(L, DropOne(L, l, pick), l) /\ LedgerType(DropOne(L, l, pick))
<1>1. PICK K : Left(L, K, l) /\ DropOne(L, l, pick) = CompleteAll(K, Freed(L, l), pick)
  BY DropOneIs
<1>2. LedgerType(K)  BY <1>1, LeftType
<1>3. Completed(K, DropOne(L, l, pick), Freed(L, l))  BY <1>1, <1>2, CompleteAllIs
<1>4. QED  BY <1>1, <1>2, <1>3, CompletedType DEF Dropped

Round(M, pick) == IF M.dropped = {} THEN M ELSE DropOne(M, Max(M.dropped), pick)

(* The rounds of one call. *)
Rounds(f, L, seed, pick) ==
  /\ f[0] = [L EXCEPT !.dropped = @ \union seed]
  /\ \A n \in 1..MaxLeases : f[n] = Round(f[n - 1], pick)
  /\ DropLeases(L, seed, pick) = f[MaxLeases]

LEMMA RoundsExist ==
  ASSUME BidiAssumption, NEW L, NEW seed, NEW pick
  PROVE  \E f : Rounds(f, L, seed, pick)
<1> DEFINE N == MaxLeases
           First == [L EXCEPT !.dropped = @ \union seed]
           Body(f, m) == [n \in 0..m |-> IF n = 0 THEN First ELSE Round(f[n - 1], pick)]
           Part(f, m) == f = Body(f, m)
           Some == {m \in 0..N : \E f : Part(f, m)}
<1>0. N \in Nat  BY DEF BidiAssumption
<1> HIDE DEF First
<1>1. 0 \in Some
  <2>1. Part([n \in 0..0 |-> First], 0)  OBVIOUS
  <2> HIDE DEF Part
  <2>2. QED  BY <1>0, <2>1
<1>2. ASSUME NEW m \in 1..N, m - 1 \in Some PROVE m \in Some
  <2>1. PICK f : Part(f, m - 1)  BY <1>2
  <2> DEFINE g == [n \in 0..m |-> IF n = m THEN Round(f[m - 1], pick) ELSE f[n]]
  <2>2. Part(g, m)
    <3>1. ASSUME NEW n \in 0..m
          PROVE g[n] = IF n = 0 THEN First ELSE Round(g[n - 1], pick)
      <4>1. CASE n = m
        <5>1. m # 0 /\ m - 1 \in 0..m /\ m - 1 # m  BY <1>0
        <5>2. g[m - 1] = f[m - 1]  BY <5>1
        <5>3. QED  BY <4>1, <5>1, <5>2
      <4>2. CASE n # m
        <5>1. n \in 0..m - 1  BY <1>0, <4>2
        <5>2. f[n] = IF n = 0 THEN First ELSE Round(f[n - 1], pick)  BY <2>1, <5>1
        <5>3. n # 0 => n - 1 \in 0..m /\ n - 1 # m  BY <1>0, <4>2
        <5>4. QED  BY <4>2, <5>2, <5>3
      <4>3. QED  BY <4>1, <4>2
    <3>2. QED  BY <3>1
  <2> HIDE DEF Part
  <2>3. QED  BY <1>2, <2>2
<1>3. N \in Some
  <2> HIDE DEF Some
  <2>1. \A n \in 0..N : n \in Some  BY <1>0, <1>1, <1>2, UpTo
  <2>2. QED  BY <1>0, <2>1
<1>4. PICK f : Part(f, N)
  <2> HIDE DEF Part
  <2>1. QED  BY <1>3
<1> DEFINE after == CHOOSE a : a = [n \in 0..MaxLeases |->
             IF n = 0 THEN [L EXCEPT !.dropped = @ \union seed]
             ELSE LET M == a[n - 1]
                  IN IF M.dropped = {} THEN M ELSE DropOne(M, Max(M.dropped), pick)]
<1>5. after = Body(after, N)  BY <1>4 DEF Round, First
<1>6. DropLeases(L, seed, pick) = after[MaxLeases]  BY DEF DropLeases
<1> HIDE DEF after
<1>7. after[0] = First  BY <1>0, <1>5
<1>8. ASSUME NEW n \in 1..N PROVE after[n] = Round(after[n - 1], pick)
  <2>1. n \in 0..N /\ n # 0  BY <1>0
  <2>2. QED  BY <1>5, <2>1
<1>9. QED  BY <1>6, <1>7, <1>8 DEF Rounds, First

Chain(f, L, M, seed) ==
  /\ f[0] = [L EXCEPT !.dropped = @ \union seed]
  /\ \A n \in 0..MaxLeases : LedgerType(f[n])
  /\ \A n \in 1..MaxLeases :
       f[n] = f[n - 1] \/ \E l \in f[n - 1].dropped : Dropped(f[n - 1], f[n], l)
  /\ M = f[MaxLeases] /\ M.dropped = {}

LEMMA SeedType ==
  ASSUME NEW L, LedgerType(L), NEW seed \in SUBSET (DOMAIN L.leases)
  PROVE  LedgerType([L EXCEPT !.dropped = @ \union seed])
<1> DEFINE M == [L EXCEPT !.dropped = @ \union seed]
<1>1. Named(L)  BY LeaseTypes
<1>2. /\ Steers(L, M) /\ M.conn = L.conn /\ M.next_lease = L.next_lease
      /\ M.next_wave = L.next_wave /\ M.leases = L.leases /\ M.waves = L.waves
      /\ M.last_seen = L.last_seen /\ M.outbox = L.outbox /\ M.removes = L.removes
      /\ M.dropped = L.dropped \union seed
  BY <1>1 DEF Named, Steers
<1> HIDE DEF M
<1>3. LedgerType(M)  BY <1>2, LeaseTypes, TypedLedger DEF Steers
<1>4. QED  BY <1>3 DEF M

(* It ends: every round takes a lease. *)
LEMMA DropLeasesIs ==
  ASSUME BidiAssumption, NEW L, LedgerType(L), NEW seed \in SUBSET (DOMAIN L.leases),
         NEW pick \in BOOLEAN
  PROVE  \E f : Chain(f, L, DropLeases(L, seed, pick), seed)
<1> DEFINE N == MaxLeases
           M == DropLeases(L, seed, pick)
<1>0. N \in Nat  BY DEF BidiAssumption
<1>1. PICK f : Rounds(f, L, seed, pick)  BY RoundsExist
<1> DEFINE G == {n \in 0..N : LedgerType(f[n])}
           One(n) == (f[n] = f[n - 1] /\ f[n - 1].dropped = {}) \/ \E l \in f[n - 1].dropped : Dropped(f[n - 1], f[n], l)
<1>2. ASSUME NEW n \in 1..N, LedgerType(f[n - 1]) PROVE LedgerType(f[n]) /\ One(n)
  <2> DEFINE D == f[n - 1].dropped
  <2>1. f[n] = Round(f[n - 1], pick)  BY <1>1 DEF Rounds
  <2>2. D \subseteq DOMAIN f[n - 1].leases /\ DOMAIN f[n - 1].leases \subseteq 1..N
    BY <1>2, LeaseTypes DEF LeaseIds
  <2>3. CASE D = {}  BY <1>2, <2>1, <2>3 DEF Round
  <2>4. CASE D # {}
    <3>1. D \in SUBSET (0..N)  BY <1>0, <2>2
    <3>2. Max(D) \in D  BY <1>0, <2>4, <3>1, MaxIn
    <3>3. f[n] = DropOne(f[n - 1], Max(D), pick)  BY <2>1, <2>4 DEF Round
    <3>4. Dropped(f[n - 1], f[n], Max(D)) /\ LedgerType(f[n])
      BY <1>2, <2>2, <3>2, <3>3, DropOneStep
    <3>5. QED  BY <3>2, <3>4
  <2>5. QED  BY <2>3, <2>4
<1>3. LedgerType(f[0])  BY <1>1, SeedType DEF Rounds
<1>4. \A n \in 0..N : n \in G
  <2>1. 0 \in G  BY <1>0, <1>3
  <2>2. ASSUME NEW n \in 1..N, n - 1 \in G PROVE n \in G
    <3>1. n \in 0..N  BY <1>0
    <3>2. QED  BY <1>2, <2>2, <3>1
  <2> HIDE DEF G
  <2>3. QED  BY <1>0, <2>1, <2>2, UpTo
<1>5. \A n \in 1..N : One(n)
  <2>1. ASSUME NEW n \in 1..N PROVE One(n)
    <3>1. n - 1 \in G  BY <1>0, <1>4
    <3>2. QED  BY <1>2, <3>1
  <2>2. QED  BY <2>1
<1> HIDE DEF One
<1> DEFINE Few(n) == f[n].dropped = {} \/ Cardinality(DOMAIN f[n].leases) <= N - n
           H == {n \in 0..N : Few(n)}
<1>6. ASSUME NEW n \in 0..N
      PROVE  /\ IsFiniteSet(DOMAIN f[n].leases) /\ Cardinality(DOMAIN f[n].leases) \in Nat
             /\ Cardinality(DOMAIN f[n].leases) <= N
             /\ f[n].dropped \subseteq DOMAIN f[n].leases
  <2>1. DOMAIN f[n].leases \subseteq 1..N /\ f[n].dropped \subseteq DOMAIN f[n].leases
    <3>1. LedgerType(f[n])  BY <1>4
    <3>2. QED  BY <3>1, LeaseTypes DEF LeaseIds
  <2>2. IsFiniteSet(1..N) /\ Cardinality(1..N) = IF 1 > N THEN 0 ELSE N - 1 + 1
    <3>1. 1 \in Int /\ N \in Int  BY <1>0
    <3>2. QED  BY <3>1, FS_Interval
  <2>3. Cardinality(1..N) <= N  BY <1>0, <2>2
  <2>4. /\ IsFiniteSet(DOMAIN f[n].leases)
        /\ Cardinality(DOMAIN f[n].leases) <= Cardinality(1..N)
    BY <2>1, <2>2, FS_Subset
  <2>5. Cardinality(DOMAIN f[n].leases) \in Nat /\ Cardinality(1..N) \in Nat
    BY <2>2, <2>4, FS_CardinalityType
  <2>6. QED  BY <1>0, <2>1, <2>3, <2>4, <2>5
<1>7. 0 \in H  BY <1>0, <1>6
<1>8. ASSUME NEW n \in 1..N, n - 1 \in H PROVE n \in H
  <2>1. n \in 0..N /\ n - 1 \in 0..N /\ n \in Int /\ N \in Int  BY <1>0
  <2>2. CASE f[n] = f[n - 1] /\ f[n - 1].dropped = {}  BY <2>1, <2>2
  <2>3. CASE \E l \in f[n - 1].dropped : Dropped(f[n - 1], f[n], l)
    <3>1. PICK l \in f[n - 1].dropped : Dropped(f[n - 1], f[n], l)  BY <2>3
    <3>2. DOMAIN f[n].leases = DOMAIN f[n - 1].leases \ {l}
      BY <3>1 DEF Dropped, Left, Completed
    <3>3. l \in DOMAIN f[n - 1].leases  BY <1>6, <2>1
    <3>4. Cardinality(DOMAIN f[n].leases) = Cardinality(DOMAIN f[n - 1].leases) - 1
      <4> DEFINE S == DOMAIN f[n - 1].leases
      <4>1. IsFiniteSet(S) /\ l \in S  BY <1>6, <2>1, <3>3
      <4> HIDE DEF S
      <4>2. Cardinality(S \ {l}) = Cardinality(S) - 1  BY <4>1, FS_RemoveElement
      <4>3. QED  BY <3>2, <4>2 DEF S
    <3>5. Few(n - 1) /\ f[n - 1].dropped # {}  BY <1>8, <3>1
    <3> DEFINE c == Cardinality(DOMAIN f[n - 1].leases)
               d == Cardinality(DOMAIN f[n].leases)
    <3>6. c \in Nat /\ c <= N - (n - 1) /\ d = c - 1  BY <1>6, <2>1, <3>4, <3>5
    <3> HIDE DEF c, d
    <3>7. d <= N - n  BY <2>1, <3>6
    <3>8. QED  BY <2>1, <3>7 DEF d
  <2>4. QED  BY <1>5, <2>2, <2>3 DEF One
<1>9. N \in H
  <2> HIDE DEF H
  <2>1. \A n \in 0..N : n \in H  BY <1>0, <1>7, <1>8, UpTo
  <2>2. QED  BY <1>0, <2>1
<1>10. f[N].dropped = {}
  <2>1. CASE Cardinality(DOMAIN f[N].leases) <= N - N
    <3>1. Cardinality(DOMAIN f[N].leases) = 0  BY <1>0, <1>6, <2>1
    <3>2. DOMAIN f[N].leases = {}  BY <1>0, <1>6, <3>1, FS_EmptySet
    <3>3. QED  BY <1>0, <1>6, <3>2
  <2>2. QED  BY <1>9, <2>1
<1>11. Chain(f, L, M, seed)
  <2>1. f[0] = [L EXCEPT !.dropped = @ \union seed] /\ M = f[N]  BY <1>1 DEF Rounds
  <2> HIDE DEF M
  <2>2. QED  BY <1>4, <1>5, <1>10, <2>1 DEF Chain, One
<1>12. QED  BY <1>11

-----------------------------------------------------------------------------
(* The end of a handler *)

Removals(first, c) ==
  [i \in 1..Len(c) |-> [lease |-> Resume, id |-> first + i - 1,
                        adds |-> NoAdds, removes |-> DOMAIN c[i]]]

Retired(L, M) ==
  /\ Steers(L, M) /\ M.removes = {} /\ M.dropped = L.dropped
  /\ M.next_lease = L.next_lease /\ M.leases = L.leases /\ M.waves = L.waves
  /\ M.last_seen = L.last_seen
  /\ IF DOMAIN L.leases = {}
     THEN M.conn = FALSE /\ M.outbox = << >> /\ M.next_wave = L.next_wave
     ELSE /\ M.conn = L.conn
          /\ IF L.removes = {} \/ ~L.conn
             THEN M.outbox = L.outbox /\ M.next_wave = L.next_wave
             ELSE \E c, n : /\ Parts(c, n, [t \in L.removes |-> 0])
                            /\ M.outbox = L.outbox \o Removals(L.next_wave, c)
                            /\ M.next_wave = L.next_wave + n

LEMMA RetireIs ==
  ASSUME BidiAssumption, NEW L, LedgerType(L)
  PROVE  Retired(L, Retire(L))
<1> DEFINE adds == [t \in L.removes |-> 0]
           c == Chunks(adds)
           M == [L EXCEPT !.removes = {}]
           R == Retire(L)
<1>0. Named(L) /\ L.removes \subseteq Topics /\ L.next_wave \in Nat  BY LeaseTypes
<1>1. adds \in Adds  BY <1>0 DEF Adds
<1>2. PICK n : Parts(c, n, adds)
  <2> HIDE DEF adds
  <2>1. QED  BY <1>1, ChunksPart
<1>3. Len(c) = n /\ n \in Nat  BY <1>2 DEF Parts
<1>4. R = IF DOMAIN L.leases = {}
          THEN [M EXCEPT !.outbox = << >>, !.conn = FALSE]
          ELSE IF L.removes = {} \/ ~L.conn THEN M
          ELSE [M EXCEPT !.outbox = @ \o Removals(L.next_wave, c), !.next_wave = @ + Len(c)]
  BY DEF Retire, Removals
<1> HIDE DEF c, R
<1>5. /\ Steers(L, M) /\ M.removes = {} /\ M.dropped = L.dropped
      /\ M.next_lease = L.next_lease /\ M.leases = L.leases /\ M.waves = L.waves
      /\ M.last_seen = L.last_seen /\ M.outbox = L.outbox /\ M.conn = L.conn
      /\ M.next_wave = L.next_wave
  BY <1>0 DEF Named, Steers
<1> HIDE DEF M
<1>6. CASE DOMAIN L.leases = {}
  <2>1. R = [M EXCEPT !.outbox = << >>, !.conn = FALSE]  BY <1>4, <1>6
  <2>2. QED  BY <1>5, <1>6, <2>1 DEF Steers, Named, Retired, R
<1>7. CASE DOMAIN L.leases # {} /\ (L.removes = {} \/ ~L.conn)
  <2>1. R = M  BY <1>4, <1>7
  <2>2. QED  BY <1>5, <1>7, <2>1 DEF Retired, R
<1>8. CASE DOMAIN L.leases # {} /\ ~(L.removes = {} \/ ~L.conn)
  <2>1. R = [M EXCEPT !.outbox = @ \o Removals(L.next_wave, c), !.next_wave = @ + Len(c)]
    BY <1>4, <1>8
  <2>2. /\ Steers(L, R) /\ R.removes = {} /\ R.dropped = L.dropped
        /\ R.next_lease = L.next_lease /\ R.leases = L.leases /\ R.waves = L.waves
        /\ R.last_seen = L.last_seen /\ R.conn = L.conn
        /\ R.outbox = L.outbox \o Removals(L.next_wave, c)
        /\ R.next_wave = L.next_wave + n
    BY <1>3, <1>5, <2>1 DEF Steers, Named
  <2>3. QED  BY <1>2, <1>8, <2>2 DEF Retired, R
<1>9. QED  BY <1>6, <1>7, <1>8

Settled(L, M) ==
  /\ Named(M)
  /\ M.suspended = L.suspended /\ M.dial = L.dial /\ M.closed = L.closed
  /\ M.deferred = L.deferred /\ M.conn = L.conn
  /\ M.removes = L.removes /\ M.dropped = L.dropped
  /\ M.next_lease = L.next_lease /\ M.next_wave = L.next_wave
  /\ M.leases = L.leases /\ M.last_seen = L.last_seen /\ M.outbox = L.outbox
  /\ M.waves = IF DOMAIN L.leases = {} THEN NoWaves ELSE L.waves
  /\ M.waiting = IF DOMAIN L.leases = {} \/ (L.conn /\ DOMAIN L.waves = {})
                 THEN 0 ELSE L.waiting

LEMMA SettleIs ==
  ASSUME NEW L, Named(L)
  PROVE  Settled(L, Settle(L))
<1> DEFINE I == SettleIdle(L)
           M == Settle(L)
<1>0. DOMAIN NoWaves = {}  BY DEF NoWaves
<1>1. /\ Named(I)
      /\ I.suspended = L.suspended /\ I.dial = L.dial /\ I.closed = L.closed
      /\ I.deferred = L.deferred /\ I.conn = L.conn
      /\ I.removes = L.removes /\ I.dropped = L.dropped
      /\ I.next_lease = L.next_lease /\ I.next_wave = L.next_wave
      /\ I.leases = L.leases /\ I.last_seen = L.last_seen /\ I.outbox = L.outbox
      /\ I.waves = IF DOMAIN L.leases = {} THEN NoWaves ELSE L.waves
      /\ I.waiting = IF DOMAIN L.leases = {} THEN 0 ELSE L.waiting
  BY DEF SettleIdle, Named
<1>2. M = SettleCaughtUp(I)  BY DEF Settle
<1> HIDE DEF I, M
<1>3. M = IF I.conn /\ DOMAIN I.waves = {} THEN [I EXCEPT !.waiting = 0] ELSE I
  BY <1>2 DEF SettleCaughtUp
<1>4. CASE I.conn /\ DOMAIN I.waves = {}
  <2>1. M = [I EXCEPT !.waiting = 0]  BY <1>3, <1>4
  <2>2. QED  BY <1>0, <1>1, <1>4, <2>1 DEF Settled, Named, M
<1>5. CASE ~(I.conn /\ DOMAIN I.waves = {})
  <2>1. M = I  BY <1>3, <1>5
  <2>2. QED  BY <1>0, <1>1, <1>5, <2>1 DEF Settled, M
<1>6. QED  BY <1>4, <1>5

LEMMA QueueIs ==
  ASSUME NEW l \in Nat, NEW first \in Nat, NEW c, NEW n, NEW adds, Parts(c, n, adds)
  PROVE  LET q == Queue(l, first, c)
         IN /\ q \in Seq(Mutates) /\ Len(q) = n /\ n \in Nat
            /\ \A i \in 1..n : q[i].lease = l /\ q[i].adds = c[i] /\ q[i].removes = {}
<1> DEFINE q == Queue(l, first, c)
           one(i) == [lease |-> l, id |-> first + i - 1, adds |-> c[i], removes |-> {}]
<1>1. n \in Nat /\ Len(c) = n /\ c \in Seq(Adds)  BY DEF Parts
<1>2. q = [i \in 1..n |-> one(i)]  BY <1>1 DEF Queue
<1>3. \A i \in 1..n : first + i - 1 \in Nat /\ c[i] \in Adds  BY <1>1
<1>4. \A i \in 1..n : one(i) \in Mutates  BY <1>3 DEF Mutates
<1>5. \A i \in 1..n : /\ one(i).lease = l
                      /\ one(i).adds = c[i] /\ one(i).removes = {}
  OBVIOUS
<1> HIDE DEF q, one
<1>6. q \in [1..n -> Mutates]  BY <1>2, <1>4
<1>7. q \in Seq(Mutates) /\ Len(q) = n  BY <1>1, <1>2, <1>6
<1>8. \A i \in 1..n : q[i].lease = l /\ q[i].adds = c[i] /\ q[i].removes = {}
  BY <1>2, <1>5
<1>9. QED  BY <1>1, <1>7, <1>8 DEF q

LEMMA RemovalsIs ==
  ASSUME NEW first \in Nat, NEW c, NEW n, NEW adds \in Adds, Parts(c, n, adds)
  PROVE  LET q == Removals(first, c)
         IN /\ q \in Seq(Mutates) /\ Len(q) = n /\ n \in Nat
            /\ \A i \in 1..n : q[i].lease = Resume /\ q[i].adds = NoAdds /\ q[i].removes = DOMAIN c[i]
<1> DEFINE q == Removals(first, c)
           one(i) == [lease |-> Resume, id |-> first + i - 1,
                      adds |-> NoAdds, removes |-> DOMAIN c[i]]
<1>1. n \in Nat /\ Len(c) = n /\ c \in Seq(Adds)  BY DEF Parts
<1>2. q = [i \in 1..n |-> one(i)]  BY <1>1 DEF Removals
<1>3. \A i \in 1..n : first + i - 1 \in Nat /\ DOMAIN c[i] \subseteq Topics
  BY <1>1 DEF Parts, Adds
<1>30. NoAdds \in Adds
  <2>1. NoAdds \in [{} -> Nat]  BY DEF NoAdds
  <2>2. QED  BY <2>1 DEF Adds
<1>4. \A i \in 1..n : one(i) \in Mutates  BY <1>3, <1>30 DEF Mutates, Resume
<1>5. \A i \in 1..n : /\ one(i).lease = Resume
                      /\ one(i).adds = NoAdds /\ one(i).removes = DOMAIN c[i]
  OBVIOUS
<1> HIDE DEF q, one
<1>6. q \in [1..n -> Mutates]  BY <1>2, <1>4
<1>7. q \in Seq(Mutates) /\ Len(q) = n  BY <1>1, <1>2, <1>6
<1>8. \A i \in 1..n : q[i].lease = Resume /\ q[i].adds = NoAdds /\ q[i].removes = DOMAIN c[i]
  BY <1>2, <1>5
<1>9. QED  BY <1>1, <1>7, <1>8 DEF q

LEMMA RetiredType ==
  ASSUME BidiAssumption, NEW L, LedgerType(L), NEW M, Retired(L, M)
  PROVE  LedgerType(M)
<1>1. L.next_wave \in Nat \ {0} /\ L.outbox \in Seq(Mutates) /\ L.removes \subseteq Topics
      /\ [t \in L.removes |-> 0] \in Adds
  <2>1. L.next_wave \in Nat \ {0} /\ L.outbox \in Seq(Mutates) /\ L.removes \subseteq Topics
    BY LeaseTypes
  <2>2. [t \in L.removes |-> 0] \in [L.removes -> Nat]  OBVIOUS
  <2>3. QED  BY <2>1, <2>2 DEF Adds
<1>2. M.outbox \in Seq(Mutates) /\ M.next_wave \in Nat /\ L.next_wave <= M.next_wave
  <2>1. CASE M.outbox = << >> /\ M.next_wave = L.next_wave  BY <1>1, <2>1, EmptySeq
  <2>2. CASE M.outbox = L.outbox /\ M.next_wave = L.next_wave  BY <1>1, <2>2
  <2>3. CASE \E c, n : /\ Parts(c, n, [t \in L.removes |-> 0])
                       /\ M.outbox = L.outbox \o Removals(L.next_wave, c)
                       /\ M.next_wave = L.next_wave + n
    <3> DEFINE adds == [t \in L.removes |-> 0]
    <3> HIDE DEF adds
    <3>0. \E c, n : Parts(c, n, adds) /\ M.outbox = L.outbox \o Removals(L.next_wave, c)
                    /\ M.next_wave = L.next_wave + n
      BY <2>3 DEF adds
    <3>1. PICK c, n : Parts(c, n, adds) /\ M.outbox = L.outbox \o Removals(L.next_wave, c)
                      /\ M.next_wave = L.next_wave + n
      BY <3>0
    <3>2. adds \in Adds  BY <1>1 DEF adds
    <3>3. n \in Nat  BY <3>1 DEF Parts
    <3>4. L.next_wave \in Nat  BY <1>1
    <3>5. Removals(L.next_wave, c) \in Seq(Mutates)  BY <3>1, <3>2, <3>4, RemovalsIs
    <3>6. QED  BY <1>1, <3>1, <3>3, <3>5
  <2>4. QED  BY <2>1, <2>2, <2>3 DEF Retired
<1>3. DOMAIN M.waves \subseteq 1..M.next_wave - 1
  <2>1. \A a, b \in Nat : a <= b => 1..a - 1 \subseteq 1..b - 1  OBVIOUS
  <2>2. 1..L.next_wave - 1 \subseteq 1..M.next_wave - 1  BY <1>1, <1>2, <2>1
  <2>3. DOMAIN M.waves \subseteq 1..L.next_wave - 1  BY LeaseTypes DEF Retired
  <2>4. QED  BY <2>2, <2>3
<1>4. M.next_wave \in Nat \ {0} /\ M.conn \in BOOLEAN
  <2>1. M.conn \in BOOLEAN  BY LeaseTypes DEF Retired
  <2>2. QED  BY <1>1, <1>2, <2>1
<1>5. /\ Named(M) /\ M.next_lease = L.next_lease /\ M.leases = L.leases
      /\ M.waves = L.waves /\ M.last_seen = L.last_seen /\ M.dropped = L.dropped
      /\ M.removes = {} /\ M.suspended = L.suspended
  BY DEF Retired, Steers
<1>6. QED  BY <1>2, <1>3, <1>4, <1>5, LeaseTypes, TypedLedger

LEMMA SettledType ==
  ASSUME NEW L, LedgerType(L), NEW M, Settled(L, M)
  PROVE  LedgerType(M)
<1>1. DOMAIN M.waves \subseteq 1..M.next_wave - 1 /\ \A w \in DOMAIN M.waves : WaveType(M.waves[w])
  <2>1. CASE DOMAIN L.leases = {}
    <3>1. DOMAIN M.waves = {}  BY <2>1 DEF Settled, NoWaves
    <3>2. QED  BY <3>1
  <2>2. CASE DOMAIN L.leases # {}  BY <2>2, LeaseTypes DEF Settled
  <2>3. QED  BY <2>1, <2>2
<1>2. QED  BY <1>1, LeaseTypes, TypedLedger DEF Settled

Finished(L, M, seed) ==
  \E f, D, R : /\ Chain(f, L, D, seed) /\ LedgerType(D)
               /\ Retired(D, R) /\ LedgerType(R) /\ Settled(R, M) /\ LedgerType(M)

LEMMA FinishIs ==
  ASSUME BidiAssumption, NEW L, LedgerType(L), NEW seed \in SUBSET (DOMAIN L.leases),
         NEW pick \in BOOLEAN
  PROVE  Finished(L, Finish(L, seed, pick), seed)
<1> DEFINE D == DropLeases(L, seed, pick)
           R == Retire(D)
           M == Settle(R)
<1>1. PICK f : Chain(f, L, D, seed)  BY DropLeasesIs
<1>2. LedgerType(D)
  <2>1. MaxLeases \in 0..MaxLeases  BY DEF BidiAssumption
  <2>2. QED  BY <1>1, <2>1 DEF Chain
<1> HIDE DEF D
<1>3. Retired(D, R)  BY <1>2, RetireIs
<1>4. LedgerType(R)  BY <1>2, <1>3, RetiredType
<1> HIDE DEF R
<1>5. Named(R)  BY <1>4, LeaseTypes
<1>6. Settled(R, M)  BY <1>5, SettleIs
<1>7. LedgerType(M)  BY <1>4, <1>6, SettledType
<1>8. Finish(L, seed, pick) = M  BY DEF Finish, D, R
<1> HIDE DEF M
<1>9. QED  BY <1>1, <1>2, <1>3, <1>4, <1>6, <1>7, <1>8 DEF Finished

-----------------------------------------------------------------------------
(* demux *)

(* One lane of a lease moved on. *)
Moved(s, z, t, h, r) ==
  /\ DOMAIN z = DOMAIN s /\ z.floors = s.floors /\ z.asked = s.asked
  /\ z.live_snap = s.live_snap /\ z.preexisting = s.preexisting
  /\ z.caught_up = s.caught_up /\ z.wedged = s.wedged /\ z.got = s.got
  /\ z.held = [s.held EXCEPT ![t] = h] /\ z.replayed = [s.replayed EXCEPT ![t] = r]

LEMMA LeaseFields ==
  ASSUME NEW s, LeaseType(s), NEW t \in DOMAIN s.floors
  PROVE  /\ DOMAIN s = {"floors", "live_snap", "replayed", "held", "preexisting",
                        "caught_up", "wedged", "got", "asked"}
         /\ s.floors[t] \in Nat /\ s.asked[t] \in Nat /\ s.live_snap[t] \in Nat
         /\ s.replayed[t] \in Nat /\ s.held[t] \in Seq(Nat) /\ s.got[t] \in Seq(Nat)
         /\ t \in DOMAIN s.held /\ t \in DOMAIN s.replayed /\ t \in DOMAIN s.got
         /\ t \in Topics /\ s.caught_up \in BOOLEAN /\ s.wedged \in BOOLEAN
BY DEF LeaseType

LEMMA MovedType ==
  ASSUME NEW s, LeaseType(s), NEW t \in DOMAIN s.floors, NEW z,
         NEW h \in Seq(Nat), NEW r \in Nat, Moved(s, z, t, h, r)
  PROVE  /\ LeaseType(z)
         /\ z.held[t] = h /\ z.replayed[t] = r
         /\ \A u \in DOMAIN s.floors : u # t => z.held[u] = s.held[u] /\ z.replayed[u] = s.replayed[u]
<1>1. z.held \in [DOMAIN s.floors -> Seq(Nat)] /\ z.replayed \in [DOMAIN s.floors -> Nat]
  BY DEF LeaseType, Moved
<1>2. LeaseType(z)  BY <1>1 DEF LeaseType, Moved
<1>3. QED  BY <1>2 DEF Moved, LeaseType

LEMMA Max2Is ==
  \A a, b \in Nat : Max2(a, b) \in Nat /\ a <= Max2(a, b) /\ b <= Max2(a, b)
                    /\ (Max2(a, b) = a \/ Max2(a, b) = b)
                    /\ (a <= b => Max2(a, b) = b) /\ (b <= a => Max2(a, b) = a)
BY DEF Max2

(* Commit c of topic t is admitted by lease s with effect a. *)
Admitted(s, t, c, a) ==
  /\ DOMAIN a = {"out", "state", "drop"} /\ a.drop = FALSE
  /\ a.out = Append(Among(s.held[t], s.replayed[t] + 1 .. c - 1), c)
  /\ Moved(s, a.state, t, Among(s.held[t], Above(c)), Max2(s.replayed[t], c))

LEMMA AdmitIs ==
  ASSUME NEW s, LeaseType(s), NEW t \in DOMAIN s.floors, NEW c \in Nat
  PROVE  Admitted(s, t, c, Admit(s, t, c))
<1> DEFINE h == Among(s.held[t], Above(c))
           r == Max2(s.replayed[t], c)
           z == [s EXCEPT !.held[t] = Among(@, Above(c)), !.replayed[t] = Max2(@, c)]
<1>1. LeaseType(s) /\ DOMAIN s = {"floors", "live_snap", "replayed", "held", "preexisting",
                        "caught_up", "wedged", "got", "asked"}
  BY LeaseFields
<1>2. z = [s EXCEPT !.held[t] = h, !.replayed[t] = r]  OBVIOUS
<1> HIDE DEF h, r, z
<1>3. Moved(s, z, t, h, r)  BY <1>1, <1>2 DEF Moved
<1>4. QED  BY <1>3 DEF Admit, Admitted, z, h, r

LEMMA AdmitOwedIs ==
  ASSUME NEW s, LeaseType(s), NEW t \in DOMAIN s.floors, NEW c \in Nat
  PROVE  LET a == Admit(s, t, c)
             b == AdmitOwed(s, t, c)
             r == Max2(s.replayed[t], c)
             tail == Among(Among(s.held[t], Above(c)), Above(r))
         IN IF OwedOn(a.state, t) THEN b = a
            ELSE /\ DOMAIN b = {"out", "state", "drop"} /\ b.drop = FALSE
                 /\ b.out = a.out \o tail
                 /\ Moved(s, b.state, t, << >>, IF tail = << >> THEN r ELSE Last(tail))
<1> DEFINE a == Admit(s, t, c)
           b == AdmitOwed(s, t, c)
           r == Max2(s.replayed[t], c)
           h == Among(s.held[t], Above(c))
           tail == Among(h, Above(r))
           r2 == IF tail = << >> THEN r ELSE Last(tail)
<1>1. /\ DOMAIN a = {"out", "state", "drop"} /\ a.drop = FALSE
      /\ Moved(s, a.state, t, h, r)
  <2>1. Admitted(s, t, c, a)  BY AdmitIs
  <2> HIDE DEF a
  <2>2. QED  BY <2>1 DEF Admitted
<1>2. h \in Seq(Nat) /\ r \in Nat
  <2>1. s.held[t] \in Seq(Nat) /\ s.replayed[t] \in Nat  BY LeaseFields
  <2>2. QED  BY <2>1, AmongPicks, Max2Is
<1> HIDE DEF a, r, h
<1>3. a.state.held[t] = h /\ a.state.replayed[t] = r /\ LeaseType(a.state)
  BY <1>1, <1>2, MovedType
<1> DEFINE over == [a.state EXCEPT !.held[t] = << >>, !.replayed[t] = r2]
<1>4. b = IF OwedOn(a.state, t) THEN a ELSE [a EXCEPT !.out = @ \o tail, !.state = over]
  <2>1. b = LET tl == Among(a.state.held[t], Above(a.state.replayed[t]))
            IN IF OwedOn(a.state, t) THEN a
               ELSE [a EXCEPT !.out = @ \o tl,
                       !.state = [a.state EXCEPT !.held[t] = << >>,
                                    !.replayed[t] = IF tl = << >> THEN @ ELSE Last(tl)]]
    BY DEF AdmitOwed, a
  <2>2. Among(a.state.held[t], Above(a.state.replayed[t])) = tail  BY <1>3
  <2>3. [a.state EXCEPT !.held[t] = << >>,
                        !.replayed[t] = IF tail = << >> THEN @ ELSE Last(tail)] = over
    <3> HIDE DEF tail
    <3>1. QED  BY <1>3
  <2> HIDE DEF tail, b, over
  <2>4. QED  BY <2>1, <2>2, <2>3
<1>5. CASE OwedOn(a.state, t)  BY <1>4, <1>5 DEF a
<1>6. CASE ~OwedOn(a.state, t)
  <2>1. b = [a EXCEPT !.out = @ \o tail, !.state = over]  BY <1>4, <1>6
  <2> HIDE DEF b, tail, r2
  <2>2. /\ DOMAIN b = {"out", "state", "drop"} /\ b.drop = FALSE /\ b.out = a.out \o tail
        /\ b.state = over
    <3> HIDE DEF over
    <3>1. QED  BY <1>1, <2>1
  <2>3. Moved(s, over, t, << >>, r2)
    <3>1. DOMAIN a.state = {"floors", "live_snap", "replayed", "held", "preexisting",
                        "caught_up", "wedged", "got", "asked"}
      BY <1>1, LeaseFields DEF Moved
    <3>2. over.held = [a.state.held EXCEPT ![t] = << >>]
          /\ over.replayed = [a.state.replayed EXCEPT ![t] = r2]
      BY <3>1
    <3>3. over.held = [s.held EXCEPT ![t] = << >>]
      <4>1. a.state.held = [s.held EXCEPT ![t] = h]  BY <1>1 DEF Moved
      <4> HIDE DEF over
      <4>2. QED  BY <3>2, <4>1
    <3>4. over.replayed = [s.replayed EXCEPT ![t] = r2]
      <4>1. a.state.replayed = [s.replayed EXCEPT ![t] = r]  BY <1>1 DEF Moved
      <4> HIDE DEF over
      <4>2. QED  BY <3>2, <4>1
    <3>5. /\ DOMAIN over = DOMAIN a.state /\ over.floors = a.state.floors
          /\ over.asked = a.state.asked
          /\ over.live_snap = a.state.live_snap /\ over.preexisting = a.state.preexisting
          /\ over.caught_up = a.state.caught_up /\ over.wedged = a.state.wedged
          /\ over.got = a.state.got
      BY <3>1
    <3> HIDE DEF over
    <3>6. QED  BY <1>1, <3>3, <3>4, <3>5 DEF Moved
  <2>4. QED  BY <1>6, <2>2, <2>3 DEF a, b, r, h, tail, r2
<1>7. QED  BY <1>5, <1>6

(* What stays when a lease takes a message. *)
Same(s, z) ==
  /\ z.floors = s.floors /\ z.asked = s.asked /\ z.live_snap = s.live_snap
  /\ z.preexisting = s.preexisting /\ z.caught_up = s.caught_up /\ z.wedged = s.wedged

Other(s, z, t) ==
  \A u \in DOMAIN s.floors : u # t =>
    z.held[u] = s.held[u] /\ z.replayed[u] = s.replayed[u] /\ z.got[u] = s.got[u]

(* A result for one lease: handed out, withheld, or the end of it. *)
TakenBy(s, t, r) ==
  /\ DOMAIN r = {"out", "state", "drop"} /\ r.out \in Seq(Nat) /\ r.drop \in BOOLEAN
  /\ LeaseType(r.state) /\ Same(s, r.state) /\ r.state.got = s.got
  /\ ~r.drop => Other(s, r.state, t)

LEMMA SkipIs ==
  ASSUME NEW s, LeaseType(s), NEW t \in DOMAIN s.floors
  PROVE  TakenBy(s, t, Skip(s)) /\ Skip(s).out = << >> /\ Skip(s).state = s /\ Skip(s).drop = FALSE
BY EmptySeq DEF TakenBy, Skip, Same, Other

MovedTo(s, t, r, h, n) ==
  /\ DOMAIN r = {"out", "state", "drop"} /\ r.out \in Seq(Nat) /\ r.drop = FALSE
  /\ h \in Seq(Nat) /\ n \in Nat /\ Moved(s, r.state, t, h, n)

LEMMA MovedTaken ==
  ASSUME NEW s, LeaseType(s), NEW t \in DOMAIN s.floors, NEW r, NEW h, NEW n,
         MovedTo(s, t, r, h, n)
  PROVE  TakenBy(s, t, r) /\ r.state.held[t] = h /\ r.state.replayed[t] = n
<1>1. /\ LeaseType(r.state) /\ r.state.held[t] = h /\ r.state.replayed[t] = n
      /\ \A u \in DOMAIN s.floors : u # t =>
           r.state.held[u] = s.held[u] /\ r.state.replayed[u] = s.replayed[u]
  BY MovedType DEF MovedTo
<1>2. Same(s, r.state) /\ r.state.got = s.got  BY DEF Moved, Same, MovedTo
<1>3. Other(s, r.state, t)  BY <1>1, <1>2 DEF Other
<1>4. QED  BY <1>1, <1>2, <1>3 DEF TakenBy, MovedTo

LEMMA AdmitTaken ==
  ASSUME NEW s, LeaseType(s), NEW t \in DOMAIN s.floors, NEW c \in Nat
  PROVE  LET a == Admit(s, t, c)
         IN /\ TakenBy(s, t, a) /\ a.drop = FALSE
            /\ a.out = Append(Among(s.held[t], s.replayed[t] + 1 .. c - 1), c)
            /\ a.state.held[t] = Among(s.held[t], Above(c))
            /\ a.state.replayed[t] = Max2(s.replayed[t], c)
<1> DEFINE a == Admit(s, t, c)
           h == Among(s.held[t], Above(c))
           n == Max2(s.replayed[t], c)
           o == Among(s.held[t], s.replayed[t] + 1 .. c - 1)
<1>1. s.held[t] \in Seq(Nat) /\ s.replayed[t] \in Nat  BY LeaseFields
<1>2. h \in Seq(Nat) /\ n \in Nat /\ o \in Seq(Nat)  BY <1>1, AmongPicks, Max2Is
<1>3. DOMAIN a = {"out", "state", "drop"} /\ a.drop = FALSE /\ a.out = Append(o, c)
      /\ Moved(s, a.state, t, h, n)
  <2>1. Admitted(s, t, c, a)  BY AdmitIs
  <2> HIDE DEF a
  <2>2. QED  BY <2>1 DEF Admitted
<1> HIDE DEF a, h, n, o
<1>4. a.out \in Seq(Nat)  BY <1>2, <1>3
<1>5. TakenBy(s, t, a) /\ a.state.held[t] = h /\ a.state.replayed[t] = n
  <2>1. MovedTo(s, t, a, h, n)  BY <1>2, <1>3, <1>4 DEF MovedTo
  <2>2. QED  BY <2>1, MovedTaken
<1>6. QED  BY <1>3, <1>5 DEF a, h, n, o

LEMMA AdmitOwedTaken ==
  ASSUME NEW s, LeaseType(s), NEW t \in DOMAIN s.floors, NEW c \in Nat
  PROVE  LET a == Admit(s, t, c)
             b == AdmitOwed(s, t, c)
             r == Max2(s.replayed[t], c)
             tail == Among(Among(s.held[t], Above(c)), Above(r))
         IN /\ TakenBy(s, t, b) /\ b.drop = FALSE
            /\ IF OwedOn(a.state, t) THEN b = a
               ELSE /\ b.out = a.out \o tail /\ b.state.held[t] = << >>
                    /\ b.state.replayed[t] = IF tail = << >> THEN r ELSE Last(tail)
<1> DEFINE a == Admit(s, t, c)
           b == AdmitOwed(s, t, c)
           r == Max2(s.replayed[t], c)
           h == Among(s.held[t], Above(c))
           tail == Among(h, Above(r))
           n == IF tail = << >> THEN r ELSE Last(tail)
<1>1. s.held[t] \in Seq(Nat) /\ s.replayed[t] \in Nat  BY LeaseFields
<1>2. h \in Seq(Nat) /\ r \in Nat /\ tail \in Seq(Nat)  BY <1>1, AmongPicks, Max2Is
<1>3. TakenBy(s, t, a) /\ a.drop = FALSE  BY AdmitTaken
<1>4. IF OwedOn(a.state, t) THEN b = a
      ELSE /\ DOMAIN b = {"out", "state", "drop"} /\ b.drop = FALSE
           /\ b.out = a.out \o tail /\ Moved(s, b.state, t, << >>, n)
  BY AdmitOwedIs
<1> HIDE DEF a, b, r, h, tail
<1>5. n \in Nat
  <2>1. tail # << >> => Last(tail) \in Nat
    <3>1. ASSUME tail # << >> PROVE Len(tail) \in 1..Len(tail)  BY <1>2, <3>1
    <3>2. QED  BY <1>2, <3>1, ElementOfSeq DEF Last
  <2>2. QED  BY <1>2, <2>1
<1> HIDE DEF n
<1>6. CASE OwedOn(a.state, t)
  <2>1. b = a  BY <1>4, <1>6
  <2>2. QED  BY <1>3, <1>6, <2>1 DEF a, b, r, h, tail
<1>7. CASE ~OwedOn(a.state, t)
  <2>1. /\ DOMAIN b = {"out", "state", "drop"} /\ b.drop = FALSE
        /\ b.out = a.out \o tail /\ Moved(s, b.state, t, << >>, n)
    BY <1>4, <1>7, ZenonT(20)
  <2>2. a.out \in Seq(Nat)  BY <1>3 DEF TakenBy
  <2>3. a.out \o tail \in Seq(Nat)  BY <1>2, <2>2
  <2>4. << >> \in Seq(Nat)  BY EmptySeq
  <2>5. MovedTo(s, t, b, << >>, n)  BY <1>5, <2>1, <2>3, <2>4 DEF MovedTo
  <2>6. TakenBy(s, t, b) /\ b.state.held[t] = << >> /\ b.state.replayed[t] = n
    BY <2>5, MovedTaken
  <2>7. QED  BY <1>7, <2>1, <2>6 DEF a, b, r, h, tail, n
<1>8. QED  BY <1>6, <1>7

Taken(L, l, t, c, w) ==
  IF c > L.last_seen[t] THEN TakeFresh(L, l, t, c, w) ELSE TakeOwed(L, l, t, c, w)

Cleared(s) == [s EXCEPT !.held = [u \in DOMAIN @ |-> << >>]]

(* What TakeFresh does, by cases. *)
LEMMA TakeFreshIs ==
  ASSUME NEW L, NEW l, NEW t, NEW c, NEW w, LeaseType(L.leases[l]),
         t \in DOMAIN L.leases[l].floors, c \in Nat
  PROVE  LET s == L.leases[l]
             r == TakeFresh(L, l, t, c, w)
         IN /\ TakenBy(s, t, r)
            /\ c <= s.floors[t] => r = Skip(s)
            /\ c > s.floors[t] /\ ~OwedOn(s, t) =>
                 r.out = <<c>> /\ r.state = s /\ r.drop = FALSE
            /\ c > s.floors[t] /\ OwedOn(s, t) /\ Rides(L, l, w) /\ s.live_snap[t] = 0 =>
                 r = Admit(s, t, c)
            /\ c > s.floors[t] /\ OwedOn(s, t) /\ ~(Rides(L, l, w) /\ s.live_snap[t] = 0) =>
                 /\ r.out = << >>
                 /\ r.drop \/ /\ r.state.held[t] = Append(s.held[t], c)
                              /\ r.state.replayed[t] = s.replayed[t]
<1> DEFINE s == L.leases[l]
           r == TakeFresh(L, l, t, c, w)
           cleared == Cleared(s)
<1>0. s.floors[t] \in Nat /\ s.held[t] \in Seq(Nat) /\ s.replayed[t] \in Nat  BY LeaseFields
<1>00. (c <= s.floors[t]) <=> ~(c > s.floors[t])  BY <1>0
<1>1. r = CASE c <= s.floors[t] -> Skip(s)
       [] c > s.floors[t] /\ ~OwedOn(s, t) -> [Skip(s) EXCEPT !.out = <<c>>]
       [] c > s.floors[t] /\ OwedOn(s, t) /\ Rides(L, l, w)
            /\ s.live_snap[t] = 0 -> Admit(s, t, c)
       [] OTHER -> IF Withheld(s) >= WithheldCap
                   THEN [Skip(cleared) EXCEPT !.drop = TRUE]
                   ELSE Skip([s EXCEPT !.held[t] = Append(@, c)])
  BY DEF TakeFresh, Cleared
<1> HIDE DEF r
<1>2. CASE c <= s.floors[t]
  <2>1. r = Skip(s)  BY <1>00, <1>1, <1>2, ZenonT(20)
  <2>2. TakenBy(s, t, r)  BY <2>1, SkipIs
  <2>3. QED  BY <1>00, <1>2, <2>1, <2>2 DEF r
<1>3. CASE c > s.floors[t] /\ ~OwedOn(s, t)
  <2>1. r = [Skip(s) EXCEPT !.out = <<c>>]  BY <1>00, <1>1, <1>3, ZenonT(20)
  <2>2. DOMAIN Skip(s) = {"out", "state", "drop"}  BY DEF Skip
  <2>3. r.out = <<c>> /\ r.state = s /\ r.drop = FALSE /\ DOMAIN r = {"out", "state", "drop"}
    BY <2>1, <2>2 DEF Skip
  <2>4. <<c>> \in Seq(Nat)  OBVIOUS
  <2>5. TakenBy(s, t, r)  BY <2>3, <2>4 DEF TakenBy, Same, Other
  <2>6. QED  BY <1>00, <1>3, <2>3, <2>5 DEF r
<1>4. CASE c > s.floors[t] /\ OwedOn(s, t) /\ Rides(L, l, w) /\ s.live_snap[t] = 0
  <2>1. r = Admit(s, t, c)  BY <1>00, <1>1, <1>4, ZenonT(20)
  <2>2. TakenBy(s, t, r)  BY <2>1, AdmitTaken
  <2>3. QED  BY <1>00, <1>4, <2>1, <2>2 DEF r
<1>5. CASE c > s.floors[t] /\ OwedOn(s, t) /\ ~(Rides(L, l, w) /\ s.live_snap[t] = 0)
  <2>1. r = IF Withheld(s) >= WithheldCap
            THEN [Skip(cleared) EXCEPT !.drop = TRUE]
            ELSE Skip([s EXCEPT !.held[t] = Append(@, c)])
    BY <1>00, <1>1, <1>5, ZenonT(20)
  <2>2. CASE Withheld(s) >= WithheldCap
    <3>1. r = [Skip(cleared) EXCEPT !.drop = TRUE]  BY <2>1, <2>2
    <3>2. r.out = << >> /\ r.state = cleared /\ r.drop = TRUE /\ DOMAIN r = {"out", "state", "drop"}
      <4> HIDE DEF cleared
      <4>1. QED  BY <3>1 DEF Skip
    <3>3. LeaseType(cleared) /\ Same(s, cleared) /\ cleared.got = s.got
      <4>1. cleared.held \in [DOMAIN s.floors -> Seq(Nat)]
        BY EmptySeq DEF LeaseType, Cleared
      <4>2. /\ DOMAIN cleared = DOMAIN s /\ Same(s, cleared) /\ cleared.got = s.got
            /\ cleared.replayed = s.replayed
        BY DEF LeaseType, Cleared, Same
      <4> HIDE DEF cleared
      <4>3. QED  BY <4>1, <4>2 DEF LeaseType, Same
    <3>4. TakenBy(s, t, r)  BY <3>2, <3>3, EmptySeq DEF TakenBy
    <3>5. QED  BY <1>00, <1>5, <3>2, <3>4 DEF r
  <2>3. CASE ~(Withheld(s) >= WithheldCap)
    <3> DEFINE z == [s EXCEPT !.held[t] = Append(@, c)]
               h == Append(s.held[t], c)
    <3>1. r = Skip(z)  BY <2>1, <2>3
    <3>2. r.out = << >> /\ r.state = z /\ r.drop = FALSE /\ DOMAIN r = {"out", "state", "drop"}
      BY <3>1 DEF Skip
    <3>3. Moved(s, z, t, h, s.replayed[t])
      BY DEF LeaseType, Moved
    <3> HIDE DEF z
    <3>4. h \in Seq(Nat) /\ << >> \in Seq(Nat)  BY <1>0, EmptySeq
    <3>5. MovedTo(s, t, r, h, s.replayed[t])  BY <1>0, <3>2, <3>3, <3>4 DEF MovedTo
    <3>6. TakenBy(s, t, r) /\ r.state.held[t] = h /\ r.state.replayed[t] = s.replayed[t]
      <4>1. LeaseType(s) /\ t \in DOMAIN s.floors  OBVIOUS
      <4> DEFINE n == s.replayed[t]
      <4>2. MovedTo(s, t, r, h, n)  BY <3>5
      <4> HIDE DEF s, h, n
      <4>3. TakenBy(s, t, r) /\ r.state.held[t] = h /\ r.state.replayed[t] = n
        BY <4>1, <4>2, MovedTaken
      <4>4. QED  BY <4>3 DEF n
    <3>7. QED  BY <1>00, <1>5, <3>2, <3>6 DEF r
  <2>4. QED  BY <2>2, <2>3
<1>6. QED  BY <1>00, <1>2, <1>3, <1>4, <1>5, ZenonT(20)

LEMMA TakenIs ==
  ASSUME NEW L, NEW l, NEW t, NEW c, NEW w, LeaseType(L.leases[l]),
         t \in DOMAIN L.leases[l].floors, c \in Nat
  PROVE  TakenBy(L.leases[l], t, Taken(L, l, t, c, w))
<1>1. TakenBy(L.leases[l], t, TakeFresh(L, l, t, c, w))  BY TakeFreshIs
<1>2. TakenBy(L.leases[l], t, TakeOwed(L, l, t, c, w))
  BY SkipIs, AdmitOwedTaken DEF TakeOwed
<1>3. QED  BY <1>1, <1>2 DEF Taken

LEMMA HandedIs ==
  ASSUME NEW z, LeaseType(z), NEW t \in DOMAIN z.floors, NEW out \in Seq(Nat)
  PROVE  LET y == Handed(z, t, out)
         IN /\ LeaseType(y) /\ Same(z, y) /\ y.held = z.held /\ y.replayed = z.replayed
            /\ \A u \in DOMAIN z.floors : u # t => y.got[u] = z.got[u]
            /\ z.wedged => y.got = z.got
            /\ ~z.wedged => y.got[t] = z.got[t] \o out
<1> DEFINE y == Handed(z, t, out)
<1>1. z.got[t] \in Seq(Nat)  BY LeaseFields
<1>2. z.got[t] \o out \in Seq(Nat)  BY <1>1
<1>3. CASE z.wedged
  <2>1. y = z  BY <1>3 DEF Handed
  <2>2. QED  BY <1>3, <2>1 DEF Same
<1>4. CASE ~z.wedged
  <2>1. y = [z EXCEPT !.got[t] = z.got[t] \o out]  BY <1>4 DEF Handed
  <2> HIDE DEF y
  <2>2. /\ DOMAIN y = DOMAIN z /\ Same(z, y) /\ y.held = z.held /\ y.replayed = z.replayed
        /\ y.got = [z.got EXCEPT ![t] = z.got[t] \o out]
    BY <2>1 DEF LeaseType, Same
  <2>3. y.got \in [DOMAIN z.floors -> Seq(Nat)]  BY <1>2, <2>2 DEF LeaseType
  <2>4. LeaseType(y)  BY <2>2, <2>3 DEF LeaseType, Same
  <2>5. y.got[t] = z.got[t] \o out /\ \A u \in DOMAIN z.floors : u # t => y.got[u] = z.got[u]
    BY <2>2 DEF LeaseType
  <2>6. QED  BY <1>4, <2>2, <2>4, <2>5 DEF y
<1>5. QED  BY <1>3, <1>4

Stuck(L, t, c, w) ==
  {l \in Holders(L, t) : L.leases[l].wedged /\ Taken(L, l, t, c, w).out # << >>}
  \union {l \in Holders(L, t) : Taken(L, l, t, c, w).drop}

(* The message reached the holders of its topic. *)
Demuxed(L, M, t, c, w) ==
  /\ Steers(L, M) /\ M.conn = L.conn /\ M.outbox = L.outbox /\ M.removes = L.removes
  /\ M.next_lease = L.next_lease /\ M.next_wave = L.next_wave /\ M.waves = L.waves
  /\ M.last_seen = [L.last_seen EXCEPT ![t] = Max2(L.last_seen[t], c)]
  /\ DOMAIN M.leases = DOMAIN L.leases
  /\ \A l \in DOMAIN L.leases \ Holders(L, t) : M.leases[l] = L.leases[l]
  /\ \A l \in Holders(L, t) :
       M.leases[l] = Handed(Taken(L, l, t, c, w).state, t, Taken(L, l, t, c, w).out)
  /\ M.dropped = L.dropped \union Stuck(L, t, c, w)

LEMMA DemuxIs ==
  ASSUME NEW L, LedgerType(L), NEW t \in Topics, NEW c \in Nat, NEW w
  PROVE  IF Holders(L, t) = {} \/ (w = Live /\ ~(c > L.last_seen[t]))
         THEN Demux(L, t, c, w) = L ELSE Demuxed(L, Demux(L, t, c, w), t, c, w)
<1> DEFINE hs == Holders(L, t)
           taken == [l \in hs |-> Taken(L, l, t, c, w)]
           dropped == L.dropped \union {l \in hs : L.leases[l].wedged /\ taken[l].out # << >>}
                      \union {l \in hs : taken[l].drop}
           leases == [l \in DOMAIN L.leases |->
                IF l \in hs THEN Handed(taken[l].state, t, taken[l].out) ELSE L.leases[l]]
           M == Demux(L, t, c, w)
<1>0. Named(L)  BY LeaseTypes
<1>1. M = IF hs = {} \/ (w = Live /\ ~(c > L.last_seen[t])) THEN L
          ELSE [L EXCEPT !.leases = leases, !.dropped = dropped,
                         !.last_seen[t] = Max2(@, c)]
  BY DEF Demux, Taken
<1>2. CASE hs = {} \/ (w = Live /\ ~(c > L.last_seen[t]))  BY <1>1, <1>2
<1>3. CASE ~(hs = {} \/ (w = Live /\ ~(c > L.last_seen[t])))
  <2>1. M = [L EXCEPT !.leases = leases, !.dropped = dropped, !.last_seen[t] = Max2(@, c)]
    BY <1>1, <1>3
  <2> HIDE DEF M, leases, dropped
  <2>2. /\ Steers(L, M) /\ M.conn = L.conn /\ M.outbox = L.outbox /\ M.removes = L.removes
        /\ M.next_lease = L.next_lease /\ M.next_wave = L.next_wave /\ M.waves = L.waves
        /\ M.leases = leases /\ M.dropped = dropped
        /\ M.last_seen = [L.last_seen EXCEPT ![t] = Max2(L.last_seen[t], c)]
    BY <1>0, <2>1 DEF Named, Steers
  <2>3. dropped = L.dropped \union Stuck(L, t, c, w)  BY DEF dropped, Stuck
  <2>4. Holders(L, t) \subseteq DOMAIN L.leases  BY DEF Holders
  <2>5. Demuxed(L, M, t, c, w)  BY <2>2, <2>3, <2>4 DEF Demuxed, leases
  <2>6. QED  BY <1>3, <2>5 DEF M
<1>4. QED  BY <1>2, <1>3

LEMMA DemuxedType ==
  ASSUME NEW L, LedgerType(L), NEW t \in Topics, NEW c \in Nat, NEW w, NEW M,
         Demuxed(L, M, t, c, w)
  PROVE  /\ LedgerType(M)
         /\ \A l \in DOMAIN L.leases : M.leases[l].floors = L.leases[l].floors
<1>1. ASSUME NEW l \in DOMAIN L.leases
      PROVE  LeaseType(M.leases[l]) /\ M.leases[l].floors = L.leases[l].floors
  <2>1. CASE l \notin Holders(L, t)  BY <2>1, LeaseTypes DEF Demuxed
  <2>2. CASE l \in Holders(L, t)
    <3> DEFINE s == L.leases[l]
               r == Taken(L, l, t, c, w)
               z == r.state
    <3>1. LeaseType(s) /\ t \in DOMAIN s.floors  BY <2>2, LeaseTypes DEF Holders
    <3>2. TakenBy(s, t, r)  BY <3>1, TakenIs
    <3>3. M.leases[l] = Handed(z, t, r.out)  BY <2>2 DEF Demuxed
    <3> HIDE DEF r, s
    <3>4. LeaseType(z) /\ z.floors = s.floors /\ r.out \in Seq(Nat)
      BY <3>2 DEF TakenBy, Same
    <3> DEFINE y == Handed(z, t, r.out)
    <3>5. LeaseType(y) /\ Same(z, y)  BY <3>1, <3>4, HandedIs
    <3>6. QED  BY <3>3, <3>4, <3>5 DEF Same, s
  <2>3. QED  BY <2>1, <2>2
<1>2. M.last_seen \in [Topics -> Nat]
  <2>1. L.last_seen \in [Topics -> Nat]  BY LeaseTypes
  <2>2. Max2(L.last_seen[t], c) \in Nat  BY <2>1, Max2Is
  <2>3. QED  BY <2>1, <2>2 DEF Demuxed
<1>3. M.dropped \subseteq DOMAIN M.leases
  BY LeaseTypes DEF Demuxed, Stuck, Holders
<1>4. LedgerType(M)
  BY <1>1, <1>2, <1>3, LeaseTypes, TypedLedger DEF Demuxed, Steers
<1>5. QED  BY <1>1, <1>4

-----------------------------------------------------------------------------
(* CatchUpComplete *)

(* A wave is struck off ... *)
Struck(L, M, w) ==
  /\ Steers(L, M) /\ M.conn = L.conn /\ M.outbox = L.outbox /\ M.removes = L.removes
  /\ M.next_lease = L.next_lease /\ M.next_wave = L.next_wave /\ M.dropped = L.dropped
  /\ M.last_seen = L.last_seen /\ M.leases = L.leases
  /\ DOMAIN M.waves = DOMAIN L.waves \ {w}
  /\ \A v \in DOMAIN L.waves \ {w} : M.waves[v] = L.waves[v]

Riders(L, w) == {L.waves[w].owner} \union L.waves[w].holds

(* ... and those that rode it are looked at. *)
Resolved(L, M, w) ==
  \E K : LedgerType(K) /\ Struck(L, K, w) /\ Completed(K, M, Riders(L, w))

LEMMA ResolveIs ==
  ASSUME NEW L, LedgerType(L), NEW w, NEW pick \in BOOLEAN
  PROVE  IF w \in DOMAIN L.waves
         THEN Resolved(L, Resolve(L, w, pick), w) /\ LedgerType(Resolve(L, w, pick))
         ELSE Resolve(L, w, pick) = L
<1> DEFINE K == [L EXCEPT !.waves = Without(@, {w})]
<1>1. CASE w \in DOMAIN L.waves
  <2>1. Named(L)  BY LeaseTypes
  <2>2. /\ Steers(L, K) /\ K.conn = L.conn /\ K.outbox = L.outbox /\ K.removes = L.removes
        /\ K.next_lease = L.next_lease /\ K.next_wave = L.next_wave /\ K.dropped = L.dropped
        /\ K.last_seen = L.last_seen /\ K.leases = L.leases /\ K.waves = Without(L.waves, {w})
    BY <2>1 DEF Named, Steers
  <2>3. Resolve(L, w, pick) = CompleteAll(K, Riders(L, w), pick)
    BY <1>1 DEF Resolve, Riders
  <2> HIDE DEF K
  <2>4. Struck(L, K, w)  BY <2>2 DEF Struck, Without
  <2>5. LedgerType(K)
    <3>1. DOMAIN K.waves \subseteq DOMAIN L.waves /\ \A v \in DOMAIN K.waves : WaveType(K.waves[v])
      BY <2>4, LeaseTypes DEF Struck
    <3>2. QED  BY <2>2, <3>1, LeaseTypes, TypedLedger DEF Steers
  <2>6. Completed(K, Resolve(L, w, pick), Riders(L, w))  BY <2>3, <2>5, CompleteAllIs
  <2>7. LedgerType(Resolve(L, w, pick))  BY <2>5, <2>6, CompletedType
  <2>8. QED  BY <1>1, <2>4, <2>5, <2>6, <2>7 DEF Resolved
<1>2. CASE w \notin DOMAIN L.waves  BY <1>2 DEF Resolve
<1>3. QED  BY <1>1, <1>2

-----------------------------------------------------------------------------
(* Mutates under way *)

LEMMA Joined ==
  ASSUME NEW T, NEW p \in Seq(T), NEW q \in Seq(T)
  PROVE  /\ p \o q \in Seq(T) /\ Len(p \o q) = Len(p) + Len(q)
         /\ Len(p) \in Nat /\ Len(q) \in Nat
         /\ \A i \in 1..Len(p) : i \in 1..Len(p \o q) /\ (p \o q)[i] = p[i]
         /\ \A i \in 1..Len(q) : Len(p) + i \in 1..Len(p \o q) /\ (p \o q)[Len(p) + i] = q[i]
         /\ \A k \in 1..Len(p \o q) :
              k \in 1..Len(p) \/ \E i \in 1..Len(q) : k = Len(p) + i
<1> DEFINE m == Len(p)
           n == Len(q)
           r == p \o q
<1>1. m \in Nat /\ n \in Nat  OBVIOUS
<1>2. /\ r \in Seq(T) /\ Len(r) = m + n
      /\ \A i \in 1..m + n : r[i] = IF i <= m THEN p[i] ELSE q[i - m]
  BY ConcatProperties
<1> HIDE DEF r, m, n
<1>3. ASSUME NEW i \in 1..m PROVE i \in 1..Len(r) /\ r[i] = p[i]
  BY <1>1, <1>2
<1>4. ASSUME NEW i \in 1..n PROVE m + i \in 1..Len(r) /\ r[m + i] = q[i]
  <2>1. m + i \in 1..m + n /\ ~(m + i <= m) /\ (m + i) - m = i  BY <1>1
  <2>2. QED  BY <1>2, <2>1
<1>5. ASSUME NEW k \in 1..Len(r), k \notin 1..m PROVE \E i \in 1..n : k = m + i
  <2>1. k - m \in 1..n /\ k = m + (k - m)  BY <1>1, <1>2, <1>5
  <2>2. QED  BY <2>1
<1>6. QED  BY <1>1, <1>2, <1>3, <1>4, <1>5 DEF r, m, n

Appended(x, p, q) == x = p \o q
Regroup(a, b, d) == (a \o b) \o d = a \o (b \o d)

LEMMA Regrouped ==
  ASSUME NEW T, NEW a \in Seq(T), NEW b \in Seq(T), NEW d \in Seq(T)
  PROVE  Regroup(a, b, d)
BY ConcatAssociative DEF Regroup

LEMMA PendAppend ==
  ASSUME NEW L, NEW M, NEW W, NEW S, W.up \in Seq(Mutates), L.outbox \in Seq(Mutates),
         S \in Seq(Mutates), Appended(M.outbox, L.outbox, S)
  PROVE  Appended(Pend(M, W), Pend(L, W), S)
<1>1. Regroup(W.up, L.outbox, S)  BY Regrouped
<1>2. QED  BY <1>1 DEF Pend, Regroup, Appended

(* r is q without some entries of lease l. *)
Trimmed(q, r, l, h) ==
  /\ h \in [1..Len(r) -> 1..Len(q)]
  /\ \A i, j \in 1..Len(r) : i < j => h[i] < h[j]
  /\ \A i \in 1..Len(r) : r[i] = q[h[i]]
  /\ \A k \in 1..Len(q) : q[k].lease # l => \E i \in 1..Len(r) : h[i] = k

Trim(q, r, l) == \E h : Trimmed(q, r, l, h)

LEMMA PurgeTrims ==
  ASSUME NEW L, LedgerType(L), NEW l
  PROVE  /\ Among(L.outbox, Kept(L, l)) \in Seq(Mutates)
         /\ Trim(L.outbox, Among(L.outbox, Kept(L, l)), l)
         /\ \A i \in 1..Len(Among(L.outbox, Kept(L, l))) : Among(L.outbox, Kept(L, l))[i].lease # l
<1> DEFINE q == L.outbox
           S == Kept(L, l)
           r == Among(q, S)
<1>1. q \in Seq(Mutates)  BY LeaseTypes
<1>2. r \in Seq(Mutates) /\ PickedOf(r, q, S)  BY <1>1, AmongPicks
<1>3. PICK h : Picked(r, q, S, h)  BY <1>2 DEF PickedOf
<1>4. \A k \in 1..Len(q) : q[k].lease # l => q[k] \in S
  BY <1>1 DEF Kept, Own
<1>5. \A x \in S : x.lease # l  BY DEF Kept, Own
<1> HIDE DEF r, S, q
<1>6. Trimmed(q, r, l, h)  BY <1>3, <1>4 DEF Picked, Trimmed
<1>7. Trim(q, r, l)  BY <1>6 DEF Trim
<1>8. \A i \in 1..Len(r) : r[i].lease # l  BY <1>3, <1>5 DEF Picked
<1>9. QED  BY <1>2, <1>7, <1>8 DEF r, S, q

LEMMA TrimEnd ==
  ASSUME NEW T, NEW p \in Seq(T), NEW q \in Seq(T), NEW r \in Seq(T), NEW l, Trim(q, r, l)
  PROVE  Trim(p \o q, p \o r, l)
<1> DEFINE m == Len(p)
           Q == p \o q
           R == p \o r
<1>1. PICK h : Trimmed(q, r, l, h)  BY DEF Trim
<1> DEFINE g == [i \in 1..Len(R) |-> IF i <= m THEN i ELSE m + h[i - m]]
<1>2. /\ Len(Q) = m + Len(q) /\ m \in Nat /\ Len(q) \in Nat
      /\ \A i \in 1..m : i \in 1..Len(Q) /\ Q[i] = p[i]
      /\ \A i \in 1..Len(q) : m + i \in 1..Len(Q) /\ Q[m + i] = q[i]
      /\ \A k \in 1..Len(Q) : k \in 1..m \/ \E i \in 1..Len(q) : k = m + i
  BY Joined
<1>3. /\ Len(R) = m + Len(r) /\ Len(r) \in Nat
      /\ \A i \in 1..m : i \in 1..Len(R) /\ R[i] = p[i]
      /\ \A i \in 1..Len(r) : m + i \in 1..Len(R) /\ R[m + i] = r[i]
      /\ \A k \in 1..Len(R) : k \in 1..m \/ \E i \in 1..Len(r) : k = m + i
  BY Joined
<1> HIDE DEF Q, R
<1>4. \A i \in 1..m : g[i] = i  BY <1>2, <1>3
<1>5. ASSUME NEW i \in 1..Len(r) PROVE g[m + i] = m + h[i]
  <2>1. m + i \in 1..Len(R) /\ ~(m + i <= m) /\ (m + i) - m = i  BY <1>2, <1>3
  <2>2. QED  BY <2>1
<1>6. DOMAIN g = 1..Len(R)  OBVIOUS
<1> HIDE DEF g, m
<1>7. \A i \in 1..Len(r) : h[i] \in 1..Len(q)  BY <1>1 DEF Trimmed
<1>8. ASSUME NEW k \in 1..Len(R) PROVE g[k] \in 1..Len(Q) /\ R[k] = Q[g[k]]
  <2>1. CASE k \in 1..m  BY <1>2, <1>3, <1>4, <2>1
  <2>2. CASE \E i \in 1..Len(r) : k = m + i
    <3>1. PICK i \in 1..Len(r) : k = m + i  BY <2>2
    <3>2. r[i] = q[h[i]]  BY <1>1 DEF Trimmed
    <3>3. g[k] = m + h[i] /\ h[i] \in 1..Len(q)  BY <1>5, <1>7, <3>1
    <3>4. g[k] \in 1..Len(Q) /\ Q[g[k]] = q[h[i]]  BY <1>2, <3>3
    <3>5. R[k] = r[i]  BY <1>3, <3>1
    <3>6. QED  BY <3>2, <3>4, <3>5
  <2>3. QED  BY <1>3, <2>1, <2>2
<1>9. ASSUME NEW i \in 1..Len(R), NEW j \in 1..Len(R), i < j PROVE g[i] < g[j]
  <2>1. CASE i \in 1..m /\ j \in 1..m  BY <1>4, <1>9, <2>1
  <2>2. CASE i \in 1..m /\ j \notin 1..m
    <3>1. PICK b \in 1..Len(r) : j = m + b  BY <1>3, <2>2
    <3>2. g[i] = i /\ g[j] = m + h[b] /\ h[b] \in 1..Len(q)  BY <1>4, <1>5, <1>7, <2>2, <3>1
    <3>3. QED  BY <1>2, <2>2, <3>2
  <2>3. CASE i \notin 1..m /\ j \notin 1..m
    <3>1. PICK a \in 1..Len(r) : i = m + a  BY <1>3, <2>3
    <3>2. PICK b \in 1..Len(r) : j = m + b  BY <1>3, <2>3
    <3>3. g[i] = m + h[a] /\ g[j] = m + h[b]  BY <1>5, <3>1, <3>2
    <3>4. a < b  BY <1>2, <1>9, <3>1, <3>2
    <3>5. h[a] < h[b] /\ h[a] \in 1..Len(q) /\ h[b] \in 1..Len(q)
      BY <1>1, <1>7, <3>4 DEF Trimmed
    <3>6. m \in Nat  BY <1>2
    <3>7. PICK u, v : u = h[a] /\ v = h[b]  OBVIOUS
    <3>8. u \in Nat /\ v \in Nat /\ u < v  BY <3>5, <3>7
    <3>9. m + u < m + v  BY <3>6, <3>8
    <3>10. QED  BY <3>3, <3>7, <3>9
  <2>4. CASE i \notin 1..m /\ j \in 1..m  BY <1>2, <1>3, <1>9, <2>4
  <2>5. QED  BY <2>1, <2>2, <2>3, <2>4
<1>10. ASSUME NEW k \in 1..Len(Q), Q[k].lease # l PROVE \E i \in 1..Len(R) : g[i] = k
  <2>1. CASE k \in 1..m  BY <1>3, <1>4, <2>1
  <2>2. CASE \E i \in 1..Len(q) : k = m + i
    <3>1. PICK i \in 1..Len(q) : k = m + i  BY <2>2
    <3>2. q[i].lease # l  BY <1>2, <1>10, <3>1
    <3>3. PICK j \in 1..Len(r) : h[j] = i  BY <1>1, <3>2 DEF Trimmed
    <3>4. g[m + j] = k  BY <1>5, <3>1, <3>3
    <3>5. QED  BY <1>3, <3>4
  <2>3. QED  BY <1>2, <2>1, <2>2
<1>11. g \in [1..Len(R) -> 1..Len(Q)]
  <2>1. g = [i \in 1..Len(R) |-> g[i]]  BY DEF g
  <2>2. QED  BY <1>8, <2>1
<1>12. Trimmed(Q, R, l, g)  BY <1>8, <1>9, <1>10, <1>11 DEF Trimmed
<1>13. QED  BY <1>12 DEF Trim, Q, R

LEMMA TrimKeeps ==
  ASSUME NEW Q \in Seq(Mutates), NEW R \in Seq(Mutates), NEW l, l # Resume,
         Trim(Q, R, l), Plain(Q), NEW subs
  PROVE  /\ Plain(R)
         /\ \A t : \A k : k # l /\ Wanted(Q, subs, t, k) => Wanted(R, subs, t, k)
         /\ \A t : Gone(Q, subs, t) => Gone(R, subs, t)
<1>0. PICK h : Trimmed(Q, R, l, h)  BY DEF Trim
<1>1. /\ \A i \in 1..Len(R) : h[i] \in 1..Len(Q) /\ R[i] = Q[h[i]]
      /\ \A i, j \in 1..Len(R) : i < j => h[i] < h[j]
      /\ \A k \in 1..Len(Q) : Q[k].lease # l => \E i \in 1..Len(R) : h[i] = k
  BY <1>0 DEF Trimmed
<1>2. Plain(R)  BY <1>1 DEF Plain
<1>3. ASSUME NEW t, NEW k, k # l, Wanted(Q, subs, t, k) PROVE Wanted(R, subs, t, k)
  <2>1. CASE t \in subs /\ \A q \in 1..Len(Q) : t \notin Q[q].removes
    BY <1>1, <2>1 DEF Wanted
  <2>2. CASE \E p \in 1..Len(Q) :
               /\ Q[p].lease = k /\ t \in DOMAIN Q[p].adds
               /\ \A q \in 1..Len(Q) : p < q => t \notin Q[q].removes
    <3>1. PICK p \in 1..Len(Q) :
               /\ Q[p].lease = k /\ t \in DOMAIN Q[p].adds
               /\ \A q \in 1..Len(Q) : p < q => t \notin Q[q].removes
      BY <2>2
    <3>2. PICK i \in 1..Len(R) : h[i] = p  BY <1>1, <1>3, <3>1
    <3>3. R[i].lease = k /\ t \in DOMAIN R[i].adds  BY <1>1, <3>1, <3>2
    <3>4. \A q \in 1..Len(R) : i < q => t \notin R[q].removes  BY <1>1, <3>1, <3>2
    <3>5. QED  BY <3>3, <3>4 DEF Wanted
  <2>3. QED  BY <1>3, <2>1, <2>2 DEF Wanted
<1>4. ASSUME NEW t, Gone(Q, subs, t) PROVE Gone(R, subs, t)
  <2>1. CASE t \notin subs /\ \A q \in 1..Len(Q) : t \notin DOMAIN Q[q].adds
    BY <1>1, <2>1 DEF Gone
  <2>2. CASE \E p \in 1..Len(Q) :
               /\ t \in Q[p].removes
               /\ \A q \in 1..Len(Q) : p < q => t \notin DOMAIN Q[q].adds
    <3>1. PICK p \in 1..Len(Q) :
               /\ t \in Q[p].removes
               /\ \A q \in 1..Len(Q) : p < q => t \notin DOMAIN Q[q].adds
      BY <2>2
    <3>2. Q[p].lease # l  BY <3>1 DEF Plain
    <3>3. PICK i \in 1..Len(R) : h[i] = p  BY <1>1, <3>1, <3>2
    <3>4. t \in R[i].removes  BY <1>1, <3>1, <3>3
    <3>5. \A q \in 1..Len(R) : i < q => t \notin DOMAIN R[q].adds  BY <1>1, <3>1, <3>3
    <3>6. QED  BY <3>4, <3>5 DEF Gone
  <2>3. QED  BY <1>4, <2>1, <2>2 DEF Gone
<1>5. QED  BY <1>2, <1>3, <1>4

(* More Mutates are queued: the adds of lease l ... *)
LEMMA QueueWanted ==
  ASSUME NEW Q \in Seq(Mutates), NEW l \in Nat, NEW first \in Nat, NEW c, NEW n, NEW asks,
         Parts(c, n, asks), Plain(Q), NEW subs
  PROVE  LET R == Q \o Queue(l, first, c)
         IN /\ R \in Seq(Mutates) /\ Plain(R)
            /\ \A t : \A k : Wanted(Q, subs, t, k) => Wanted(R, subs, t, k)
            /\ \A t \in DOMAIN asks : Wanted(R, subs, t, l)
            /\ \A t : t \notin DOMAIN asks /\ Gone(Q, subs, t) => Gone(R, subs, t)
<1> DEFINE S == Queue(l, first, c)
           R == Q \o S
           m == Len(Q)
<1>1. /\ S \in Seq(Mutates) /\ Len(S) = n /\ n \in Nat
      /\ \A i \in 1..n : S[i].lease = l /\ S[i].adds = c[i] /\ S[i].removes = {}
  BY QueueIs
<1> HIDE DEF S
<1>3. /\ R \in Seq(Mutates) /\ Len(R) = m + n /\ m \in Nat
      /\ \A i \in 1..m : i \in 1..Len(R) /\ R[i] = Q[i]
      /\ \A i \in 1..n : m + i \in 1..Len(R) /\ R[m + i] = S[i]
      /\ \A k \in 1..Len(R) : k \in 1..m \/ \E i \in 1..n : k = m + i
  <2>1. /\ R \in Seq(Mutates) /\ Len(R) = m + Len(S) /\ m \in Nat
        /\ \A i \in 1..m : i \in 1..Len(R) /\ R[i] = Q[i]
        /\ \A i \in 1..Len(S) : m + i \in 1..Len(R) /\ R[m + i] = S[i]
        /\ \A k \in 1..Len(R) : k \in 1..m \/ \E i \in 1..Len(S) : k = m + i
    <3>1. S \in Seq(Mutates)  BY <1>1
    <3>2. QED  BY <3>1, Joined
  <2> HIDE DEF R, m
  <2>2. Len(S) = n  BY <1>1
  <2>3. QED  BY <2>1, <2>2
<1> HIDE DEF R
<1>4. \A k \in 1..Len(R) : k \in 1..m \/ (R[k].removes = {} /\ R[k].lease = l
                                       /\ \E i \in 1..n : R[k].adds = c[i])
  <2>1. ASSUME NEW k \in 1..Len(R), k \notin 1..m
        PROVE  R[k].removes = {} /\ R[k].lease = l /\ \E i \in 1..n : R[k].adds = c[i]
    <3>1. PICK i \in 1..n : k = m + i  BY <1>3, <2>1
    <3>2. R[k] = S[i]  BY <1>3, <3>1
    <3>3. QED  BY <1>1, <3>2
  <2>2. QED  BY <2>1
<1>5. Plain(R)
  <2>1. ASSUME NEW i \in 1..Len(R), R[i].removes # {}
        PROVE DOMAIN R[i].adds = {} /\ R[i].lease = Resume
    <3>1. i \in 1..m  BY <1>4, <2>1
    <3>2. QED  BY <1>3, <2>1, <3>1 DEF Plain
  <2>2. QED  BY <2>1 DEF Plain
<1>6. ASSUME NEW t, NEW k, Wanted(Q, subs, t, k) PROVE Wanted(R, subs, t, k)
  <2>1. ASSUME NEW q \in 1..Len(R), t \in R[q].removes PROVE q \in 1..m /\ t \in Q[q].removes
    BY <1>3, <1>4, <2>1
  <2>2. CASE t \in subs /\ \A q \in 1..Len(Q) : t \notin Q[q].removes
    BY <2>1, <2>2 DEF Wanted
  <2>3. CASE \E p \in 1..Len(Q) :
               /\ Q[p].lease = k /\ t \in DOMAIN Q[p].adds
               /\ \A q \in 1..Len(Q) : p < q => t \notin Q[q].removes
    <3>1. PICK p \in 1..Len(Q) :
               /\ Q[p].lease = k /\ t \in DOMAIN Q[p].adds
               /\ \A q \in 1..Len(Q) : p < q => t \notin Q[q].removes
      BY <2>3
    <3>2. p \in 1..Len(R) /\ R[p] = Q[p]  BY <1>3, <3>1
    <3>3. \A q \in 1..Len(R) : p < q => t \notin R[q].removes  BY <2>1, <3>1
    <3>4. QED  BY <3>1, <3>2, <3>3 DEF Wanted
  <2>4. QED  BY <1>6, <2>2, <2>3 DEF Wanted
<1>7. ASSUME NEW t \in DOMAIN asks PROVE Wanted(R, subs, t, l)
  <2>1. PICK i \in 1..n : t \in DOMAIN c[i]  BY DEF Parts
  <2>2. /\ m + i \in 1..Len(R) /\ R[m + i].lease = l /\ t \in DOMAIN R[m + i].adds
    BY <1>1, <1>3, <2>1
  <2>3. \A q \in 1..Len(R) : m + i < q => t \notin R[q].removes
    <3>1. ASSUME NEW q \in 1..Len(R), m + i < q PROVE q \notin 1..m  BY <1>3, <2>1, <3>1
    <3>2. QED  BY <1>4, <3>1
  <2>4. QED  BY <2>2, <2>3 DEF Wanted
<1>8. ASSUME NEW t, t \notin DOMAIN asks, Gone(Q, subs, t) PROVE Gone(R, subs, t)
  <2>1. ASSUME NEW q \in 1..Len(R), t \in DOMAIN R[q].adds
        PROVE q \in 1..m /\ t \in DOMAIN Q[q].adds
    <3>1. \A i \in 1..n : t \notin DOMAIN c[i]  BY <1>8 DEF Parts
    <3>2. QED  BY <1>3, <1>4, <2>1, <3>1
  <2>2. CASE t \notin subs /\ \A q \in 1..Len(Q) : t \notin DOMAIN Q[q].adds
    BY <2>1, <2>2 DEF Gone
  <2>3. CASE \E p \in 1..Len(Q) :
               /\ t \in Q[p].removes
               /\ \A q \in 1..Len(Q) : p < q => t \notin DOMAIN Q[q].adds
    <3>1. PICK p \in 1..Len(Q) :
               /\ t \in Q[p].removes
               /\ \A q \in 1..Len(Q) : p < q => t \notin DOMAIN Q[q].adds
      BY <2>3
    <3>2. p \in 1..Len(R) /\ R[p] = Q[p]  BY <1>3, <3>1
    <3>3. \A q \in 1..Len(R) : p < q => t \notin DOMAIN R[q].adds  BY <2>1, <3>1
    <3>4. QED  BY <3>1, <3>2, <3>3 DEF Gone
  <2>4. QED  BY <1>8, <2>2, <2>3 DEF Gone
<1>9. QED  BY <1>3, <1>5, <1>6, <1>7, <1>8 DEF R, S

(* ... or the removal of some topics. *)
LEMMA QueueGone ==
  ASSUME NEW Q \in Seq(Mutates), NEW first \in Nat, NEW c, NEW n, NEW adds \in Adds,
         Parts(c, n, adds), Plain(Q), NEW subs, NEW T, T = DOMAIN adds
  PROVE  LET R == Q \o Removals(first, c)
         IN /\ R \in Seq(Mutates) /\ Plain(R)
            /\ \A t : \A k : t \notin T /\ Wanted(Q, subs, t, k) => Wanted(R, subs, t, k)
            /\ \A t : t \in T \/ Gone(Q, subs, t) => Gone(R, subs, t)
<1> DEFINE S == Removals(first, c)
           R == Q \o S
           m == Len(Q)
<1>1. /\ S \in Seq(Mutates) /\ Len(S) = n /\ n \in Nat
      /\ \A i \in 1..n : S[i].lease = Resume /\ S[i].adds = NoAdds /\ S[i].removes = DOMAIN c[i]
  BY RemovalsIs
<1>2. DOMAIN NoAdds = {}  BY DEF NoAdds
<1> HIDE DEF S
<1>3. /\ R \in Seq(Mutates) /\ Len(R) = m + n /\ m \in Nat
      /\ \A i \in 1..m : i \in 1..Len(R) /\ R[i] = Q[i]
      /\ \A i \in 1..n : m + i \in 1..Len(R) /\ R[m + i] = S[i]
      /\ \A k \in 1..Len(R) : k \in 1..m \/ \E i \in 1..n : k = m + i
  <2>1. /\ R \in Seq(Mutates) /\ Len(R) = m + Len(S) /\ m \in Nat
        /\ \A i \in 1..m : i \in 1..Len(R) /\ R[i] = Q[i]
        /\ \A i \in 1..Len(S) : m + i \in 1..Len(R) /\ R[m + i] = S[i]
        /\ \A k \in 1..Len(R) : k \in 1..m \/ \E i \in 1..Len(S) : k = m + i
    <3>1. S \in Seq(Mutates)  BY <1>1
    <3>2. QED  BY <3>1, Joined
  <2> HIDE DEF R, m
  <2>2. Len(S) = n  BY <1>1
  <2>3. QED  BY <2>1, <2>2
<1> HIDE DEF R
<1>4. \A k \in 1..Len(R) : k \in 1..m \/ (DOMAIN R[k].adds = {} /\ R[k].lease = Resume
                                       /\ \E i \in 1..n : R[k].removes = DOMAIN c[i])
  <2>1. ASSUME NEW k \in 1..Len(R), k \notin 1..m
        PROVE  /\ DOMAIN R[k].adds = {} /\ R[k].lease = Resume
               /\ \E i \in 1..n : R[k].removes = DOMAIN c[i]
    <3>1. PICK i \in 1..n : k = m + i  BY <1>3, <2>1
    <3>2. R[k] = S[i]  BY <1>3, <3>1
    <3>3. QED  BY <1>1, <1>2, <3>2
  <2>2. QED  BY <2>1
<1>5. Plain(R)
  <2>1. ASSUME NEW i \in 1..Len(R), R[i].removes # {}
        PROVE DOMAIN R[i].adds = {} /\ R[i].lease = Resume
    <3>1. CASE i \in 1..m  BY <1>3, <2>1, <3>1 DEF Plain
    <3>2. QED  BY <1>4, <3>1
  <2>2. QED  BY <2>1 DEF Plain
<1>6. ASSUME NEW t, NEW k, t \notin T, Wanted(Q, subs, t, k) PROVE Wanted(R, subs, t, k)
  <2>1. ASSUME NEW q \in 1..Len(R), t \in R[q].removes PROVE q \in 1..m /\ t \in Q[q].removes
    <3>1. \A i \in 1..n : t \notin DOMAIN c[i]  BY <1>6 DEF Parts
    <3>2. QED  BY <1>3, <1>4, <2>1, <3>1
  <2>2. CASE t \in subs /\ \A q \in 1..Len(Q) : t \notin Q[q].removes
    BY <2>1, <2>2 DEF Wanted
  <2>3. CASE \E p \in 1..Len(Q) :
               /\ Q[p].lease = k /\ t \in DOMAIN Q[p].adds
               /\ \A q \in 1..Len(Q) : p < q => t \notin Q[q].removes
    <3>1. PICK p \in 1..Len(Q) :
               /\ Q[p].lease = k /\ t \in DOMAIN Q[p].adds
               /\ \A q \in 1..Len(Q) : p < q => t \notin Q[q].removes
      BY <2>3
    <3>2. p \in 1..Len(R) /\ R[p] = Q[p]  BY <1>3, <3>1
    <3>3. \A q \in 1..Len(R) : p < q => t \notin R[q].removes  BY <2>1, <3>1
    <3>4. QED  BY <3>1, <3>2, <3>3 DEF Wanted
  <2>4. QED  BY <1>6, <2>2, <2>3 DEF Wanted
<1>7. ASSUME NEW t \in T PROVE Gone(R, subs, t)
  <2>1. PICK i \in 1..n : t \in DOMAIN c[i]  BY DEF Parts
  <2>2. m + i \in 1..Len(R) /\ t \in R[m + i].removes
    BY <1>1, <1>2, <1>3, <2>1
  <2>3. \A q \in 1..Len(R) : m + i < q => t \notin DOMAIN R[q].adds
    <3>1. ASSUME NEW q \in 1..Len(R), m + i < q PROVE q \notin 1..m  BY <1>3, <2>1, <3>1
    <3>2. QED  BY <1>4, <3>1
  <2>4. QED  BY <2>2, <2>3 DEF Gone
<1>8. ASSUME NEW t, Gone(Q, subs, t) PROVE Gone(R, subs, t)
  <2>1. ASSUME NEW q \in 1..Len(R), t \in DOMAIN R[q].adds
        PROVE q \in 1..m /\ t \in DOMAIN Q[q].adds
    BY <1>3, <1>4, <2>1
  <2>2. CASE t \notin subs /\ \A q \in 1..Len(Q) : t \notin DOMAIN Q[q].adds
    BY <2>1, <2>2 DEF Gone
  <2>3. CASE \E p \in 1..Len(Q) :
               /\ t \in Q[p].removes
               /\ \A q \in 1..Len(Q) : p < q => t \notin DOMAIN Q[q].adds
    <3>1. PICK p \in 1..Len(Q) :
               /\ t \in Q[p].removes
               /\ \A q \in 1..Len(Q) : p < q => t \notin DOMAIN Q[q].adds
      BY <2>3
    <3>2. p \in 1..Len(R) /\ R[p] = Q[p]  BY <1>3, <3>1
    <3>3. \A q \in 1..Len(R) : p < q => t \notin DOMAIN R[q].adds  BY <2>1, <3>1
    <3>4. QED  BY <3>1, <3>2, <3>3 DEF Gone
  <2>4. QED  BY <1>8, <2>2, <2>3 DEF Gone
<1>9. QED  BY <1>3, <1>5, <1>6, <1>7, <1>8 DEF R, S

(* The server takes the first. *)
LEMMA TailIs ==
  ASSUME NEW T, NEW q \in Seq(T), q # << >>
  PROVE  /\ Tail(q) \in Seq(T) /\ Len(Tail(q)) = Len(q) - 1 /\ Len(q) \in Nat \ {0}
         /\ Head(q) = q[1] /\ q[1] \in T
         /\ \A i \in 1..Len(q) - 1 : Tail(q)[i] = q[i + 1]
         /\ Len(Tail(q)) \in Nat
<1>1. Len(q) \in Nat /\ Len(q) # 0  OBVIOUS
<1>2. Tail(q) \in Seq(T) /\ Len(Tail(q)) = Len(q) - 1
      /\ \A i \in 1..Len(q) - 1 : Tail(q)[i] = q[i + 1] /\ Head(q) = q[1]
  BY HeadTailProperties
<1>3. Head(q) = q[1] /\ q[1] \in T  BY <1>1
<1>4. QED  BY <1>1, <1>2, <1>3

LEMMA ServedFirst ==
  ASSUME NEW Q \in Seq(Mutates), NEW R \in Seq(Mutates), NEW m, NEW subs, NEW subs2,
         Len(Q) = Len(R) + 1, Q[1] = m, \A i \in 1..Len(R) : R[i] = Q[i + 1],
         subs2 = (subs \ m.removes) \union DOMAIN m.adds, Plain(Q)
  PROVE  /\ Plain(R)
         /\ \A t, k : Wanted(Q, subs, t, k) => Wanted(R, subs2, t, k)
         /\ \A t : Gone(Q, subs, t) => Gone(R, subs2, t)
<1>0. Len(R) \in Nat  OBVIOUS
<1>1. \A i \in 1..Len(R) : i + 1 \in 1..Len(Q) /\ R[i] = Q[i + 1]  BY <1>0
<1>2. \A k \in 1..Len(Q) : k = 1 \/ (k - 1 \in 1..Len(R) /\ R[k - 1] = Q[k])
  <2>1. ASSUME NEW k \in 1..Len(Q), k # 1 PROVE k - 1 \in 1..Len(R) /\ R[k - 1] = Q[k]
    <3>1. k - 1 \in 1..Len(R) /\ (k - 1) + 1 = k  BY <1>0, <2>1
    <3>2. QED  BY <1>1, <3>1
  <2>2. QED  BY <2>1
<1>3. 1 \in 1..Len(Q)  BY <1>0
<1>4. Plain(R)  BY <1>1 DEF Plain
<1>5. ASSUME NEW t, NEW k, Wanted(Q, subs, t, k) PROVE Wanted(R, subs2, t, k)
  <2>1. CASE t \in subs /\ \A q \in 1..Len(Q) : t \notin Q[q].removes
    <3>1. t \in subs2 /\ \A q \in 1..Len(R) : t \notin R[q].removes  BY <1>1, <1>3, <2>1
    <3>2. QED  BY <3>1 DEF Wanted
  <2>2. CASE \E p \in 1..Len(Q) :
               /\ Q[p].lease = k /\ t \in DOMAIN Q[p].adds
               /\ \A q \in 1..Len(Q) : p < q => t \notin Q[q].removes
    <3>1. PICK p \in 1..Len(Q) :
               /\ Q[p].lease = k /\ t \in DOMAIN Q[p].adds
               /\ \A q \in 1..Len(Q) : p < q => t \notin Q[q].removes
      BY <2>2
    <3>2. \A q \in 1..Len(R) : p < q + 1 => t \notin R[q].removes  BY <1>1, <3>1
    <3>3. CASE p = 1
      <4>1. t \in subs2  BY <3>1, <3>3
      <4>2. \A q \in 1..Len(R) : t \notin R[q].removes  BY <1>0, <3>2, <3>3
      <4>3. QED  BY <4>1, <4>2 DEF Wanted
    <3>4. CASE p # 1
      <4>1. p - 1 \in 1..Len(R) /\ R[p - 1] = Q[p]  BY <1>2, <3>4
      <4>2. \A q \in 1..Len(R) : p - 1 < q => t \notin R[q].removes  BY <1>0, <3>2
      <4>3. QED  BY <3>1, <4>1, <4>2 DEF Wanted
    <3>5. QED  BY <3>3, <3>4
  <2>3. QED  BY <1>5, <2>1, <2>2 DEF Wanted
<1>6. ASSUME NEW t, Gone(Q, subs, t) PROVE Gone(R, subs2, t)
  <2>1. CASE t \notin subs /\ \A q \in 1..Len(Q) : t \notin DOMAIN Q[q].adds
    <3>1. t \notin subs2 /\ \A q \in 1..Len(R) : t \notin DOMAIN R[q].adds  BY <1>1, <1>3, <2>1
    <3>2. QED  BY <3>1 DEF Gone
  <2>2. CASE \E p \in 1..Len(Q) :
               /\ t \in Q[p].removes
               /\ \A q \in 1..Len(Q) : p < q => t \notin DOMAIN Q[q].adds
    <3>1. PICK p \in 1..Len(Q) :
               /\ t \in Q[p].removes
               /\ \A q \in 1..Len(Q) : p < q => t \notin DOMAIN Q[q].adds
      BY <2>2
    <3>2. \A q \in 1..Len(R) : p < q + 1 => t \notin DOMAIN R[q].adds  BY <1>1, <3>1
    <3>3. CASE p = 1
      <4>1. t \notin subs2  BY <3>1, <3>3 DEF Plain
      <4>2. \A q \in 1..Len(R) : t \notin DOMAIN R[q].adds  BY <1>0, <3>2, <3>3
      <4>3. QED  BY <4>1, <4>2 DEF Gone
    <3>4. CASE p # 1
      <4>1. p - 1 \in 1..Len(R) /\ R[p - 1] = Q[p]  BY <1>2, <3>4
      <4>2. \A q \in 1..Len(R) : p - 1 < q => t \notin DOMAIN R[q].adds  BY <1>0, <3>2
      <4>3. QED  BY <3>1, <4>1, <4>2 DEF Gone
    <3>5. QED  BY <3>3, <3>4
  <2>3. QED  BY <1>6, <2>1, <2>2 DEF Gone
<1>7. QED  BY <1>4, <1>5, <1>6

-----------------------------------------------------------------------------
(* Subscriptions *)

LEMMA SameHolders ==
  ASSUME NEW L, NEW M, DOMAIN M.leases = DOMAIN L.leases,
         \A l \in DOMAIN L.leases : M.leases[l].floors = L.leases[l].floors
  PROVE  \A t : Holders(M, t) = Holders(L, t)
BY DEF Holders

LEMMA SubsSame ==
  ASSUME NEW L, NEW M, NEW W, DOMAIN M.leases = DOMAIN L.leases,
         \A l \in DOMAIN L.leases : M.leases[l].floors = L.leases[l].floors,
         M.outbox = L.outbox, M.removes = L.removes, Subscribing(L, W)
  PROVE  Subscribing(M, W)
<1>1. \A t : Holders(M, t) = Holders(L, t)  BY SameHolders
<1>2. Pend(M, W) = Pend(L, W)  BY DEF Pend
<1>3. QED  BY <1>1, <1>2 DEF Subscribing, Subs

LEMMA PendType ==
  ASSUME NEW L, LedgerType(L), NEW W, WireType(W)
  PROVE  /\ W.up \in Seq(Mutates) /\ L.outbox \in Seq(Mutates) /\ Pend(L, W) \in Seq(Mutates)
         /\ W.subs \subseteq Topics /\ W.down \in Seq(Frames)
<1>1. W.up \in Seq(Mutates) /\ L.outbox \in Seq(Mutates) /\ W.subs \subseteq Topics
      /\ W.down \in Seq(Frames)
  BY LeaseTypes DEF WireType
<1>2. QED  BY <1>1, Joined DEF Pend

LEMMA SubsLeft ==
  ASSUME NEW L, LedgerType(L), NEW W, WireType(W), NEW l \in DOMAIN L.leases,
         NEW M, LedgerType(M), Left(L, M, l), Subscribing(L, W)
  PROVE  Subscribing(M, W)
<1> DEFINE Q == Pend(L, W)
           R == Pend(M, W)
<1>1. Trim(L.outbox, M.outbox, l) /\ M.outbox \in Seq(Mutates)
  BY PurgeTrims DEF Left
<1>2. Trim(Q, R, l)  BY <1>1, PendType, TrimEnd DEF Pend
<1>3. l # Resume  BY LeaseTypes DEF Resume
<1>4. Q \in Seq(Mutates) /\ R \in Seq(Mutates) /\ Plain(Q)
  BY PendType DEF Subscribing
<1> HIDE DEF Q, R
<1>5. /\ Plain(R)
      /\ \A t : \A k : k # l /\ Wanted(Q, W.subs, t, k) => Wanted(R, W.subs, t, k)
      /\ \A t : Gone(Q, W.subs, t) => Gone(R, W.subs, t)
  BY <1>2, <1>3, <1>4, TrimKeeps
<1>6. \A t : Holders(M, t) = Holders(L, t) \ {l}
  BY DEF Left, Holders
<1>7. /\ M.removes = L.removes \union Orphaned(L, l)
      /\ \A t : t \in Orphaned(L, l) => Holders(L, t) = {l}
      /\ \A t : Holders(L, t) = {l} => t \in Orphaned(L, l)
  <2>1. \A t : l \in Holders(L, t) => t \in DOMAIN L.leases[l].floors  BY DEF Holders
  <2>2. QED  BY <2>1 DEF Left, Orphaned
<1>8. ASSUME NEW t \in Topics
      PROVE /\ \A k \in Holders(M, t) : Wanted(R, W.subs, t, k) /\ t \notin M.removes
            /\ Holders(M, t) = {} => t \in M.removes \/ Gone(R, W.subs, t)
  <2>1. /\ \A k \in Holders(L, t) : Wanted(Q, W.subs, t, k) /\ t \notin L.removes
        /\ Holders(L, t) = {} => t \in L.removes \/ Gone(Q, W.subs, t)
    BY DEF Subscribing, Subs, Q
  <2>2. ASSUME NEW k \in Holders(M, t) PROVE Wanted(R, W.subs, t, k) /\ t \notin M.removes
    BY <1>5, <1>6, <1>7, <2>1
  <2>3. ASSUME Holders(M, t) = {} PROVE t \in M.removes \/ Gone(R, W.subs, t)
    <3>1. CASE Holders(L, t) = {}  BY <1>5, <1>7, <2>1, <3>1
    <3>2. CASE Holders(L, t) = {l}  BY <1>7, <3>2
    <3>3. QED  BY <1>6, <2>3, <3>1, <3>2
  <2>4. QED  BY <2>2, <2>3
<1>9. QED  BY <1>5, <1>8 DEF Subscribing, Subs, R

LEMMA SubsDropped ==
  ASSUME NEW L, LedgerType(L), NEW W, WireType(W), NEW l \in DOMAIN L.leases,
         NEW M, Dropped(L, M, l), Subscribing(L, W)
  PROVE  Subscribing(M, W)
<1>1. PICK K : LedgerType(K) /\ Left(L, K, l) /\ Completed(K, M, Freed(L, l))  BY DEF Dropped
<1>2. Subscribing(K, W)  BY <1>1, SubsLeft
<1>3. \A k \in DOMAIN K.leases : M.leases[k].floors = K.leases[k].floors  BY <1>1, CompletedType
<1>4. DOMAIN M.leases = DOMAIN K.leases /\ M.outbox = K.outbox /\ M.removes = K.removes
  BY <1>1 DEF Completed
<1>5. QED  BY <1>2, <1>3, <1>4, SubsSame

(* What a call of drop_leases leaves alone. *)
Drained(L, D) ==
  /\ LedgerType(D) /\ Steers(L, D) /\ D.conn = L.conn /\ D.dropped = {}
  /\ D.next_lease = L.next_lease /\ D.next_wave = L.next_wave
  /\ DOMAIN D.leases \subseteq DOMAIN L.leases
  /\ \A l \in DOMAIN D.leases : D.leases[l].floors = L.leases[l].floors
  /\ L.outbox = << >> => D.outbox = << >>

LEMMA DroppedFrame ==
  ASSUME NEW L, LedgerType(L), NEW l \in DOMAIN L.leases, NEW M, Dropped(L, M, l)
  PROVE  /\ LedgerType(M) /\ Steers(L, M) /\ M.conn = L.conn
         /\ M.next_lease = L.next_lease /\ M.next_wave = L.next_wave
         /\ DOMAIN M.leases = DOMAIN L.leases \ {l}
         /\ \A k \in DOMAIN M.leases : M.leases[k].floors = L.leases[k].floors
         /\ L.outbox = << >> => M.outbox = << >>
<1>1. PICK K : LedgerType(K) /\ Left(L, K, l) /\ Completed(K, M, Freed(L, l))  BY DEF Dropped
<1>2. LedgerType(M) /\ \A k \in DOMAIN K.leases : M.leases[k].floors = K.leases[k].floors
  BY <1>1, CompletedType
<1>3. L.outbox = << >> => M.outbox = << >>
  <2>1. ASSUME L.outbox = << >> PROVE Among(L.outbox, Kept(L, l)) = << >>
    <3>1. << >> \in Seq(Mutates) /\ Len(<< >>) = 0  BY EmptySeq
    <3>2. \A i \in 1..Len(L.outbox) : L.outbox[i] \in Kept(L, l)  BY <2>1, <3>1
    <3>3. QED  BY <2>1, <3>1, <3>2, AmongAll
  <2>2. QED  BY <1>1, <2>1 DEF Left, Completed
<1>4. QED  BY <1>1, <1>2, <1>3 DEF Left, Completed, Steers

LEMMA SubsChain ==
  ASSUME BidiAssumption, NEW L, LedgerType(L), NEW W, WireType(W), NEW f, NEW D, NEW seed,
         Chain(f, L, D, seed)
  PROVE  Drained(L, D) /\ (Subscribing(L, W) => Subscribing(D, W))
<1> DEFINE N == MaxLeases
           Fine(M) == /\ LedgerType(M) /\ Steers(L, M) /\ M.conn = L.conn
                      /\ M.next_lease = L.next_lease /\ M.next_wave = L.next_wave
                      /\ DOMAIN M.leases \subseteq DOMAIN L.leases
                      /\ \A l \in DOMAIN M.leases : M.leases[l].floors = L.leases[l].floors
                      /\ L.outbox = << >> => M.outbox = << >>
                      /\ Subscribing(L, W) => Subscribing(M, W)
           G == {n \in 0..N : Fine(f[n])}
<1>0. N \in Nat  BY DEF BidiAssumption
<1>1. Fine(f[0])
  <2>1. f[0] = [L EXCEPT !.dropped = @ \union seed]  BY DEF Chain
  <2>2. LedgerType(f[0])  BY <1>0 DEF Chain
  <2>3. /\ Steers(L, f[0]) /\ f[0].conn = L.conn
        /\ f[0].next_lease = L.next_lease /\ f[0].next_wave = L.next_wave
        /\ f[0].leases = L.leases /\ f[0].outbox = L.outbox /\ f[0].removes = L.removes
    BY <2>1, LeaseTypes DEF Named, Steers
  <2>4. Subscribing(L, W) => Subscribing(f[0], W)  BY <2>3, SubsSame
  <2>5. QED  BY <2>2, <2>3, <2>4
<1>2. ASSUME NEW n \in 1..N, Fine(f[n - 1]) PROVE Fine(f[n])
  <2>1. CASE f[n] = f[n - 1]  BY <1>2, <2>1
  <2>2. CASE \E l \in f[n - 1].dropped : Dropped(f[n - 1], f[n], l)
    <3> DEFINE A == f[n - 1]
               B == f[n]
    <3> HIDE DEF A, B
    <3>1. PICK l \in A.dropped : Dropped(A, B, l)  BY <2>2 DEF A, B
    <3>2. Fine(A)  BY <1>2 DEF A
    <3>3. LedgerType(A) /\ l \in DOMAIN A.leases  BY <3>1, <3>2, LeaseTypes
    <3>4. /\ LedgerType(B) /\ Steers(A, B) /\ B.conn = A.conn
          /\ B.next_lease = A.next_lease /\ B.next_wave = A.next_wave
          /\ DOMAIN B.leases = DOMAIN A.leases \ {l}
          /\ \A k \in DOMAIN B.leases : B.leases[k].floors = A.leases[k].floors
          /\ A.outbox = << >> => B.outbox = << >>
      BY <3>1, <3>3, DroppedFrame
    <3>5. Subscribing(A, W) => Subscribing(B, W)  BY <3>1, <3>3, SubsDropped
    <3>6. Fine(B)  BY <3>2, <3>4, <3>5 DEF Steers
    <3>7. QED  BY <3>6 DEF B
  <2>3. QED  BY <2>1, <2>2 DEF Chain
<1>3. N \in G
  <2>1. 0 \in G  BY <1>0, <1>1
  <2>2. ASSUME NEW n \in 1..N, n - 1 \in G PROVE n \in G
    <3>1. n \in 0..N  BY <1>0
    <3>2. Fine(f[n - 1])  BY <2>2
    <3> HIDE DEF Fine
    <3>3. QED  BY <1>2, <3>1, <3>2
  <2> HIDE DEF G
  <2>3. \A n \in 0..N : n \in G  BY <1>0, <2>1, <2>2, UpTo
  <2>4. QED  BY <1>0, <2>3
<1>4. Fine(f[N])
  <2> HIDE DEF Fine
  <2>1. QED  BY <1>3
<1>5. D = f[N] /\ D.dropped = {}  BY DEF Chain
<1>6. QED  BY <1>4, <1>5 DEF Drained

LEMMA SubsRetired ==
  ASSUME BidiAssumption, NEW L, LedgerType(L), NEW W, WireType(W), NEW M, Retired(L, M),
         L.conn, DOMAIN L.leases # {}, Subscribing(L, W)
  PROVE  Subscribing(M, W)
<1> DEFINE Q == Pend(L, W)
           R == Pend(M, W)
           T == L.removes
<1>0. M.removes = {} /\ \A t : Holders(M, t) = Holders(L, t)
  BY DEF Retired, Holders
<1>1. CASE T = {}
  <2>1. R = Q  BY <1>1 DEF Retired, Pend
  <2>2. QED  BY <1>0, <1>1, <2>1 DEF Subscribing, Subs
<1>2. CASE T # {}
  <2>0. \E c, n : /\ Parts(c, n, [t \in T |-> 0])
                  /\ M.outbox = L.outbox \o Removals(L.next_wave, c)
    BY <1>2 DEF Retired
  <2>1. PICK c, n : /\ Parts(c, n, [t \in T |-> 0])
                    /\ M.outbox = L.outbox \o Removals(L.next_wave, c)
    BY <2>0
  <2>2. T \in SUBSET Topics /\ L.next_wave \in Nat /\ Q \in Seq(Mutates) /\ Plain(Q)
    BY LeaseTypes, PendType DEF Subscribing
  <2>3. R = Q \o Removals(L.next_wave, c)
    <3>1. W.up \in Seq(Mutates) /\ L.outbox \in Seq(Mutates)  BY PendType
    <3>2. Removals(L.next_wave, c) \in Seq(Mutates)
      <4>1. [t \in T |-> 0] \in [T -> Nat]  OBVIOUS
      <4>2. [t \in T |-> 0] \in Adds  BY <2>2, <4>1 DEF Adds
      <4>3. QED  BY <2>1, <2>2, <4>2, RemovalsIs
    <3> DEFINE S == Removals(L.next_wave, c)
    <3> HIDE DEF S
    <3>3. S \in Seq(Mutates) /\ Appended(M.outbox, L.outbox, S)
      BY <2>1, <3>2 DEF S, Appended
    <3>4. Appended(Pend(M, W), Pend(L, W), S)  BY <3>1, <3>3, PendAppend
    <3>5. QED  BY <3>4 DEF S, Appended
  <2> HIDE DEF Q, R, T
  <2>4. /\ Plain(R)
        /\ \A t : \A k : t \notin T /\ Wanted(Q, W.subs, t, k) => Wanted(R, W.subs, t, k)
        /\ \A t : t \in T \/ Gone(Q, W.subs, t) => Gone(R, W.subs, t)
    <3>1. PICK adds : adds = [t \in T |-> 0]  OBVIOUS
    <3>2. adds \in Adds /\ T = DOMAIN adds
      <4>1. adds \in [T -> Nat]  BY <3>1
      <4>2. QED  BY <2>2, <3>1, <4>1 DEF Adds
    <3>3. QED  BY <2>1, <2>2, <2>3, <3>1, <3>2, QueueGone
  <2>5. ASSUME NEW t \in Topics
        PROVE /\ \A k \in Holders(M, t) : Wanted(R, W.subs, t, k) /\ t \notin M.removes
              /\ Holders(M, t) = {} => t \in M.removes \/ Gone(R, W.subs, t)
    <3>1. /\ \A k \in Holders(L, t) : Wanted(Q, W.subs, t, k) /\ t \notin T
          /\ Holders(L, t) = {} => t \in T \/ Gone(Q, W.subs, t)
      BY DEF Subscribing, Subs, Q, T
    <3>2. QED  BY <1>0, <2>4, <3>1
  <2>6. QED  BY <2>4, <2>5 DEF Subscribing, Subs, R
<1>3. QED  BY <1>1, <1>2

(* How a handler ends. *)
LEMMA SubsFinished ==
  ASSUME BidiAssumption, NEW L, LedgerType(L), NEW W, WireType(W), NEW M, NEW seed,
         Finished(L, M, seed), L.conn => Subscribing(L, W), ~L.conn => L.outbox = << >>
  PROVE  /\ LedgerType(M) /\ M.dropped = {} /\ M.removes = {}
         /\ M.conn <=> L.conn /\ DOMAIN M.leases # {}
         /\ ~M.conn => M.outbox = << >>
         /\ M.suspended = L.suspended /\ M.dial = L.dial
         /\ DOMAIN M.leases \subseteq DOMAIN L.leases
         /\ M.conn => Subscribing(M, W)
<1>1. PICK f, D, R : /\ Chain(f, L, D, seed) /\ LedgerType(D)
                     /\ Retired(D, R) /\ LedgerType(R) /\ Settled(R, M) /\ LedgerType(M)
  BY DEF Finished
<1>2. Drained(L, D) /\ (Subscribing(L, W) => Subscribing(D, W))  BY <1>1, SubsChain
<1>3. D.conn /\ DOMAIN D.leases # {} /\ L.conn => Subscribing(R, W)
  BY <1>1, <1>2, SubsRetired
<1>4. /\ D.conn = L.conn /\ D.dropped = {} /\ Steers(L, D)
      /\ DOMAIN D.leases \subseteq DOMAIN L.leases /\ (L.outbox = << >> => D.outbox = << >>)
  BY <1>2 DEF Drained
<1>5. L.conn \in BOOLEAN  BY LeaseTypes
<1>6. /\ R.conn <=> L.conn /\ DOMAIN R.leases # {}
      /\ R.dropped = {} /\ R.removes = {} /\ Steers(D, R)
      /\ R.leases = D.leases /\ (~R.conn => R.outbox = << >>)
  <2>1. /\ R.dropped = {} /\ R.removes = {} /\ Steers(D, R) /\ R.leases = D.leases
        /\ IF DOMAIN D.leases = {} THEN R.conn = FALSE /\ R.outbox = << >>
           ELSE R.conn = D.conn /\ (~D.conn => R.outbox = D.outbox)
    BY <1>1, <1>4 DEF Retired
  <2>2. QED  BY <1>4, <1>5, <2>1
<1>7. M.conn => Subscribing(M, W)
  <2>1. /\ M.conn = R.conn /\ M.leases = R.leases /\ M.outbox = R.outbox /\ M.removes = R.removes
    BY <1>1 DEF Settled
  <2>2. M.conn => Subscribing(R, W)  BY <1>3, <1>4, <1>6, <2>1
  <2>3. QED  BY <2>1, <2>2, SubsSame
<1>8. QED  BY <1>1, <1>4, <1>6, <1>7 DEF Settled, Steers

LEMMA SubsInit == ASSUME BidiAssumption, Init PROVE SubsInv
<1>1. PICK b \in BOOLEAN :
        task = [leases |-> NoLeases, last_seen |-> [t \in Topics |-> 0],
               waves |-> NoWaves, next_wave |-> 1, next_lease |-> 1,
               conn |-> FALSE, suspended |-> b,
               waiting |-> 0, deferred |-> 0, outbox |-> << >>,
               dial |-> NoDial, closed |-> FALSE,
               dropped |-> {}, removes |-> {}]
  BY DEF Init
<1>2. DOMAIN NoLeases = {} /\ DOMAIN NoWaves = {}  BY DEF NoLeases, NoWaves
<1>3. LedgerType(task)
  <2>1. << >> \in Seq(Mutates)  BY EmptySeq
  <2>2. QED  BY <1>1, <1>2, <2>1 DEF LedgerType
<1>4. WireType(wire)
  <2>1. << >> \in Seq(Mutates) /\ << >> \in Seq(Frames)  BY EmptySeq
  <2>2. QED  BY <1>2, <2>1 DEF Init, WireType, Closed
<1>5. EnvType /\ log \in [Topics -> Nat] /\ edge \in [Topics -> Nat]
  BY DEF Init, EnvType
<1>6. Idle(task, wire) /\ task.conn = FALSE
  <2>1. wire = Closed  BY DEF Init
  <2>2. QED  BY <1>1, <1>2, <2>1 DEF Idle, NoDial
<1>7. QED  BY <1>3, <1>4, <1>5, <1>6 DEF SubsInv, TypeInv

LEMMA AsksAreAdds == ASSUME BidiAssumption, NEW asks \in Asks PROVE asks \in Adds /\ DOMAIN asks # {}
<1>1. PICK T \in (SUBSET Topics) \ {{}} : asks \in [T -> Floors]  BY DEF Asks
<1>2. asks \in [T -> Nat] /\ DOMAIN asks = T /\ T # {}
  <2>1. Floors \subseteq Nat  BY DEF BidiAssumption
  <2>2. QED  BY <1>1, <2>1
<1>3. QED  BY <1>1, <1>2 DEF Adds

(* A lease joins, the wire being up or the task suspended. *)
LEMMA EnlistedType ==
  ASSUME BidiAssumption, NEW L, LedgerType(L), L.next_lease <= MaxLeases,
         log \in [Topics -> Nat], NEW asks \in Adds, NEW M, NEW c, NEW n,
         Enlisted(L, M, asks, c, n)
  PROVE  LedgerType(M)
<1> DEFINE l == L.next_lease
           s == NewLease(L, asks)
<1>0. /\ l \in Nat \ {0} /\ l \in LeaseIds /\ L.next_wave \in Nat \ {0} /\ n \in Nat
      /\ L.last_seen \in [Topics -> Nat] /\ Parts(c, n, asks)
      /\ DOMAIN asks \subseteq Topics /\ asks \in [DOMAIN asks -> Nat]
  <2>1. l \in Nat \ {0} /\ L.next_wave \in Nat \ {0} /\ L.last_seen \in [Topics -> Nat]
    BY LeaseTypes
  <2>2. MaxLeases \in Nat  BY DEF BidiAssumption
  <2>3. l \in LeaseIds  BY <2>1, <2>2 DEF LeaseIds
  <2>4. Parts(c, n, asks)  BY DEF Enlisted
  <2>5. n \in Nat  BY <2>4 DEF Parts
  <2>6. DOMAIN asks \subseteq Topics /\ asks \in [DOMAIN asks -> Nat]  BY DEF Adds
  <2>7. QED  BY <2>1, <2>3, <2>4, <2>5, <2>6
<1>00. M.next_lease = l + 1 /\ M.next_wave = L.next_wave + n  BY DEF Enlisted
<1>1. LeaseType(s)
  <2>1. << >> \in Seq(Nat)  BY EmptySeq
  <2>2. DOMAIN L.waves \subseteq Nat  BY LeaseTypes
  <2>3. QED  BY <1>0, <2>1, <2>2 DEF LeaseType, NewLease
<1>2. M.outbox \in Seq(Mutates)
  <2>1. L.outbox \in Seq(Mutates) /\ Queue(l, L.next_wave, c) \in Seq(Mutates)
    <3>1. l \in Nat /\ L.next_wave \in Nat  BY <1>0
    <3>2. Queue(l, L.next_wave, c) \in Seq(Mutates)  BY <1>0, <3>1, QueueIs
    <3>3. QED  BY <3>2, LeaseTypes
  <2>2. << >> \in Seq(Mutates)  BY EmptySeq
  <2>3. L.outbox \o Queue(l, L.next_wave, c) \in Seq(Mutates)  BY <2>1, Joined
  <2>4. QED  BY <2>2, <2>3 DEF Enlisted
<1>3. DOMAIN M.leases \subseteq LeaseIds /\ DOMAIN M.leases \subseteq 1..M.next_lease - 1
  <2>1. M.next_lease - 1 = l /\ 1..l - 1 \subseteq 1..l /\ l \in 1..l
    BY <1>0, <1>00
  <2>2. QED  BY <1>0, <2>1, LeaseTypes DEF Enlisted
<1>4. \A k \in DOMAIN M.leases : LeaseType(M.leases[k])
  BY <1>1, LeaseTypes DEF Enlisted
<1>5. DOMAIN M.waves \subseteq 1..M.next_wave - 1
  <2>1. ASSUME NEW a \in Nat \ {0}, NEW b \in Nat
        PROVE 1..a - 1 \subseteq 1..(a + b) - 1 /\ a..a + b - 1 \subseteq 1..(a + b) - 1
    OBVIOUS
  <2>2. QED  BY <1>0, <2>1, LeaseTypes DEF Enlisted
<1>6. \A w \in DOMAIN M.waves : WaveType(M.waves[w])
  <2>1. \A w \in DOMAIN L.waves : WaveType(M.waves[w])  BY LeaseTypes DEF Enlisted
  <2>2. ASSUME NEW w \in L.next_wave .. L.next_wave + n - 1 PROVE WaveType(M.waves[w])
    <3>1. w - L.next_wave + 1 \in 1..n /\ w = L.next_wave + (w - L.next_wave + 1) - 1
      BY <1>0
    <3>2. PICK i \in 1..n : w = L.next_wave + i - 1  BY <3>1
    <3>3. M.waves[w] = [owner |-> l, claims |-> c[i], holds |-> {}]
      BY <3>2 DEF Enlisted
    <3>4. c[i] \in Adds  BY <1>0 DEF Parts
    <3>5. QED  BY <1>0, <3>3, <3>4 DEF WaveType
  <2>3. QED  BY <2>1, <2>2 DEF Enlisted
<1>7. M.next_lease \in Nat \ {0} /\ M.next_wave \in Nat \ {0}
  BY <1>0, <1>00
<1>8. QED
  BY <1>2, <1>3, <1>4, <1>5, <1>6, <1>7, LeaseTypes, TypedLedger DEF Enlisted, Steers

LEMMA SubsEnlisted ==
  ASSUME NEW L, LedgerType(L), NEW W, WireType(W), L.conn, L.removes = {},
         NEW asks \in Adds, NEW M, NEW c, NEW n, Enlisted(L, M, asks, c, n), Subscribing(L, W)
  PROVE  Subscribing(M, W)
<1> DEFINE l == L.next_lease
           Q == Pend(L, W)
           R == Pend(M, W)
           S == Queue(l, L.next_wave, c)
<1>1. l \in Nat /\ L.next_wave \in Nat /\ Parts(c, n, asks) /\ Q \in Seq(Mutates) /\ Plain(Q)
  BY LeaseTypes, PendType DEF Enlisted, Subscribing
<1>2. R = Q \o S
  <2>1. W.up \in Seq(Mutates) /\ L.outbox \in Seq(Mutates)  BY PendType
  <2>2. S \in Seq(Mutates)  BY <1>1, QueueIs
  <2>3. Appended(M.outbox, L.outbox, S)  BY DEF Enlisted, Appended
  <2> HIDE DEF S
  <2>4. Appended(R, Q, S)  BY <2>1, <2>2, <2>3, PendAppend
  <2>5. QED  BY <2>4 DEF Appended
<1> HIDE DEF R, Q
<1>3. /\ Plain(R)
      /\ \A t : \A k : Wanted(Q, W.subs, t, k) => Wanted(R, W.subs, t, k)
      /\ \A t \in DOMAIN asks : Wanted(R, W.subs, t, l)
      /\ \A t : t \notin DOMAIN asks /\ Gone(Q, W.subs, t) => Gone(R, W.subs, t)
  BY <1>1, <1>2, QueueWanted
<1>4. \A t : Holders(M, t) = Holders(L, t) \union (IF t \in DOMAIN asks THEN {l} ELSE {})
  <2>1. /\ DOMAIN M.leases = DOMAIN L.leases \union {l} /\ M.leases[l].floors = asks
        /\ \A k \in DOMAIN L.leases : M.leases[k] = L.leases[k]
    BY DEF Enlisted, NewLease
  <2>2. \A k \in DOMAIN L.leases : k # l  BY LeaseTypes
  <2>3. QED  BY <2>1, <2>2 DEF Holders
<1>5. ASSUME NEW t \in Topics
      PROVE /\ \A k \in Holders(M, t) : Wanted(R, W.subs, t, k) /\ t \notin M.removes
            /\ Holders(M, t) = {} => t \in M.removes \/ Gone(R, W.subs, t)
  <2>1. /\ \A k \in Holders(L, t) : Wanted(Q, W.subs, t, k)
        /\ Holders(L, t) = {} => Gone(Q, W.subs, t)
    BY DEF Subscribing, Subs, Q
  <2>2. M.removes = {}  BY DEF Enlisted
  <2>3. QED  BY <1>3, <1>4, <2>1, <2>2
<1>6. QED  BY <1>3, <1>5 DEF Subscribing, Subs, R

LEMMA SubsMoved ==
  ASSUME NEW L, NEW M, NEW W, NEW V, M.leases = L.leases, M.removes = L.removes,
         Pend(M, V) = Pend(L, W), V.subs = W.subs, Subscribing(L, W)
  PROVE  Subscribing(M, V)
<1>1. \A t : Holders(M, t) = Holders(L, t)  BY DEF Holders
<1>2. QED  BY <1>1 DEF Subscribing, Subs

LEMMA ClosedType == WireType(Closed)
<1>1. << >> \in Seq(Mutates) /\ << >> \in Seq(Frames)  BY EmptySeq
<1>2. DOMAIN NoWaves = {}  BY DEF NoWaves
<1>3. QED  BY <1>1, <1>2 DEF WireType, Closed

(* What one state of the task and its wire satisfies. *)
Sound(L, W) ==
  /\ LedgerType(L) /\ WireType(W) /\ Idle(L, W)
  /\ L.conn => Subscribing(L, W)

LEMMA FinishSound ==
  ASSUME BidiAssumption, NEW L, LedgerType(L), NEW W, WireType(W),
         L.conn => Subscribing(L, W), ~L.conn => L.outbox = << >>,
         L.dial.kind = "none", L.conn <=> DOMAIN L.leases # {} /\ ~L.suspended,
         NEW seed \in SUBSET (DOMAIN L.leases), NEW pick \in BOOLEAN,
         NEW M, M = Finish(L, seed, pick), NEW V, V = IF M.conn THEN W ELSE Closed
  PROVE  Sound(M, V)
<1>1. Finished(L, M, seed)  BY FinishIs
<1>2. /\ LedgerType(M) /\ M.dropped = {} /\ M.removes = {}
      /\ M.conn <=> L.conn /\ DOMAIN M.leases # {}
      /\ ~M.conn => M.outbox = << >>
      /\ M.suspended = L.suspended /\ M.dial = L.dial
      /\ DOMAIN M.leases \subseteq DOMAIN L.leases
      /\ M.conn => Subscribing(M, W)
  BY <1>1, SubsFinished
<1>3. WireType(V)  BY ClosedType
<1>4. QED  BY <1>2, <1>3 DEF Sound, Idle

Calm ==
  /\ BidiAssumption /\ MaxDeaths = 0 /\ MaxResumes = 0
  /\ SubsInv

LEMMA SubsParts ==
  ASSUME Calm
  PROVE  /\ Sound(task, wire) /\ LedgerType(task) /\ WireType(wire) /\ Idle(task, wire)
         /\ EnvType /\ log \in [Topics -> Nat] /\ edge \in [Topics -> Nat]
         /\ task.conn => Subscribing(task, wire)
BY DEF Calm, SubsInv, TypeInv, Sound

LEMMA SubsLater ==
  ASSUME Sound(task', wire'), EnvType', log' \in [Topics -> Nat], edge' \in [Topics -> Nat]
  PROVE  SubsInv'
<1>1. Sound(task, wire)'  BY DEF Sound, LedgerType, LeaseType, WaveType, WireType, Idle, Subscribing, Plain, Subs, Pend, Wanted, Gone, Closed
<1>2. QED  BY <1>1 DEF SubsInv, TypeInv, Sound

LEMMA SubsLease ==
  ASSUME Calm, NEW asks \in Asks, Lease(asks)
  PROVE  SubsInv'
<1>1. /\ LedgerType(task) /\ WireType(wire) /\ Idle(task, wire)
      /\ EnvType /\ log \in [Topics -> Nat] /\ edge \in [Topics -> Nat]
      /\ task.conn => Subscribing(task, wire)
      /\ BidiAssumption
  BY SubsParts DEF Calm
<1>2. asks \in Adds /\ DOMAIN asks # {}  BY <1>1, AsksAreAdds
<1>3. task.next_lease <= MaxLeases /\ task.dial.kind = "none"  BY DEF Lease, Waits
<1>4. EnvType' /\ log' \in [Topics -> Nat] /\ edge' \in [Topics -> Nat]
  BY <1>1 DEF Lease, EnvType
<1>5. CASE ~task.conn /\ DOMAIN task.leases = {} /\ ~task.suspended
  <2>1. task' = [task EXCEPT !.dial = [kind |-> "cold", asks |-> asks]]
    BY <1>5 DEF Lease, Becomes
  <2>2. LedgerType(task')  BY <1>1, <2>1 DEF LedgerType
  <2>3. Named(task)  BY <1>1, LeaseTypes
  <2>4. /\ task'.conn = task.conn /\ task'.leases = task.leases
        /\ task'.suspended = task.suspended /\ task'.dropped = task.dropped
        /\ task'.removes = task.removes /\ task'.outbox = task.outbox
        /\ task'.next_lease = task.next_lease
        /\ task'.dial = [kind |-> "cold", asks |-> asks]
    BY <2>1, <2>3 DEF Named
  <2>5. wire' = Closed
    <3>1. wire' = IF ([task EXCEPT !.dial = [kind |-> "cold", asks |-> asks]]).conn THEN wire ELSE Closed
      BY <1>5 DEF Lease, Becomes
    <3>2. QED  BY <1>5, <2>1, <2>4, <3>1
  <2>6. Idle(task', wire')  BY <1>1, <1>2, <1>3, <1>5, <2>4, <2>5 DEF Idle
  <2>7. QED  BY <1>4, <1>5, <2>2, <2>4, <2>5, <2>6, ClosedType, SubsLater DEF Sound
<1>6. CASE ~(~task.conn /\ DOMAIN task.leases = {} /\ ~task.suspended)
  <2>1. task' = Enlist(task, asks) /\ wire' = IF task'.conn THEN wire ELSE Closed
    BY <1>6 DEF Lease, Becomes
  <2>2. PICK c, n : Enlisted(task, task', asks, c, n)
    <3>1. \E c, n : Enlisted(task, Enlist(task, asks), asks, c, n)
      BY <1>1, <1>2, EnlistIs
    <3>2. QED  BY <2>1, <3>1
  <2>3. LedgerType(task')
    <3> DEFINE M == task'
    <3>1. Enlisted(task, M, asks, c, n)  BY <2>2
    <3> HIDE DEF M
    <3>2. LedgerType(M)  BY <1>1, <1>2, <1>3, <3>1, EnlistedType
    <3>3. QED  BY <3>2 DEF M
  <2>4. /\ task'.conn = task.conn /\ task'.suspended = task.suspended /\ task'.dial = task.dial
        /\ task'.dropped = task.dropped /\ task'.removes = task.removes
        /\ DOMAIN task'.leases = DOMAIN task.leases \union {task.next_lease}
        /\ ~task.conn => task'.outbox = << >>
    BY <2>2 DEF Enlisted, Steers
  <2>5. task.conn => Subscribing(task', wire)
    <3> DEFINE M == task'
    <3>1. Enlisted(task, M, asks, c, n)  BY <2>2
    <3> HIDE DEF M
    <3>2. task.conn => Subscribing(M, wire)
      <4>1. task.removes = {}  BY <1>1 DEF Idle
      <4>2. QED  BY <1>1, <1>2, <3>1, <4>1, SubsEnlisted
    <3>3. QED  BY <3>2 DEF M
  <2>6. Idle(task', wire')
    BY <1>1, <1>3, <1>6, <2>1, <2>4 DEF Idle
  <2>7. QED  BY <1>1, <1>4, <2>1, <2>3, <2>4, <2>5, <2>6, ClosedType, SubsLater DEF Sound
<1>7. QED  BY <1>5, <1>6

LEMMA SubsDeref ==
  ASSUME Calm, NEW l, Deref(l)
  PROVE  SubsInv'
<1>1. /\ LedgerType(task) /\ WireType(wire) /\ Idle(task, wire)
      /\ EnvType /\ log \in [Topics -> Nat] /\ edge \in [Topics -> Nat]
      /\ task.conn => Subscribing(task, wire)
      /\ BidiAssumption
  BY SubsParts DEF Calm
<1>2. PICK pick \in BOOLEAN : Becomes(Finish(task, {l}, pick), wire)  BY DEF Deref
<1>3. /\ {l} \in SUBSET (DOMAIN task.leases) /\ task.dial.kind = "none"
      /\ task.conn <=> DOMAIN task.leases # {} /\ ~task.suspended
      /\ ~task.conn => task.outbox = << >>
  BY <1>1 DEF Deref, Waits, Idle
<1>4. EnvType' /\ log' \in [Topics -> Nat] /\ edge' \in [Topics -> Nat]
  BY <1>1 DEF Deref, EnvType
<1>5. task' = Finish(task, {l}, pick) /\ wire' = IF task'.conn THEN wire ELSE Closed
  BY <1>2 DEF Becomes
<1>6. Sound(task', wire')
  <2> DEFINE M == task'
             V == wire'
  <2>1. M = Finish(task, {l}, pick) /\ V = IF M.conn THEN wire ELSE Closed  BY <1>5
  <2> HIDE DEF M, V
  <2>2. Sound(M, V)  BY <1>1, <1>3, <2>1, FinishSound
  <2>3. QED  BY <2>2 DEF M, V
<1>7. QED  BY <1>4, <1>6, SubsLater

LEMMA SubsWedge ==
  ASSUME Calm, NEW l, Wedge(l)
  PROVE  SubsInv'
<1>1. /\ LedgerType(task) /\ WireType(wire) /\ Idle(task, wire)
      /\ EnvType /\ log \in [Topics -> Nat] /\ edge \in [Topics -> Nat]
      /\ task.conn => Subscribing(task, wire)
      /\ BidiAssumption
  BY SubsParts DEF Calm
<1>2. /\ l \in DOMAIN task.leases /\ wire' = wire /\ log' = log /\ edge' = edge
      /\ task' = [task EXCEPT !.leases[l].wedged = TRUE]
      /\ env' = [env EXCEPT !.wedged = @ + 1]
  BY DEF Wedge
<1>3. EnvType'  BY <1>1, <1>2 DEF EnvType
<1>4. Named(task) /\ LeaseType(task.leases[l])  BY <1>1, <1>2, LeaseTypes
<1>5. /\ Named(task') /\ task'.conn = task.conn /\ task'.suspended = task.suspended
      /\ task'.dial = task.dial /\ task'.dropped = task.dropped
      /\ task'.removes = task.removes /\ task'.outbox = task.outbox
      /\ task'.next_lease = task.next_lease /\ task'.next_wave = task.next_wave
      /\ task'.waves = task.waves /\ task'.last_seen = task.last_seen
      /\ task'.leases = [task.leases EXCEPT ![l].wedged = TRUE]
  BY <1>2, <1>4 DEF Named
<1>6. /\ DOMAIN task'.leases = DOMAIN task.leases
      /\ \A k \in DOMAIN task.leases : k # l => task'.leases[k] = task.leases[k]
      /\ task'.leases[l] = [task.leases[l] EXCEPT !.wedged = TRUE]
  BY <1>2, <1>5
<1>7. LeaseType(task'.leases[l]) /\ task'.leases[l].floors = task.leases[l].floors
  BY <1>4, <1>6 DEF LeaseType
<1>8. \A k \in DOMAIN task.leases :
        LeaseType(task'.leases[k]) /\ task'.leases[k].floors = task.leases[k].floors
  BY <1>1, <1>6, <1>7, LeaseTypes
<1>9. LedgerType(task')
  <2> DEFINE M == task'
  <2> HIDE DEF M
  <2>1. LedgerType(M)
    BY <1>1, <1>5, <1>6, <1>8, LeaseTypes, TypedLedger DEF M
  <2>2. QED  BY <2>1 DEF M
<1>10. Idle(task', wire')  BY <1>1, <1>2, <1>5, <1>6 DEF Idle
<1>11. task'.conn => Subscribing(task', wire')
  <2> DEFINE M == task'
  <2>1. task.conn => Subscribing(M, wire)
    <3>1. DOMAIN M.leases = DOMAIN task.leases /\ M.outbox = task.outbox /\ M.removes = task.removes
      BY <1>5, <1>6
    <3>2. \A k \in DOMAIN task.leases : M.leases[k].floors = task.leases[k].floors  BY <1>8
    <3> HIDE DEF M
    <3>3. QED  BY <1>1, <3>1, <3>2, SubsSame
  <2>2. QED  BY <1>2, <1>5, <2>1
<1>12. QED  BY <1>1, <1>2, <1>3, <1>9, <1>10, <1>11, SubsLater DEF Sound

LEMMA SubsOpened ==
  ASSUME Calm, Opened
  PROVE  SubsInv'
<1>1. /\ LedgerType(task) /\ WireType(wire) /\ Idle(task, wire)
      /\ EnvType /\ log \in [Topics -> Nat] /\ edge \in [Topics -> Nat]
      /\ BidiAssumption
  BY SubsParts DEF Calm
<1>2. task.dial.kind = "cold"  BY <1>1 DEF Opened, Dials, Idle
<1> DEFINE asks == task.dial.asks
           U == [task EXCEPT !.conn = TRUE]
           L == Enlist(U, asks)
           sent == [Park(L) EXCEPT !.outbox = Tail(@)]
           W == [Closed EXCEPT !.up = <<Head(L.outbox)>>]
<1>3. /\ asks \in Adds /\ DOMAIN asks # {} /\ DOMAIN task.leases = {}
      /\ ~task.suspended /\ ~task.conn /\ task.next_lease <= MaxLeases /\ task.outbox = << >>
      /\ task.dropped = {} /\ task.removes = {}
  BY <1>1, <1>2 DEF Idle
<1>4. PICK pick \in BOOLEAN :
        Becomes(Finish(CompleteAll(sent, {}, pick), {}, pick), W)
  BY <1>2 DEF Opened
<1>5. EnvType' /\ log' \in [Topics -> Nat] /\ edge' \in [Topics -> Nat]
  BY <1>1 DEF Opened, EnvType
<1>6. LedgerType(U) /\ Named(U)
  <2>1. LedgerType(U)  BY <1>1 DEF LedgerType
  <2>2. QED  BY <2>1, LeaseTypes
<1>7. /\ U.conn = TRUE /\ U.leases = task.leases /\ U.next_lease = task.next_lease
      /\ U.outbox = << >> /\ U.dropped = {} /\ U.removes = {} /\ U.suspended = task.suspended
      /\ U.dial = task.dial
  BY <1>3, <1>6, <1>1, LeaseTypes DEF Named
<1> HIDE DEF U
<1>8. PICK c, n : Enlisted(U, L, asks, c, n)  BY <1>1, <1>3, <1>6, EnlistIs
<1> HIDE DEF asks, L
<1>9. LedgerType(L)  BY <1>1, <1>3, <1>6, <1>7, <1>8, EnlistedType
<1>10. Subscribing(U, Closed)
  <2>1. Closed.up = << >> /\ Closed.subs = {}  BY DEF Closed
  <2>2. Pend(U, Closed) = << >>  BY <1>7, <2>1 DEF Pend
  <2>3. Len(Pend(U, Closed)) = 0  BY <2>2
  <2> HIDE DEF Pend
  <2>4. \A t : Holders(U, t) = {}  BY <1>3, <1>7 DEF Holders
  <2>5. \A t : Gone(Pend(U, Closed), {}, t)
    <3>1. \A q \in 1..Len(Pend(U, Closed)) : FALSE  BY <2>3
    <3>2. QED  BY <3>1 DEF Gone
  <2>6. Plain(Pend(U, Closed))
    <3>1. \A q \in 1..Len(Pend(U, Closed)) : FALSE  BY <2>3
    <3>2. QED  BY <3>1 DEF Plain
  <2>7. QED  BY <2>1, <2>4, <2>5, <2>6 DEF Subscribing, Subs
<1>11. Subscribing(L, Closed)
  BY <1>3, <1>6, <1>7, <1>8, <1>10, ClosedType, SubsEnlisted
<1>12. /\ L.conn = TRUE /\ L.suspended = task.suspended /\ L.removes = {} /\ L.dropped = {}
       /\ DOMAIN L.leases # {} /\ Named(L) /\ Parts(c, n, asks)
       /\ L.outbox = << >> \o Queue(U.next_lease, U.next_wave, c)
  <2>1. U.outbox = << >>  BY <1>7
  <2>2. QED  BY <1>7, <1>8, <2>1 DEF Enlisted, Steers
<1>13. L.outbox \in Seq(Mutates) /\ L.outbox # << >>
  <2> DEFINE q == Queue(U.next_lease, U.next_wave, c)
  <2>1. q \in Seq(Mutates) /\ Len(q) = n /\ n \in Nat
    <3>1. U.next_lease \in Nat /\ U.next_wave \in Nat  BY <1>6, LeaseTypes
    <3>2. QED  BY <1>12, <3>1, QueueIs
  <2>2. << >> \in Seq(Mutates)  BY EmptySeq
  <2> HIDE DEF q
  <2>3. << >> \o q \in Seq(Mutates) /\ Len(<< >> \o q) = 0 + Len(q)
    <3>1. Len(<< >>) = 0  OBVIOUS
    <3>2. QED  BY <2>1, <2>2, <3>1, Joined
  <2>4. n # 0
    <3>1. SUFFICES ASSUME n = 0 PROVE FALSE  OBVIOUS
    <3>2. \A t \in DOMAIN asks : \E i \in 1..n : t \in DOMAIN c[i]  BY <1>12 DEF Parts
    <3>3. QED  BY <1>3, <3>1, <3>2
  <2>5. L.outbox = << >> \o q  BY <1>12 DEF q
  <2>6. Len(L.outbox) # 0  BY <2>1, <2>3, <2>4, <2>5
  <2>7. QED  BY <2>3, <2>5, <2>6
<1>14. /\ Tail(L.outbox) \in Seq(Mutates) /\ Head(L.outbox) \in Mutates
       /\ <<Head(L.outbox)>> \in Seq(Mutates)
       /\ Appended(L.outbox, <<Head(L.outbox)>>, Tail(L.outbox))
  <2> DEFINE q == L.outbox
  <2>1. q \in Seq(Mutates) /\ q # << >>  BY <1>13
  <2> HIDE DEF q
  <2>2. Head(q) \in Mutates /\ Tail(q) \in Seq(Mutates) /\ q = <<Head(q)>> \o Tail(q)
    BY <2>1, TailIs
  <2>3. <<Head(q)>> \in Seq(Mutates)  BY <2>2
  <2>4. QED  BY <2>2, <2>3 DEF q, Appended
<1>15. /\ Named(sent) /\ sent.conn = TRUE /\ sent.suspended = task.suspended
       /\ sent.leases = L.leases /\ sent.removes = {} /\ sent.dropped = {}
       /\ sent.dial = NoDial /\ sent.outbox = Tail(L.outbox)
       /\ sent.next_lease = L.next_lease /\ sent.next_wave = L.next_wave
       /\ sent.waves = L.waves /\ sent.last_seen = L.last_seen
  BY <1>12 DEF Named, Park
<1>16. WireType(W) /\ W.up = <<Head(L.outbox)>> /\ W.subs = Closed.subs /\ Closed.up = << >>
  BY <1>14, ClosedType DEF WireType, Closed
<1> HIDE DEF sent, W
<1>17. LedgerType(sent)
  <2>1. task.suspended \in BOOLEAN  BY <1>1, LeaseTypes
  <2>2. /\ sent.next_lease \in Nat \ {0} /\ sent.next_wave \in Nat \ {0}
        /\ DOMAIN sent.leases \subseteq LeaseIds
        /\ DOMAIN sent.leases \subseteq 1..sent.next_lease - 1
        /\ \A l \in DOMAIN sent.leases : LeaseType(sent.leases[l])
        /\ DOMAIN sent.waves \subseteq 1..sent.next_wave - 1
        /\ \A w \in DOMAIN sent.waves : WaveType(sent.waves[w])
        /\ sent.last_seen \in [Topics -> Nat]
    BY <1>9, <1>15, LeaseTypes
  <2>3. sent.outbox \in Seq(Mutates)  BY <1>14, <1>15
  <2>4. sent.suspended \in BOOLEAN /\ sent.dropped \subseteq DOMAIN sent.leases /\ sent.removes \subseteq Topics
        /\ sent.conn \in BOOLEAN
    BY <1>15, <2>1
  <2>5. QED  BY <1>15, <2>2, <2>3, <2>4, TypedLedger
<1>18. Subscribing(sent, W)
  <2>1. Pend(sent, W) = Pend(L, Closed)
    <3>1. Pend(sent, W) = <<Head(L.outbox)>> \o Tail(L.outbox)  BY <1>15, <1>16 DEF Pend
    <3>2. Pend(sent, W) = L.outbox  BY <1>14, <3>1 DEF Appended
    <3>3. Pend(L, Closed) = << >> \o L.outbox  BY <1>16 DEF Pend
    <3>4. \A q \in Seq(Mutates) : << >> \o q = q  OBVIOUS
    <3>5. QED  BY <1>13, <3>2, <3>3, <3>4
  <2>2. QED  BY <1>11, <1>12, <1>15, <1>16, <2>1, SubsMoved
<1> DEFINE C == CompleteAll(sent, {}, pick)
<1>19. Completed(sent, C, {})  BY <1>17, CompleteAllIs
<1> HIDE DEF C
<1>20. /\ LedgerType(C) /\ C.conn = TRUE /\ C.suspended = task.suspended /\ C.dial = NoDial
       /\ C.removes = sent.removes /\ C.outbox = sent.outbox /\ DOMAIN C.leases = DOMAIN sent.leases
       /\ \A k \in DOMAIN sent.leases : C.leases[k].floors = sent.leases[k].floors
  <2>1. /\ LedgerType(C)
        /\ \A k \in DOMAIN sent.leases : C.leases[k].floors = sent.leases[k].floors
    BY <1>17, <1>19, CompletedType
  <2>2. /\ C.conn = sent.conn /\ C.suspended = sent.suspended /\ C.dial = sent.dial
        /\ C.removes = sent.removes /\ C.outbox = sent.outbox /\ DOMAIN C.leases = DOMAIN sent.leases
    BY <1>19 DEF Completed, Steers
  <2>3. QED  BY <1>15, <2>1, <2>2
<1>21. Subscribing(C, W)  BY <1>18, <1>20, SubsSame
<1>22. C.dial.kind = "none"  BY <1>20 DEF NoDial
<1>23. task' = Finish(C, {}, pick) /\ wire' = IF task'.conn THEN W ELSE Closed
  BY <1>4 DEF Becomes, C
<1>24. Sound(task', wire')
  <2> DEFINE M == task'
             V == wire'
  <2>1. M = Finish(C, {}, pick) /\ V = IF M.conn THEN W ELSE Closed  BY <1>23
  <2> HIDE DEF M, V
  <2>2. Sound(M, V)
    <3>1. C.conn <=> DOMAIN C.leases # {} /\ ~C.suspended  BY <1>3, <1>12, <1>15, <1>20
    <3>2. {} \in SUBSET (DOMAIN C.leases)  OBVIOUS
    <3>3. QED  BY <1>1, <1>16, <1>20, <1>21, <1>22, <2>1, <3>1, <3>2, FinishSound
  <2>3. QED  BY <2>2 DEF M, V
<1>25. QED  BY <1>5, <1>24, SubsLater

LEMMA SubsWireEvent ==
  ASSUME Calm, WireEvent
  PROVE  SubsInv'
<1>1. /\ LedgerType(task) /\ WireType(wire) /\ Idle(task, wire)
      /\ EnvType /\ log \in [Topics -> Nat] /\ edge \in [Topics -> Nat]
      /\ task.conn => Subscribing(task, wire)
      /\ BidiAssumption
  BY SubsParts DEF Calm
<1> DEFINE h == Head(wire.down)
           W == [wire EXCEPT !.down = Tail(@)]
<1>2. /\ wire.down # << >> /\ task.conn /\ task.dial.kind = "none"
      /\ task.conn <=> DOMAIN task.leases # {} /\ ~task.suspended
  BY <1>1 DEF WireEvent, Waits, Idle
<1>3. PICK pick \in BOOLEAN : Becomes(Finish(Route(task, h, pick), {}, pick), W)
  BY DEF WireEvent
<1>4. EnvType' /\ log' \in [Topics -> Nat] /\ edge' \in [Topics -> Nat]
  BY <1>1 DEF WireEvent, EnvType
<1>5. h \in Frames /\ Tail(wire.down) \in Seq(Frames)
  <2> DEFINE q == wire.down
  <2>1. q \in Seq(Frames) /\ q # << >>  BY <1>1, <1>2, PendType
  <2> HIDE DEF q
  <2>2. Head(q) \in Frames /\ Tail(q) \in Seq(Frames)  BY <2>1, TailIs
  <2>3. QED  BY <2>2 DEF q
<1>6. WireType(W) /\ W.up = wire.up /\ W.subs = wire.subs
  BY <1>1, <1>5 DEF WireType
<1>7. Subscribing(task, W)
  <2>1. Pend(task, W) = Pend(task, wire)  BY <1>6 DEF Pend
  <2>2. QED  BY <1>1, <1>2, <1>6, <2>1, SubsMoved
<1> HIDE DEF h, W
<1> DEFINE R == Route(task, h, pick)
<1>8. /\ LedgerType(R) /\ R.conn = task.conn /\ R.suspended = task.suspended
      /\ R.dial = task.dial /\ R.outbox = task.outbox /\ R.removes = task.removes
      /\ DOMAIN R.leases = DOMAIN task.leases
      /\ \A k \in DOMAIN task.leases : R.leases[k].floors = task.leases[k].floors
  <2>1. CASE h.kind = "message"
    <3>1. h.topic \in Topics /\ h.cursor \in Nat  BY <1>5, <2>1 DEF Frames
    <3>2. R = Demux(task, h.topic, h.cursor, h.tag)  BY <2>1 DEF Route
    <3>3. CASE R = task  BY <1>1, <3>3
    <3>4. CASE Demuxed(task, R, h.topic, h.cursor, h.tag)
      <4> HIDE DEF R
      <4>1. /\ LedgerType(R)
            /\ \A k \in DOMAIN task.leases : R.leases[k].floors = task.leases[k].floors
        BY <1>1, <3>1, <3>4, DemuxedType
      <4>2. QED  BY <3>4, <4>1 DEF Demuxed, Steers
    <3>5. QED
      <4> HIDE DEF R
      <4>1. IF Holders(task, h.topic) = {} \/ (h.tag = Live /\ ~(h.cursor > task.last_seen[h.topic]))
            THEN Demux(task, h.topic, h.cursor, h.tag) = task
            ELSE Demuxed(task, Demux(task, h.topic, h.cursor, h.tag), h.topic, h.cursor, h.tag)
        BY <1>1, <3>1, DemuxIs
      <4>2. QED  BY <3>2, <3>3, <3>4, <4>1
  <2>2. CASE h.kind # "message"
    <3>1. R = Resolve(task, h.tag, pick)  BY <2>2 DEF Route
    <3>2. IF h.tag \in DOMAIN task.waves
          THEN Resolved(task, R, h.tag) /\ LedgerType(R)
          ELSE R = task
      BY <1>1, <3>1, ResolveIs
    <3>3. CASE R = task  BY <1>1, <3>3
    <3>4. CASE Resolved(task, R, h.tag) /\ LedgerType(R)
      <4> HIDE DEF R
      <4>1. PICK K : LedgerType(K) /\ Struck(task, K, h.tag) /\ Completed(K, R, Riders(task, h.tag))
        BY <3>4 DEF Resolved
      <4>2. \A k \in DOMAIN K.leases : R.leases[k].floors = K.leases[k].floors
        BY <4>1, CompletedType
      <4>3. QED  BY <3>4, <4>1, <4>2 DEF Struck, Completed, Steers
    <3>5. QED  BY <3>2, <3>3, <3>4
  <2>3. QED  BY <2>1, <2>2
<1> HIDE DEF R
<1>9. Subscribing(R, W)  BY <1>7, <1>8, SubsSame
<1>10. task' = Finish(R, {}, pick) /\ wire' = IF task'.conn THEN W ELSE Closed
  BY <1>3 DEF Becomes, R
<1>11. Sound(task', wire')
  <2> DEFINE M == task'
             V == wire'
  <2>1. M = Finish(R, {}, pick) /\ V = IF M.conn THEN W ELSE Closed  BY <1>10
  <2> HIDE DEF M, V
  <2>2. Sound(M, V)
    <3>1. R.conn <=> DOMAIN R.leases # {} /\ ~R.suspended  BY <1>2, <1>8
    <3>2. {} \in SUBSET (DOMAIN R.leases)  OBVIOUS
    <3>3. QED  BY <1>1, <1>2, <1>6, <1>8, <1>9, <2>1, <3>1, <3>2, FinishSound
  <2>3. QED  BY <2>2 DEF M, V
<1>12. QED  BY <1>4, <1>11, SubsLater

LEMMA SubsFlush ==
  ASSUME Calm, FlushOutbox
  PROVE  SubsInv'
<1>1. /\ LedgerType(task) /\ WireType(wire) /\ Idle(task, wire)
      /\ EnvType /\ log \in [Topics -> Nat] /\ edge \in [Topics -> Nat]
      /\ task.conn => Subscribing(task, wire)
      /\ BidiAssumption
  BY SubsParts DEF Calm
<1>2. /\ task.conn /\ task.outbox # << >>
      /\ task' = [task EXCEPT !.outbox = Tail(@)]
      /\ wire' = [wire EXCEPT !.up = Append(@, Head(task.outbox))]
      /\ log' = log /\ edge' = edge /\ env' = env
  BY DEF FlushOutbox
<1>3. Named(task) /\ wire.up \in Seq(Mutates) /\ task.outbox \in Seq(Mutates)
  BY <1>1, LeaseTypes, PendType
<1>4. /\ task'.outbox = Tail(task.outbox) /\ task'.conn = task.conn
      /\ task'.leases = task.leases /\ task'.removes = task.removes
      /\ task'.suspended = task.suspended /\ task'.dial = task.dial
      /\ task'.dropped = task.dropped /\ task'.next_lease = task.next_lease
  BY <1>2, <1>3 DEF Named
<1>5. /\ wire'.up = Append(wire.up, Head(task.outbox)) /\ wire'.subs = wire.subs
      /\ wire'.down = wire.down /\ wire'.waves = wire.waves
  BY <1>1, <1>2 DEF WireType
<1>6. /\ Tail(task.outbox) \in Seq(Mutates)
      /\ Append(wire.up, Head(task.outbox)) \in Seq(Mutates)
      /\ Append(wire.up, Head(task.outbox)) \o Tail(task.outbox) = wire.up \o task.outbox
  <2> DEFINE q == task.outbox
             p == wire.up
  <2>1. q \in Seq(Mutates) /\ p \in Seq(Mutates) /\ q # << >>  BY <1>2, <1>3
  <2> HIDE DEF q, p
  <2>2. /\ Head(q) \in Mutates /\ Tail(q) \in Seq(Mutates) /\ q = <<Head(q)>> \o Tail(q)
    BY <2>1, TailIs
  <2>3. Append(p, Head(q)) \in Seq(Mutates)  BY <2>1, <2>2
  <2>4. Append(p, Head(q)) \o Tail(q) = p \o q
    <3> DEFINE x == Head(q)
               r == Tail(q)
    <3>1. x \in Mutates /\ r \in Seq(Mutates) /\ <<x>> \in Seq(Mutates)  BY <2>2
    <3>2. q = <<x>> \o r  BY <2>2
    <3> HIDE DEF x, r
    <3>3. Append(p, x) = p \o <<x>>  BY <2>1, <3>1
    <3>4. (p \o <<x>>) \o r = p \o (<<x>> \o r)  BY <2>1, <3>1, ConcatAssociative
    <3>5. Append(p, x) \o r = p \o q  BY <3>2, <3>3, <3>4
    <3>6. QED  BY <3>5 DEF x, r
  <2>5. QED  BY <2>2, <2>3, <2>4 DEF p, q
<1>7. LedgerType(task')
  <2>1. [task EXCEPT !.outbox = Tail(@)].outbox = Tail(task.outbox)  BY <1>2, <1>4
  <2>2. QED  BY <1>1, <1>2, <1>6 DEF LedgerType
<1>8. WireType(wire')  BY <1>1, <1>2, <1>6 DEF WireType
<1>9. Idle(task', wire')  BY <1>1, <1>2, <1>4 DEF Idle
<1>10. Subscribing(task', wire')
  <2> DEFINE M == task'
             V == wire'
  <2>1. Pend(M, V) = Pend(task, wire)  BY <1>4, <1>5, <1>6 DEF Pend
  <2>2. M.leases = task.leases /\ M.removes = task.removes /\ V.subs = wire.subs
    BY <1>4, <1>5
  <2> HIDE DEF M, V
  <2>3. Subscribing(M, V)  BY <1>1, <1>2, <2>1, <2>2, SubsMoved
  <2>4. QED  BY <2>3 DEF M, V
<1>11. QED  BY <1>1, <1>2, <1>7, <1>8, <1>9, <1>10, SubsLater DEF Sound, EnvType

(* What the server does to the messages in flight is no business of the   *)
(* subscriptions.                                                          *)
LEMMA SubsServer ==
  ASSUME Calm, task' = task, edge' = edge, env' = env, log' \in [Topics -> Nat],
         WireType(wire'), wire'.up = wire.up, wire'.subs = wire.subs, ~task.conn => wire' = wire
  PROVE  SubsInv'
<1>1. /\ LedgerType(task) /\ WireType(wire) /\ Idle(task, wire)
      /\ EnvType /\ edge \in [Topics -> Nat]
      /\ task.conn => Subscribing(task, wire)
  BY SubsParts
<1>2. Idle(task', wire')  BY <1>1 DEF Idle
<1>3. task'.conn => Subscribing(task', wire')
  <2> DEFINE V == wire'
  <2>1. Pend(task, V) = Pend(task, wire)  BY DEF Pend
  <2> HIDE DEF V
  <2>2. task.conn => Subscribing(task, V)  BY <1>1, <2>1, SubsMoved DEF V
  <2>3. QED  BY <2>2 DEF V
<1>4. QED  BY <1>1, <1>2, <1>3, SubsLater DEF Sound, EnvType

LEMMA FrameTypes ==
  ASSUME NEW q \in Seq(Frames)
  PROVE  /\ \A t \in Topics, c \in Nat, w \in Nat : Append(q, Message(t, c, w)) \in Seq(Frames)
         /\ \A w \in Nat : Append(q, Ack(w)) \in Seq(Frames)
<1>1. \A t \in Topics, c \in Nat, w \in Nat : Message(t, c, w) \in Frames  BY DEF Message, Frames
<1>2. \A w \in Nat : Ack(w) \in Frames  BY DEF Ack, Frames
<1>3. QED  BY <1>1, <1>2

LEMMA SubsPublish ==
  ASSUME Calm, NEW t \in Topics, Publish(t)
  PROVE  SubsInv'
<1>1. WireType(wire) /\ log \in [Topics -> Nat] /\ Idle(task, wire)  BY SubsParts
<1>2. log' \in [Topics -> Nat]  BY <1>1 DEF Publish
<1>3. CASE task.conn /\ t \in wire.subs /\ ~Held(t)
  <2>1. wire' = [wire EXCEPT !.down = Append(@, Message(t, log[t] + 1, Live))]  BY <1>3 DEF Publish
  <2>2. Append(wire.down, Message(t, log[t] + 1, Live)) \in Seq(Frames)
    <3>1. wire.down \in Seq(Frames)  BY <1>1 DEF WireType
    <3>2. log[t] + 1 \in Nat /\ Live \in Nat  BY <1>1 DEF Live
    <3>3. QED  BY <3>1, <3>2, FrameTypes
  <2>3. WireType(wire') /\ wire'.up = wire.up /\ wire'.subs = wire.subs
    BY <1>1, <2>1, <2>2 DEF WireType
  <2>4. QED  BY <1>2, <1>3, <2>3, SubsServer DEF Publish
<1>4. CASE ~(task.conn /\ t \in wire.subs /\ ~Held(t))
  <2>1. wire' = wire  BY <1>4 DEF Publish
  <2>2. QED  BY <1>1, <1>2, <2>1, SubsServer DEF Publish
<1>5. QED  BY <1>3, <1>4

LEMMA SubsServe ==
  ASSUME Calm, NEW t \in Topics, ServerServe(t)
  PROVE  SubsInv'
<1> DEFINE w == Oldest
           r == wire.waves[w]
           n == r[t].upto + 1
<1>1. WireType(wire) /\ log \in [Topics -> Nat] /\ Idle(task, wire)  BY SubsParts
<1>2. DOMAIN wire.waves # {} /\ t \in DOMAIN r
      /\ wire' = [wire EXCEPT !.waves[w][t].upto = n, !.down = Append(@, Message(t, n, w))]
  BY DEF ServerServe
<1>3. w \in DOMAIN wire.waves /\ w \in Nat
  <2>1. DOMAIN wire.waves \subseteq Nat  BY <1>1 DEF WireType
  <2>2. QED  BY <1>2, <2>1, MinIn DEF Oldest
<1> HIDE DEF w
<1>4. PICK T \in SUBSET Topics : r \in [T -> [from : Nat, upto : Nat]]  BY <1>1, <1>3 DEF WireType
<1>5. n \in Nat  BY <1>2, <1>4
<1>6. [r EXCEPT ![t].upto = n] \in [T -> [from : Nat, upto : Nat]]  BY <1>2, <1>4, <1>5
<1> HIDE DEF n
<1>7. Append(wire.down, Message(t, n, w)) \in Seq(Frames)
  <2>1. wire.down \in Seq(Frames)  BY <1>1 DEF WireType
  <2>2. QED  BY <1>3, <1>5, <2>1, FrameTypes
<1>8. /\ DOMAIN wire' = DOMAIN wire /\ wire'.up = wire.up /\ wire'.subs = wire.subs
      /\ wire'.down = Append(wire.down, Message(t, n, w))
      /\ wire'.waves = [wire.waves EXCEPT ![w] = [r EXCEPT ![t].upto = n]]
  BY <1>1, <1>2 DEF WireType
<1>9. DOMAIN wire'.waves = DOMAIN wire.waves
      /\ \A v \in DOMAIN wire.waves :
           wire'.waves[v] = IF v = w THEN [r EXCEPT ![t].upto = n] ELSE wire.waves[v]
  BY <1>8
<1>10. \A v \in DOMAIN wire.waves :
         wire'.waves[v] \in UNION {[S -> [from : Nat, upto : Nat]] : S \in SUBSET Topics}
  <2>1. [r EXCEPT ![t].upto = n] \in UNION {[S -> [from : Nat, upto : Nat]] : S \in SUBSET Topics}
    BY <1>6
  <2>2. \A v \in DOMAIN wire.waves :
          wire.waves[v] \in UNION {[S -> [from : Nat, upto : Nat]] : S \in SUBSET Topics}
    BY <1>1 DEF WireType
  <2>3. QED  BY <1>9, <2>1, <2>2
<1>11. WireType(wire')  BY <1>1, <1>7, <1>8, <1>9, <1>10 DEF WireType
<1>12. ~task.conn => DOMAIN wire.waves = {}
  BY <1>1 DEF Idle, Closed, NoWaves
<1>13. QED  BY <1>1, <1>2, <1>8, <1>11, <1>12, SubsServer DEF ServerServe

LEMMA SubsAck ==
  ASSUME Calm, ServerAck
  PROVE  SubsInv'
<1> DEFINE w == Oldest
<1>1. WireType(wire) /\ log \in [Topics -> Nat] /\ Idle(task, wire)  BY SubsParts
<1>2. DOMAIN wire.waves # {}
      /\ wire' = [wire EXCEPT !.waves = Without(@, {w}), !.down = Append(@, Ack(w))]
  BY DEF ServerAck
<1>3. w \in DOMAIN wire.waves /\ w \in Nat
  <2>1. DOMAIN wire.waves \subseteq Nat  BY <1>1 DEF WireType
  <2>2. QED  BY <1>2, <2>1, MinIn DEF Oldest
<1> HIDE DEF w
<1>4. Append(wire.down, Ack(w)) \in Seq(Frames)
  <2>1. wire.down \in Seq(Frames)  BY <1>1 DEF WireType
  <2>2. QED  BY <1>3, <2>1, FrameTypes
<1>5. /\ DOMAIN wire' = DOMAIN wire /\ wire'.up = wire.up /\ wire'.subs = wire.subs
      /\ wire'.down = Append(wire.down, Ack(w))
      /\ wire'.waves = Without(wire.waves, {w})
  BY <1>1, <1>2 DEF WireType
<1>6. DOMAIN wire'.waves = DOMAIN wire.waves \ {w}
      /\ \A v \in DOMAIN wire.waves \ {w} : wire'.waves[v] = wire.waves[v]
  BY <1>5 DEF Without
<1>7. WireType(wire')  BY <1>1, <1>4, <1>5, <1>6 DEF WireType
<1>8. ~task.conn => DOMAIN wire.waves = {}
  BY <1>1 DEF Idle, Closed, NoWaves
<1>9. QED  BY <1>1, <1>2, <1>5, <1>7, <1>8, SubsServer DEF ServerAck

LEMMA SubsMutate ==
  ASSUME Calm, ServerMutate
  PROVE  SubsInv'
<1>1. /\ LedgerType(task) /\ WireType(wire) /\ Idle(task, wire)
      /\ EnvType /\ log \in [Topics -> Nat] /\ edge \in [Topics -> Nat]
      /\ task.conn => Subscribing(task, wire)
  BY SubsParts
<1> DEFINE m == Head(wire.up)
           own == {t \in DOMAIN m.adds : m.adds[t] < log[t]}
           taken(w) == {t \in own \intersect DOMAIN wire.waves[w] :
                          Yank /\ m.adds[t] < wire.waves[w][t].from}
           older == [w \in DOMAIN wire.waves |-> Without(wire.waves[w], taken(w))]
           new == [t \in own |-> [from |-> m.adds[t], upto |-> m.adds[t]]]
           next == With(older, [w \in {m.id} |-> new])
<1>2. /\ wire.up # << >>
      /\ wire' = [wire EXCEPT !.up = Tail(@),
                   !.subs = (@ \ m.removes) \union DOMAIN m.adds,
                   !.waves = IF DOMAIN m.adds = {} THEN @ ELSE next,
                   !.down = IF DOMAIN m.adds = {} THEN Append(@, Ack(m.id)) ELSE @]
      /\ task' = task /\ log' = log /\ edge' = edge /\ env' = env
  BY DEF ServerMutate
<1>3. m \in Mutates /\ Tail(wire.up) \in Seq(Mutates)
  <2> DEFINE q == wire.up
  <2>1. q \in Seq(Mutates) /\ q # << >>  BY <1>1, <1>2, PendType
  <2> HIDE DEF q
  <2>2. Head(q) \in Mutates /\ Tail(q) \in Seq(Mutates)  BY <2>1, TailIs
  <2>3. QED  BY <2>2 DEF q
<1>4. /\ m.id \in Nat /\ m.removes \subseteq Topics /\ DOMAIN m.adds \subseteq Topics
      /\ m.adds \in [DOMAIN m.adds -> Nat]
  BY <1>3 DEF Mutates, Adds
<1>5. own \in SUBSET Topics /\ new \in [own -> [from : Nat, upto : Nat]]
  <2>1. \A t \in own : t \in DOMAIN m.adds  OBVIOUS
  <2>2. \A t \in own : m.adds[t] \in Nat  BY <1>4, <2>1
  <2>3. own \subseteq Topics  BY <1>4, <2>1
  <2> HIDE DEF own
  <2>4. QED  BY <2>2, <2>3
<1> HIDE DEF new
<1>6. DOMAIN next = DOMAIN wire.waves \union {m.id}
      /\ \A w \in DOMAIN next : next[w] = IF w = m.id THEN new ELSE Without(wire.waves[w], taken(w))
  BY DEF With
<1>7. \A w \in DOMAIN next : next[w] \in UNION {[S -> [from : Nat, upto : Nat]] : S \in SUBSET Topics}
  <2>1. ASSUME NEW w \in DOMAIN wire.waves
        PROVE  Without(wire.waves[w], taken(w)) \in UNION {[S -> [from : Nat, upto : Nat]] : S \in SUBSET Topics}
    <3>1. PICK T \in SUBSET Topics : wire.waves[w] \in [T -> [from : Nat, upto : Nat]]
      BY <1>1 DEF WireType
    <3> DEFINE V == taken(w)
    <3> HIDE DEF V, taken
    <3>2. Without(wire.waves[w], V) \in [T \ V -> [from : Nat, upto : Nat]]
      BY <3>1 DEF Without
    <3>3. T \ V \in SUBSET Topics  OBVIOUS
    <3>4. QED  BY <3>2, <3>3 DEF V
  <2>2. new \in UNION {[S -> [from : Nat, upto : Nat]] : S \in SUBSET Topics}  BY <1>5
  <2> HIDE DEF taken, own, next
  <2>3. QED  BY <1>6, <2>1, <2>2
<1>8. DOMAIN next \subseteq Nat
  <2>1. DOMAIN wire.waves \subseteq Nat  BY <1>1 DEF WireType
  <2> HIDE DEF next
  <2>2. QED  BY <1>4, <1>6, <2>1
<1> HIDE DEF next, own, older, taken
<1>9. /\ wire'.up = Tail(wire.up) /\ wire'.subs = (wire.subs \ m.removes) \union DOMAIN m.adds
      /\ DOMAIN wire' = DOMAIN wire
      /\ wire'.waves = IF DOMAIN m.adds = {} THEN wire.waves ELSE next
      /\ wire'.down = IF DOMAIN m.adds = {} THEN Append(wire.down, Ack(m.id)) ELSE wire.down
  BY <1>1, <1>2 DEF WireType
<1>10. WireType(wire')
  <2>1. wire'.down \in Seq(Frames)
    <3>1. wire.down \in Seq(Frames)  BY <1>1 DEF WireType
    <3> HIDE DEF m
    <3>2. Append(wire.down, Ack(m.id)) \in Seq(Frames)  BY <1>4, <3>1, FrameTypes
    <3>3. QED  BY <1>9, <3>1, <3>2
  <2> HIDE DEF m
  <2>2. wire'.up \in Seq(Mutates) /\ wire'.subs \subseteq Topics
    BY <1>1, <1>3, <1>4, <1>9 DEF WireType
  <2>3. DOMAIN wire'.waves \subseteq Nat
        /\ \A w \in DOMAIN wire'.waves :
             wire'.waves[w] \in UNION {[S -> [from : Nat, upto : Nat]] : S \in SUBSET Topics}
    BY <1>1, <1>7, <1>8, <1>9 DEF WireType
  <2>4. QED  BY <1>1, <1>9, <2>1, <2>2, <2>3 DEF WireType
<1>11. task.conn
  BY <1>1, <1>2 DEF Idle, Closed
<1>12. Idle(task', wire')  BY <1>1, <1>2, <1>11 DEF Idle
<1>13. Subscribing(task', wire')
  <2> DEFINE V == wire'
             Q == Pend(task, wire)
             R == Pend(task, V)
  <2>1. /\ wire.up \in Seq(Mutates) /\ task.outbox \in Seq(Mutates) /\ Q \in Seq(Mutates)
        /\ R \in Seq(Mutates)
    BY <1>1, <1>10, PendType
  <2>2. /\ Len(Q) = Len(R) + 1 /\ Q[1] = m /\ \A i \in 1..Len(R) : R[i] = Q[i + 1]
    <3> DEFINE p == wire.up
               o == task.outbox
    <3>1. p \in Seq(Mutates) /\ o \in Seq(Mutates) /\ p # << >>  BY <1>2, <2>1
    <3>2. Q = p \o o /\ R = Tail(p) \o o /\ m = Head(p)  BY <1>9 DEF Pend
    <3> HIDE DEF p, o, Q, R
    <3>3. Tail(p) \in Seq(Mutates) /\ Head(p) \in Mutates /\ p = <<Head(p)>> \o Tail(p)
          /\ <<Head(p)>> \in Seq(Mutates)
      BY <3>1, TailIs
    <3>4. (<<Head(p)>> \o Tail(p)) \o o = <<Head(p)>> \o (Tail(p) \o o)
      BY <3>1, <3>3, ConcatAssociative
    <3> DEFINE x == Head(p)
               s == Tail(p) \o o
    <3>5. Q = <<x>> \o s  BY <3>2, <3>3, <3>4
    <3>6. s \in Seq(Mutates) /\ x \in Mutates  BY <3>1, <3>3, Joined
    <3> HIDE DEF x, s
    <3>7. Len(<<x>>) = 1 /\ <<x>> \in Seq(Mutates) /\ <<x>>[1] = x  BY <3>6
    <3>8. /\ Len(Q) = 1 + Len(s) /\ Len(s) \in Nat
          /\ \A i \in 1..1 : Q[i] = <<x>>[i]
          /\ \A i \in 1..Len(s) : Q[1 + i] = s[i]
      BY <3>5, <3>6, <3>7, Joined
    <3>9. Q[1] = x  BY <3>7, <3>8
    <3>10. \A i \in 1..Len(s) : Q[i + 1] = s[i]  BY <3>8
    <3>11. QED  BY <3>2, <3>8, <3>9, <3>10 DEF x, s
  <2>3. V.subs = (wire.subs \ m.removes) \union DOMAIN m.adds  BY <1>9
  <2> HIDE DEF Q, R, V, m
  <2>4. Plain(Q) /\ Subs(task, wire)  BY <1>1, <1>11 DEF Subscribing, Q
  <2>5. /\ Plain(R)
        /\ \A t, k : Wanted(Q, wire.subs, t, k) => Wanted(R, V.subs, t, k)
        /\ \A t : Gone(Q, wire.subs, t) => Gone(R, V.subs, t)
    BY <2>1, <2>2, <2>3, <2>4, ServedFirst
  <2>6. Subscribing(task, V)
    BY <2>4, <2>5 DEF Subscribing, Subs, Q, R
  <2>7. QED  BY <1>2, <2>6 DEF V
<1>14. QED  BY <1>1, <1>2, <1>10, <1>12, <1>13, SubsLater DEF Sound, EnvType

LEMMA SubsStutter == ASSUME Calm, UNCHANGED vars PROVE SubsInv'
<1>1. task' = task /\ wire' = wire /\ log' = log /\ edge' = edge /\ env' = env  BY DEF vars
<1>2. QED  BY <1>1, SubsParts, SubsLater DEF EnvType

(* No wire dies and none is suspended: what starts with that cannot happen. *)
LEMMA SubsNever ==
  ASSUME Calm
  PROVE  /\ ~Suspend /\ ~ResumeCmd /\ ~DeferResume /\ ~Reconnect /\ ~DialFails
         /\ ~DialRefused /\ ~DialSuspended /\ ~WireDied
<1>1. /\ env.deaths \in Nat /\ env.resumes \in Nat /\ env.suspends \in Nat
      /\ MaxDeaths = 0 /\ MaxResumes = 0
  BY SubsParts DEF Calm, EnvType
<1>2. ~Suspend /\ ~ResumeCmd /\ ~DeferResume /\ ~DialSuspended
  BY <1>1 DEF Suspend, ResumeCmd, DeferResume, DialSuspended
<1>3. ~DialFails /\ ~DialRefused /\ ~WireDied
  BY <1>1 DEF DialFails, DialRefused, WireDied
<1>4. ~Reconnect
  BY SubsParts DEF Reconnect, Idle
<1>5. QED  BY <1>2, <1>3, <1>4

LEMMA SubsStep == ASSUME Calm, [Next]_vars PROVE SubsInv'
<1>1. CASE UNCHANGED vars  BY <1>1, SubsStutter
<1>2. CASE \E asks \in Asks : Lease(asks)  BY <1>2, SubsLease
<1>3. CASE \E l \in LeaseIds : Deref(l) \/ Wedge(l)  BY <1>3, SubsDeref, SubsWedge
<1>4. CASE Opened \/ WireEvent \/ FlushOutbox  BY <1>4, SubsOpened, SubsWireEvent, SubsFlush
<1>5. CASE \E t \in Topics : Publish(t) \/ ServerServe(t)  BY <1>5, SubsPublish, SubsServe
<1>6. CASE ServerMutate \/ ServerAck  BY <1>6, SubsMutate, SubsAck
<1>7. QED  BY <1>1, <1>2, <1>3, <1>4, <1>5, <1>6, SubsNever DEF Next

LEMMA SubsMatch == ASSUME SubsInv PROVE SubscriptionsMatch
<1> SUFFICES ASSUME task.conn, NEW t \in Topics
             PROVE  Subscribed(t) <=> Holders(task, t) # {}
  BY DEF SubscriptionsMatch
<1> DEFINE Q == Pend(task, wire)
           about == {i \in DOMAIN Q : t \in DOMAIN Q[i].adds \union Q[i].removes}
<1>1. Subscribed(t) <=> IF about = {} THEN t \in wire.subs ELSE t \in DOMAIN Q[Max(about)].adds
  BY DEF Subscribed, Pend
<1>2. /\ Q \in Seq(Mutates) /\ Plain(Q) /\ task.removes = {}
      /\ \A l \in Holders(task, t) : Wanted(Q, wire.subs, t, l)
      /\ Holders(task, t) = {} => Gone(Q, wire.subs, t)
  BY PendType DEF SubsInv, TypeInv, Idle, Subscribing, Subs
<1> HIDE DEF Q
<1>3. DOMAIN Q = 1..Len(Q) /\ Len(Q) \in Nat  BY <1>2
<1>4. CASE about = {}
  <2>1. \A i \in 1..Len(Q) : t \notin DOMAIN Q[i].adds /\ t \notin Q[i].removes  BY <1>3, <1>4
  <2> HIDE DEF about
  <2>2. Holders(task, t) # {} => t \in wire.subs  BY <1>2, <2>1 DEF Wanted
  <2>3. Holders(task, t) = {} => t \notin wire.subs  BY <1>2, <2>1 DEF Gone
  <2>4. QED  BY <1>1, <1>4, <2>2, <2>3
<1>5. CASE about # {}
  <2> DEFINE m == Max(about)
  <2>1. m \in about /\ \A i \in about : i <= m
    <3>1. about \subseteq 0..Len(Q)  BY <1>3
    <3> HIDE DEF about
    <3>2. QED  BY <1>3, <1>5, <3>1, MaxIn
  <2> HIDE DEF m
  <2>2. /\ m \in 1..Len(Q) /\ t \in DOMAIN Q[m].adds \union Q[m].removes
        /\ \A i \in 1..Len(Q) : t \in DOMAIN Q[i].adds \union Q[i].removes => i = m \/ i < m
    BY <1>3, <2>1
  <2> HIDE DEF about
  <2>3. Holders(task, t) # {} => t \in DOMAIN Q[m].adds
    <3>1. SUFFICES ASSUME NEW l, Wanted(Q, wire.subs, t, l) PROVE t \in DOMAIN Q[m].adds
      BY <1>2
    <3>2. QED  BY <2>2, <3>1 DEF Wanted
  <2>4. Gone(Q, wire.subs, t) => t \notin DOMAIN Q[m].adds
    BY <1>2, <2>2 DEF Gone, Plain
  <2>5. QED  BY <1>1, <1>2, <1>5, <2>3, <2>4 DEF m
<1>6. QED  BY <1>4, <1>5

(* The server serves what is leased: once the Mutates under way arrive, no *)
(* topic is subscribed for nobody, and no holder's topic is left out, as   *)
(* long as the first wire lives.                                           *)
THEOREM ServesWhatIsLeased ==
  ASSUME BidiAssumption, MaxDeaths = 0, MaxResumes = 0
  PROVE  Spec => []SubscriptionsMatch
<1>1. Init => SubsInv  BY SubsInit
<1>2. SubsInv /\ [Next]_vars => SubsInv'  BY SubsStep DEF Calm
<1>3. SubsInv => SubscriptionsMatch  BY SubsMatch
<1>4. QED  BY <1>1, <1>2, <1>3, PTL DEF Spec
=============================================================================
