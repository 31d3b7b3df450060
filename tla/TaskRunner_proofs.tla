------------------------- MODULE TaskRunner_proofs -------------------------
(***************************************************************************)
(* No deadline is lost and no request to leave forgotten while its task    *)
(* may run; and, as long as the worker and the application do not rotate   *)
(* the key package at the same time, no package is swept that others may   *)
(* still use.                                                              *)
(***************************************************************************)
EXTENDS TaskRunner, WellFoundedInduction, TLAPS

-----------------------------------------------------------------------------
(* The inductive invariant *)

Seeded == {Rotation, Deletion}

IsPayload(p) ==
  \/ p \in Seeded \cup {SelfRemove}
  \/ p[1] = "pullin" /\ p[2] \in Seeded /\ p[3] \in Nat /\ p = PullIn(p[2], p[3])

Row == [next : Nat, attempts : Nat, expires : Nat \cup {Null}]

Labels ==
  {"idle", "rotation", "record", "upload", "mark", "reset", "nudge", "read", "write",
   "deletion", "purge", "park", "pullin", "finish",
   "selfremove", "remove", "check", "clear"}

(* Only the task of leave requests expires, and the two seeded tasks are   *)
(* always there.                                                           *)
TableOK(t) ==
  /\ Seeded \subseteq DOMAIN t
  /\ \A p \in DOMAIN t : /\ IsPayload(p) /\ t[p] \in Row
                         /\ p # SelfRemove => t[p].expires = Null

TypeInv ==
  /\ now \in Nat /\ column \in Nat \cup {Null} /\ network \in Nat /\ keys \subseteq Nat
  /\ DOMAIN history \subseteq Nat
  /\ \A id \in DOMAIN history : history[id] \in Nat \cup {Null}
  /\ TableOK(rows)
  /\ at \in [Actors -> Labels] /\ kp \in [Actors -> Nat]
  /\ at["app"] \in {"idle", "record", "upload", "mark", "reset", "nudge"}
  /\ IsPayload(job.row)
  /\ job \in [row : {job.row}, mine : BOOLEAN, since : Nat, next : Nat \cup {Null},
              ids : SUBSET Nat, who : SUBSET Leavers]
  /\ pending \subseteq Leavers /\ members \subseteq Leavers /\ owed \subseteq Leavers
  /\ fetched \subseteq [kp : Nat, at : Nat]
  /\ used \in [packages : Nat, events : Nat, faults : Nat]

(* What the worker is at tells which row it has in hand; the row is there, *)
(* and it is the worker's own unless a leave request has replaced it.      *)
JobInv ==
  LET w == at["worker"]
  IN /\ w \in {"rotation", "record", "upload", "mark", "reset", "nudge", "read"} =>
          job.row = Rotation
     /\ w \in {"deletion", "purge", "park"} => job.row = Deletion
     /\ w \in {"selfremove", "remove", "check", "clear"} => job.row = SelfRemove
     /\ w = "write" => job.row \in Seeded /\ job.next \in Nat
     /\ w = "pullin" => job.row[1] = "pullin"
     /\ w = "finish" => job.row = SelfRemove \/ job.row[1] = "pullin"
     /\ w # "idle" => job.row \in DOMAIN rows /\ job.since <= now
     /\ w # "idle" /\ job.row # SelfRemove => job.mine

(* A nudge stays until the deadline it is for has been lowered. *)
PulledIn(p, d) == \E q \in DOMAIN rows : q[1] = "pullin" /\ q[2] = p /\ q[3] <= d

Applied ==
  at["worker"] = "finish" /\ job.row[1] = "pullin" =>
    rows[job.row[2]].next <= job.row[3]

(* When the rotation is due; a database without the column waits at most   *)
(* one interval.                                                           *)
RotationDue == IF column = Null THEN now + Interval ELSE column

RotationInv ==
  /\ OnTime(Rotation, RotationDue)
  /\ at["worker"] = "write" /\ job.row = Rotation =>
       job.next <= RotationDue \/ PulledIn(Rotation, RotationDue)

Marked == MarkedForDeletion(history)
AboutToNudge == \E a \in Actors : at[a] \in {"reset", "nudge"}

DeletionInv ==
  Marked # {} /\ ~AboutToNudge =>
    /\ OnTime(Deletion, Min(Marked))
    /\ at["worker"] = "write" /\ job.row = Deletion =>
         job.next <= Min(Marked) \/ PulledIn(Deletion, Min(Marked))

ScheduleInv == Applied /\ RotationInv /\ DeletionInv

(* Those who have a task of their own and are still waiting. *)
Waiting == owed \cap pending \cap members

LeaveInv ==
  /\ owed \cap members \subseteq pending
  /\ Waiting # {} => SelfRemove \in DOMAIN rows
  /\ job.row = SelfRemove /\ job.mine =>
       /\ at["worker"] = "remove" => Waiting \subseteq job.who
       /\ at["worker"] \in {"check", "clear", "finish"} => Waiting = {}

(* The packages: one rotation at a time is between the generation of a     *)
(* package and the marking of those it supersedes.                         *)
Rotating(a) == at[a] \in {"record", "upload", "mark"}

StageOK(a) ==
  /\ at[a] = "record" =>
       kp[a] = used.packages /\ kp[a] \in keys /\ kp[a] \notin DOMAIN history
  /\ at[a] = "upload" =>
       /\ kp[a] = used.packages /\ kp[a] \in keys
       /\ kp[a] \in DOMAIN history /\ history[kp[a]] = Null
  /\ at[a] = "mark" => kp[a] = network

(* Marks are on the packages before the current one, the oldest first.     *)
HistoryInv ==
  /\ network \in keys /\ network \in DOMAIN history
  /\ \A id \in keys \cup DOMAIN history : id <= used.packages
  /\ \A id \in DOMAIN history : history[id] # Null =>
       /\ id < network /\ history[id] <= now + Grace
       /\ \A old \in DOMAIN history : old < id =>
            history[old] # Null /\ history[old] <= history[id]

SweptInv ==
  at["worker"] = "purge" =>
    \A e \in job.ids : e < network /\ \A id \in keys \cap DOMAIN history : e < id

FetchedInv ==
  \A f \in fetched :
    /\ f.at <= now /\ f.kp <= network
    /\ IF f.kp \in keys
       THEN /\ f.kp \in DOMAIN history
            /\ history[f.kp] = Null \/ f.at + Grace <= history[f.kp]
       ELSE f.at + Grace <= now

PackageInv ==
  /\ ~(Rotating("worker") /\ Rotating("app"))
  /\ \A a \in Actors : StageOK(a)
  /\ HistoryInv /\ SweptInv /\ FetchedInv

-----------------------------------------------------------------------------
(* Payloads, tables, earliest deadlines *)

LEMMA Constants ==
  /\ Interval \in Nat \ {0} /\ Debounce \in Nat \ {0} /\ Grace \in Nat \ {0}
  /\ Backoff \in Nat \ {0} /\ Lifetime \in Nat /\ MaxAttempts \in Nat
  /\ Null \notin Nat
BY TaskAssumption DEF Null

LEMMA Payloads ==
  ASSUME NEW p, IsPayload(p)
  PROVE  /\ p[1] \in {"rotation", "deletion", "selfremove", "pullin"}
         /\ p[1] = "rotation" <=> p = Rotation
         /\ p[1] = "deletion" <=> p = Deletion
         /\ p[1] = "selfremove" <=> p = SelfRemove
         /\ p[1] = "pullin" => p[2] \in Seeded /\ p[3] \in Nat
         /\ Rotation # Deletion /\ Rotation # SelfRemove /\ Deletion # SelfRemove
<1>1. /\ Rotation[1] = "rotation" /\ Deletion[1] = "deletion"
      /\ SelfRemove[1] = "selfremove"
  BY DEF Rotation, Deletion, SelfRemove
<1>2. QED  BY <1>1 DEF IsPayload, Seeded

LEMMA Nudges ==
  ASSUME NEW p \in Seeded, NEW d \in Nat
  PROVE  LET q == PullIn(p, d)
         IN /\ IsPayload(q) /\ q[1] = "pullin" /\ q[2] = p /\ q[3] = d
            /\ q \notin Seeded \cup {SelfRemove}
<1>1. PICK q : q = PullIn(p, d)  OBVIOUS
<1>2. q[1] = "pullin" /\ q[2] = p /\ q[3] = d  BY <1>1 DEF PullIn
<1>3. /\ Rotation[1] = "rotation" /\ Deletion[1] = "deletion"
      /\ SelfRemove[1] = "selfremove"
  BY DEF Rotation, Deletion, SelfRemove
<1>4. q \notin Seeded \cup {SelfRemove}  BY <1>2, <1>3 DEF Seeded
<1>5. IsPayload(q)  BY <1>1, <1>2 DEF IsPayload
<1>6. QED  BY <1>1, <1>2, <1>4, <1>5

LEMMA Earliest ==
  ASSUME NEW S, S \subseteq Nat, S # {}
  PROVE  Min(S) \in S /\ \A n \in S : Min(S) <= n
<1> DEFINE R == {ss \in Nat \X Nat : ss[1] < ss[2]}
<1>1. IsWellFoundedOn(R, Nat)
  <2>1. R = OpToRel(<, Nat)  BY DEF OpToRel
  <2>2. IsWellFoundedOn(OpToRel(<, Nat), Nat)  BY NatLessThanWellFounded
  <2>3. QED  BY <2>1, <2>2
<1>2. \E m \in S : \A n \in S : ~(<<n, m>> \in R)
  <2> HIDE DEF R
  <2>1. QED  BY <1>1, WFMin
<1>3. \E m \in S : \A n \in S : m <= n
  <2>1. \A m, n \in S : n < m => <<n, m>> \in R  OBVIOUS
  <2>2. PICK m \in S : \A n \in S : ~(<<n, m>> \in R)  BY <1>2
  <2>3. \A n \in S : m \in Nat /\ n \in Nat /\ ~(n < m)  BY <2>1, <2>2
  <2>4. \A n \in S : m <= n  BY <2>3
  <2>5. QED  BY <2>4
<1>4. QED  BY <1>3 DEF Min

LEMMA Removed ==
  ASSUME NEW t, NEW p
  PROVE  LET u == Without(t, p)
         IN DOMAIN u = DOMAIN t \ {p} /\ \A q \in DOMAIN u : u[q] = t[q]
BY DEF Without, Restrict

(***************************************************************************)
(* What inserts do to a table: nothing is taken away and no deadline put   *)
(* off, but for a dead row of the task of leave requests.                  *)
(***************************************************************************)
Adds(t, u) ==
  /\ DOMAIN t \subseteq DOMAIN u
  /\ \A p \in DOMAIN t \ {SelfRemove} : u[p] = t[p]

LEMMA InsertAdds ==
  ASSUME NEW t, TableOK(t), NEW p, IsPayload(p), NEW r \in Row,
         p # SelfRemove => r.expires = Null
  PROVE  LET u == InsertOrIgnore(t, p, r)
         IN TableOK(u) /\ Adds(t, u) /\ p \in DOMAIN u
<1>0. PICK u : u = InsertOrIgnore(t, p, r)  OBVIOUS
<1>1. /\ DOMAIN u = DOMAIN t \cup {p}
      /\ \A q \in DOMAIN t : u[q] = t[q]
      /\ p \notin DOMAIN t => u[p] = r
  BY <1>0 DEF InsertOrIgnore, With
<1>2. ASSUME NEW q \in DOMAIN u
      PROVE  /\ IsPayload(q) /\ u[q] \in Row
             /\ q # SelfRemove => u[q].expires = Null
  <2>1. CASE q \in DOMAIN t  BY <1>1, <2>1 DEF TableOK
  <2>2. CASE q \notin DOMAIN t
    <3>1. q = p /\ u[q] = r  BY <1>1, <2>2
    <3>2. QED  BY <3>1
  <2>3. QED  BY <2>1, <2>2
<1>3. TableOK(u)  BY <1>1, <1>2 DEF TableOK
<1>4. Adds(t, u) /\ p \in DOMAIN u  BY <1>1 DEF Adds
<1>5. QED  BY <1>0, <1>3, <1>4

LEMMA SeedRow ==
  ASSUME NEW d \in Nat
  PROVE  Seed(d) \in Row /\ Seed(d).expires = Null /\ Seed(d).next = d
BY DEF Seed, Row

LEMMA EnqueueAdds ==
  ASSUME NEW t, TableOK(t), NEW p \in Seeded, NEW d \in Nat, now \in Nat
  PROVE  LET u == EnqueuePullIn(t, p, d)
         IN TableOK(u) /\ Adds(t, u) /\ PullIn(p, d) \in DOMAIN u
<1>1. IsPayload(PullIn(p, d))  BY Nudges
<1>2. Seed(now) \in Row /\ Seed(now).expires = Null  BY SeedRow
<1>3. QED  BY <1>1, <1>2, InsertAdds DEF EnqueuePullIn

LEMMA SeedAdds ==
  ASSUME NEW t, TableOK(t), NEW p \in Seeded, now \in Nat
  PROVE  LET u == InsertOrIgnore(t, p, Seed(now)) IN TableOK(u) /\ Adds(t, u)
<1>1. IsPayload(p)  BY DEF IsPayload
<1>2. Seed(now) \in Row /\ Seed(now).expires = Null  BY SeedRow
<1>3. QED  BY <1>1, <1>2, InsertAdds

LEMMA AddsTransitive ==
  ASSUME NEW t, NEW u, NEW v, Adds(t, u), Adds(u, v)
  PROVE  Adds(t, v)
BY DEF Adds

LEMMA UpsertAdds ==
  ASSUME NEW t, TableOK(t), now \in Nat
  PROVE  LET u == Upsert(t)
         IN TableOK(u) /\ Adds(t, u) /\ SelfRemove \in DOMAIN u
<1>1. PICK swept : swept = IF SelfRemove \in DOMAIN t /\ ~Alive(t[SelfRemove])
                           THEN Without(t, SelfRemove) ELSE t
  OBVIOUS
<1>2. /\ DOMAIN t \ {SelfRemove} \subseteq DOMAIN swept
      /\ DOMAIN swept \subseteq DOMAIN t
      /\ \A p \in DOMAIN swept : swept[p] = t[p]
  BY <1>1, Removed
<1>3. SelfRemove \notin Seeded
  <2>1. IsPayload(Rotation)  BY DEF IsPayload, Seeded
  <2>2. QED  BY <2>1, Payloads DEF Seeded
<1>4. TableOK(swept)  BY <1>2, <1>3 DEF TableOK
<1>5. PICK r : r = [next |-> now, attempts |-> 0, expires |-> now + Lifetime]
  OBVIOUS
<1>6. r \in Row  BY <1>5, Constants DEF Row
<1>7. IsPayload(SelfRemove)  BY DEF IsPayload
<1>8. PICK u : u = InsertOrIgnore(swept, SelfRemove, r)  OBVIOUS
<1>9. TableOK(u) /\ Adds(swept, u) /\ SelfRemove \in DOMAIN u
  BY <1>4, <1>6, <1>7, <1>8, InsertAdds
<1>10. Adds(t, u)  BY <1>2, <1>9 DEF Adds
<1>11. Upsert(t) = u  BY <1>1, <1>5, <1>8 DEF Upsert
<1>12. QED  BY <1>9, <1>10, <1>11
LEMMA MarksAreTimes ==
  ASSUME TypeInv
  PROVE  /\ Marked \subseteq Nat
         /\ Marked # {} => Min(Marked) \in Nat /\ \A d \in Marked : Min(Marked) <= d
<1>1. Marked \subseteq Nat  BY DEF TypeInv, Marked, MarkedForDeletion, Range
<1>2. QED  BY <1>1, Earliest

(* What the builder does to the table *)
LEMMA ReconciledAdds ==
  ASSUME TypeInv
  PROVE  LET u == Reconciled(rows)
         IN /\ TableOK(u) /\ Adds(rows, u)
            /\ column # Null => PullIn(Rotation, column) \in DOMAIN u
            /\ Marked # {} => PullIn(Deletion, Min(Marked)) \in DOMAIN u
<1>0. now \in Nat /\ TableOK(rows) /\ column \in Nat \cup {Null}  BY DEF TypeInv
<1>n. Rotation \in Seeded /\ Deletion \in Seeded  BY DEF Seeded
<1>1. PICK s1 : s1 = InsertOrIgnore(rows, Rotation, Seed(now))  OBVIOUS
<1>2. TableOK(s1) /\ Adds(rows, s1)  BY <1>0, <1>1, <1>n, SeedAdds
<1>3. PICK s2 : s2 = InsertOrIgnore(s1, Deletion, Seed(now))  OBVIOUS
<1>4. TableOK(s2) /\ Adds(s1, s2)  BY <1>0, <1>2, <1>3, <1>n, SeedAdds
<1>5. Adds(rows, s2)  BY <1>2, <1>4, AddsTransitive
<1>6. PICK s3 : s3 = IF column = Null THEN s2 ELSE EnqueuePullIn(s2, Rotation, column)
  OBVIOUS
<1>7. /\ TableOK(s3) /\ Adds(s2, s3)
      /\ column # Null => PullIn(Rotation, column) \in DOMAIN s3
  <2>1. CASE column = Null  BY <1>4, <1>6, <2>1 DEF Adds
  <2>2. CASE column # Null  BY <1>0, <1>4, <1>6, <1>n, <2>2, EnqueueAdds
  <2>3. QED  BY <2>1, <2>2
<1>8. Adds(rows, s3)  BY <1>5, <1>7, AddsTransitive
<1>9. PICK s4 : s4 = IF Marked = {} THEN s3
                     ELSE EnqueuePullIn(s3, Deletion, Min(Marked))
  OBVIOUS
<1>10. /\ TableOK(s4) /\ Adds(s3, s4)
       /\ Marked # {} => PullIn(Deletion, Min(Marked)) \in DOMAIN s4
  <2>1. CASE Marked = {}  BY <1>7, <1>9, <2>1 DEF Adds
  <2>2. CASE Marked # {}
    BY <1>0, <1>7, <1>9, <1>n, <2>2, EnqueueAdds, MarksAreTimes
  <2>3. QED  BY <2>1, <2>2
<1>11. Adds(rows, s4)  BY <1>8, <1>10, AddsTransitive
<1>12. PICK s5 : s5 = IF flag THEN Upsert(s4) ELSE s4  OBVIOUS
<1>13. TableOK(s5) /\ Adds(s4, s5)
  <2>1. CASE flag  BY <1>0, <1>10, <1>12, <2>1, UpsertAdds
  <2>2. CASE ~flag  BY <1>10, <1>12, <2>2 DEF Adds
  <2>3. QED  BY <2>1, <2>2
<1>14. Adds(rows, s5)  BY <1>11, <1>13, AddsTransitive
<1>15. /\ column # Null => PullIn(Rotation, column) \in DOMAIN s5
       /\ Marked # {} => PullIn(Deletion, Min(Marked)) \in DOMAIN s5
  BY <1>7, <1>10, <1>13 DEF Adds
<1>16. Reconciled(rows) = s5
  BY <1>1, <1>3, <1>6, <1>9, <1>12 DEF Reconciled, Marked
<1>17. QED  BY <1>13, <1>14, <1>15, <1>16

-----------------------------------------------------------------------------
(* What the worker does to the row it has in hand *)

LEMMA RowSet ==
  ASSUME NEW t, TableOK(t), NEW p \in DOMAIN t, NEW r \in Row,
         r.expires = t[p].expires
  PROVE  LET u == [t EXCEPT ![p] = r]
         IN /\ TableOK(u) /\ DOMAIN u = DOMAIN t /\ u[p] = r
            /\ \A q \in DOMAIN t \ {p} : u[q] = t[q]
BY DEF TableOK

LEMMA Rescheduled ==
  ASSUME TypeInv, JobInv, at["worker"] # "idle", NEW d \in Nat, RescheduleAt(d)
  PROVE  /\ TableOK(rows') /\ DOMAIN rows' = DOMAIN rows
         /\ \A q \in DOMAIN rows \ {job.row} : rows'[q] = rows[q]
         /\ job.mine => rows'[job.row].next = d
         /\ ~job.mine => rows' = rows
<1>1. job.row \in DOMAIN rows /\ TableOK(rows)  BY DEF JobInv, TypeInv
<1>2. CASE job.mine
  <2>1. PICK old \in Row : old = rows[job.row]  BY <1>1 DEF TableOK
  <2>2. PICK r \in Row : r = [old EXCEPT !.next = d, !.attempts = 0]  BY DEF Row
  <2>3. r.next = d /\ r.expires = old.expires  BY <2>2 DEF Row
  <2>4. rows' = [rows EXCEPT ![job.row] = r]
    BY <1>1, <1>2, <2>1, <2>2 DEF RescheduleAt
  <2>5. PICK t : t = rows'  OBVIOUS
  <2>6. /\ TableOK(t) /\ DOMAIN t = DOMAIN rows /\ t[job.row] = r
        /\ \A q \in DOMAIN rows \ {job.row} : t[q] = rows[q]
    BY <1>1, <2>1, <2>3, <2>4, <2>5, RowSet
  <2>7. QED  BY <1>2, <2>3, <2>5, <2>6
<1>3. CASE ~job.mine  BY <1>1, <1>3 DEF RescheduleAt
<1>4. QED  BY <1>2, <1>3

LEMMA Retried ==
  ASSUME TypeInv, JobInv, at["worker"] # "idle", RetryLater
  PROVE  /\ TableOK(rows') /\ DOMAIN rows' = DOMAIN rows
         /\ \A q \in DOMAIN rows \ {job.row} : rows'[q] = rows[q]
         /\ job.mine => rows'[job.row].next <= now + Backoff
         /\ ~job.mine => rows' = rows
<1>1. job.row \in DOMAIN rows /\ TableOK(rows)  BY DEF JobInv, TypeInv
<1>2. CASE job.mine
  <2>1. PICK old \in Row : old = rows[job.row]  BY <1>1 DEF TableOK
  <2>2. PICK d \in Nat : d = job.since + Backoff  BY Constants DEF TypeInv
  <2>3. PICK n \in Nat : n = IF old.expires = Null THEN 0 ELSE old.attempts + 1
    BY DEF Row
  <2>4. PICK r \in Row : r = [old EXCEPT !.next = d, !.attempts = n]  BY DEF Row
  <2>5. r.next = d /\ r.expires = old.expires  BY <2>4 DEF Row
  <2>6. rows' = [rows EXCEPT ![job.row] = r]
    BY <1>1, <1>2, <2>1, <2>2, <2>3, <2>4 DEF RetryLater
  <2>7. PICK t : t = rows'  OBVIOUS
  <2>8. /\ TableOK(t) /\ DOMAIN t = DOMAIN rows /\ t[job.row] = r
        /\ \A q \in DOMAIN rows \ {job.row} : t[q] = rows[q]
    BY <1>1, <2>1, <2>5, <2>6, <2>7, RowSet
  <2>9. d <= now + Backoff  BY <2>2, Constants DEF JobInv, TypeInv
  <2>10. QED  BY <1>2, <2>5, <2>7, <2>8, <2>9
<1>3. CASE ~job.mine  BY <1>1, <1>3 DEF RetryLater
<1>4. QED  BY <1>2, <1>3

LEMMA Finished ==
  ASSUME TypeInv, JobInv, Finish
  PROVE  /\ TableOK(rows')
         /\ \A q \in DOMAIN rows' : rows'[q] = rows[q]
         /\ DOMAIN rows' = DOMAIN rows \ (IF job.mine THEN {job.row} ELSE {})
         /\ job.row = SelfRemove \/ job.row[1] = "pullin"
         /\ job.row \notin Seeded
<1>1. TableOK(rows) /\ IsPayload(job.row)  BY DEF TypeInv
<1>2. job.row = SelfRemove \/ job.row[1] = "pullin"  BY DEF JobInv, Finish
<1>3. job.row \notin Seeded  BY <1>1, <1>2, Payloads DEF Seeded
<1>4. PICK t : t = rows'  OBVIOUS
<1>5. t = IF job.mine THEN Without(rows, job.row) ELSE rows
  BY <1>4 DEF Finish, Done
<1>6. /\ DOMAIN t = DOMAIN rows \ (IF job.mine THEN {job.row} ELSE {})
      /\ \A q \in DOMAIN t : t[q] = rows[q]
  <2>1. CASE job.mine
    <3>1. PICK u : u = Without(rows, job.row)  OBVIOUS
    <3>2. DOMAIN u = DOMAIN rows \ {job.row} /\ \A q \in DOMAIN u : u[q] = rows[q]
      BY <3>1, Removed
    <3>3. t = u  BY <1>5, <2>1, <3>1
    <3>4. QED  BY <2>1, <3>2, <3>3
  <2>2. CASE ~job.mine
    <3>1. t = rows  BY <1>5, <2>2
    <3>2. QED  BY <2>2, <3>1
  <2>3. QED  BY <2>1, <2>2
<1>7. TableOK(t)  BY <1>1, <1>3, <1>6 DEF TableOK
<1>8. QED  BY <1>2, <1>3, <1>4, <1>6, <1>7

-----------------------------------------------------------------------------
(* Types, and what the worker has in hand *)

TaskInv == TypeInv /\ JobInv

(* Steps that keep the rows of the table and the row in hand *)
LEMMA KeepsTask ==
  ASSUME TaskInv, NEW a \in Actors, NEW l \in Labels,
         at' = [at EXCEPT ![a] = l], DOMAIN rows \subseteq DOMAIN rows',
         job'.row = job.row, job'.mine = job.mine, job'.since = job.since,
         now' \in Nat, now <= now', TypeInv',
         a # "worker" => job' = job,
         a = "worker" =>
           /\ at["worker"] # "idle"
           /\ job.row = Rotation => l \in {"rotation", "record", "upload", "mark",
                                           "reset", "nudge", "read", "write"}
           /\ job.row = Deletion => l \in {"deletion", "purge", "park", "write"}
           /\ job.row = SelfRemove => l \in {"selfremove", "remove", "check",
                                             "clear", "finish"}
           /\ job.row[1] = "pullin" => l \in {"pullin", "finish"}
           /\ l = "write" => job'.next \in Nat
  PROVE  TaskInv'
<1>1. IsPayload(job.row)  BY DEF TaskInv, TypeInv
<1>2. CASE a = "worker"
  <2>1. at'["worker"] = l  BY <1>2 DEF TaskInv, TypeInv
  <2>2. job'.since <= now'  BY <1>2 DEF TaskInv, TypeInv, JobInv
  <2>3. job.row = SelfRemove \/ job'.mine  BY <1>2 DEF TaskInv, JobInv
  <2>4. job.row \in DOMAIN rows'  BY <1>2 DEF TaskInv, JobInv
  <2>5. l = "write" => job.row \in Seeded
    BY <1>1, <1>2, Payloads DEF Seeded, IsPayload
  <2>6. JobInv'
    BY <1>1, <1>2, <2>1, <2>2, <2>3, <2>4, <2>5, Payloads DEF JobInv
  <2>7. QED  BY <2>6 DEF TaskInv
<1>3. CASE a # "worker"
  <2>1. at'["worker"] = at["worker"]  BY <1>3 DEF TaskInv, TypeInv, Actors
  <2>2. at["worker"] # "idle" => job.since <= now' /\ job.row \in DOMAIN rows'
    BY DEF TaskInv, TypeInv, JobInv
  <2>3. JobInv'  BY <1>3, <2>1, <2>2 DEF TaskInv, JobInv
  <2>4. QED  BY <2>3 DEF TaskInv
<1>4. QED  BY <1>2, <1>3

LEMMA PackageStepTask ==
  ASSUME TaskInv, NEW a \in Actors,
         Record(a) \/ Uploaded(a) \/ MarkSuperseded(a) \/ ResetQueue(a)
  PROVE  TaskInv'
<1> USE DEF TaskInv
<1>1. PICK l \in {"upload", "mark", "reset", "nudge"} : at' = [at EXCEPT ![a] = l]
  BY DEF Record, Uploaded, MarkSuperseded, ResetQueue, Goto
<1>2. /\ UNCHANGED <<now, rows, job, keys, kp, pending, members, owed, fetched, used>>
      /\ at[a] \in {"record", "upload", "mark", "reset"}
  BY DEF Record, Uploaded, MarkSuperseded, ResetQueue, leaveVars
<1>3. /\ at' \in [Actors -> Labels]
      /\ at'["app"] \in {"idle", "record", "upload", "mark", "reset", "nudge"}
  BY <1>1 DEF TypeInv, Labels, Actors
<1>4. /\ column' \in Nat \cup {Null} /\ network' \in Nat
      /\ DOMAIN history' \subseteq Nat
      /\ \A id \in DOMAIN history' : history'[id] \in Nat \cup {Null}
  <2>1. CASE Record(a)  BY <2>1 DEF Record, With, TypeInv
  <2>2. CASE Uploaded(a)  BY <2>2 DEF Uploaded, TypeInv
  <2>3. CASE MarkSuperseded(a)  BY <2>3, Constants DEF MarkSuperseded, TypeInv
  <2>4. CASE ResetQueue(a)  BY <2>4, Constants DEF ResetQueue, TypeInv
  <2>5. QED  BY <2>1, <2>2, <2>3, <2>4
<1>5. PICK t : t = rows'  OBVIOUS
<1>6. TableOK(t)  BY <1>2, <1>5 DEF TypeInv
<1>7. TypeInv'  BY <1>2, <1>3, <1>4, <1>5, <1>6 DEF TypeInv
<1>8. a = "worker" => job.row = Rotation /\ at["worker"] # "idle"
  BY <1>2 DEF JobInv
<1>9. l \in Labels /\ now' \in Nat /\ now <= now'
  BY <1>2 DEF Labels, TypeInv
<1>10. IsPayload(Rotation)  BY DEF IsPayload, Seeded
<1>11. QED  BY <1>1, <1>2, <1>7, <1>8, <1>9, <1>10, KeepsTask, Payloads

LEMMA StartTask ==
  ASSUME TaskInv, StartRotation \/ AppRotates
  PROVE  TaskInv'
<1> USE DEF TaskInv
<1>1. PICK a \in Actors, l \in {"record", "nudge"} :
        /\ at' = [at EXCEPT ![a] = l]
        /\ a = "worker" => at["worker"] = "rotation"
        /\ a # "worker" => l = "record"
        /\ \/ Generate(a) /\ l = "record"
           \/ UNCHANGED <<keys, kp, used>>
  BY DEF StartRotation, AppRotates, Generate, Goto, Actors
<1>2. UNCHANGED <<now, rows, job, column, history, network, pending, members, owed,
                  fetched>>
  BY DEF StartRotation, AppRotates, leaveVars
<1>3. /\ at' \in [Actors -> Labels]
      /\ at'["app"] \in {"idle", "record", "upload", "mark", "reset", "nudge"}
  BY <1>1 DEF TypeInv, Labels, Actors
<1>4. /\ keys' \subseteq Nat /\ kp' \in [Actors -> Nat]
      /\ used' \in [packages : Nat, events : Nat, faults : Nat]
  <2>1. CASE Generate(a)
    <3>1. /\ used.packages \in Nat /\ used.events \in Nat
          /\ used \in [packages : Nat, events : Nat, faults : Nat]
      BY DEF TypeInv
    <3>2. PICK id \in Nat : id = used.packages + 1  BY <3>1
    <3>3. PICK e \in Nat : e = used.events + IF a = "app" THEN 1 ELSE 0  BY <3>1
    <3>4. /\ used' = [used EXCEPT !.packages = id, !.events = e]
          /\ keys' = keys \cup {id} /\ kp' = [kp EXCEPT ![a] = id]
      BY <2>1, <3>2, <3>3 DEF Generate
    <3>5. QED  BY <3>1, <3>4 DEF TypeInv
  <2>2. CASE UNCHANGED <<keys, kp, used>>  BY <2>2 DEF TypeInv
  <2>3. QED  BY <1>1, <2>1, <2>2
<1>5. PICK t : t = rows'  OBVIOUS
<1>6. TableOK(t)  BY <1>2, <1>5 DEF TypeInv
<1>7. TypeInv'  BY <1>2, <1>3, <1>4, <1>5, <1>6 DEF TypeInv
<1>8. a = "worker" => job.row = Rotation /\ at["worker"] # "idle"
  BY <1>1 DEF JobInv
<1>9. l \in Labels /\ now' \in Nat /\ now <= now'
  BY <1>2 DEF Labels, TypeInv
<1>10. IsPayload(Rotation)  BY DEF IsPayload, Seeded
<1>11. QED  BY <1>1, <1>2, <1>7, <1>8, <1>9, <1>10, KeepsTask, Payloads

(* Steps that insert rows *)
LEMMA NudgeAdds ==
  ASSUME TaskInv, NEW a \in Actors, NudgeDeletion(a)
  PROVE  /\ TableOK(rows') /\ Adds(rows, rows')
         /\ Marked # {} => PullIn(Deletion, Min(Marked)) \in DOMAIN rows'
<1>0. now \in Nat /\ TableOK(rows) /\ Deletion \in Seeded
  BY DEF TaskInv, TypeInv, Seeded
<1>1. PICK t : t = rows'  OBVIOUS
<1>2. CASE Marked = {}
  <2>1. t = rows  BY <1>1, <1>2 DEF NudgeDeletion, Marked
  <2>2. QED  BY <1>0, <1>1, <1>2, <2>1 DEF Adds
<1>3. CASE Marked # {}
  <2>1. PICK s : s = InsertOrIgnore(rows, Deletion, Seed(now))  OBVIOUS
  <2>2. TableOK(s) /\ Adds(rows, s)  BY <1>0, <2>1, SeedAdds
  <2>3. t = EnqueuePullIn(s, Deletion, Min(Marked))
    BY <1>1, <1>3, <2>1 DEF NudgeDeletion, Marked
  <2>4. Min(Marked) \in Nat  BY <1>3, MarksAreTimes DEF TaskInv
  <2>5. TableOK(t) /\ Adds(s, t) /\ PullIn(Deletion, Min(Marked)) \in DOMAIN t
    BY <1>0, <2>2, <2>3, <2>4, EnqueueAdds
  <2>6. Adds(rows, t)  BY <2>2, <2>5, AddsTransitive
  <2>7. QED  BY <1>1, <2>5, <2>6
<1>4. QED  BY <1>2, <1>3

LEMMA QueueAdds ==
  ASSUME TaskInv, QueueRotation
  PROVE  /\ TableOK(rows') /\ Adds(rows, rows')
         /\ PullIn(Rotation, column') \in DOMAIN rows' /\ column' \in Nat
<1>0. now \in Nat /\ TableOK(rows) /\ Rotation \in Seeded
  BY DEF TaskInv, TypeInv, Seeded
<1>1. PICK c \in Nat : c = column'
  BY <1>0, Constants DEF QueueRotation, TaskInv, TypeInv
<1>2. PICK t : t = rows'  OBVIOUS
<1>3. PICK s : s = InsertOrIgnore(rows, Rotation, Seed(now))  OBVIOUS
<1>4. TableOK(s) /\ Adds(rows, s)  BY <1>0, <1>3, SeedAdds
<1>5. t = EnqueuePullIn(s, Rotation, c)
  BY <1>1, <1>2, <1>3 DEF QueueRotation
<1>6. TableOK(t) /\ Adds(s, t) /\ PullIn(Rotation, c) \in DOMAIN t
  BY <1>0, <1>4, <1>5, EnqueueAdds
<1>7. Adds(rows, t)  BY <1>4, <1>6, AddsTransitive
<1>8. QED  BY <1>1, <1>2, <1>6, <1>7

LEMMA LeaveAdds ==
  ASSUME TaskInv, NEW m \in Leavers, LeaveRequest(m)
  PROVE  TableOK(rows') /\ Adds(rows, rows') /\ SelfRemove \in DOMAIN rows'
<1>1. PICK t : t = rows'  OBVIOUS
<1>2. t = Upsert(rows)  BY <1>1 DEF LeaveRequest
<1>3. QED  BY <1>1, <1>2, UpsertAdds DEF TaskInv, TypeInv

LEMMA RestartAdds ==
  ASSUME TaskInv, Restart
  PROVE  /\ TableOK(rows') /\ Adds(rows, rows')
         /\ column # Null => PullIn(Rotation, column) \in DOMAIN rows'
         /\ Marked # {} => PullIn(Deletion, Min(Marked)) \in DOMAIN rows'
<1>1. PICK t : t = rows'  OBVIOUS
<1>2. t = Reconciled(rows)  BY <1>1 DEF Restart
<1>3. QED  BY <1>1, <1>2, ReconciledAdds DEF TaskInv

LEMMA InsertTask ==
  ASSUME TaskInv,
         \/ \E a \in Actors : NudgeDeletion(a)
         \/ QueueRotation \/ Restart \/ \E m \in Leavers : LeaveRequest(m)
  PROVE  TaskInv'
<1> USE DEF TaskInv
<1>1. CASE \E a \in Actors : NudgeDeletion(a)
  <2>1. PICK a \in Actors : NudgeDeletion(a)  BY <1>1
  <2>2. PICK l \in {"read", "idle"} :
          /\ at' = [at EXCEPT ![a] = l]
          /\ a = "worker" => at["worker"] = "nudge" /\ l = "read"
          /\ a # "worker" => l = "idle"
    BY <2>1 DEF NudgeDeletion, Goto
  <2>3. UNCHANGED <<now, job, column, history, network, keys, kp, pending, members,
                    owed, fetched, used>>
    BY <2>1 DEF NudgeDeletion, packageVars, leaveVars
  <2>4. /\ at' \in [Actors -> Labels]
        /\ at'["app"] \in {"idle", "record", "upload", "mark", "reset", "nudge"}
    BY <2>2 DEF TypeInv, Labels, Actors
  <2>5. TableOK(rows') /\ DOMAIN rows \subseteq DOMAIN rows'
    BY <2>1, NudgeAdds DEF Adds
  <2>6. TypeInv'  BY <2>3, <2>4, <2>5 DEF TypeInv
  <2>7. a = "worker" => job.row = Rotation /\ at["worker"] # "idle"
    BY <2>2 DEF JobInv
  <2>8. l \in Labels /\ now' \in Nat /\ now <= now'
    BY <2>3 DEF Labels, TypeInv
  <2>9. IsPayload(Rotation)  BY DEF IsPayload, Seeded
  <2>10. QED  BY <2>2, <2>3, <2>5, <2>6, <2>7, <2>8, <2>9, KeepsTask, Payloads
<1>2. CASE QueueRotation
  <2>1. UNCHANGED <<now, at, job, history, network, keys, kp, pending, members, owed,
                    fetched>>
    BY <1>2 DEF QueueRotation, leaveVars
  <2>2. used' \in [packages : Nat, events : Nat, faults : Nat]
    BY <1>2 DEF QueueRotation, Event, TypeInv
  <2>3. TableOK(rows') /\ DOMAIN rows \subseteq DOMAIN rows' /\ column' \in Nat
    BY <1>2, QueueAdds DEF Adds
  <2>4. TypeInv'  BY <2>1, <2>2, <2>3 DEF TypeInv
  <2>5. JobInv'  BY <2>1, <2>3 DEF JobInv
  <2>6. QED  BY <2>4, <2>5
<1>3. CASE Restart
  <2>1. UNCHANGED <<now, column, history, network, keys, kp, pending, members, owed,
                    fetched>>
    BY <1>3 DEF Restart, packageVars, leaveVars
  <2>2. used' \in [packages : Nat, events : Nat, faults : Nat]
    BY <1>3 DEF Restart, Fault, TypeInv
  <2>3. TableOK(rows')  BY <1>3, RestartAdds
  <2>4. /\ at' \in [Actors -> Labels] /\ \A a \in Actors : at'[a] = "idle"
        /\ job' = Idle
    BY <1>3 DEF Restart, Labels
  <2>5. /\ IsPayload(Idle.row)
        /\ Idle \in [row : {Idle.row}, mine : BOOLEAN, since : Nat,
                     next : Nat \cup {Null}, ids : SUBSET Nat, who : SUBSET Leavers]
    BY DEF Idle, IsPayload, Seeded
  <2>6. TypeInv'  BY <2>1, <2>2, <2>3, <2>4, <2>5 DEF TypeInv, Actors
  <2>7. JobInv'  BY <2>4 DEF JobInv, Actors
  <2>8. QED  BY <2>6, <2>7
<1>4. CASE \E m \in Leavers : LeaveRequest(m)
  <2>1. PICK m \in Leavers : LeaveRequest(m)  BY <1>4
  <2>2. /\ UNCHANGED <<now, at, column, history, network, keys, kp, members, fetched>>
        /\ pending' \subseteq Leavers /\ owed' \subseteq Leavers
    BY <2>1 DEF LeaveRequest, packageVars, TypeInv
  <2>3. used' \in [packages : Nat, events : Nat, faults : Nat]
    BY <2>1 DEF LeaveRequest, Event, TypeInv
  <2>4. TableOK(rows') /\ DOMAIN rows \subseteq DOMAIN rows'
    BY <2>1, LeaveAdds DEF Adds
  <2>5. /\ job'.row = job.row /\ job'.since = job.since /\ job'.next = job.next
        /\ job.row # SelfRemove => job'.mine = job.mine
        /\ job' \in [row : {job.row}, mine : BOOLEAN, since : Nat,
                     next : Nat \cup {Null}, ids : SUBSET Nat, who : SUBSET Leavers]
    BY <2>1 DEF LeaveRequest, TypeInv
  <2>6. TypeInv'  BY <2>2, <2>3, <2>4, <2>5 DEF TypeInv
  <2>7. JobInv'  BY <2>2, <2>4, <2>5 DEF JobInv
  <2>8. QED  BY <2>6, <2>7
<1>5. QED  BY <1>1, <1>2, <1>3, <1>4

(* Steps of the worker's tasks that leave the table alone *)
LEMMA HandTask ==
  ASSUME TaskInv,
         \/ ReadDeadline \/ SweepKeys \/ PurgeHistory \/ ParkDeletion
         \/ ListPending \/ RemovePending \/ CheckList \/ ClearFlag
  PROVE  TaskInv'
<1> USE DEF TaskInv
<1>1. PICK l \in {"write", "purge", "park", "check", "remove", "clear", "finish"} :
        /\ at' = [at EXCEPT !["worker"] = l]
        /\ \/ at["worker"] = "read" /\ l = "write"
           \/ at["worker"] = "deletion" /\ l = "purge"
           \/ at["worker"] = "purge" /\ l = "park"
           \/ at["worker"] = "park" /\ l = "write"
           \/ /\ at["worker"] \in {"selfremove", "remove", "check", "clear"}
              /\ l \in {"check", "remove", "clear", "finish"}
        /\ l = "write" => ReadDeadline \/ ParkDeletion
  BY DEF ReadDeadline, SweepKeys, PurgeHistory, ParkDeletion, ListPending,
         RemovePending, CheckList, ClearFlag, Goto
<1>2. UNCHANGED <<now, rows, column, network, kp, owed, fetched, used>>
  BY DEF ReadDeadline, SweepKeys, PurgeHistory, ParkDeletion, ListPending,
         RemovePending, CheckList, ClearFlag, packageVars, leaveVars
<1>3. keys' \subseteq Nat /\ pending' \subseteq Leavers /\ members' \subseteq Leavers
  BY DEF ReadDeadline, SweepKeys, PurgeHistory, ParkDeletion, ListPending,
         RemovePending, CheckList, ClearFlag, packageVars, leaveVars, TypeInv
<1>4. /\ DOMAIN history' \subseteq DOMAIN history
      /\ \A id \in DOMAIN history' : history'[id] = history[id]
  <2>1. CASE PurgeHistory  BY <2>1 DEF PurgeHistory, Restrict
  <2>2. CASE ~PurgeHistory
    BY <2>2 DEF ReadDeadline, SweepKeys, ParkDeletion, ListPending,
                RemovePending, CheckList, ClearFlag, packageVars, leaveVars
  <2>3. QED  BY <2>1, <2>2
<1>5. /\ job' \in [row : {job.row}, mine : BOOLEAN, since : Nat,
                   next : Nat \cup {Null}, ids : SUBSET Nat, who : SUBSET Leavers]
      /\ job'.row = job.row /\ job'.mine = job.mine /\ job'.since = job.since
      /\ ReadDeadline \/ ParkDeletion => job'.next \in Nat
  <2>j. job \in [row : {job.row}, mine : BOOLEAN, since : Nat, next : Nat \cup {Null},
                 ids : SUBSET Nat, who : SUBSET Leavers]
    BY DEF TypeInv
  <2>1. CASE ReadDeadline
    <3>1. PICK d \in Nat : d = NextRotation
      BY <2>j, Constants DEF NextRotation, TypeInv
    <3>2. job' = [job EXCEPT !.next = d]  BY <2>1, <3>1 DEF ReadDeadline
    <3>3. QED  BY <2>j, <3>2
  <2>2. CASE ParkDeletion
    <3>1. PICK d \in Nat : d = NextDeletion
      BY Constants, MarksAreTimes DEF NextDeletion, Marked, TypeInv
    <3>2. job' = [job EXCEPT !.next = d]  BY <2>2, <3>1 DEF ParkDeletion
    <3>3. QED  BY <2>j, <3>2
  <2>3. CASE SweepKeys
    <3>1. PICK ids \in SUBSET Nat : ids = Expired  BY DEF Expired, TypeInv
    <3>2. job' = [job EXCEPT !.ids = ids]  BY <2>3, <3>1 DEF SweepKeys
    <3>3. ~ReadDeadline /\ ~ParkDeletion
      BY <2>3 DEF SweepKeys, ReadDeadline, ParkDeletion
    <3>4. QED  BY <2>j, <3>2, <3>3
  <2>4. CASE ListPending
    <3>1. PICK who \in SUBSET Leavers : who = pending \cap members  BY DEF TypeInv
    <3>2. job' = [job EXCEPT !.who = who]  BY <2>4, <3>1 DEF ListPending
    <3>3. ~ReadDeadline /\ ~ParkDeletion
      BY <2>4 DEF ListPending, ReadDeadline, ParkDeletion
    <3>4. QED  BY <2>j, <3>2, <3>3
  <2>5. CASE PurgeHistory \/ RemovePending \/ CheckList \/ ClearFlag
    <3>1. job' = job
      BY <2>5 DEF PurgeHistory, RemovePending, CheckList, ClearFlag
    <3>2. ~ReadDeadline /\ ~ParkDeletion
      BY <2>5 DEF PurgeHistory, RemovePending, CheckList, ClearFlag, ReadDeadline,
                  ParkDeletion
    <3>3. QED  BY <2>j, <3>1, <3>2
  <2>6. QED  BY <2>1, <2>2, <2>3, <2>4, <2>5
<1>6. /\ at' \in [Actors -> Labels]
      /\ at'["app"] \in {"idle", "record", "upload", "mark", "reset", "nudge"}
  BY <1>1 DEF TypeInv, Labels, Actors
<1>7. /\ DOMAIN history' \subseteq Nat
      /\ \A id \in DOMAIN history' : history'[id] \in Nat \cup {Null}
  BY <1>4 DEF TypeInv
<1>8. PICK t : t = rows'  OBVIOUS
<1>9. TableOK(t)  BY <1>2, <1>8 DEF TypeInv
<1>10. PICK j : j = job'  OBVIOUS
<1>11. /\ IsPayload(j.row)
       /\ j \in [row : {j.row}, mine : BOOLEAN, since : Nat,
                 next : Nat \cup {Null}, ids : SUBSET Nat, who : SUBSET Leavers]
  BY <1>5, <1>10 DEF TypeInv
<1>12. TypeInv'
  BY <1>2, <1>3, <1>6, <1>7, <1>8, <1>9, <1>10, <1>11 DEF TypeInv
<1>13. /\ at["worker"] # "idle" /\ l \in Labels /\ now' \in Nat /\ now <= now'
       /\ "worker" \in Actors
  BY <1>1, <1>2 DEF Labels, TypeInv, Actors
<1>14. /\ at["worker"] = "read" => job.row = Rotation
       /\ at["worker"] \in {"deletion", "purge", "park"} => job.row = Deletion
       /\ at["worker"] \in {"selfremove", "remove", "check", "clear"} =>
            job.row = SelfRemove
  BY DEF JobInv
<1>15. IsPayload(Rotation) /\ IsPayload(Deletion) /\ IsPayload(SelfRemove)
  BY DEF IsPayload, Seeded
<1>16. /\ job.row = Rotation => l = "write"
       /\ job.row = Deletion => l \in {"purge", "park", "write"}
       /\ job.row = SelfRemove => l \in {"remove", "check", "clear", "finish"}
       /\ job.row[1] # "pullin"
       /\ l = "write" => job'.next \in Nat
  BY <1>1, <1>5, <1>14, <1>15, Payloads
<1>17. QED  BY <1>1, <1>2, <1>5, <1>12, <1>13, <1>16, KeepsTask

(* The worker takes a task up: the one row it may throw away is that of    *)
(* leave requests.                                                         *)
LEMMA Picked ==
  ASSUME TaskInv, Pick
  PROVE  \/ /\ SelfRemove \in DOMAIN rows /\ owed' = {}
            /\ TableOK(rows') /\ DOMAIN rows' = DOMAIN rows \ {SelfRemove}
            /\ \A p \in DOMAIN rows' : rows'[p] = rows[p]
            /\ UNCHANGED <<at, job>>
         \/ /\ UNCHANGED <<rows, owed>>
            /\ \E p \in DOMAIN rows :
                 /\ IsPayload(p) /\ p[1] \in Labels
                 /\ at' = [at EXCEPT !["worker"] = p[1]]
                 /\ job' = [Idle EXCEPT !.row = p, !.mine = TRUE, !.since = now]
<1> USE DEF TaskInv
<1>1. PICK p \in DOMAIN rows :
        IF ~Alive(rows[p])
        THEN /\ rows' = Without(rows, p)
             /\ owed' = IF p = SelfRemove THEN {} ELSE owed
             /\ UNCHANGED <<at, job>>
        ELSE /\ job' = [Idle EXCEPT !.row = p, !.mine = TRUE, !.since = now]
             /\ at' = [at EXCEPT !["worker"] = p[1]]
             /\ UNCHANGED <<rows, owed>>
  BY DEF Pick, Goto
<1>2. TableOK(rows) /\ IsPayload(p) /\ p[1] \in Labels
  BY Payloads DEF TypeInv, TableOK, Labels
<1>3. CASE ~Alive(rows[p])
  <2>1. p = SelfRemove  BY <1>2, <1>3 DEF Alive, TableOK
  <2>2. PICK t : t = rows'  OBVIOUS
  <2>3. t = Without(rows, SelfRemove)  BY <1>1, <1>3, <2>1, <2>2
  <2>4. /\ DOMAIN t = DOMAIN rows \ {SelfRemove}
        /\ \A q \in DOMAIN t : t[q] = rows[q]
    BY <2>3, Removed
  <2>5. SelfRemove \notin Seeded  BY <1>2, <2>1, Payloads DEF Seeded
  <2>6. TableOK(t)  BY <1>2, <2>4, <2>5 DEF TableOK
  <2>7. QED  BY <1>1, <1>3, <2>1, <2>2, <2>4, <2>6
<1>4. CASE Alive(rows[p])  BY <1>1, <1>2, <1>4
<1>5. QED  BY <1>3, <1>4

LEMMA PickTask ==
  ASSUME TaskInv, Pick
  PROVE  TaskInv'
<1> USE DEF TaskInv
<1>1. /\ UNCHANGED <<now, column, history, network, keys, kp, pending, members,
                     fetched, used>>
      /\ at["worker"] = "idle"
  BY DEF Pick, packageVars
<1>2. CASE /\ SelfRemove \in DOMAIN rows /\ owed' = {}
           /\ TableOK(rows') /\ DOMAIN rows' = DOMAIN rows \ {SelfRemove}
           /\ \A p \in DOMAIN rows' : rows'[p] = rows[p]
           /\ UNCHANGED <<at, job>>
  <2>1. TypeInv'  BY <1>1, <1>2 DEF TypeInv
  <2>2. JobInv'  BY <1>1, <1>2 DEF JobInv
  <2>3. QED  BY <2>1, <2>2
<1>3. CASE /\ UNCHANGED <<rows, owed>>
           /\ \E p \in DOMAIN rows :
                 /\ IsPayload(p) /\ p[1] \in Labels
                 /\ at' = [at EXCEPT !["worker"] = p[1]]
                 /\ job' = [Idle EXCEPT !.row = p, !.mine = TRUE, !.since = now]
  <2>1. PICK p \in DOMAIN rows :
          /\ IsPayload(p) /\ p[1] \in Labels
          /\ at' = [at EXCEPT !["worker"] = p[1]]
          /\ job' = [Idle EXCEPT !.row = p, !.mine = TRUE, !.since = now]
    BY <1>3
  <2>2. PICK j : j = job'  OBVIOUS
  <2>3. /\ j.row = p /\ j.mine = TRUE /\ j.since = now
        /\ j \in [row : {j.row}, mine : BOOLEAN, since : Nat,
                  next : Nat \cup {Null}, ids : SUBSET Nat, who : SUBSET Leavers]
    BY <2>1, <2>2 DEF Idle, TypeInv
  <2>4. /\ at' \in [Actors -> Labels] /\ at'["worker"] = p[1]
        /\ at'["app"] \in {"idle", "record", "upload", "mark", "reset", "nudge"}
    BY <2>1 DEF TypeInv, Actors
  <2>5. PICK t : t = rows'  OBVIOUS
  <2>6. TableOK(t) /\ p \in DOMAIN t  BY <1>3, <2>5 DEF TypeInv
  <2>7. TypeInv'  BY <1>1, <1>3, <2>1, <2>2, <2>3, <2>4, <2>5, <2>6 DEF TypeInv
  <2>8. p[1] \in {"rotation", "deletion", "selfremove", "pullin"}
    BY <2>1, Payloads
  <2>9. now \in Nat  BY DEF TypeInv
  <2>10. JobInv'
    BY <1>1, <2>1, <2>2, <2>3, <2>4, <2>5, <2>6, <2>8, <2>9, Payloads DEF JobInv
  <2>11. QED  BY <2>7, <2>10
<1>4. QED  BY <1>2, <1>3, Picked

(* A nudge that is carried out lowers the deadline it is for. *)
LEMMA Lowered ==
  ASSUME TaskInv, ApplyPullIn
  PROVE  /\ TableOK(rows') /\ DOMAIN rows' = DOMAIN rows
         /\ \A q \in DOMAIN rows : rows'[q].next <= rows[q].next
         /\ job.row[2] \in Seeded /\ rows'[job.row[2]].next <= job.row[3]
<1> USE DEF TaskInv
<1>1. job.row[1] = "pullin" /\ IsPayload(job.row)
  BY DEF ApplyPullIn, JobInv, TypeInv
<1>2. PICK p \in Seeded, d \in Nat : p = job.row[2] /\ d = job.row[3]
  BY <1>1, Payloads
<1>3. TableOK(rows) /\ p \in DOMAIN rows  BY DEF TypeInv, TableOK
<1>4. PICK old \in Row : old = rows[p]  BY <1>3 DEF TableOK
<1>5. PICK m \in Nat : m = Min({old.next, d}) /\ m <= old.next /\ m <= d
  <2>1. {old.next, d} \subseteq Nat  BY DEF Row
  <2>2. QED  BY <2>1, Earliest
<1>6. PICK r \in Row : r = [old EXCEPT !.next = m]  BY DEF Row
<1>7. r.next = m /\ r.expires = old.expires  BY <1>6 DEF Row
<1>8. PICK t : t = rows'  OBVIOUS
<1>9. t = [rows EXCEPT ![p] = r]
  BY <1>2, <1>3, <1>4, <1>5, <1>6, <1>8 DEF ApplyPullIn
<1>10. /\ TableOK(t) /\ DOMAIN t = DOMAIN rows /\ t[p] = r
       /\ \A q \in DOMAIN rows \ {p} : t[q] = rows[q]
  BY <1>3, <1>4, <1>7, <1>9, RowSet
<1>11. \A q \in DOMAIN rows : rows[q].next \in Nat  BY <1>3 DEF TableOK, Row
<1>12. \A q \in DOMAIN rows : t[q].next <= rows[q].next
  BY <1>4, <1>5, <1>7, <1>10, <1>11
<1>13. QED  BY <1>2, <1>5, <1>7, <1>8, <1>10, <1>12

(* The worker ends a task, or puts it off. *)
LEMMA EndTask ==
  ASSUME TaskInv, Finish \/ Reschedule \/ UploadFails("worker") \/ RemoveFails
  PROVE  TaskInv'
<1> USE DEF TaskInv
<1>1. /\ UNCHANGED <<now, column, history, keys, kp, pending, members, owed, fetched>>
      /\ at' = [at EXCEPT !["worker"] = "idle"] /\ job' = Idle
      /\ at["worker"] # "idle"
  BY DEF Finish, Reschedule, UploadFails, RemoveFails, Goto, packageVars, leaveVars
<1>2. used' \in [packages : Nat, events : Nat, faults : Nat]
  BY DEF Finish, Reschedule, UploadFails, RemoveFails, Fault, TypeInv
<1>3. network' \in Nat
  BY DEF Finish, Reschedule, UploadFails, RemoveFails, packageVars, TypeInv, Actors
<1>4. TableOK(rows')
  <2>1. CASE Finish  BY <2>1, Finished
  <2>2. CASE Reschedule
    <3>1. RescheduleAt(job.next) /\ job.next \in Nat
      BY <2>2 DEF Reschedule, JobInv
    <3>2. QED  BY <1>1, <3>1, Rescheduled
  <2>3. CASE UploadFails("worker") \/ RemoveFails
    BY <1>1, <2>3, Retried DEF UploadFails, RemoveFails
  <2>4. QED  BY <2>1, <2>2, <2>3
<1>5. /\ at' \in [Actors -> Labels] /\ at'["worker"] = "idle"
      /\ at'["app"] \in {"idle", "record", "upload", "mark", "reset", "nudge"}
  BY <1>1 DEF TypeInv, Labels, Actors
<1>6. PICK j : j = job'  OBVIOUS
<1>7. /\ IsPayload(j.row)
      /\ j \in [row : {j.row}, mine : BOOLEAN, since : Nat,
                next : Nat \cup {Null}, ids : SUBSET Nat, who : SUBSET Leavers]
  BY <1>1, <1>6 DEF Idle, IsPayload, Seeded
<1>8. TypeInv'  BY <1>1, <1>2, <1>3, <1>4, <1>5, <1>6, <1>7 DEF TypeInv
<1>9. JobInv'  BY <1>5 DEF JobInv
<1>10. QED  BY <1>8, <1>9

LEMMA OtherTask ==
  ASSUME TaskInv,
         \/ ApplyPullIn \/ Tick \/ Fetch \/ UploadFails("app")
         \/ \E m \in Leavers : OtherAdminRemoves(m)
  PROVE  TaskInv'
<1> USE DEF TaskInv
<1>1. /\ UNCHANGED <<job, column, history, keys, kp, owed>>
      /\ now' \in {now, now + 1} /\ now \in Nat
      /\ pending' \subseteq Leavers /\ members' \subseteq Leavers
  BY DEF ApplyPullIn, Tick, Fetch, UploadFails, OtherAdminRemoves, packageVars,
         leaveVars, TypeInv
<1>2. PICK a \in Actors, l \in Labels :
        /\ at' = [at EXCEPT ![a] = l]
        /\ IF a = "worker" THEN ApplyPullIn /\ l = "finish" ELSE l \in {at["app"], "idle"}
  <2>1. CASE ApplyPullIn
    BY <2>1 DEF ApplyPullIn, Goto, Actors, Labels
  <2>2. CASE UploadFails("app")
    BY <2>2 DEF UploadFails, Goto, Actors, Labels
  <2>3. CASE Tick \/ Fetch \/ \E m \in Leavers : OtherAdminRemoves(m)
    <3>1. at' = at  BY <2>3 DEF Tick, Fetch, OtherAdminRemoves
    <3>2. at' = [at EXCEPT !["app"] = at["app"]] /\ at["app"] \in Labels
      BY <3>1 DEF TypeInv, Actors
    <3>3. QED  BY <3>2 DEF Actors
  <2>4. QED  BY <2>1, <2>2, <2>3
<1>3. /\ at' \in [Actors -> Labels]
      /\ at'["app"] \in {"idle", "record", "upload", "mark", "reset", "nudge"}
  BY <1>2 DEF TypeInv, Actors
<1>4. TableOK(rows') /\ DOMAIN rows' = DOMAIN rows
  <2>1. CASE ApplyPullIn  BY <2>1, Lowered
  <2>2. CASE ~ApplyPullIn
    <3>1. rows' = rows
      BY <2>2 DEF Tick, Fetch, UploadFails, OtherAdminRemoves
    <3>2. QED  BY <3>1 DEF TypeInv
  <2>3. QED  BY <2>1, <2>2
<1>5. /\ network' \in Nat /\ fetched' \subseteq [kp : Nat, at : Nat]
      /\ used' \in [packages : Nat, events : Nat, faults : Nat]
  BY DEF ApplyPullIn, Tick, Fetch, UploadFails, OtherAdminRemoves, packageVars,
         leaveVars, Event, Fault, TypeInv, Actors
<1>6. TypeInv'  BY <1>1, <1>3, <1>4, <1>5 DEF TypeInv
<1>7. /\ a = "worker" => job.row[1] = "pullin" /\ at["worker"] = "pullin" /\ l = "finish"
      /\ now' \in Nat /\ now <= now'
  BY <1>1, <1>2 DEF JobInv, ApplyPullIn
<1>8. /\ Rotation[1] # "pullin" /\ Deletion[1] # "pullin"
  BY Payloads DEF Rotation, Deletion
<1>9. QED  BY <1>1, <1>2, <1>4, <1>6, <1>7, <1>8, KeepsTask

LEMMA InitialTask ==
  ASSUME Init
  PROVE  TaskInv
<1>1. /\ now = 0 /\ column \in Nat \cup {Null} /\ keys = {1} /\ network = 1
      /\ history = [id \in {1} |-> Null]
      /\ at = [a \in Actors |-> "idle"] /\ kp = [a \in Actors |-> 0] /\ job = Idle
      /\ pending = {} /\ members = Leavers /\ owed = {} /\ fetched = {}
      /\ used = [packages |-> 1, events |-> 0, faults |-> 0]
  BY Constants DEF Init
<1>2. DOMAIN rows = Seeded /\ \A p \in Seeded : rows[p] = Seed(0)
  BY DEF Init, Seeded
<1>3. Seed(0) \in Row /\ Seed(0).expires = Null  BY SeedRow
<1>4. TableOK(rows)  BY <1>2, <1>3 DEF TableOK, IsPayload
<1>5. PICK j : j = job  OBVIOUS
<1>6. /\ IsPayload(j.row)
      /\ j \in [row : {j.row}, mine : BOOLEAN, since : Nat,
                next : Nat \cup {Null}, ids : SUBSET Nat, who : SUBSET Leavers]
  BY <1>1, <1>5 DEF Idle, IsPayload, Seeded
<1>7. TypeInv  BY <1>1, <1>4, <1>5, <1>6 DEF TypeInv, Labels, Actors
<1>8. JobInv  BY <1>1 DEF JobInv, Actors
<1>9. QED  BY <1>7, <1>8 DEF TaskInv

LEMMA TaskStep ==
  ASSUME TaskInv, [Next]_vars
  PROVE  TaskInv'
<1>1. ASSUME NEW a \in Actors, Record(a) \/ Uploaded(a) \/ MarkSuperseded(a)
                                \/ ResetQueue(a) \/ NudgeDeletion(a)
      PROVE  TaskInv'
  BY <1>1, PackageStepTask, InsertTask
<1>2. CASE WorkerStep
  BY <1>1, <1>2, PickTask, OtherTask, EndTask, StartTask, HandTask
  DEF WorkerStep, Actors
<1>3. CASE AppStep
  BY <1>1, <1>3, StartTask DEF AppStep, Actors
<1>4. CASE \E a \in Actors : UploadFails(a)
  BY <1>4, EndTask, OtherTask DEF Actors
<1>5. CASE Tick \/ QueueRotation \/ Fetch \/ Restart \/ RemoveFails
  BY <1>5, OtherTask, InsertTask, EndTask
<1>6. CASE \E m \in Leavers : LeaveRequest(m) \/ OtherAdminRemoves(m)
  BY <1>6, OtherTask, InsertTask
<1>7. CASE UNCHANGED vars
  <2>1. TypeInv'
    BY <1>7 DEF vars, TaskInv, TypeInv
  <2>2. JobInv'  BY <1>7 DEF vars, TaskInv, JobInv
  <2>3. QED  BY <2>1, <2>2 DEF TaskInv
<1>8. QED  BY <1>2, <1>3, <1>4, <1>5, <1>6, <1>7 DEF Next

LEMMA TaskInvariance == Spec => []TaskInv
BY InitialTask, TaskStep, PTL DEF Spec

-----------------------------------------------------------------------------
(* Deadlines *)

(* A step that takes no nudge away and puts no deadline off. *)
Keeps ==
  /\ DOMAIN rows \ {SelfRemove} \subseteq DOMAIN rows'
  /\ \A p \in DOMAIN rows \ {SelfRemove} : rows'[p].next <= rows[p].next

LEMMA AddsKeeps ==
  ASSUME TaskInv, Adds(rows, rows')
  PROVE  Keeps
<1>1. \A p \in DOMAIN rows : rows[p].next \in Nat
  BY DEF TaskInv, TypeInv, TableOK, Row
<1>2. QED  BY <1>1 DEF Adds, Keeps

LEMMA PulledInKept ==
  ASSUME TaskInv, Keeps, NEW p \in Seeded, NEW d \in Nat, NEW e \in Nat, d <= e,
         PulledIn(p, d)
  PROVE  PulledIn(p, e)'
<1>1. PICK q \in DOMAIN rows : q[1] = "pullin" /\ q[2] = p /\ q[3] <= d
  BY DEF PulledIn
<1>2. IsPayload(q)  BY DEF TaskInv, TypeInv, TableOK
<1>3. q # SelfRemove /\ q[3] \in Nat  BY <1>1, <1>2, Payloads
<1>4. q \in DOMAIN rows' /\ q[3] <= e  BY <1>1, <1>3 DEF Keeps
<1>5. QED  BY <1>1, <1>4 DEF PulledIn

LEMMA OnTimeKept ==
  ASSUME TaskInv, Keeps, now' \in Nat, now <= now',
         NEW p \in Seeded, NEW d \in Nat, NEW e \in Nat, d <= e, OnTime(p, d),
         TableOK(rows')
  PROVE  OnTime(p, e)'
<1>1. /\ p \in DOMAIN rows /\ p \in DOMAIN rows'
      /\ rows[p].next \in Nat /\ rows'[p].next \in Nat
      /\ now \in Nat /\ p # SelfRemove
  <2>1. p # SelfRemove
    <3>1. IsPayload(p)  BY DEF IsPayload
    <3>2. QED  BY <3>1, Payloads DEF Seeded
  <2>2. QED  BY <2>1 DEF TaskInv, TypeInv, TableOK, Row
<1>2. rows'[p].next <= rows[p].next  BY <1>1 DEF Keeps
<1>3. CASE rows[p].next <= d
  BY <1>1, <1>2, <1>3 DEF OnTime
<1>4. CASE rows[p].next <= now + Backoff
  BY <1>1, <1>2, <1>4, Constants DEF OnTime
<1>5. CASE PulledIn(p, d)
  BY <1>1, <1>5, PulledInKept DEF OnTime, PulledIn
<1>6. QED  BY <1>3, <1>4, <1>5 DEF OnTime, PulledIn

LEMMA NudgeIsOnTime ==
  ASSUME TaskInv', NEW p \in Seeded, NEW d \in Nat, PullIn(p, d) \in DOMAIN rows'
  PROVE  OnTime(p, d)' /\ PulledIn(p, d)'
<1>1. p \in DOMAIN rows'  BY DEF TaskInv, TypeInv, TableOK
<1>2. PICK q \in DOMAIN rows' : q[1] = "pullin" /\ q[2] = p /\ q[3] = d
  BY Nudges
<1>3. q[3] <= d  BY <1>2
<1>4. PulledIn(p, d)'  BY <1>2, <1>3 DEF PulledIn
<1>5. OnTime(p, d)'  BY <1>1, <1>2, <1>3 DEF OnTime
<1>6. QED  BY <1>4, <1>5

(***************************************************************************)
(* All steps but those that end a task keep the nudges and put no deadline *)
(* off, so that what is due stays on time, or they nudge anew.             *)
(***************************************************************************)
LEMMA KeepsSchedule ==
  ASSUME TaskInv, ScheduleInv, TaskInv', Keeps, now <= now', Applied',
         \/ RotationDue <= RotationDue'
         \/ PullIn(Rotation, RotationDue') \in DOMAIN rows',
         Marked' # {} /\ ~AboutToNudge' =>
           \/ Marked # {} /\ ~AboutToNudge /\ Min(Marked) <= Min(Marked')
           \/ PullIn(Deletion, Min(Marked')) \in DOMAIN rows',
         at'["worker"] = "write" =>
           \/ at["worker"] = "write" /\ job' = job
           \/ job'.row = Rotation /\ job'.next <= RotationDue'
           \/ job'.row = Deletion /\ (Marked' # {} => job'.next <= Min(Marked'))
  PROVE  ScheduleInv'
<1>0. /\ now' \in Nat /\ TableOK(rows)' /\ Rotation \in Seeded /\ Deletion \in Seeded
      /\ Rotation # Deletion
  <2>1. IsPayload(Rotation)  BY DEF IsPayload, Seeded
  <2>2. QED  BY <2>1, Payloads DEF TaskInv, TypeInv, Seeded
<1>t. TableOK(rows')  BY <1>0
<1>1. PICK d \in Nat, e \in Nat : d = RotationDue /\ e = RotationDue'
  BY Constants DEF TaskInv, TypeInv, RotationDue
<1>2. RotationInv'
  <2>1. OnTime(Rotation, d)
    BY <1>1 DEF ScheduleInv, RotationInv
  <2>2. CASE d <= e
    <3>1. OnTime(Rotation, e)'  BY <1>0, <1>1, <1>t, <2>1, <2>2, OnTimeKept
    <3>2. at'["worker"] = "write" /\ job'.row = Rotation =>
            job'.next <= e \/ PulledIn(Rotation, e)'
      <4>1. SUFFICES ASSUME at["worker"] = "write", job' = job, job'.row = Rotation
                     PROVE  job'.next <= e \/ PulledIn(Rotation, e)'
        BY <1>0, <1>1
      <4>2. job.next \in Nat  BY <4>1 DEF TaskInv, JobInv
      <4>3. job.next <= d \/ PulledIn(Rotation, d)
        BY <1>1, <4>1 DEF ScheduleInv, RotationInv
      <4>4. PulledIn(Rotation, d) => PulledIn(Rotation, e)'
        BY <1>0, <1>1, <2>2, PulledInKept
      <4>5. job.next <= d => job'.next <= e  BY <2>2, <4>1, <4>2
      <4>6. QED  BY <4>3, <4>4, <4>5
    <3>3. QED  BY <1>1, <3>1, <3>2 DEF RotationInv
  <2>3. CASE PullIn(Rotation, e) \in DOMAIN rows'
    <3>1. OnTime(Rotation, e)' /\ PulledIn(Rotation, e)'
      BY <1>0, <2>3, NudgeIsOnTime
    <3>2. QED  BY <1>1, <3>1 DEF RotationInv
  <2>4. QED  BY <1>1, <2>2, <2>3
<1>3. DeletionInv'
  <2>1. CASE Marked' = {} \/ AboutToNudge'  BY <2>1 DEF DeletionInv
  <2>2. CASE Marked' # {} /\ ~AboutToNudge'
    <3>1. Marked' \subseteq Nat
      BY DEF TaskInv, TypeInv, Marked, MarkedForDeletion, Range
    <3>2. PICK m \in Nat : m = Min(Marked')  BY <2>2, <3>1, Earliest
    <3>3. CASE PullIn(Deletion, m) \in DOMAIN rows'
      <4>1. OnTime(Deletion, m)' /\ PulledIn(Deletion, m)'
        BY <1>0, <3>3, NudgeIsOnTime
      <4>2. QED  BY <3>2, <4>1 DEF DeletionInv
    <3>4. CASE Marked # {} /\ ~AboutToNudge /\ Min(Marked) <= m
      <4>1. PICK k \in Nat : k = Min(Marked)  BY <3>4, MarksAreTimes DEF TaskInv
      <4>2. /\ OnTime(Deletion, k) /\ k <= m
            /\ at["worker"] = "write" /\ job.row = Deletion =>
                 job.next <= k \/ PulledIn(Deletion, k)
        BY <3>4, <4>1 DEF ScheduleInv, DeletionInv
      <4>3. OnTime(Deletion, m)'  BY <1>0, <1>t, <4>2, OnTimeKept
      <4>4. at'["worker"] = "write" /\ job'.row = Deletion =>
              job'.next <= m \/ PulledIn(Deletion, m)'
        <5>1. SUFFICES ASSUME at["worker"] = "write", job' = job,
                              job'.row = Deletion
                       PROVE  job'.next <= m \/ PulledIn(Deletion, m)'
          BY <1>0, <2>2, <3>2
        <5>2. job.next \in Nat  BY <5>1 DEF TaskInv, JobInv
        <5>3. PulledIn(Deletion, k) => PulledIn(Deletion, m)'
          BY <1>0, <4>2, PulledInKept
        <5>4. job.next <= k => job'.next <= m  BY <4>2, <5>1, <5>2
        <5>5. QED  BY <4>2, <5>1, <5>3, <5>4
      <4>5. QED  BY <3>2, <4>3, <4>4 DEF DeletionInv
    <3>5. QED  BY <2>2, <3>2, <3>3, <3>4
  <2>3. QED  BY <2>1, <2>2
<1>4. QED  BY <1>2, <1>3 DEF ScheduleInv

LEMMA AppliedKept ==
  ASSUME TaskInv, TaskInv', Keeps, Applied,
         \/ at'["worker"] # "finish"
         \/ at'["worker"] = at["worker"] /\ job'.row = job.row
  PROVE  Applied'
<1>1. SUFFICES ASSUME at["worker"] = "finish", job'.row = job.row,
                      job.row[1] = "pullin"
               PROVE  rows'[job.row[2]].next <= job.row[3]
  BY DEF Applied
<1>2. IsPayload(job.row) /\ TableOK(rows)  BY DEF TaskInv, TypeInv
<1>3. PICK p \in Seeded, d \in Nat : p = job.row[2] /\ d = job.row[3]
  BY <1>1, <1>2, Payloads
<1>4. IsPayload(p)  BY DEF IsPayload
<1>5. p \in DOMAIN rows \ {SelfRemove} /\ rows[p].next \in Nat
  BY <1>2, <1>4, Payloads DEF TableOK, Row, Seeded
<1>6. p \in DOMAIN rows' /\ rows'[p].next \in Nat
  BY <1>5 DEF Keeps, TaskInv, TypeInv, TableOK, Row
<1>7. rows[p].next <= d /\ rows'[p].next <= rows[p].next
  BY <1>1, <1>3, <1>5 DEF Applied, Keeps
<1>8. QED  BY <1>3, <1>5, <1>6, <1>7

(* Steps that ask for nothing new *)
LEMMA CalmSchedule ==
  ASSUME TaskInv, ScheduleInv, TaskInv', Keeps, now <= now', column' = column,
         Marked' \subseteq Marked,
         \A a \in Actors : at[a] \in {"reset", "nudge"} => at'[a] \in {"reset", "nudge"},
         at'["worker"] # "write" \/ (at'["worker"] = at["worker"] /\ job' = job),
         \/ at'["worker"] # "finish"
         \/ at'["worker"] = at["worker"] /\ job'.row = job.row
         \/ job'.row = SelfRemove
         \/ Applied'
  PROVE  ScheduleInv'
<1>1. Applied'
  <2>1. CASE job'.row = SelfRemove
    <3>1. SelfRemove[1] # "pullin"  BY DEF SelfRemove
    <3>2. QED  BY <2>1, <3>1 DEF Applied
  <2>2. QED  BY <2>1, AppliedKept DEF ScheduleInv
<1>2. RotationDue <= RotationDue'
  BY Constants DEF RotationDue, TaskInv, TypeInv
<1>3. Marked' # {} => Marked # {} /\ Min(Marked) <= Min(Marked')
  <2>1. Marked \subseteq Nat  BY MarksAreTimes DEF TaskInv
  <2>2. SUFFICES ASSUME Marked' # {} PROVE Marked # {} /\ Min(Marked) <= Min(Marked')
    OBVIOUS
  <2>3. Min(Marked') \in Marked  BY <2>1, <2>2, Earliest
  <2>4. QED  BY <2>1, <2>3, Earliest
<1>4. ~AboutToNudge' => ~AboutToNudge  BY DEF AboutToNudge
<1>5. QED  BY <1>1, <1>2, <1>3, <1>4, KeepsSchedule

LEMMA CalmSteps ==
  ASSUME TaskInv, ScheduleInv, TaskInv',
         \/ Tick \/ Pick \/ ApplyPullIn \/ StartRotation \/ AppRotates \/ Fetch
         \/ SweepKeys \/ PurgeHistory \/ ListPending \/ RemovePending \/ CheckList
         \/ ClearFlag \/ UploadFails("app")
         \/ \E a \in Actors : Record(a) \/ Uploaded(a)
         \/ \E m \in Leavers : LeaveRequest(m) \/ OtherAdminRemoves(m)
  PROVE  ScheduleInv'
<1>1. Keeps
  <2>0. \A p \in DOMAIN rows : rows[p].next \in Nat
    BY DEF TaskInv, TypeInv, TableOK, Row
  <2>1. CASE Pick
    <3>1. \/ rows' = rows
          \/ /\ DOMAIN rows' = DOMAIN rows \ {SelfRemove}
             /\ \A p \in DOMAIN rows' : rows'[p] = rows[p]
      BY <2>1, Picked
    <3>2. QED  BY <2>0, <3>1 DEF Keeps
  <2>2. CASE ApplyPullIn  BY <2>2, Lowered DEF Keeps
  <2>3. CASE \E m \in Leavers : LeaveRequest(m)  BY <2>3, LeaveAdds, AddsKeeps
  <2>4. CASE rows' = rows  BY <2>0, <2>4 DEF Keeps
  <2>5. CASE \/ Tick \/ Fetch \/ StartRotation \/ AppRotates \/ UploadFails("app")
             \/ \E a \in Actors : Record(a) \/ Uploaded(a)
             \/ \E m \in Leavers : OtherAdminRemoves(m)
    <3>1. rows' = rows
      BY <2>5 DEF Tick, StartRotation, AppRotates, Fetch, UploadFails, Record, Uploaded,
                  OtherAdminRemoves
    <3>2. QED  BY <2>4, <3>1
  <2>6. CASE SweepKeys \/ PurgeHistory \/ ListPending \/ RemovePending \/ CheckList \/ ClearFlag
    <3>1. rows' = rows
      BY <2>6 DEF SweepKeys, PurgeHistory, ListPending, RemovePending, CheckList, ClearFlag
    <3>2. QED  BY <2>4, <3>1
  <2>7. QED  BY <2>1, <2>2, <2>3, <2>5, <2>6
<1>2. now <= now' /\ column' = column
  <2>0. now \in Nat  BY DEF TaskInv, TypeInv
  <2>1. CASE Tick \/ Pick \/ Fetch \/ UploadFails("app")
    <3>1. CASE Tick  BY <2>0, <3>1 DEF Tick, packageVars
    <3>2. CASE Pick
      <4>1. UNCHANGED <<now, column>>  BY <3>2 DEF Pick, packageVars
      <4>2. QED  BY <2>0, <4>1
    <3>3. CASE Fetch  BY <2>0, <3>3 DEF Fetch, packageVars
    <3>4. CASE UploadFails("app")  BY <2>0, <3>4 DEF UploadFails
    <3>5. QED  BY <2>1, <3>1, <3>2, <3>3, <3>4
  <2>5. CASE StartRotation \/ AppRotates \/ \E a \in Actors : Record(a) \/ Uploaded(a)
    <3>1. UNCHANGED <<now, column>>
      BY <2>5 DEF StartRotation, AppRotates, Record, Uploaded
    <3>2. QED  BY <2>0, <3>1
  <2>2. CASE \/ ApplyPullIn \/ SweepKeys \/ PurgeHistory \/ ListPending \/ RemovePending
             \/ CheckList \/ ClearFlag
    BY <2>0, <2>2 DEF ApplyPullIn, SweepKeys, PurgeHistory, ListPending, RemovePending,
                      CheckList, ClearFlag, packageVars
  <2>3. CASE \E m \in Leavers : LeaveRequest(m) \/ OtherAdminRemoves(m)
    BY <2>0, <2>3 DEF LeaveRequest, OtherAdminRemoves, packageVars
  <2>6. QED  BY <2>1, <2>2, <2>3, <2>5
<1>3. Marked' \subseteq Marked
  <2>1. CASE \E a \in Actors : Record(a)
    BY <2>1 DEF Record, Marked, MarkedForDeletion, Range, With
  <2>2. CASE PurgeHistory
    BY <2>2 DEF PurgeHistory, Marked, MarkedForDeletion, Range, Restrict
  <2>3. CASE history' = history  BY <2>3 DEF Marked
  <2>4. QED
    BY <2>1, <2>2, <2>3
    DEF Tick, Pick, ApplyPullIn, StartRotation, AppRotates, Fetch, SweepKeys,
        ListPending, RemovePending, CheckList, ClearFlag, UploadFails, Uploaded,
        LeaveRequest, OtherAdminRemoves, packageVars
<1>4. CASE ApplyPullIn
  <2>1. /\ at' = [at EXCEPT !["worker"] = "finish"] /\ at["worker"] = "pullin"
        /\ job' = job
    BY <1>4 DEF ApplyPullIn, Goto
  <2>2. Applied'  BY <1>4, <2>1, Lowered DEF Applied
  <2>3. /\ at'["worker"] = "finish"
        /\ \A a \in Actors : at[a] \in {"reset", "nudge"} => at'[a] \in {"reset", "nudge"}
    BY <2>1 DEF TaskInv, TypeInv, Actors
  <2>4. QED  BY <1>1, <1>2, <1>3, <2>2, <2>3, CalmSchedule
<1>5. CASE Tick \/ Fetch \/ \E m \in Leavers : LeaveRequest(m) \/ OtherAdminRemoves(m)
  <2>1. at' = at /\ job'.row = job.row /\ (job' = job \/ job.row = SelfRemove)
    BY <1>5 DEF Tick, Fetch, LeaveRequest, OtherAdminRemoves, TaskInv, TypeInv
  <2>2. at["worker"] = "write" => job.row # SelfRemove
    BY Payloads DEF TaskInv, TypeInv, JobInv, Seeded
  <2>3. QED  BY <1>1, <1>2, <1>3, <2>1, <2>2, CalmSchedule
<1>6. CASE Pick
  <2>0. \A p \in DOMAIN rows : p[1] \in {"rotation", "deletion", "selfremove", "pullin"}
    BY Payloads DEF TaskInv, TypeInv, TableOK
  <2>a. at \in [Actors -> Labels] /\ at["worker"] = "idle"
    BY <1>6 DEF Pick, TaskInv, TypeInv
  <2>b. at' = at \/ \E p \in DOMAIN rows : at' = [at EXCEPT !["worker"] = p[1]]
    BY <1>6, Picked
  <2>1. /\ at'["worker"] \in {at["worker"], "rotation", "deletion", "selfremove", "pullin"}
        /\ at["worker"] = "idle" /\ at'["app"] = at["app"]
    BY <2>0, <2>a, <2>b DEF Actors
  <2>2. QED  BY <1>1, <1>2, <1>3, <2>1, CalmSchedule DEF Actors
<1>7. CASE \/ AppRotates \/ UploadFails("app") \/ Record("app") \/ Uploaded("app")
  <2>1. /\ at'["worker"] = at["worker"] /\ job' = job
        /\ at["app"] \notin {"reset", "nudge"}
    BY <1>7 DEF AppRotates, Generate, UploadFails, Record, Uploaded, Goto, TaskInv, TypeInv,
                Actors
  <2>2. QED  BY <1>1, <1>2, <1>3, <2>1, CalmSchedule DEF Actors
<1>8. CASE \/ StartRotation \/ SweepKeys \/ PurgeHistory \/ Record("worker")
           \/ Uploaded("worker")
  <2>1. PICK l \in {"record", "nudge", "purge", "park", "upload", "mark"} :
          at' = [at EXCEPT !["worker"] = l] /\ at["worker"] \notin {"reset", "nudge"}
    BY <1>8 DEF StartRotation, Generate, SweepKeys, PurgeHistory, Record, Uploaded, Goto
  <2>2. /\ at'["worker"] = l /\ at["worker"] \notin {"reset", "nudge"}
        /\ at'["app"] = at["app"]
    BY <2>1 DEF TaskInv, TypeInv, Actors
  <2>3. QED  BY <1>1, <1>2, <1>3, <2>2, CalmSchedule DEF Actors
<1>9. CASE ListPending \/ RemovePending \/ CheckList \/ ClearFlag
  <2>1. PICK l \in {"check", "remove", "clear", "finish"} :
          /\ at' = [at EXCEPT !["worker"] = l]
          /\ at["worker"] \in {"selfremove", "remove", "check", "clear"}
          /\ job'.row = job.row
    BY <1>9 DEF ListPending, RemovePending, CheckList, ClearFlag, Goto, TaskInv, TypeInv
  <2>2. /\ at'["worker"] = l /\ at["worker"] \notin {"reset", "nudge"}
        /\ at'["app"] = at["app"] /\ job'.row = SelfRemove
    BY <2>1 DEF TaskInv, TypeInv, JobInv, Actors
  <2>3. QED  BY <1>1, <1>2, <1>3, <2>1, <2>2, CalmSchedule DEF Actors
<1>10. QED  BY <1>4, <1>5, <1>6, <1>7, <1>8, <1>9 DEF Actors

(* Steps that ask for a rotation or a deletion, and the nudges that follow *)
LEMMA AskingSteps ==
  ASSUME TaskInv, ScheduleInv, TaskInv',
         \/ QueueRotation \/ Restart
         \/ \E a \in Actors : MarkSuperseded(a) \/ ResetQueue(a) \/ NudgeDeletion(a)
  PROVE  ScheduleInv'
<1>0. /\ now \in Nat /\ at \in [Actors -> Labels] /\ column \in Nat \cup {Null}
      /\ \A p \in DOMAIN rows : rows[p].next \in Nat
  BY DEF TaskInv, TypeInv, TableOK, Row
<1>1. ASSUME NEW a \in Actors, MarkSuperseded(a) \/ ResetQueue(a)
      PROVE  ScheduleInv'
  <2>1. /\ UNCHANGED <<now, rows, job>> /\ at[a] \in {"mark", "reset"}
        /\ \E l \in {"reset", "nudge"} : at' = [at EXCEPT ![a] = l]
    BY <1>1 DEF MarkSuperseded, ResetQueue, Goto
  <2>2. AboutToNudge'  BY <1>0, <2>1 DEF AboutToNudge
  <2>3. Keeps  BY <1>0, <2>1 DEF Keeps
  <2>4. at'["worker"] \in {at["worker"], "reset", "nudge"}
    BY <1>0, <2>1 DEF Actors
  <2>5. at'["worker"] # "finish" \/ at'["worker"] = at["worker"]  BY <2>4
  <2>6. Applied'  BY <2>1, <2>3, <2>5, AppliedKept DEF ScheduleInv
  <2>7. RotationDue <= RotationDue'
    <3>1. CASE MarkSuperseded(a)
      <4>1. UNCHANGED <<now, column>>  BY <3>1 DEF MarkSuperseded
      <4>2. QED  BY <1>0, <4>1, Constants DEF RotationDue
    <3>2. CASE ResetQueue(a)
      <4>1. column' = IF column = Null \/ column <= now THEN now + Interval ELSE column
        BY <3>2 DEF ResetQueue
      <4>2. QED  BY <1>0, <2>1, <4>1, Constants DEF RotationDue
    <3>3. QED  BY <1>1, <3>1, <3>2
  <2>8. now <= now'  BY <1>0, <2>1
  <2>9. QED  BY <2>1, <2>2, <2>3, <2>4, <2>6, <2>7, <2>8, KeepsSchedule
<1>2. ASSUME NEW a \in Actors, NudgeDeletion(a)
      PROVE  ScheduleInv'
  <2>1. /\ UNCHANGED <<now, job, column, history>>
        /\ at' = [at EXCEPT ![a] = IF a = "worker" THEN "read" ELSE "idle"]
    BY <1>2 DEF NudgeDeletion, packageVars, Goto
  <2>2. Keeps  BY <1>2, NudgeAdds, AddsKeeps
  <2>3. at'["worker"] \in {at["worker"], "read"}  BY <1>0, <2>1 DEF Actors
  <2>4. Applied'  BY <2>1, <2>2, <2>3, AppliedKept DEF ScheduleInv
  <2>5. RotationDue <= RotationDue'  BY <1>0, <2>1, Constants DEF RotationDue
  <2>6. Marked' = Marked  BY <2>1 DEF Marked
  <2>7. Marked # {} => PullIn(Deletion, Min(Marked)) \in DOMAIN rows'
    BY <1>2, NudgeAdds
  <2>8. now <= now'  BY <1>0, <2>1
  <2>9. QED  BY <2>1, <2>2, <2>3, <2>4, <2>5, <2>6, <2>7, <2>8, KeepsSchedule
<1>3. CASE QueueRotation
  <2>1. UNCHANGED <<now, at, job, history>>  BY <1>3 DEF QueueRotation
  <2>2. Keeps  BY <1>3, QueueAdds, AddsKeeps
  <2>3. Applied'  BY <2>1, <2>2, AppliedKept DEF ScheduleInv
  <2>4. RotationDue' = column'  BY <1>3, QueueAdds, Constants DEF RotationDue
  <2>5. PullIn(Rotation, RotationDue') \in DOMAIN rows'  BY <1>3, <2>4, QueueAdds
  <2>6. Marked' = Marked /\ AboutToNudge' = AboutToNudge
    BY <2>1 DEF Marked, AboutToNudge
  <2>7. Marked' # {} => Min(Marked) <= Min(Marked')
    BY <2>6, MarksAreTimes DEF TaskInv
  <2>8. now <= now'  BY <1>0, <2>1
  <2>9. QED  BY <2>1, <2>2, <2>3, <2>5, <2>6, <2>7, <2>8, KeepsSchedule
<1>4. CASE Restart
  <2>1. /\ UNCHANGED <<now, column, history>> /\ \A a \in Actors : at'[a] = "idle"
    BY <1>4 DEF Restart, packageVars
  <2>2. Keeps  BY <1>4, RestartAdds, AddsKeeps
  <2>3. at'["worker"] = "idle"  BY <2>1 DEF Actors
  <2>4. Applied'  BY <2>3 DEF Applied
  <2>5. RotationDue <= RotationDue'  BY <1>0, <2>1, Constants DEF RotationDue
  <2>6. Marked' = Marked  BY <2>1 DEF Marked
  <2>7. Marked # {} => PullIn(Deletion, Min(Marked)) \in DOMAIN rows'
    BY <1>4, RestartAdds
  <2>8. now <= now'  BY <1>0, <2>1
  <2>9. QED  BY <2>2, <2>3, <2>4, <2>5, <2>6, <2>7, <2>8, KeepsSchedule
<1>5. QED  BY <1>1, <1>2, <1>3, <1>4

(* The worker reads the next deadline. *)
LEMMA ReadingSteps ==
  ASSUME TaskInv, ScheduleInv, TaskInv', ReadDeadline \/ ParkDeletion
  PROVE  ScheduleInv'
<1>0. /\ now \in Nat /\ at \in [Actors -> Labels] /\ column \in Nat \cup {Null}
      /\ \A p \in DOMAIN rows : rows[p].next \in Nat
      /\ job.since \in Nat
      /\ job \in [row : {job.row}, mine : BOOLEAN, since : Nat, next : Nat \cup {Null},
                  ids : SUBSET Nat, who : SUBSET Leavers]
  BY DEF TaskInv, TypeInv, TableOK, Row
<1>1. /\ UNCHANGED <<now, rows, column, history>>
      /\ at' = [at EXCEPT !["worker"] = "write"]
      /\ at["worker"] \in {"read", "park"}
  BY DEF ReadDeadline, ParkDeletion, packageVars, Goto
<1>2. Keeps  BY <1>0, <1>1 DEF Keeps
<1>3. at'["worker"] = "write" /\ at'["app"] = at["app"]  BY <1>0, <1>1 DEF Actors
<1>4. Applied'  BY <1>3 DEF Applied
<1>5. RotationDue <= RotationDue' /\ RotationDue' = RotationDue
  BY <1>0, <1>1, Constants DEF RotationDue
<1>6. Marked' = Marked  BY <1>1 DEF Marked
<1>7. ~AboutToNudge' => ~AboutToNudge  BY <1>1, <1>3 DEF AboutToNudge, Actors
<1>8. Marked' # {} => Min(Marked) <= Min(Marked')
  BY <1>6, MarksAreTimes DEF TaskInv
<1>9. now <= now'  BY <1>0, <1>1
<1>10. \/ job'.row = Rotation /\ job'.next <= RotationDue'
       \/ job'.row = Deletion /\ (Marked' # {} => job'.next <= Min(Marked'))
  <2>1. CASE ReadDeadline
    <3>1. job.row = Rotation /\ job.since <= now
      BY <2>1 DEF ReadDeadline, TaskInv, JobInv
    <3>2. PICK d : d = NextRotation  OBVIOUS
    <3>3. job' = [job EXCEPT !.next = d]  BY <2>1, <3>2 DEF ReadDeadline
    <3>4. job'.row = Rotation /\ job'.next = d  BY <1>0, <3>1, <3>3
    <3>5. d <= RotationDue
      BY <1>0, <3>1, <3>2, Constants DEF NextRotation, RotationDue
    <3>6. QED  BY <1>5, <3>4, <3>5
  <2>2. CASE ParkDeletion
    <3>1. job.row = Deletion  BY <2>2 DEF ParkDeletion, TaskInv, JobInv
    <3>2. PICK d : d = NextDeletion  OBVIOUS
    <3>3. job' = [job EXCEPT !.next = d]  BY <2>2, <3>2 DEF ParkDeletion
    <3>4. job'.row = Deletion /\ job'.next = d  BY <1>0, <3>1, <3>3
    <3>5. Marked # {} => d = Min(Marked)  BY <3>2 DEF NextDeletion, Marked
    <3>6. QED  BY <1>6, <1>8, <3>4, <3>5
  <2>3. QED  BY <2>1, <2>2
<1>11. QED
  BY <1>2, <1>4, <1>5, <1>6, <1>7, <1>8, <1>9, <1>10, KeepsSchedule

(* The worker ends a task: a nudge goes only once it has been applied, and *)
(* a deadline is put off no further than the one that was read, or than    *)
(* one backoff.                                                            *)
LEMMA EndsOnTime ==
  ASSUME TaskInv, Applied, TaskInv', now' = now,
         Finish \/ Reschedule \/ UploadFails("worker") \/ RemoveFails,
         NEW p \in Seeded, NEW d \in Nat, OnTime(p, d),
         at["worker"] = "write" /\ job.row = p => job.next <= d \/ PulledIn(p, d)
  PROVE  OnTime(p, d)'
<1> USE DEF TaskInv
<1>0. /\ p \in DOMAIN rows /\ p \in DOMAIN rows' /\ p # SelfRemove
      /\ rows[p].next \in Nat /\ rows'[p].next \in Nat /\ now \in Nat
  <2>1. IsPayload(p)  BY DEF IsPayload
  <2>2. QED  BY <2>1, Payloads DEF TypeInv, TableOK, Row, Seeded
<1>1. CASE Finish
  <2>1. /\ \A q \in DOMAIN rows' : rows'[q] = rows[q]
        /\ DOMAIN rows \ {job.row} \subseteq DOMAIN rows'
    BY <1>1, Finished
  <2>2. CASE rows[p].next <= d \/ rows[p].next <= now + Backoff
    BY <1>0, <2>1, <2>2 DEF OnTime
  <2>3. CASE PulledIn(p, d)
    <3>1. PICK q \in DOMAIN rows : q[1] = "pullin" /\ q[2] = p /\ q[3] <= d
      BY <2>3 DEF PulledIn
    <3>2. CASE q \in DOMAIN rows'  BY <1>0, <3>1, <3>2 DEF OnTime
    <3>3. CASE q = job.row
      <4>1. IsPayload(q)  BY DEF TypeInv, TableOK
      <4>2. rows[p].next <= q[3]  BY <1>1, <3>1, <3>3 DEF Finish, Applied
      <4>3. q[3] \in Nat  BY <3>1, <4>1, Payloads
      <4>4. rows[p].next <= d  BY <1>0, <3>1, <4>2, <4>3
      <4>5. QED  BY <2>2, <4>4
    <3>4. QED  BY <2>1, <3>2, <3>3
  <2>4. QED  BY <2>2, <2>3 DEF OnTime, PulledIn
<1>2. CASE Reschedule \/ UploadFails("worker") \/ RemoveFails
  <2>1. /\ DOMAIN rows' = DOMAIN rows
        /\ \A q \in DOMAIN rows \ {job.row} : rows'[q] = rows[q]
        /\ job.mine => \/ Reschedule /\ rows'[job.row].next = job.next
                       \/ rows'[job.row].next <= now + Backoff
    <3>1. at["worker"] # "idle"  BY <1>2 DEF Reschedule, UploadFails, RemoveFails
    <3>2. CASE Reschedule
      <4>1. RescheduleAt(job.next) /\ job.next \in Nat
        BY <3>2 DEF Reschedule, JobInv
      <4>2. QED  BY <3>1, <3>2, <4>1, Rescheduled
    <3>3. CASE UploadFails("worker") \/ RemoveFails
      <4>1. RetryLater  BY <3>3 DEF UploadFails, RemoveFails
      <4>2. QED  BY <3>1, <4>1, Retried
    <3>4. QED  BY <1>2, <3>2, <3>3
  <2>2. PulledIn(p, d) => PulledIn(p, d)'  BY <2>1 DEF PulledIn
  <2>3. PulledIn(p, d)' => OnTime(p, d)'  BY <1>0 DEF PulledIn, OnTime
  <2>4. CASE job.row = p
    <3>1. job.mine
      BY <1>0, <1>2, <2>4 DEF JobInv, Reschedule, UploadFails, RemoveFails
    <3>2. CASE Reschedule /\ rows'[p].next = job.next
      <4>1. job.next <= d \/ PulledIn(p, d)  BY <2>4, <3>2 DEF Reschedule
      <4>2. job.next <= d => OnTime(p, d)'  BY <1>0, <3>2 DEF OnTime
      <4>3. QED  BY <2>2, <2>3, <4>1, <4>2
    <3>3. CASE rows'[p].next <= now + Backoff  BY <1>0, <3>3 DEF OnTime
    <3>4. QED  BY <2>1, <2>4, <3>1, <3>2, <3>3
  <2>5. CASE job.row # p
    <3>1. rows'[p] = rows[p]  BY <1>0, <2>1, <2>5
    <3>2. rows[p].next <= d \/ rows[p].next <= now + Backoff => OnTime(p, d)'
      BY <1>0, <3>1 DEF OnTime
    <3>3. QED  BY <2>2, <2>3, <3>2 DEF OnTime, PulledIn
  <2>6. QED  BY <2>4, <2>5
<1>3. QED  BY <1>1, <1>2

LEMMA EndSchedule ==
  ASSUME TaskInv, ScheduleInv, TaskInv',
         Finish \/ Reschedule \/ UploadFails("worker") \/ RemoveFails
  PROVE  ScheduleInv'
<1>0. /\ now \in Nat /\ at \in [Actors -> Labels] /\ column \in Nat \cup {Null}
      /\ Rotation \in Seeded /\ Deletion \in Seeded
  BY DEF TaskInv, TypeInv, Seeded
<1>1. /\ UNCHANGED <<now, column, history>>
      /\ at' = [at EXCEPT !["worker"] = "idle"]
      /\ at["worker"] \in {"finish", "write", "upload", "remove"}
  BY DEF Finish, Reschedule, UploadFails, RemoveFails, Goto, packageVars
<1>2. at'["worker"] = "idle" /\ at'["app"] = at["app"]  BY <1>0, <1>1 DEF Actors
<1>3. Applied'  BY <1>2 DEF Applied
<1>4. RotationInv'
  <2>1. PICK d \in Nat : d = RotationDue  BY <1>0, Constants DEF RotationDue
  <2>2. d = RotationDue'  BY <1>1, <2>1 DEF RotationDue
  <2>3. /\ OnTime(Rotation, d)
        /\ at["worker"] = "write" /\ job.row = Rotation =>
             job.next <= d \/ PulledIn(Rotation, d)
    BY <2>1 DEF ScheduleInv, RotationInv
  <2>4. OnTime(Rotation, d)'  BY <1>0, <1>1, <2>3, EndsOnTime DEF ScheduleInv
  <2>5. QED  BY <1>2, <2>2, <2>4 DEF RotationInv
<1>5. DeletionInv'
  <2>1. SUFFICES ASSUME Marked' # {}, ~AboutToNudge' PROVE DeletionInv'
    BY DEF DeletionInv
  <2>2. Marked' = Marked /\ ~AboutToNudge
    BY <1>1, <1>2, <2>1 DEF Marked, AboutToNudge, Actors
  <2>3. PICK m \in Nat : m = Min(Marked) /\ m = Min(Marked')
    BY <2>1, <2>2, MarksAreTimes DEF TaskInv
  <2>4. /\ OnTime(Deletion, m)
        /\ at["worker"] = "write" /\ job.row = Deletion =>
             job.next <= m \/ PulledIn(Deletion, m)
    BY <2>1, <2>2, <2>3 DEF ScheduleInv, DeletionInv
  <2>5. OnTime(Deletion, m)'  BY <1>0, <1>1, <2>4, EndsOnTime DEF ScheduleInv
  <2>6. QED  BY <1>2, <2>3, <2>5 DEF DeletionInv
<1>6. QED  BY <1>3, <1>4, <1>5 DEF ScheduleInv

LEMMA ScheduleInvariance == Spec => [](TaskInv /\ ScheduleInv)
<1>1. ASSUME Init PROVE TaskInv /\ ScheduleInv
  <2>1. TaskInv  BY <1>1, InitialTask
  <2>2. /\ now = 0 /\ column \in {Null, Interval} /\ history = [id \in {1} |-> Null]
        /\ at["worker"] = "idle"
        /\ Rotation \in DOMAIN rows /\ rows[Rotation] = Seed(0)
    BY <1>1 DEF Init, Actors
  <2>3. Seed(0).next = 0  BY SeedRow
  <2>4. OnTime(Rotation, RotationDue)  BY <2>2, <2>3, Constants DEF OnTime
  <2>5. Marked = {}  BY <2>2 DEF Marked, MarkedForDeletion, Range
  <2>6. QED
    BY <2>1, <2>2, <2>4, <2>5
    DEF ScheduleInv, Applied, RotationInv, DeletionInv
<1>2. ASSUME TaskInv, ScheduleInv, TaskInv', [Next]_vars PROVE ScheduleInv'
  <2>1. CASE WorkerStep
    BY <1>2, <2>1, CalmSteps, AskingSteps, ReadingSteps, EndSchedule
    DEF WorkerStep, Actors
  <2>2. CASE AppStep
    BY <1>2, <2>2, CalmSteps, AskingSteps DEF AppStep, Actors
  <2>3. CASE \E a \in Actors : UploadFails(a)
    BY <1>2, <2>3, CalmSteps, EndSchedule DEF Actors
  <2>4. CASE Tick \/ QueueRotation \/ Fetch \/ Restart \/ RemoveFails
    BY <1>2, <2>4, CalmSteps, AskingSteps, EndSchedule
  <2>5. CASE \E m \in Leavers : LeaveRequest(m) \/ OtherAdminRemoves(m)
    BY <1>2, <2>5, CalmSteps
  <2>6. CASE UNCHANGED vars
    BY <1>2, <2>6
    DEF vars, ScheduleInv, Applied, RotationInv, DeletionInv, RotationDue, Marked,
        AboutToNudge, OnTime, PulledIn
  <2>7. QED  BY <1>2, <2>1, <2>2, <2>3, <2>4, <2>5, <2>6 DEF Next
<1>3. QED  BY <1>1, <1>2, TaskStep, PTL DEF Spec

(***************************************************************************)
(* A rotation that is asked for is not lost: whatever the worker is doing  *)
(* when the column is lowered, and whenever the process dies, the task is  *)
(* due by the column, within one backoff, or a nudge for it is stored.     *)
(***************************************************************************)
THEOREM RotationsScheduled == Spec => []RotationScheduled
<1>1. ScheduleInv => RotationScheduled
  BY DEF ScheduleInv, RotationInv, RotationDue, RotationScheduled
<1>2. QED  BY ScheduleInvariance, <1>1, PTL

(***************************************************************************)
(* Nor is the deletion of superseded packages, once the rotation that      *)
(* marks them has got as far as its nudge.                                 *)
(***************************************************************************)
THEOREM DeletionsScheduled == Spec => []DeletionScheduled
<1>1. ScheduleInv => DeletionScheduled
  BY DEF ScheduleInv, DeletionInv, Marked, AboutToNudge, DeletionScheduled
<1>2. QED  BY ScheduleInvariance, <1>1, PTL

-----------------------------------------------------------------------------
(* Leaving *)

(* Steps that neither read nor change who is waiting, and keep their task. *)
LEMMA LeaveKept ==
  ASSUME LeaveInv, UNCHANGED <<owed, pending, members>>,
         Waiting # {} /\ SelfRemove \in DOMAIN rows => SelfRemove \in DOMAIN rows',
         \/ at'["worker"] \notin {"remove", "check", "clear", "finish"}
         \/ job'.row # SelfRemove
         \/ at'["worker"] = at["worker"] /\ job' = job
  PROVE  LeaveInv'
<1>1. Waiting' = Waiting  BY DEF Waiting
<1>2. QED  BY <1>1 DEF LeaveInv

(* Steps of the packages and of the table, by anyone *)
LEMMA LeaveUntouched ==
  ASSUME TaskInv, LeaveInv,
         \/ Tick \/ Fetch \/ QueueRotation \/ Restart \/ ApplyPullIn
         \/ ReadDeadline \/ SweepKeys \/ PurgeHistory \/ ParkDeletion
         \/ StartRotation \/ AppRotates
         \/ \E a \in Actors : \/ Record(a) \/ Uploaded(a) \/ MarkSuperseded(a)
                              \/ ResetQueue(a) \/ NudgeDeletion(a)
  PROVE  LeaveInv'
<1>0. at \in [Actors -> Labels]  BY DEF TaskInv, TypeInv
<1>1. UNCHANGED <<owed, pending, members>>
  BY DEF Tick, Fetch, QueueRotation, Restart, ApplyPullIn, ReadDeadline, SweepKeys,
         PurgeHistory, ParkDeletion, StartRotation, AppRotates, Record, Uploaded,
         MarkSuperseded, ResetQueue, NudgeDeletion, leaveVars
<1>2. DOMAIN rows \subseteq DOMAIN rows'
  <2>1. CASE \/ Tick \/ Fetch \/ ReadDeadline \/ SweepKeys \/ PurgeHistory
             \/ ParkDeletion \/ StartRotation \/ AppRotates
             \/ \E a \in Actors : \/ Record(a) \/ Uploaded(a) \/ MarkSuperseded(a)
                                  \/ ResetQueue(a)
    BY <2>1 DEF Tick, Fetch, ReadDeadline, SweepKeys, PurgeHistory, ParkDeletion,
                StartRotation, AppRotates, Record, Uploaded, MarkSuperseded, ResetQueue
  <2>2. CASE ApplyPullIn  BY <2>2, Lowered
  <2>3. CASE QueueRotation \/ Restart \/ \E a \in Actors : NudgeDeletion(a)
    BY <2>3, QueueAdds, RestartAdds, NudgeAdds DEF Adds
  <2>4. QED  BY <2>1, <2>2, <2>3
<1>3. CASE Tick \/ Fetch \/ QueueRotation
  <2>1. at' = at /\ job' = job  BY <1>3 DEF Tick, Fetch, QueueRotation
  <2>2. QED  BY <1>1, <1>2, <2>1, LeaveKept
<1>4. CASE Restart
  <2>1. at'["worker"] = "idle"  BY <1>4 DEF Restart, Actors
  <2>2. QED  BY <1>1, <1>2, <2>1, LeaveKept
<1>5. CASE ApplyPullIn
  <2>1. job'.row # SelfRemove
    BY <1>5, Payloads DEF ApplyPullIn, TaskInv, TypeInv, JobInv
  <2>2. QED  BY <1>1, <1>2, <2>1, LeaveKept
<1>6. CASE \/ ReadDeadline \/ SweepKeys \/ PurgeHistory \/ ParkDeletion
           \/ StartRotation \/ AppRotates
           \/ \E a \in Actors : \/ Record(a) \/ Uploaded(a) \/ MarkSuperseded(a)
                                \/ ResetQueue(a) \/ NudgeDeletion(a)
  <2>1. PICK a \in Actors, l \in {"write", "purge", "park", "record", "nudge", "upload",
                                  "mark", "reset", "read", "idle"} :
          at' = [at EXCEPT ![a] = l] /\ (a = "worker" \/ job' = job)
    <3>1. CASE ReadDeadline \/ SweepKeys \/ PurgeHistory \/ ParkDeletion
      BY <3>1 DEF ReadDeadline, SweepKeys, PurgeHistory, ParkDeletion, Goto, Actors
    <3>2. CASE StartRotation \/ AppRotates
      BY <3>2 DEF StartRotation, AppRotates, Generate, Goto, Actors
    <3>3. CASE \E a \in Actors : \/ Record(a) \/ Uploaded(a) \/ MarkSuperseded(a)
                                 \/ ResetQueue(a) \/ NudgeDeletion(a)
      BY <3>3 DEF Record, Uploaded, MarkSuperseded, ResetQueue, NudgeDeletion, Goto
    <3>4. QED  BY <1>6, <3>1, <3>2, <3>3
  <2>2. \/ at'["worker"] = l
        \/ at'["worker"] = at["worker"] /\ job' = job
    BY <1>0, <2>1 DEF Actors
  <2>3. QED  BY <1>1, <1>2, <2>2, LeaveKept
<1>7. QED  BY <1>3, <1>4, <1>5, <1>6

(* The worker takes a task up, ends it or puts it off: it deletes the task *)
(* of leave requests as its own only when nobody it was for is waiting.    *)
LEMMA LeaveLoop ==
  ASSUME TaskInv, LeaveInv,
         \/ Pick \/ Finish \/ Reschedule \/ RemoveFails
         \/ \E a \in Actors : UploadFails(a)
  PROVE  LeaveInv'
<1>0. at \in [Actors -> Labels]  BY DEF TaskInv, TypeInv
<1>1. CASE Pick
  <2>1. UNCHANGED <<pending, members>> /\ at["worker"] = "idle"  BY <1>1 DEF Pick
  <2>2. CASE owed' = {} /\ UNCHANGED <<at, job>>
    <3>1. Waiting' = {}  BY <2>2 DEF Waiting
    <3>2. QED  BY <2>1, <2>2, <3>1 DEF LeaveInv
  <2>3. CASE /\ UNCHANGED <<rows, owed>>
             /\ \E p \in DOMAIN rows :
                  /\ IsPayload(p) /\ at' = [at EXCEPT !["worker"] = p[1]]
    <3>1. PICK p \in DOMAIN rows : IsPayload(p) /\ at' = [at EXCEPT !["worker"] = p[1]]
      BY <2>3
    <3>2. at'["worker"] = p[1]  BY <1>0, <3>1 DEF Actors
    <3>3. at'["worker"] \in {"rotation", "deletion", "selfremove", "pullin"}
      BY <3>1, <3>2, Payloads
    <3>4. QED  BY <2>1, <2>3, <3>3, LeaveKept
  <2>4. QED  BY <1>1, <2>2, <2>3, Picked
<1>2. CASE Finish
  <2>1. UNCHANGED <<owed, pending, members>> /\ at["worker"] = "finish"
    BY <1>2 DEF Finish, leaveVars
  <2>2. at'["worker"] = "idle"  BY <1>0, <1>2 DEF Finish, Goto, Actors
  <2>3. DOMAIN rows' = DOMAIN rows \ (IF job.mine THEN {job.row} ELSE {})
    BY <1>2, Finished DEF TaskInv
  <2>4. job.row = SelfRemove /\ job.mine => Waiting = {}  BY <2>1 DEF LeaveInv
  <2>5. QED  BY <2>1, <2>2, <2>3, <2>4, LeaveKept
<1>3. CASE Reschedule \/ RemoveFails \/ UploadFails("worker")
  <2>1. UNCHANGED <<owed, pending, members>> /\ at["worker"] # "idle"
    BY <1>3 DEF Reschedule, RemoveFails, UploadFails, leaveVars
  <2>2. at'["worker"] = "idle"
    BY <1>0, <1>3 DEF Reschedule, RemoveFails, UploadFails, Goto, Actors
  <2>3. DOMAIN rows' = DOMAIN rows
    <3>1. CASE Reschedule
      <4>1. RescheduleAt(job.next) /\ job.next \in Nat
        BY <3>1 DEF Reschedule, JobInv, TaskInv
      <4>2. QED  BY <2>1, <4>1, Rescheduled DEF TaskInv
    <3>2. CASE RemoveFails \/ UploadFails("worker")
      <4>1. RetryLater  BY <3>2 DEF RemoveFails, UploadFails
      <4>2. QED  BY <2>1, <4>1, Retried DEF TaskInv
    <3>3. QED  BY <1>3, <3>1, <3>2
  <2>4. QED  BY <2>1, <2>2, <2>3, LeaveKept
<1>4. CASE UploadFails("app")
  <2>1. UNCHANGED <<owed, pending, members, rows, job>>
    BY <1>4 DEF UploadFails, leaveVars
  <2>2. at'["worker"] = at["worker"]  BY <1>0, <1>4 DEF UploadFails, Goto, Actors
  <2>3. QED  BY <2>1, <2>2, LeaveKept
<1>5. QED  BY <1>1, <1>2, <1>3, <1>4 DEF Actors

(* A request, its processing, and the removal by another super admin *)
LEMMA LeaveHandled ==
  ASSUME TaskInv, LeaveInv,
         \/ ListPending \/ RemovePending \/ CheckList \/ ClearFlag
         \/ \E m \in Leavers : LeaveRequest(m) \/ OtherAdminRemoves(m)
  PROVE  LeaveInv'
<1>0. /\ at \in [Actors -> Labels]
      /\ job \in [row : {job.row}, mine : BOOLEAN, since : Nat, next : Nat \cup {Null},
                  ids : SUBSET Nat, who : SUBSET Leavers]
  BY DEF TaskInv, TypeInv
<1>1. CASE ListPending
  <2>1. UNCHANGED <<owed, pending, members, rows>>  BY <1>1 DEF ListPending, leaveVars
  <2>2. PICK w : w = pending \cap members  OBVIOUS
  <2>3. job' = [job EXCEPT !.who = w]  BY <1>1, <2>2 DEF ListPending
  <2>4. job'.who = w  BY <1>0, <2>3
  <2>5. Waiting' = Waiting /\ Waiting \subseteq w  BY <2>1, <2>2 DEF Waiting
  <2>6. at'["worker"] = IF w = {} THEN "check" ELSE "remove"
    BY <1>0, <1>1, <2>2 DEF ListPending, Goto, Actors
  <2>7. QED  BY <2>1, <2>4, <2>5, <2>6 DEF LeaveInv
<1>2. CASE RemovePending
  <2>1. /\ UNCHANGED <<owed, rows, job>> /\ at["worker"] = "remove"
        /\ members' = members \ job.who /\ pending' = pending \ job.who
    BY <1>2 DEF RemovePending
  <2>2. at'["worker"] = "check"  BY <1>0, <1>2 DEF RemovePending, Goto, Actors
  <2>3. Waiting' = Waiting \ job.who  BY <2>1 DEF Waiting
  <2>4. owed' \cap members' \subseteq pending'  BY <2>1 DEF LeaveInv
  <2>5. job.row = SelfRemove /\ job.mine => Waiting' = {}  BY <2>1, <2>3 DEF LeaveInv
  <2>6. Waiting' # {} => SelfRemove \in DOMAIN rows'  BY <2>1, <2>3 DEF LeaveInv
  <2>7. QED  BY <2>1, <2>2, <2>4, <2>5, <2>6 DEF LeaveInv
<1>3. CASE CheckList
  <2>1. /\ UNCHANGED <<owed, members, rows, job>> /\ at["worker"] = "check"
        /\ pending' = pending \cap members
    BY <1>3 DEF CheckList
  <2>2. at'["worker"] \in {"clear", "finish"}
    BY <1>0, <1>3 DEF CheckList, Goto, Actors
  <2>3. Waiting' = Waiting  BY <2>1 DEF Waiting
  <2>4. owed' \cap members' \subseteq pending'  BY <2>1 DEF LeaveInv
  <2>5. QED  BY <2>1, <2>2, <2>3, <2>4 DEF LeaveInv
<1>4. CASE ClearFlag
  <2>1. UNCHANGED <<owed, members, pending, rows, job>> /\ at["worker"] = "clear"
    BY <1>4 DEF ClearFlag
  <2>2. at'["worker"] = "finish"  BY <1>0, <1>4 DEF ClearFlag, Goto, Actors
  <2>3. Waiting' = Waiting  BY <2>1 DEF Waiting
  <2>4. QED  BY <2>1, <2>2, <2>3 DEF LeaveInv
<1>5. ASSUME NEW m \in Leavers, LeaveRequest(m) PROVE LeaveInv'
  <2>1. /\ UNCHANGED <<at, members>> /\ pending' = pending \cup {m}
        /\ m \in members /\ m \notin pending
    BY <1>5 DEF LeaveRequest
  <2>2. SelfRemove \in DOMAIN rows'  BY <1>5, LeaveAdds
  <2>3. m \notin owed  BY <2>1 DEF LeaveInv
  <2>4. \/ owed' = owed /\ job' = job
        \/ /\ owed' = owed \cup {m}
           /\ job' = IF job.row = SelfRemove THEN [job EXCEPT !.mine = FALSE] ELSE job
    BY <1>5 DEF LeaveRequest
  <2>5. CASE owed' = owed /\ job' = job
    <3>1. Waiting' = Waiting  BY <2>1, <2>3, <2>5 DEF Waiting
    <3>2. QED  BY <2>1, <2>2, <2>5, <3>1 DEF LeaveInv
  <2>6. CASE /\ owed' = owed \cup {m}
             /\ job' = IF job.row = SelfRemove THEN [job EXCEPT !.mine = FALSE] ELSE job
    <3>1. owed' \cap members' \subseteq pending'  BY <2>1, <2>6 DEF LeaveInv
    <3>2. job'.row = SelfRemove => ~job'.mine  BY <1>0, <2>6
    <3>3. QED  BY <2>2, <3>1, <3>2 DEF LeaveInv
  <2>7. QED  BY <2>4, <2>5, <2>6
<1>6. ASSUME NEW m \in Leavers, OtherAdminRemoves(m) PROVE LeaveInv'
  <2>1. /\ UNCHANGED <<at, job, rows, owed>> /\ members' = members \ {m}
        /\ pending' = pending \ {m}
    BY <1>6 DEF OtherAdminRemoves
  <2>2. Waiting' \subseteq Waiting  BY <2>1 DEF Waiting
  <2>3. owed' \cap members' \subseteq pending'  BY <2>1 DEF LeaveInv
  <2>4. QED  BY <2>1, <2>2, <2>3 DEF LeaveInv
<1>7. QED  BY <1>1, <1>2, <1>3, <1>4, <1>5, <1>6

(***************************************************************************)
(* A request to leave that was given a task of its own is not forgotten    *)
(* while the task may run, whatever the worker does with a dead row of the *)
(* same payload in the meantime.                                           *)
(***************************************************************************)
THEOREM OwnTasksKept == Spec => []OwnTaskKept
<1>1. ASSUME Init PROVE LeaveInv
  <2>1. owed = {} /\ job = Idle  BY <1>1 DEF Init
  <2>2. Waiting = {} /\ job.mine = FALSE  BY <2>1 DEF Waiting, Idle
  <2>3. QED  BY <2>1, <2>2 DEF LeaveInv
<1>2. ASSUME TaskInv, LeaveInv, [Next]_vars PROVE LeaveInv'
  <2>1. CASE WorkerStep \/ AppStep
    BY <1>2, <2>1, LeaveUntouched, LeaveLoop, LeaveHandled
    DEF WorkerStep, AppStep, Actors
  <2>2. CASE UNCHANGED vars  BY <1>2, <2>2 DEF vars, LeaveInv, Waiting
  <2>3. QED
    BY <1>2, <2>1, <2>2, LeaveUntouched, LeaveLoop, LeaveHandled DEF Next
<1>3. LeaveInv => OwnTaskKept  BY DEF LeaveInv, Waiting, OwnTaskKept
<1>4. QED  BY <1>1, <1>2, <1>3, TaskInvariance, PTL DEF Spec

-----------------------------------------------------------------------------
(* Key packages *)

LEMMA Numbers ==
  ASSUME TaskInv
  PROVE  /\ now \in Nat /\ network \in Nat /\ used.packages \in Nat /\ Grace \in Nat
         /\ keys \subseteq Nat /\ DOMAIN history \subseteq Nat
         /\ \A id \in DOMAIN history : history[id] = Null \/ history[id] \in Nat
         /\ \A a \in Actors : kp[a] \in Nat
         /\ at \in [Actors -> Labels]
         /\ \A f \in fetched : f.kp \in Nat /\ f.at \in Nat
         /\ job.ids \subseteq Nat /\ Null \notin Nat
BY Constants DEF TaskInv, TypeInv

(* Steps that leave the packages and those who are rotating alone *)
LEMMA PackagesKept ==
  ASSUME TaskInv, PackageInv, now' \in Nat, now <= now',
         UNCHANGED <<history, keys, network, kp, fetched>>,
         used'.packages = used.packages,
         \A a \in Actors : Rotating(a)' => at'[a] = at[a],
         at'["worker"] = "purge" => at["worker"] = "purge" /\ job'.ids = job.ids
  PROVE  PackageInv'
<1>1. ~(Rotating("worker")' /\ Rotating("app")')
  BY DEF PackageInv, Rotating, Actors
<1>2. ASSUME NEW a \in Actors PROVE StageOK(a)'
  BY <1>2 DEF PackageInv, StageOK, Rotating
<1>3. HistoryInv'
  <2>1. \A id \in DOMAIN history : history[id] # Null => history[id] <= now' + Grace
    BY Numbers DEF PackageInv, HistoryInv
  <2>2. QED  BY <2>1 DEF PackageInv, HistoryInv
<1>4. SweptInv'  BY DEF PackageInv, SweptInv
<1>5. FetchedInv'
  <2>1. \A f \in fetched : f.at <= now' /\ (f.at + Grace <= now => f.at + Grace <= now')
    BY Numbers DEF PackageInv, FetchedInv
  <2>2. QED  BY <2>1 DEF PackageInv, FetchedInv
<1>6. QED  BY <1>1, <1>2, <1>3, <1>4, <1>5 DEF PackageInv

LEMMA CalmPackages ==
  ASSUME TaskInv, PackageInv,
         \/ Tick \/ QueueRotation \/ Restart \/ RemoveFails
         \/ \E m \in Leavers : LeaveRequest(m) \/ OtherAdminRemoves(m)
         \/ Pick \/ ApplyPullIn \/ Finish \/ ReadDeadline \/ Reschedule
         \/ ParkDeletion \/ ListPending \/ RemovePending \/ CheckList \/ ClearFlag
         \/ \E a \in Actors : ResetQueue(a) \/ NudgeDeletion(a)
         \/ StartRotation /\ ~NeedsRotation
  PROVE  PackageInv'
<1>0. /\ at \in [Actors -> Labels] /\ now \in Nat
      /\ used \in [packages : Nat, events : Nat, faults : Nat]
      /\ job \in [row : {job.row}, mine : BOOLEAN, since : Nat, next : Nat \cup {Null},
                  ids : SUBSET Nat, who : SUBSET Leavers]
  BY DEF TaskInv, TypeInv
<1>1. CASE Tick \/ QueueRotation \/ \E m \in Leavers : LeaveRequest(m) \/ OtherAdminRemoves(m)
  <2>1. /\ UNCHANGED <<at, history, keys, network, kp, fetched>>
        /\ now' \in Nat /\ now <= now'
    BY <1>0, <1>1
    DEF Tick, QueueRotation, LeaveRequest, OtherAdminRemoves, packageVars
  <2>2. used'.packages = used.packages /\ job'.ids = job.ids
    BY <1>0, <1>1 DEF Tick, QueueRotation, LeaveRequest, OtherAdminRemoves, Event
  <2>3. QED  BY <2>1, <2>2, PackagesKept
<1>2. CASE Restart
  <2>1. /\ UNCHANGED <<now, history, keys, network, kp, fetched>>
        /\ at' = [a \in Actors |-> "idle"] /\ used'.packages = used.packages
    BY <1>0, <1>2 DEF Restart, Fault, packageVars
  <2>2. at'["worker"] # "purge" /\ \A a \in Actors : ~Rotating(a)'
    BY <2>1 DEF Rotating, Actors
  <2>3. QED  BY <1>0, <2>1, <2>2, PackagesKept
<1>3. CASE Pick
  <2>1. UNCHANGED <<now, history, keys, network, kp, fetched, used>>
    BY <1>3 DEF Pick, packageVars
  <2>2. CASE UNCHANGED <<at, job>>  BY <1>0, <2>1, <2>2, PackagesKept
  <2>3. CASE \E p \in DOMAIN rows : IsPayload(p) /\ at' = [at EXCEPT !["worker"] = p[1]]
    <3>1. PICK p \in DOMAIN rows : IsPayload(p) /\ at' = [at EXCEPT !["worker"] = p[1]]
      BY <2>3
    <3>2. p[1] \in {"rotation", "deletion", "selfremove", "pullin"}  BY <3>1, Payloads
    <3>3. at'["worker"] = p[1] /\ at'["app"] = at["app"]  BY <1>0, <3>1 DEF Actors
    <3>4. /\ \A a \in Actors : Rotating(a)' => at'[a] = at[a]
          /\ at'["worker"] # "purge"
      BY <3>2, <3>3 DEF Rotating, Actors
    <3>5. QED  BY <1>0, <2>1, <3>4, PackagesKept
  <2>4. QED  BY <1>3, <2>2, <2>3, Picked
<1>4. CASE \/ RemoveFails \/ ApplyPullIn \/ Finish \/ ReadDeadline \/ Reschedule
           \/ ParkDeletion \/ ListPending \/ RemovePending \/ CheckList \/ ClearFlag
           \/ \E a \in Actors : ResetQueue(a) \/ NudgeDeletion(a)
           \/ StartRotation /\ ~NeedsRotation
  <2>1. /\ UNCHANGED <<now, history, keys, network, kp, fetched>>
        /\ used'.packages = used.packages
    BY <1>0, <1>4
    DEF RemoveFails, ApplyPullIn, Finish, ReadDeadline, Reschedule, ParkDeletion,
        ListPending, RemovePending, CheckList, ClearFlag, ResetQueue, NudgeDeletion,
        StartRotation, Fault, packageVars
  <2>2. PICK a \in Actors, l \in {"idle", "finish", "write", "check", "remove", "clear",
                                  "nudge", "read"} :
          at' = [at EXCEPT ![a] = l] /\ (a = "worker" \/ job' = job)
    <3>1. CASE \/ RemoveFails \/ ApplyPullIn \/ Finish \/ ReadDeadline \/ Reschedule
               \/ ParkDeletion
      BY <3>1 DEF RemoveFails, ApplyPullIn, Finish, ReadDeadline, Reschedule,
                  ParkDeletion, Goto, Actors
    <3>2. CASE ListPending \/ RemovePending \/ CheckList \/ ClearFlag
      BY <3>2 DEF ListPending, RemovePending, CheckList, ClearFlag, Goto, Actors
    <3>3. CASE \E a \in Actors : ResetQueue(a) \/ NudgeDeletion(a)
      BY <3>3 DEF ResetQueue, NudgeDeletion, Goto
    <3>4. CASE StartRotation /\ ~NeedsRotation
      BY <3>4 DEF StartRotation, Goto, Actors
    <3>5. QED  BY <1>4, <3>1, <3>2, <3>3, <3>4
  <2>3. at'[a] = l /\ \A b \in Actors \ {a} : at'[b] = at[b]  BY <1>0, <2>2
  <2>4. \A b \in Actors : Rotating(b)' => at'[b] = at[b]  BY <2>3 DEF Rotating
  <2>5. at'["worker"] = "purge" => at["worker"] = "purge" /\ job'.ids = job.ids
    BY <2>2, <2>3 DEF Actors
  <2>6. QED  BY <1>0, <2>1, <2>4, <2>5, PackagesKept
<1>5. QED  BY <1>1, <1>2, <1>3, <1>4

(* The package on the network carries no mark. *)
LEMMA NetworkFresh ==
  ASSUME TaskInv, PackageInv
  PROVE  /\ network \in DOMAIN history /\ history[network] = Null
         /\ network <= used.packages
BY Numbers DEF PackageInv, HistoryInv

(* A package is generated: its id is a new one. *)
LEMMA GeneratedPackage ==
  ASSUME TaskInv, PackageInv, NEW a \in Actors, Generate(a),
         \A b \in Actors \ {a} : ~Rotating(b),
         UNCHANGED <<now, history, network, fetched, job>>
  PROVE  PackageInv'
<1>0. /\ used \in [packages : Nat, events : Nat, faults : Nat] /\ kp \in [Actors -> Nat]
      /\ at \in [Actors -> Labels]
  BY DEF TaskInv, TypeInv
<1>1. PICK id \in Nat : id = used.packages + 1  BY <1>0
<1>2. used'.packages = id /\ keys' = keys \cup {id} /\ kp' = [kp EXCEPT ![a] = id]
  BY <1>0, <1>1 DEF Generate
<1>3. kp'[a] = id  BY <1>0, <1>2
<1>4. at'[a] = "record" /\ \A b \in Actors \ {a} : at'[b] = at[b]
  BY <1>0 DEF Generate, Goto
<1>5. \A k \in keys \cup DOMAIN history : k \in Nat /\ k < id
  BY <1>1, Numbers DEF PackageInv, HistoryInv
<1>6. network < id  BY <1>5 DEF PackageInv, HistoryInv
<1>7. ~(Rotating("worker")' /\ Rotating("app")')
  BY <1>4 DEF Rotating, Actors
<1>8. ASSUME NEW b \in Actors PROVE StageOK(b)'
  <2>1. CASE b = a
    <3>1. kp'[a] \notin DOMAIN history'  BY <1>3, <1>5
    <3>2. QED  BY <1>2, <1>3, <1>4, <2>1, <3>1 DEF StageOK
  <2>2. CASE b # a  BY <1>4, <1>8, <2>2 DEF StageOK, Rotating
  <2>3. QED  BY <2>1, <2>2
<1>9. HistoryInv'
  <2>1. \A k \in keys' \cup DOMAIN history' : k <= used'.packages
    BY <1>1, <1>2, <1>5
  <2>2. QED  BY <1>2, <2>1 DEF PackageInv, HistoryInv
<1>10. SweptInv'
  <2>1. keys' \cap DOMAIN history' = keys \cap DOMAIN history  BY <1>2, <1>5
  <2>2. at'["worker"] = "purge" => at["worker"] = "purge"  BY <1>4 DEF Actors
  <2>3. QED  BY <2>1, <2>2 DEF PackageInv, SweptInv
<1>11. FetchedInv'
  <2>1. \A f \in fetched : f.kp # id
    BY <1>6, Numbers DEF PackageInv, FetchedInv
  <2>2. QED  BY <1>2, <2>1 DEF PackageInv, FetchedInv
<1>12. QED  BY <1>7, <1>8, <1>9, <1>10, <1>11 DEF PackageInv

LEMMA RecordedPackage ==
  ASSUME TaskInv, PackageInv, NEW a \in Actors, Record(a)
  PROVE  PackageInv'
<1>0. at \in [Actors -> Labels] /\ kp[a] \in Nat /\ at[a] = "record"
  BY Numbers DEF Record
<1>1. /\ UNCHANGED <<now, job, keys, network, kp, fetched, used>>
      /\ history' = With(history, kp[a], Null)
  BY DEF Record
<1>2. /\ kp[a] = used.packages /\ kp[a] \in keys /\ kp[a] \notin DOMAIN history
  BY <1>0 DEF PackageInv, StageOK
<1>3. /\ DOMAIN history' = DOMAIN history \cup {kp[a]}
      /\ history'[kp[a]] = Null
      /\ \A id \in DOMAIN history : history'[id] = history[id]
  BY <1>1, <1>2 DEF With
<1>4. at'[a] = "upload" /\ \A b \in Actors \ {a} : at'[b] = at[b]
  BY <1>0 DEF Record, Goto
<1>5. \A b \in Actors \ {a} : ~Rotating(b)
  BY <1>0 DEF PackageInv, Rotating, Actors
<1>6. ~(Rotating("worker")' /\ Rotating("app")')
  BY <1>4, <1>5 DEF Rotating, Actors
<1>7. ASSUME NEW b \in Actors PROVE StageOK(b)'
  <2>1. CASE b = a  BY <1>1, <1>2, <1>3, <1>4, <2>1 DEF StageOK
  <2>2. CASE b # a  BY <1>4, <1>5, <1>7, <2>2 DEF StageOK, Rotating
  <2>3. QED  BY <2>1, <2>2
<1>8. \A id \in DOMAIN history : id \in Nat /\ id < kp[a]
  BY <1>0, <1>2, Numbers DEF PackageInv, HistoryInv
<1>9. HistoryInv'
  <2>1. network' \in keys' /\ network' \in DOMAIN history'
    BY <1>1, <1>3 DEF PackageInv, HistoryInv
  <2>2. \A id \in keys' \cup DOMAIN history' : id <= used'.packages
    BY <1>1, <1>2, <1>3, Numbers DEF PackageInv, HistoryInv
  <2>3. ASSUME NEW id \in DOMAIN history', history'[id] # Null
        PROVE  /\ id < network' /\ history'[id] <= now' + Grace
               /\ \A old \in DOMAIN history' : old < id =>
                    history'[old] # Null /\ history'[old] <= history'[id]
    <3>1. id \in DOMAIN history /\ history[id] # Null  BY <1>3, <2>3
    <3>2. \A old \in DOMAIN history' : old < id => old \in DOMAIN history
      BY <1>0, <1>3, <1>8, <3>1
    <3>3. QED  BY <1>1, <1>3, <3>1, <3>2 DEF PackageInv, HistoryInv
  <2>4. QED  BY <2>1, <2>2, <2>3 DEF HistoryInv
<1>10. SweptInv'
  <2>1. at'["worker"] = "purge" => at["worker"] = "purge"  BY <1>4 DEF Actors
  <2>2. \A e \in Nat : e < network => e < kp[a]
    BY <1>0, <1>2, Numbers, NetworkFresh
  <2>3. QED  BY <1>1, <1>3, <2>1, <2>2, Numbers DEF PackageInv, SweptInv
<1>11. FetchedInv'  BY <1>1, <1>3 DEF PackageInv, FetchedInv
<1>12. QED  BY <1>6, <1>7, <1>9, <1>10, <1>11 DEF PackageInv

(* The upload ends, one way or the other. *)
LEMMA UploadedPackage ==
  ASSUME TaskInv, PackageInv, NEW a \in Actors, Uploaded(a) \/ UploadFails(a)
  PROVE  PackageInv'
<1>0. /\ at \in [Actors -> Labels] /\ kp[a] \in Nat /\ at[a] = "upload"
      /\ used \in [packages : Nat, events : Nat, faults : Nat]
  BY Numbers DEF Uploaded, UploadFails, TaskInv, TypeInv
<1>1. /\ UNCHANGED <<now, keys, history, kp, fetched>>
      /\ used'.packages = used.packages
      /\ a = "worker" \/ job' = job
  BY <1>0 DEF Uploaded, UploadFails, Fault, Actors
<1>2. PICK l \in {"mark", "idle"} :
        /\ at' = [at EXCEPT ![a] = l]
        /\ network' \in {network, kp[a]} /\ (l = "mark" => network' = kp[a])
  BY DEF Uploaded, UploadFails, Goto
<1>3. at'[a] = l /\ \A b \in Actors \ {a} : at'[b] = at[b]
  BY <1>0, <1>2
<1>4. /\ kp[a] = used.packages /\ kp[a] \in keys /\ kp[a] \in DOMAIN history
  BY <1>0 DEF PackageInv, StageOK
<1>5. \A b \in Actors \ {a} : ~Rotating(b)
  BY <1>0 DEF PackageInv, Rotating, Actors
<1>6. ~(Rotating("worker")' /\ Rotating("app")')
  BY <1>3, <1>5 DEF Rotating, Actors
<1>7. ASSUME NEW b \in Actors PROVE StageOK(b)'
  <2>1. CASE b = a  BY <1>1, <1>2, <1>3, <2>1 DEF StageOK
  <2>2. CASE b # a  BY <1>3, <1>5, <1>7, <2>2 DEF StageOK, Rotating
  <2>3. QED  BY <2>1, <2>2
<1>8. network' \in Nat /\ network <= network'
  BY <1>0, <1>2, <1>4, Numbers, NetworkFresh
<1>9. \A n \in Nat : (n < network => n < network') /\ (n <= network => n <= network')
  BY <1>8, Numbers
<1>10. HistoryInv'
  <2>1. network' \in keys' /\ network' \in DOMAIN history'
    BY <1>1, <1>2, <1>4 DEF PackageInv, HistoryInv
  <2>2. QED  BY <1>1, <1>9, <2>1, Numbers DEF PackageInv, HistoryInv
<1>11. SweptInv'
  <2>1. at'["worker"] = "purge" => at["worker"] = "purge" /\ job' = job
    BY <1>1, <1>3 DEF Actors
  <2>2. QED  BY <1>1, <1>9, <2>1, Numbers DEF PackageInv, SweptInv
<1>12. FetchedInv'  BY <1>1, <1>9, Numbers DEF PackageInv, FetchedInv
<1>13. QED  BY <1>6, <1>7, <1>10, <1>11, <1>12 DEF PackageInv

(* The packages before the one on the network are marked. *)
LEMMA MarkedPackages ==
  ASSUME TaskInv, PackageInv, NEW a \in Actors, MarkSuperseded(a)
  PROVE  PackageInv'
<1>0. at \in [Actors -> Labels] /\ at[a] = "mark"
  BY Numbers DEF MarkSuperseded
<1>1. /\ UNCHANGED <<now, job, keys, network, kp, fetched, used>>
      /\ history' = [id \in DOMAIN history |->
                       IF id < kp[a] /\ history[id] = Null THEN now + Grace
                       ELSE history[id]]
  BY DEF MarkSuperseded
<1>2. at'[a] = "reset" /\ \A b \in Actors \ {a} : at'[b] = at[b]
  BY <1>0 DEF MarkSuperseded, Goto
<1>3. kp[a] = network  BY <1>0 DEF PackageInv, StageOK
<1>4. /\ DOMAIN history' = DOMAIN history
      /\ \A id \in DOMAIN history :
           \/ history'[id] = history[id] /\ (history[id] # Null \/ ~(id < network))
           \/ history'[id] = now + Grace /\ history[id] = Null /\ id < network
  BY <1>1, <1>3
<1>5. \A b \in Actors \ {a} : ~Rotating(b)
  BY <1>0 DEF PackageInv, Rotating, Actors
<1>6. \A b \in Actors : ~Rotating(b)'
  BY <1>2, <1>5 DEF Rotating
<1>7. \A b \in Actors : StageOK(b)'  BY <1>6 DEF StageOK, Rotating
<1>8. HistoryInv'
  <2>1. ASSUME NEW id \in DOMAIN history', history'[id] # Null
        PROVE  id < network /\ history'[id] <= now + Grace
    BY <1>4, <2>1, Numbers DEF PackageInv, HistoryInv
  <2>2. ASSUME NEW id \in DOMAIN history', history'[id] # Null,
               NEW old \in DOMAIN history', old < id
        PROVE  history'[old] # Null /\ history'[old] <= history'[id]
    <3>1. id \in Nat /\ old \in Nat /\ network \in Nat /\ old < network
      BY <1>4, <2>1, <2>2, Numbers
    <3>2. history'[old] # Null
      BY <1>4, <2>2, <3>1, Numbers DEF PackageInv, HistoryInv
    <3>3. CASE history[id] # Null
      <4>1. history[old] # Null /\ history[old] <= history[id]
        BY <1>4, <2>2, <3>3 DEF PackageInv, HistoryInv
      <4>2. history'[old] = history[old] /\ history'[id] = history[id]
        BY <1>4, <2>2, <3>3, <4>1
      <4>3. QED  BY <3>2, <4>1, <4>2
    <3>4. CASE history[id] = Null
      <4>1. history'[id] = now + Grace  BY <1>4, <2>2, <3>4
      <4>2. history'[old] <= now + Grace  BY <2>1, <2>2, <3>2
      <4>3. QED  BY <3>2, <4>1, <4>2
    <3>5. QED  BY <3>3, <3>4
  <2>3. QED  BY <1>1, <1>4, <2>1, <2>2 DEF PackageInv, HistoryInv
<1>9. SweptInv'
  <2>1. at'["worker"] = "purge" => at["worker"] = "purge"  BY <1>2 DEF Actors
  <2>2. QED  BY <1>1, <1>4, <2>1 DEF PackageInv, SweptInv
<1>10. FetchedInv'
  <2>1. ASSUME NEW f \in fetched PROVE f.at + Grace <= now + Grace
    BY Numbers DEF PackageInv, FetchedInv
  <2>2. QED  BY <1>1, <1>4, <2>1 DEF PackageInv, FetchedInv
<1>11. QED  BY <1>6, <1>7, <1>8, <1>9, <1>10 DEF PackageInv, Actors

(* The sweep: a package without a mark, or with a later one, is younger    *)
(* than all the expired ones.                                              *)
LEMMA SweptKeys ==
  ASSUME TaskInv, PackageInv, SweepKeys
  PROVE  PackageInv'
<1>0. /\ at \in [Actors -> Labels] /\ at["worker"] = "deletion"
      /\ job \in [row : {job.row}, mine : BOOLEAN, since : Nat, next : Nat \cup {Null},
                  ids : SUBSET Nat, who : SUBSET Leavers]
  BY DEF SweepKeys, TaskInv, TypeInv
<1>1. PICK E : E = Expired  OBVIOUS
<1>2. /\ UNCHANGED <<now, history, network, kp, fetched, used>>
      /\ keys' = keys \ E /\ job' = [job EXCEPT !.ids = E]
  BY <1>1 DEF SweepKeys
<1>3. job'.ids = E  BY <1>0, <1>2
<1>4. at'["worker"] = "purge" /\ at'["app"] = at["app"]
  BY <1>0 DEF SweepKeys, Goto, Actors
<1>5. \A e \in E : /\ e \in DOMAIN history /\ history[e] # Null /\ history[e] <= now
                   /\ e < network /\ e \in Nat
  BY <1>1, Numbers DEF Expired, PackageInv, HistoryInv
<1>6. network \notin E /\ used.packages \notin E
  <2>1. \A e \in E : e < used.packages  BY <1>5, Numbers, NetworkFresh
  <2>2. QED  BY <1>5, <2>1, Numbers
<1>7. ~(Rotating("worker")' /\ Rotating("app")')  BY <1>4 DEF Rotating
<1>8. ASSUME NEW a \in Actors PROVE StageOK(a)'
  <2>1. CASE a = "worker"  BY <1>4, <2>1 DEF StageOK
  <2>2. CASE a = "app"  BY <1>2, <1>4, <1>6, <2>2 DEF PackageInv, StageOK, Actors
  <2>3. QED  BY <2>1, <2>2 DEF Actors
<1>9. HistoryInv'  BY <1>2, <1>6 DEF PackageInv, HistoryInv
<1>10. SweptInv'
  <2>1. ASSUME NEW e \in E, NEW id \in (keys \ E) \cap DOMAIN history PROVE e < id
    <3>1. id # e /\ id \in Nat  BY Numbers
    <3>2. CASE id < e
      <4>1. history[id] # Null /\ history[id] <= history[e]
        BY <1>5, <3>2 DEF PackageInv, HistoryInv
      <4>2. history[id] <= now  BY <1>5, <4>1, Numbers
      <4>3. QED  BY <1>1, <4>1, <4>2 DEF Expired
    <3>3. QED  BY <1>5, <3>1, <3>2
  <2>2. QED  BY <1>2, <1>3, <1>5, <2>1 DEF SweptInv
<1>11. FetchedInv'
  <2>1. ASSUME NEW f \in fetched, f.kp \in keys, f.kp \in E
        PROVE  f.at + Grace <= now
    <3>1. /\ f.at + Grace <= history[f.kp] /\ history[f.kp] <= now
          /\ history[f.kp] \in Nat
      BY <1>5, <2>1, Numbers DEF PackageInv, FetchedInv
    <3>2. QED  BY <3>1, Numbers
  <2>2. QED  BY <1>2, <2>1 DEF PackageInv, FetchedInv
<1>12. QED  BY <1>7, <1>8, <1>9, <1>10, <1>11 DEF PackageInv

(* The rows up to the largest id swept go, marked or not: none of them has *)
(* keys any more.                                                          *)
LEMMA PurgedRows ==
  ASSUME TaskInv, PackageInv, PurgeHistory
  PROVE  PackageInv'
<1>0. at \in [Actors -> Labels] /\ at["worker"] = "purge"
  BY Numbers DEF PurgeHistory
<1>1. /\ UNCHANGED <<now, job, keys, network, kp, fetched, used>>
      /\ history' = Restrict(history, {id \in DOMAIN history : \A e \in job.ids : id > e})
  BY DEF PurgeHistory
<1>2. at'["worker"] = "park" /\ at'["app"] = at["app"]
  BY <1>0 DEF PurgeHistory, Goto, Actors
<1>3. /\ DOMAIN history' = {id \in DOMAIN history : \A e \in job.ids : id > e}
      /\ \A id \in DOMAIN history' : history'[id] = history[id]
  BY <1>1 DEF Restrict
<1>4. \A e \in job.ids : e \in Nat /\ e < network /\ e < used.packages
  BY <1>0, Numbers, NetworkFresh DEF PackageInv, SweptInv
<1>5. keys \cap DOMAIN history \subseteq DOMAIN history'
  <2>1. \A id \in keys \cap DOMAIN history : \A e \in job.ids : id > e
    BY <1>0, Numbers DEF PackageInv, SweptInv
  <2>2. QED  BY <1>3, <2>1
<1>6. network \in DOMAIN history'  BY <1>5 DEF PackageInv, HistoryInv
<1>7. ~(Rotating("worker")' /\ Rotating("app")')  BY <1>2 DEF Rotating
<1>8. ASSUME NEW a \in Actors PROVE StageOK(a)'
  <2>1. CASE a = "worker"  BY <1>2, <2>1 DEF StageOK
  <2>2. CASE a = "app"
    BY <1>1, <1>2, <1>3, <1>5, <2>2 DEF PackageInv, StageOK, Actors
  <2>3. QED  BY <2>1, <2>2 DEF Actors
<1>9. HistoryInv'
  <2>1. DOMAIN history' \subseteq DOMAIN history  BY <1>3
  <2>2. network' \in keys' /\ network' \in DOMAIN history'
    BY <1>1, <1>6 DEF PackageInv, HistoryInv
  <2>3. \A id \in keys' \cup DOMAIN history' : id <= used'.packages
    BY <1>1, <2>1 DEF PackageInv, HistoryInv
  <2>4. ASSUME NEW id \in DOMAIN history', history'[id] # Null
        PROVE  /\ id < network' /\ history'[id] <= now' + Grace
               /\ \A old \in DOMAIN history' : old < id =>
                    history'[old] # Null /\ history'[old] <= history'[id]
    BY <1>1, <1>3, <2>1, <2>4 DEF PackageInv, HistoryInv
  <2>5. QED  BY <2>2, <2>3, <2>4 DEF HistoryInv
<1>10. SweptInv'  BY <1>2 DEF SweptInv
<1>11. FetchedInv'
  <2>1. \A f \in fetched : f.kp \in keys => f.kp \in DOMAIN history'
    BY <1>5 DEF PackageInv, FetchedInv
  <2>2. QED  BY <1>1, <1>3, <2>1 DEF PackageInv, FetchedInv
<1>12. QED  BY <1>7, <1>8, <1>9, <1>10, <1>11 DEF PackageInv

LEMMA FetchedPackage ==
  ASSUME TaskInv, PackageInv, Fetch
  PROVE  PackageInv'
<1>0. used \in [packages : Nat, events : Nat, faults : Nat]  BY DEF TaskInv, TypeInv
<1>1. /\ UNCHANGED <<now, at, job, history, keys, network, kp>>
      /\ used'.packages = used.packages
  BY <1>0 DEF Fetch, Event, packageVars
<1>2. PICK g : g = [kp |-> network, at |-> now] /\ fetched' = fetched \cup {g}
  BY DEF Fetch
<1>3. g.kp = network /\ g.at = now  BY <1>2
<1>4. FetchedInv'
  <2>1. /\ g.at <= now /\ g.kp <= network /\ g.kp \in keys /\ g.kp \in DOMAIN history
        /\ history[g.kp] = Null
    BY <1>3, Numbers, NetworkFresh DEF PackageInv, HistoryInv
  <2>2. QED  BY <1>1, <1>2, <2>1 DEF PackageInv, FetchedInv
<1>5. ~(Rotating("worker")' /\ Rotating("app")') /\ \A a \in Actors : StageOK(a)'
  BY <1>1 DEF PackageInv, Rotating, StageOK
<1>6. HistoryInv' /\ SweptInv'  BY <1>1 DEF PackageInv, HistoryInv, SweptInv
<1>7. QED  BY <1>4, <1>5, <1>6 DEF PackageInv

LEMMA PackageInvariance ==
  ASSUME Overlap = FALSE
  PROVE  Spec => []PackageInv
<1>1. ASSUME Init PROVE PackageInv
  <2>1. /\ now = 0 /\ DOMAIN history = {1} /\ history[1] = Null /\ keys = {1}
        /\ network = 1 /\ at["worker"] = "idle" /\ at["app"] = "idle" /\ fetched = {}
        /\ used.packages = 1
    BY <1>1 DEF Init, Actors
  <2>2. QED
    BY <2>1
    DEF PackageInv, Rotating, StageOK, HistoryInv, SweptInv, FetchedInv, Actors
<1>2. ASSUME TaskInv, PackageInv, [Next]_vars PROVE PackageInv'
  <2>1. CASE ~Blocked("worker") /\ StartRotation
    <3>1. CASE NeedsRotation
      <4>1. /\ Generate("worker") /\ ~Rotating("app")
            /\ UNCHANGED <<now, history, network, fetched, job>>
        BY <2>1, <3>1 DEF StartRotation, Blocked, Rotating
      <4>2. QED  BY <1>2, <4>1, GeneratedPackage DEF Actors
    <3>2. CASE ~NeedsRotation  BY <1>2, <2>1, <3>2, CalmPackages
    <3>3. QED  BY <3>1, <3>2
  <2>2. CASE AppRotates
    <3>1. /\ Generate("app") /\ ~Rotating("worker")
          /\ UNCHANGED <<now, history, network, fetched, job>>
      BY <2>2 DEF AppRotates, Rotating
    <3>2. QED  BY <1>2, <3>1, GeneratedPackage DEF Actors
  <2>3. CASE \E a \in Actors : \/ Record(a) \/ Uploaded(a) \/ UploadFails(a)
                               \/ MarkSuperseded(a)
    BY <1>2, <2>3, RecordedPackage, UploadedPackage, MarkedPackages
  <2>4. CASE SweepKeys \/ PurgeHistory \/ Fetch
    BY <1>2, <2>4, SweptKeys, PurgedRows, FetchedPackage
  <2>5. CASE UNCHANGED vars
    BY <1>2, <2>5
    DEF vars, PackageInv, Rotating, StageOK, HistoryInv, SweptInv, FetchedInv
  <2>6. CASE WorkerStep
    BY <1>2, <2>1, <2>3, <2>4, <2>6, CalmPackages DEF WorkerStep, Actors
  <2>7. CASE AppStep  BY <1>2, <2>2, <2>3, <2>7, CalmPackages DEF AppStep, Actors
  <2>8. QED  BY <1>2, <2>3, <2>4, <2>5, <2>6, <2>7, CalmPackages DEF Next
<1>3. QED  BY <1>1, <1>2, TaskInvariance, PTL DEF Spec

(***************************************************************************)
(* As long as rotations do not overlap, the private keys of the package    *)
(* the network hands out are never swept, however uploads fail and         *)
(* wherever the process dies.                                              *)
(***************************************************************************)
THEOREM CurrentPackagesUsable ==
  ASSUME Overlap = FALSE
  PROVE  Spec => []CurrentPackageUsable
<1>1. PackageInv => CurrentPackageUsable
  BY DEF PackageInv, HistoryInv, CurrentPackageUsable
<1>2. QED  BY PackageInvariance, <1>1, PTL

(***************************************************************************)
(* Nor are those of a package that somebody fetched less than the grace    *)
(* period ago.                                                             *)
(***************************************************************************)
THEOREM WelcomesOpen ==
  ASSUME Overlap = FALSE
  PROVE  Spec => []WelcomeOpens
<1>1. TaskInv /\ PackageInv => WelcomeOpens
  <2>1. SUFFICES ASSUME TaskInv, PackageInv, NEW f \in fetched, now < f.at + Grace
                 PROVE  f.kp \in keys
    BY DEF WelcomeOpens
  <2>2. f.kp \notin keys => f.at + Grace <= now  BY <2>1 DEF PackageInv, FetchedInv
  <2>3. QED  BY <2>1, <2>2, Numbers
<1>2. QED  BY TaskInvariance, PackageInvariance, <1>1, PTL

(***************************************************************************)
(* And the keys of a package others have been given never outlive its row  *)
(* in the history, although the sweep deletes rows it has not read.        *)
(***************************************************************************)
THEOREM NoOrphanedKeys ==
  ASSUME Overlap = FALSE
  PROVE  Spec => []NoOrphanKeys
<1>1. PackageInv => NoOrphanKeys
  BY DEF PackageInv, HistoryInv, FetchedInv, NoOrphanKeys
<1>2. QED  BY PackageInvariance, <1>1, PTL
=============================================================================
