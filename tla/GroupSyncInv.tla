---------------------------- MODULE GroupSyncInv ----------------------------
(***************************************************************************)
(* The inductive invariant behind the safety of GroupSync.  It holds when  *)
(* a send that reports failure stored nothing ("ack" is not a fault).      *)
(***************************************************************************)
EXTENDS GroupSync

(* Envelope k is a commit that won its epoch. *)
Wins(k) == IsCommit(log[k]) /\ log[k].base = Canon(k - 1)

(***************************************************************************)
(* The topic: the prescribed state grows by the winners alone, every       *)
(* payload was made from a state the topic prescribed earlier, and payload *)
(* hashes have been drawn.                                                 *)
(***************************************************************************)
LogInv ==
  \A k \in DOMAIN log :
    /\ log[k].after = IF Wins(k) THEN Append(Canon(k - 1), CommitOf(log[k]))
                      ELSE Canon(k - 1)
    /\ \E j \in 0..(k - 1) : log[k].base = Canon(j)
    /\ log[k].id \in 1..(fresh - 1)

(* Two prescribed states never disagree about an epoch. *)
ChainInv ==
  \A j, k \in 0..Len(log) : j <= k => Prefix(Canon(j), Canon(k))

(* A client is where its cursors say it is. *)
PosInv ==
  \A c \in Clients :
    HighWater(c) \in 0..Len(log) /\ hist[c] = Canon(HighWater(c))

(* The batch c is processing starts right after its position. *)
BatchOK(c) ==
  pc[c] = "process" =>
    /\ todo[c] \subseteq (HighWater(c) + 1)..Len(log)
    /\ \A k \in todo[c] : (HighWater(c) + 1)..k \subseteq todo[c]

(***************************************************************************)
(* Rows: a hash belongs to one row of one client, a published payload was  *)
(* made from a state the client has been in, and an envelope with the hash *)
(* of a row is that row's payload.                                         *)
(***************************************************************************)
HashInv ==
  /\ fresh > NoHash
  /\ \A c, d \in Clients :
       \A i \in DOMAIN intents[c] : \A j \in DOMAIN intents[d] :
         /\ intents[c][i].hash \in 0..(fresh - 1)
         /\ (/\ intents[c][i].hash # NoHash
             /\ intents[c][i].hash = intents[d][j].hash) => c = d /\ i = j

RowInv ==
  \A c \in Clients : \A i \in DOMAIN intents[c] :
    LET row == intents[c][i]
    IN /\ row.state = "Published" =>
            /\ row.hash # NoHash
            /\ \E j \in 0..HighWater(c) : row.base = Canon(j)
       /\ \A k \in DOMAIN log : log[k].id = row.hash =>
            log[k].src = <<c, i>> /\ log[k].op = row.op /\ log[k].base = row.base

(***************************************************************************)
(* The loops of a sync: what is left to publish is ToPublish, what is      *)
(* being sent is Published and, before the first attempt, not in the       *)
(* topic, and what is left to finish is Committed.                         *)
(***************************************************************************)
LoopOK(c) ==
  /\ pc[c] \in {"publish", "send", "resend", "post", "posted"} =>
       todo[c] \subseteq DOMAIN intents[c]
  /\ pc[c] = "publish" =>
       \A i \in todo[c] : intents[c][i].state = "ToPublish"
  /\ pc[c] \in {"send", "resend"} =>
       \A i \in todo[c] : intents[c][i].state =
         IF IsNext(c, i) THEN "Published" ELSE "ToPublish"
  /\ pc[c] = "send" =>
       \A i \in todo[c] : IsNext(c, i) =>
         \A k \in DOMAIN log : log[k].id # intents[c][i].hash
  /\ pc[c] \in {"post", "posted"} =>
       \A i \in todo[c] : intents[c][i].state = "Committed"

LoopInv == \A c \in Clients : BatchOK(c) /\ LoopOK(c)

(***************************************************************************)
(* A commit of c that c has not read yet is either waited for by the row   *)
(* it was made for, or too old to be applied by anybody.                   *)
(***************************************************************************)
OwnInv ==
  \A c \in Clients : \A k \in (HighWater(c) + 1)..Len(log) :
    (IsCommit(log[k]) /\ Sender(log[k]) = c) =>
      \/ Epoch(log[k].base) < Epoch(hist[c])
      \/ \E i \in DOMAIN intents[c] :
           intents[c][i].state = "Published" /\ intents[c][i].hash = log[k].id

(* What does not depend on where the clients' syncs are. *)
StateInv == LogInv /\ ChainInv /\ PosInv /\ HashInv /\ RowInv /\ OwnInv

(***************************************************************************)
(* The conjunction is preserved by every step of GroupSync and implies     *)
(* that no client forks from the topic's history.                          *)
(***************************************************************************)
IInv == TypeOK /\ StateInv /\ LoopInv

-----------------------------------------------------------------------------
(* What IInv entails for the history, the reports and the logs.  Each of   *)
(* the following is preserved by every step from states that satisfy IInv  *)
(* and the ones it names.                                                  *)

(***************************************************************************)
(* The history: every commit of it was delivered, and its guard held in    *)
(* the state it was appended to.                                           *)
(***************************************************************************)
HistoryInv ==
  \A n \in DOMAIN Chain :
    /\ \E k \in DOMAIN log : IsCommit(log[k]) /\ CommitOf(log[k]) = Chain[n]
    /\ ~GuardFails(Chain[n].op, SubSeq(Chain, 1, n - 1))

(***************************************************************************)
(* A commit of the history belongs to a row that has been told so, or that *)
(* waits for it and was made from the epoch right before it.  A guard      *)
(* holds in the state a published payload was made from.                   *)
(***************************************************************************)
Took(c, i, n) ==
  LET row == intents[c][i]
  IN /\ Chain[n].op = row.op
     /\ \/ row.state \in {"Committed", "Processed"}
        \/ /\ row.state = "Published" /\ row.hash = Chain[n].id
           /\ Epoch(row.base) = n - 1 /\ Epoch(hist[c]) < n

FateInv ==
  /\ \A n \in DOMAIN Chain :
       LET c == Chain[n].src[1]
           i == Chain[n].src[2]
       IN i \in DOMAIN intents[c] /\ Took(c, i, n)
  /\ \A c \in Clients : \A i \in DOMAIN intents[c] :
       intents[c][i].state = "Published" =>
         ~GuardFails(intents[c][i].op, intents[c][i].base)

(* Envelope k, which c has read, is the commit of c's intent i and won. *)
WonAt(c, i, k) ==
  k \in 1..HighWater(c) /\ Wins(k) /\ log[k].src = <<c, i>>

(* A commit intent that is done won its epoch, or asked for nothing. *)
DoneInv ==
  \A c \in Clients : \A i \in DOMAIN intents[c] :
    LET row == intents[c][i]
    IN row.op.kind \in CommitKinds =>
       /\ row.state = "Committed" => WonAt(c, i, row.seq)
       /\ row.state = "Processed" =>
            WonAt(c, i, row.seq) \/ NoChange(row.op, hist[c])

(***************************************************************************)
(* Welcomes are for commits that won, rows know whether they owe one, and  *)
(* no row that added somebody is done before they went out.                *)
(***************************************************************************)
Welcomed(c, i) == \E w \in welcomes : w.src = <<c, i>>

WelcomeInv ==
  /\ \A w \in welcomes : WonAt(w.src[1], w.src[2], w.seq)
  /\ \A c \in Clients : \A i \in DOMAIN intents[c] :
       LET row == intents[c][i]
       IN /\ row.state \in {"Published", "Committed"} =>
               (row.post <=> row.op.kind = "UpdateGroupMembership")
          /\ (/\ row.op.kind = "UpdateGroupMembership"
              /\ row.state = "Processed" /\ MergedIn(Chain, c, i))
             => Welcomed(c, i)
  /\ \A c \in Clients : pc[c] = "posted" =>
       \A i \in todo[c] : IsNext(c, i) => Welcomed(c, i)

(***************************************************************************)
(* The commit log of c: in the order of the topic, nothing of what c has   *)
(* not read, successes as the topic prescribes them, c's state last.       *)
(***************************************************************************)
LatestSuccess(entries, h) ==
  \E k \in DOMAIN entries :
    /\ entries[k].kind # "Failed" /\ entries[k].at = h
    /\ \A j \in DOMAIN entries : j > k => entries[j].kind = "Failed"

ClogOK(c) ==
  /\ LatestSuccess(clog[c], hist[c])
  /\ \A k \in DOMAIN clog[c] :
       /\ clog[c][k].seq \in 0..HighWater(c)
       /\ clog[c][k].kind = "Commit" => clog[c][k].at = Canon(clog[c][k].seq)
  /\ \A j, k \in DOMAIN clog[c] : j < k => clog[c][j].seq < clog[c][k].seq

ClogInv == \A c \in Clients : ClogOK(c)

(* Nobody queues, and nobody has merged, a version newer than its own. *)
VersionInv ==
  \A c \in Clients :
    /\ \A i \in DOMAIN intents[c] : intents[c][i].op.field = "min_version" =>
         intents[c][i].op.value <= version[c]
    /\ \A k \in DOMAIN hist[c] : hist[c][k].op.field = "min_version" =>
         hist[c][k].op.value <= version[c]

(* Members can read envelope k when they come to it. *)
ReadableThere(k) == ~IsCommit(log[k]) /\ Readable(log[k], Canon(k - 1))

(***************************************************************************)
(* Messages: a member has stored what it read past and could read, and     *)
(* what a sender has resolved as published can be read by the others.      *)
(***************************************************************************)
InboxInv ==
  /\ \A d \in Clients : \A k \in 1..HighWater(d) :
       (ReadableThere(k) /\ Sender(log[k]) # d) => log[k].src \in inbox[d]
  /\ \A c \in Clients : \A i \in DOMAIN intents[c] :
       LET row == intents[c][i]
       IN (row.op.kind = "SendMessage" /\ row.state \in {"Committed", "Processed"})
          => /\ row.seq \in DOMAIN log /\ log[row.seq].src = <<c, i>>
             /\ ReadableThere(row.seq)
=============================================================================
