---------------------------- MODULE IntentStore ----------------------------
(***************************************************************************)
(* The rows of the group_intents table and the functions that move them    *)
(* (crates/xmtp_db/src/encrypted_store/group_intent.rs).  A row is what a  *)
(* client wants to happen to a group: `op` says what, the rest says how    *)
(* far it got.                                                             *)
(*                                                                         *)
(* A setter of the database filters on the state a row must be in.  Here   *)
(* each setter is the update it makes, and the filter is a predicate: the  *)
(* callers take the branch of the code for the filter's failure.           *)
(***************************************************************************)
EXTENDS Integers, Sequences

(***************************************************************************)
(* Kinds of intent.  UpdateAdminList, UpdatePermission and                 *)
(* ReaddInstallations go through the same handlers as the three commit     *)
(* kinds named here.                                                       *)
(***************************************************************************)
CommitKinds == {"KeyUpdate", "MetadataUpdate", "UpdateGroupMembership"}

IntentKinds == CommitKinds \cup {"SendMessage"}

IntentState ==
  {"ToPublish", "Published", "Committed", "Error", "Processed", "Superseded"}

(* States in which sync_until_intent_resolved stops waiting. *)
Terminal == {"Error", "Processed", "Superseded"}

(* payload_hash of a row that has none; real hashes are positive. *)
NoHash == 0

NewIntent(op) ==
  [op |-> op, state |-> "ToPublish", hash |-> NoHash, base |-> << >>,
   post |-> FALSE, seq |-> 0, attempts |-> 0]

(***************************************************************************)
(* `base` stands for the two columns staged_commit and published_in_epoch: *)
(* the group state that the payload was made from.                         *)
(***************************************************************************)
SetPublished(row, hash, post, base) ==
  IF row.state = "ToPublish"
  THEN [row EXCEPT !.state = "Published", !.hash = hash,
                   !.post = post, !.base = base]
  ELSE row

(* The filter of both set_group_intent_committed and ..._to_publish. *)
IsPublished(row) == row.state = "Published"

(* Mutant: the cursor of the commit is not recorded. *)
SetCommittedNoCursor(row, seq) == [row EXCEPT !.state = "Committed"]

SetCommitted(row, seq) == [row EXCEPT !.state = "Committed", !.seq = seq]

(* Mutant: the row is left waiting for its lost payload. *)
SetToPublishForgotten(row) == row

SetToPublish(row) ==
  [row EXCEPT !.state = "ToPublish", !.hash = NoHash,
              !.post = FALSE, !.base = << >>]

(* Mutant: a superseded write is reported as done. *)
SetSupersededAsDone(row) == [row EXCEPT !.state = "Processed"]

SetSuperseded(row) == [row EXCEPT !.state = "Superseded"]

(* Mutant: rows used to be deleted on success. *)
SetProcessedDeleted(row) == [row EXCEPT !.state = "Deleted"]

(* No filter on the state: any row may be moved here. *)
SetProcessed(row) == [row EXCEPT !.state = "Processed"]

SetError(row) == [row EXCEPT !.state = "Error"]

IncrementAttempts(row) == [row EXCEPT !.attempts = row.attempts + 1]

(* find_group_intents: ids of the rows of a group in one state. *)
FindIntents(rows, state) == {i \in DOMAIN rows : rows[i].state = state}

(* find_group_intent_by_payload_hash. *)
FindByHash(rows, hash) == {i \in DOMAIN rows : rows[i].hash = hash}
=============================================================================
