---------------------------- MODULE MCGroupSync ----------------------------
(* Small instances of GroupSync for TLC: sets of operations by theme. *)
EXTENDS GroupSyncInv

CONSTANTS a, b   \* installations

Op(kind, field, value, expected) ==
  [kind |-> kind, field |-> field, value |-> value, expected |-> expected]

Message == Op("SendMessage", "none", 0, NoGuard)
KeyUpdate == Op("KeyUpdate", "none", 0, NoGuard)
AddMember == Op("UpdateGroupMembership", "members", 1, NoGuard)
Name(v, e) == Op("MetadataUpdate", "name", v, e)
MinVersion == Op("MetadataUpdate", "min_version", 2, NoGuard)

TwoClients == {a, b}

(* How much each of them asks for. *)
OneEach == [c \in Clients |-> 1]
OneAndTwo == [c \in Clients |-> IF c = Creator THEN 1 ELSE 2]

(* Members race to rename the group and to add somebody. *)
RaceOps == {Name(1, NoGuard), AddMember, Message}

(* Guarded renames, one of which builds on the other, among messages and   *)
(* the key rotations that age them.                                        *)
EditOps == {Name(1, Unset), Name(2, 1), Message, KeyUpdate}

(* The minimum version is raised while a member is added and messages flow. *)
LiveOps == {AddMember, MinVersion, Message}
=============================================================================
