---------------------------- MODULE GamePayload ----------------------------
(***************************************************************************)
(* The synchronised part of one match record, and the field-by-field       *)
(* comparison and three-way merge that the desktop client runs whenever a  *)
(* server version of the record meets local edits that were never sent     *)
(* (src/mdlogger/game_sync/repository.py).                                 *)
(*                                                                         *)
(* A payload is a function from columns to values.  The columns are the    *)
(* PRIVATE_GAME_FIELDS of remote/games.py, abstracted to the set Fields,   *)
(* and deleted_at.  deleted_at is set apart because two different          *)
(* timestamps count as the same value of it in a merge, and as different   *)
(* values where two payloads are compared exactly.                         *)
(***************************************************************************)
EXTENDS Integers

CONSTANTS Fields,   \* the private fields of a record (deck, result, note, ...)
          Values,   \* the values a field takes
          Absent    \* no record, no base, no reply: the null of the code

\* The tombstone column, and the timestamps it holds: none, one written by the
\* clock of the device, one written by now() on the server.
DeletedAt  == "deleted_at"
NotDeleted == "not deleted"
AtDevice   == "stamped by the device"
AtServer   == "stamped by the server"
Stamps     == {NotDeleted, AtDevice, AtServer}

Columns == Fields \cup {DeletedAt}

ASSUME FieldsAssumption == DeletedAt \notin Fields

Payload == {p \in [Columns -> Values \cup Stamps] :
                /\ p[DeletedAt] \in Stamps
                /\ \A f \in Fields : p[f] \in Values}

NoVersion == 0     \* a null change version; real ones start at 1

\* A record as the server has it.
ServerRow == [payload : Payload, version : Nat \ {NoVersion}]

ASSUME AbsentAssumption == Absent \notin Nat \cup Payload \cup ServerRow

Deleted(p) == p[DeletedAt] # NotDeleted

\* What a client sends of a payload: deleted_at stays behind, the operation
\* carries it.
LivePayload(p) == [p EXCEPT ![DeletedAt] = NotDeleted]

\* SyncRepository._equivalent.
Equivalent(c, left, right) ==
    IF c = DeletedAt THEN (left = NotDeleted) <=> (right = NotDeleted)
                     ELSE left = right

\* SyncRepository._changed_fields.
Changed(base, current) ==
    {c \in Columns : ~Equivalent(c, base[c], current[c])}

SameRecord(p, q) == Changed(p, q) = {}

\* The conditions under which _reconcile_remote gives up merging and asks the
\* user: one field changed on both sides to different values, or a deletion on
\* one side and an edit on the other.
Collides(base, local, remote) ==
    LET mine   == Changed(base, local)
        theirs == Changed(base, remote)
    IN  \/ \E c \in mine \cap theirs : ~Equivalent(c, local[c], remote[c])
        \/ DeletedAt \in theirs /\ mine   \ {DeletedAt} # {}
        \/ DeletedAt \in mine   /\ theirs \ {DeletedAt} # {}

\* A three-way merge that forgets its base.
MergedWithoutBase(base, local, remote) ==
    [c \in Columns |-> IF local[c] # remote[c] THEN local[c] ELSE remote[c]]

\* The merge: the server's payload with this device's changes on top.
Merged(base, local, remote) ==
    [c \in Columns |-> IF c \in Changed(base, local) THEN local[c] ELSE remote[c]]

\* SyncRepository._resolution_operation.
ResolutionOp(selected, remote) ==
    IF Deleted(selected) THEN "delete"
    ELSE IF Deleted(remote) THEN "restore"
    ELSE "upsert"
=============================================================================
