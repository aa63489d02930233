---------------------------- MODULE GameServer ----------------------------
(***************************************************************************)
(* The games of one account on the server: the rows, the version clock     *)
(* that stamps every change, and the version one device has acknowledged   *)
(* (supabase/migrations 0009, 0023 and 0030).                              *)
(*                                                                         *)
(* The rows are written by apply_game_changes alone.  It runs a batch of   *)
(* changes in one transaction under an advisory lock of the account, so a  *)
(* batch is one step.  Games of other accounts exist too: their ids are    *)
(* taken, but this account can neither read nor change them.               *)
(***************************************************************************)
EXTENDS GamePayload, FiniteSets

CONSTANTS Games,     \* the ids (UUIDs) of records
          Foreign    \* the ids whose record belongs to another account

ASSUME GamesAssumption == IsFiniteSet(Games) /\ Foreign \subseteq Games

VARIABLES games,   \* games[g]: the server's row of g, or Absent
          clock,   \* game_change_cursors.current_version
          acked,   \* devices.last_acknowledged_version, Absent if unregistered
          past     \* ghost: every row that was ever given a version

serverVars == <<games, clock, acked, past>>

\* One element of the changes array.  seq is its place in the array and
\* expected its expected_change_version.
Request == [game : Games, seq : Nat, op : {"create", "update", "restore", "delete"},
            expected : Nat, payload : Payload]

VersionedRow == [game : Games, payload : Payload, version : Nat \ {NoVersion}]

RowsOf(page, rows) ==
    {[game |-> g, payload |-> rows[g].payload, version |-> rows[g].version] : g \in page}

Answer == [game : Games, applied : BOOLEAN, version : Nat, remote : ServerRow \cup {Absent}]

ServerInit ==
    /\ games = [g \in Games |-> Absent]
    /\ clock = 0
    /\ acked = Absent
    /\ past  = {}

-----------------------------------------------------------------------------
\* A CAS that compares nothing: an update lands on whatever is there.
AcceptsAnyVersion(r) ==
    LET current == games[r.game]
    IN  IF r.op = "create"
        THEN current = Absent /\ r.game \notin Foreign
        ELSE /\ current # Absent
             /\ Deleted(current.payload) <=> r.op = "restore"

\* Whether the change is written.  A create needs a free id; any other change
\* needs a live row (a deleted one for a restore) at the expected version,
\* which only a delete may leave out (delete-if-exists).
Accepts(r) ==
    LET current == games[r.game]
    IN  IF r.op = "create"
        THEN current = Absent /\ r.game \notin Foreign
        ELSE /\ current # Absent
             /\ r.expected = current.version \/ (r.op = "delete" /\ r.expected = NoVersion)
             /\ Deleted(current.payload) <=> r.op = "restore"

\* The payload the row has afterwards.  A delete sends none and keeps the fields.
Written(r) ==
    IF r.op = "delete" THEN [games[r.game].payload EXCEPT ![DeletedAt] = AtServer]
                       ELSE LivePayload(r.payload)

Accepted(batch) == {r \in batch : Accepts(r)}

\* A clock read before it is moved.
VersionBeforeMoving(batch, r) ==
    clock + Cardinality({q \in Accepted(batch) : q.seq < r.seq})

\* next_game_change_version, called by the row trigger once per written row.
VersionGiven(batch, r) ==
    clock + Cardinality({q \in Accepted(batch) : q.seq <= r.seq})

\* What the batch leaves, and what it answers for each of its changes.
Applied(batch) ==
    [g \in Games |->
        IF \E r \in Accepted(batch) : r.game = g
        THEN LET r == CHOOSE r \in Accepted(batch) : r.game = g
             IN  [payload |-> Written(r), version |-> VersionGiven(batch, r)]
        ELSE games[g]]

AnswerTo(batch, r) ==
    IF Accepts(r)
    THEN [game |-> r.game, applied |-> TRUE,
          version |-> VersionGiven(batch, r), remote |-> Absent]
    ELSE IF r.op = "delete" /\ r.expected = NoVersion   \* nothing there to delete
    THEN [game |-> r.game, applied |-> TRUE, version |-> NoVersion, remote |-> Absent]
    ELSE [game |-> r.game, applied |-> FALSE, version |-> NoVersion,
          remote |-> games[r.game]]

\* apply_game_changes: one transaction.  acked is left to the caller.
ApplyChanges(batch) ==
    /\ games' = Applied(batch)
    /\ clock' = clock + Cardinality(Accepted(batch))
    /\ past'  = past \cup RowsOf({g \in Games : games'[g] # games[g]}, games')

\* register_or_touch_device: the row is created at version 0, or left as it is.
RegisterDevice ==
    /\ acked' = IF acked = Absent THEN NoVersion ELSE acked
    /\ UNCHANGED <<games, clock, past>>

\* acknowledge_device_version refuses a version beyond the clock, an
\* unregistered device and a version below the one already acknowledged.
MayAcknowledge(v) == v <= clock /\ acked # Absent /\ acked <= v

AcknowledgeVersion(v) ==
    /\ MayAcknowledge(v)
    /\ acked' = v
    /\ UNCHANGED <<games, clock, past>>

-----------------------------------------------------------------------------
\* What the rows visible to the account look like to a pull or a fetch.
Newer(after) == {g \in Games : games[g] # Absent /\ games[g].version > after}

\* The first page of the changes after a version: at most limit rows, in
\* version order (pull_changes).
Page(after, limit) ==
    {g \in Newer(after) :
        Cardinality({h \in Newer(after) : games[h].version < games[g].version}) < limit}

-----------------------------------------------------------------------------
ServerTypeOK ==
    /\ games \in [Games -> ServerRow \cup {Absent}]
    /\ clock \in Nat
    /\ acked \in Nat \cup {Absent}
    /\ past \subseteq VersionedRow

(* Every change moves the clock, and stamps what it changed with versions  *)
(* beyond the old clock: a change can never hide below a version that some *)
(* device has already pulled past.                                         *)
ChangesAreStampedAhead ==
    [][\A g \in Games : games'[g] # games[g] =>
          games'[g] # Absent /\ games'[g].version > clock /\ games'[g].version <= clock'
      ]_serverVars

(* The acknowledged version never goes back and never runs ahead of the    *)
(* clock (0023 acknowledge_device_version).                                *)
AcknowledgementNeverRegresses ==
    [][acked # Absent => acked' # Absent /\ acked <= acked' /\ acked' <= clock']_serverVars
=============================================================================
