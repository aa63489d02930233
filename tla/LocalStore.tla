---------------------------- MODULE LocalStore ----------------------------
(***************************************************************************)
(* What the device keeps of one match record, and what each statement of   *)
(* the sync repository does to it (src/mdlogger/game_sync/repository.py    *)
(* and src/mdlogger/db.py): the row of the games table, the rows that      *)
(* sync_outbox holds for it, and its conflict.                             *)
(*                                                                         *)
(* The operators are the bodies of transactions.  They take the record L   *)
(* before and return it after; id is the rowid of the outbox row a         *)
(* transaction may insert.                                                 *)
(***************************************************************************)
EXTENDS GamePayload, FiniteSets

\* A row of games.  rv is remote_version; base is base_remote_payload, the last
\* payload known to be on the server.
Row == [payload : Payload, rv : Nat, base : Payload \cup {Absent},
        status : {"pending", "synced", "failed", "conflict"}]

\* A row of sync_outbox.  snap is the games row serialised when it was queued;
\* retry is what next_retry_at says: now, later, or not before the user asks.
Retry == {"due", "waiting", "never"}
Entry == [id : Nat, op : {"upsert", "delete", "restore"}, snap : Row, retry : Retry]

\* The rows of sync_conflicts for the record: how many there have been (the last
\* one is the only one that may be open) and the server row the open one holds,
\* Absent if the server said it has none.
Conflict == [n : Nat, open : BOOLEAN, remote : ServerRow \cup {Absent}]

Record == [row : Row \cup {Absent}, box : SUBSET Entry, conflict : Conflict]

ASSUME RecordAssumption == Absent \notin Row \cup Entry

Unknown == [row |-> Absent, box |-> {},
            conflict |-> [n |-> 0, open |-> FALSE, remote |-> Absent]]

-----------------------------------------------------------------------------
Newest(box) == CHOOSE e \in box : \A d \in box : d.id <= e.id

NewestId(box) == IF box = {} THEN 0 ELSE Newest(box).id

NewEntry(op, row, id) == [id |-> id, op |-> op, snap |-> row, retry |-> "due"]

\* The row is written and a change queued behind the earlier ones (db.py).
Enqueue(L, row, op, id) ==
    [L EXCEPT !.row = row, !.box = @ \cup {NewEntry(op, row, id)}]

\* _replace_outbox: the row is written and one change replaces the queued ones.
ReplaceOutbox(L, row, op, id) ==
    [L EXCEPT !.row = row, !.box = {NewEntry(op, row, id)}]

RetireConflicts(L) == [L EXCEPT !.conflict.open = FALSE, !.conflict.remote = Absent]

\* _store_conflict: the open conflict is updated, or a new one inserted.
StoreConflict(L, remote) ==
    [L EXCEPT !.row.status = "conflict",
              !.conflict = [n |-> IF @.open THEN @.n ELSE @.n + 1,
                            open |-> TRUE, remote |-> remote]]

AsServer(remote) ==
    [payload |-> remote.payload, rv |-> remote.version, base |-> remote.payload,
     status |-> "synced"]

\* The server's row replaces the local one and everything queued for it.
Adopt(L, remote) ==
    RetireConflicts([L EXCEPT !.row = AsServer(remote), !.box = {}])

\* Whether a record has a change that may be pushed: the conditions of fetch_due.
Due(L) ==
    /\ L.row # Absent
    /\ L.row.status # "conflict" /\ ~L.conflict.open
    /\ L.box # {} /\ Newest(L.box).retry = "due"

\* fetch_due on the whole database db: the newest change of each record that may
\* be pushed, at most limit of them, oldest first.
DueChanges(db, limit) ==
    LET due   == {g \in DOMAIN db : Due(db[g])}
        id(g) == Newest(db[g].box).id
        taken == {g \in due : Cardinality({h \in due : id(h) < id(g)}) < limit}
    IN  [g \in DOMAIN db |-> IF g \in taken
                              THEN [Newest(db[g].box) EXCEPT !.retry = "due"] ELSE Absent]

\* The ids of sync_outbox are rowids of SQLite without AUTOINCREMENT: one more
\* than the largest id in the table, so the id of a deleted last row is given
\* again (migrations.py).
QueuedIn(db) == UNION {db[g].box : g \in DOMAIN db}

IsNextIdOf(db, id) ==
    /\ \A e \in QueuedIn(db) : e.id < id
    /\ id = 1 \/ \E e \in QueuedIn(db) : e.id = id - 1

-----------------------------------------------------------------------------
\* _acknowledge_entry that drops every queued change of the record.
AcknowledgeAll(L, e, version) ==
    IF version # NoVersion /\ L.row.rv > version THEN L
    ELSE [L EXCEPT !.box = {}, !.row.status = "synced",
                   !.row.rv     = IF version = NoVersion THEN @ ELSE version,
                   !.row.base   = e.snap.payload]

\* _acknowledge_entry that takes the row as it is now for what the server has.
AcknowledgeCurrentRow(L, e, version) ==
    LET sent == \E q \in L.box : q.id = e.id /\ q.snap = e.snap
        rest == {q \in L.box : q.id > e.id}
    IN  IF ~sent \/ (version # NoVersion /\ L.row.rv > version) THEN L
        ELSE [L EXCEPT !.box = rest,
                       !.row.status = IF rest = {} THEN "synced" ELSE "pending",
                       !.row.rv     = IF version = NoVersion THEN @ ELSE version,
                       !.row.base   = L.row.payload]

\* _acknowledge_entry: the change e was applied and is dropped with the older
\* ones, unless what is queued under its id is no longer what was sent or the row
\* has moved past that version meanwhile.
Acknowledge(L, e, version) ==
    LET sent == \E q \in L.box : q.id = e.id /\ q.snap = e.snap
        rest == {q \in L.box : q.id > e.id}
    IN  IF ~sent \/ (version # NoVersion /\ L.row.rv > version) THEN L
        ELSE [L EXCEPT !.box = rest,
                       !.row.status = IF rest = {} THEN "synced" ELSE "pending",
                       !.row.rv     = IF version = NoVersion THEN @ ELSE version,
                       !.row.base   = e.snap.payload]

-----------------------------------------------------------------------------
\* _reconcile_remote, its cases in the order the code takes them.  pushed says
\* that the server row came as the answer to a change this device sent.

\* No guard against answers that arrive late.
NothingIsOutdated(L, remote) == FALSE

Outdated(L, remote) ==
    \/ remote.version < L.row.rv
    \/ /\ L.conflict.open /\ L.conflict.remote # Absent
       /\ remote.version < L.conflict.remote.version

\* Whatever is pulled replaces the row.
PullsReplace(L, pushed) == ~pushed

NothingPending(L, pushed) == ~pushed /\ L.box = {}

NeedsUser(L, remote) ==
    IF L.row.base = Absent THEN ~SameRecord(L.row.payload, remote.payload)
    ELSE Collides(L.row.base, L.row.payload, remote.payload)

MergedWith(L, remote) == Merged(L.row.base, L.row.payload, remote.payload)

\* The merged row, still bound to the version the edits were made on.
MergedRowAtOldVersion(L, remote) ==
    [payload |-> MergedWith(L, remote), rv |-> L.row.rv,
     base |-> remote.payload, status |-> "pending"]

MergedRow(L, remote) ==
    [payload |-> MergedWith(L, remote), rv |-> remote.version,
     base |-> remote.payload, status |-> "pending"]

Converges(L, remote) ==
    \/ L.row.base = Absent
    \/ SameRecord(MergedWith(L, remote), remote.payload)

\* Whether the merge queues a change of its own, and so takes an outbox id.
Merges(L, remote, pushed) ==
    /\ L.row # Absent
    /\ ~Outdated(L, remote) /\ ~NothingPending(L, pushed)
    /\ ~NeedsUser(L, remote) /\ ~Converges(L, remote)

Reconcile(L, remote, pushed, id) ==
    CASE L.row = Absent                 -> [L EXCEPT !.row = AsServer(remote)]
      [] L.row # Absent /\ Outdated(L, remote) -> L
      [] Merges(L, remote, pushed) ->
            RetireConflicts(ReplaceOutbox(L, MergedRow(L, remote),
                ResolutionOp(L.row.payload, remote.payload), id))
      [] L.row # Absent /\ ~Outdated(L, remote) /\ ~NothingPending(L, pushed)
            /\ NeedsUser(L, remote)     -> StoreConflict(L, remote)
      [] OTHER                          -> Adopt(L, remote)

\* One result of apply_push_results.
AfterAnswer(L, e, answer, id) ==
    IF answer.applied THEN Acknowledge(L, e, answer.version)
    ELSE IF answer.remote # Absent THEN Reconcile(L, answer.remote, TRUE, id)
    ELSE StoreConflict(L, Absent)

-----------------------------------------------------------------------------
\* record_failure.  ids are the outbox ids of the failed batch, own the ones it
\* held for this record: the outbox is updated by id alone, the row only if an id
\* of its own is still queued.
RecordFailure(L, ids, own, retry) ==
    LET mine == \E e \in L.box : e.id \in own
    IN  [L EXCEPT
            !.box = {IF e.id \in ids THEN [e EXCEPT !.retry = retry] ELSE e : e \in @},
            !.row = IF mine /\ @.status # "conflict"
                    THEN [@ EXCEPT !.status = IF retry = "never" THEN "failed" ELSE "pending"]
                    ELSE @]

\* retry_failed.
RetryFailedEntries(L) ==
    [L EXCEPT !.box = {[e EXCEPT !.retry = "due"] : e \in @},
              !.row = IF @ # Absent /\ @.status = "failed"
                      THEN [@ EXCEPT !.status = "pending"] ELSE @]

-----------------------------------------------------------------------------
\* What the conflict dialog is shown and what its answer is checked against.

\* The revision of _local_snapshot.
Revision(L) ==
    [payload |-> L.row.payload, rv |-> L.row.rv, entry |-> NewestId(L.box)]

\* get_conflict: the server row to compare with, Absent if there is none.
RemoteSeen(L) ==
    IF L.conflict.open THEN L.conflict.remote
    ELSE IF L.row.rv # NoVersion THEN [payload |-> L.row.base, version |-> L.row.rv]
    ELSE Absent

\* The local version of the checked row.  A fetch that answers before another
\* one that was sent earlier must not take the record back.
OlderThanKnown(L, fresh) == fresh # Absent /\ Outdated(L, fresh)

\* resolve_conflict when the server has no such record: the deletion is accepted,
\* or the record is queued to be created again.
ResolveMissing(L, selected, deleting, id) ==
    RetireConflicts(
        IF deleting
        THEN [L EXCEPT !.row = [payload |-> IF Deleted(@.payload) THEN @.payload
                                            ELSE [@.payload EXCEPT ![DeletedAt] = AtDevice],
                                rv |-> NoVersion, base |-> Absent, status |-> "synced"],
                       !.box = {}]
        ELSE ReplaceOutbox(L, [payload |-> selected, rv |-> NoVersion, base |-> Absent,
                               status |-> "pending"], "upsert", id))

\* resolve_conflict against the version the server still has.
ResolveAgainst(L, selected, remote, id) ==
    IF selected = remote.payload THEN Adopt(L, remote)
    ELSE RetireConflicts(ReplaceOutbox(L,
            [payload |-> selected, rv |-> remote.version, base |-> remote.payload,
             status |-> "pending"],
            ResolutionOp(selected, remote.payload), id))
=============================================================================
