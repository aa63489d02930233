-------------------------------- MODULE SyncProofs --------------------------------
(***************************************************************************)
(* The synchronisation of registered games, for any sets of records,       *)
(* fields, values and workers and any bounds: first what every transaction *)
(* of LocalStore makes of a record, then the types of GameSync, then the   *)
(* version clock, the cursor and the acknowledged version, and last        *)
(* SyncInv, which ties what the device keeps and what is under way to what *)
(* the server has stored, and what follows from it: no edit is forgotten,  *)
(* no base is misattributed, no change is skipped or undone.               *)
(*                                                                         *)
(* What every transaction makes of a record is again a record, and one     *)
(* that is in the database stays there: no statement of the sync           *)
(* repository deletes a row of games.                                      *)
(***************************************************************************)
EXTENDS GameSync, FiniteSetTheorems, WellFoundedInduction, TLAPS

\* The rows that refer to a record refer to a row of games (foreign keys of
\* sync_outbox and sync_conflicts).
WellFormed(L) == L \in Record /\ (L.row = Absent => L.box = {} /\ ~L.conflict.open)

\* A record in the database.
Held(L) == L \in Record /\ L.row # Absent

Operations == {"upsert", "delete", "restore"}

(* A record that is in the database has the type of one.                   *)
LEMMA HeldIsWellFormed == ASSUME NEW L, Held(L) PROVE WellFormed(L)
BY DEF Held, WellFormed

(* A record the device has never heard of is well formed.                  *)
LEMMA UnknownType == WellFormed(Unknown)
BY DEF WellFormed, Unknown, Record, Conflict

(* The row of a record that is held is a row.                              *)
LEMMA RowType ==
    ASSUME NEW L, Held(L)
    PROVE  /\ L.row \in Row /\ L.row.payload \in Payload /\ L.row.rv \in Nat
           /\ L.row.base \in Payload \cup {Absent}
           /\ L.box \subseteq Entry /\ L.conflict \in Conflict
BY DEF Held, Record, Row

(* A record put together from a row, an outbox and a conflict.             *)
LEMMA NewRecordType ==
    ASSUME NEW row \in Row, NEW box \in SUBSET Entry, NEW conflict \in Conflict
    PROVE  Held([row |-> row, box |-> box, conflict |-> conflict])
BY RecordAssumption DEF Held, Record

(* A row put together from its columns.                                    *)
LEMMA NewRowType ==
    ASSUME NEW p \in Payload, NEW rv \in Nat, NEW b \in Payload \cup {Absent},
           NEW s \in {"pending", "synced", "failed", "conflict"}
    PROVE  [payload |-> p, rv |-> rv, base |-> b, status |-> s] \in Row
BY DEF Row

(* A change that is queued is an outbox row.                               *)
LEMMA NewEntryType ==
    ASSUME NEW op \in Operations, NEW row \in Row, NEW id \in Nat
    PROVE  NewEntry(op, row, id) \in Entry
BY DEF NewEntry, Entry, Retry, Operations

(* Queueing a change (db.py) leaves a record.                              *)
LEMMA EnqueueType ==
    ASSUME NEW L \in Record, NEW row \in Row, NEW op \in Operations, NEW id \in Nat
    PROVE  Held(Enqueue(L, row, op, id))
BY NewEntryType, RecordAssumption DEF Enqueue, Held, Record

(* Replacing the queued changes (_replace_outbox) leaves a record.         *)
LEMMA ReplaceOutboxType ==
    ASSUME NEW L \in Record, NEW row \in Row, NEW op \in Operations, NEW id \in Nat
    PROVE  Held(ReplaceOutbox(L, row, op, id))
BY NewEntryType, RecordAssumption DEF ReplaceOutbox, Held, Record

(* Settling the conflicts (_retire_conflicts) leaves a record.             *)
LEMMA RetireConflictsType ==
    ASSUME NEW L, Held(L)
    PROVE  Held(RetireConflicts(L))
BY DEF Held, RetireConflicts, Record, Conflict

(* Opening or updating a conflict (_store_conflict) leaves a record.       *)
LEMMA StoreConflictType ==
    ASSUME NEW L, Held(L), NEW remote \in ServerRow \cup {Absent}
    PROVE  Held(StoreConflict(L, remote))
<1> DEFINE c == [n |-> IF L.conflict.open THEN L.conflict.n ELSE L.conflict.n + 1,
                 open |-> TRUE, remote |-> remote]
<1>1. StoreConflict(L, remote) = [L EXCEPT !.row = [L.row EXCEPT !.status = "conflict"],
                                           !.conflict = c]
  BY DEF StoreConflict
<1>2. c \in Conflict
  BY RowType DEF Conflict
<1>3. [L.row EXCEPT !.status = "conflict"] \in Row
  BY RowType DEF Row
<1> QED
  BY <1>1, <1>2, <1>3, RecordAssumption DEF Held, Record

(* The server's row makes a local row.                                     *)
LEMMA AsServerType ==
    ASSUME NEW remote \in ServerRow
    PROVE  AsServer(remote) \in Row
BY DEF AsServer, Row, ServerRow

(* Taking the server's row (_apply_remote_row) leaves a record.            *)
LEMMA AdoptType ==
    ASSUME NEW L \in Record, NEW remote \in ServerRow
    PROVE  Held(Adopt(L, remote))
<1>1. Held([L EXCEPT !.row = AsServer(remote), !.box = {}])
  BY AsServerType, RecordAssumption DEF Held, Record
<1> QED
  BY <1>1, RetireConflictsType DEF Adopt

(* A merge of payloads is a payload.                                       *)
LEMMA MergedType ==
    ASSUME NEW b, NEW l \in Payload, NEW r \in Payload
    PROVE  Merged(b, l, r) \in Payload
<1>1. \A c \in Columns : Merged(b, l, r)[c] \in {l[c], r[c]}
  BY DEF Merged
<1>2. Merged(b, l, r) \in [Columns -> Values \cup Stamps]
  BY <1>1 DEF Merged, Payload
<1>3. /\ Merged(b, l, r)[DeletedAt] \in Stamps
      /\ \A f \in Fields : Merged(b, l, r)[f] \in Values
  BY <1>1 DEF Payload, Columns
<1> QED
  BY <1>2, <1>3 DEF Payload

(* What _resolution_operation returns is an operation of the outbox.       *)
LEMMA ResolutionOpType ==
    ASSUME NEW p, NEW q
    PROVE  ResolutionOp(p, q) \in Operations
BY DEF ResolutionOp, Operations

-----------------------------------------------------------------------------
(* An acknowledged change (_acknowledge_entry) leaves a record.            *)
LEMMA AcknowledgeType ==
    ASSUME NEW L, Held(L), NEW e \in Entry, NEW v \in Nat
    PROVE  Held(Acknowledge(L, e, v))
<1> DEFINE rest == {q \in L.box : q.id > e.id}
           row == [L.row EXCEPT !.status = IF rest = {} THEN "synced" ELSE "pending",
                                !.rv     = IF v = NoVersion THEN @ ELSE v,
                                !.base   = e.snap.payload]
<1>1. \/ Acknowledge(L, e, v) = L
      \/ Acknowledge(L, e, v) = [row |-> row, box |-> rest, conflict |-> L.conflict]
  BY DEF Acknowledge, Held, Record, Row
<1>2. row \in Row
  BY RowType DEF Row, Entry
<1> QED
  BY <1>1, <1>2, RowType, NewRecordType

(* Whatever case _reconcile_remote takes, it leaves a record.              *)
LEMMA ReconcileType ==
    ASSUME NEW L, WellFormed(L), NEW remote \in ServerRow,
           NEW pushed \in BOOLEAN, NEW id \in Nat
    PROVE  Held(Reconcile(L, remote, pushed, id))
<1>1. CASE L.row = Absent
  <2>1. Reconcile(L, remote, pushed, id) = [L EXCEPT !.row = AsServer(remote)]
    BY <1>1 DEF Reconcile, Merges
  <2>2. [L EXCEPT !.row = AsServer(remote)] =
          [row |-> AsServer(remote), box |-> L.box, conflict |-> L.conflict]
    BY DEF WellFormed, Record
  <2> QED
    BY <2>1, <2>2, AsServerType, NewRecordType DEF WellFormed, Record
<1>2. CASE L.row # Absent
  <2>0. Held(L) /\ L \in Record
    BY <1>2 DEF Held, WellFormed
  <2>1. CASE Outdated(L, remote)
    BY <1>2, <2>0, <2>1 DEF Reconcile, Merges
  <2>2. CASE Merges(L, remote, pushed)
    <3>1. MergedRow(L, remote) \in Row
      <4>1. remote.payload \in Payload /\ remote.version \in Nat
        BY DEF ServerRow
      <4> QED
        BY <2>0, <4>1, RowType, MergedType, NewRowType DEF MergedRow, MergedWith
    <3>2. Reconcile(L, remote, pushed, id) =
            RetireConflicts(ReplaceOutbox(L, MergedRow(L, remote),
                ResolutionOp(L.row.payload, remote.payload), id))
      BY <1>2, <2>2 DEF Reconcile, Merges
    <3> QED
      BY <2>0, <3>1, <3>2, ResolutionOpType, ReplaceOutboxType, RetireConflictsType
  <2>3. CASE ~Outdated(L, remote) /\ ~Merges(L, remote, pushed)
    <3>1. \/ Reconcile(L, remote, pushed, id) = StoreConflict(L, remote)
          \/ Reconcile(L, remote, pushed, id) = Adopt(L, remote)
      BY <1>2, <2>3 DEF Reconcile, Merges
    <3> QED
      BY <2>0, <3>1, StoreConflictType, AdoptType
  <2> QED
    BY <2>1, <2>2, <2>3
<1> QED
  BY <1>1, <1>2

(* Whatever the server answers to a change, what is left is a record.      *)
LEMMA AfterAnswerType ==
    ASSUME NEW L, Held(L), NEW e \in Entry, NEW id \in Nat, NEW answer,
           answer.applied \in BOOLEAN, answer.version \in Nat,
           answer.remote \in ServerRow \cup {Absent}
    PROVE  Held(AfterAnswer(L, e, answer, id))
BY HeldIsWellFormed, AcknowledgeType, ReconcileType, StoreConflictType DEF AfterAnswer

(* A failed batch (record_failure) leaves a record.                        *)
LEMMA RecordFailureType ==
    ASSUME NEW L, WellFormed(L), NEW ids, NEW own, NEW retry \in Retry
    PROVE  /\ WellFormed(RecordFailure(L, ids, own, retry))
           /\ Held(L) => Held(RecordFailure(L, ids, own, retry))
<1> DEFINE box == {IF e.id \in ids THEN [e EXCEPT !.retry = retry] ELSE e : e \in L.box}
           mine == \E e \in L.box : e.id \in own
           row == IF mine /\ L.row.status # "conflict"
                  THEN [L.row EXCEPT !.status = IF retry = "never" THEN "failed" ELSE "pending"]
                  ELSE L.row
<1>1. RecordFailure(L, ids, own, retry) = [L EXCEPT !.box = box, !.row = row]
  BY DEF RecordFailure
<1>2. box \subseteq Entry
  <2>1. ASSUME NEW e \in Entry
        PROVE  [e EXCEPT !.retry = retry] \in Entry
    BY DEF Entry
  <2> QED
    BY <2>1 DEF WellFormed, Record
<1>3. CASE Held(L)
  <2>1. row \in Row
    BY <1>3, RowType DEF Row
  <2> QED
    BY <1>1, <1>2, <1>3, <2>1, RecordAssumption, HeldIsWellFormed DEF Held, Record
<1>4. CASE ~Held(L)
  <2>1. L.row = Absent /\ L.box = {} /\ ~L.conflict.open
    BY <1>4 DEF Held, WellFormed
  <2>2. row = Absent /\ box = {}
    BY <2>1
  <2> QED
    BY <1>1, <1>4, <2>1, <2>2 DEF WellFormed, Record
<1> QED
  BY <1>3, <1>4

(* A retry (retry_failed) leaves a record.                                 *)
LEMMA RetryFailedEntriesType ==
    ASSUME NEW L, WellFormed(L)
    PROVE  /\ WellFormed(RetryFailedEntries(L))
           /\ Held(L) => Held(RetryFailedEntries(L))
<1> DEFINE box == {[e EXCEPT !.retry = "due"] : e \in L.box}
           row == IF L.row # Absent /\ L.row.status = "failed"
                  THEN [L.row EXCEPT !.status = "pending"] ELSE L.row
<1>1. RetryFailedEntries(L) = [L EXCEPT !.box = box, !.row = row]
  BY DEF RetryFailedEntries
<1>2. box \subseteq Entry
  <2>1. ASSUME NEW e \in Entry
        PROVE  [e EXCEPT !.retry = "due"] \in Entry
    BY DEF Entry, Retry
  <2> QED
    BY <2>1 DEF WellFormed, Record
<1>3. CASE Held(L)
  <2>1. row \in Row
    BY <1>3, RowType DEF Row
  <2> QED
    BY <1>1, <1>2, <1>3, <2>1, RecordAssumption, HeldIsWellFormed DEF Held, Record
<1>4. CASE ~Held(L)
  <2>1. L.row = Absent /\ L.box = {} /\ ~L.conflict.open
    BY <1>4 DEF Held, WellFormed
  <2>2. row = Absent /\ box = {}
    BY <2>1
  <2> QED
    BY <1>1, <1>4, <2>1, <2>2 DEF WellFormed, Record
<1> QED
  BY <1>3, <1>4

(* An answer to a conflict about a record the server lacks leaves a        *)
(* record.                                                                 *)
LEMMA ResolveMissingType ==
    ASSUME NEW L, Held(L), NEW selected, NEW deleting \in BOOLEAN, NEW id \in Nat,
           ~deleting => selected \in Payload
    PROVE  Held(ResolveMissing(L, selected, deleting, id))
<1>0. L \in Record /\ "upsert" \in Operations
  BY DEF Held, Operations
<1>1. CASE deleting
  <2> DEFINE p == IF Deleted(L.row.payload) THEN L.row.payload
                  ELSE [L.row.payload EXCEPT ![DeletedAt] = AtDevice]
             row == [payload |-> p, rv |-> NoVersion, base |-> Absent, status |-> "synced"]
  <2>1. p \in Payload
    BY RowType, FieldsAssumption DEF Payload, Columns, Stamps
  <2>2. row \in Row
    BY <2>1 DEF Row, NoVersion
  <2>3. Held([L EXCEPT !.row = row, !.box = {}])
    BY <2>2, RecordAssumption DEF Held, Record
  <2>4. ResolveMissing(L, selected, deleting, id)
            = RetireConflicts([L EXCEPT !.row = row, !.box = {}])
    BY <1>1 DEF ResolveMissing
  <2> QED
    BY <2>3, <2>4, RetireConflictsType
<1>2. CASE ~deleting
  <2> DEFINE row == [payload |-> selected, rv |-> NoVersion, base |-> Absent,
                     status |-> "pending"]
  <2>1. row \in Row
    BY <1>2 DEF Row, NoVersion
  <2> QED
    BY <1>0, <1>2, <2>1, ReplaceOutboxType, RetireConflictsType DEF ResolveMissing
<1> QED
  BY <1>1, <1>2

(* An answer to a conflict with the server's row leaves a record.          *)
LEMMA ResolveAgainstType ==
    ASSUME NEW L, Held(L), NEW selected \in Payload, NEW remote \in ServerRow, NEW id \in Nat
    PROVE  Held(ResolveAgainst(L, selected, remote, id))
<1> DEFINE row == [payload |-> selected, rv |-> remote.version, base |-> remote.payload,
                   status |-> "pending"]
<1>1. row \in Row
  BY DEF Row, ServerRow
<1>2. L \in Record
  BY DEF Held
<1> QED
  BY <1>1, <1>2, AdoptType, ReplaceOutboxType, RetireConflictsType, ResolutionOpType
  DEF ResolveAgainst
-----------------------------------------------------------------------------
(* The ids of queued changes.  Of the transactions, only the ones that     *)
(* insert an outbox row bring in an id.                                    *)

Ids(box) == {e.id : e \in box}

\* M is L after a transaction that may have inserted rows under the ids new.
Keeps(L, M, new) == Ids(M.box) \subseteq Ids(L.box) \cup new

(* An outbox that only shrinks keeps its ids in range.                     *)
LEMMA SubsetKeeps ==
    ASSUME NEW L, NEW M, NEW new, M.box \subseteq L.box
    PROVE  Keeps(L, M, new)
BY DEF Keeps, Ids

(* The only id of an outbox of one new change is the one it was given.     *)
LEMMA NewEntryId ==
    ASSUME NEW op, NEW row, NEW id
    PROVE  NewEntry(op, row, id).id = id
BY DEF NewEntry

(* Queueing a change adds one id.                                          *)
LEMMA EnqueueKeeps ==
    ASSUME NEW L \in Record, NEW row, NEW op, NEW id
    PROVE  Keeps(L, Enqueue(L, row, op, id), {id})
<1>1. Enqueue(L, row, op, id).box = L.box \cup {NewEntry(op, row, id)}
  BY DEF Enqueue, Record
<1> QED
  BY <1>1, NewEntryId DEF Keeps, Ids

(* Replacing the queued changes leaves one id.                             *)
LEMMA ReplaceOutboxKeeps ==
    ASSUME NEW L \in Record, NEW row, NEW op, NEW id
    PROVE  Keeps(L, RetireConflicts(ReplaceOutbox(L, row, op, id)), {id})
<1>1. RetireConflicts(ReplaceOutbox(L, row, op, id)).box = {NewEntry(op, row, id)}
  BY DEF ReplaceOutbox, RetireConflicts, Record
<1> QED
  BY <1>1, NewEntryId DEF Keeps, Ids

(* A conflict leaves the ids alone.                                        *)
LEMMA StoreConflictKeeps ==
    ASSUME NEW L \in Record, NEW remote, NEW new
    PROVE  Keeps(L, StoreConflict(L, remote), new)
<1>1. StoreConflict(L, remote).box = L.box
  BY DEF StoreConflict, Record
<1> QED
  BY <1>1, SubsetKeeps

(* Taking the server's row leaves no ids.                                  *)
LEMMA AdoptKeeps ==
    ASSUME NEW L \in Record, NEW remote, NEW new
    PROVE  Keeps(L, Adopt(L, remote), new)
<1>1. Adopt(L, remote).box = {}
  BY DEF Adopt, RetireConflicts, Record
<1> QED
  BY <1>1, SubsetKeeps

(* An acknowledgement only removes ids.                                    *)
LEMMA AcknowledgeKeeps ==
    ASSUME NEW L \in Record, NEW e, NEW v, NEW new
    PROVE  Keeps(L, Acknowledge(L, e, v), new)
<1>1. Acknowledge(L, e, v).box \subseteq L.box
  BY DEF Acknowledge, Record
<1> QED
  BY <1>1, SubsetKeeps

(* _reconcile_remote adds no id but the one it is given.                   *)
LEMMA ReconcileKeeps ==
    ASSUME NEW L \in Record, NEW remote, NEW pushed, NEW id
    PROVE  Keeps(L, Reconcile(L, remote, pushed, id),
                 IF Merges(L, remote, pushed) THEN {id} ELSE {})
<1>1. CASE L.row = Absent
  <2>1. Reconcile(L, remote, pushed, id) = [L EXCEPT !.row = AsServer(remote)]
    BY <1>1 DEF Reconcile, Merges
  <2>2. [L EXCEPT !.row = AsServer(remote)].box = L.box
    BY DEF Record
  <2> QED
    BY <2>1, <2>2, SubsetKeeps
<1>2. CASE Merges(L, remote, pushed)
  <2>1. Reconcile(L, remote, pushed, id) =
            RetireConflicts(ReplaceOutbox(L, MergedRow(L, remote),
                ResolutionOp(L.row.payload, remote.payload), id))
    BY <1>2 DEF Reconcile, Merges
  <2> QED
    BY <1>2, <2>1, ReplaceOutboxKeeps
<1>3. CASE L.row # Absent /\ ~Merges(L, remote, pushed)
  <2>1. \/ Reconcile(L, remote, pushed, id) = L
        \/ Reconcile(L, remote, pushed, id) = StoreConflict(L, remote)
        \/ Reconcile(L, remote, pushed, id) = Adopt(L, remote)
    BY <1>3 DEF Reconcile, Merges
  <2> QED
    BY <2>1, SubsetKeeps, StoreConflictKeeps, AdoptKeeps
<1> QED
  BY <1>1, <1>2, <1>3

\* Whether an answer to a push makes the record take an outbox id.
AnswerMerges(L, answer) ==
    ~answer.applied /\ answer.remote # Absent /\ Merges(L, answer.remote, TRUE)

(* An answer to a change adds no id but the one it is given.               *)
LEMMA AfterAnswerKeeps ==
    ASSUME NEW L \in Record, NEW e, NEW answer, NEW id
    PROVE  Keeps(L, AfterAnswer(L, e, answer, id),
                 IF AnswerMerges(L, answer) THEN {id} ELSE {})
BY AcknowledgeKeeps, ReconcileKeeps, StoreConflictKeeps DEF AfterAnswer, AnswerMerges

(* Writing another retry into queued changes leaves their ids alone.       *)
LEMMA RecordFailureKeeps ==
    ASSUME NEW L \in Record, NEW ids, NEW own, NEW retry
    PROVE  Keeps(L, RecordFailure(L, ids, own, retry), {})
<1> DEFINE again(e) == IF e.id \in ids THEN [e EXCEPT !.retry = retry] ELSE e
<1>1. RecordFailure(L, ids, own, retry).box = {again(e) : e \in L.box}
  BY DEF RecordFailure, Record
<1>2. \A e \in L.box : again(e).id = e.id
  BY DEF Record, Entry
<1> HIDE DEF again
<1> QED
  BY <1>1, <1>2 DEF Keeps, Ids

(* A retry leaves the ids alone.                                           *)
LEMMA RetryFailedEntriesKeeps ==
    ASSUME NEW L \in Record
    PROVE  Keeps(L, RetryFailedEntries(L), {})
<1> DEFINE again(e) == [e EXCEPT !.retry = "due"]
<1>1. RetryFailedEntries(L).box = {again(e) : e \in L.box}
  BY DEF RetryFailedEntries, Record
<1>2. \A e \in L.box : again(e).id = e.id
  BY DEF Record, Entry
<1> HIDE DEF again
<1> QED
  BY <1>1, <1>2 DEF Keeps, Ids

(* An answer to a conflict about a missing record adds at most one id.     *)
LEMMA ResolveMissingKeeps ==
    ASSUME NEW L \in Record, NEW selected, NEW deleting \in BOOLEAN, NEW id
    PROVE  Keeps(L, ResolveMissing(L, selected, deleting, id), {id})
<1>1. CASE deleting
  <2>1. ResolveMissing(L, selected, deleting, id).box = {}
    BY <1>1 DEF ResolveMissing, RetireConflicts, Record
  <2> QED
    BY <2>1, SubsetKeeps
<1>2. CASE ~deleting
  BY <1>2, ReplaceOutboxKeeps DEF ResolveMissing
<1> QED
  BY <1>1, <1>2

(* An answer to a conflict with the server's row adds at most one id.      *)
LEMMA ResolveAgainstKeeps ==
    ASSUME NEW L \in Record, NEW selected, NEW remote, NEW id
    PROVE  Keeps(L, ResolveAgainst(L, selected, remote, id), {id})
BY AdoptKeeps, ReplaceOutboxKeeps DEF ResolveAgainst

-----------------------------------------------------------------------------
(* Types: the sync threads, what they send and receive, the conflict       *)
(* dialog and the cursor.                                                  *)

StoreInv == /\ local \in [Games -> Record]
            /\ \A g \in Games : WellFormed(local[g])
            /\ \A g \in Games : Ids(local[g].box) \subseteq OutboxIds

Sendable == [Games -> Entry \cup {Absent}]

Replies == {Absent} \cup (SUBSET Answer) \cup (SUBSET VersionedRow)
              \cup [row : ServerRow \cup {Absent}]

Thread == [pc      : {"idle", "register", "push", "pull", "ack", "acked", "fetch"},
           entries : Sendable, blamed : Sendable, retried : BOOLEAN, after : Nat,
           reply   : Replies]

\* A reply is one to the request the thread has sent.
ReplyFits(t) ==
    t.reply # Absent =>
       \/ /\ t.pc = "push" /\ t.reply \subseteq Answer
          /\ \A g \in Batch(t.entries) : \E a \in t.reply : a.game = g
       \/ t.pc = "pull" /\ t.reply \subseteq VersionedRow
       \/ t.pc = "fetch" /\ t.reply \in [row : ServerRow \cup {Absent}]

WorkerInv == worker \in [Workers -> Thread] /\ \A w \in Workers : ReplyFits(worker[w])

\* What a thread has pulled is within the clock.
PulledInv == \A w \in Workers :
    worker[w].pc = "pull" /\ worker[w].reply # Absent =>
        \A row \in worker[w].reply : row.version <= clock

VersionsInv == \A g \in Games : games[g] # Absent => games[g].version <= clock

\* What a thread sends is of records that are in the database.
EntriesInv == \A w \in Workers, g \in Games :
                worker[w].entries[g] # Absent => local[g].row # Absent

\* The dialog shows a record that is in the database; while its answer is being
\* fetched for, it is busy, and the answer to accept the absence of the record on
\* the server was given where there was none.
DialogInv ==
    /\ DOMAIN dialog = DOMAIN NoDialog
    /\ dialog.game \in Games \cup {Absent}
    /\ dialog.game # Absent => local[dialog.game].row # Absent
    /\ dialog.busy => /\ dialog.game # Absent
                      /\ dialog.selected \in Payload \cup {Absent}
                      /\ dialog.selected \notin Payload => dialog.remote = Absent
    /\ worker[active].pc = "fetch" => dialog.busy

Sends(batch) == batch \subseteq Request /\ IsFiniteSet(batch)

LateInv == \A batch \in late : Sends(batch)

TypeInv == /\ ServerTypeOK /\ VersionsInv /\ StoreInv
           /\ WorkerInv /\ PulledInv /\ EntriesInv /\ DialogInv /\ LateInv
           /\ cursor \in Nat /\ active \in Workers

(* The inductive invariant implies the invariant the runs check.           *)
LEMMA TypeInvImpliesTypeOK == TypeInv => TypeOK
BY DEF TypeInv, TypeOK, StoreInv, WorkerInv, Thread, Sendable, Sent

-----------------------------------------------------------------------------
(* A set of numbers that is not empty and is bounded has a largest one.    *)
LEMMA LargestExists ==
    ASSUME NEW N \in Nat, NEW S, S # {}, S \subseteq 1..N
    PROVE  \E m \in S : \A n \in S : n <= m
<1> DEFINE Above(n) == n .. N
           T == {Above(n) : n \in S}
<1>1. IsWellFoundedOn(StrictSubsetOrdering(1..N), SUBSET (1..N))
  <2>1. IsFiniteSet(1..N)
    BY FS_Interval
  <2>2. FiniteSubsetsOf(1..N) = SUBSET (1..N)
    BY <2>1, FS_FiniteSubsetsOfFinite
  <2>3. IsWellFoundedOn(StrictSubsetOrdering(1..N), FiniteSubsetsOf(1..N))
    BY FS_StrictSubsetOrderingWellFounded, Zenon
  <2> QED
    BY <2>2, <2>3, Zenon
<1>2. T \subseteq SUBSET (1..N) /\ T # {}
  <2>1. ASSUME NEW n \in S
        PROVE  Above(n) \in SUBSET (1..N)
    <3>1. n \in Nat /\ 1 <= n
      OBVIOUS
    <3> QED
      BY <3>1
  <2> HIDE DEF Above
  <2> QED
    BY <2>1
<1> HIDE DEF T
<1>3. PICK x \in T : \A y \in T : ~ (<<y, x>> \in StrictSubsetOrdering(1..N))
  BY <1>1, <1>2, WFMin
<1> USE DEF T
<1>4. PICK m \in S : x = Above(m)
  OBVIOUS
<1>5. \A n \in S : n <= m
  <2> SUFFICES ASSUME NEW n \in S, n > m
               PROVE  FALSE
    OBVIOUS
  <2>1. Above(n) \subseteq Above(m) /\ Above(n) # Above(m)
    OBVIOUS
  <2>2. Above(n) \in SUBSET (1..N) /\ Above(m) \in SUBSET (1..N)
    OBVIOUS
  <2> HIDE DEF Above
  <2>3. <<Above(n), Above(m)>> \in StrictSubsetOrdering(1..N)
    BY <2>1, <2>2 DEF StrictSubsetOrdering
  <2> QED
    BY <2>3, <1>3, <1>4
<1> QED
  BY <1>5

(* A set of queued changes that is not empty has a newest one: their ids   *)
(* are bounded.                                                            *)
LEMMA NewestExists ==
    ASSUME NEW box, box # {}, Ids(box) \subseteq OutboxIds
    PROVE  Newest(box) \in box /\ \A e \in box : e.id <= Newest(box).id
<1>1. MaxOutboxId \in Nat /\ Ids(box) \subseteq 1..MaxOutboxId /\ Ids(box) # {}
  BY BoundsAssumption DEF Ids, OutboxIds
<1>2. \E m \in Ids(box) : \A n \in Ids(box) : n <= m
  BY <1>1, LargestExists
<1>3. \E m \in box : \A e \in box : e.id <= m.id
  BY <1>2 DEF Ids
<1> QED
  BY <1>3 DEF Newest

(* fetch_due returns queued changes of records in the database.            *)
LEMMA FetchDueType ==
    ASSUME StoreInv
    PROVE  /\ FetchDue \in Sendable
           /\ \A g \in Games : FetchDue[g] # Absent => local[g].row # Absent
<1>1. ASSUME NEW g \in Games, Due(local[g])
      PROVE  [Newest(local[g].box) EXCEPT !.retry = "due"] \in Entry
  <2>1. Newest(local[g].box) \in Entry
    BY <1>1, NewestExists DEF StoreInv, Due, Record
  <2> QED
    BY <2>1 DEF Entry, Retry
<1>2. \A g \in Games : /\ FetchDue[g] \in Entry \cup {Absent}
                       /\ FetchDue[g] # Absent => Due(local[g])
  BY <1>1 DEF FetchDue, DueChanges, StoreInv
<1> QED
  BY <1>2 DEF FetchDue, DueChanges, Sendable, Due, StoreInv

(* A batch is finite: it holds at most one change of each record.          *)
LEMMA BatchIsFinite ==
    ASSUME NEW entries
    PROVE  Batch(entries) \subseteq Games /\ IsFiniteSet(Batch(entries))
BY GamesAssumption, FS_Subset DEF Batch

(* What build_game_change makes of a batch is a finite set of requests.    *)
LEMMA RequestsType ==
    ASSUME NEW entries \in Sendable
    PROVE  Sends(Requests(entries))
<1> DEFINE seq(g) == Cardinality({h \in Batch(entries) : entries[h].id <= entries[g].id})
<1>1. \A g \in Games : seq(g) \in Nat
  BY BatchIsFinite, FS_Subset, FS_CardinalityType
<1>2. ASSUME NEW g \in Batch(entries), NEW n \in Nat
      PROVE  RequestOf(g, entries[g], n) \in Request
  <2>1. g \in Games /\ entries[g] \in Entry
    BY DEF Batch, Sendable
  <2> QED
    BY <2>1 DEF RequestOf, RemoteOp, Request, Entry, Row
<1>3. Requests(entries) \subseteq Request
  BY <1>1, <1>2, BatchIsFinite DEF Requests
<1>4. IsFiniteSet(Requests(entries))
  <2> DEFINE f == [g \in Batch(entries) |-> RequestOf(g, entries[g], seq(g))]
  <2>1. f \in Surjection(Batch(entries), Requests(entries))
    BY DEF Requests, Surjection
  <2> QED
    BY <2>1, BatchIsFinite, FS_Surjection
<1> QED
  BY <1>3, <1>4 DEF Sends

-----------------------------------------------------------------------------
(* apply_game_changes.                                                     *)
LEMMA AcceptedIsFinite ==
    ASSUME NEW batch, Sends(batch)
    PROVE  /\ Accepted(batch) \subseteq batch /\ IsFiniteSet(Accepted(batch))
           /\ Cardinality(Accepted(batch)) \in Nat
BY FS_Subset, FS_CardinalityType DEF Accepted, Sends

(* A version given to an accepted change is beyond the clock and within    *)
(* the clock after the batch.                                              *)
LEMMA VersionGivenIsAhead ==
    ASSUME NEW batch, Sends(batch), clock \in Nat, NEW r \in Accepted(batch)
    PROVE  /\ VersionGiven(batch, r) \in Nat
           /\ VersionGiven(batch, r) > clock
           /\ VersionGiven(batch, r) <= clock + Cardinality(Accepted(batch))
<1> DEFINE upTo == {q \in Accepted(batch) : q.seq <= r.seq}
<1>1. IsFiniteSet(upTo) /\ Cardinality(upTo) \in Nat
      /\ Cardinality(upTo) <= Cardinality(Accepted(batch))
  BY AcceptedIsFinite, FS_Subset, FS_CardinalityType
<1>2. r \in upTo
  BY AcceptedIsFinite DEF Sends, Request
<1>3. Cardinality(upTo) # 0
  BY <1>1, <1>2, FS_EmptySet
<1> HIDE DEF upTo
<1>4. VersionGiven(batch, r) = clock + Cardinality(upTo)
  BY DEF VersionGiven, upTo
<1> QED
  BY <1>1, <1>3, <1>4, AcceptedIsFinite

(* What the server writes for an accepted request is a payload.            *)
LEMMA WrittenType ==
    ASSUME NEW batch, Sends(batch), ServerTypeOK, NEW r \in Accepted(batch)
    PROVE  Written(r) \in Payload
<1>1. r \in Request /\ Accepts(r)
  BY DEF Accepted, Sends
<1>2. CASE r.op = "delete"
  <2>1. games[r.game] \in ServerRow
    BY <1>1, <1>2 DEF Accepts, ServerTypeOK, Request
  <2> QED
    BY <1>2, <2>1, FieldsAssumption DEF Written, ServerRow, Payload, Columns, Stamps
<1>3. CASE r.op # "delete"
  BY <1>1, <1>3, FieldsAssumption DEF Written, LivePayload, Request, Payload, Columns, Stamps
<1> QED
  BY <1>2, <1>3

(* A batch moves the clock forward and stamps what it writes within it.    *)
LEMMA ApplyChangesType ==
    ASSUME NEW batch, Sends(batch), ServerTypeOK, ApplyChanges(batch)
    PROVE  /\ games' \in [Games -> ServerRow \cup {Absent}]
           /\ clock' \in Nat /\ clock <= clock'
           /\ past' \subseteq VersionedRow
           /\ \A g \in Games : games'[g] # games[g] =>
                /\ games'[g] \in ServerRow
                /\ games'[g].version > clock /\ games'[g].version <= clock'
<1>0. clock \in Nat /\ clock' = clock + Cardinality(Accepted(batch))
  BY DEF ServerTypeOK, ApplyChanges
<1>1. clock' \in Nat /\ clock <= clock'
  BY <1>0, AcceptedIsFinite
<1>2. ASSUME NEW g \in Games
      PROVE  \/ games'[g] = games[g]
             \/ /\ games'[g] \in ServerRow
                /\ games'[g].version > clock /\ games'[g].version <= clock'
  <2>1. CASE \E r \in Accepted(batch) : r.game = g
    <3> DEFINE r == CHOOSE r \in Accepted(batch) : r.game = g
    <3>1. r \in Accepted(batch)
      BY <2>1
    <3>2. games'[g] = [payload |-> Written(r), version |-> VersionGiven(batch, r)]
      BY <2>1 DEF ApplyChanges, Applied
    <3> HIDE DEF r
    <3>3. Written(r) \in Payload
      BY <3>1, WrittenType
    <3>4. VersionGiven(batch, r) \in Nat /\ VersionGiven(batch, r) > clock
          /\ VersionGiven(batch, r) <= clock'
      BY <1>0, <3>1, VersionGivenIsAhead
    <3> QED
      BY <1>0, <3>2, <3>3, <3>4 DEF ServerRow, NoVersion
  <2>2. CASE ~\E r \in Accepted(batch) : r.game = g
    BY <2>2 DEF ApplyChanges, Applied
  <2> QED
    BY <2>1, <2>2
<1>3. games' \in [Games -> ServerRow \cup {Absent}]
  BY <1>2 DEF ServerTypeOK, ApplyChanges, Applied
<1>4. past' \subseteq VersionedRow
  <2>1. RowsOf({g \in Games : games'[g] # games[g]}, games') \subseteq VersionedRow
    BY <1>2 DEF RowsOf, VersionedRow, ServerRow
  <2> QED
    BY <2>1 DEF ServerTypeOK, ApplyChanges
<1> QED
  BY <1>1, <1>2, <1>3, <1>4

(* What the server answers to a request is an answer.                      *)
LEMMA AnswerToType ==
    ASSUME NEW batch, Sends(batch), ServerTypeOK, NEW r \in batch
    PROVE  AnswerTo(batch, r) \in Answer /\ AnswerTo(batch, r).game = r.game
<1>1. r \in Request
  BY DEF Sends
<1>2. CASE Accepts(r)
  <2>1. VersionGiven(batch, r) \in Nat
    BY <1>2, VersionGivenIsAhead DEF Accepted, ServerTypeOK
  <2> QED
    BY <1>1, <1>2, <2>1 DEF AnswerTo, Answer, Request
<1>3. CASE ~Accepts(r)
  BY <1>1, <1>3 DEF AnswerTo, Answer, Request, NoVersion, ServerTypeOK
<1> QED
  BY <1>2, <1>3

(* A page of a pull holds versioned rows.                                  *)
LEMMA PageRowsType ==
    ASSUME ServerTypeOK, NEW after, NEW limit
    PROVE  RowsOf(Page(after, limit), games) \subseteq VersionedRow
<1>1. ASSUME NEW g \in Page(after, limit)
      PROVE  g \in Games /\ games[g] \in ServerRow
  BY DEF Page, Newer, ServerTypeOK
<1> QED
  BY <1>1 DEF RowsOf, VersionedRow, ServerRow

-----------------------------------------------------------------------------
(* The server: every step leaves its rows alone, or is one batch of        *)
(* changes.                                                                *)
LEMMA OneRequestSends ==
    ASSUME NEW r \in Request
    PROVE  Sends({r})
BY FS_Singleton DEF Sends

(* What another client sends is a request.                                 *)
LEMMA OtherRequestType ==
    ASSUME NEW g \in Games, NEW op \in {"create", "update", "restore", "delete"},
           NEW p \in Payload, NEW expected \in Nat
    PROVE  [game |-> g, seq |-> 1, op |-> op, expected |-> expected, payload |-> p] \in Request
BY DEF Request

(* A payload with one field changed is a payload.                          *)
LEMMA EditedType ==
    ASSUME NEW p \in Payload, NEW f \in Fields, NEW v \in Values
    PROVE  [p EXCEPT ![f] = v] \in Payload
BY FieldsAssumption DEF Payload, Columns

(* Every step of another client is a batch that the server applies.        *)
LEMMA OtherClientSends ==
    ASSUME TypeInv, NEW g \in Games, Others(g)
    PROVE  /\ \E batch : Sends(batch) /\ ApplyChanges(batch)
           /\ UNCHANGED <<acked, local, cursor, worker, active, dialog, late>>
<1> DEFINE r(op, p, v) == [game |-> g, seq |-> 1, op |-> op, expected |-> v, payload |-> p]
<1>1. ASSUME NEW op \in {"create", "update", "restore", "delete"},
             NEW p \in Payload, NEW v \in Nat, OtherClient(g, op, p, v)
      PROVE  /\ \E batch : Sends(batch) /\ ApplyChanges(batch)
             /\ UNCHANGED <<acked, local, cursor, worker, active, dialog, late>>
  <2>1. r(op, p, v) \in Request
    BY OtherRequestType
  <2>2. Sends({r(op, p, v)}) /\ ApplyChanges({r(op, p, v)})
    BY <1>1, <2>1, OneRequestSends DEF OtherClient
  <2> QED
    BY <1>1, <2>2 DEF OtherClient, storeUnchanged
<1>2. games[g] # Absent => games[g].payload \in Payload /\ games[g].version \in Nat
  BY DEF TypeInv, ServerTypeOK, ServerRow
<1>3. CASE OtherCreate(g)
  BY <1>1, <1>3 DEF OtherCreate, NoVersion
<1>4. CASE OtherUpdate(g)
  BY <1>1, <1>2, <1>4, EditedType DEF OtherUpdate
<1>5. CASE OtherDelete(g)
  BY <1>1, <1>2, <1>5 DEF OtherDelete
<1>6. CASE OtherRestore(g)
  BY <1>1, <1>2, <1>6 DEF OtherRestore
<1> QED
  BY <1>3, <1>4, <1>5, <1>6 DEF Others

(* The push of a thread is a batch that the server applies.                *)
LEMMA ServerPushSends ==
    ASSUME TypeInv, NEW w \in Workers, ServerPush(w)
    PROVE  Sends(Requests(worker[w].entries)) /\ ApplyChanges(Requests(worker[w].entries))
<1>1. worker[w].entries \in Sendable
  BY DEF TypeInv, WorkerInv, Thread
<1> QED
  BY <1>1, RequestsType DEF ServerPush

\* The steps that change rows or the clock.
Writes == UNCHANGED acked /\ \E batch : Sends(batch) /\ ApplyChanges(batch)

\* The steps that change what the device is known to have.
Acknowledges ==
    /\ UNCHANGED <<games, clock, past>>
    /\ \/ acked' = acked
       \/ acked = Absent /\ acked' = NoVersion
       \/ \E v \in Nat : MayAcknowledge(v) /\ acked' = v

(* How a step may touch the server: a batch, a registration, an            *)
(* acknowledgement.                                                        *)
LEMMA ServerSteps ==
    ASSUME TypeInv, [Next]_vars
    PROVE  Writes \/ Acknowledges
<1>1. CASE UNCHANGED vars
  BY <1>1 DEF vars, Acknowledges
<1>2. ASSUME NEW g \in Games, User(g)
      PROVE  Acknowledges
  BY <1>2 DEF User, InsertGame, UpdateGame, DeleteGame, ViewConflict, Save, serverUnchanged,
              Acknowledges
<1>3. ASSUME NEW g \in Games, Others(g)
      PROVE  Writes
  BY <1>3, OtherClientSends DEF Writes
<1>4. CASE RetryFailed \/ Submit \/ CloseDialog \/ Crash
           \/ \E g \in Games : \E e \in local[g].box : Elapse(g, e)
  BY <1>4 DEF RetryFailed, Submit, CloseDialog, Crash, Elapse, serverUnchanged, Acknowledges
<1>5. ASSUME NEW w \in Workers, Cycle(w)
      PROVE  Writes \/ Acknowledges
  <2>1. CASE ServerPush(w)
    BY <2>1, ServerPushSends DEF Writes, ServerPush
  <2>2. CASE Register(w)
    BY <2>2 DEF Register, RegisterDevice, Acknowledges
  <2>3. CASE ServerAck(w)
    <3>1. worker[w].after \in Nat
      BY DEF TypeInv, WorkerInv, Thread
    <3> QED
      BY <2>3, <3>1 DEF ServerAck, AcknowledgeVersion, Acknowledges
  <2>4. CASE \/ StartCycle(w) \/ ReceivePush(w) \/ ServerPull(w) \/ ReceivePull(w)
             \/ RefusePull(w) \/ RefuseAck(w) \/ FinishCycle(w)
    BY <2>4 DEF StartCycle, ReceivePush, ServerPull, ReceivePull, RefusePull, RefuseAck,
                FinishCycle, serverUnchanged, Acknowledges
  <2> QED
    BY <1>5, <2>1, <2>2, <2>3, <2>4 DEF Cycle
<1>6. ASSUME NEW w \in Workers, Answering(w) \/ Faults(w)
      PROVE  Acknowledges
  BY <1>6 DEF Answering, TakeResolution, ServerFetch, CancelFetch, ResolveStale, ResolveMoved,
              Resolve, Faults, FailCycle, RejectCycle, ExpireToken, EndSession, FailFetch, ReopenProfile,
              serverUnchanged, Acknowledges
<1>7. CASE ServerLate
  BY <1>7 DEF ServerLate, TypeInv, LateInv, Writes
<1> QED
  BY <1>1, <1>2, <1>3, <1>4, <1>5, <1>6, <1>7 DEF Next

(* Every step keeps the types of the server, and its clock does not go     *)
(* back.                                                                   *)
LEMMA ServerTypeStep ==
    ASSUME TypeInv, [Next]_vars
    PROVE  ServerTypeOK' /\ VersionsInv' /\ clock <= clock'
<1>1. CASE Writes
  <2>1. PICK batch : Sends(batch) /\ ApplyChanges(batch)
    BY <1>1 DEF Writes
  <2>2. /\ games' \in [Games -> ServerRow \cup {Absent}]
        /\ clock' \in Nat /\ clock <= clock'
        /\ past' \subseteq VersionedRow
        /\ \A g \in Games : games'[g] # games[g] => games'[g].version <= clock'
    BY <2>1, ApplyChangesType DEF TypeInv
  <2>3. ASSUME NEW g \in Games, games'[g] # Absent
        PROVE  games'[g].version <= clock'
    <3>1. CASE games'[g] # games[g]
      BY <2>2, <3>1
    <3>2. CASE games'[g] = games[g]
      <4>1. games[g] \in ServerRow /\ games[g].version <= clock /\ clock \in Nat
        BY <2>3, <3>2 DEF TypeInv, ServerTypeOK, VersionsInv
      <4> QED
        BY <2>2, <3>2, <4>1 DEF ServerRow
    <3> QED
      BY <3>1, <3>2
  <2> QED
    BY <1>1, <2>2, <2>3 DEF Writes, ServerTypeOK, VersionsInv, TypeInv
<1>2. CASE Acknowledges
  BY <1>2 DEF Acknowledges, TypeInv, ServerTypeOK, VersionsInv, NoVersion
<1> QED
  BY <1>1, <1>2, ServerSteps

-----------------------------------------------------------------------------
(* The database: every step leaves records of the right shape, with ids of *)
(* queued changes within bounds, and loses no row of games.                *)
RowsStay == \A g \in Games : local[g].row # Absent => local'[g].row # Absent

StoreStays == StoreInv' /\ RowsStay

(* A record that is held has a row.                                        *)
LEMMA HeldIsRow ==
    ASSUME StoreInv, NEW g \in Games
    PROVE  /\ local[g] \in Record /\ WellFormed(local[g])
           /\ local[g].row # Absent <=> Held(local[g])
           /\ local[g].box # {} \/ local[g].conflict.open => local[g].row # Absent
BY DEF StoreInv, Held, WellFormed

(* A step that leaves the database alone keeps what it promises.           *)
LEMMA SameStore == ASSUME StoreInv, UNCHANGED local PROVE StoreStays
BY DEF StoreInv, StoreStays, RowsStay

(* A transaction over many records keeps the database if it keeps each.    *)
LEMMA EachRecordStays ==
    ASSUME StoreInv, local' = [g \in Games |-> local'[g]],
           \A g \in Games : /\ WellFormed(local'[g])
                            /\ Held(local[g]) => Held(local'[g])
                            /\ Ids(local'[g].box) \subseteq OutboxIds
    PROVE  StoreStays
<1>1. \A g \in Games : local'[g] \in Record
  BY DEF WellFormed
<1>2. RowsStay
  BY HeldIsRow DEF RowsStay, Held
<1> QED
  BY <1>1, <1>2 DEF StoreStays, StoreInv

(* A transaction over one record keeps the database if it keeps that one.  *)
LEMMA OneRecordStays ==
    ASSUME StoreInv, NEW g \in Games, NEW M, Held(M), Ids(M.box) \subseteq OutboxIds,
           local' = [local EXCEPT ![g] = M]
    PROVE  StoreStays
<1>1. local' = [h \in Games |-> local'[h]]
  BY DEF StoreInv
<1>2. \A h \in Games : local'[h] = IF h = g THEN M ELSE local[h]
  BY DEF StoreInv
<1>3. ASSUME NEW h \in Games
      PROVE  /\ WellFormed(local'[h])
             /\ Held(local[h]) => Held(local'[h])
             /\ Ids(local'[h].box) \subseteq OutboxIds
  BY <1>2, HeldIsRow, HeldIsWellFormed DEF StoreInv
<1> QED
  BY <1>1, <1>3, EachRecordStays

(* Outbox ids are numbers.                                                 *)
LEMMA OutboxIdsType == OutboxIds \subseteq Nat
BY BoundsAssumption DEF OutboxIds

(* An edit of the user keeps the database.                                 *)
LEMMA SaveStays ==
    ASSUME StoreInv, NEW g \in Games, NEW p \in Payload, NEW op \in Operations, NEW rv \in Nat,
           NEW b \in Payload \cup {Absent}, Save(g, p, op, rv, b)
    PROVE  StoreStays
<1> DEFINE row == [payload |-> p, rv |-> rv, base |-> b, status |-> "pending"]
<1>1. PICK id \in OutboxIds : local' = [local EXCEPT ![g] = Enqueue(local[g], row, op, id)]
  BY DEF Save
<1>2. row \in Row /\ local[g] \in Record /\ id \in Nat
  BY NewRowType, OutboxIdsType DEF StoreInv
<1>3. Held(Enqueue(local[g], row, op, id))
  BY <1>2, EnqueueType
<1>4. Ids(Enqueue(local[g], row, op, id).box) \subseteq OutboxIds
  BY <1>2, EnqueueKeeps DEF Keeps, StoreInv
<1> HIDE DEF row
<1> QED
  BY <1>1, <1>3, <1>4, OneRecordStays

(* Every step of the user keeps the database.                              *)
LEMMA UserStays ==
    ASSUME StoreInv, NEW g \in Games, User(g)
    PROVE  StoreStays
<1> USE DEF Operations
<1>1. CASE InsertGame(g)
  BY <1>1, SaveStays DEF InsertGame, NoVersion
<1>2. CASE UpdateGame(g)
  <2>1. Held(local[g])
    BY <1>2, HeldIsRow DEF UpdateGame, Editable
  <2>2. PICK f \in Fields, v \in Values :
            Save(g, [local[g].row.payload EXCEPT ![f] = v], "upsert",
                 local[g].row.rv, local[g].row.base)
    BY <1>2 DEF UpdateGame
  <2>3. [local[g].row.payload EXCEPT ![f] = v] \in Payload
    BY <2>1, RowType, EditedType
  <2> QED
    BY <2>1, <2>2, <2>3, RowType, SaveStays
<1>3. CASE DeleteGame(g)
  <2>1. Held(local[g])
    BY <1>3, HeldIsRow DEF DeleteGame, Editable
  <2>2. [local[g].row.payload EXCEPT ![DeletedAt] = AtDevice] \in Payload
    BY <2>1, RowType, FieldsAssumption DEF Payload, Columns, Stamps
  <2> QED
    BY <1>3, <2>1, <2>2, RowType, SaveStays DEF DeleteGame
<1>4. CASE ViewConflict(g)
  BY <1>4, SameStore DEF ViewConflict, storeUnchanged
<1> QED
  BY <1>1, <1>2, <1>3, <1>4 DEF User

(* A retry the user asks for keeps the database.                           *)
LEMMA RetryFailedStays ==
    ASSUME StoreInv, RetryFailed
    PROVE  StoreStays
<1>1. local' = [g \in Games |-> RetryFailedEntries(local[g])]
  BY DEF RetryFailed
<1>2. ASSUME NEW g \in Games
      PROVE  /\ WellFormed(local'[g])
             /\ Held(local[g]) => Held(local'[g])
             /\ Ids(local'[g].box) \subseteq OutboxIds
  BY <1>1, HeldIsRow, RetryFailedEntriesType, RetryFailedEntriesKeeps DEF Keeps, StoreInv
<1> QED
  BY <1>1, <1>2, EachRecordStays

(* A retry time that passes keeps the database.                            *)
LEMMA ElapseStays ==
    ASSUME StoreInv, NEW g \in Games, NEW e \in local[g].box, Elapse(g, e)
    PROVE  StoreStays
<1> DEFINE again == [e EXCEPT !.retry = "due"]
           M == [local[g] EXCEPT !.box = (@ \ {e}) \cup {again}]
<1>1. Held(local[g]) /\ local[g] \in Record
  BY HeldIsRow
<1>2. again \in Entry /\ again.id = e.id
  BY <1>1 DEF Record, Entry, Retry
<1>3. Held(M)
  BY <1>1, <1>2 DEF Held, Record
<1>4. M.box = (local[g].box \ {e}) \cup {again}
  BY <1>1 DEF Record
<1>5. Ids(M.box) \subseteq OutboxIds
  BY <1>2, <1>4 DEF Ids, StoreInv
<1>6. local' = [local EXCEPT ![g] = M]
  BY DEF Elapse
<1> HIDE DEF M
<1> QED
  BY <1>3, <1>5, <1>6, OneRecordStays

(* Of the records that take an outbox id in one transaction each takes one *)
(* below the number of them.                                               *)
LEMMA PlaceIsBelow ==
    ASSUME NEW merging \in SUBSET Games, NEW order,
           \A g \in merging : order[g] \in Nat, NEW g \in merging
    PROVE  /\ Place(g, merging, order) \in Nat
           /\ Cardinality(merging) \in Nat
           /\ Place(g, merging, order) < Cardinality(merging)
<1> DEFINE before == {h \in merging : order[h] < order[g]}
<1>1. IsFiniteSet(merging) /\ Cardinality(merging) \in Nat
  BY GamesAssumption, FS_Subset, FS_CardinalityType
<1>2. before \subseteq merging /\ g \notin before
  OBVIOUS
<1>3. Cardinality(before) \in Nat /\ Cardinality(before) < Cardinality(merging)
  BY <1>1, <1>2, FS_Subset, FS_CardinalityType
<1> QED
  BY <1>1, <1>3 DEF Place

(* The ids a transaction gives out are within the bound.                   *)
LEMMA PlacedIdType ==
    ASSUME NEW merging \in SUBSET Games, NEW order,
           \A g \in merging : order[g] \in Nat, NEW g \in merging,
           NEW id \in OutboxIds, id + Cardinality(merging) <= MaxOutboxId + 1
    PROVE  id + Place(g, merging, order) \in OutboxIds
BY PlaceIsBelow, BoundsAssumption DEF OutboxIds

(* The place of a record in a transaction is a number below how many it    *)
(* merges.                                                                 *)
LEMMA PlaceType ==
    ASSUME NEW merging \in SUBSET Games, NEW order, NEW g
    PROVE  Place(g, merging, order) \in Nat
BY GamesAssumption, FS_Subset, FS_CardinalityType DEF Place

(* A failed or refused cycle (record_failure) keeps the database.          *)
LEMMA BlameStays ==
    ASSUME StoreInv, NEW w \in Workers, NEW retry \in Retry, Blame(w, retry)
    PROVE  StoreStays
<1> DEFINE ids == {worker[w].blamed[g].id : g \in Batch(worker[w].blamed)}
           own(g) == IF worker[w].blamed[g] = Absent THEN {} ELSE {worker[w].blamed[g].id}
<1>1. local' = [g \in Games |-> RecordFailure(local[g], ids, own(g), retry)]
  BY DEF Blame
<1> HIDE DEF ids, own
<1>2. ASSUME NEW g \in Games
      PROVE  /\ WellFormed(local'[g])
             /\ Held(local[g]) => Held(local'[g])
             /\ Ids(local'[g].box) \subseteq OutboxIds
  BY <1>1, HeldIsRow, RecordFailureType, RecordFailureKeeps DEF Keeps, StoreInv
<1> QED
  BY <1>1, <1>2, EachRecordStays

(* What is known of a thread.                                              *)
LEMMA ThreadType ==
    ASSUME TypeInv, NEW w \in Workers
    PROVE  /\ worker[w] \in Thread /\ ReplyFits(worker[w])
           /\ worker[w].entries \in Sendable /\ worker[w].blamed \in Sendable
           /\ worker[w].after \in Nat
BY DEF TypeInv, WorkerInv, Thread

(* The answers to a push (apply_push_results) keep the database.           *)
LEMMA ReceivePushStays ==
    ASSUME TypeInv, NEW w \in Workers, ReceivePush(w)
    PROVE  StoreStays
<1> DEFINE entries == worker[w].entries
           answer(g) == CHOOSE a \in worker[w].reply : a.game = g
           order == [g \in Batch(entries) |-> entries[g].id]
           merging == {g \in Batch(entries) :
                          /\ ~answer(g).applied /\ answer(g).remote # Absent
                          /\ Merges(local[g], answer(g).remote, TRUE)}
<1>1. PICK id \in OutboxIds :
        /\ id + Cardinality(merging) <= MaxOutboxId + 1
        /\ local' = [g \in Games |->
                IF entries[g] = Absent THEN local[g]
                ELSE AfterAnswer(local[g], entries[g], answer(g),
                                 id + Place(g, merging, order))]
  BY DEF ReceivePush
<1>2. merging \in SUBSET Games /\ merging \subseteq Batch(entries) /\ StoreInv
  BY DEF Batch, TypeInv
<1>3. ASSUME NEW g \in Batch(entries)
      PROVE  /\ g \in Games /\ entries[g] \in Entry /\ entries[g].id \in Nat
             /\ Held(local[g]) /\ local[g] \in Record
             /\ answer(g) \in Answer
  <2>1. g \in Games /\ entries[g] \in Entry
    BY ThreadType DEF Batch, Sendable
  <2>2. Held(local[g])
    BY <2>1, <1>2, HeldIsRow DEF TypeInv, EntriesInv, Batch
  <2>3. answer(g) \in Answer
    BY ThreadType DEF ReceivePush, ReplyFits
  <2> QED
    BY <2>1, <2>2, <2>3 DEF Entry, Held
<1>4. \A g \in merging : order[g] \in Nat
  BY <1>2, <1>3
<1> HIDE DEF entries, answer, order
<1>5. ASSUME NEW g \in Games
      PROVE  /\ WellFormed(local'[g])
             /\ Held(local[g]) => Held(local'[g])
             /\ Ids(local'[g].box) \subseteq OutboxIds
  <2>1. CASE entries[g] = Absent
    BY <1>1, <1>2, <2>1, HeldIsRow DEF StoreInv
  <2>2. CASE entries[g] # Absent
    <3> DEFINE place == id + Place(g, merging, order)
    <3>0. place \in Nat
      <4>1. id \in Nat /\ Place(g, merging, order) \in Nat
        BY <1>2, OutboxIdsType, PlaceType
      <4> QED
        BY <4>1
    <3>1. g \in Batch(entries)
      BY <2>2 DEF Batch
    <3>2. answer(g).applied \in BOOLEAN /\ answer(g).version \in Nat
          /\ answer(g).remote \in ServerRow \cup {Absent}
      BY <3>1, <1>3 DEF Answer
    <3>3. local'[g] = AfterAnswer(local[g], entries[g], answer(g), place)
      BY <1>1, <2>2
    <3>4. Held(local'[g])
      BY <1>3, <3>0, <3>1, <3>2, <3>3, AfterAnswerType
    <3>5. Ids(local'[g].box) \subseteq OutboxIds
      <4>0. Keeps(local[g], AfterAnswer(local[g], entries[g], answer(g), place),
                  IF AnswerMerges(local[g], answer(g)) THEN {place} ELSE {})
        <5> HIDE DEF place
        <5> QED
          BY <1>3, <3>1, AfterAnswerKeeps
      <4>1. Ids(local'[g].box) \subseteq
              Ids(local[g].box) \cup (IF AnswerMerges(local[g], answer(g)) THEN {place} ELSE {})
        <5> HIDE DEF place
        <5> QED
          BY <3>3, <4>0 DEF Keeps
      <4>2. AnswerMerges(local[g], answer(g)) => g \in merging
        BY <3>1 DEF AnswerMerges
      <4>3. g \in merging => place \in OutboxIds
        BY <1>1, <1>2, <1>4, PlacedIdType
      <4> QED
        BY <1>2, <4>1, <4>2, <4>3 DEF StoreInv
    <3> QED
      BY <3>4, <3>5, HeldIsWellFormed
  <2> QED
    BY <2>1, <2>2
<1> QED
  BY <1>1, <1>2, <1>5, EachRecordStays

(* A pulled page (apply_pull_batch) keeps the database.                    *)
LEMMA ReceivePullStays ==
    ASSUME TypeInv, NEW w \in Workers, ReceivePull(w)
    PROVE  StoreStays
<1> DEFINE rows == worker[w].reply
           row(g) == CHOOSE r \in rows : r.game = g
           remote(g) == [payload |-> row(g).payload, version |-> row(g).version]
           pulled == {r.game : r \in rows}
           order == [g \in pulled |-> row(g).version]
           merging == {g \in pulled : Merges(local[g], remote(g), FALSE)}
<1>1. PICK id \in OutboxIds :
        /\ id + Cardinality(merging) <= MaxOutboxId + 1
        /\ local' = [g \in Games |->
                IF g \in pulled
                THEN Reconcile(local[g], remote(g), FALSE, id + Place(g, merging, order))
                ELSE local[g]]
  BY DEF ReceivePull
<1>2. rows \subseteq VersionedRow
  BY ThreadType DEF ReceivePull, ReplyFits
<1>3. ASSUME NEW g \in pulled
      PROVE  g \in Games /\ row(g).version \in Nat /\ remote(g) \in ServerRow
  <2>1. row(g) \in rows
    OBVIOUS
  <2> HIDE DEF row
  <2> QED
    BY <1>2, <2>1 DEF VersionedRow, ServerRow
<1>4. /\ merging \in SUBSET Games /\ merging \subseteq pulled
      /\ \A g \in merging : order[g] \in Nat
      /\ StoreInv
  <2> HIDE DEF row, remote, pulled
  <2> QED
    BY <1>3 DEF TypeInv
<1> HIDE DEF rows, row, remote, pulled, order
<1>5. ASSUME NEW g \in Games
      PROVE  /\ WellFormed(local'[g])
             /\ Held(local[g]) => Held(local'[g])
             /\ Ids(local'[g].box) \subseteq OutboxIds
  <2>1. CASE g \notin pulled
    BY <1>1, <1>4, <2>1, HeldIsRow DEF StoreInv
  <2>2. CASE g \in pulled
    <3> DEFINE place == id + Place(g, merging, order)
    <3>0. place \in Nat
      <4>1. id \in Nat /\ Place(g, merging, order) \in Nat
        BY <1>4, OutboxIdsType, PlaceType
      <4> QED
        BY <4>1
    <3>1. WellFormed(local[g]) /\ local[g] \in Record
      BY <1>4, HeldIsRow
    <3>2. local'[g] = Reconcile(local[g], remote(g), FALSE, place)
      BY <1>1, <2>2
    <3>3. Held(local'[g])
      BY <1>3, <2>2, <3>0, <3>1, <3>2, ReconcileType
    <3>4. Ids(local'[g].box) \subseteq OutboxIds
      <4>1. Ids(local'[g].box) \subseteq
              Ids(local[g].box) \cup (IF Merges(local[g], remote(g), FALSE) THEN {place} ELSE {})
        BY <3>1, <3>2, ReconcileKeeps DEF Keeps
      <4>2. Merges(local[g], remote(g), FALSE) => g \in merging
        BY <2>2
      <4>3. g \in merging => place \in OutboxIds
        BY <1>1, <1>4, PlacedIdType
      <4> QED
        BY <1>4, <4>1, <4>2, <4>3 DEF StoreInv
    <3> QED
      BY <3>3, <3>4, HeldIsWellFormed
  <2> QED
    BY <2>1, <2>2
<1> QED
  BY <1>1, <1>4, <1>5, EachRecordStays

(* The dialog whose answer is being carried out.                           *)
LEMMA FetchingDialog ==
    ASSUME TypeInv, worker[active].pc = "fetch"
    PROVE  /\ dialog.busy /\ dialog.game \in Games
           /\ Held(local[dialog.game]) /\ local[dialog.game] \in Record
           /\ dialog.selected \in Payload \cup {Absent}
           /\ dialog.selected \notin Payload => dialog.remote = Absent
BY HeldIsRow DEF TypeInv, DialogInv, StoreInv

(* What a thread that fetches for an answer has fetched.                   *)
LEMMA FetchedType ==
    ASSUME TypeInv, NEW w \in Workers, Fetched(w)
    PROVE  worker[active].pc = "fetch" /\ Fresh(w) \in ServerRow \cup {Absent}
BY ThreadType DEF Fetched, Fresh, ReplyFits

(* A conflict that the server has moved meanwhile keeps the database.      *)
LEMMA ResolveMovedStays ==
    ASSUME TypeInv, NEW w \in Workers, ResolveMoved(w)
    PROVE  StoreStays
<1>0. StoreInv
  BY DEF TypeInv
<1>1. CASE UNCHANGED local
  BY <1>0, <1>1, SameStore
<1>2. CASE local' = [local EXCEPT ![dialog.game] = StoreConflict(@, Fresh(w))]
  <2>1. Held(local[dialog.game]) /\ local[dialog.game] \in Record /\ dialog.game \in Games
        /\ Fresh(w) \in ServerRow \cup {Absent}
    BY FetchedType, FetchingDialog DEF ResolveMoved
  <2>2. Held(StoreConflict(local[dialog.game], Fresh(w)))
    BY <2>1, StoreConflictType
  <2>3. Ids(StoreConflict(local[dialog.game], Fresh(w)).box) \subseteq OutboxIds
    <3>1. Keeps(local[dialog.game], StoreConflict(local[dialog.game], Fresh(w)), {})
      BY <2>1, StoreConflictKeeps
    <3> QED
      BY <1>0, <2>1, <3>1 DEF Keeps, StoreInv
  <2> QED
    BY <1>0, <1>2, <2>1, <2>2, <2>3, OneRecordStays
<1> QED
  BY <1>1, <1>2 DEF ResolveMoved

(* An answered conflict (resolve_conflict) keeps the database.             *)
LEMMA ResolveStays ==
    ASSUME TypeInv, NEW w \in Workers, Resolve(w)
    PROVE  StoreStays
<1> DEFINE L == local[dialog.game]
           M(id) == Resolved(L, dialog.selected, Fresh(w), id)
<1>0. StoreInv
  BY DEF TypeInv
<1>1. PICK id \in OutboxIds : local' = [local EXCEPT ![dialog.game] = M(id)]
  BY DEF Resolve
<1>2. /\ Held(L) /\ L \in Record /\ dialog.game \in Games
      /\ Fresh(w) \in ServerRow \cup {Absent}
      /\ dialog.selected \in Payload \cup {Absent}
      /\ dialog.selected \notin Payload => dialog.remote = Absent
  BY FetchedType, FetchingDialog DEF Resolve
<1>3. id \in Nat
  BY OutboxIdsType
<1>4. CASE Fresh(w) = Absent
  <2> DEFINE deleting == dialog.selected = Absent \/ Deleted(dialog.selected)
  <2>1. deleting \in BOOLEAN /\ (~deleting => dialog.selected \in Payload)
    BY <1>2 DEF Deleted
  <2>2. M(id) = ResolveMissing(L, dialog.selected, deleting, id)
    BY <1>4 DEF Resolved
  <2> HIDE DEF deleting
  <2>3. Held(M(id)) /\ Keeps(L, M(id), {id})
    BY <1>2, <1>3, <2>1, <2>2, ResolveMissingType, ResolveMissingKeeps
  <2> HIDE DEF M
  <2> QED
    BY <1>0, <1>1, <1>2, <2>3, OneRecordStays DEF Keeps, StoreInv
<1>5. CASE Fresh(w) # Absent
  <2>1. Fresh(w) \in ServerRow /\ dialog.selected \in Payload
    BY <1>2, <1>5 DEF Resolve, Converged, ServerRow
  <2>2. M(id) = ResolveAgainst(L, dialog.selected, Fresh(w), id)
    BY <1>5 DEF Resolved
  <2>3. Held(M(id)) /\ Keeps(L, M(id), {id})
    BY <1>2, <1>3, <2>1, <2>2, ResolveAgainstType, ResolveAgainstKeeps
  <2> HIDE DEF M
  <2> QED
    BY <1>0, <1>1, <1>2, <2>3, OneRecordStays DEF Keeps, StoreInv
<1> QED
  BY <1>4, <1>5

(* Every step keeps the database, and no row leaves it.                    *)
LEMMA StoreStep ==
    ASSUME TypeInv, [Next]_vars
    PROVE  StoreStays
<1>0. StoreInv
  BY DEF TypeInv
<1>1. CASE UNCHANGED vars
  BY <1>0, <1>1, SameStore DEF vars
<1>2. ASSUME NEW g \in Games, User(g)
      PROVE  StoreStays
  BY <1>0, <1>2, UserStays
<1>3. ASSUME NEW g \in Games, Others(g)
      PROVE  StoreStays
  BY <1>0, <1>3, OtherClientSends, SameStore
<1>4. ASSUME NEW g \in Games, NEW e \in local[g].box, Elapse(g, e)
      PROVE  StoreStays
  BY <1>0, <1>4, ElapseStays
<1>5. CASE RetryFailed
  BY <1>0, <1>5, RetryFailedStays
<1>6. CASE Submit \/ CloseDialog \/ Crash \/ ServerLate
  BY <1>0, <1>6, SameStore DEF Submit, CloseDialog, Crash, ServerLate, storeUnchanged
<1>7. ASSUME NEW w \in Workers, Cycle(w)
      PROVE  StoreStays
  <2>1. CASE ReceivePush(w)
    BY <2>1, ReceivePushStays
  <2>2. CASE ReceivePull(w)
    BY <2>2, ReceivePullStays
  <2>3. CASE RefuseAck(w)
    BY <1>0, <2>3, BlameStays DEF RefuseAck, GiveUp, Retry
  <2>4. CASE \/ StartCycle(w) \/ Register(w) \/ ServerPush(w) \/ ServerPull(w)
             \/ RefusePull(w) \/ ServerAck(w) \/ FinishCycle(w)
    BY <1>0, <2>4, SameStore DEF StartCycle, Register, ServerPush, ServerPull, RefusePull,
                                 ServerAck, FinishCycle, storeUnchanged
  <2> QED
    BY <1>7, <2>1, <2>2, <2>3, <2>4 DEF Cycle
<1>8. ASSUME NEW w \in Workers, Answering(w)
      PROVE  StoreStays
  <2>1. CASE ResolveMoved(w)
    BY <2>1, ResolveMovedStays
  <2>2. CASE Resolve(w)
    BY <2>2, ResolveStays
  <2>3. CASE TakeResolution(w) \/ ServerFetch(w) \/ CancelFetch(w) \/ ResolveStale(w)
    BY <1>0, <2>3, SameStore DEF TakeResolution, ServerFetch, CancelFetch, ResolveStale,
                                 storeUnchanged
  <2> QED
    BY <1>8, <2>1, <2>2, <2>3 DEF Answering
<1>9. ASSUME NEW w \in Workers, Faults(w)
      PROVE  StoreStays
  <2>1. CASE FailCycle(w) \/ RejectCycle(w)
    BY <1>0, <2>1, BlameStays DEF FailCycle, RejectCycle, GiveUp, Retry
  <2>2. CASE ExpireToken(w) \/ EndSession(w) \/ FailFetch(w) \/ ReopenProfile(w)
    BY <1>0, <2>2, SameStore DEF ExpireToken, EndSession, FailFetch, ReopenProfile, storeUnchanged
  <2> QED
    BY <1>9, <2>1, <2>2 DEF Faults
<1> QED
  BY <1>1, <1>2, <1>3, <1>4, <1>5, <1>6, <1>7, <1>8, <1>9 DEF Next

-----------------------------------------------------------------------------

(* What the invariant says of one thread.                                  *)
Sound(t) ==
    /\ t \in Thread /\ ReplyFits(t)
    /\ t.pc = "pull" /\ t.reply # Absent => \A row \in t.reply : row.version <= clock
    /\ \A g \in Games : t.entries[g] # Absent => local[g].row # Absent

(* Under the invariant, every thread is sound.                             *)
LEMMA ThreadsAreSound ==
    ASSUME TypeInv, NEW w \in Workers
    PROVE  Sound(worker[w])
BY DEF TypeInv, WorkerInv, PulledInv, EntriesInv, Sound

(* The empty batch.                                                        *)
LEMMA NoneToSend == [g \in Games |-> Absent] \in Sendable
BY DEF Sendable

(* A thread between two cycles is sound.                                   *)
LEMMA IdleIsSound == Sound(Idle)
BY NoneToSend DEF Sound, Idle, Thread, Replies, ReplyFits

(* The initial state has the types.                                        *)
LEMMA InitTypes == Init => TypeInv
<1> SUFFICES ASSUME Init PROVE TypeInv
  OBVIOUS
<1>1. ServerTypeOK /\ VersionsInv
  BY DEF Init, ServerInit, ServerTypeOK, VersionsInv
<1>2. StoreInv
  <2>1. Unknown.box = {} /\ Ids({}) = {} /\ Unknown \in Record
    BY UnknownType DEF Unknown, Ids, WellFormed
  <2> QED
    BY <2>1, UnknownType DEF Init, StoreInv
<1>3. WorkerInv /\ PulledInv /\ EntriesInv
  <2>1. Idle.reply = Absent /\ \A g \in Games : Idle.entries[g] = Absent
    BY DEF Idle
  <2> QED
    BY <2>1, IdleIsSound DEF Init, WorkerInv, PulledInv, EntriesInv, Sound
<1>4. DialogInv
  BY DEF Init, DialogInv, NoDialog, Idle
<1>5. LateInv /\ cursor \in Nat /\ active \in Workers
  BY DEF Init, LateInv
<1> QED
  BY <1>1, <1>2, <1>3, <1>4, <1>5 DEF TypeInv

-----------------------------------------------------------------------------
(* The threads.                                                            *)

(* A new cycle sends what is due.                                          *)
LEMMA NewCycleIsSound ==
    ASSUME TypeInv, NEW blamed \in Sendable, NEW retried \in BOOLEAN
    PROVE  Sound([Idle EXCEPT !.pc = "register", !.entries = FetchDue,
                              !.blamed = blamed, !.retried = retried])
<1>1. FetchDue \in Sendable /\ \A g \in Games : FetchDue[g] # Absent => local[g].row # Absent
  BY FetchDueType DEF TypeInv
<1> HIDE DEF FetchDue
<1> QED
  BY <1>1, NoneToSend DEF Sound, Idle, Thread, Replies, ReplyFits

(* A thread that sends its next request.                                   *)
LEMMA NextRequestIsSound ==
    ASSUME NEW t, Sound(t), NEW after \in Nat,
           NEW pc \in {"push", "pull", "ack", "acked"}
    PROVE  /\ Sound([t EXCEPT !.pc = pc, !.reply = Absent, !.after = after])
           /\ t.reply = Absent => Sound([t EXCEPT !.pc = pc, !.after = after])
           /\ t.reply = Absent => Sound([t EXCEPT !.pc = pc])
<1> USE DEF Sound, Thread, ReplyFits
<1>1. Absent \in Replies
  BY DEF Replies
<1>2. Sound([t EXCEPT !.pc = pc, !.reply = Absent, !.after = after])
  BY <1>1
<1>3. t.reply = Absent => Sound([t EXCEPT !.pc = pc, !.after = after])
  BY <1>1
<1>4. t.reply = Absent => Sound([t EXCEPT !.pc = pc])
  BY <1>1
<1> QED
  BY <1>2, <1>3, <1>4

(* A thread that has got the reply to its request.                         *)
LEMMA AnsweredIsSound ==
    ASSUME NEW t, Sound(t), NEW reply,
           \/ /\ t.pc = "push" /\ reply \subseteq Answer
              /\ \A g \in Batch(t.entries) : \E a \in reply : a.game = g
           \/ /\ t.pc = "pull" /\ reply \subseteq VersionedRow
              /\ \A row \in reply : row.version <= clock
           \/ t.pc = "fetch" /\ reply \in [row : ServerRow \cup {Absent}]
    PROVE  Sound([t EXCEPT !.reply = reply])
<1>1. reply \in Replies
  BY DEF Replies
<1> HIDE DEF Replies
<1> QED
  BY <1>1 DEF Sound, Thread, ReplyFits

(* Only a push, a pull and a fetch have replies.                           *)
LEMMA RequestToReply ==
    ASSUME TypeInv, NEW w \in Workers, worker[w].pc \in {"register", "ack", "acked", "idle"}
    PROVE  worker[w].reply = Absent
BY ThreadType DEF ReplyFits

(* The answers to a push fit the batch that was sent.                      *)
LEMMA ServerPushIsSound ==
    ASSUME TypeInv, NEW w \in Workers, ServerPush(w)
    PROVE  \E t : Goto(w, t) /\ Sound(t)
<1> DEFINE batch == Requests(worker[w].entries)
           reply == {AnswerTo(batch, r) : r \in batch}
<1>1. Sends(batch) /\ ServerTypeOK
  BY ServerPushSends DEF TypeInv
<1>2. ASSUME NEW r \in batch
      PROVE  AnswerTo(batch, r) \in Answer /\ AnswerTo(batch, r).game = r.game
  BY <1>1, AnswerToType
<1>3. ASSUME NEW g \in Batch(worker[w].entries)
      PROVE  \E r \in batch : r.game = g
  <2> DEFINE r == RequestOf(g, worker[w].entries[g],
                     Cardinality({h \in Batch(worker[w].entries) :
                                    worker[w].entries[h].id <= worker[w].entries[g].id}))
  <2>1. r \in batch
    BY <1>3 DEF Requests
  <2>2. r.game = g
    BY DEF RequestOf
  <2> QED
    BY <2>1, <2>2
<1>4. Goto(w, [worker[w] EXCEPT !.reply = reply]) /\ worker[w].pc = "push"
  BY DEF ServerPush
<1> HIDE DEF batch
<1>5. reply \subseteq Answer /\ \A g \in Batch(worker[w].entries) : \E a \in reply : a.game = g
  BY <1>2, <1>3
<1> HIDE DEF reply
<1> QED
  BY <1>4, <1>5, ThreadsAreSound, AnsweredIsSound

(* A pulled page holds versions within the clock.                          *)
LEMMA ServerPullIsSound ==
    ASSUME TypeInv, NEW w \in Workers, ServerPull(w)
    PROVE  \E t : Goto(w, t) /\ Sound(t)
<1> DEFINE reply == RowsOf(Page(worker[w].after, BatchSize), games)
<1>1. Goto(w, [worker[w] EXCEPT !.reply = reply]) /\ worker[w].pc = "pull"
  BY DEF ServerPull
<1>2. reply \subseteq VersionedRow
  BY PageRowsType DEF TypeInv
<1>3. \A row \in reply : row.version <= clock
  <2>1. \A g \in Page(worker[w].after, BatchSize) : games[g].version <= clock
    BY DEF Page, Newer, TypeInv, VersionsInv
  <2> QED
    BY <2>1 DEF RowsOf
<1> HIDE DEF reply
<1> QED
  BY <1>1, <1>2, <1>3, ThreadsAreSound, AnsweredIsSound

(* The fetched row fits the fetch.                                         *)
LEMMA ServerFetchIsSound ==
    ASSUME TypeInv, NEW w \in Workers, ServerFetch(w)
    PROVE  \E t : Goto(w, t) /\ Sound(t)
<1> DEFINE reply == [row |-> games[dialog.game]]
<1>1. Goto(w, [worker[w] EXCEPT !.reply = reply]) /\ worker[w].pc = "fetch"
  BY DEF ServerFetch
<1>2. reply \in [row : ServerRow \cup {Absent}]
  BY FetchingDialog DEF TypeInv, ServerTypeOK, ServerFetch
<1> HIDE DEF reply
<1> QED
  BY <1>1, <1>2, ThreadsAreSound, AnsweredIsSound

(* The cursor after a page is the largest version on it.                   *)
LEMMA AdvancedToType ==
    ASSUME TypeInv, NEW w \in Workers, worker[w].pc = "pull", worker[w].reply # Absent
    PROVE  AdvancedTo(w) \in Nat
<1> DEFINE rows == worker[w].reply
           versions == {row.version : row \in rows}
<1>1. rows \subseteq VersionedRow /\ clock \in Nat /\ \A row \in rows : row.version <= clock
  BY ThreadType DEF ReplyFits, TypeInv, PulledInv, ServerTypeOK
<1>2. CASE rows = {}
  BY <1>2 DEF AdvancedTo, TypeInv
<1>3. CASE rows # {}
  <2>1. versions # {} /\ versions \subseteq 1..clock
    BY <1>1, <1>3 DEF VersionedRow, NoVersion
  <2>2. \E m \in versions : \A n \in versions : n <= m
    BY <1>1, <2>1, LargestExists
  <2>3. \E m \in versions : \A row \in rows : row.version <= m
    BY <2>2
  <2>4. AdvancedTo(w) \in versions
    BY <1>3, <2>3 DEF AdvancedTo
  <2> QED
    BY <2>1, <2>4
<1> QED
  BY <1>2, <1>3

(* Every step of a cycle moves one thread to a sound state.                *)
LEMMA CycleMoves ==
    ASSUME TypeInv, NEW w \in Workers, Cycle(w)
    PROVE  \E t : Goto(w, t) /\ Sound(t)
<1>0. Sound(worker[w]) /\ Sound(Idle) /\ cursor \in Nat
  BY ThreadsAreSound, IdleIsSound DEF TypeInv
<1>1. CASE StartCycle(w)
  <2>1. /\ FetchDue \in Sendable
        /\ \A g \in Games : FetchDue[g] # Absent => local[g].row # Absent
    BY FetchDueType DEF TypeInv
  <2>2. Sound([Idle EXCEPT !.pc = "register", !.entries = FetchDue, !.blamed = FetchDue])
    BY <2>1, NoneToSend DEF Sound, Idle, Thread, Replies, ReplyFits
  <2> QED
    BY <1>1, <2>2 DEF StartCycle
<1>2. CASE Register(w)
  BY <1>0, <1>2, RequestToReply, NextRequestIsSound DEF Register
<1>3. CASE ServerPush(w)
  BY <1>3, ServerPushIsSound
<1>4. CASE ReceivePush(w)
  BY <1>0, <1>4, NextRequestIsSound DEF ReceivePush
<1>5. CASE ServerPull(w)
  BY <1>5, ServerPullIsSound
<1>6. CASE ReceivePull(w)
  <2>1. cursor' \in Nat
    BY <1>6, AdvancedToType DEF ReceivePull
  <2> QED
    BY <1>0, <1>6, <2>1, NextRequestIsSound DEF ReceivePull
<1>7. CASE RefusePull(w) \/ RefuseAck(w) \/ FinishCycle(w)
  BY <1>0, <1>7 DEF RefusePull, RefuseAck, GiveUp, FinishCycle
<1>8. CASE ServerAck(w)
  BY <1>0, <1>8, RequestToReply, NextRequestIsSound DEF ServerAck
<1> QED
  BY <1>1, <1>2, <1>3, <1>4, <1>5, <1>6, <1>7, <1>8 DEF Cycle

(* How the threads may move in a step.                                     *)
ThreadsMove ==
    \/ UNCHANGED worker
    \/ worker' = [w \in Workers |-> Idle]
    \/ \E w \in Workers : \E t : Goto(w, t) /\ Sound(t)

(* Every step moves the threads as ThreadsMove says.                       *)
LEMMA NextMoves == ASSUME TypeInv, [Next]_vars PROVE ThreadsMove
<1>1. CASE UNCHANGED vars
  BY <1>1 DEF vars, ThreadsMove
<1>2. ASSUME NEW g \in Games, User(g)
      PROVE  UNCHANGED worker
  BY <1>2 DEF User, InsertGame, UpdateGame, DeleteGame, ViewConflict, Save, syncUnchanged
<1>3. ASSUME NEW g \in Games, Others(g)
      PROVE  UNCHANGED worker
  BY <1>3, OtherClientSends
<1>4. CASE RetryFailed \/ Submit \/ CloseDialog \/ Crash \/ ServerLate
           \/ \E g \in Games : \E e \in local[g].box : Elapse(g, e)
  BY <1>4 DEF RetryFailed, Submit, CloseDialog, Crash, ServerLate, Elapse, syncUnchanged,
              ThreadsMove
<1>5. ASSUME NEW w \in Workers, Cycle(w)
      PROVE  ThreadsMove
  BY <1>5, CycleMoves DEF ThreadsMove
<1>6. ASSUME NEW w \in Workers, Answering(w)
      PROVE  ThreadsMove
  <2>1. CASE TakeResolution(w)
    <3>1. Sound([Idle EXCEPT !.pc = "fetch"])
      BY NoneToSend DEF Sound, Idle, Thread, Replies, ReplyFits
    <3> QED
      BY <2>1, <3>1 DEF TakeResolution, ThreadsMove
  <2>2. CASE ServerFetch(w)
    BY <2>2, ServerFetchIsSound DEF ThreadsMove
  <2>3. CASE CancelFetch(w) \/ ResolveStale(w) \/ ResolveMoved(w) \/ Resolve(w)
    BY <2>3, IdleIsSound DEF CancelFetch, ResolveStale, ResolveMoved, Resolve, ThreadsMove
  <2> QED
    BY <1>6, <2>1, <2>2, <2>3 DEF Answering
<1>7. ASSUME NEW w \in Workers, Faults(w)
      PROVE  ThreadsMove
  <2>1. CASE FailCycle(w) \/ RejectCycle(w) \/ EndSession(w) \/ FailFetch(w) \/ ReopenProfile(w)
    BY <2>1, IdleIsSound DEF FailCycle, RejectCycle, EndSession, GiveUp, FailFetch, ReopenProfile,
                             ThreadsMove
  <2>2. CASE ExpireToken(w)
    <3>1. Sound([Idle EXCEPT !.pc = "register", !.entries = FetchDue,
                             !.blamed = worker[w].blamed, !.retried = TRUE])
      BY NewCycleIsSound, ThreadType
    <3> QED
      BY <2>2, <3>1 DEF ExpireToken, ThreadsMove
  <2> QED
    BY <1>7, <2>1, <2>2 DEF Faults
<1> QED
  BY <1>1, <1>2, <1>3, <1>4, <1>5, <1>6, <1>7 DEF Next, ThreadsMove

(* The clock does not go back and no row leaves the database, so what is   *)
(* sound stays sound.                                                      *)
LEMMA SoundStays ==
    ASSUME TypeInv, [Next]_vars, NEW t, Sound(t)
    PROVE  Sound(t)'
<1>1. clock <= clock' /\ clock \in Nat /\ clock' \in Nat /\ RowsStay
  BY ServerTypeStep, StoreStep DEF StoreStays, TypeInv, ServerTypeOK
<1>2. ReplyFits(t)'
  BY DEF Sound, ReplyFits
<1>3. ASSUME t.pc = "pull", t.reply # Absent, NEW row \in t.reply
      PROVE  row.version <= clock'
  <2>1. row.version \in Nat /\ row.version <= clock
    BY <1>3 DEF Sound, ReplyFits, VersionedRow
  <2> QED
    BY <1>1, <2>1
<1>4. \A g \in Games : t.entries[g] # Absent => local'[g].row # Absent
  BY <1>1 DEF Sound, RowsStay
<1> QED
  BY <1>2, <1>3, <1>4 DEF Sound

(* Every step keeps the threads sound.                                     *)
LEMMA WorkerStep ==
    ASSUME TypeInv, [Next]_vars
    PROVE  WorkerInv' /\ PulledInv' /\ EntriesInv'
<1>1. worker \in [Workers -> Thread]
  BY DEF TypeInv, WorkerInv
<1>2. /\ worker' = [w \in Workers |-> worker'[w]]
      /\ \A w \in Workers : Sound(worker'[w])
  <2>1. CASE UNCHANGED worker
    BY <1>1, <2>1, ThreadsAreSound
  <2>2. CASE worker' = [w \in Workers |-> Idle]
    BY <2>2, IdleIsSound
  <2>3. ASSUME NEW w \in Workers, NEW t, Goto(w, t), Sound(t)
        PROVE  /\ worker' = [v \in Workers |-> worker'[v]]
               /\ \A v \in Workers : Sound(worker'[v])
    <3>1. worker' = [worker EXCEPT ![w] = t]
      BY <2>3 DEF Goto
    <3>2. worker' = [v \in Workers |-> worker'[v]]
          /\ \A v \in Workers : worker'[v] = IF v = w THEN t ELSE worker[v]
      BY <1>1, <3>1
    <3> QED
      BY <2>3, <3>2, ThreadsAreSound
  <2> QED
    BY <2>1, <2>2, <2>3, NextMoves DEF ThreadsMove
<1>3. \A w \in Workers : Sound(worker[w])'
  BY <1>2, SoundStays
<1> QED
  BY <1>2, <1>3 DEF Sound, WorkerInv, PulledInv, EntriesInv

-----------------------------------------------------------------------------
(* The dialog.                                                             *)
Fetching == worker[active].pc = "fetch"

(* Only the worker that takes an answer from the queue begins to fetch.    *)
LEMMA FetchingBegins ==
    ASSUME TypeInv, [Next]_vars, Fetching'
    PROVE  Fetching \/ \E w \in Workers : TakeResolution(w)
<1> DEFINE Begins == \E w \in Workers : TakeResolution(w)
<1> SUFFICES Fetching \/ Begins
  OBVIOUS
<1>0. active \in Workers /\ worker \in [Workers -> Thread]
  BY DEF TypeInv, WorkerInv
<1>1. ASSUME NEW w \in Workers, NEW t, Goto(w, t), active' = active,
             t.pc = "fetch" => worker[w].pc = "fetch"
      PROVE  Fetching
  BY <1>0, <1>1 DEF Goto, Fetching
<1>2. ASSUME UNCHANGED <<worker, active>>
      PROVE  Fetching
  BY <1>2 DEF Fetching
<1>3. CASE Crash
  BY <1>0, <1>3 DEF Crash, Fetching, Idle
<1>4. ASSUME NEW g \in Games, User(g) \/ Others(g)
      PROVE  Fetching
  BY <1>2, <1>4, OtherClientSends
     DEF User, InsertGame, UpdateGame, DeleteGame, ViewConflict, Save, syncUnchanged
<1>5. CASE RetryFailed \/ Submit \/ CloseDialog \/ ServerLate
           \/ \E g \in Games : \E e \in local[g].box : Elapse(g, e)
  BY <1>2, <1>5 DEF RetryFailed, Submit, CloseDialog, ServerLate, Elapse, syncUnchanged
<1>6. ASSUME NEW w \in Workers, Cycle(w)
      PROVE  Fetching
  <2>1. CASE StartCycle(w) \/ RefusePull(w) \/ RefuseAck(w) \/ FinishCycle(w)
    BY <1>1, <2>1 DEF StartCycle, RefusePull, RefuseAck, GiveUp, FinishCycle, Idle
  <2>2. CASE Register(w) \/ ReceivePush(w) \/ ReceivePull(w) \/ ServerAck(w)
    BY <1>0, <1>1, <2>2 DEF Register, ReceivePush, ReceivePull, ServerAck, Thread
  <2>3. CASE ServerPush(w) \/ ServerPull(w)
    BY <1>0, <1>1, <2>3 DEF ServerPush, ServerPull, Thread
  <2> QED
    BY <1>6, <2>1, <2>2, <2>3 DEF Cycle
<1>7. ASSUME NEW w \in Workers, Answering(w)
      PROVE  Fetching \/ Begins
  <2>1. CASE TakeResolution(w)
    BY <2>1
  <2>2. CASE ServerFetch(w)
    BY <2>2 DEF ServerFetch, Fetching
  <2>3. CASE CancelFetch(w) \/ ResolveStale(w) \/ ResolveMoved(w) \/ Resolve(w)
    BY <1>1, <2>3 DEF CancelFetch, ResolveStale, ResolveMoved, Resolve, Idle
  <2> QED
    BY <1>7, <2>1, <2>2, <2>3 DEF Answering
<1>8. ASSUME NEW w \in Workers, Faults(w)
      PROVE  Fetching
  <2>1. CASE FailCycle(w) \/ RejectCycle(w) \/ FailFetch(w) \/ ExpireToken(w) \/ EndSession(w)
    BY <1>1, <2>1 DEF FailCycle, RejectCycle, GiveUp, FailFetch, ExpireToken, EndSession, Idle
  <2>2. CASE ReopenProfile(w)
    BY <2>2 DEF ReopenProfile, Fetching
  <2> QED
    BY <1>8, <2>1, <2>2 DEF Faults
<1>9. CASE UNCHANGED vars
  BY <1>2, <1>9 DEF vars
<1> HIDE DEF Begins
<1> QED
  BY <1>3, <1>4, <1>5, <1>6, <1>7, <1>8, <1>9 DEF Next

(* A dialog that is left alone stays as it should be.                      *)
LEMMA DialogStays ==
    ASSUME DialogInv, RowsStay, dialog' = dialog, Fetching' => dialog.busy
    PROVE  DialogInv'
BY DEF DialogInv, RowsStay, Fetching

(* A closed dialog is as it should be.                                     *)
LEMMA DialogCloses ==
    ASSUME dialog' = NoDialog, ~Fetching'
    PROVE  DialogInv'
BY DEF DialogInv, NoDialog, Fetching

(* A reloaded dialog is as it should be.                                   *)
LEMMA DialogReloads ==
    ASSUME DialogInv, RowsStay, NEW remote, Reload(remote), ~Fetching'
    PROVE  DialogInv'
BY DEF DialogInv, NoDialog, RowsStay, Fetching, Reload

(* Every step keeps the dialog as it should be.                            *)
LEMMA DialogStep ==
    ASSUME TypeInv, [Next]_vars
    PROVE  DialogInv'
<1>0. DialogInv /\ RowsStay
  BY StoreStep DEF TypeInv, StoreStays
<1>1. CASE \E g \in Games : ViewConflict(g)
  <2>1. PICK g \in Games : ViewConflict(g)
    BY <1>1
  <2>2. local'[g].row # Absent
    BY <1>0, <2>1, HeldIsRow DEF ViewConflict, RowsStay, TypeInv
  <2>3. ~Fetching'
    BY <1>0, <2>1 DEF ViewConflict, DialogInv, NoDialog, Fetching
  <2> QED
    BY <2>1, <2>2, <2>3 DEF ViewConflict, DialogInv, NoDialog, Fetching
<1>2. CASE Submit
  <2>1. PICK p \in Selectable : dialog' = [dialog EXCEPT !.busy = TRUE, !.selected = p]
    BY <1>2 DEF Submit
  <2>2. p \in Payload \cup {Absent} /\ (p \notin Payload => dialog.remote = Absent)
    BY DEF Selectable
  <2> QED
    BY <1>0, <1>2, <2>1, <2>2 DEF Submit, DialogInv, NoDialog, RowsStay
<1>3. CASE CloseDialog
  BY <1>0, <1>3, DialogCloses DEF CloseDialog, DialogInv, Fetching
<1>4. CASE Crash
  <2>1. ~Fetching'
    BY <1>4 DEF Crash, Fetching, Idle, TypeInv
  <2> QED
    BY <1>4, <2>1, DialogCloses DEF Crash
<1>5. CASE UNCHANGED dialog
  <2>1. ASSUME Fetching'
        PROVE  dialog.busy
    BY <1>0, <2>1, FetchingBegins DEF TakeResolution, DialogInv, Fetching
  <2> QED
    BY <1>0, <1>5, <2>1, DialogStays
<1>6. ASSUME NEW w \in Workers, Goto(w, Idle), w = active, active' = active
      PROVE  ~Fetching'
  BY <1>6 DEF Goto, Fetching, Idle, TypeInv, WorkerInv
<1>7. ASSUME NEW w \in Workers, Answering(w)
      PROVE  DialogInv'
  <2>1. CASE TakeResolution(w)
    <3>1. CASE LocalMoved
      <4>1. Reload(RemoteSeen(local[dialog.game])) /\ ~Fetching'
        BY <2>1, <3>1 DEF TakeResolution, Fetching
      <4> QED
        BY <1>0, <4>1, DialogReloads
    <3>2. CASE ~LocalMoved
      BY <1>5, <2>1, <3>2 DEF TakeResolution
    <3> QED
      BY <3>1, <3>2
  <2>2. CASE ResolveStale(w)
    BY <1>0, <1>6, <2>2, DialogReloads DEF ResolveStale, Fetched
  <2>3. CASE ResolveMoved(w)
    BY <1>0, <1>6, <2>3, DialogReloads DEF ResolveMoved, Fetched
  <2>4. CASE Resolve(w)
    BY <1>6, <2>4, DialogCloses DEF Resolve, Fetched
  <2>5. CASE ServerFetch(w) \/ CancelFetch(w)
    BY <1>5, <2>5 DEF ServerFetch, CancelFetch
  <2> QED
    BY <1>7, <2>1, <2>2, <2>3, <2>4, <2>5 DEF Answering
<1>8. ASSUME NEW w \in Workers, Faults(w)
      PROVE  DialogInv'
  <2>1. CASE FailFetch(w)
    <3>1. ~Fetching'
      BY <1>6, <2>1 DEF FailFetch
    <3> QED
      BY <1>0, <2>1, <3>1 DEF FailFetch, DialogInv, NoDialog, RowsStay, Fetching
  <2>2. CASE ReopenProfile(w)
    BY <2>2, DialogCloses DEF ReopenProfile, Fetching
  <2>3. CASE FailCycle(w) \/ RejectCycle(w) \/ ExpireToken(w) \/ EndSession(w)
    BY <1>5, <2>3 DEF FailCycle, RejectCycle, ExpireToken, EndSession
  <2> QED
    BY <1>8, <2>1, <2>2, <2>3 DEF Faults
<1>9. ASSUME NEW w \in Workers, Cycle(w)
      PROVE  DialogInv'
  BY <1>5, <1>9 DEF Cycle, StartCycle, Register, ServerPush, ReceivePush, ServerPull,
                    ReceivePull, RefusePull, ServerAck, RefuseAck, FinishCycle
<1>10. ASSUME NEW g \in Games, User(g) \/ Others(g)
       PROVE  DialogInv'
  BY <1>1, <1>5, <1>10, OtherClientSends
     DEF User, InsertGame, UpdateGame, DeleteGame, Save, syncUnchanged
<1>11. CASE RetryFailed \/ ServerLate \/ \E g \in Games : \E e \in local[g].box : Elapse(g, e)
  BY <1>5, <1>11 DEF RetryFailed, ServerLate, Elapse, syncUnchanged
<1>12. CASE UNCHANGED vars
  BY <1>5, <1>12 DEF vars
<1> QED
  BY <1>2, <1>3, <1>4, <1>7, <1>8, <1>9, <1>10, <1>11, <1>12 DEF Next

-----------------------------------------------------------------------------
(* Requests that may arrive late are ones that a thread has sent.          *)
LEMMA LateStep ==
    ASSUME TypeInv, [Next]_vars
    PROVE  LateInv'
<1>0. LateInv /\ \A w \in Workers : Sends(Requests(worker[w].entries))
  BY ThreadType, RequestsType DEF TypeInv
<1>1. CASE late' \subseteq late \cup {Requests(worker[w].entries) : w \in Workers}
  BY <1>0, <1>1 DEF LateInv
<1>2. CASE UNCHANGED late
  BY <1>1, <1>2
<1>3. ASSUME NEW w \in Workers, Faults(w)
      PROVE  LateInv'
  <2>1. CASE FailCycle(w) \/ EndSession(w)
    BY <1>1, <2>1 DEF FailCycle, EndSession, MayArriveLate
  <2>2. CASE RejectCycle(w) \/ ExpireToken(w) \/ FailFetch(w) \/ ReopenProfile(w)
    BY <1>2, <2>2 DEF RejectCycle, ExpireToken, FailFetch, ReopenProfile
  <2> QED
    BY <1>3, <2>1, <2>2 DEF Faults
<1>4. CASE Crash
  BY <1>1, <1>4 DEF Crash
<1>5. CASE ServerLate
  BY <1>1, <1>5 DEF ServerLate
<1>6. ASSUME NEW w \in Workers, Cycle(w) \/ Answering(w)
      PROVE  LateInv'
  BY <1>2, <1>6 DEF Cycle, StartCycle, Register, ServerPush, ReceivePush, ServerPull,
                    ReceivePull, RefusePull, ServerAck, RefuseAck, FinishCycle,
                    Answering, TakeResolution, ServerFetch, CancelFetch, ResolveStale,
                    ResolveMoved, Resolve
<1>7. ASSUME NEW g \in Games, User(g) \/ Others(g)
      PROVE  LateInv'
  BY <1>2, <1>7, OtherClientSends
     DEF User, InsertGame, UpdateGame, DeleteGame, ViewConflict, Save, syncUnchanged
<1>8. CASE RetryFailed \/ Submit \/ CloseDialog \/ UNCHANGED vars
           \/ \E g \in Games : \E e \in local[g].box : Elapse(g, e)
  BY <1>2, <1>8 DEF RetryFailed, Submit, CloseDialog, Elapse, syncUnchanged, vars
<1> QED
  BY <1>3, <1>4, <1>5, <1>6, <1>7, <1>8 DEF Next

(* Every step keeps the cursor a number and the active thread a thread.    *)
LEMMA CursorStep ==
    ASSUME TypeInv, [Next]_vars
    PROVE  cursor' \in Nat /\ active' \in Workers
<1>0. cursor \in Nat /\ active \in Workers
  BY DEF TypeInv
<1>1. CASE UNCHANGED cursor /\ active' \in Workers
  BY <1>0, <1>1
<1>2. ASSUME NEW w \in Workers, Cycle(w)
      PROVE  cursor' \in Nat /\ active' \in Workers
  <2>1. CASE ReceivePull(w)
    BY <1>0, <2>1, AdvancedToType DEF ReceivePull
  <2>2. CASE ~ReceivePull(w)
    BY <1>0, <1>1, <1>2, <2>2
       DEF Cycle, StartCycle, Register, ServerPush, ReceivePush, ServerPull, RefusePull,
           ServerAck, RefuseAck, FinishCycle, storeUnchanged
  <2> QED
    BY <2>1, <2>2
<1>3. ASSUME NEW w \in Workers, Answering(w) \/ Faults(w)
      PROVE  cursor' \in Nat /\ active' \in Workers
  BY <1>0, <1>1, <1>3
     DEF Answering, TakeResolution, ServerFetch, CancelFetch, ResolveStale, ResolveMoved,
         Resolve, Faults, FailCycle, RejectCycle, ExpireToken, EndSession, FailFetch, ReopenProfile,
         storeUnchanged
<1>4. ASSUME NEW g \in Games, User(g) \/ Others(g)
      PROVE  cursor' \in Nat /\ active' \in Workers
  BY <1>0, <1>1, <1>4, OtherClientSends
     DEF User, InsertGame, UpdateGame, DeleteGame, ViewConflict, Save, syncUnchanged,
         storeUnchanged
<1>5. CASE RetryFailed \/ Submit \/ CloseDialog \/ Crash \/ ServerLate \/ UNCHANGED vars
           \/ \E g \in Games : \E e \in local[g].box : Elapse(g, e)
  BY <1>0, <1>1, <1>5 DEF RetryFailed, Submit, CloseDialog, Crash, ServerLate, Elapse,
                          syncUnchanged, storeUnchanged, vars
<1> QED
  BY <1>2, <1>3, <1>4, <1>5 DEF Next

-----------------------------------------------------------------------------
(* Every step keeps the invariant.                                         *)
LEMMA TypeInvStep == TypeInv /\ [Next]_vars => TypeInv'
BY ServerTypeStep, StoreStep, WorkerStep, DialogStep, LateStep, CursorStep
   DEF TypeInv, StoreStays

(* The invariant holds in every reachable state.                           *)
THEOREM TypeInvariance == Spec => []TypeInv
BY InitTypes, TypeInvStep, PTL DEF Spec

(* Every variable keeps its type, for any records, values, workers and     *)
(* bounds: in particular the queue holds well-formed changes of records    *)
(* that exist, and the cursor is a number (GameSync TypeOK).               *)
THEOREM TypeCorrect == Spec => []TypeOK
BY TypeInvariance, TypeInvImpliesTypeOK, PTL

-----------------------------------------------------------------------------
(* Versions: the clock, the cursor and the acknowledged version, whatever  *)
(* the threads do and whatever is lost or late.                            *)

(* Every change is stamped with a version beyond the clock before it and   *)
(* within the clock after it (0009 next_game_change_version, 0023          *)
(* apply_game_changes).                                                    *)
LEMMA ChangeStep ==
    ASSUME TypeInv, [Next]_vars, NEW g \in Games, games'[g] # games[g]
    PROVE  games'[g] # Absent /\ games'[g].version > clock /\ games'[g].version <= clock'
<1>1. Writes
  BY ServerSteps DEF Acknowledges
<1>2. PICK batch : Sends(batch) /\ ApplyChanges(batch)
  BY <1>1 DEF Writes
<1>3. /\ games'[g] \in ServerRow
      /\ games'[g].version > clock /\ games'[g].version <= clock'
  BY <1>2, ApplyChangesType DEF TypeInv
<1> QED
  BY <1>3, AbsentAssumption

(* No version hides below the clock at which it was given                  *)
(* (GameServer ChangesAreStampedAhead).                                    *)
THEOREM StampedAhead == Spec => ChangesAreStampedAhead
<1>1. TypeInv /\ [Next]_vars =>
        [\A g \in Games : games'[g] # games[g] =>
            games'[g] # Absent /\ games'[g].version > clock /\ games'[g].version <= clock'
        ]_serverVars
  BY ChangeStep
<1> QED
  BY <1>1, TypeInvariance, PTL DEF Spec, ChangesAreStampedAhead

-----------------------------------------------------------------------------
(* What the device acknowledges.  A thread holds a version to acknowledge  *)
(* between its pull and its acknowledgement; other threads of the device   *)
(* pull and acknowledge meanwhile.                                         *)
AckInv == /\ AckBehindCursor
          /\ \A w \in Workers : worker[w].pc = "ack" => worker[w].after <= cursor

(* At first nothing is acknowledged.                                       *)
LEMMA AckInit == Init => AckInv
BY DEF Init, ServerInit, AckInv, AckBehindCursor, Idle

(* A page that is taken moves the cursor forward, to a version that the    *)
(* server has given.                                                       *)
LEMMA ReceivePullAdvances ==
    ASSUME TypeInv, cursor <= clock, NEW w \in Workers, ReceivePull(w)
    PROVE  cursor <= cursor' /\ cursor' <= clock /\ cursor' \in Nat
<1> DEFINE rows == worker[w].reply
           versions == {row.version : row \in rows}
<1>0. worker[w].pc = "pull" /\ rows # Absent /\ PulledAhead(w) /\ cursor' = AdvancedTo(w)
  BY DEF ReceivePull
<1>1. rows \subseteq VersionedRow /\ clock \in Nat /\ cursor \in Nat
      /\ \A row \in rows : row.version <= clock /\ row.version > cursor
  BY <1>0, ThreadType DEF ReplyFits, TypeInv, PulledInv, ServerTypeOK, PulledAhead
<1>2. CASE rows = {}
  BY <1>0, <1>1, <1>2 DEF AdvancedTo
<1>3. CASE rows # {}
  <2>1. versions # {} /\ versions \subseteq 1..clock
    BY <1>1, <1>3 DEF VersionedRow, NoVersion
  <2>2. \E m \in versions : \A n \in versions : n <= m
    BY <1>1, <2>1, LargestExists
  <2>3. \E m \in versions : \A row \in rows : row.version <= m
    BY <2>2
  <2>4. AdvancedTo(w) \in versions
    BY <1>3, <2>3 DEF AdvancedTo
  <2>5. PICK row \in rows : AdvancedTo(w) = row.version
    BY <2>4
  <2> QED
    BY <1>0, <1>1, <2>1, <2>4, <2>5
<1> QED
  BY <1>2, <1>3

(* The steps that move none of the three, and begin no acknowledgement.    *)
AckStays ==
    /\ UNCHANGED <<acked, cursor>>
    /\ \A w \in Workers : worker'[w].pc = "ack" =>
          worker[w].pc = "ack" /\ worker'[w].after = worker[w].after

(* Every other step leaves the cursor and the acknowledged version alone.  *)
LEMMA AckSteps ==
    ASSUME TypeInv, [Next]_vars
    PROVE  AckStays \/ \E w \in Workers : Register(w) \/ ReceivePull(w) \/ ServerAck(w)
<1> DEFINE Others3 == \E w \in Workers : Register(w) \/ ReceivePull(w) \/ ServerAck(w)
<1> SUFFICES AckStays \/ Others3
  OBVIOUS
<1>0. worker \in [Workers -> Thread]
  BY DEF TypeInv, WorkerInv
<1>1. ASSUME NEW w \in Workers, NEW t, Goto(w, t), UNCHANGED <<acked, cursor>>, t.pc # "ack"
      PROVE  AckStays
  BY <1>0, <1>1 DEF Goto, AckStays
<1>2. ASSUME UNCHANGED <<worker, acked, cursor>>
      PROVE  AckStays
  BY <1>2 DEF AckStays
<1>3. CASE Crash
  BY <1>0, <1>3 DEF Crash, AckStays, Idle, serverUnchanged, storeUnchanged
<1>4. ASSUME NEW g \in Games, User(g) \/ Others(g)
      PROVE  AckStays
  BY <1>2, <1>4, OtherClientSends
     DEF User, InsertGame, UpdateGame, DeleteGame, ViewConflict, Save, syncUnchanged,
         serverUnchanged, storeUnchanged
<1>5. CASE RetryFailed \/ Submit \/ CloseDialog \/ ServerLate \/ UNCHANGED vars
           \/ \E g \in Games : \E e \in local[g].box : Elapse(g, e)
  BY <1>2, <1>5 DEF RetryFailed, Submit, CloseDialog, ServerLate, Elapse, syncUnchanged,
                    serverUnchanged, storeUnchanged, vars
<1>6. ASSUME NEW w \in Workers, Cycle(w)
      PROVE  AckStays \/ Others3
  <2>1. CASE StartCycle(w) \/ RefusePull(w) \/ RefuseAck(w) \/ FinishCycle(w)
    BY <1>1, <2>1 DEF StartCycle, RefusePull, RefuseAck, GiveUp, FinishCycle, Idle,
                      serverUnchanged, storeUnchanged
  <2>2. CASE ReceivePush(w)
    BY <1>0, <1>1, <2>2 DEF ReceivePush, Thread, serverUnchanged
  <2>3. CASE ServerPush(w) \/ ServerPull(w)
    BY <1>0, <1>1, <2>3 DEF ServerPush, ServerPull, Thread, serverUnchanged, storeUnchanged
  <2> QED
    BY <1>6, <2>1, <2>2, <2>3 DEF Cycle
<1>7. ASSUME NEW w \in Workers, Answering(w)
      PROVE  AckStays
  <2>1. CASE TakeResolution(w)
    BY <1>1, <1>2, <2>1 DEF TakeResolution, Idle, serverUnchanged, storeUnchanged
  <2>2. CASE ServerFetch(w)
    BY <1>0, <1>1, <2>2 DEF ServerFetch, Thread, serverUnchanged, storeUnchanged
  <2>3. CASE CancelFetch(w) \/ ResolveStale(w) \/ ResolveMoved(w) \/ Resolve(w)
    BY <1>1, <2>3 DEF CancelFetch, ResolveStale, ResolveMoved, Resolve, Idle,
                      serverUnchanged, storeUnchanged
  <2> QED
    BY <1>7, <2>1, <2>2, <2>3 DEF Answering
<1>8. ASSUME NEW w \in Workers, Faults(w)
      PROVE  AckStays
  <2>1. CASE FailCycle(w) \/ RejectCycle(w) \/ FailFetch(w) \/ ExpireToken(w) \/ EndSession(w)
    BY <1>1, <2>1 DEF FailCycle, RejectCycle, GiveUp, FailFetch, ExpireToken, EndSession, Idle,
                      serverUnchanged, storeUnchanged
  <2>2. CASE ReopenProfile(w)
    BY <1>2, <2>2 DEF ReopenProfile, serverUnchanged, storeUnchanged
  <2> QED
    BY <1>8, <2>1, <2>2 DEF Faults
<1> HIDE DEF Others3
<1> QED
  BY <1>3, <1>4, <1>5, <1>6, <1>7, <1>8 DEF Next

(* Every step keeps AckInv.                                                *)
LEMMA AckStep == TypeInv /\ AckInv /\ [Next]_vars => AckInv'
<1> SUFFICES ASSUME TypeInv, AckInv, [Next]_vars
             PROVE  AckInv'
  OBVIOUS
<1>0. /\ clock \in Nat /\ clock' \in Nat /\ clock <= clock' /\ cursor \in Nat
      /\ acked \in Nat \cup {Absent}
      /\ worker \in [Workers -> Thread]
      /\ \A w \in Workers : worker[w].after \in Nat
  BY ServerTypeStep, ThreadType DEF TypeInv, ServerTypeOK, WorkerInv
<1>1. CASE AckStays
  BY <1>0, <1>1 DEF AckStays, AckInv, AckBehindCursor
<1>2. ASSUME NEW w \in Workers, Register(w)
      PROVE  AckInv'
  <2>1. \A v \in Workers : worker'[v].pc = "ack" => worker'[v] = worker[v]
    BY <1>0, <1>2 DEF Register, Goto, Thread
  <2> QED
    BY <1>0, <1>2, <2>1 DEF Register, RegisterDevice, NoVersion, storeUnchanged,
                            AckInv, AckBehindCursor
<1>3. ASSUME NEW w \in Workers, ReceivePull(w)
      PROVE  AckInv'
  <2>1. cursor <= cursor' /\ cursor' <= clock /\ cursor' \in Nat
    BY <1>3, ReceivePullAdvances DEF AckInv, AckBehindCursor
  <2>2. \A v \in Workers : worker'[v] = IF v = w
            THEN [worker[w] EXCEPT !.pc = "ack", !.reply = Absent, !.after = cursor']
            ELSE worker[v]
    BY <1>0, <1>3 DEF ReceivePull, Goto
  <2>3. ASSUME NEW v \in Workers, worker'[v].pc = "ack"
        PROVE  worker'[v].after <= cursor'
    <3>1. CASE v = w
      <4>1. worker'[w].after = cursor'
        BY <1>0, <2>2 DEF Thread
      <4> QED
        BY <2>1, <3>1, <4>1
    <3>2. CASE v # w
      <4>1. worker[v].after <= cursor /\ worker[v].after \in Nat
        BY <1>0, <2>2, <2>3, <3>2 DEF AckInv
      <4> QED
        BY <1>0, <2>1, <2>2, <3>2, <4>1
    <3> QED
      BY <3>1, <3>2
  <2>4. clock' = clock /\ acked' = acked
    BY <1>3 DEF ReceivePull, serverUnchanged
  <2> QED
    BY <1>0, <2>1, <2>3, <2>4 DEF AckInv, AckBehindCursor
<1>4. ASSUME NEW w \in Workers, ServerAck(w)
      PROVE  AckInv'
  <2>1. \A v \in Workers : worker'[v].pc = "ack" => worker'[v] = worker[v]
    BY <1>0, <1>4 DEF ServerAck, Goto, Thread
  <2>2. acked' <= cursor /\ cursor' = cursor /\ clock' = clock
    BY <1>4 DEF ServerAck, AcknowledgeVersion, storeUnchanged, AckInv
  <2> QED
    BY <1>0, <2>1, <2>2 DEF AckInv, AckBehindCursor
<1> QED
  BY <1>1, <1>2, <1>3, <1>4, AckSteps

(* AckInv is an invariant.                                                 *)
LEMMA AckInvariance == Spec => [](TypeInv /\ AckInv)
<1>1. Init => TypeInv /\ AckInv
  BY InitTypes, AckInit
<1>2. TypeInv /\ AckInv /\ [Next]_vars => (TypeInv /\ AckInv)'
  BY TypeInvStep, AckStep
<1> QED
  BY <1>1, <1>2, PTL DEF Spec

(* The device never tells the server that it has a version it has not      *)
(* stored, and never stores a version beyond the server's clock, with any  *)
(* number of threads of it (GameSync AckBehindCursor).                     *)
THEOREM AcknowledgesWhatItHas == Spec => []AckBehindCursor
BY AckInvariance, PTL DEF AckInv

(* The acknowledged version never goes back (0023                          *)
(* acknowledge_device_version, GameServer AcknowledgementNeverRegresses).  *)
THEOREM AcknowledgesForward == Spec => AcknowledgementNeverRegresses
<1>1. TypeInv /\ AckInv /\ [Next]_vars =>
        [acked # Absent => acked' # Absent /\ acked <= acked' /\ acked' <= clock']_serverVars
  <2> SUFFICES ASSUME TypeInv, AckInv, [Next]_vars, acked # Absent
               PROVE  acked' # Absent /\ acked <= acked' /\ acked' <= clock'
    OBVIOUS
  <2>1. /\ acked \in Nat /\ acked <= clock /\ clock \in Nat
        /\ clock' \in Nat /\ clock <= clock'
    BY ServerTypeStep DEF AckInv, AckBehindCursor, TypeInv, ServerTypeOK
  <2>2. CASE Writes
    BY <2>1, <2>2 DEF Writes
  <2>3. CASE Acknowledges
    BY <2>1, <2>3, AbsentAssumption DEF Acknowledges, MayAcknowledge
  <2> QED
    BY <2>2, <2>3, ServerSteps
<1> QED
  BY <1>1, AckInvariance, PTL DEF Spec, AcknowledgementNeverRegresses

-----------------------------------------------------------------------------
(* What a record means.  P is the set of rows the server has ever stored.  *)

\* The server has had the record, in that version, as that row.
Seen(P, g) == \E p \in P : p.game = g
VersionSeen(P, g, v) == \E p \in P : p.game = g /\ p.version = v
RowSeen(P, g, remote) ==
    [game |-> g, payload |-> remote.payload, version |-> remote.version] \in P

\* A row whose base is what the server stored as version rv of the record, and
\* that has none where the server has never had it.
BoundTo(P, g, row) ==
    IF row.rv = NoVersion THEN row.base = Absent
    ELSE /\ row.base # Absent
         /\ \E p \in P : p.game = g /\ p.version = row.rv /\ SameRecord(row.base, p.payload)

\* A queued or sent change: it deletes exactly if its payload is deleted, so that
\* what the server writes for it is that payload.
EntrySound(P, g, e) ==
    /\ (e.op = "delete") <=> Deleted(e.snap.payload)
    /\ BoundTo(P, g, e.snap)

\* A record with changes queued: the newest of them is the row as it is now, a
\* deletion is the last, and the row is bound as its changes are.
IsNewest(e, box) == \A d \in box : d.id <= e.id

BoxSound(P, g, L) ==
    /\ \A e \in L.box : EntrySound(P, g, e)
    /\ \A e, d \in L.box : e.id = d.id => e = d
    /\ \A e \in L.box : IsNewest(e, L.box) => e.snap.payload = L.row.payload
    /\ \A e \in L.box : Deleted(e.snap.payload) => IsNewest(e, L.box)
    /\ L.box # {} => BoundTo(P, g, L.row)

\* A record with nothing queued is what its base says.  A record without one is a
\* deletion the user accepted of what the server says it does not have; the base
\* of a deletion may be newer than its version, because a delete of what is
\* already deleted is acknowledged without one.
RestSound(P, g, L) == L.box = {} =>
    /\ IF L.row.base = Absent THEN Deleted(L.row.payload) /\ g \in Foreign
                              ELSE SameRecord(L.row.base, L.row.payload)
    /\ BoundTo(P, g, L.row) \/ (Deleted(L.row.payload) /\ L.row.base # Absent)
    /\ ~L.conflict.open => L.row.status = "synced"

\* A conflict is about a record the server has had, or never will: one of another
\* account.
ConflictSound(P, g, L) == L.conflict.open =>
    /\ g \in Foreign \/ Seen(P, g)
    /\ L.conflict.remote # Absent => RowSeen(P, g, L.conflict.remote)

\* The version a record is kept under is one the server gave it.
VersionSound(P, g, L) == L.row.rv # NoVersion => VersionSeen(P, g, L.row.rv)

RecordSound(P, g, L) == L.row # Absent =>
    BoxSound(P, g, L) /\ RestSound(P, g, L) /\ ConflictSound(P, g, L) /\ VersionSound(P, g, L)

RecordsInv == \A g \in Games : RecordSound(past, g, local[g])

\* What the server has it has stored, once under each version, within the clock;
\* a record it has ever had it has still; the records of others it does not show.
HistoryInv ==
    /\ \A g \in Games : games[g] # Absent => RowSeen(past, g, games[g])
    /\ \A p \in past : p.version <= clock /\ games[p.game] # Absent
    /\ \A p, q \in past : p.game = q.game /\ p.version = q.version => p = q
    /\ \A g \in Foreign : games[g] = Absent

\* The answer to change e: done under a version that the server stored with this
\* very payload, nothing to delete, or refused with the row that refuses it.
AnswerFits(P, g, e, a) ==
    IF a.applied
    THEN IF a.version = NoVersion THEN Deleted(e.snap.payload)
         ELSE \E p \in P : /\ p.game = g /\ p.version = a.version
                           /\ ~Deleted(e.snap.payload) => SameRecord(e.snap.payload, p.payload)
    ELSE IF a.remote = Absent THEN g \in Foreign ELSE RowSeen(P, g, a.remote)

\* A pulled page has rows the server stored, one of each record.
PageFits(P, t) ==
    /\ t.reply \subseteq P
    /\ \A r, q \in t.reply : r.game = q.game => r = q

\* What a thread has sent and been answered.
RepliesFit(P, t) ==
    /\ \A g \in Games : t.entries[g] # Absent => EntrySound(P, g, t.entries[g])
    /\ t.pc = "push" /\ t.reply # Absent =>
          \A a \in t.reply : /\ a.game \in Games /\ t.entries[a.game] # Absent
                             /\ AnswerFits(P, a.game, t.entries[a.game], a)
    /\ t.pc = "pull" /\ t.reply # Absent => PageFits(P, t)

\* A page leaves nothing out: what the server has now between the version it was
\* asked from and any version on it is on it.
Complete(t) ==
    \A g \in Games, r \in t.reply :
        games[g] # Absent /\ games[g].version > t.after /\ games[g].version <= r.version =>
            [game |-> g, payload |-> games[g].payload, version |-> games[g].version] \in t.reply

\* A page is asked for from a version the cursor has reached.
PageComplete(t) ==
    t.pc = "pull" =>
        /\ t.after <= cursor
        /\ t.reply # Absent => Complete(t)

ThreadsInv == \A w \in Workers : RepliesFit(past, worker[w]) /\ PageComplete(worker[w])

\* The dialog is about a record the server may be asked for, and a fetched row is
\* what the server had of it.
FetchInv ==
    /\ dialog.game # Absent => dialog.game \in Foreign \/ Seen(past, dialog.game)
    /\ worker[active].pc = "fetch" /\ worker[active].reply # Absent =>
         IF worker[active].reply.row = Absent THEN dialog.game \in Foreign
         ELSE RowSeen(past, dialog.game, worker[active].reply.row)

\* The invariant of the synchronisation.
SyncInv == RecordsInv /\ HistoryInv /\ ThreadsInv /\ FetchInv /\ CursorCovers
(* Values that count as the same do so in any order, and along a chain.    *)
LEMMA EquivalentFacts ==
    ASSUME NEW c, NEW x, NEW y, NEW z
    PROVE  /\ Equivalent(c, x, x)
           /\ Equivalent(c, x, y) => Equivalent(c, y, x)
           /\ Equivalent(c, x, y) /\ Equivalent(c, y, z) => Equivalent(c, x, z)
BY DEF Equivalent

(* Two records are the same when every column counts as the same.          *)
LEMMA SameRecordColumns ==
    ASSUME NEW p, NEW q
    PROVE  SameRecord(p, q) <=> \A c \in Columns : Equivalent(c, p[c], q[c])
BY DEF SameRecord, Changed

(* Every record is the same as itself.                                     *)
LEMMA SameRecordReflexive ==
    ASSUME NEW p
    PROVE  SameRecord(p, p)
BY EquivalentFacts, SameRecordColumns

(* Records that are the same are deleted together.                         *)
LEMMA SameRecordDeleted ==
    ASSUME NEW p, NEW q, SameRecord(p, q)
    PROVE  Deleted(p) <=> Deleted(q)
<1>1. DeletedAt \in Columns
  BY DEF Columns
<1>2. Equivalent(DeletedAt, p[DeletedAt], q[DeletedAt])
  BY <1>1, SameRecordColumns
<1> QED
  BY <1>2 DEF Equivalent, Deleted

(* A merge that is queued is deleted exactly if this device's record is:   *)
(* _reconcile_remote works the operation out before it merges.             *)
LEMMA MergedDeleted ==
    ASSUME NEW b, NEW l, NEW r, ~Collides(b, l, r), ~SameRecord(Merged(b, l, r), r)
    PROVE  Deleted(Merged(b, l, r)) <=> Deleted(l)
<1> DEFINE m == Merged(b, l, r)
<1>1. DeletedAt \in Columns
  BY DEF Columns
<1>2. CASE DeletedAt \in Changed(b, l)
  <2>1. m[DeletedAt] = l[DeletedAt]
    BY <1>1, <1>2 DEF Merged
  <2> QED
    BY <2>1 DEF Deleted
<1>3. CASE DeletedAt \notin Changed(b, l) /\ DeletedAt \notin Changed(b, r)
  <2>1. m[DeletedAt] = r[DeletedAt]
    BY <1>1, <1>3 DEF Merged
  <2>2. Equivalent(DeletedAt, b[DeletedAt], l[DeletedAt])
    BY <1>1, <1>3 DEF Changed
  <2>3. Equivalent(DeletedAt, b[DeletedAt], r[DeletedAt])
    BY <1>1, <1>3 DEF Changed
  <2> QED
    BY <2>1, <2>2, <2>3 DEF Deleted, Equivalent
<1>4. CASE DeletedAt \notin Changed(b, l) /\ DeletedAt \in Changed(b, r)
  <2>1. Changed(b, l) = {}
    BY <1>4 DEF Collides
  <2>2. \A c \in Columns : m[c] = r[c]
    BY <2>1 DEF Merged
  <2>3. SameRecord(m, r)
    BY <2>2, EquivalentFacts, SameRecordColumns
  <2> QED
    BY <2>3
<1> QED
  BY <1>2, <1>3, <1>4

-----------------------------------------------------------------------------
(* What each transaction leaves of a record, column by column.             *)

(* Taking the server's row.                                                *)
LEMMA AdoptShape ==
    ASSUME NEW L \in Record, NEW remote
    PROVE  /\ Adopt(L, remote).row = AsServer(remote)
           /\ Adopt(L, remote).box = {}
           /\ ~Adopt(L, remote).conflict.open
BY DEF Adopt, RetireConflicts, Record, Conflict

(* Opening a conflict.                                                     *)
LEMMA StoreConflictShape ==
    ASSUME NEW L, Held(L), NEW remote
    PROVE  LET M == StoreConflict(L, remote)
           IN  /\ M.row.payload = L.row.payload
               /\ M.row.rv = L.row.rv /\ M.row.base = L.row.base
               /\ M.box = L.box
               /\ M.conflict.open /\ M.conflict.remote = remote
<1> DEFINE row == [L.row EXCEPT !.status = "conflict"]
           c == [n |-> IF L.conflict.open THEN L.conflict.n ELSE L.conflict.n + 1,
                 open |-> TRUE, remote |-> remote]
<1>1. StoreConflict(L, remote) = [L EXCEPT !.row = row, !.conflict = c]
  BY DEF StoreConflict
<1>2. row.payload = L.row.payload /\ row.rv = L.row.rv /\ row.base = L.row.base
  BY RowType DEF Row
<1> HIDE DEF row
<1> QED
  BY <1>1, <1>2 DEF Held, Record

(* A change that takes the place of the queued ones, and settles the       *)
(* conflict.                                                               *)
LEMMA ReplaceShape ==
    ASSUME NEW L \in Record, NEW row, NEW op, NEW id
    PROVE  LET M == RetireConflicts(ReplaceOutbox(L, row, op, id))
           IN  /\ M.row = row /\ M.box = {NewEntry(op, row, id)}
               /\ ~M.conflict.open
BY DEF ReplaceOutbox, RetireConflicts, Record, Conflict

(* An acknowledged change.                                                 *)
LEMMA AcknowledgeShape ==
    ASSUME NEW L, Held(L), NEW e \in Entry, NEW v \in Nat,
           Acknowledge(L, e, v) # L
    PROVE  LET M == Acknowledge(L, e, v)
           IN  /\ \E q \in L.box : q.id = e.id /\ q.snap = e.snap
               /\ v # NoVersion => L.row.rv <= v
               /\ M.row # Absent
               /\ M.row.payload = L.row.payload
               /\ M.row.base = e.snap.payload
               /\ M.row.rv = IF v = NoVersion THEN L.row.rv ELSE v
               /\ M.box = {q \in L.box : q.id > e.id}
               /\ M.box = {} => M.row.status = "synced"
               /\ M.conflict = L.conflict
<1> DEFINE rest == {q \in L.box : q.id > e.id}
           row == [L.row EXCEPT !.status = IF rest = {} THEN "synced" ELSE "pending",
                                !.rv     = IF v = NoVersion THEN @ ELSE v,
                                !.base   = e.snap.payload]
           sent == \E q \in L.box : q.id = e.id /\ q.snap = e.snap
<1>1. /\ sent /\ ~(v # NoVersion /\ L.row.rv > v)
      /\ Acknowledge(L, e, v) = [row |-> row, box |-> rest, conflict |-> L.conflict]
  BY DEF Acknowledge, Held, Record, Row
<1>2. /\ row.payload = L.row.payload /\ row.base = e.snap.payload
      /\ row.rv = IF v = NoVersion THEN L.row.rv ELSE v
      /\ row.status = IF rest = {} THEN "synced" ELSE "pending"
  BY RowType DEF Row
<1>3. v # NoVersion => L.row.rv <= v
  BY <1>1, RowType
<1>4. row # Absent
  <2>1. row \in Row
    BY RowType DEF Row, Entry
  <2> QED
    BY <2>1, RecordAssumption
<1> HIDE DEF row
<1> QED
  BY <1>1, <1>2, <1>3, <1>4
-----------------------------------------------------------------------------
(* What each transaction makes of what is known of a record.               *)

\* The device has version v of the record or a later one, or a conflict that
\* shows it.
Has(L, v) ==
    /\ L.row # Absent
    /\ \/ L.row.rv >= v
       \/ L.conflict.open /\ L.conflict.remote # Absent /\ L.conflict.remote.version >= v

\* What the device had of a record the server may have, it still has.
HasStill(g, L, M) == g \notin Foreign => \A v \in Nat : Has(L, v) => Has(M, v)

\* What the user changed and was not sent is as it was.
Untouched(L, M) ==
    \A c \in Unsent(L) :
        M.row # Absent /\ Equivalent(c, M.row.payload[c], L.row.payload[c])

(* The server only learns more: what was seen is seen.                     *)
LEMMA SeenStays ==
    ASSUME NEW P, NEW Q, P \subseteq Q, NEW g, NEW L, RecordSound(P, g, L)
    PROVE  RecordSound(Q, g, L)
<1>1. ASSUME NEW row, BoundTo(P, g, row)
      PROVE  BoundTo(Q, g, row)
  BY <1>1 DEF BoundTo
<1>2. ASSUME L.row # Absent
      PROVE  /\ BoxSound(Q, g, L) /\ RestSound(Q, g, L)
             /\ ConflictSound(Q, g, L) /\ VersionSound(Q, g, L)
  <2>1. BoxSound(Q, g, L)
    BY <1>1, <1>2 DEF RecordSound, BoxSound, EntrySound
  <2>2. RestSound(Q, g, L)
    BY <1>1, <1>2 DEF RecordSound, RestSound
  <2>3. ConflictSound(Q, g, L) /\ VersionSound(Q, g, L)
    BY <1>2 DEF RecordSound, ConflictSound, VersionSound, Seen, RowSeen, VersionSeen
  <2> QED
    BY <2>1, <2>2, <2>3
<1> QED
  BY <1>2 DEF RecordSound

(* A row bound to a version of the server has a version of the server.     *)
LEMMA BoundIsVersioned ==
    ASSUME NEW P, NEW g, NEW row, BoundTo(P, g, row), row.rv # NoVersion
    PROVE  VersionSeen(P, g, row.rv) /\ Seen(P, g)
BY DEF BoundTo, VersionSeen, Seen

(* What the server stored is a base for the version it stored it as.       *)
LEMMA RowSeenBinds ==
    ASSUME NEW P, NEW g, NEW remote \in ServerRow, RowSeen(P, g, remote), NEW row,
           row.rv = remote.version, row.base = remote.payload
    PROVE  BoundTo(P, g, row) /\ row.rv # NoVersion /\ row.base # Absent
<1> DEFINE p == [game |-> g, payload |-> remote.payload, version |-> remote.version]
<1>1. p \in P /\ p.game = g /\ p.version = row.rv /\ p.payload = row.base
  BY DEF RowSeen
<1>2. row.rv # NoVersion /\ row.base # Absent
  BY AbsentAssumption DEF ServerRow
<1> HIDE DEF p
<1> QED
  BY <1>1, <1>2, SameRecordReflexive DEF BoundTo

(* A record with one queued change that carries its row is sound.          *)
LEMMA OneChangeIsSound ==
    ASSUME NEW P, NEW g, NEW M, NEW op, NEW id \in Nat,
           M.box = {NewEntry(op, M.row, id)},
           (op = "delete") <=> Deleted(M.row.payload),
           BoundTo(P, g, M.row), ~M.conflict.open
    PROVE  RecordSound(P, g, M)
<1> DEFINE e == NewEntry(op, M.row, id)
<1>1. e.op = op /\ e.snap = M.row /\ e.id = id
  BY DEF NewEntry
<1> HIDE DEF e
<1>2. M.box = {e}
  BY DEF e
<1>3. BoxSound(P, g, M)
  BY <1>1, <1>2 DEF BoxSound, EntrySound, IsNewest
<1>4. RestSound(P, g, M) /\ ConflictSound(P, g, M)
  BY <1>2 DEF RestSound, ConflictSound
<1>5. VersionSound(P, g, M)
  BY BoundIsVersioned DEF VersionSound
<1> QED
  BY <1>3, <1>4, <1>5 DEF RecordSound

(* An edit of the user is queued (db.py).                                  *)
LEMMA EnqueueSound ==
    ASSUME NEW P, NEW g, NEW L, WellFormed(L), RecordSound(P, g, L),
           NEW row \in Row, NEW op \in Operations, NEW id \in Nat,
           \A e \in L.box : e.id < id,
           (op = "delete") <=> Deleted(row.payload),
           L.row = Absent => row.rv = NoVersion /\ row.base = Absent,
           L.row # Absent => /\ ~Deleted(L.row.payload)
                             /\ row.rv = L.row.rv /\ row.base = L.row.base
    PROVE  /\ RecordSound(P, g, Enqueue(L, row, op, id))
           /\ HasStill(g, L, Enqueue(L, row, op, id))
<1> DEFINE M == Enqueue(L, row, op, id)
           new == NewEntry(op, row, id)
<1>1. M.row = row /\ M.box = L.box \cup {new} /\ M.conflict = L.conflict
  BY DEF Enqueue, WellFormed, Record
<1>2. new.id = id /\ new.op = op /\ new.snap = row
  BY DEF NewEntry
<1>3. row # Absent /\ L.box \subseteq Entry /\ \A e \in L.box : e.id \in Nat
  BY RecordAssumption DEF WellFormed, Record, Entry
<1> HIDE DEF M, new
<1>4. BoundTo(P, g, row)
  <2>1. CASE L.row = Absent
    BY <2>1 DEF BoundTo
  <2>2. CASE L.row # Absent
    <3>1. BoundTo(P, g, L.row)
      BY <2>2 DEF RecordSound, BoxSound, RestSound
    <3> QED
      BY <2>2, <3>1 DEF BoundTo
  <2> QED
    BY <2>1, <2>2
<1>5. ASSUME NEW e \in L.box
      PROVE  ~IsNewest(e, M.box) /\ ~Deleted(e.snap.payload) /\ EntrySound(P, g, e)
  <2>1. L.row # Absent /\ BoxSound(P, g, L)
    BY DEF WellFormed, RecordSound
  <2>2. e.id \in Nat /\ e.id < id
    BY <1>3
  <2>3. ~IsNewest(e, M.box)
    BY <1>1, <1>2, <2>2 DEF IsNewest
  <2>4. ~Deleted(e.snap.payload)
    BY <2>1 DEF BoxSound
  <2> QED
    BY <2>1, <2>3, <2>4 DEF BoxSound
<1>6. IsNewest(new, M.box)
  BY <1>1, <1>2, <1>3 DEF IsNewest
<1>7. BoxSound(P, g, M)
  <2>1. \A e \in M.box : EntrySound(P, g, e)
    BY <1>1, <1>2, <1>4, <1>5 DEF EntrySound
  <2>2. ASSUME NEW e \in M.box, NEW d \in M.box, e.id = d.id
        PROVE  e = d
    <3>1. CASE e \in L.box /\ d \in L.box
      <4>1. BoxSound(P, g, L)
        BY <3>1 DEF WellFormed, RecordSound
      <4> QED
        BY <2>2, <3>1, <4>1 DEF BoxSound
    <3>2. CASE e = new /\ d = new
      BY <3>2
    <3>3. CASE e = new /\ d \in L.box
      BY <1>2, <1>3, <2>2, <3>3
    <3>4. CASE e \in L.box /\ d = new
      BY <1>2, <1>3, <2>2, <3>4
    <3> QED
      BY <1>1, <3>1, <3>2, <3>3, <3>4
  <2>3. \A e \in M.box : IsNewest(e, M.box) => e.snap.payload = M.row.payload
    BY <1>1, <1>2, <1>5
  <2>4. \A e \in M.box : Deleted(e.snap.payload) => IsNewest(e, M.box)
    BY <1>1, <1>5, <1>6
  <2>5. BoundTo(P, g, M.row)
    BY <1>1, <1>4
  <2> QED
    BY <2>1, <2>2, <2>3, <2>4, <2>5 DEF BoxSound
<1>8. RestSound(P, g, M)
  BY <1>1 DEF RestSound
<1>9. ConflictSound(P, g, M)
  <2>1. L.row # Absent => ConflictSound(P, g, L)
    BY DEF RecordSound
  <2>2. L.row = Absent => ~L.conflict.open
    BY DEF WellFormed
  <2> QED
    BY <1>1, <2>1, <2>2 DEF ConflictSound
<1>10. VersionSound(P, g, M)
  BY <1>1, <1>4, BoundIsVersioned DEF VersionSound
<1>11. HasStill(g, L, M)
  BY <1>1, <1>3 DEF HasStill, Has
<1> QED
  BY <1>7, <1>8, <1>9, <1>10, <1>11 DEF RecordSound, M

(* The server's row replaces the record (_apply_remote_row).               *)
LEMMA AdoptSound ==
    ASSUME NEW P, NEW g, NEW L \in Record, NEW remote \in ServerRow, RowSeen(P, g, remote)
    PROVE  RecordSound(P, g, Adopt(L, remote))
<1> DEFINE M == Adopt(L, remote)
<1>1. M.row = AsServer(remote) /\ M.box = {} /\ ~M.conflict.open
  BY AdoptShape
<1> HIDE DEF M
<1>2. /\ M.row.payload = remote.payload /\ M.row.base = remote.payload
      /\ M.row.rv = remote.version /\ M.row.status = "synced"
  BY <1>1 DEF AsServer
<1>3. BoundTo(P, g, M.row) /\ M.row.rv # NoVersion /\ M.row.base # Absent
  BY <1>2, RowSeenBinds
<1>4. BoxSound(P, g, M) /\ ConflictSound(P, g, M)
  BY <1>1 DEF BoxSound, ConflictSound
<1>5. RestSound(P, g, M)
  BY <1>2, <1>3, SameRecordReflexive DEF RestSound
<1>6. VersionSound(P, g, M)
  BY <1>3, BoundIsVersioned DEF VersionSound
<1> QED
  BY <1>4, <1>5, <1>6 DEF RecordSound, M

(* A conflict is opened or updated (_store_conflict).                      *)
LEMMA StoreConflictSound ==
    ASSUME NEW P, NEW g, NEW L, Held(L), RecordSound(P, g, L),
           NEW remote \in ServerRow \cup {Absent},
           remote = Absent => g \in Foreign,
           remote # Absent => RowSeen(P, g, remote)
    PROVE  /\ RecordSound(P, g, StoreConflict(L, remote))
           /\ Untouched(L, StoreConflict(L, remote))
<1> DEFINE M == StoreConflict(L, remote)
<1>0. L.row # Absent
  BY DEF Held
<1>1. /\ M.row.payload = L.row.payload
      /\ M.row.rv = L.row.rv /\ M.row.base = L.row.base
      /\ M.box = L.box /\ M.conflict.open /\ M.conflict.remote = remote
      /\ M.row # Absent
  <2>1. M.row # Absent
    BY StoreConflictType DEF Held
  <2> QED
    BY <2>1, StoreConflictShape
<1> HIDE DEF M
<1>2. BoxSound(P, g, M)
  BY <1>0, <1>1 DEF RecordSound, BoxSound, BoundTo
<1>3. RestSound(P, g, M)
  BY <1>0, <1>1 DEF RecordSound, RestSound, BoundTo
<1>4. ConflictSound(P, g, M)
  BY <1>1 DEF ConflictSound, Seen, RowSeen
<1>5. VersionSound(P, g, M)
  BY <1>0, <1>1 DEF RecordSound, VersionSound
<1>6. Untouched(L, M)
  BY <1>1, EquivalentFacts DEF Untouched
<1> QED
  BY <1>2, <1>3, <1>4, <1>5, <1>6 DEF RecordSound, M
(* An applied change is dropped from the queue (_acknowledge_entry): what  *)
(* is left of the queue carries the record, and a record with none left is *)
(* what was sent.                                                          *)
LEMMA AcknowledgeSound ==
    ASSUME NEW P, NEW g, NEW L, Held(L), RecordSound(P, g, L), NEW e \in Entry, NEW v \in Nat,
           v = NoVersion => Deleted(e.snap.payload),
           v # NoVersion =>
             \E p \in P : /\ p.game = g /\ p.version = v
                          /\ ~Deleted(e.snap.payload) => SameRecord(e.snap.payload, p.payload)
    PROVE  /\ RecordSound(P, g, Acknowledge(L, e, v))
           /\ HasStill(g, L, Acknowledge(L, e, v))
           /\ Untouched(L, Acknowledge(L, e, v))
<1> DEFINE M == Acknowledge(L, e, v)
<1>0. L.row # Absent /\ BoxSound(P, g, L) /\ ConflictSound(P, g, L) /\ VersionSound(P, g, L)
  BY DEF Held, RecordSound
<1>1. CASE M = L
  BY <1>1, EquivalentFacts DEF HasStill, Untouched, Unsent
<1>2. CASE M # L
  <2>1. /\ \E q \in L.box : q.id = e.id /\ q.snap = e.snap
        /\ v # NoVersion => L.row.rv <= v
        /\ M.row # Absent
        /\ M.row.payload = L.row.payload
        /\ M.row.base = e.snap.payload
        /\ M.row.rv = IF v = NoVersion THEN L.row.rv ELSE v
        /\ M.box = {q \in L.box : q.id > e.id}
        /\ M.box = {} => M.row.status = "synced"
        /\ M.conflict = L.conflict
    BY <1>2, AcknowledgeShape
  <2> HIDE DEF M
  <2>2. /\ e.snap.payload \in Payload /\ e.snap.payload # Absent
        /\ e.id \in Nat /\ L.row.rv \in Nat /\ \A d \in L.box : d.id \in Nat
    BY AbsentAssumption, RowType DEF Entry, Row
  <2>3. PICK q \in L.box : q.id = e.id /\ q.snap = e.snap
    BY <2>1
  <2>4. (M.box = {}) <=> IsNewest(q, L.box)
    BY <2>1, <2>2, <2>3 DEF IsNewest
  <2>5. Deleted(e.snap.payload) => M.box = {}
    BY <1>0, <2>3, <2>4 DEF BoxSound
  <2>6. M.box = {} => M.row.payload = M.row.base
    BY <1>0, <2>1, <2>3, <2>4 DEF BoxSound
  <2>7. ASSUME NEW d \in M.box, IsNewest(d, M.box)
        PROVE  IsNewest(d, L.box)
    <3>1. ASSUME NEW c \in L.box
          PROVE  c.id <= d.id
      <4>1. CASE c \in M.box
        BY <2>7, <4>1 DEF IsNewest
      <4>2. CASE c \notin M.box
        BY <2>1, <2>2, <4>2
      <4> QED
        BY <4>1, <4>2
    <3> QED
      BY <3>1 DEF IsNewest
  <2>8. ~Deleted(e.snap.payload) => BoundTo(P, g, M.row)
    BY <2>1, <2>2 DEF BoundTo
  <2>9. BoxSound(P, g, M)
    <3>1. \A d \in M.box : d \in L.box
      BY <2>1
    <3>2. \A d \in M.box : EntrySound(P, g, d) /\ (Deleted(d.snap.payload) => IsNewest(d, M.box))
      BY <1>0, <3>1 DEF BoxSound, IsNewest
    <3>3. \A c, d \in M.box : c.id = d.id => c = d
      BY <1>0, <3>1 DEF BoxSound
    <3>4. \A d \in M.box : IsNewest(d, M.box) => d.snap.payload = M.row.payload
      BY <1>0, <2>1, <2>7, <3>1 DEF BoxSound
    <3>5. M.box # {} => BoundTo(P, g, M.row)
      BY <2>5, <2>8
    <3> QED
      BY <3>2, <3>3, <3>4, <3>5 DEF BoxSound
  <2>10. RestSound(P, g, M)
    <3>1. M.row.base # Absent
      BY <2>1, <2>2
    <3>2. M.box = {} => SameRecord(M.row.base, M.row.payload)
      BY <2>6, SameRecordReflexive
    <3>3. M.box = {} => BoundTo(P, g, M.row) \/ Deleted(M.row.payload)
      BY <2>1, <2>6, <2>8
    <3> QED
      BY <2>1, <3>1, <3>2, <3>3 DEF RestSound
  <2>11. ConflictSound(P, g, M) /\ VersionSound(P, g, M)
    BY <1>0, <2>1 DEF ConflictSound, VersionSound, VersionSeen
  <2>12. HasStill(g, L, M)
    <3>1. L.row.rv <= M.row.rv /\ M.row.rv \in Nat
      BY <2>1, <2>2
    <3> QED
      BY <2>1, <2>2, <3>1 DEF HasStill, Has
  <2>13. Untouched(L, M)
    BY <2>1, EquivalentFacts DEF Untouched
  <2> QED
    BY <2>9, <2>10, <2>11, <2>12, <2>13 DEF RecordSound, M
<1> QED
  BY <1>1, <1>2

(* A server row that is not outdated is as new as all the device has.      *)
LEMMA NotOutdated ==
    ASSUME NEW L, Held(L), NEW remote \in ServerRow, ~Outdated(L, remote),
           NEW v \in Nat, Has(L, v)
    PROVE  remote.version >= v
<1>1. L.row.rv \in Nat /\ remote.version \in Nat
  BY RowType DEF ServerRow
<1>2. CASE L.row.rv >= v
  BY <1>1, <1>2 DEF Outdated
<1>3. CASE L.conflict.open /\ L.conflict.remote # Absent /\ L.conflict.remote.version >= v
  <2>1. L.conflict.remote.version \in Nat
    BY <1>3, RowType DEF Conflict, ServerRow
  <2> QED
    BY <1>1, <1>3, <2>1 DEF Outdated
<1> QED
  BY <1>2, <1>3 DEF Has

(* The device has what comes before what it has.                           *)
LEMMA HasLess ==
    ASSUME NEW M, Held(M), NEW v \in Nat, NEW w \in Nat, v <= w, Has(M, w)
    PROVE  Has(M, v)
<1>1. M.row.rv \in Nat
  BY RowType
<1>2. M.conflict.remote # Absent => M.conflict.remote.version \in Nat
  BY RowType DEF Conflict, ServerRow
<1> QED
  BY <1>1, <1>2 DEF Has

(* The row a merge makes.                                                  *)
LEMMA MergedRowShape ==
    ASSUME NEW L, NEW remote
    PROVE  /\ MergedRow(L, remote).payload = Merged(L.row.base, L.row.payload, remote.payload)
           /\ MergedRow(L, remote).rv = remote.version
           /\ MergedRow(L, remote).base = remote.payload
BY DEF MergedRow, MergedWith

(* What a record with something unsent looks like.                         *)
LEMMA UnsentRecord ==
    ASSUME NEW P, NEW g, NEW L, Held(L), RecordSound(P, g, L), g \notin Foreign, Unsent(L) # {}
    PROVE  L.box # {}
<1>1. SUFFICES ASSUME L.box = {} PROVE FALSE
  OBVIOUS
<1>2. L.row # Absent /\ RestSound(P, g, L)
  BY DEF Held, RecordSound
<1>3. L.row.base # Absent /\ SameRecord(L.row.base, L.row.payload)
  BY <1>1, <1>2 DEF RestSound
<1> QED
  BY <1>2, <1>3 DEF Unsent, SameRecord

(* The unsent columns are among those a merge takes from the device.       *)
LEMMA MergeKeepsUnsent ==
    ASSUME NEW L, NEW remote, L.row.base # Absent,
           NEW c \in Unsent(L)
    PROVE  c \in Columns /\ Merged(L.row.base, L.row.payload, remote.payload)[c] = L.row.payload[c]
BY DEF Unsent, Merged, Changed

(* A server row arrives (_reconcile_remote).  Whatever case it takes, no   *)
(* unsent change is lost, and what the device had of the record it has.    *)
LEMMA ReconcileSound ==
    ASSUME NEW P, NEW g, NEW L, WellFormed(L), RecordSound(P, g, L), g \notin Foreign,
           NEW remote \in ServerRow, RowSeen(P, g, remote),
           NEW pushed \in BOOLEAN, NEW id \in Nat
    PROVE  LET M == Reconcile(L, remote, pushed, id)
           IN  /\ RecordSound(P, g, M) /\ HasStill(g, L, M) /\ Untouched(L, M)
               /\ Has(M, remote.version)
<1> DEFINE M == Reconcile(L, remote, pushed, id)
<1>0. /\ remote.payload \in Payload /\ remote.version \in Nat /\ L \in Record
      /\ remote # Absent
  BY AbsentAssumption DEF ServerRow, WellFormed
<1>1. CASE L.row = Absent
  <2>1. M = [L EXCEPT !.row = AsServer(remote)]
    BY <1>1 DEF Reconcile, Merges
  <2>2. M.row = AsServer(remote) /\ M.box = {} /\ ~M.conflict.open
    BY <1>1, <2>1 DEF WellFormed, Record
  <2> HIDE DEF M
  <2>3. /\ M.row.payload = remote.payload /\ M.row.base = remote.payload
        /\ M.row.rv = remote.version /\ M.row.status = "synced"
    BY <2>2 DEF AsServer
  <2>4. BoundTo(P, g, M.row) /\ M.row.rv # NoVersion /\ M.row.base # Absent
    BY <2>3, RowSeenBinds
  <2>5. BoxSound(P, g, M) /\ ConflictSound(P, g, M)
    BY <2>2 DEF BoxSound, ConflictSound
  <2>6. RestSound(P, g, M)
    BY <2>3, <2>4, SameRecordReflexive DEF RestSound
  <2>7. VersionSound(P, g, M)
    BY <2>4, BoundIsVersioned DEF VersionSound
  <2>8. M.row # Absent
    BY <2>2, AsServerType, RecordAssumption
  <2>9. HasStill(g, L, M) /\ Untouched(L, M) /\ Has(M, remote.version)
    BY <1>0, <1>1, <2>3, <2>8 DEF HasStill, Has, Untouched, Unsent
  <2> QED
    BY <2>5, <2>6, <2>7, <2>9 DEF RecordSound, M
<1>2. CASE L.row # Absent
  <2>0. Held(L)
    BY <1>0, <1>2 DEF Held
  <2>1. CASE Outdated(L, remote)
    <3>1. M = L
      BY <1>2, <2>1 DEF Reconcile, Merges
    <3>2. Has(L, remote.version)
      <4>1. CASE remote.version < L.row.rv
        BY <1>0, <1>2, <2>0, <4>1, RowType DEF Has
      <4>2. CASE L.conflict.open /\ L.conflict.remote # Absent
                   /\ remote.version < L.conflict.remote.version
        <5>1. L.conflict.remote.version \in Nat
          BY <2>0, <4>2, RowType DEF Conflict, ServerRow
        <5> QED
          BY <1>0, <1>2, <4>2, <5>1 DEF Has
      <4> QED
        BY <2>1, <4>1, <4>2 DEF Outdated
    <3> HIDE DEF M
    <3>3. HasStill(g, L, M) /\ Untouched(L, M)
      BY <1>2, <3>1, EquivalentFacts DEF HasStill, Untouched
    <3> QED
      BY <3>1, <3>2, <3>3 DEF M
  <2>3. Held(M)
    BY ReconcileType
  <2>4. ~Outdated(L, remote) /\ Has(M, remote.version) => HasStill(g, L, M)
    <3> HIDE DEF M
    <3> QED
      BY <1>0, <2>0, <2>3, NotOutdated, HasLess DEF HasStill
  <2>2. CASE Merges(L, remote, pushed)
    <3> DEFINE op == ResolutionOp(L.row.payload, remote.payload)
               row == MergedRow(L, remote)
    <3>1. M = RetireConflicts(ReplaceOutbox(L, row, op, id))
      BY <1>2, <2>2 DEF Reconcile, Merges
    <3>2. /\ row.payload = Merged(L.row.base, L.row.payload, remote.payload)
          /\ row.rv = remote.version /\ row.base = remote.payload
      BY MergedRowShape
    <3> HIDE DEF M, row
    <3>3. M.row = row /\ M.box = {NewEntry(op, row, id)} /\ ~M.conflict.open
      BY <1>0, <3>1, ReplaceShape
    <3>4. BoundTo(P, g, row)
      BY <3>2, RowSeenBinds
    <3>5. /\ ~Outdated(L, remote) /\ L.row.base # Absent
          /\ ~Collides(L.row.base, L.row.payload, remote.payload)
          /\ ~SameRecord(Merged(L.row.base, L.row.payload, remote.payload), remote.payload)
      BY <2>2 DEF Merges, Converges, NeedsUser, MergedWith
    <3>6. Deleted(row.payload) <=> Deleted(L.row.payload)
      BY <3>2, <3>5, MergedDeleted
    <3>7. (op = "delete") <=> Deleted(row.payload)
      BY <3>6 DEF ResolutionOp
    <3>8. RecordSound(P, g, M)
      BY <3>3, <3>4, <3>7, OneChangeIsSound
    <3>9. Has(M, remote.version)
      BY <1>0, <2>3, <3>2, <3>3 DEF Has, Held
    <3>10. Untouched(L, M)
      BY <2>3, <3>2, <3>3, <3>5, MergeKeepsUnsent, EquivalentFacts DEF Untouched, Held
    <3> QED
      BY <2>4, <3>5, <3>8, <3>9, <3>10 DEF M
  <2>5. CASE /\ ~Outdated(L, remote) /\ ~Merges(L, remote, pushed)
             /\ ~NothingPending(L, pushed) /\ NeedsUser(L, remote)
    <3>1. M = StoreConflict(L, remote)
      BY <1>2, <2>5 DEF Reconcile
    <3>2. RecordSound(P, g, M) /\ Untouched(L, M)
      BY <1>0, <2>0, <3>1, StoreConflictSound
    <3>3. M.conflict.open /\ M.conflict.remote = remote
      BY <2>0, <3>1, StoreConflictShape
    <3>4. Has(M, remote.version)
      <4> HIDE DEF M
      <4> QED
        BY <1>0, <2>3, <3>3 DEF Has, Held
    <3> QED
      BY <2>4, <2>5, <3>2, <3>4 DEF M
  <2>6. CASE /\ ~Outdated(L, remote) /\ ~Merges(L, remote, pushed)
             /\ NothingPending(L, pushed) \/ ~NeedsUser(L, remote)
    <3>1. M = Adopt(L, remote)
      BY <1>2, <2>6 DEF Reconcile
    <3>2. RecordSound(P, g, M)
      BY <1>0, <3>1, AdoptSound
    <3>3. M.row = AsServer(remote)
      BY <1>0, <3>1, AdoptShape
    <3>4. M.row.payload = remote.payload /\ M.row.rv = remote.version
      BY <3>3 DEF AsServer
    <3>5. Has(M, remote.version)
      <4> HIDE DEF M
      <4> QED
        BY <1>0, <2>3, <3>4 DEF Has, Held
    <3>6. ASSUME NEW c \in Unsent(L)
          PROVE  Equivalent(c, remote.payload[c], L.row.payload[c])
      <4>1. L.box # {}
        BY <2>0, UnsentRecord
      <4>2. ~NeedsUser(L, remote) /\ Converges(L, remote)
        BY <1>2, <2>6, <4>1 DEF Merges, NothingPending
      <4>3. c \in Columns
        BY DEF Unsent, Changed
      <4>4. CASE L.row.base = Absent
        <5>1. SameRecord(L.row.payload, remote.payload)
          BY <4>2, <4>4 DEF NeedsUser
        <5> QED
          BY <4>3, <5>1, SameRecordColumns, EquivalentFacts
      <4>5. CASE L.row.base # Absent
        <5>1. SameRecord(Merged(L.row.base, L.row.payload, remote.payload), remote.payload)
          BY <4>2, <4>5 DEF Converges, MergedWith
        <5>2. Merged(L.row.base, L.row.payload, remote.payload)[c] = L.row.payload[c]
          BY <4>5, MergeKeepsUnsent
        <5> QED
          BY <4>3, <5>1, <5>2, SameRecordColumns, EquivalentFacts
      <4> QED
        BY <4>4, <4>5
    <3>7. Untouched(L, M)
      <4> HIDE DEF M
      <4> QED
        BY <2>3, <3>4, <3>6 DEF Untouched, Held
    <3> QED
      BY <2>4, <2>6, <3>2, <3>5, <3>7 DEF M
  <2> QED
    BY <2>1, <2>2, <2>5, <2>6 DEF Merges
<1> QED
  BY <1>1, <1>2
(* Whatever the server answers to a change, nothing that was not sent is   *)
(* lost (apply_push_results).                                              *)
LEMMA AfterAnswerSound ==
    ASSUME NEW P, NEW g, NEW L, Held(L), RecordSound(P, g, L), NEW e \in Entry, NEW id \in Nat,
           Seen(P, g) => g \notin Foreign, NEW answer,
           answer.applied \in BOOLEAN, answer.version \in Nat,
           answer.remote \in ServerRow \cup {Absent}, AnswerFits(P, g, e, answer)
    PROVE  LET M == AfterAnswer(L, e, answer, id)
           IN  RecordSound(P, g, M) /\ HasStill(g, L, M) /\ Untouched(L, M)
<1>1. CASE answer.applied
  <2>1. AfterAnswer(L, e, answer, id) = Acknowledge(L, e, answer.version)
    BY <1>1 DEF AfterAnswer
  <2>2. answer.version = NoVersion => Deleted(e.snap.payload)
    BY <1>1 DEF AnswerFits
  <2>3. answer.version # NoVersion =>
          \E p \in P : /\ p.game = g /\ p.version = answer.version
                       /\ ~Deleted(e.snap.payload) => SameRecord(e.snap.payload, p.payload)
    BY <1>1 DEF AnswerFits
  <2> QED
    BY <2>1, <2>2, <2>3, AcknowledgeSound
<1>2. CASE ~answer.applied /\ answer.remote # Absent
  <2>1. RowSeen(P, g, answer.remote)
    BY <1>2 DEF AnswerFits
  <2>2. g \notin Foreign
    BY <2>1 DEF RowSeen, Seen
  <2>3. AfterAnswer(L, e, answer, id) = Reconcile(L, answer.remote, TRUE, id)
    BY <1>2 DEF AfterAnswer
  <2> QED
    BY <1>2, <2>1, <2>2, <2>3, HeldIsWellFormed, ReconcileSound
<1>3. CASE ~answer.applied /\ answer.remote = Absent
  <2>1. g \in Foreign
    BY <1>3 DEF AnswerFits
  <2>2. AfterAnswer(L, e, answer, id) = StoreConflict(L, Absent)
    BY <1>3 DEF AfterAnswer
  <2>3. RecordSound(P, g, StoreConflict(L, Absent)) /\ Untouched(L, StoreConflict(L, Absent))
    BY <2>1, StoreConflictSound
  <2> QED
    BY <2>1, <2>2, <2>3 DEF HasStill
<1> QED
  BY <1>1, <1>2, <1>3

(* A transaction that only moves retry times and the status changes        *)
(* nothing of what is known.                                               *)
LEMMA RetimedSound ==
    ASSUME NEW P, NEW g, NEW L, NEW M, RecordSound(P, g, L),
           (L.row = Absent) <=> (M.row = Absent),
           L.row # Absent => /\ M.row.payload = L.row.payload
                             /\ M.row.rv = L.row.rv /\ M.row.base = L.row.base
                             /\ L.box = {} /\ L.row.status = "synced" => M.row.status = "synced",
           M.conflict = L.conflict,
           \A e \in M.box : \E d \in L.box : e.id = d.id /\ e.op = d.op /\ e.snap = d.snap,
           \A d \in L.box : \E e \in M.box : e.id = d.id,
           \A e, d \in M.box : e.id = d.id => e = d
    PROVE  RecordSound(P, g, M) /\ HasStill(g, L, M) /\ Untouched(L, M)
<1>1. HasStill(g, L, M) /\ Untouched(L, M)
  <2>1. Untouched(L, M)
    <3>1. Unsent(L) # {} => L.row # Absent
      BY DEF Unsent
    <3> QED
      BY <3>1, EquivalentFacts DEF Untouched
  <2> QED
    BY <2>1 DEF HasStill, Has
<1>2. ASSUME M.row # Absent
      PROVE  BoxSound(P, g, M) /\ RestSound(P, g, M)
             /\ ConflictSound(P, g, M) /\ VersionSound(P, g, M)
  <2>0. /\ L.row # Absent /\ BoxSound(P, g, L) /\ RestSound(P, g, L)
        /\ ConflictSound(P, g, L) /\ VersionSound(P, g, L)
    BY <1>2 DEF RecordSound
  <2>1. (M.box = {}) <=> (L.box = {})
    OBVIOUS
  <2>2. BoundTo(P, g, L.row) => BoundTo(P, g, M.row)
    BY <2>0 DEF BoundTo
  <2>3. ASSUME NEW e \in M.box, NEW d \in L.box, e.id = d.id, e.op = d.op, e.snap = d.snap
        PROVE  /\ EntrySound(P, g, e)
               /\ IsNewest(e, M.box) <=> IsNewest(d, L.box)
    <3>1. EntrySound(P, g, e)
      BY <2>0, <2>3 DEF BoxSound, EntrySound
    <3>2. IsNewest(e, M.box) <=> IsNewest(d, L.box)
      BY <2>3 DEF IsNewest
    <3> QED
      BY <3>1, <3>2
  <2>4. BoxSound(P, g, M)
    <3>1. \A e \in M.box : /\ EntrySound(P, g, e)
                           /\ IsNewest(e, M.box) => e.snap.payload = M.row.payload
                           /\ Deleted(e.snap.payload) => IsNewest(e, M.box)
      <4> TAKE e \in M.box
      <4>1. PICK d \in L.box : e.id = d.id /\ e.op = d.op /\ e.snap = d.snap
        OBVIOUS
      <4>2. EntrySound(P, g, e) /\ (IsNewest(e, M.box) <=> IsNewest(d, L.box))
        BY <2>3, <4>1
      <4>3. /\ IsNewest(d, L.box) => d.snap.payload = L.row.payload
            /\ Deleted(d.snap.payload) => IsNewest(d, L.box)
        BY <2>0 DEF BoxSound
      <4> QED
        BY <2>0, <4>1, <4>2, <4>3
    <3>2. M.box # {} => BoundTo(P, g, M.row)
      BY <2>0, <2>1, <2>2 DEF BoxSound
    <3> QED
      BY <3>1, <3>2 DEF BoxSound
  <2>5. RestSound(P, g, M)
    BY <2>0, <2>1, <2>2 DEF RestSound
  <2>6. ConflictSound(P, g, M) /\ VersionSound(P, g, M)
    BY <2>0 DEF ConflictSound, VersionSound
  <2> QED
    BY <2>4, <2>5, <2>6
<1> QED
  BY <1>1, <1>2 DEF RecordSound

(* A failed batch changes retry times and the status of rows with          *)
(* something queued (record_failure).                                      *)
LEMMA RecordFailureSound ==
    ASSUME NEW P, NEW g, NEW L, WellFormed(L), RecordSound(P, g, L),
           NEW ids, NEW own, NEW retry \in Retry
    PROVE  LET M == RecordFailure(L, ids, own, retry)
           IN  RecordSound(P, g, M) /\ HasStill(g, L, M) /\ Untouched(L, M)
<1> DEFINE M == RecordFailure(L, ids, own, retry)
           again(e) == IF e.id \in ids THEN [e EXCEPT !.retry = retry] ELSE e
           box == {again(e) : e \in L.box}
           mine == \E e \in L.box : e.id \in own
           row == IF mine /\ L.row.status # "conflict"
                  THEN [L.row EXCEPT !.status = IF retry = "never" THEN "failed" ELSE "pending"]
                  ELSE L.row
<1>1. M.box = box /\ M.row = row /\ M.conflict = L.conflict
  <2>1. M = [L EXCEPT !.box = box, !.row = row]
    BY DEF RecordFailure
  <2> HIDE DEF box, row, M
  <2> QED
    BY <2>1 DEF WellFormed, Record
<1>2. ASSUME NEW e \in L.box
      PROVE  again(e).id = e.id /\ again(e).op = e.op /\ again(e).snap = e.snap
  BY DEF WellFormed, Record, Entry
<1>3. L.box = {} => ~mine
  OBVIOUS
<1>4. /\ (L.row = Absent) <=> (row = Absent)
      /\ L.row # Absent => /\ row.payload = L.row.payload
                           /\ row.rv = L.row.rv /\ row.base = L.row.base
                           /\ L.box = {} => row = L.row
  <2>1. CASE L.row = Absent
    BY <1>3, <2>1 DEF WellFormed
  <2>2. CASE L.row # Absent
    <3>1. L.row \in Row
      BY <2>2 DEF WellFormed, Record
    <3>2. row \in Row
      BY <3>1 DEF Row
    <3>3. row # Absent
      BY <3>2, RecordAssumption
    <3>4. row.payload = L.row.payload /\ row.rv = L.row.rv /\ row.base = L.row.base
      BY <3>1 DEF Row
    <3> QED
      BY <1>3, <2>2, <3>3, <3>4
  <2> QED
    BY <2>1, <2>2
<1> HIDE DEF M, row, again, mine
<1>5. \A e \in M.box : \E d \in L.box : e.id = d.id /\ e.op = d.op /\ e.snap = d.snap
  BY <1>1, <1>2
<1>6. \A d \in L.box : \E e \in M.box : e.id = d.id
  BY <1>1, <1>2
<1>7. ASSUME NEW x \in M.box, NEW y \in M.box, x.id = y.id
      PROVE  x = y
  <2>1. PICK e \in L.box, d \in L.box : x = again(e) /\ y = again(d)
    BY <1>1
  <2>2. e.id = d.id
    BY <1>2, <1>7, <2>1
  <2>3. e = d
    BY <2>2 DEF RecordSound, BoxSound, WellFormed
  <2> QED
    BY <2>1, <2>3
<1>8. RecordSound(P, g, M) /\ HasStill(g, L, M) /\ Untouched(L, M)
  <2> HIDE DEF box
  <2> QED
    BY <1>1, <1>4, <1>5, <1>6, <1>7, RetimedSound
<1> QED
  BY <1>8 DEF M

(* A retry the user asks for (retry_failed).                               *)
LEMMA RetryFailedEntriesSound ==
    ASSUME NEW P, NEW g, NEW L, WellFormed(L), RecordSound(P, g, L)
    PROVE  LET M == RetryFailedEntries(L)
           IN  RecordSound(P, g, M) /\ HasStill(g, L, M) /\ Untouched(L, M)
<1> DEFINE M == RetryFailedEntries(L)
           again(e) == [e EXCEPT !.retry = "due"]
           box == {again(e) : e \in L.box}
           row == IF L.row # Absent /\ L.row.status = "failed"
                  THEN [L.row EXCEPT !.status = "pending"] ELSE L.row
<1>1. M.box = box /\ M.row = row /\ M.conflict = L.conflict
  <2>1. M = [L EXCEPT !.box = box, !.row = row]
    BY DEF RetryFailedEntries
  <2> HIDE DEF box, row, M
  <2> QED
    BY <2>1 DEF WellFormed, Record
<1>2. ASSUME NEW e \in L.box
      PROVE  again(e).id = e.id /\ again(e).op = e.op /\ again(e).snap = e.snap
  BY DEF WellFormed, Record, Entry
<1>4. /\ (L.row = Absent) <=> (row = Absent)
      /\ L.row # Absent => /\ row.payload = L.row.payload
                           /\ row.rv = L.row.rv /\ row.base = L.row.base
                           /\ L.row.status = "synced" => row.status = "synced"
  <2>1. CASE L.row = Absent
    BY <2>1
  <2>2. CASE L.row # Absent
    <3>1. L.row \in Row
      BY <2>2 DEF WellFormed, Record
    <3>2. row \in Row
      BY <3>1 DEF Row
    <3>3. row # Absent
      BY <3>2, RecordAssumption
    <3>4. row.payload = L.row.payload /\ row.rv = L.row.rv /\ row.base = L.row.base
          /\ (L.row.status = "synced" => row.status = "synced")
      BY <3>1 DEF Row
    <3> QED
      BY <2>2, <3>3, <3>4
  <2> QED
    BY <2>1, <2>2
<1> HIDE DEF M, row, again
<1>5. \A e \in M.box : \E d \in L.box : e.id = d.id /\ e.op = d.op /\ e.snap = d.snap
  BY <1>1, <1>2
<1>6. \A d \in L.box : \E e \in M.box : e.id = d.id
  BY <1>1, <1>2
<1>7. ASSUME NEW x \in M.box, NEW y \in M.box, x.id = y.id
      PROVE  x = y
  <2>1. PICK e \in L.box, d \in L.box : x = again(e) /\ y = again(d)
    BY <1>1
  <2>2. e.id = d.id
    BY <1>2, <1>7, <2>1
  <2>3. e = d
    BY <2>2 DEF RecordSound, BoxSound, WellFormed
  <2> QED
    BY <2>1, <2>3
<1>8. RecordSound(P, g, M) /\ HasStill(g, L, M) /\ Untouched(L, M)
  <2> HIDE DEF box
  <2> QED
    BY <1>1, <1>4, <1>5, <1>6, <1>7, RetimedSound
<1> QED
  BY <1>8 DEF M

(* A retry time that passes.                                               *)
LEMMA ElapsedSound ==
    ASSUME NEW P, NEW g, NEW L, WellFormed(L), RecordSound(P, g, L), NEW e \in L.box
    PROVE  LET M == [L EXCEPT !.box = (L.box \ {e}) \cup {[e EXCEPT !.retry = "due"]}]
           IN  RecordSound(P, g, M) /\ HasStill(g, L, M) /\ Untouched(L, M)
<1> DEFINE again == [e EXCEPT !.retry = "due"]
           M == [L EXCEPT !.box = (L.box \ {e}) \cup {again}]
<1>1. again.id = e.id /\ again.op = e.op /\ again.snap = e.snap
  BY DEF WellFormed, Record, Entry
<1>2. M.box = (L.box \ {e}) \cup {again} /\ M.row = L.row /\ M.conflict = L.conflict
  BY DEF WellFormed, Record
<1>3. L.row # Absent /\ BoxSound(P, g, L)
  BY DEF WellFormed, RecordSound
<1> HIDE DEF M, again
<1>4. \A x \in M.box : \E d \in L.box : x.id = d.id /\ x.op = d.op /\ x.snap = d.snap
  BY <1>1, <1>2
<1>5. \A d \in L.box : \E x \in M.box : x.id = d.id
  BY <1>1, <1>2
<1>6. \A x, y \in M.box : x.id = y.id => x = y
  BY <1>1, <1>2, <1>3 DEF BoxSound
<1>7. RecordSound(P, g, M) /\ HasStill(g, L, M) /\ Untouched(L, M)
  BY <1>2, <1>4, <1>5, <1>6, RetimedSound
<1> QED
  BY <1>7 DEF M, again

(* An answer to a conflict about a record the server does not have for     *)
(* this account.                                                           *)
LEMMA ResolveMissingSound ==
    ASSUME NEW P, NEW g, NEW L, Held(L), g \in Foreign,
           NEW selected, NEW deleting \in BOOLEAN, NEW id \in Nat,
           ~deleting => ~Deleted(selected)
    PROVE  RecordSound(P, g, ResolveMissing(L, selected, deleting, id))
<1> DEFINE M == ResolveMissing(L, selected, deleting, id)
<1>0. L \in Record
  BY DEF Held
<1>1. CASE deleting
  <2> DEFINE p == IF Deleted(L.row.payload) THEN L.row.payload
                  ELSE [L.row.payload EXCEPT ![DeletedAt] = AtDevice]
             row == [payload |-> p, rv |-> NoVersion, base |-> Absent, status |-> "synced"]
  <2>1. Deleted(p)
    BY RowType DEF Deleted, Payload, Columns, AtDevice, NotDeleted
  <2>2. M = RetireConflicts([L EXCEPT !.row = row, !.box = {}])
    BY <1>1 DEF ResolveMissing
  <2> HIDE DEF p
  <2>3. M.row = row /\ M.box = {} /\ ~M.conflict.open
    <3> HIDE DEF row, M
    <3> QED
      BY <1>0, <2>2 DEF RetireConflicts, Record, Conflict
  <2> HIDE DEF M
  <2>4. BoxSound(P, g, M) /\ ConflictSound(P, g, M) /\ VersionSound(P, g, M)
    BY <2>3 DEF BoxSound, ConflictSound, VersionSound
  <2>5. RestSound(P, g, M)
    BY <2>1, <2>3 DEF RestSound, BoundTo
  <2> QED
    BY <2>4, <2>5 DEF RecordSound, M
<1>2. CASE ~deleting
  <2> DEFINE row == [payload |-> selected, rv |-> NoVersion, base |-> Absent,
                     status |-> "pending"]
  <2>1. M = RetireConflicts(ReplaceOutbox(L, row, "upsert", id))
    BY <1>2 DEF ResolveMissing
  <2>2. M.row = row /\ M.box = {NewEntry("upsert", row, id)} /\ ~M.conflict.open
    BY <1>0, <2>1, ReplaceShape
  <2>3. BoundTo(P, g, row) /\ row.payload = selected
    BY DEF BoundTo
  <2> HIDE DEF M, row
  <2>4. RecordSound(P, g, M)
    BY <1>2, <2>2, <2>3, OneChangeIsSound
  <2> QED
    BY <2>4 DEF M
<1> QED
  BY <1>1, <1>2

(* An answer to a conflict with the server's row.                          *)
LEMMA ResolveAgainstSound ==
    ASSUME NEW P, NEW g, NEW L, Held(L), NEW selected \in Payload,
           NEW remote \in ServerRow, RowSeen(P, g, remote), ~Outdated(L, remote), NEW id \in Nat
    PROVE  /\ RecordSound(P, g, ResolveAgainst(L, selected, remote, id))
           /\ HasStill(g, L, ResolveAgainst(L, selected, remote, id))
<1> DEFINE M == ResolveAgainst(L, selected, remote, id)
           row == [payload |-> selected, rv |-> remote.version, base |-> remote.payload,
                   status |-> "pending"]
           op == ResolutionOp(selected, remote.payload)
<1>0. L \in Record /\ Held(M) /\ remote.version \in Nat
  BY ResolveAgainstType DEF Held, ServerRow
<1>1. RecordSound(P, g, M) /\ M.row.rv = remote.version
  <2>1. CASE selected = remote.payload
    <3>1. M = Adopt(L, remote)
      BY <2>1 DEF ResolveAgainst
    <3>2. M.row = AsServer(remote)
      BY <1>0, <3>1, AdoptShape
    <3> QED
      BY <1>0, <3>1, <3>2, AdoptSound DEF AsServer
  <2>2. CASE selected # remote.payload
    <3>1. M = RetireConflicts(ReplaceOutbox(L, row, op, id))
      BY <2>2 DEF ResolveAgainst
    <3>2. row.payload = selected /\ row.rv = remote.version /\ row.base = remote.payload
      OBVIOUS
    <3> HIDE DEF row, M
    <3>3. M.row = row /\ M.box = {NewEntry(op, row, id)} /\ ~M.conflict.open
      BY <1>0, <3>1, ReplaceShape
    <3>4. BoundTo(P, g, row)
      BY <3>2, RowSeenBinds
    <3>5. (op = "delete") <=> Deleted(row.payload)
      BY <3>2 DEF ResolutionOp
    <3> QED
      BY <3>2, <3>3, <3>4, <3>5, OneChangeIsSound
  <2> QED
    BY <2>1, <2>2
<1> HIDE DEF M
<1>2. Has(M, remote.version)
  BY <1>0, <1>1 DEF Has, Held
<1>3. HasStill(g, L, M)
  BY <1>0, <1>2, NotOutdated, HasLess DEF HasStill
<1> QED
  BY <1>1, <1>3 DEF M
-----------------------------------------------------------------------------
(* The history of the server.                                              *)

(* A row that a batch changes is what an accepted request of it writes.    *)
LEMMA ChangeIsWritten ==
    ASSUME NEW batch, ServerTypeOK, ApplyChanges(batch), NEW g \in Games, games'[g] # games[g]
    PROVE  \E r \in Accepted(batch) :
              /\ r.game = g
              /\ games'[g] = [payload |-> Written(r), version |-> VersionGiven(batch, r)]
<1>1. CASE \E r \in Accepted(batch) : r.game = g
  <2> DEFINE r == CHOOSE r \in Accepted(batch) : r.game = g
  <2>1. r \in Accepted(batch) /\ r.game = g
    BY <1>1
  <2>2. games'[g] = [payload |-> Written(r), version |-> VersionGiven(batch, r)]
    BY <1>1 DEF ApplyChanges, Applied
  <2> HIDE DEF r
  <2> QED
    BY <2>1, <2>2
<1>2. CASE ~\E r \in Accepted(batch) : r.game = g
  BY <1>2 DEF ApplyChanges, Applied
<1> QED
  BY <1>1, <1>2

(* A batch writes no record of another account.                            *)
LEMMA ForeignIsLeftAlone ==
    ASSUME NEW batch, ServerTypeOK, ApplyChanges(batch), NEW g \in Foreign, games[g] = Absent
    PROVE  games'[g] = Absent
<1> SUFFICES ASSUME games'[g] # games[g] PROVE FALSE
  OBVIOUS
<1>1. g \in Games
  BY GamesAssumption
<1>2. PICK r \in Accepted(batch) : r.game = g
  BY <1>1, ChangeIsWritten
<1> QED
  BY <1>2 DEF Accepted, Accepts

\* The server forgets nothing, and no record leaves it.
HistoryGrows ==
    /\ past \subseteq past'
    /\ \A g \in Games : games[g] # Absent => games'[g] # Absent
    /\ \A g \in Games : games'[g] # games[g] => games'[g].version > clock

(* A batch adds to the history what it writes.                             *)
LEMMA ApplyChangesHistory ==
    ASSUME NEW batch, Sends(batch), ServerTypeOK, HistoryInv, ApplyChanges(batch)
    PROVE  HistoryInv' /\ HistoryGrows
<1> DEFINE new == RowsOf({g \in Games : games'[g] # games[g]}, games')
<1>1. /\ games' \in [Games -> ServerRow \cup {Absent}]
      /\ clock \in Nat /\ clock' \in Nat /\ clock <= clock'
      /\ \A g \in Games : games'[g] # games[g] =>
           games'[g] \in ServerRow /\ games'[g].version > clock /\ games'[g].version <= clock'
  BY ApplyChangesType DEF ServerTypeOK
<1>2. past' = past \cup new
  BY DEF ApplyChanges
<1>3. ASSUME NEW p \in new
      PROVE  /\ p.game \in Games /\ games'[p.game] # Absent
             /\ p = [game |-> p.game, payload |-> games'[p.game].payload,
                     version |-> games'[p.game].version]
             /\ p.version > clock /\ p.version <= clock'
  <2>1. PICK g \in Games : /\ games'[g] # games[g]
                           /\ p = [game |-> g, payload |-> games'[g].payload,
                                   version |-> games'[g].version]
    BY DEF RowsOf
  <2>2. games'[g] # Absent
    BY <1>1, <2>1, AbsentAssumption
  <2> QED
    BY <1>1, <2>1, <2>2
<1>4. ASSUME NEW p \in past
      PROVE  p.version \in Nat /\ p.version <= clock /\ p.game \in Games /\ games[p.game] # Absent
  BY DEF HistoryInv, ServerTypeOK, VersionedRow
<1>5. \A g \in Games : games[g] # Absent => games'[g] # Absent
  BY <1>1, AbsentAssumption
<1>6. \A g \in Games : games'[g] # Absent => RowSeen(past', g, games'[g])
  <2> TAKE g \in Games
  <2>1. CASE games'[g] = games[g]
    BY <1>2, <2>1 DEF HistoryInv, RowSeen
  <2>2. CASE games'[g] # games[g]
    <3>1. [game |-> g, payload |-> games'[g].payload, version |-> games'[g].version] \in new
      BY <2>2 DEF RowsOf
    <3> QED
      BY <1>2, <3>1 DEF RowSeen
  <2> QED
    BY <2>1, <2>2
<1> HIDE DEF new
<1>7. \A p \in past' : p.version <= clock' /\ games'[p.game] # Absent
  <2> TAKE p \in past'
  <2>1. CASE p \in past
    BY <1>1, <1>4, <1>5, <2>1
  <2>2. CASE p \in new
    BY <1>3, <2>2
  <2> QED
    BY <1>2, <2>1, <2>2
<1>8. \A p, q \in past' : p.game = q.game /\ p.version = q.version => p = q
  <2> SUFFICES ASSUME NEW p \in past', NEW q \in past', p.game = q.game, p.version = q.version
               PROVE  p = q
    OBVIOUS
  <2>1. CASE p \in past /\ q \in past
    BY <2>1 DEF HistoryInv
  <2>2. CASE p \in new /\ q \in new
    <3>1. p = [game |-> p.game, payload |-> games'[p.game].payload,
               version |-> games'[p.game].version]
      BY <1>3, <2>2
    <3>2. q = [game |-> q.game, payload |-> games'[q.game].payload,
               version |-> games'[q.game].version]
      BY <1>3, <2>2
    <3> QED
      BY <3>1, <3>2
  <2>3. CASE p \in past /\ q \in new
    BY <1>1, <1>3, <1>4, <2>3
  <2>4. CASE p \in new /\ q \in past
    BY <1>1, <1>3, <1>4, <2>4
  <2> QED
    BY <1>2, <2>1, <2>2, <2>3, <2>4
<1>9. \A g \in Foreign : games'[g] = Absent
  BY ForeignIsLeftAlone DEF HistoryInv
<1> QED
  BY <1>1, <1>2, <1>5, <1>6, <1>7, <1>8, <1>9 DEF HistoryInv, HistoryGrows

(* Every step keeps the history of the server.                             *)
LEMMA HistoryStep ==
    ASSUME TypeInv, HistoryInv, [Next]_vars
    PROVE  HistoryInv' /\ HistoryGrows
<1>1. CASE Writes
  <2>1. PICK batch : Sends(batch) /\ ApplyChanges(batch)
    BY <1>1 DEF Writes
  <2> QED
    BY <2>1, ApplyChangesHistory DEF TypeInv
<1>2. CASE Acknowledges
  BY <1>2 DEF Acknowledges, HistoryInv, HistoryGrows
<1> QED
  BY <1>1, <1>2, ServerSteps

(* The server has a record that it has had, and it is not of another       *)
(* account.                                                                *)
LEMMA SeenIsThere ==
    ASSUME HistoryInv, NEW g, Seen(past, g)
    PROVE  games[g] # Absent /\ g \notin Foreign
BY DEF HistoryInv, Seen

-----------------------------------------------------------------------------
(* The records, step by step.                                              *)

\* A step that leaves every record sound, and the device with what it had.
RecordsStay == \A g \in Games : /\ RecordSound(past, g, local'[g])
                                /\ HasStill(g, local[g], local'[g])

\* A step that leaves alone what the user changed and was not sent.
EditsStay == \A g \in Games : Untouched(local[g], local'[g])

(* A step that leaves the database alone.                                  *)
LEMMA SameRecords ==
    ASSUME RecordsInv, UNCHANGED local
    PROVE  RecordsStay /\ EditsStay
<1>1. ASSUME NEW g \in Games
      PROVE  Untouched(local[g], local[g])
  BY EquivalentFacts DEF Untouched, Unsent
<1> QED
  BY <1>1 DEF RecordsInv, RecordsStay, EditsStay, HasStill

(* A transaction over one record.                                          *)
LEMMA OneRecordMoves ==
    ASSUME RecordsInv, StoreInv, NEW g \in Games, NEW M, local' = [local EXCEPT ![g] = M],
           RecordSound(past, g, M), HasStill(g, local[g], M)
    PROVE  /\ RecordsStay
           /\ \A h \in Games : h # g => Untouched(local[h], local'[h])
           /\ Untouched(local[g], M) => EditsStay
<1>1. \A h \in Games : local'[h] = IF h = g THEN M ELSE local[h]
  BY DEF StoreInv
<1>2. ASSUME NEW h \in Games
      PROVE  Untouched(local[h], local[h])
  BY EquivalentFacts DEF Untouched, Unsent
<1> QED
  BY <1>1, <1>2 DEF RecordsInv, RecordsStay, EditsStay, HasStill

(* An edit of the user (db.py).                                            *)
LEMMA SaveRecords ==
    ASSUME RecordsInv, StoreInv, NEW g \in Games, NEW p \in Payload, NEW op \in Operations,
           NEW rv \in Nat, NEW b \in Payload \cup {Absent}, Save(g, p, op, rv, b),
           (op = "delete") <=> Deleted(p),
           local[g].row = Absent => rv = NoVersion /\ b = Absent,
           local[g].row # Absent => /\ ~Deleted(local[g].row.payload)
                                    /\ rv = local[g].row.rv /\ b = local[g].row.base
    PROVE  RecordsStay
<1> DEFINE row == [payload |-> p, rv |-> rv, base |-> b, status |-> "pending"]
<1>1. PICK id \in OutboxIds : /\ IsNextId(id)
                              /\ local' = [local EXCEPT ![g] = Enqueue(local[g], row, op, id)]
  BY DEF Save
<1>2. row \in Row /\ id \in Nat /\ WellFormed(local[g]) /\ RecordSound(past, g, local[g])
  BY NewRowType, OutboxIdsType DEF StoreInv, RecordsInv
<1>3. \A e \in local[g].box : e.id < id
  BY <1>1 DEF IsNextId, IsNextIdOf, QueuedIn, StoreInv
<1>4. row.payload = p /\ row.rv = rv /\ row.base = b
  OBVIOUS
<1> HIDE DEF row
<1>5. /\ RecordSound(past, g, Enqueue(local[g], row, op, id))
      /\ HasStill(g, local[g], Enqueue(local[g], row, op, id))
  BY <1>2, <1>3, <1>4, EnqueueSound
<1> QED
  BY <1>1, <1>5, OneRecordMoves

(* Every step of the user.                                                 *)
LEMMA UserRecords ==
    ASSUME RecordsInv, StoreInv, NEW g \in Games, User(g)
    PROVE  RecordsStay /\ (EditsStay \/ Spend("edits"))
<1> USE DEF Operations
<1>1. CASE InsertGame(g)
  <2>1. PICK p \in Payload : ~Deleted(p) /\ Save(g, p, "upsert", NoVersion, Absent)
    BY <1>1 DEF InsertGame
  <2>2. local[g].row = Absent /\ NoVersion \in Nat
    BY <1>1 DEF InsertGame, NoVersion
  <2>3. RecordsStay
    BY <2>1, <2>2, SaveRecords
  <2> QED
    BY <2>1, <2>3 DEF Save
<1>2. CASE UpdateGame(g)
  <2>1. Held(local[g]) /\ ~Deleted(local[g].row.payload)
    BY <1>2, HeldIsRow DEF UpdateGame, Editable
  <2>2. PICK f \in Fields, v \in Values :
            Save(g, [local[g].row.payload EXCEPT ![f] = v], "upsert",
                 local[g].row.rv, local[g].row.base)
    BY <1>2 DEF UpdateGame
  <2>3. /\ [local[g].row.payload EXCEPT ![f] = v] \in Payload
        /\ local[g].row.rv \in Nat /\ local[g].row.base \in Payload \cup {Absent}
        /\ local[g].row.payload \in Payload
    BY <2>1, RowType, EditedType
  <2>4. ~Deleted([local[g].row.payload EXCEPT ![f] = v])
    BY <2>1, <2>3, FieldsAssumption DEF Deleted, Payload
  <2>5. local[g].row # Absent
    BY <2>1 DEF Held
  <2>6. RecordsStay
    BY <2>1, <2>2, <2>3, <2>4, <2>5, SaveRecords
  <2> QED
    BY <2>2, <2>6 DEF Save
<1>3. CASE DeleteGame(g)
  <2>1. Held(local[g]) /\ ~Deleted(local[g].row.payload) /\ local[g].row # Absent
    BY <1>3, HeldIsRow DEF DeleteGame, Editable, Held
  <2> DEFINE p == [local[g].row.payload EXCEPT ![DeletedAt] = AtDevice]
  <2>2. p \in Payload /\ Deleted(p)
    BY <2>1, RowType, FieldsAssumption DEF Payload, Columns, Stamps, Deleted, AtDevice, NotDeleted
  <2>3. Save(g, p, "delete", local[g].row.rv, local[g].row.base)
    BY <1>3 DEF DeleteGame
  <2> HIDE DEF p
  <2>4. local[g].row.rv \in Nat /\ local[g].row.base \in Payload \cup {Absent}
    BY <2>1, RowType
  <2>5. RecordsStay
    BY <2>1, <2>2, <2>3, <2>4, SaveRecords
  <2> QED
    BY <2>3, <2>5 DEF Save
<1>4. CASE ViewConflict(g)
  BY <1>4, SameRecords DEF ViewConflict, storeUnchanged
<1> QED
  BY <1>1, <1>2, <1>3, <1>4 DEF User

(* A retry the user asks for, and a retry time that passes.                *)
LEMMA RetryRecords ==
    ASSUME RecordsInv, StoreInv,
           RetryFailed \/ \E g \in Games : \E e \in local[g].box : Elapse(g, e)
    PROVE  RecordsStay /\ EditsStay
<1>1. CASE RetryFailed
  <2>1. local' = [g \in Games |-> RetryFailedEntries(local[g])]
    BY <1>1 DEF RetryFailed
  <2>2. ASSUME NEW g \in Games
        PROVE  /\ RecordSound(past, g, local'[g]) /\ HasStill(g, local[g], local'[g])
               /\ Untouched(local[g], local'[g])
    <3>1. local'[g] = RetryFailedEntries(local[g])
      BY <2>1
    <3> QED
      BY <3>1, RetryFailedEntriesSound DEF StoreInv, RecordsInv
  <2> QED
    BY <2>2 DEF RecordsStay, EditsStay
<1>2. ASSUME NEW g \in Games, NEW e \in local[g].box, Elapse(g, e)
      PROVE  RecordsStay /\ EditsStay
  <2> DEFINE M == [local[g] EXCEPT !.box = (local[g].box \ {e}) \cup {[e EXCEPT !.retry = "due"]}]
  <2>1. local' = [local EXCEPT ![g] = M]
    BY <1>2 DEF Elapse
  <2>2. WellFormed(local[g]) /\ RecordSound(past, g, local[g])
    BY DEF StoreInv, RecordsInv
  <2>3. RecordSound(past, g, M) /\ HasStill(g, local[g], M) /\ Untouched(local[g], M)
    BY <2>2, ElapsedSound
  <2> HIDE DEF M
  <2> QED
    BY <2>1, <2>3, OneRecordMoves
<1> QED
  BY <1>1, <1>2

(* A failed or refused cycle (record_failure).                             *)
LEMMA BlameRecords ==
    ASSUME RecordsInv, StoreInv, NEW w \in Workers, NEW retry \in Retry, Blame(w, retry)
    PROVE  RecordsStay /\ EditsStay
<1> DEFINE ids == {worker[w].blamed[g].id : g \in Batch(worker[w].blamed)}
           own(g) == IF worker[w].blamed[g] = Absent THEN {} ELSE {worker[w].blamed[g].id}
<1>1. local' = [g \in Games |-> RecordFailure(local[g], ids, own(g), retry)]
  BY DEF Blame
<1> HIDE DEF ids, own
<1>2. ASSUME NEW g \in Games
      PROVE  /\ RecordSound(past, g, local'[g]) /\ HasStill(g, local[g], local'[g])
             /\ Untouched(local[g], local'[g])
  <2>1. local'[g] = RecordFailure(local[g], ids, own(g), retry)
    BY <1>1
  <2> QED
    BY <2>1, RecordFailureSound DEF StoreInv, RecordsInv
<1> QED
  BY <1>2 DEF RecordsStay, EditsStay
(* The answers to a push (apply_push_results).                             *)
LEMMA ReceivePushRecords ==
    ASSUME TypeInv, RecordsInv, HistoryInv, ThreadsInv, NEW w \in Workers, ReceivePush(w)
    PROVE  RecordsStay /\ EditsStay
<1> DEFINE entries == worker[w].entries
           answer(g) == CHOOSE a \in worker[w].reply : a.game = g
           order == [g \in Batch(entries) |-> entries[g].id]
           merging == {g \in Batch(entries) :
                          /\ ~answer(g).applied /\ answer(g).remote # Absent
                          /\ Merges(local[g], answer(g).remote, TRUE)}
<1>1. PICK id \in OutboxIds :
        local' = [g \in Games |->
                IF entries[g] = Absent THEN local[g]
                ELSE AfterAnswer(local[g], entries[g], answer(g),
                                 id + Place(g, merging, order))]
  BY DEF ReceivePush
<1>2. merging \in SUBSET Games /\ StoreInv
  BY DEF Batch, TypeInv
<1>3. ASSUME NEW g \in Batch(entries)
      PROVE  /\ g \in Games /\ entries[g] \in Entry
             /\ Held(local[g])
             /\ answer(g) \in Answer /\ AnswerFits(past, g, entries[g], answer(g))
  <2>1. g \in Games /\ entries[g] \in Entry
    BY ThreadType DEF Batch, Sendable
  <2>2. Held(local[g])
    BY <2>1, <1>2, HeldIsRow DEF TypeInv, EntriesInv, Batch
  <2>3. worker[w].pc = "push" /\ worker[w].reply # Absent
    BY DEF ReceivePush
  <2>4. answer(g) \in worker[w].reply /\ answer(g).game = g /\ answer(g) \in Answer
    BY <2>3, ThreadType DEF ReplyFits
  <2> HIDE DEF answer
  <2>5. AnswerFits(past, g, entries[g], answer(g))
    BY <2>3, <2>4 DEF ThreadsInv, RepliesFit
  <2> QED
    BY <2>1, <2>2, <2>4, <2>5
<1> HIDE DEF answer, order, merging
<1>4. ASSUME NEW g \in Games
      PROVE  /\ RecordSound(past, g, local'[g]) /\ HasStill(g, local[g], local'[g])
             /\ Untouched(local[g], local'[g])
  <2>1. CASE entries[g] = Absent
    <3>1. local'[g] = local[g]
      BY <1>1, <2>1
    <3> QED
      BY <3>1, EquivalentFacts DEF RecordsInv, HasStill, Untouched, Unsent
  <2>2. CASE entries[g] # Absent
    <3> DEFINE place == id + Place(g, merging, order)
    <3>1. place \in Nat
      <4>1. id \in Nat /\ Place(g, merging, order) \in Nat
        BY <1>2, OutboxIdsType, PlaceType
      <4> QED
        BY <4>1
    <3>2. g \in Batch(entries)
      BY <2>2 DEF Batch
    <3>3. answer(g).applied \in BOOLEAN /\ answer(g).version \in Nat
          /\ answer(g).remote \in ServerRow \cup {Absent}
      BY <3>2, <1>3 DEF Answer
    <3>4. local'[g] = AfterAnswer(local[g], entries[g], answer(g), place)
      BY <1>1, <2>2
    <3>5. RecordSound(past, g, local[g]) /\ (Seen(past, g) => g \notin Foreign)
      BY SeenIsThere DEF RecordsInv
    <3> HIDE DEF place, entries
    <3> QED
      BY <1>3, <3>1, <3>2, <3>3, <3>4, <3>5, AfterAnswerSound
  <2> QED
    BY <2>1, <2>2
<1> QED
  BY <1>4 DEF RecordsStay, EditsStay

(* A pulled page (apply_pull_batch): the device has what is on it.         *)
LEMMA ReceivePullRecords ==
    ASSUME TypeInv, RecordsInv, HistoryInv, ThreadsInv, NEW w \in Workers, ReceivePull(w)
    PROVE  /\ RecordsStay /\ EditsStay
           /\ \A r \in worker[w].reply : Has(local'[r.game], r.version)
<1> DEFINE rows == worker[w].reply
           row(g) == CHOOSE r \in rows : r.game = g
           remote(g) == [payload |-> row(g).payload, version |-> row(g).version]
           pulled == {r.game : r \in rows}
           order == [g \in pulled |-> row(g).version]
           merging == {g \in pulled : Merges(local[g], remote(g), FALSE)}
<1>1. PICK id \in OutboxIds :
        local' = [g \in Games |->
                IF g \in pulled
                THEN Reconcile(local[g], remote(g), FALSE, id + Place(g, merging, order))
                ELSE local[g]]
  BY DEF ReceivePull
<1>2. /\ worker[w].pc = "pull" /\ rows # Absent
      /\ rows \subseteq VersionedRow /\ PageFits(past, worker[w])
  BY ThreadType DEF ReceivePull, ReplyFits, ThreadsInv, RepliesFit
<1>3. ASSUME NEW g \in pulled
      PROVE  /\ g \in Games /\ row(g) \in rows /\ row(g).game = g
             /\ remote(g) \in ServerRow /\ RowSeen(past, g, remote(g))
  <2>1. row(g) \in rows /\ row(g).game = g
    OBVIOUS
  <2> HIDE DEF row
  <2>2. g \in Games /\ remote(g) \in ServerRow
    BY <1>2, <2>1 DEF VersionedRow, ServerRow
  <2>3. [game |-> g, payload |-> row(g).payload, version |-> row(g).version] = row(g)
    BY <1>2, <2>1 DEF VersionedRow
  <2>4. RowSeen(past, g, remote(g))
    BY <1>2, <2>1, <2>3 DEF PageFits, RowSeen
  <2> QED
    BY <2>1, <2>2, <2>4
<1>4. merging \in SUBSET Games
  <2> HIDE DEF row, remote, pulled
  <2> QED
    BY <1>3
<1>5. \A g \in pulled : remote(g).version = row(g).version
  OBVIOUS
<1>6. ASSUME NEW r \in rows
      PROVE  r.game \in pulled /\ row(r.game) = r /\ r.game \in Games
  <2>1. r.game \in pulled
    OBVIOUS
  <2>2. row(r.game) \in rows /\ row(r.game).game = r.game
    BY <1>3, <2>1
  <2> HIDE DEF row
  <2> QED
    BY <1>2, <1>3, <2>1, <2>2 DEF PageFits
<1> HIDE DEF row, remote, pulled, order, merging
<1>7. ASSUME NEW g \in Games
      PROVE  /\ RecordSound(past, g, local'[g]) /\ HasStill(g, local[g], local'[g])
             /\ Untouched(local[g], local'[g])
             /\ g \in pulled => Has(local'[g], row(g).version)
  <2>1. CASE g \notin pulled
    <3>1. local'[g] = local[g]
      BY <1>1, <2>1
    <3> QED
      BY <2>1, <3>1, EquivalentFacts DEF RecordsInv, HasStill, Untouched, Unsent
  <2>2. CASE g \in pulled
    <3> DEFINE place == id + Place(g, merging, order)
    <3>1. place \in Nat
      <4>1. id \in Nat /\ Place(g, merging, order) \in Nat
        BY <1>4, OutboxIdsType, PlaceType
      <4> QED
        BY <4>1
    <3>2. WellFormed(local[g]) /\ RecordSound(past, g, local[g])
      BY DEF TypeInv, StoreInv, RecordsInv
    <3>3. local'[g] = Reconcile(local[g], remote(g), FALSE, place)
      BY <1>1, <2>2
    <3>4. remote(g) \in ServerRow /\ RowSeen(past, g, remote(g))
      BY <1>3, <2>2
    <3>5. g \notin Foreign
      BY <3>4, SeenIsThere DEF RowSeen, Seen
    <3> HIDE DEF place
    <3>6. /\ RecordSound(past, g, local'[g]) /\ HasStill(g, local[g], local'[g])
          /\ Untouched(local[g], local'[g]) /\ Has(local'[g], remote(g).version)
      BY <3>1, <3>2, <3>3, <3>4, <3>5, ReconcileSound
    <3> QED
      BY <1>5, <2>2, <3>6
  <2> QED
    BY <2>1, <2>2
<1>8. \A r \in rows : Has(local'[r.game], r.version)
  <2> TAKE r \in rows
  <2>1. r.game \in pulled /\ row(r.game) = r /\ r.game \in Games
    BY <1>6
  <2> QED
    BY <1>7, <2>1
<1> QED
  BY <1>7, <1>8 DEF RecordsStay, EditsStay

(* What is known of the row a thread has fetched for an answer.            *)
LEMMA FetchedRow ==
    ASSUME TypeInv, RecordsInv, FetchInv, NEW w \in Workers, Fetched(w)
    PROVE  /\ dialog.game \in Games /\ dialog.busy
           /\ Held(local[dialog.game]) /\ RecordSound(past, dialog.game, local[dialog.game])
           /\ Fresh(w) \in ServerRow \cup {Absent}
           /\ Fresh(w) = Absent => dialog.game \in Foreign
           /\ Fresh(w) # Absent => RowSeen(past, dialog.game, Fresh(w))
           /\ dialog.selected \in Payload \cup {Absent}
<1>1. w = active /\ worker[active].pc = "fetch" /\ worker[active].reply # Absent
  BY DEF Fetched
<1>2. Fresh(w) = worker[active].reply.row
  BY <1>1 DEF Fresh
<1> QED
  BY <1>1, <1>2, FetchedType, FetchingDialog DEF FetchInv, RecordsInv

(* A conflict that the server has moved meanwhile.                         *)
LEMMA ResolveMovedRecords ==
    ASSUME TypeInv, RecordsInv, FetchInv, NEW w \in Workers, ResolveMoved(w)
    PROVE  RecordsStay /\ EditsStay
<1>1. CASE UNCHANGED local
  BY <1>1, SameRecords
<1>2. CASE local' = [local EXCEPT ![dialog.game] = StoreConflict(@, Fresh(w))]
  <2> DEFINE g == dialog.game
             L == local[g]
             M == StoreConflict(L, Fresh(w))
  <2>1. /\ g \in Games /\ Held(L) /\ RecordSound(past, g, L)
        /\ Fresh(w) \in ServerRow \cup {Absent}
        /\ Fresh(w) = Absent => g \in Foreign
        /\ Fresh(w) # Absent => RowSeen(past, g, Fresh(w))
    BY FetchedRow DEF ResolveMoved
  <2>2. Fresh(w) # Absent => ~Outdated(L, Fresh(w))
    BY DEF ResolveMoved, Stale, OlderThanKnown
  <2> HIDE DEF L
  <2>3. RecordSound(past, g, M) /\ Untouched(L, M) /\ Held(M)
        /\ M.conflict.open /\ M.conflict.remote = Fresh(w)
    BY <2>1, StoreConflictSound, StoreConflictType, StoreConflictShape
  <2> HIDE DEF M
  <2>4. ASSUME g \notin Foreign
        PROVE  HasStill(g, L, M)
    <3>1. Fresh(w) \in ServerRow /\ ~Outdated(L, Fresh(w)) /\ Fresh(w).version \in Nat
      BY <2>1, <2>2, <2>4 DEF ServerRow
    <3>2. Has(M, Fresh(w).version)
      BY <2>3, <3>1, AbsentAssumption DEF Has, Held
    <3> QED
      BY <2>1, <2>3, <3>1, <3>2, NotOutdated, HasLess DEF HasStill
  <2>5. HasStill(g, L, M)
    BY <2>4 DEF HasStill
  <2>6. local' = [local EXCEPT ![g] = M]
    BY <1>2 DEF L, M
  <2> QED
    BY <2>1, <2>3, <2>5, <2>6, OneRecordMoves DEF L, TypeInv
<1> QED
  BY <1>1, <1>2 DEF ResolveMoved

(* An answered conflict (resolve_conflict).                                *)
LEMMA ResolveRecords ==
    ASSUME TypeInv, RecordsInv, FetchInv, NEW w \in Workers, Resolve(w)
    PROVE  /\ RecordsStay
           /\ \A h \in Games : h # dialog.game => Untouched(local[h], local'[h])
<1> DEFINE g == dialog.game
           L == local[g]
           M(id) == Resolved(L, dialog.selected, Fresh(w), id)
<1>1. PICK id \in OutboxIds : local' = [local EXCEPT ![g] = M(id)]
  BY DEF Resolve
<1>2. /\ g \in Games /\ Held(L) /\ RecordSound(past, g, L)
      /\ Fresh(w) \in ServerRow \cup {Absent}
      /\ Fresh(w) = Absent => g \in Foreign
      /\ Fresh(w) # Absent => RowSeen(past, g, Fresh(w))
      /\ dialog.selected \in Payload \cup {Absent}
      /\ dialog.selected \notin Payload => dialog.remote = Absent
  BY FetchedRow, FetchedType, FetchingDialog DEF Resolve
<1>3. id \in Nat /\ StoreInv
  BY OutboxIdsType DEF TypeInv
<1>4. Fresh(w) # Absent => ~Outdated(L, Fresh(w))
  BY DEF Resolve, Stale, OlderThanKnown
<1>5. Fresh(w) # Absent => dialog.selected \in Payload
  BY <1>2 DEF Resolve, Converged, ServerRow
<1> HIDE DEF L
<1>6. RecordSound(past, g, M(id)) /\ HasStill(g, L, M(id))
  <2>1. CASE Fresh(w) = Absent
    <3> DEFINE deleting == dialog.selected = Absent \/ Deleted(dialog.selected)
    <3>1. deleting \in BOOLEAN /\ (~deleting => ~Deleted(dialog.selected))
      BY DEF Deleted
    <3>2. M(id) = ResolveMissing(L, dialog.selected, deleting, id)
      BY <2>1 DEF Resolved
    <3> HIDE DEF deleting
    <3>3. RecordSound(past, g, M(id))
      BY <1>2, <1>3, <2>1, <3>1, <3>2, ResolveMissingSound
    <3> QED
      BY <1>2, <2>1, <3>3 DEF HasStill
  <2>2. CASE Fresh(w) # Absent
    <3>1. Fresh(w) \in ServerRow /\ dialog.selected \in Payload
      BY <1>2, <1>5, <2>2
    <3>2. M(id) = ResolveAgainst(L, dialog.selected, Fresh(w), id)
      BY <2>2 DEF Resolved
    <3> QED
      BY <1>2, <1>3, <1>4, <2>2, <3>1, <3>2, ResolveAgainstSound
  <2> QED
    BY <2>1, <2>2
<1>7. local' = [local EXCEPT ![g] = M(id)]
  BY <1>1
<1> HIDE DEF M
<1> QED
  BY <1>2, <1>3, <1>6, <1>7, OneRecordMoves DEF L

(* Every step leaves every record sound, and only an edit or an answer of  *)
(* the user touches what was not sent.                                     *)
LEMMA RecordsMove ==
    ASSUME TypeInv, RecordsInv, HistoryInv, ThreadsInv, FetchInv, [Next]_vars
    PROVE  /\ RecordsStay
           /\ \/ EditsStay
              \/ Spend("edits")
              \/ /\ \E w \in Workers : Resolve(w)
                 /\ \A h \in Games : h # dialog.game => Untouched(local[h], local'[h])
<1> DEFINE Answered == /\ \E w \in Workers : Resolve(w)
                       /\ \A h \in Games : h # dialog.game => Untouched(local[h], local'[h])
<1> SUFFICES RecordsStay /\ (EditsStay \/ Spend("edits") \/ Answered)
  OBVIOUS
<1>0. StoreInv
  BY DEF TypeInv
<1>1. CASE UNCHANGED local
  BY <1>1, SameRecords
<1>2. ASSUME NEW g \in Games, User(g)
      PROVE  RecordsStay /\ (EditsStay \/ Spend("edits"))
  BY <1>0, <1>2, UserRecords
<1>3. ASSUME NEW g \in Games, Others(g)
      PROVE  UNCHANGED local
  BY <1>3, OtherClientSends
<1>4. CASE RetryFailed \/ \E g \in Games : \E e \in local[g].box : Elapse(g, e)
  BY <1>0, <1>4, RetryRecords
<1>5. CASE Submit \/ CloseDialog \/ Crash \/ ServerLate \/ UNCHANGED vars
  BY <1>1, <1>5 DEF Submit, CloseDialog, Crash, ServerLate, storeUnchanged, vars
<1>6. ASSUME NEW w \in Workers, Cycle(w)
      PROVE  RecordsStay /\ EditsStay
  <2>1. CASE ReceivePush(w)
    BY <2>1, ReceivePushRecords
  <2>2. CASE ReceivePull(w)
    BY <2>2, ReceivePullRecords
  <2>3. CASE RefuseAck(w)
    BY <1>0, <2>3, BlameRecords DEF RefuseAck, GiveUp, Retry
  <2>4. CASE \/ StartCycle(w) \/ Register(w) \/ ServerPush(w) \/ ServerPull(w)
             \/ RefusePull(w) \/ ServerAck(w) \/ FinishCycle(w)
    BY <2>4, SameRecords DEF StartCycle, Register, ServerPush, ServerPull, RefusePull,
                             ServerAck, FinishCycle, storeUnchanged
  <2> QED
    BY <1>6, <2>1, <2>2, <2>3, <2>4 DEF Cycle
<1>7. ASSUME NEW w \in Workers, Answering(w)
      PROVE  RecordsStay /\ (EditsStay \/ Answered)
  <2>1. CASE ResolveMoved(w)
    BY <2>1, ResolveMovedRecords
  <2>2. CASE Resolve(w)
    BY <2>2, ResolveRecords
  <2>3. CASE TakeResolution(w) \/ ServerFetch(w) \/ CancelFetch(w) \/ ResolveStale(w)
    BY <2>3, SameRecords DEF TakeResolution, ServerFetch, CancelFetch, ResolveStale,
                             storeUnchanged
  <2> HIDE DEF Answered
  <2> QED
    BY <1>7, <2>1, <2>2, <2>3 DEF Answering, Answered
<1>8. ASSUME NEW w \in Workers, Faults(w)
      PROVE  RecordsStay /\ EditsStay
  <2>1. CASE FailCycle(w) \/ RejectCycle(w)
    BY <1>0, <2>1, BlameRecords DEF FailCycle, RejectCycle, GiveUp, Retry
  <2>2. CASE ExpireToken(w) \/ EndSession(w) \/ FailFetch(w) \/ ReopenProfile(w)
    BY <2>2, SameRecords DEF ExpireToken, EndSession, FailFetch, ReopenProfile, storeUnchanged
  <2> QED
    BY <1>8, <2>1, <2>2 DEF Faults
<1> HIDE DEF Answered
<1> QED
  BY <1>1, <1>2, <1>3, <1>4, <1>5, <1>6, <1>7, <1>8 DEF Next

(* Every step keeps the records sound.                                     *)
LEMMA RecordsStep ==
    ASSUME TypeInv, RecordsInv, HistoryInv, ThreadsInv, FetchInv, [Next]_vars
    PROVE  RecordsInv'
<1>1. RecordsStay /\ past \subseteq past'
  BY RecordsMove, HistoryStep DEF HistoryGrows
<1>2. ASSUME NEW g \in Games
      PROVE  RecordSound(past', g, local'[g])
  BY <1>1, SeenStays DEF RecordsStay
<1> QED
  BY <1>2 DEF RecordsInv

-----------------------------------------------------------------------------
(* The threads.                                                            *)

Fits(t) == RepliesFit(past, t) /\ PageComplete(t)

(* What a change and an answer rest on stays in the history.               *)
LEMMA FittingStays ==
    ASSUME NEW P, NEW Q, P \subseteq Q, NEW g, NEW e, EntrySound(P, g, e)
    PROVE  /\ EntrySound(Q, g, e)
           /\ \A a : AnswerFits(P, g, e, a) => AnswerFits(Q, g, e, a)
<1>1. EntrySound(Q, g, e)
  BY DEF EntrySound, BoundTo
<1>2. ASSUME NEW a, AnswerFits(P, g, e, a)
      PROVE  AnswerFits(Q, g, e, a)
  BY <1>2 DEF AnswerFits, RowSeen
<1> QED
  BY <1>1, <1>2

(* The cursor stays, or moves to the version of a row on a pulled page.    *)
LEMMA CursorMoves ==
    ASSUME TypeInv, AckInv, [Next]_vars
    PROVE  \/ cursor' = cursor
           \/ \E w \in Workers : ReceivePull(w) /\ \E r \in worker[w].reply : cursor' = r.version
<1> DEFINE Pulls == \E w \in Workers : ReceivePull(w) /\ \E r \in worker[w].reply : cursor' = r.version
<1> SUFFICES cursor' = cursor \/ Pulls
  OBVIOUS
<1>1. CASE AckStays
  BY <1>1 DEF AckStays
<1>2. ASSUME NEW w \in Workers, Register(w) \/ ServerAck(w)
      PROVE  cursor' = cursor
  BY <1>2 DEF Register, ServerAck, storeUnchanged
<1>3. ASSUME NEW w \in Workers, ReceivePull(w)
      PROVE  cursor' = cursor \/ Pulls
  <2> DEFINE rows == worker[w].reply
             versions == {row.version : row \in rows}
  <2>1. worker[w].pc = "pull" /\ rows # Absent /\ cursor' = AdvancedTo(w)
    BY <1>3 DEF ReceivePull
  <2>2. rows \subseteq VersionedRow /\ clock \in Nat /\ \A row \in rows : row.version <= clock
    BY <2>1, ThreadType DEF ReplyFits, TypeInv, PulledInv, ServerTypeOK
  <2>3. CASE rows = {}
    BY <2>1, <2>3 DEF AdvancedTo
  <2>4. CASE rows # {}
    <3>1. versions # {} /\ versions \subseteq 1..clock
      BY <2>2, <2>4 DEF VersionedRow, NoVersion
    <3>2. \E m \in versions : \A n \in versions : n <= m
      BY <2>2, <3>1, LargestExists
    <3>3. \E m \in versions : \A row \in rows : row.version <= m
      BY <3>2
    <3>4. AdvancedTo(w) \in versions
      BY <2>4, <3>3 DEF AdvancedTo
    <3> QED
      BY <1>3, <2>1, <3>4
  <2> QED
    BY <2>3, <2>4
<1> HIDE DEF Pulls
<1> QED
  BY <1>1, <1>2, <1>3, AckSteps

(* The cursor does not go back and stays within the clock.                 *)
LEMMA CursorGrows ==
    ASSUME TypeInv, AckInv, [Next]_vars
    PROVE  cursor \in Nat /\ cursor' \in Nat /\ cursor <= cursor' /\ cursor' <= clock
<1>1. cursor \in Nat /\ cursor' \in Nat /\ cursor <= clock
  BY CursorStep DEF TypeInv, AckInv, AckBehindCursor
<1>2. ASSUME NEW w \in Workers, ReceivePull(w)
      PROVE  cursor <= cursor' /\ cursor' <= clock
  BY <1>1, <1>2, ReceivePullAdvances
<1> QED
  BY <1>1, <1>2, CursorMoves

(* A reply that fits goes on fitting: what the server writes later has a   *)
(* version beyond every row of a page.                                     *)
LEMMA FitsStays ==
    ASSUME TypeInv, AckInv, HistoryInv, [Next]_vars, NEW t \in Thread, Fits(t)
    PROVE  Fits(t)'
<1>1. past \subseteq past' /\ HistoryGrows
  BY HistoryStep DEF HistoryGrows
<1>2. RepliesFit(past', t)
  <2>1. \A g \in Games : t.entries[g] # Absent => EntrySound(past', g, t.entries[g])
    BY <1>1, FittingStays DEF Fits, RepliesFit
  <2>2. ASSUME t.pc = "push", t.reply # Absent, NEW a \in t.reply
        PROVE  /\ a.game \in Games /\ t.entries[a.game] # Absent
               /\ AnswerFits(past', a.game, t.entries[a.game], a)
    <3>1. /\ a.game \in Games /\ t.entries[a.game] # Absent
          /\ AnswerFits(past, a.game, t.entries[a.game], a)
          /\ EntrySound(past, a.game, t.entries[a.game])
      BY <2>2 DEF Fits, RepliesFit
    <3> QED
      BY <1>1, <3>1, FittingStays
  <2>3. t.pc = "pull" /\ t.reply # Absent => PageFits(past', t)
    BY <1>1 DEF Fits, RepliesFit, PageFits
  <2> QED
    BY <2>1, <2>2, <2>3 DEF RepliesFit
<1>3. ASSUME t.pc = "pull"
      PROVE  t.after <= cursor'
  <2>1. t.after \in Nat /\ t.after <= cursor
    BY <1>3 DEF Fits, PageComplete, Thread
  <2> QED
    BY <2>1, CursorGrows
<1>4. ASSUME t.pc = "pull", t.reply # Absent
      PROVE  Complete(t)'
  <2> SUFFICES ASSUME NEW g \in Games, NEW r \in t.reply, games'[g] # Absent,
                      games'[g].version > t.after, games'[g].version <= r.version
               PROVE  [game |-> g, payload |-> games'[g].payload,
                       version |-> games'[g].version] \in t.reply
    BY DEF Complete
  <2>1. r \in past
    BY <1>4 DEF Fits, RepliesFit, PageFits
  <2>2. r.version \in Nat /\ r.version <= clock /\ clock \in Nat
    BY <2>1 DEF HistoryInv, TypeInv, ServerTypeOK, VersionedRow
  <2>3. games'[g] \in ServerRow \cup {Absent}
    BY ServerTypeStep DEF ServerTypeOK
  <2>4. games'[g].version \in Nat
    BY <2>3 DEF ServerRow
  <2>5. games'[g] = games[g]
    BY <1>1, <2>2, <2>4 DEF HistoryGrows
  <2>6. Complete(t)
    BY <1>4 DEF Fits, PageComplete
  <2> QED
    BY <2>5, <2>6 DEF Complete
<1> QED
  BY <1>2, <1>3, <1>4 DEF Fits, PageComplete

(* A thread that has no reply to a push or a pull.                         *)
LEMMA AwaitingFits ==
    ASSUME NEW t, NEW u,
           \A g \in Games : t.entries[g] # Absent => EntrySound(past, g, t.entries[g]),
           u.entries = t.entries,
           u.pc \in {"push", "pull"} => u.reply = Absent,
           u.pc = "pull" => u.after <= cursor
    PROVE  Fits(u)
BY DEF Fits, RepliesFit, PageComplete

(* A thread that has nothing under way, or has yet to fetch.               *)
LEMMA IdleFits == Fits(Idle) /\ Fits([Idle EXCEPT !.pc = "fetch"])
<1>1. Fits(Idle)
  BY DEF Idle, Fits, RepliesFit, PageComplete
<1>2. Fits([Idle EXCEPT !.pc = "fetch"])
  BY DEF Idle, Fits, RepliesFit, PageComplete
<1> QED
  BY <1>1, <1>2

(* What is fetched from the outbox is sound.                               *)
LEMMA FetchDueSound ==
    ASSUME StoreInv, RecordsInv, NEW g \in Games, FetchDue[g] # Absent
    PROVE  EntrySound(past, g, FetchDue[g])
<1> DEFINE e == Newest(local[g].box)
<1>1. Due(local[g]) /\ FetchDue[g] = [e EXCEPT !.retry = "due"]
  BY DEF FetchDue, DueChanges, StoreInv
<1>2. local[g].row # Absent /\ e \in local[g].box /\ local[g].box \subseteq Entry
  BY <1>1, NewestExists DEF Due, StoreInv, Record
<1>3. EntrySound(past, g, e)
  BY <1>2 DEF RecordsInv, RecordSound, BoxSound
<1> HIDE DEF e
<1>4. e \in Entry
  BY <1>2
<1>5. FetchDue[g].op = e.op /\ FetchDue[g].snap = e.snap
  BY <1>1, <1>4 DEF Entry
<1> QED
  BY <1>3, <1>5 DEF EntrySound

(* A cycle begins with sound changes.                                      *)
LEMMA NewCycleFits ==
    ASSUME StoreInv, RecordsInv, NEW t, t.entries = FetchDue, t.pc = "register"
    PROVE  Fits(t)
BY FetchDueSound DEF Fits, RepliesFit, PageComplete

(* A page is what the server has from the version asked for on, in order   *)
(* and without a gap.                                                      *)
LEMMA PageHasNoGap ==
    ASSUME ServerTypeOK, NEW after \in Nat, NEW g \in Games, NEW h \in Page(after, BatchSize),
           games[g] # Absent, games[g].version > after, games[g].version <= games[h].version
    PROVE  g \in Page(after, BatchSize)
<1> DEFINE Below(k) == {m \in Newer(after) : games[m].version < games[k].version}
<1>1. Newer(after) \subseteq Games /\ IsFiniteSet(Newer(after))
  BY GamesAssumption, FS_Subset DEF Newer
<1>2. g \in Newer(after) /\ h \in Newer(after)
  BY DEF Newer, Page
<1>3. \A m \in Newer(after) : games[m] \in ServerRow
  BY <1>1 DEF ServerTypeOK, Newer
<1>4. \A m \in Newer(after) : games[m].version \in Nat
  BY <1>3 DEF ServerRow
<1>5. Below(g) \subseteq Below(h)
  BY <1>2, <1>4
<1>6. IsFiniteSet(Below(h))
  BY <1>1, FS_Subset
<1>7. /\ Cardinality(Below(g)) <= Cardinality(Below(h))
      /\ Cardinality(Below(g)) \in Nat /\ Cardinality(Below(h)) \in Nat
  BY <1>5, <1>6, FS_Subset, FS_CardinalityType
<1>8. Cardinality(Below(h)) < BatchSize
  BY DEF Page
<1>9. Cardinality(Below(g)) < BatchSize
  BY <1>7, <1>8, BoundsAssumption
<1> QED
  BY <1>2, <1>9 DEF Page

(* The page the server sends fits.                                         *)
LEMMA ServerPullFits ==
    ASSUME TypeInv, HistoryInv, ThreadsInv, NEW w \in Workers, ServerPull(w)
    PROVE  \E t : Goto(w, t) /\ Fits(t)
<1> DEFINE T == worker[w]
           page == Page(T.after, BatchSize)
           reply == RowsOf(page, games)
           t == [T EXCEPT !.reply = reply]
<1>1. Goto(w, t) /\ T.pc = "pull"
  BY DEF ServerPull
<1>2. T \in Thread /\ T.after \in Nat
  BY ThreadType
<1>3. RepliesFit(past, T) /\ PageComplete(T) /\ ServerTypeOK
  BY DEF ThreadsInv, TypeInv
<1>4. page \subseteq Games /\ \A g \in page : games[g] # Absent
  BY DEF Page, Newer
<1>5. \A r \in reply : r.game \in page /\ r = [game |-> r.game, payload |-> games[r.game].payload,
                                                version |-> games[r.game].version]
  BY DEF RowsOf
<1>6. \A g \in page : [game |-> g, payload |-> games[g].payload,
                       version |-> games[g].version] \in reply
  BY DEF RowsOf
<1>7. \A g \in Games, h \in page :
         games[g] # Absent /\ games[g].version > T.after /\ games[g].version <= games[h].version
            => g \in page
  BY <1>2, <1>3, PageHasNoGap
<1> HIDE DEF page, reply
<1>8. reply \subseteq past
  BY <1>4, <1>5 DEF HistoryInv, RowSeen
<1>9. /\ t.pc = "pull" /\ t.reply = reply /\ t.entries = T.entries /\ t.after = T.after
  BY <1>1, <1>2 DEF Thread
<1> HIDE DEF T, t
<1>10. \A r, q \in reply : r.game = q.game => r = q
  BY <1>5
<1>11. RepliesFit(past, t)
  BY <1>3, <1>8, <1>9, <1>10 DEF RepliesFit, PageFits
<1>12. ASSUME NEW g \in Games, NEW r \in reply, games[g] # Absent,
              games[g].version > T.after, games[g].version <= r.version
       PROVE  [game |-> g, payload |-> games[g].payload, version |-> games[g].version] \in reply
  <2>1. r.game \in page /\ r.version = games[r.game].version
    BY <1>5
  <2> QED
    BY <1>6, <1>7, <1>12, <2>1
<1>13. PageComplete(t)
  BY <1>1, <1>3, <1>9, <1>12 DEF PageComplete, Complete
<1> QED
  BY <1>1, <1>11, <1>13 DEF Fits

(* A request is made of its record's change, and a batch has one of each.  *)
LEMMA RequestFacts ==
    ASSUME NEW entries, NEW r \in Requests(entries)
    PROVE  /\ r.game \in Games /\ entries[r.game] # Absent
           /\ r.op = RemoteOp(entries[r.game])
           /\ r.expected = entries[r.game].snap.rv
           /\ r.payload = entries[r.game].snap.payload
           /\ \A q \in Requests(entries) : q.game = r.game => q = r
<1> DEFINE Seq(g) == Cardinality({h \in Batch(entries) : entries[h].id <= entries[g].id})
<1>1. \A q \in Requests(entries) :
        \E g \in Batch(entries) : q = RequestOf(g, entries[g], Seq(g))
  BY DEF Requests
<1> HIDE DEF Seq
<1>2. \A g : RequestOf(g, entries[g], Seq(g)).game = g
  BY DEF RequestOf
<1>3. ASSUME NEW q \in Requests(entries)
      PROVE  q.game \in Batch(entries) /\ q = RequestOf(q.game, entries[q.game], Seq(q.game))
  <2>1. PICK g \in Batch(entries) : q = RequestOf(g, entries[g], Seq(g))
    BY <1>1
  <2>2. q.game = g
    BY <1>2, <2>1
  <2> QED
    BY <2>1, <2>2
<1>4. PICK g \in Batch(entries) : r.game = g /\ r = RequestOf(g, entries[g], Seq(g))
  BY <1>3
<1>5. r.op = RemoteOp(entries[g]) /\ r.expected = entries[g].snap.rv
      /\ r.payload = entries[g].snap.payload
  BY <1>4 DEF RequestOf
<1>6. \A q \in Requests(entries) : q.game = r.game => q = r
  BY <1>3
<1> QED
  BY <1>4, <1>5, <1>6 DEF Batch

(* A live payload is the record it was.                                    *)
LEMMA LivePayloadIsTheRecord ==
    ASSUME NEW p \in Payload, ~Deleted(p)
    PROVE  SameRecord(p, LivePayload(p))
<1>1. \A c \in Columns : LivePayload(p)[c] = p[c]
  BY DEF LivePayload, Deleted, Payload, Columns
<1> QED
  BY <1>1, EquivalentFacts, SameRecordColumns

(* Every answer to a push fits the change it answers, as soon as the server *)
(* has written.                                                            *)
LEMMA AnswerFitsChange ==
    ASSUME TypeInv, HistoryInv, NEW entries \in Sendable,
           ApplyChanges(Requests(entries)), HistoryInv', past \subseteq past',
           NEW g \in Games, entries[g] # Absent, EntrySound(past, g, entries[g]),
           NEW r \in Requests(entries), r.game = g
    PROVE  AnswerFits(past', g, entries[g], AnswerTo(Requests(entries), r))
<1> DEFINE e == entries[g]
           batch == Requests(entries)
           a == AnswerTo(batch, r)
           given == VersionGiven(batch, r)
<1> SUFFICES AnswerFits(past', g, e, a)
  OBVIOUS
<1>1. e \in Entry /\ e.snap.payload \in Payload
  BY DEF Sendable, Entry, Row
<1>2. Sends(batch) /\ ServerTypeOK /\ clock \in Nat
  BY RequestsType DEF TypeInv, ServerTypeOK
<1>3. r.op = RemoteOp(e) /\ r.expected = e.snap.rv /\ r.payload = e.snap.payload
  BY RequestFacts
<1>4. ASSUME NEW q \in batch, q.game = g
      PROVE  q = r
  BY <1>4, RequestFacts
<1>5. (r.op = "delete") <=> Deleted(e.snap.payload)
  BY <1>1, <1>3 DEF RemoteOp, EntrySound
<1>6. CASE Accepts(r)
  <2>1. r \in Accepted(batch)
    BY <1>6 DEF Accepted
  <2>2. a.applied /\ a.version = given
    BY <1>6 DEF AnswerTo
  <2>3. given \in Nat /\ given > clock
    BY <1>2, <2>1, VersionGivenIsAhead
  <2>4. given # NoVersion
    BY <1>2, <2>3 DEF NoVersion
  <2>5. games'[g] = [payload |-> Written(r), version |-> given]
    <3>1. \E q \in Accepted(batch) : q.game = g
      BY <2>1
    <3>2. (CHOOSE q \in Accepted(batch) : q.game = g) = r
      BY <1>4, <3>1 DEF Accepted
    <3>3. games'[g] = Applied(batch)[g]
      BY DEF ApplyChanges
    <3> HIDE DEF batch
    <3> QED
      BY <3>1, <3>2, <3>3 DEF Applied
  <2>6. games'[g] # Absent
    <3>1. games'[g] \in ServerRow
      BY <1>2, <2>1, <2>5, WrittenType, <2>3, <2>4 DEF ServerRow
    <3> QED
      BY <3>1, AbsentAssumption
  <2>7. RowSeen(past', g, games'[g])
    BY <2>6 DEF HistoryInv
  <2>8. [game |-> g, payload |-> Written(r), version |-> given] \in past'
    BY <2>5, <2>7 DEF RowSeen
  <2>9. ~Deleted(e.snap.payload) => SameRecord(e.snap.payload, Written(r))
    BY <1>1, <1>3, <1>5, LivePayloadIsTheRecord DEF Written
  <2> HIDE DEF a, given, e
  <2> QED
    BY <2>2, <2>4, <2>8, <2>9 DEF AnswerFits
<1>7. CASE ~Accepts(r) /\ r.op = "delete" /\ r.expected = NoVersion
  <2>1. a.applied /\ a.version = NoVersion
    BY <1>7 DEF AnswerTo
  <2> HIDE DEF a, e
  <2> QED
    BY <1>5, <1>7, <2>1 DEF AnswerFits
<1>8. CASE ~Accepts(r) /\ ~(r.op = "delete" /\ r.expected = NoVersion)
  <2>1. ~a.applied /\ a.remote = games[g]
    BY <1>8 DEF AnswerTo
  <2>2. CASE games[g] # Absent
    <3>1. RowSeen(past', g, games[g])
      BY <2>2 DEF HistoryInv, RowSeen
    <3> HIDE DEF a, e
    <3> QED
      BY <2>1, <2>2, <3>1 DEF AnswerFits
  <2>3. CASE games[g] = Absent
    <3>1. e.snap.rv = NoVersion
      <4>1. SUFFICES ASSUME e.snap.rv # NoVersion
                     PROVE  FALSE
        OBVIOUS
      <4>2. Seen(past, g)
        BY <4>1, BoundIsVersioned DEF EntrySound
      <4> QED
        BY <2>3, <4>2, SeenIsThere
    <3>2. r.op = "create"
      BY <1>3, <1>8, <3>1 DEF RemoteOp
    <3>3. g \in Foreign
      BY <1>8, <2>3, <3>2 DEF Accepts
    <3> HIDE DEF a, e
    <3> QED
      BY <2>1, <2>3, <3>3 DEF AnswerFits
  <2> QED
    BY <2>2, <2>3
<1> QED
  BY <1>6, <1>7, <1>8

(* A push leaves its thread with answers that fit.                         *)
LEMMA ServerPushFits ==
    ASSUME TypeInv, HistoryInv, ThreadsInv, NEW w \in Workers, ServerPush(w)
    PROVE  \E t : Goto(w, t) /\ Fits(t)'
<1> DEFINE T == worker[w]
           entries == T.entries
           batch == Requests(entries)
           reply == {AnswerTo(batch, r) : r \in batch}
           t == [T EXCEPT !.reply = reply]
<1>1. Goto(w, t) /\ T.pc = "push" /\ ApplyChanges(batch)
  BY DEF ServerPush
<1>2. T \in Thread /\ entries \in Sendable
  BY ThreadType
<1>3. Sends(batch) /\ ServerTypeOK
  BY ServerPushSends DEF TypeInv
<1>4. HistoryInv' /\ past \subseteq past'
  BY <1>1, <1>3, ApplyChangesHistory DEF HistoryGrows
<1>5. \A g \in Games : entries[g] # Absent => EntrySound(past, g, entries[g])
  BY DEF ThreadsInv, RepliesFit
<1>6. ASSUME NEW a \in reply
      PROVE  a.game \in Games /\ entries[a.game] # Absent /\ AnswerFits(past', a.game, entries[a.game], a)
  <2>1. PICK r \in batch : a = AnswerTo(batch, r)
    BY DEF reply
  <2>2. a.game = r.game
    BY <2>1 DEF AnswerTo
  <2>3. r.game \in Games /\ entries[r.game] # Absent
    BY RequestFacts
  <2> HIDE DEF entries
  <2> QED
    BY <1>1, <1>2, <1>4, <1>5, <2>1, <2>2, <2>3, AnswerFitsChange
<1>7. \A g \in Games : entries[g] # Absent => EntrySound(past', g, entries[g])
  BY <1>4, <1>5, FittingStays
<1> HIDE DEF batch, reply
<1>8. t.pc = "push" /\ t.reply = reply /\ t.entries = entries
  BY <1>1, <1>2 DEF Thread
<1> HIDE DEF t, entries
<1>9. PICK u : u = t
  OBVIOUS
<1>10. Fits(u)'
  BY <1>6, <1>7, <1>8, <1>9 DEF Fits, RepliesFit, PageComplete
<1> QED
  BY <1>1, <1>9, <1>10

(* How the threads move in a step.                                         *)
FitsMove ==
    \/ UNCHANGED worker
    \/ worker' = [w \in Workers |-> Idle]
    \/ \E w \in Workers : \E t : Goto(w, t) /\ Fits(t)
    \/ \E w \in Workers : \E t : Goto(w, t) /\ Fits(t)'

(* Every step of a cycle moves one thread to a state that fits.            *)
LEMMA CycleFits ==
    ASSUME TypeInv, AckInv, RecordsInv, HistoryInv, ThreadsInv, NEW w \in Workers, Cycle(w)
    PROVE  FitsMove
<1> DEFINE T == worker[w]
<1>0. /\ T \in Thread /\ cursor \in Nat
      /\ \A g \in Games : T.entries[g] # Absent => EntrySound(past, g, T.entries[g])
      /\ StoreInv
  BY ThreadType DEF ThreadsInv, RepliesFit, TypeInv
<1>1. CASE StartCycle(w)
  <2> DEFINE t == [Idle EXCEPT !.pc = "register", !.entries = FetchDue, !.blamed = FetchDue]
  <2>1. t.pc = "register" /\ t.entries = FetchDue
    BY DEF Idle
  <2> HIDE DEF t
  <2>2. Fits(t)
    BY <1>0, <2>1, NewCycleFits
  <2>3. Goto(w, t)
    BY <1>1 DEF StartCycle, t
  <2> QED
    BY <2>2, <2>3 DEF FitsMove
<1>2. CASE Register(w)
  <2> DEFINE t == [T EXCEPT !.pc = "pull", !.after = cursor]
  <2>1. T.pc = "register" /\ T.reply = Absent
    BY <1>2, RequestToReply DEF Register
  <2>2. Fits([T EXCEPT !.pc = "push"])
    BY <1>0, <2>1, AwaitingFits DEF Thread
  <2>3. Fits(t)
    <3>1. t.entries = T.entries /\ t.reply = Absent /\ t.after = cursor
      BY <1>0, <2>1 DEF Thread
    <3> HIDE DEF t, T
    <3> QED
      BY <1>0, <3>1, AwaitingFits
  <2> QED
    BY <1>2, <2>2, <2>3 DEF Register, FitsMove
<1>3. CASE ServerPush(w)
  BY <1>3, ServerPushFits DEF FitsMove
<1>4. CASE ReceivePush(w)
  <2> DEFINE t == [T EXCEPT !.pc = "pull", !.reply = Absent, !.after = cursor]
  <2>1. Fits(t)
    <3>1. t.entries = T.entries /\ t.reply = Absent /\ t.after = cursor
      BY <1>0 DEF Thread
    <3> HIDE DEF t, T
    <3> QED
      BY <1>0, <3>1, AwaitingFits
  <2> QED
    BY <1>4, <2>1 DEF ReceivePush, FitsMove
<1>5. CASE ServerPull(w)
  BY <1>5, ServerPullFits DEF FitsMove
<1>6. CASE ReceivePull(w)
  <2>1. Fits([T EXCEPT !.pc = "ack", !.reply = Absent, !.after = cursor'])
    BY <1>0, AwaitingFits DEF Thread
  <2> QED
    BY <1>6, <2>1 DEF ReceivePull, FitsMove
<1>7. CASE RefusePull(w) \/ RefuseAck(w) \/ FinishCycle(w)
  BY <1>7, IdleFits DEF RefusePull, RefuseAck, GiveUp, FinishCycle, FitsMove
<1>8. CASE ServerAck(w)
  <2>1. Fits([T EXCEPT !.pc = "acked"])
    BY <1>0, AwaitingFits DEF Thread
  <2> QED
    BY <1>8, <2>1 DEF ServerAck, FitsMove
<1> HIDE DEF T
<1> QED
  BY <1>1, <1>2, <1>3, <1>4, <1>5, <1>6, <1>7, <1>8 DEF Cycle

(* Every step moves the threads as FitsMove says.                          *)
LEMMA NextFits ==
    ASSUME TypeInv, AckInv, RecordsInv, HistoryInv, ThreadsInv, [Next]_vars
    PROVE  FitsMove
<1>0. Fits(Idle) /\ Fits([Idle EXCEPT !.pc = "fetch"])
  BY IdleFits
<1>1. ASSUME NEW g \in Games, User(g) \/ Others(g)
      PROVE  FitsMove
  BY <1>1, OtherClientSends
     DEF User, InsertGame, UpdateGame, DeleteGame, ViewConflict, Save, syncUnchanged, FitsMove
<1>2. CASE RetryFailed \/ Submit \/ CloseDialog \/ Crash \/ ServerLate \/ UNCHANGED vars
           \/ \E g \in Games : \E e \in local[g].box : Elapse(g, e)
  BY <1>2 DEF RetryFailed, Submit, CloseDialog, Crash, ServerLate, Elapse, syncUnchanged,
              vars, FitsMove
<1>3. ASSUME NEW w \in Workers, Cycle(w)
      PROVE  FitsMove
  BY <1>3, CycleFits
<1>4. ASSUME NEW w \in Workers, Answering(w)
      PROVE  FitsMove
  <2>1. CASE TakeResolution(w)
    BY <1>0, <2>1 DEF TakeResolution, FitsMove
  <2>2. CASE ServerFetch(w)
    <3> DEFINE u == [worker[w] EXCEPT !.reply = [row |-> games[dialog.game]]]
    <3>1. Goto(w, u) /\ worker[w] \in Thread /\ worker[w].pc = "fetch"
      BY <2>2, ThreadType DEF ServerFetch
    <3>2. u.pc = "fetch" /\ u.entries = worker[w].entries
      BY <3>1 DEF Thread
    <3>3. Fits(u)
      <4>1. \A g \in Games : worker[w].entries[g] # Absent
                               => EntrySound(past, g, worker[w].entries[g])
        BY DEF ThreadsInv, RepliesFit
      <4> HIDE DEF u
      <4> QED
        BY <3>2, <4>1, AwaitingFits
    <3> QED
      BY <3>1, <3>3 DEF FitsMove
  <2>3. CASE CancelFetch(w) \/ ResolveStale(w) \/ ResolveMoved(w) \/ Resolve(w)
    BY <1>0, <2>3 DEF CancelFetch, ResolveStale, ResolveMoved, Resolve, FitsMove
  <2> QED
    BY <1>4, <2>1, <2>2, <2>3 DEF Answering
<1>5. ASSUME NEW w \in Workers, Faults(w)
      PROVE  FitsMove
  <2>1. CASE FailCycle(w) \/ RejectCycle(w) \/ EndSession(w) \/ FailFetch(w) \/ ReopenProfile(w)
    BY <1>0, <2>1 DEF FailCycle, RejectCycle, EndSession, GiveUp, FailFetch, ReopenProfile, FitsMove
  <2>2. CASE ExpireToken(w)
    <3> DEFINE t == [Idle EXCEPT !.pc = "register", !.entries = FetchDue,
                                 !.blamed = worker[w].blamed, !.retried = TRUE]
    <3>1. t.pc = "register" /\ t.entries = FetchDue
      BY DEF Idle
    <3>2. Goto(w, t)
      BY <2>2 DEF ExpireToken
    <3> HIDE DEF t
    <3>3. Fits(t)
      BY <3>1, NewCycleFits DEF TypeInv
    <3> QED
      BY <3>2, <3>3 DEF FitsMove
  <2> QED
    BY <1>5, <2>1, <2>2 DEF Faults
<1> QED
  BY <1>1, <1>2, <1>3, <1>4, <1>5 DEF Next

(* Every step leaves every thread with replies that fit.                   *)
LEMMA ThreadsStep ==
    ASSUME TypeInv, AckInv, RecordsInv, HistoryInv, ThreadsInv, [Next]_vars
    PROVE  ThreadsInv'
<1>0. worker \in [Workers -> Thread] /\ worker' \in [Workers -> Thread]
  BY WorkerStep DEF TypeInv, WorkerInv
<1>1. \A w \in Workers : Fits(worker[w])
  BY DEF ThreadsInv, Fits
<1>2. Fits(Idle)
  BY IdleFits
<1>3. ASSUME NEW w \in Workers
      PROVE  Fits(worker[w])'
  <2>1. PICK t : t = worker'[w]
    OBVIOUS
  <2>2. t \in Thread
    BY <1>0, <2>1
  <2>3. SUFFICES Fits(t)'
    BY <2>1 DEF Fits, RepliesFit, PageFits, AnswerFits, PageComplete, Complete
  <2>4. ASSUME Fits(t)
        PROVE  Fits(t)'
    BY <2>2, <2>4, FitsStays
  <2>5. CASE UNCHANGED worker
    BY <1>1, <2>1, <2>4, <2>5
  <2>6. CASE worker' = [v \in Workers |-> Idle]
    BY <1>2, <2>1, <2>4, <2>6
  <2>7. ASSUME NEW v \in Workers, NEW u, Goto(v, u), Fits(u) \/ Fits(u)'
        PROVE  Fits(t)'
    <3>1. t = IF w = v THEN u ELSE worker[w]
      BY <1>0, <2>1, <2>7 DEF Goto
    <3>2. CASE w = v
      BY <2>4, <2>7, <3>1, <3>2
    <3>3. CASE w # v
      BY <1>1, <2>4, <3>1, <3>3
    <3> QED
      BY <3>2, <3>3
  <2> QED
    BY <2>5, <2>6, <2>7, NextFits DEF FitsMove
<1> QED
  BY <1>3 DEF ThreadsInv, Fits

-----------------------------------------------------------------------------
(* The dialog and the row fetched for it.                                  *)

(* A dialog is about the record it was opened for.                         *)
LEMMA DialogKeepsGame ==
    ASSUME TypeInv, [Next]_vars
    PROVE  dialog'.game \in {dialog.game, Absent} \/ \E g \in Games : ViewConflict(g)
<1> DEFINE Opens == \E g \in Games : ViewConflict(g)
           SameGame == dialog'.game \in {dialog.game, Absent}
<1> SUFFICES SameGame \/ Opens
  OBVIOUS
<1>0. DOMAIN dialog = DOMAIN NoDialog
  BY DEF TypeInv, DialogInv
<1>1. ASSUME UNCHANGED dialog
      PROVE  SameGame
  BY <1>1
<1>2. ASSUME dialog' = NoDialog
      PROVE  SameGame
  BY <1>2 DEF NoDialog
<1>3. ASSUME NEW remote, Reload(remote)
      PROVE  SameGame
  BY <1>0, <1>3 DEF Reload, NoDialog
<1>4. CASE Submit
  BY <1>0, <1>4 DEF Submit, NoDialog
<1>5. ASSUME NEW g \in Games, User(g) \/ Others(g)
      PROVE  SameGame \/ Opens
  BY <1>1, <1>5, OtherClientSends
     DEF User, InsertGame, UpdateGame, DeleteGame, Save, syncUnchanged
<1>6. CASE RetryFailed \/ ServerLate \/ UNCHANGED vars
           \/ \E g \in Games : \E e \in local[g].box : Elapse(g, e)
  BY <1>1, <1>6 DEF RetryFailed, ServerLate, Elapse, syncUnchanged, vars
<1>7. ASSUME NEW w \in Workers, Cycle(w)
      PROVE  UNCHANGED dialog
  BY <1>7 DEF Cycle, StartCycle, Register, ServerPush, ReceivePush, ServerPull,
              ReceivePull, RefusePull, ServerAck, RefuseAck, FinishCycle
<1>8. ASSUME NEW w \in Workers, Answering(w)
      PROVE  SameGame
  BY <1>1, <1>2, <1>3, <1>8 DEF Answering, TakeResolution, ServerFetch, CancelFetch, ResolveStale,
                                ResolveMoved, Resolve
<1>9. ASSUME NEW w \in Workers, Faults(w)
      PROVE  SameGame
  <2>1. CASE FailFetch(w)
    BY <1>0, <2>1 DEF FailFetch, NoDialog
  <2>2. CASE FailCycle(w) \/ RejectCycle(w) \/ ExpireToken(w) \/ EndSession(w) \/ ReopenProfile(w)
    BY <1>1, <1>2, <2>2 DEF FailCycle, RejectCycle, ExpireToken, EndSession, ReopenProfile
  <2> QED
    BY <1>9, <2>1, <2>2 DEF Faults
<1>10. CASE CloseDialog \/ Crash
  BY <1>2, <1>10 DEF CloseDialog, Crash
<1> HIDE DEF SameGame, Opens
<1> QED
  BY <1>1, <1>4, <1>5, <1>6, <1>7, <1>8, <1>9, <1>10 DEF Next, SameGame

\* The fetch of the open dialog is where it was.
FetchStays == active' = active /\ worker'[active] = worker[active] /\ dialog' = dialog

(* While a row is fetched the dialog waits, and only the answer of the     *)
(* server moves the fetch on.                                              *)
LEMMA FetchContinues ==
    ASSUME TypeInv, [Next]_vars, Fetching, Fetching'
    PROVE  FetchStays \/ ServerFetch(active)
<1>0. /\ active \in Workers /\ worker \in [Workers -> Thread]
      /\ worker[active].pc = "fetch" /\ dialog.busy /\ dialog # NoDialog
  BY FetchingDialog, AbsentAssumption DEF TypeInv, WorkerInv, Fetching, NoDialog
<1>1. ASSUME UNCHANGED <<worker, active, dialog>>
      PROVE  FetchStays
  BY <1>1 DEF FetchStays
<1>2. ASSUME NEW w \in Workers, NEW t, Goto(w, t), w # active, UNCHANGED <<active, dialog>>
      PROVE  FetchStays
  BY <1>0, <1>2 DEF Goto, FetchStays
<1>3. ASSUME NEW w \in Workers, Goto(w, Idle), w = active, active' = active
      PROVE  FALSE
  BY <1>0, <1>3 DEF Goto, Fetching, Idle
<1>4. ASSUME NEW g \in Games, User(g) \/ Others(g)
      PROVE  FetchStays
  BY <1>0, <1>1, <1>4, OtherClientSends
     DEF User, InsertGame, UpdateGame, DeleteGame, ViewConflict, Save, syncUnchanged
<1>5. CASE RetryFailed \/ ServerLate \/ UNCHANGED vars
           \/ \E g \in Games : \E e \in local[g].box : Elapse(g, e)
  BY <1>1, <1>5 DEF RetryFailed, ServerLate, Elapse, syncUnchanged, vars
<1>6. CASE Submit \/ CloseDialog \/ Crash
  BY <1>0, <1>6 DEF Submit, CloseDialog, Crash, Fetching, Idle
<1>7. ASSUME NEW w \in Workers, Cycle(w)
      PROVE  FetchStays
  <2>1. w # active
    BY <1>0, <1>7 DEF Cycle, StartCycle, Register, ServerPush, ReceivePush, ServerPull,
                      ReceivePull, RefusePull, ServerAck, RefuseAck, FinishCycle
  <2> QED
    BY <1>2, <1>7, <2>1
       DEF Cycle, StartCycle, Register, ServerPush, ReceivePush, ServerPull,
           ReceivePull, RefusePull, ServerAck, RefuseAck, GiveUp, FinishCycle
<1>8. ASSUME NEW w \in Workers, Answering(w)
      PROVE  FetchStays \/ ServerFetch(active)
  <2>1. CASE TakeResolution(w)
    BY <1>0, <2>1 DEF TakeResolution
  <2>2. CASE ServerFetch(w)
    BY <2>2 DEF ServerFetch
  <2>3. CASE CancelFetch(w)
    BY <1>2, <2>3 DEF CancelFetch
  <2>4. CASE ResolveStale(w) \/ ResolveMoved(w) \/ Resolve(w)
    BY <1>3, <2>4 DEF ResolveStale, ResolveMoved, Resolve, Fetched
  <2> QED
    BY <1>8, <2>1, <2>2, <2>3, <2>4 DEF Answering
<1>9. ASSUME NEW w \in Workers, Faults(w)
      PROVE  FetchStays
  <2>1. CASE FailFetch(w)
    BY <1>3, <2>1 DEF FailFetch
  <2>2. CASE ReopenProfile(w)
    BY <2>2 DEF ReopenProfile, Fetching
  <2>3. CASE FailCycle(w) \/ RejectCycle(w) \/ ExpireToken(w) \/ EndSession(w)
    <3>1. w # active
      BY <1>0, <2>3 DEF FailCycle, InCycle, RejectCycle, ExpireToken, EndSession
    <3> QED
      BY <1>2, <2>3, <3>1 DEF FailCycle, RejectCycle, GiveUp, ExpireToken, EndSession
  <2> QED
    BY <1>9, <2>1, <2>2, <2>3 DEF Faults
<1> QED
  BY <1>4, <1>5, <1>6, <1>7, <1>8, <1>9 DEF Next

(* Every step leaves the dialog about a record the server may be asked     *)
(* for, and a fetched row what the server had of it.                       *)
LEMMA FetchStep ==
    ASSUME TypeInv, RecordsInv, HistoryInv, FetchInv, [Next]_vars
    PROVE  FetchInv'
<1> DEFINE Known(P, g) == g \in Foreign \/ Seen(P, g)
<1>0. past \subseteq past' /\ HistoryInv'
  BY HistoryStep DEF HistoryGrows
<1>1. \A g : Known(past, g) => Known(past', g)
  BY <1>0 DEF Seen
<1>2. ASSUME dialog'.game # Absent
      PROVE  Known(past', dialog'.game)
  <2>1. CASE dialog'.game \in {dialog.game, Absent}
    BY <1>1, <1>2, <2>1 DEF FetchInv
  <2>2. ASSUME NEW g \in Games, ViewConflict(g)
        PROVE  Known(past', dialog'.game)
    <3>1. local[g].conflict.open /\ dialog'.game = g
      BY <2>2 DEF ViewConflict, NoDialog
    <3>2. Known(past, g)
      BY <3>1, HeldIsRow DEF RecordsInv, RecordSound, ConflictSound, TypeInv
    <3> QED
      BY <1>1, <3>1, <3>2
  <2> QED
    BY <2>1, <2>2, DialogKeepsGame
<1> DEFINE R == worker'[active'].reply
<1>3. ASSUME Fetching', R # Absent
      PROVE  IF R.row = Absent THEN dialog'.game \in Foreign
                               ELSE RowSeen(past', dialog'.game, R.row)
  <2>1. CASE Fetching
    <3>1. CASE FetchStays
      <4>1. /\ IF R.row = Absent THEN dialog.game \in Foreign
                                 ELSE RowSeen(past, dialog.game, R.row)
            /\ dialog' = dialog
        BY <1>3, <2>1, <3>1 DEF FetchInv, Fetching, FetchStays
      <4> QED
        BY <1>0, <4>1 DEF RowSeen
    <3>2. CASE ServerFetch(active)
      <4> DEFINE g == dialog.game
      <4>1. R = [row |-> games[g]] /\ dialog' = dialog /\ games' = games
        BY <3>2 DEF ServerFetch, Goto, TypeInv, WorkerInv, Thread, serverUnchanged
      <4>2. g \in Games
        BY <2>1, FetchingDialog DEF Fetching
      <4>3. R.row = games[g]
        BY <4>1
      <4>4. CASE games[g] = Absent
        <5>1. Known(past, g)
          BY <2>1, FetchingDialog DEF FetchInv, TypeInv, DialogInv, Fetching
        <5>2. g \in Foreign
          BY <4>4, <5>1, SeenIsThere
        <5> QED
          BY <4>1, <4>3, <4>4, <5>2
      <4>5. CASE games[g] # Absent
        <5>1. RowSeen(past', g, games'[g])
          BY <1>0, <4>1, <4>2, <4>5 DEF HistoryInv
        <5> QED
          BY <4>1, <4>3, <4>5, <5>1
      <4> QED
        BY <4>4, <4>5
    <3> QED
      BY <1>3, <2>1, <3>1, <3>2, FetchContinues
  <2>2. ASSUME ~Fetching, NEW w \in Workers, TakeResolution(w)
        PROVE  FALSE
    <3>1. CASE UNCHANGED worker
      BY <1>3, <2>2, <3>1 DEF TakeResolution, Fetching
    <3>2. CASE Goto(w, [Idle EXCEPT !.pc = "fetch"])
      BY <1>3, <2>2, <3>2 DEF TakeResolution, Goto, Idle, TypeInv, WorkerInv
    <3> QED
      BY <2>2, <3>1, <3>2 DEF TakeResolution
  <2> QED
    BY <1>3, <2>1, <2>2, FetchingBegins
<1> QED
  BY <1>2, <1>3 DEF FetchInv, Fetching

-----------------------------------------------------------------------------
(* The cursor, and the invariant as a whole.                               *)

(* What the server has changed in a step is beyond the cursor; what it had *)
(* up to the cursor the device has still; and what the cursor passes was   *)
(* on the page.                                                            *)
LEMMA CoverStep ==
    ASSUME TypeInv, AckInv, SyncInv, [Next]_vars
    PROVE  CursorCovers'
<1>0. /\ RecordsInv /\ HistoryInv /\ ThreadsInv /\ FetchInv /\ CursorCovers
      /\ cursor \in Nat /\ cursor' \in Nat /\ cursor <= cursor' /\ cursor' <= clock /\ clock \in Nat
  BY CursorGrows DEF SyncInv, TypeInv, ServerTypeOK
<1>1. RecordsStay /\ HistoryGrows
  BY <1>0, RecordsMove, HistoryStep
<1> SUFFICES ASSUME NEW g \in Games, games'[g] # Absent, games'[g].version <= cursor'
             PROVE  Has(local'[g], games'[g].version)
  BY DEF CursorCovers, Has
<1>2. games'[g] \in ServerRow
  BY ServerTypeStep DEF ServerTypeOK
<1>3. games'[g].version \in Nat
  BY <1>2 DEF ServerRow
<1>4. games'[g] = games[g]
  BY <1>0, <1>1, <1>3 DEF HistoryGrows
<1>5. CASE games[g].version <= cursor
  <2>1. Has(local[g], games[g].version)
    BY <1>0, <1>4, <1>5 DEF CursorCovers, Has
  <2>2. g \notin Foreign
    BY <1>0, <1>4 DEF HistoryInv
  <2> QED
    BY <1>1, <1>3, <1>4, <2>1, <2>2 DEF RecordsStay, HasStill
<1>6. ASSUME ~(games[g].version <= cursor), NEW w \in Workers, ReceivePull(w),
             NEW r \in worker[w].reply, cursor' = r.version
      PROVE  Has(local'[g], games[g].version)
  <2> DEFINE row == [game |-> g, payload |-> games[g].payload, version |-> games[g].version]
  <2>1. worker[w].pc = "pull" /\ worker[w].reply # Absent /\ worker[w].after \in Nat
    BY <1>6, ThreadType DEF ReceivePull
  <2>2. Complete(worker[w]) /\ worker[w].after <= cursor
    BY <1>0, <2>1 DEF ThreadsInv, PageComplete
  <2>3. games[g].version > worker[w].after
    BY <1>0, <1>3, <1>4, <1>6, <2>1, <2>2
  <2>4. row \in worker[w].reply
    BY <1>4, <1>6, <2>2, <2>3 DEF Complete
  <2>5. row.game = g /\ row.version = games[g].version
    OBVIOUS
  <2> HIDE DEF row
  <2>6. Has(local'[row.game], row.version)
    BY <1>0, <1>6, <2>4, ReceivePullRecords
  <2> QED
    BY <2>5, <2>6
<1> QED
  BY <1>4, <1>5, <1>6, CursorMoves

(* On a device that has never synced there is nothing to fit together.     *)
LEMMA SyncInit == Init => SyncInv
<1> SUFFICES ASSUME Init PROVE SyncInv
  OBVIOUS
<1>1. /\ games = [g \in Games |-> Absent] /\ past = {}
      /\ local = [g \in Games |-> Unknown]
      /\ worker = [w \in Workers |-> Idle] /\ active \in Workers /\ dialog = NoDialog
  BY DEF Init, ServerInit
<1>2. RecordsInv
  BY <1>1 DEF RecordsInv, RecordSound, Unknown
<1>3. HistoryInv
  BY <1>1, GamesAssumption DEF HistoryInv
<1>4. ThreadsInv
  BY <1>1, IdleFits DEF ThreadsInv, Fits
<1>5. FetchInv
  BY <1>1 DEF FetchInv, Idle, NoDialog
<1>6. CursorCovers
  BY <1>1 DEF CursorCovers
<1> QED
  BY <1>2, <1>3, <1>4, <1>5, <1>6 DEF SyncInv

(* Every step keeps the invariant.                                         *)
LEMMA SyncStep == TypeInv /\ AckInv /\ SyncInv /\ [Next]_vars => SyncInv'
<1> SUFFICES ASSUME TypeInv, AckInv, SyncInv, [Next]_vars
             PROVE  SyncInv'
  OBVIOUS
<1>1. RecordsInv /\ HistoryInv /\ ThreadsInv /\ FetchInv
  BY DEF SyncInv
<1>2. RecordsInv' /\ HistoryInv' /\ ThreadsInv' /\ FetchInv' /\ CursorCovers'
  BY <1>1, RecordsStep, HistoryStep, ThreadsStep, FetchStep, CoverStep
<1> QED
  BY <1>2 DEF SyncInv

(* In every state what the device keeps, what is under way and what the    *)
(* server has ever stored fit together: the invariant the theorems below   *)
(* rest on.                                                                *)
THEOREM SyncInvariance == Spec => [](TypeInv /\ AckInv /\ SyncInv)
<1>1. Init => TypeInv /\ AckInv /\ SyncInv
  BY InitTypes, AckInit, SyncInit
<1>2. TypeInv /\ AckInv /\ SyncInv /\ [Next]_vars => (TypeInv /\ AckInv /\ SyncInv)'
  BY TypeInvStep, AckStep, SyncStep
<1> QED
  BY <1>1, <1>2, PTL DEF Spec

(* No step of sync drops an edit that was not sent: what is queued or at   *)
(* rest is the record as the user left it (NoEditForgotten), whatever is   *)
(* acknowledged, pulled, merged or answered in between.                    *)
THEOREM NoEditIsForgotten == Spec => []NoEditForgotten
<1>1. TypeInv /\ SyncInv => NoEditForgotten
  <2> SUFFICES ASSUME TypeInv, SyncInv, NEW g \in Games, local[g].row # Absent
               PROVE  LET L == local[g]
                      IN  /\ L.box # {} => Newest(L.box).snap.payload = L.row.payload
                          /\ L.box = {} /\ ~L.conflict.open =>
                                /\ L.row.status = "synced"
                                /\ IF L.row.base = Absent THEN Deleted(L.row.payload)
                                   ELSE SameRecord(L.row.base, L.row.payload)
    BY DEF NoEditForgotten
  <2>1. BoxSound(past, g, local[g]) /\ RestSound(past, g, local[g])
    BY DEF SyncInv, RecordsInv, RecordSound
  <2>2. ASSUME local[g].box # {}
        PROVE  Newest(local[g].box).snap.payload = local[g].row.payload
    <3>1. Newest(local[g].box) \in local[g].box /\ IsNewest(Newest(local[g].box), local[g].box)
      BY <2>2, NewestExists DEF TypeInv, StoreInv, IsNewest
    <3> QED
      BY <2>1, <3>1 DEF BoxSound
  <2> QED
    BY <2>1, <2>2 DEF RestSound
<1> QED
  BY <1>1, SyncInvariance, PTL

(* The base a merge starts from is what the server stored as the version   *)
(* it is kept under (BaseIsAncestor): repository.py never pairs the base   *)
(* of one version with the number of another.                              *)
THEOREM BaseStaysAncestor == Spec => []BaseIsAncestor
<1>1. SyncInv => BaseIsAncestor
  <2> SUFFICES ASSUME SyncInv, NEW g \in Games, local[g].row # Absent, local[g].row.rv # NoVersion
               PROVE  /\ local[g].row.base # Absent
                      /\ \E p \in past :
                            /\ p.game = g /\ p.version = local[g].row.rv
                            /\ ~Deleted(local[g].row.base) => SameRecord(local[g].row.base, p.payload)
    BY DEF BaseIsAncestor
  <2>1. /\ BoxSound(past, g, local[g]) /\ RestSound(past, g, local[g])
        /\ VersionSound(past, g, local[g])
    BY DEF SyncInv, RecordsInv, RecordSound
  <2>2. CASE BoundTo(past, g, local[g].row)
    BY <2>2 DEF BoundTo
  <2>3. CASE ~BoundTo(past, g, local[g].row)
    <3>1. /\ local[g].row.base # Absent /\ Deleted(local[g].row.payload)
          /\ SameRecord(local[g].row.base, local[g].row.payload)
      BY <2>1, <2>3 DEF BoxSound, RestSound
    <3>2. Deleted(local[g].row.base)
      BY <3>1, SameRecordDeleted
    <3> QED
      BY <2>1, <3>1, <3>2 DEF VersionSound, VersionSeen
  <2> QED
    BY <2>2, <2>3
<1> QED
  BY <1>1, SyncInvariance, PTL

(* What the cursor has passed the device has (CursorCovers): a change made *)
(* while a page is under way is not skipped by the cursor moving past it.  *)
THEOREM CursorSkipsNothing == Spec => []CursorCovers
<1>1. SyncInv => CursorCovers
  BY DEF SyncInv
<1> QED
  BY <1>1, SyncInvariance, PTL

-----------------------------------------------------------------------------
(* What the steps of sync never do.                                        *)

\* What is left of the bounds are numbers.
BudgetInv == budget \in [edits : Nat, others : Nat, faults : Nat, answers : Nat]

(* A step spends one of the bounds or none.                                *)
LEMMA BudgetMoves ==
    ASSUME [Next]_vars
    PROVE  budget' = budget \/ \E what \in {"edits", "others", "faults", "answers"} : Spend(what)
<1> DEFINE Spent == \E what \in {"edits", "others", "faults", "answers"} : Spend(what)
<1> SUFFICES budget' = budget \/ Spent
  OBVIOUS
<1>1. ASSUME NEW g \in Games, User(g)
      PROVE  budget' = budget \/ Spent
  BY <1>1 DEF User, InsertGame, UpdateGame, DeleteGame, ViewConflict, Save
<1>2. ASSUME NEW g \in Games, Others(g)
      PROVE  Spent
  BY <1>2 DEF Others, OtherCreate, OtherUpdate, OtherDelete, OtherRestore, OtherClient
<1>3. CASE RetryFailed \/ CloseDialog \/ ServerLate \/ UNCHANGED vars
           \/ \E g \in Games : \E e \in local[g].box : Elapse(g, e)
  BY <1>3 DEF RetryFailed, CloseDialog, ServerLate, Elapse, vars
<1>4. CASE Submit \/ Crash
  BY <1>4 DEF Submit, Crash
<1>5. ASSUME NEW w \in Workers, Cycle(w)
      PROVE  budget' = budget
  BY <1>5 DEF Cycle, StartCycle, Register, ServerPush, ReceivePush, ServerPull,
              ReceivePull, RefusePull, ServerAck, RefuseAck, FinishCycle
<1>6. ASSUME NEW w \in Workers, Answering(w)
      PROVE  budget' = budget
  BY <1>6 DEF Answering, TakeResolution, ServerFetch, CancelFetch, ResolveStale,
              ResolveMoved, Resolve
<1>7. ASSUME NEW w \in Workers, Faults(w)
      PROVE  Spent
  BY <1>7 DEF Faults, FailCycle, RejectCycle, ExpireToken, EndSession, FailFetch, ReopenProfile
<1> HIDE DEF Spent
<1> QED
  BY <1>1, <1>2, <1>3, <1>4, <1>5, <1>6, <1>7 DEF Next

(* What is left of the bounds stays a number.                              *)
LEMMA BudgetInvariance == Spec => []BudgetInv
<1>1. Init => BudgetInv
  BY BoundsAssumption DEF Init, BudgetInv
<1>2. BudgetInv /\ [Next]_vars => BudgetInv'
  <2> SUFFICES ASSUME BudgetInv, [Next]_vars
               PROVE  BudgetInv'
    OBVIOUS
  <2>1. CASE budget' = budget
    BY <2>1 DEF BudgetInv
  <2>2. ASSUME NEW what \in {"edits", "others", "faults", "answers"}, Spend(what)
        PROVE  BudgetInv'
    <3>1. budget[what] > 0 /\ budget[what] \in Nat /\ budget' = [budget EXCEPT ![what] = budget[what] - 1]
      BY <2>2 DEF Spend, BudgetInv
    <3>2. budget[what] - 1 \in Nat
      BY <3>1
    <3> QED
      BY <3>1, <3>2 DEF BudgetInv
  <2> QED
    BY <2>1, <2>2, BudgetMoves
<1> QED
  BY <1>1, <1>2, PTL DEF Spec

(* A step that is neither an edit nor the end of an answered conflict      *)
(* leaves every change the user has not seen reach the server as it is     *)
(* (UnsentEditsSurvive): acknowledging, merging, adopting a server row and *)
(* giving a change up all keep it.                                         *)
THEOREM SyncKeepsUnsentEdits == Spec => UnsentEditsSurvive
<1> DEFINE Survive ==
             budget'.edits = budget.edits =>
               \A g \in Games : ~(dialog.busy /\ dialog' = NoDialog /\ dialog.game = g) =>
                  \A c \in Unsent(local[g]) :
                      /\ local'[g].row # Absent
                      /\ Equivalent(c, local'[g].row.payload[c], local[g].row.payload[c])
<1>1. TypeInv /\ AckInv /\ SyncInv /\ BudgetInv /\ [Next]_vars => [Survive]_vars
  <2> SUFFICES ASSUME TypeInv, SyncInv, BudgetInv, [Next]_vars, budget'.edits = budget.edits,
                      NEW g \in Games, ~(dialog.busy /\ dialog' = NoDialog /\ dialog.game = g)
               PROVE  Untouched(local[g], local'[g])
    BY DEF Untouched
  <2>1. RecordsInv /\ HistoryInv /\ ThreadsInv /\ FetchInv
    BY DEF SyncInv
  <2>2. CASE EditsStay
    BY <2>2 DEF EditsStay
  <2>3. ~Spend("edits")
    <3>1. budget.edits \in Nat
      BY DEF BudgetInv
    <3>2. Spend("edits") => budget'.edits = budget.edits - 1
      BY DEF BudgetInv, Spend
    <3> QED
      BY <3>1, <3>2
  <2>4. ASSUME NEW w \in Workers, Resolve(w), \A h \in Games : h # dialog.game => Untouched(local[h], local'[h])
        PROVE  Untouched(local[g], local'[g])
    <3>1. dialog.busy /\ dialog' = NoDialog
      BY <2>1, <2>4, FetchedRow DEF Resolve
    <3> QED
      BY <2>4, <3>1
  <2> QED
    BY <2>1, <2>2, <2>3, <2>4, RecordsMove
<1> QED
  BY <1>1, SyncInvariance, BudgetInvariance, PTL DEF Spec, UnsentEditsSurvive

(* An accepted request finds the record as the device last knew it.        *)
LEMMA AcceptedOnSeenVersion ==
    ASSUME HistoryInv, NEW g \in Games, games[g] # Absent, NEW snap,
           BoundTo(past, g, snap), snap.rv # NoVersion, snap.rv = games[g].version
    PROVE  snap.base # Absent /\ SameRecord(snap.base, games[g].payload)
<1>1. PICK p \in past : p.game = g /\ p.version = snap.rv /\ SameRecord(snap.base, p.payload)
  BY DEF BoundTo
<1> DEFINE q == [game |-> g, payload |-> games[g].payload, version |-> games[g].version]
<1>2. q \in past
  BY DEF HistoryInv, RowSeen
<1>3. q.game = g /\ q.version = games[g].version /\ q.payload = games[g].payload
  OBVIOUS
<1> HIDE DEF q
<1>4. p = q
  BY <1>1, <1>2, <1>3 DEF HistoryInv
<1> QED
  BY <1>1, <1>3, <1>4 DEF BoundTo

(* An accepted request changes columns its change was made on: a column    *)
(* another client wrote since is as it is in the base.                     *)
LEMMA PushWritesOwnColumns ==
    ASSUME TypeInv, SyncInv, NEW w \in Workers, ServerPush(w), NEW g \in Games,
           games[g] # Absent, games'[g] # games[g]
    PROVE  Changed(games[g].payload, games'[g].payload) \subseteq OwnColumns(worker[w].entries[g])
<1> DEFINE entries == worker[w].entries
           batch == Requests(entries)
           e == entries[g]
           now == games[g].payload
<1>0. HistoryInv /\ ThreadsInv /\ ServerTypeOK /\ ApplyChanges(batch)
  BY DEF SyncInv, TypeInv, ServerPush
<1>1. PICK r \in Accepted(batch) :
         r.game = g /\ games'[g] = [payload |-> Written(r), version |-> VersionGiven(batch, r)]
  BY <1>0, ChangeIsWritten
<1>2. r \in batch /\ Accepts(r) /\ games'[g].payload = Written(r)
  BY <1>1 DEF Accepted
<1>3. /\ e # Absent /\ r.op = RemoteOp(e)
      /\ r.expected = e.snap.rv /\ r.payload = e.snap.payload
  BY <1>1, <1>2, RequestFacts
<1>4. EntrySound(past, g, e) /\ BoundTo(past, g, e.snap)
  BY <1>0, <1>3 DEF ThreadsInv, RepliesFit, EntrySound
<1>5. e.snap.payload \in Payload
  BY <1>3, ThreadType DEF Sendable, Entry, Row
<1>6. /\ r.op # "create"
      /\ r.expected = games[g].version \/ (r.op = "delete" /\ r.expected = NoVersion)
      /\ Deleted(now) <=> r.op = "restore"
  BY <1>1, <1>2 DEF Accepts
<1>7. e.snap.rv # NoVersion => e.snap.base # Absent /\ SameRecord(e.snap.base, now)
  BY <1>0, <1>3, <1>4, <1>6, AcceptedOnSeenVersion
<1>8. (r.op = "delete") <=> Deleted(e.snap.payload)
  BY <1>3, <1>4 DEF RemoteOp, EntrySound
<1>9. now \in Payload /\ games[g] = games[r.game]
  BY <1>0, <1>1 DEF ServerTypeOK, ServerRow
<1> HIDE DEF batch
<1> SUFFICES Changed(now, Written(r)) \subseteq OwnColumns(e)
  BY <1>2
<1> HIDE DEF entries, e, now
<1>10. CASE r.op = "delete"
  <2>1. Written(r) = [now EXCEPT ![DeletedAt] = AtServer]
    BY <1>9, <1>10 DEF Written, now
  <2>2. Changed(now, Written(r)) \subseteq {DeletedAt}
    BY <1>9, <2>1 DEF Changed, Equivalent, Payload
  <2>3. CASE e.snap.base = Absent
    BY <2>2, <2>3 DEF OwnColumns
  <2>4. CASE e.snap.base # Absent
    <3>1. SameRecord(e.snap.base, now)
      BY <1>4, <1>7, <2>4 DEF BoundTo
    <3>2. ~Deleted(e.snap.base) /\ Deleted(e.snap.payload)
      BY <1>6, <1>8, <1>10, <3>1, SameRecordDeleted
    <3>3. DeletedAt \in Changed(e.snap.base, e.snap.payload)
      BY <3>2 DEF Changed, Equivalent, Deleted, Columns
    <3> QED
      BY <2>2, <2>4, <3>3 DEF OwnColumns
  <2> QED
    BY <2>3, <2>4
<1>11. CASE r.op # "delete"
  <2>1. e.snap.rv # NoVersion
    BY <1>3, <1>6, <1>11 DEF RemoteOp
  <2>2. Written(r) = LivePayload(e.snap.payload)
    BY <1>3, <1>11 DEF Written
  <2>3. SameRecord(e.snap.payload, Written(r))
    BY <1>5, <1>8, <1>11, <2>2, LivePayloadIsTheRecord
  <2>4. ASSUME NEW c \in Columns, ~Equivalent(c, now[c], Written(r)[c])
        PROVE  ~Equivalent(c, e.snap.base[c], e.snap.payload[c])
    <3>1. Equivalent(c, e.snap.base[c], now[c])
      BY <1>7, <2>1, SameRecordColumns
    <3>2. Equivalent(c, e.snap.payload[c], Written(r)[c])
      BY <2>3, SameRecordColumns
    <3> QED
      BY <2>4, <3>1, <3>2, EquivalentFacts
  <2> QED
    BY <1>7, <2>1, <2>4 DEF Changed, OwnColumns
<1> QED
  BY <1>10, <1>11

(* A push changes on the server only what this device had changed          *)
(* (PushChangesOnlyOwnColumns): the expected version and the base are of   *)
(* one and the same server row, so what another client wrote is either in  *)
(* the base or refuses the request.                                        *)
THEOREM PushKeepsOthersColumns == Spec => PushChangesOnlyOwnColumns
<1> DEFINE Own ==
             \A w \in Workers : ServerPush(w) =>
                \A g \in Games : games[g] # Absent /\ games'[g] # games[g] =>
                   Changed(games[g].payload, games'[g].payload) \subseteq OwnColumns(worker[w].entries[g])
<1>1. TypeInv /\ AckInv /\ SyncInv /\ [Next]_vars => [Own]_vars
  BY PushWritesOwnColumns
<1> QED
  BY <1>1, SyncInvariance, PTL DEF Spec, PushChangesOnlyOwnColumns

(* Only an answer changes a record and closes the dialog.                  *)
LEMMA OnlyAnswersSettle ==
    ASSUME TypeInv, [Next]_vars, dialog.busy, dialog' = NoDialog, local' # local
    PROVE  \E w \in Workers : Resolve(w)
<1>0. dialog.game # Absent /\ dialog # NoDialog /\ DOMAIN dialog = DOMAIN NoDialog
  BY DEF TypeInv, DialogInv, NoDialog
<1>1. UNCHANGED dialog => FALSE
  BY <1>0
<1>2. ASSUME NEW remote, Reload(remote)
      PROVE  FALSE
  <2>1. dialog'.game = dialog.game
    BY <1>0, <1>2 DEF Reload, NoDialog
  <2>2. NoDialog.game = Absent
    BY DEF NoDialog
  <2> QED
    BY <1>0, <2>1, <2>2
<1>3. ASSUME NEW g \in Games, User(g)
      PROVE  FALSE
  BY <1>1, <1>3 DEF User, InsertGame, UpdateGame, DeleteGame, ViewConflict, Save, syncUnchanged,
                    storeUnchanged
<1>4. ASSUME NEW g \in Games, Others(g)
      PROVE  FALSE
  BY <1>4, OtherClientSends
<1>5. CASE RetryFailed \/ ServerLate \/ UNCHANGED vars \/ Submit \/ CloseDialog \/ Crash
           \/ \E g \in Games : \E e \in local[g].box : Elapse(g, e)
  BY <1>1, <1>5 DEF RetryFailed, ServerLate, Submit, CloseDialog, Crash, Elapse, syncUnchanged,
                    storeUnchanged, vars
<1>6. ASSUME NEW w \in Workers, Cycle(w)
      PROVE  FALSE
  BY <1>1, <1>6 DEF Cycle, StartCycle, Register, ServerPush, ReceivePush, ServerPull,
                    ReceivePull, RefusePull, ServerAck, RefuseAck, FinishCycle
<1>7. ASSUME NEW w \in Workers, Answering(w)
      PROVE  Resolve(w)
  BY <1>2, <1>7 DEF Answering, TakeResolution, ServerFetch, CancelFetch, ResolveStale,
                    ResolveMoved, storeUnchanged
<1>8. ASSUME NEW w \in Workers, Faults(w)
      PROVE  FALSE
  BY <1>1, <1>8 DEF Faults, FailCycle, RejectCycle, ExpireToken, EndSession, FailFetch,
                    ReopenProfile, storeUnchanged
<1> QED
  BY <1>3, <1>4, <1>5, <1>6, <1>7, <1>8 DEF Next

(* What an answer makes of a record.                                       *)
LEMMA ResolvedIsChosen ==
    ASSUME NEW L, Held(L), NEW selected \in Payload \cup {Absent}, NEW id,
           NEW fresh \in ServerRow \cup {Absent}, fresh # Absent => selected # Absent
    PROVE  LET M == Resolved(L, selected, fresh, id)
           IN  /\ IF selected = Absent \/ (fresh = Absent /\ Deleted(selected))
                  THEN Deleted(M.row.payload) ELSE M.row.payload = selected
               /\ \A e \in M.box :
                     e.snap.rv = IF fresh = Absent THEN NoVersion ELSE fresh.version
               /\ fresh # Absent /\ selected = fresh.payload => M.box = {}
<1>0. L \in Record /\ L.row \in Row /\ L.row.payload \in Payload
  BY RowType DEF Held
<1>1. CASE fresh = Absent /\ (selected = Absent \/ Deleted(selected))
  <2> DEFINE gone == IF Deleted(L.row.payload) THEN L.row.payload
                     ELSE [L.row.payload EXCEPT ![DeletedAt] = AtDevice]
             row == [payload |-> gone, rv |-> NoVersion, base |-> Absent, status |-> "synced"]
  <2>1. Deleted(gone)
    BY <1>0 DEF Deleted, Payload, Columns, AtDevice, NotDeleted
  <2>2. row.payload = gone
    OBVIOUS
  <2>3. Resolved(L, selected, fresh, id) = RetireConflicts([L EXCEPT !.row = row, !.box = {}])
    BY <1>1 DEF Resolved, ResolveMissing
  <2> HIDE DEF row, gone
  <2>4. /\ RetireConflicts([L EXCEPT !.row = row, !.box = {}]).row = row
        /\ RetireConflicts([L EXCEPT !.row = row, !.box = {}]).box = {}
    BY <1>0 DEF RetireConflicts, Record
  <2> QED
    BY <1>1, <2>1, <2>2, <2>3, <2>4
<1>2. ASSUME NEW row, NEW op, row.payload = selected, selected # Absent,
             ~(fresh = Absent /\ Deleted(selected)),
             row.rv = IF fresh = Absent THEN NoVersion ELSE fresh.version,
             ~(fresh # Absent /\ selected = fresh.payload),
             Resolved(L, selected, fresh, id) = RetireConflicts(ReplaceOutbox(L, row, op, id))
      PROVE  LET M == Resolved(L, selected, fresh, id)
             IN  /\ IF selected = Absent \/ (fresh = Absent /\ Deleted(selected))
                    THEN Deleted(M.row.payload) ELSE M.row.payload = selected
                 /\ \A e \in M.box :
                       e.snap.rv = IF fresh = Absent THEN NoVersion ELSE fresh.version
                 /\ fresh # Absent /\ selected = fresh.payload => M.box = {}
  <2> DEFINE M == RetireConflicts(ReplaceOutbox(L, row, op, id))
  <2>1. M.row = row /\ M.box = {NewEntry(op, row, id)}
    BY <1>0, ReplaceShape
  <2>2. NewEntry(op, row, id).snap = row
    BY DEF NewEntry
  <2> HIDE DEF M
  <2>3. M.row.payload = selected
        /\ \A e \in M.box : e.snap.rv = IF fresh = Absent THEN NoVersion ELSE fresh.version
    BY <1>2, <2>1, <2>2
  <2> QED
    BY <1>2, <2>3 DEF M
<1>3. CASE fresh = Absent /\ selected # Absent /\ ~Deleted(selected)
  <2> DEFINE row == [payload |-> selected, rv |-> NoVersion, base |-> Absent, status |-> "pending"]
  <2>1. Resolved(L, selected, fresh, id) = RetireConflicts(ReplaceOutbox(L, row, "upsert", id))
    BY <1>3 DEF Resolved, ResolveMissing
  <2>2. row.payload = selected /\ row.rv = NoVersion
    OBVIOUS
  <2> HIDE DEF row
  <2> QED
    BY <1>2, <1>3, <2>1, <2>2
<1>4. CASE fresh # Absent /\ selected = fresh.payload
  <2>1. Resolved(L, selected, fresh, id) = Adopt(L, fresh)
    BY <1>4 DEF Resolved, ResolveAgainst
  <2>2. Adopt(L, fresh).row = AsServer(fresh) /\ Adopt(L, fresh).box = {}
    BY <1>0, AdoptShape
  <2>3. AsServer(fresh).payload = fresh.payload
    BY DEF AsServer
  <2> QED
    BY <1>4, <2>1, <2>2, <2>3
<1>5. CASE fresh # Absent /\ selected # fresh.payload
  <2> DEFINE row == [payload |-> selected, rv |-> fresh.version, base |-> fresh.payload,
                     status |-> "pending"]
  <2>1. Resolved(L, selected, fresh, id)
        = RetireConflicts(ReplaceOutbox(L, row, ResolutionOp(selected, fresh.payload), id))
    BY <1>5 DEF Resolved, ResolveAgainst
  <2>2. row.payload = selected /\ row.rv = fresh.version
    OBVIOUS
  <2> HIDE DEF row
  <2> QED
    BY <1>2, <1>5, <2>1, <2>2
<1> QED
  BY <1>1, <1>3, <1>4, <1>5

(* An answer settles the conflict that was on the screen                   *)
(* (AnswerIsToWhatWasShown): an edit, a pull or a merge between the        *)
(* question and the answer brings the question back instead.               *)
THEOREM AnswersSettleWhatWasShown == Spec => AnswerIsToWhatWasShown
<1> DEFINE Asked ==
             dialog.busy /\ dialog' = NoDialog /\ local' # local =>
               LET before == local[dialog.game]
                   after  == local'[dialog.game]
               IN  /\ before.row.payload = dialog.seen.payload
                   /\ IF \/ dialog.selected = Absent
                         \/ dialog.remote = Absent /\ Deleted(dialog.selected)
                      THEN Deleted(after.row.payload)
                      ELSE SameRecord(after.row.payload, dialog.selected)
                   /\ \A e \in after.box :
                         e.snap.rv = IF dialog.remote = Absent THEN NoVersion
                                     ELSE dialog.remote.version
<1>1. TypeInv /\ AckInv /\ SyncInv /\ [Next]_vars => [Asked]_vars
  <2> SUFFICES ASSUME TypeInv, SyncInv, [Next]_vars, dialog.busy, dialog' = NoDialog, local' # local
               PROVE  Asked
    OBVIOUS
  <2> DEFINE g == dialog.game
             chosen == dialog.selected
  <2>1. PICK w \in Workers : Resolve(w)
    BY OnlyAnswersSettle
  <2> DEFINE fresh == Fresh(w)
  <2>2. /\ g \in Games /\ Held(local[g]) /\ fresh \in ServerRow \cup {Absent}
        /\ chosen \in Payload \cup {Absent}
        /\ local \in [Games -> Record]
    BY <2>1, FetchedRow DEF Resolve, SyncInv, TypeInv, StoreInv
  <2>3. chosen \notin Payload => dialog.remote = Absent
    BY DEF TypeInv, DialogInv
  <2>4. Converged(w) \/ fresh = dialog.remote
    BY <2>1 DEF Resolve
  <2>5. Converged(w) => fresh # Absent /\ chosen = fresh.payload
    BY DEF Converged
  <2>6. fresh # Absent => chosen # Absent
    BY <2>2, <2>3, <2>4, <2>5, AbsentAssumption DEF ServerRow
  <2>7. local[g].row.payload = dialog.seen.payload
    <3>1. Revision(local[g]) = dialog.seen
      BY <2>1 DEF Resolve, Stale, LocalMoved
    <3>2. Revision(local[g]).payload = local[g].row.payload
      BY DEF Revision
    <3> QED
      BY <3>1, <3>2
  <2>8. PICK id \in OutboxIds : local'[g] = Resolved(local[g], chosen, fresh, id)
    BY <2>1, <2>2 DEF Resolve
  <2> HIDE DEF g, chosen, fresh
  <2> DEFINE M == local'[g]
  <2>9. /\ IF chosen = Absent \/ (fresh = Absent /\ Deleted(chosen))
           THEN Deleted(M.row.payload) ELSE M.row.payload = chosen
        /\ \A e \in M.box : e.snap.rv = IF fresh = Absent THEN NoVersion ELSE fresh.version
        /\ fresh # Absent /\ chosen = fresh.payload => M.box = {}
    <3> DEFINE N == Resolved(local[g], chosen, fresh, id)
    <3>1. /\ IF chosen = Absent \/ (fresh = Absent /\ Deleted(chosen))
             THEN Deleted(N.row.payload) ELSE N.row.payload = chosen
          /\ \A e \in N.box : e.snap.rv = IF fresh = Absent THEN NoVersion ELSE fresh.version
          /\ fresh # Absent /\ chosen = fresh.payload => N.box = {}
      BY <2>2, <2>6, ResolvedIsChosen
    <3>2. M = N
      BY <2>8
    <3> HIDE DEF M, N
    <3> QED
      BY <3>1, <3>2
  <2> HIDE DEF M
  <2>10. IF chosen = Absent \/ (dialog.remote = Absent /\ Deleted(chosen))
         THEN Deleted(M.row.payload) ELSE SameRecord(M.row.payload, chosen)
    BY <2>4, <2>5, <2>6, <2>9, SameRecordReflexive
  <2>11. \A e \in M.box : e.snap.rv = IF dialog.remote = Absent THEN NoVersion
                                      ELSE dialog.remote.version
    BY <2>4, <2>5, <2>9
  <2> QED
    BY <2>7, <2>10, <2>11 DEF M, g, chosen
<1> QED
  BY <1>1, SyncInvariance, PTL DEF Spec, AnswerIsToWhatWasShown
=============================================================================
