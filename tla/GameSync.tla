----------------------------- MODULE GameSync -----------------------------
(***************************************************************************)
(* One account on one device and the server: the user edits records in the *)
(* local database, a background worker pushes the queued changes, pulls    *)
(* the changes of other clients, merges them or asks the user, and         *)
(* acknowledges the version it reached.                                    *)
(*                                                                         *)
(* A worker step is one HTTP exchange or one SQLite transaction, so the    *)
(* user, other clients and a second worker act between any two of them     *)
(* (src/mdlogger/game_sync/engine.py, coordinator.py, db.py and            *)
(* app_controller.py).  Requests and answers get lost, a request may still *)
(* be carried out after the client has given up on it, and the program may *)
(* be killed at any point: what is in the database survives.               *)
(***************************************************************************)
EXTENDS GameServer, LocalStore

CONSTANTS
    Workers,       \* sync threads; more than one if a profile is reopened over a stuck one
    BatchSize,     \* BATCH_SIZE: entries per push, rows per page of a pull
    MaxOutboxId,   \* bound: ids of outbox rows
    MaxEdits,      \* bound: changes the user makes
    MaxOthers,     \* bound: changes other clients make
    MaxFaults,     \* bound: failed cycles, crashes, reopened profiles
    MaxAnswers     \* bound: answers the user gives to conflicts

ASSUME BoundsAssumption ==
    /\ Workers # {} /\ BatchSize \in Nat \ {0} /\ MaxOutboxId \in Nat \ {0}
    /\ {MaxEdits, MaxOthers, MaxFaults, MaxAnswers} \subseteq Nat

VARIABLES
    local,    \* local[g]: what the device keeps of record g
    cursor,   \* sync_state.last_pulled_version
    worker,   \* worker[w]: how far the cycle of thread w has come
    active,   \* the thread of the coordinator the open profile uses
    dialog,   \* the open conflict dialog
    late,     \* batches no client waits for, which may still reach the server
    budget    \* what is left of the bounds

vars == <<games, clock, acked, past, local, cursor, worker, active, dialog, late, budget>>

OutboxIds == 1..MaxOutboxId

\* A cycle: entries are the fetched changes by record, blamed the ones of the
\* cycle's first attempt, retried whether the token was refreshed, after the
\* version to pull from or to acknowledge, reply what the server answered.
Idle == [pc |-> "idle", entries |-> [g \in Games |-> Absent],
         blamed |-> [g \in Games |-> Absent], retried |-> FALSE, after |-> 0,
         reply |-> Absent]

\* The conflict dialog: the conflict it is about, the revision of the record and
\* the server row it shows, the values chosen before the last reload, and the
\* answer while it is being carried out.
NoDialog == [game |-> Absent, cid |-> 0, seen |-> Absent, remote |-> Absent,
             draft |-> Absent, busy |-> FALSE, selected |-> Absent]

Init ==
    /\ ServerInit
    /\ local  = [g \in Games |-> Unknown]
    /\ cursor = 0
    /\ worker = [w \in Workers |-> Idle]
    /\ active \in Workers
    /\ dialog = NoDialog
    /\ late   = {}
    /\ budget = [edits |-> MaxEdits, others |-> MaxOthers, faults |-> MaxFaults,
                 answers |-> MaxAnswers]

Spend(what) == budget[what] > 0 /\ budget' = [budget EXCEPT ![what] = @ - 1]

-----------------------------------------------------------------------------
(* The outbox table.                                                       *)

Queued == QueuedIn(local)

IsNextId(id) == IsNextIdOf(local, id)

\* The records of a transaction that insert an outbox row take ids in the order
\* they are processed in.
Place(g, merging, order) ==
    Cardinality({h \in merging : order[h] < order[g]})

-----------------------------------------------------------------------------
(* The user and the local database.                                        *)

serverUnchanged == UNCHANGED <<games, clock, acked, past>>
syncUnchanged   == UNCHANGED <<cursor, worker, active, dialog, late>>

\* The transactions of db.py: the row is written and the change queued.
Save(g, payload, op, rv, base) ==
    /\ Spend("edits")
    /\ \E id \in OutboxIds :
         /\ IsNextId(id)
         /\ local' = [local EXCEPT ![g] =
                Enqueue(@, [payload |-> payload, rv |-> rv, base |-> base,
                            status |-> "pending"], op, id)]
    /\ serverUnchanged /\ syncUnchanged

\* A new record has a fresh id; one imported from a guest database may have the
\* id of a record some other account already holds.
InsertGame(g) ==
    /\ local[g].row = Absent /\ games[g] = Absent
    /\ \E p \in Payload : ~Deleted(p) /\ Save(g, p, "upsert", NoVersion, Absent)

Editable(g) == local[g].row # Absent /\ ~Deleted(local[g].row.payload)

UpdateGame(g) ==
    /\ Editable(g)
    /\ \E f \in Fields, v \in Values :
          LET row == local[g].row
          IN  Save(g, [row.payload EXCEPT ![f] = v], "upsert", row.rv, row.base)

DeleteGame(g) ==
    /\ Editable(g)
    /\ LET row == local[g].row
       IN  Save(g, [row.payload EXCEPT ![DeletedAt] = AtDevice], "delete", row.rv, row.base)

\* request_sync(retry_failed=True): the user asks to try the failed changes again.
RetryFailed ==
    /\ \E e \in Queued : e.retry # "due"
    /\ local' = [g \in Games |-> RetryFailedEntries(local[g])]
    /\ serverUnchanged /\ syncUnchanged /\ UNCHANGED budget

\* next_retry_at of a queued change passes.
Elapse(g, e) ==
    /\ e.retry = "waiting"
    /\ local' = [local EXCEPT ![g].box = (@ \ {e}) \cup {[e EXCEPT !.retry = "due"]}]
    /\ serverUnchanged /\ syncUnchanged /\ UNCHANGED budget

-----------------------------------------------------------------------------
(* A sync cycle of worker w: _sync_registered and _registered_cycle.       *)

storeUnchanged == UNCHANGED <<local, cursor>>

Goto(w, next) == worker' = [worker EXCEPT ![w] = next]

FetchDue == DueChanges(local, BatchSize)

Batch(entries) == {g \in Games : entries[g] # Absent}

StartCycle(w) ==
    /\ w = active /\ worker[w].pc = "idle"
    /\ Goto(w, [Idle EXCEPT !.pc = "register", !.entries = FetchDue, !.blamed = FetchDue])
    /\ serverUnchanged /\ storeUnchanged /\ UNCHANGED <<active, dialog, late, budget>>

Register(w) ==
    /\ worker[w].pc = "register"
    /\ RegisterDevice
    /\ Goto(w, IF Batch(worker[w].entries) # {}
               THEN [worker[w] EXCEPT !.pc = "push"]
               ELSE [worker[w] EXCEPT !.pc = "pull", !.after = cursor])
    /\ storeUnchanged /\ UNCHANGED <<active, dialog, late, budget>>

\* build_game_change.
RemoteOp(e) == IF e.op = "delete" THEN "delete"
               ELSE IF e.snap.rv = NoVersion THEN "create"
               ELSE IF e.op = "restore" THEN "restore" ELSE "update"

RequestOf(g, e, seq) ==
    [game |-> g, seq |-> seq, op |-> RemoteOp(e), expected |-> e.snap.rv,
     payload |-> e.snap.payload]

Requests(entries) ==
    {RequestOf(g, entries[g], Cardinality({h \in Batch(entries) : entries[h].id <= entries[g].id}))
        : g \in Batch(entries)}

ServerPush(w) ==
    /\ worker[w].pc = "push" /\ worker[w].reply = Absent
    /\ LET batch == Requests(worker[w].entries)
       IN  /\ ApplyChanges(batch)
           /\ Goto(w, [worker[w] EXCEPT !.reply = {AnswerTo(batch, r) : r \in batch}])
    /\ UNCHANGED acked
    /\ storeUnchanged /\ UNCHANGED <<active, dialog, late, budget>>

\* apply_push_results, and the cursor read for the pull that follows.
ReceivePush(w) ==
    LET entries   == worker[w].entries
        answer(g) == CHOOSE a \in worker[w].reply : a.game = g
        order     == [g \in Batch(entries) |-> entries[g].id]
        merging   == {g \in Batch(entries) :
                        /\ ~answer(g).applied /\ answer(g).remote # Absent
                        /\ Merges(local[g], answer(g).remote, TRUE)}
    IN  /\ worker[w].pc = "push" /\ worker[w].reply # Absent
        /\ \E id \in OutboxIds :
             /\ IsNextId(id) /\ id + Cardinality(merging) <= MaxOutboxId + 1
             /\ local' = [g \in Games |->
                  IF entries[g] = Absent THEN local[g]
                  ELSE AfterAnswer(local[g], entries[g], answer(g),
                                   id + Place(g, merging, order))]
        /\ Goto(w, [worker[w] EXCEPT !.pc = "pull", !.reply = Absent, !.after = cursor])
        /\ serverUnchanged /\ UNCHANGED <<cursor, active, dialog, late, budget>>

ServerPull(w) ==
    /\ worker[w].pc = "pull" /\ worker[w].reply = Absent
    /\ Goto(w, [worker[w] EXCEPT !.reply = RowsOf(Page(worker[w].after, BatchSize), games)])
    /\ serverUnchanged /\ storeUnchanged /\ UNCHANGED <<active, dialog, late, budget>>

\* Any page is taken.
AnyPage(w) == TRUE

\* apply_pull_batch: the rows and the cursor in one transaction.  A page that is
\* not ahead of the cursor raises an error, which ends the cycle.
PulledAhead(w) == \A row \in worker[w].reply : row.version > cursor

AdvancedTo(w) ==
    IF worker[w].reply = {} THEN cursor
    ELSE CHOOSE v \in {row.version : row \in worker[w].reply} :
            \A row \in worker[w].reply : row.version <= v

ReceivePull(w) ==
    LET rows    == worker[w].reply
        row(g)  == CHOOSE r \in rows : r.game = g
        remote(g) == [payload |-> row(g).payload, version |-> row(g).version]
        pulled  == {r.game : r \in rows}
        order   == [g \in pulled |-> row(g).version]
        merging == {g \in pulled : Merges(local[g], remote(g), FALSE)}
    IN  /\ worker[w].pc = "pull" /\ worker[w].reply # Absent /\ PulledAhead(w)
        /\ \E id \in OutboxIds :
             /\ IsNextId(id) /\ id + Cardinality(merging) <= MaxOutboxId + 1
             /\ local' = [g \in Games |->
                  IF g \in pulled
                  THEN Reconcile(local[g], remote(g), FALSE, id + Place(g, merging, order))
                  ELSE local[g]]
        /\ cursor' = AdvancedTo(w)
        /\ Goto(w, [worker[w] EXCEPT !.pc = "ack", !.reply = Absent, !.after = cursor'])
        /\ serverUnchanged /\ UNCHANGED <<active, dialog, late, budget>>

RefusePull(w) ==
    /\ worker[w].pc = "pull" /\ worker[w].reply # Absent /\ ~PulledAhead(w)
    /\ Goto(w, Idle)
    /\ serverUnchanged /\ storeUnchanged /\ UNCHANGED <<active, dialog, late, budget>>

ServerAck(w) ==
    /\ worker[w].pc = "ack"
    /\ AcknowledgeVersion(worker[w].after)
    /\ Goto(w, [worker[w] EXCEPT !.pc = "acked"])
    /\ storeUnchanged /\ UNCHANGED <<active, dialog, late, budget>>

FinishCycle(w) ==
    /\ worker[w].pc = "acked"
    /\ Goto(w, Idle)
    /\ serverUnchanged /\ storeUnchanged /\ UNCHANGED <<active, dialog, late, budget>>

-----------------------------------------------------------------------------
(* What goes wrong in a cycle.                                             *)

InCycle(w) == worker[w].pc \in {"register", "push", "pull", "ack", "acked"}

\* _record_registered_failure: every change of the first attempt is blamed.
Blame(w, retry) ==
    LET blamed == worker[w].blamed
        ids    == {blamed[g].id : g \in Batch(blamed)}
        own(g) == IF blamed[g] = Absent THEN {} ELSE {blamed[g].id}
    IN  local' = [g \in Games |-> RecordFailure(local[g], ids, own(g), retry)]

\* A request that the client stops waiting for may arrive later.
MayArriveLate(w) ==
    IF worker[w].pc = "push" /\ worker[w].reply = Absent
    THEN late' \in {late, late \cup {Requests(worker[w].entries)}}
    ELSE late' = late

\* The network, the server or a rate limit fails the cycle: it is retried later.
FailCycle(w) ==
    /\ InCycle(w) /\ Spend("faults")
    /\ Blame(w, "waiting") /\ MayArriveLate(w)
    /\ Goto(w, Idle)
    /\ serverUnchanged /\ UNCHANGED <<cursor, active, dialog>>

\* The server refuses a request for good before it changes anything.
GiveUp(w) == Blame(w, "never") /\ Goto(w, Idle)

RejectCycle(w) ==
    /\ worker[w].pc \in {"register", "push", "pull", "ack"} /\ worker[w].reply = Absent
    /\ Spend("faults") /\ GiveUp(w)
    /\ serverUnchanged /\ UNCHANGED <<cursor, active, dialog, late>>

\* acknowledge_device_version refuses a version below the one another worker of
\* this device has acknowledged.
RefuseAck(w) ==
    /\ worker[w].pc = "ack" /\ ~MayAcknowledge(worker[w].after)
    /\ GiveUp(w)
    /\ serverUnchanged /\ UNCHANGED <<cursor, active, dialog, late, budget>>

\* The token is not accepted.  The first time the cycle starts again with a new
\* token and the changes due by then.
ExpireToken(w) ==
    /\ worker[w].pc \in {"register", "push", "pull", "ack"} /\ worker[w].reply = Absent
    /\ ~worker[w].retried
    /\ Spend("faults")
    /\ Goto(w, [Idle EXCEPT !.pc = "register", !.entries = FetchDue,
                            !.blamed = worker[w].blamed, !.retried = TRUE])
    /\ serverUnchanged /\ storeUnchanged /\ UNCHANGED <<active, dialog, late>>

\* There is no new token, or run_sync_request finds another session than the one
\* it sent the request for: the cycle ends, an answer it has is not used, and no
\* change is blamed.
EndSession(w) ==
    /\ worker[w].pc \in {"register", "push", "pull", "ack"}
    /\ Spend("faults")
    /\ MayArriveLate(w)
    /\ Goto(w, Idle)
    /\ serverUnchanged /\ storeUnchanged /\ UNCHANGED <<active, dialog>>

\* The program is killed.  Every request under way may still arrive.
Crash ==
    /\ \E w \in Workers : worker[w].pc # "idle"
    /\ Spend("faults")
    /\ \E cut \in SUBSET {w \in Workers : worker[w].pc = "push" /\ worker[w].reply = Absent} :
          late' = late \cup {Requests(worker[w].entries) : w \in cut}
    /\ worker' = [w \in Workers |-> Idle]
    /\ dialog' = NoDialog
    /\ serverUnchanged /\ storeUnchanged /\ UNCHANGED active

\* _close_current_scope and switch_profile back to the same profile: stop() waits
\* five seconds for the worker and its result is not looked at, so the cycle of
\* the old thread goes on beside the new one.
ReopenProfile(w) ==
    /\ worker[w].pc = "idle"
    /\ w = active \/ worker[active].pc # "idle"
    /\ Spend("faults")
    /\ active' = w
    /\ dialog' = NoDialog      \* profile_closing, and a queued answer is discarded
    /\ serverUnchanged /\ storeUnchanged /\ UNCHANGED <<worker, late>>

\* A request nobody waits for is carried out.
ServerLate ==
    /\ \E batch \in late : ApplyChanges(batch) /\ late' = late \ {batch}
    /\ UNCHANGED acked
    /\ storeUnchanged /\ UNCHANGED <<worker, active, dialog, budget>>

-----------------------------------------------------------------------------
(* Conflicts are answered by the user.                                     *)

\* list_conflicts, and the dialog opened on one of them.
ViewConflict(g) ==
    /\ dialog = NoDialog /\ local[g].conflict.open
    /\ dialog' = [NoDialog EXCEPT !.game = g, !.cid = local[g].conflict.n,
                                  !.seen = Revision(local[g]), !.remote = local[g].conflict.remote]
    /\ serverUnchanged /\ storeUnchanged /\ UNCHANGED <<worker, active, late, budget>>

\* What the dialog can send: for each column the value of this device, of the
\* server or of the choice made before a reload; Absent is "use the server's
\* version" where the server has no record.
Selectable ==
    LET shown(c) == {dialog.seen.payload[c]}
                    \cup (IF dialog.remote # Absent THEN {dialog.remote.payload[c]} ELSE {})
                    \cup (IF dialog.draft  # Absent THEN {dialog.draft[c]} ELSE {})
    IN  {p \in Payload : \A c \in Columns : p[c] \in shown(c)}
        \cup (IF dialog.remote = Absent THEN {Absent} ELSE {})

Submit ==
    /\ dialog.game # Absent /\ ~dialog.busy
    /\ Spend("answers")
    /\ \E p \in Selectable : dialog' = [dialog EXCEPT !.busy = TRUE, !.selected = p]
    /\ serverUnchanged /\ storeUnchanged /\ UNCHANGED <<worker, active, late>>

CloseDialog ==
    /\ dialog.game # Absent /\ ~dialog.busy
    /\ dialog' = NoDialog
    /\ serverUnchanged /\ storeUnchanged /\ UNCHANGED <<worker, active, late, budget>>

\* reload_conflict: the answer was to an old state.  The dialog shows the record
\* as it is now and remote as the server's, and keeps what was chosen.
Reload(remote) ==
    dialog' = [dialog EXCEPT !.seen = Revision(local[dialog.game]), !.remote = remote,
                             !.draft = dialog.selected, !.selected = Absent, !.busy = FALSE]

\* The server version of the local record alone tells whether it moved.
LocalVersionMoved == local[dialog.game].row.rv # dialog.seen.rv

\* The local record is no longer the one the dialog showed.
LocalMoved == Revision(local[dialog.game]) # dialog.seen

\* An answer to an old state is dropped from the queue and nobody is told.
TakeResolutionSilently(w) ==
    /\ w = active /\ worker[w].pc = "idle" /\ dialog.busy /\ ~LocalMoved
    /\ Goto(w, [Idle EXCEPT !.pc = "fetch"])
    /\ serverUnchanged /\ storeUnchanged /\ UNCHANGED <<active, dialog, late, budget>>

\* SyncEngine.resolve_conflict, up to the request for the server's row.
TakeResolution(w) ==
    /\ w = active /\ worker[w].pc = "idle" /\ dialog.busy
    /\ IF LocalMoved
       THEN Reload(RemoteSeen(local[dialog.game])) /\ UNCHANGED worker
       ELSE Goto(w, [Idle EXCEPT !.pc = "fetch"]) /\ UNCHANGED dialog
    /\ serverUnchanged /\ storeUnchanged /\ UNCHANGED <<active, late, budget>>

\* fetch_game.
ServerFetch(w) ==
    /\ w = active /\ worker[w].pc = "fetch" /\ worker[w].reply = Absent
    /\ Goto(w, [worker[w] EXCEPT !.reply = [row |-> games[dialog.game]]])
    /\ serverUnchanged /\ storeUnchanged /\ UNCHANGED <<active, dialog, late, budget>>

\* The fetch fails: the dialog stays open with its choices.
FailFetch(w) ==
    /\ w = active /\ worker[w].pc = "fetch"
    /\ Spend("faults")
    /\ Goto(w, Idle)
    /\ dialog' = [dialog EXCEPT !.busy = FALSE, !.selected = Absent]
    /\ serverUnchanged /\ storeUnchanged /\ UNCHANGED <<active, late>>

\* The profile was closed meanwhile: is_cancelled.
CancelFetch(w) ==
    /\ w # active /\ worker[w].pc = "fetch"
    /\ Goto(w, Idle)
    /\ serverUnchanged /\ storeUnchanged /\ UNCHANGED <<active, dialog, late, budget>>

\* SyncRepository.resolve_conflict, one transaction.  fresh is the fetched row.
Fetched(w) == w = active /\ worker[w].pc = "fetch" /\ worker[w].reply # Absent

Fresh(w) == worker[w].reply.row

Stale(w) == LocalMoved \/ OlderThanKnown(local[dialog.game], Fresh(w))

Converged(w) ==
    /\ Fresh(w) # Absent
    /\ local[dialog.game].row.payload = Fresh(w).payload
    /\ dialog.selected = Fresh(w).payload

\* A conflict that was answered or settled meanwhile is not brought back.
StillOpen ==
    /\ local[dialog.game].conflict.open
    /\ local[dialog.game].conflict.n = dialog.cid

ResolveStale(w) ==
    /\ Fetched(w) /\ Stale(w)
    /\ Reload(RemoteSeen(local[dialog.game]))
    /\ Goto(w, Idle)
    /\ serverUnchanged /\ storeUnchanged /\ UNCHANGED <<active, late, budget>>

ResolveMoved(w) ==
    /\ Fetched(w) /\ ~Stale(w) /\ ~Converged(w) /\ Fresh(w) # dialog.remote
    /\ local' = IF StillOpen
                THEN [local EXCEPT ![dialog.game] = StoreConflict(@, Fresh(w))]
                ELSE local
    /\ Reload(Fresh(w))
    /\ Goto(w, Idle)
    /\ serverUnchanged /\ UNCHANGED <<cursor, active, late, budget>>

Resolved(L, selected, fresh, id) ==
    IF fresh = Absent
    THEN ResolveMissing(L, selected, selected = Absent \/ Deleted(selected), id)
    ELSE ResolveAgainst(L, selected, fresh, id)

Resolve(w) ==
    /\ Fetched(w) /\ ~Stale(w)
    /\ Converged(w) \/ Fresh(w) = dialog.remote
    /\ \E id \in OutboxIds :
         /\ IsNextId(id)
         /\ local' = [local EXCEPT ![dialog.game] =
                            Resolved(@, dialog.selected, Fresh(w), id)]
    /\ dialog' = NoDialog
    /\ Goto(w, Idle)
    /\ serverUnchanged /\ UNCHANGED <<cursor, active, late, budget>>

-----------------------------------------------------------------------------
(* Other clients of the account: other devices and the web page, each      *)
(* change made on the row as the server has it.                            *)

OtherClient(g, op, payload, expected) ==
    LET r == [game |-> g, seq |-> 1, op |-> op, expected |-> expected, payload |-> payload]
    IN  /\ Accepts(r) /\ ApplyChanges({r})
        /\ Spend("others")
        /\ UNCHANGED acked
        /\ storeUnchanged /\ UNCHANGED <<worker, active, dialog, late>>

OtherCreate(g) ==
    /\ local[g].row = Absent
    /\ \E p \in Payload : ~Deleted(p) /\ OtherClient(g, "create", p, NoVersion)

OtherUpdate(g) ==
    /\ games[g] # Absent
    /\ \E f \in Fields, v \in Values :
          OtherClient(g, "update", [games[g].payload EXCEPT ![f] = v], games[g].version)

OtherDelete(g) ==
    /\ games[g] # Absent
    /\ OtherClient(g, "delete", games[g].payload, games[g].version)

OtherRestore(g) ==
    /\ games[g] # Absent
    /\ OtherClient(g, "restore", games[g].payload, games[g].version)

-----------------------------------------------------------------------------
User(g) == InsertGame(g) \/ UpdateGame(g) \/ DeleteGame(g) \/ ViewConflict(g)

Others(g) == OtherCreate(g) \/ OtherUpdate(g) \/ OtherDelete(g) \/ OtherRestore(g)

Cycle(w) ==
    \/ StartCycle(w) \/ Register(w) \/ ServerPush(w) \/ ReceivePush(w)
    \/ ServerPull(w) \/ ReceivePull(w) \/ RefusePull(w)
    \/ ServerAck(w) \/ RefuseAck(w) \/ FinishCycle(w)

Answering(w) ==
    \/ TakeResolution(w) \/ ServerFetch(w) \/ CancelFetch(w)
    \/ ResolveStale(w) \/ ResolveMoved(w) \/ Resolve(w)

Faults(w) ==
    \/ FailCycle(w) \/ RejectCycle(w) \/ ExpireToken(w) \/ EndSession(w)
    \/ FailFetch(w) \/ ReopenProfile(w)

Next ==
    \/ \E g \in Games : User(g) \/ Others(g)
    \/ \E g \in Games : \E e \in local[g].box : Elapse(g, e)
    \/ RetryFailed \/ Submit \/ CloseDialog
    \/ \E w \in Workers : Cycle(w) \/ Answering(w) \/ Faults(w)
    \/ Crash \/ ServerLate

Spec == Init /\ [][Next]_vars

\* The worker loop goes on, the server answers, a retry time comes.  An answer
\* of the user waits in a queue that the loop empties before each cycle, but may
\* be put there just after, so it is only ready again and again.  Nothing is
\* assumed of the user, of other clients, of faults, or of requests given up.
Fairness ==
    /\ \A w \in Workers : WF_vars(Cycle(w))
    /\ \A w \in Workers : SF_vars(TakeResolution(w))
    /\ \A w \in Workers : WF_vars(ServerFetch(w) \/ CancelFetch(w) \/ ResolveStale(w)
                                      \/ ResolveMoved(w) \/ Resolve(w))
    /\ \A g \in Games : WF_vars(\E e \in local[g].box : Elapse(g, e))

FairSpec == Spec /\ Fairness

-----------------------------------------------------------------------------
Sent(entries) == \A g \in Games : entries[g] \in Entry \cup {Absent}

TypeOK ==
    /\ ServerTypeOK
    /\ local \in [Games -> Record]
    /\ cursor \in Nat
    /\ \A w \in Workers :
         /\ worker[w].pc \in {"idle", "register", "push", "pull", "ack", "acked", "fetch"}
         /\ Sent(worker[w].entries) /\ Sent(worker[w].blamed)
         /\ worker[w].after \in Nat
    /\ active \in Workers

(* Every edit is either on the server or on its way: the newest queued     *)
(* change carries the record as it is now, and a record with nothing       *)
(* queued and no open conflict is exactly what the device last knew the    *)
(* server to have (or a deletion of what was never there).  acknowledge,   *)
(* reconcile and the resolutions all delete queued changes; none may       *)
(* delete one that was made while its request was under way.               *)
NoEditForgotten ==
    \A g \in Games : local[g].row # Absent =>
        LET L == local[g]
        IN  /\ L.box # {} => Newest(L.box).snap.payload = L.row.payload
            /\ L.box = {} /\ ~L.conflict.open =>
                  /\ L.row.status = "synced"
                  /\ IF L.row.base = Absent THEN Deleted(L.row.payload)
                                            ELSE SameRecord(L.row.base, L.row.payload)

(* The base of the next merge is the version it is said to be: what the    *)
(* server stored as version remote_version of this very record.  (A base   *)
(* that is a deletion may be newer: a delete of what is already deleted    *)
(* is acknowledged without a version.)                                     *)
BaseIsAncestor ==
    \A g \in Games :
        LET row == local[g].row
        IN  row # Absent /\ row.rv # NoVersion =>
              /\ row.base # Absent
              /\ \E p \in past :
                    /\ p.game = g /\ p.version = row.rv
                    /\ ~Deleted(row.base) => SameRecord(row.base, p.payload)

(* Nothing the cursor has passed is missed: the device has, for every      *)
(* record whose version is at or below the cursor, that version or a later *)
(* one, or an open conflict that shows it.                                 *)
CursorCovers ==
    \A g \in Games :
        games[g] # Absent /\ games[g].version <= cursor =>
            LET L == local[g]
            IN  /\ L.row # Absent
                /\ \/ L.row.rv >= games[g].version
                   \/ /\ L.conflict.open /\ L.conflict.remote # Absent
                      /\ L.conflict.remote.version >= games[g].version

(* The device acknowledges only what it has stored, and stores only what   *)
(* the server has done.                                                    *)
AckBehindCursor ==
    /\ cursor <= clock
    /\ acked # Absent => acked <= cursor

(* The columns of a record that hold a change of the user the server does  *)
(* not have.                                                               *)
Unsent(L) ==
    IF L.row = Absent \/ (L.box = {} /\ ~L.conflict.open) THEN {}
    ELSE IF L.row.base = Absent THEN Columns
    ELSE Changed(L.row.base, L.row.payload)

(* Sync never touches what the user changed and has not been sent: a step  *)
(* that is neither an edit nor the end of an answered conflict leaves      *)
(* every unsent column as it is (_reconcile_remote, apply_push_results and *)
(* apply_pull_batch, whatever the user does between fetch and answer).     *)
UnsentEditsSurvive ==
    [][budget'.edits = budget.edits =>
         \A g \in Games : ~(dialog.busy /\ dialog' = NoDialog /\ dialog.game = g) =>
            \A c \in Unsent(local[g]) :
                /\ local'[g].row # Absent
                /\ Equivalent(c, local'[g].row.payload[c], local[g].row.payload[c])
      ]_vars

(* Pushing a change never undoes another client's: the columns an accepted *)
(* push changes on the server are among those this device had changed, on  *)
(* top of the server row it had seen.  (A record that was never known to   *)
(* be there can only be deleted.)                                          *)
OwnColumns(e) == IF e.snap.base = Absent THEN {DeletedAt}
                 ELSE Changed(e.snap.base, e.snap.payload)

PushChangesOnlyOwnColumns ==
    [][\A w \in Workers : ServerPush(w) =>
          \A g \in Games : games[g] # Absent /\ games'[g] # games[g] =>
             Changed(games[g].payload, games'[g].payload) \subseteq OwnColumns(worker[w].entries[g])
      ]_vars

(* A conflict is settled by what the user was shown and chose: the record  *)
(* was still the one on the screen and becomes the chosen one (a deletion  *)
(* chosen where the server has no record keeps the other columns as they   *)
(* were), and what is queued is bound to the very server version on the    *)
(* screen, so that a change made there meanwhile comes back as a conflict  *)
(* (resolve_conflict).                                                     *)
AnswerIsToWhatWasShown ==
    [][dialog.busy /\ dialog' = NoDialog /\ local' # local =>
          LET before == local[dialog.game]
              after  == local'[dialog.game]
          IN  /\ before.row.payload = dialog.seen.payload
              /\ IF \/ dialog.selected = Absent
                    \/ dialog.remote = Absent /\ Deleted(dialog.selected)
                 THEN Deleted(after.row.payload)
                 ELSE SameRecord(after.row.payload, dialog.selected)
              /\ \A e \in after.box :
                    e.snap.rv = IF dialog.remote = Absent THEN NoVersion
                                ELSE dialog.remote.version
      ]_vars

(* Once users and faults leave the device alone, every record comes to     *)
(* rest: it is as the server has it, or deleted on both sides, or the user *)
(* is asked, or a change of it was refused for good and waits for the user *)
(* to retry.                                                               *)
AtRest(g) ==
    LET L == local[g]
    IN  \/ L.conflict.open
        \/ \E e \in L.box : e.retry = "never"
        \/ games[g] = Absent /\ L.box = {} /\ (L.row # Absent => Deleted(L.row.payload))
        \/ /\ games[g] # Absent /\ L.row # Absent
           /\ \/ Deleted(L.row.payload) /\ Deleted(games[g].payload)
              \/ /\ L.box = {}
                 /\ L.row.payload = games[g].payload /\ L.row.rv = games[g].version

EverythingComesToRest == \A g \in Games : <>[]AtRest(g)

(* An answer to a conflict is carried out or comes back to the user: the   *)
(* dialog does not stay busy, whatever the worker, other clients and the   *)
(* user do meanwhile (coordinator.py _resolve_pending).                    *)
AnswersAreTaken == dialog.busy ~> ~dialog.busy

-----------------------------------------------------------------------------
\* A change sent in vain: the server refuses it, and what the answer turns it
\* into as well.
Refused(g, L) == Due(L) /\ ~Accepts(RequestOf(g, Newest(L.box), 1))

RefusedForEver(g) ==
    /\ games[g] # Absent
    /\ Refused(g, local[g])
    /\ Refused(g, Reconcile(local[g], games[g], TRUE, 1))

(* What the user chose in the conflict dialog is applied: no change is     *)
(* sent in vain for ever (account_views.py, the text of the dialog).       *)
AnswersCanBeApplied == \A g \in Games : ~RefusedForEver(g)
=============================================================================
