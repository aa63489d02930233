----------------------------- MODULE GuestSync -----------------------------
(***************************************************************************)
(* A guest profile: no account, nothing is pulled, and the queued changes  *)
(* of the local database are uploaded as observations for the statistics.  *)
(* (SyncEngine._push_guest in src/mdlogger/game_sync/engine.py and         *)
(* analytics.ingest_guest_batch in                                         *)
(* supabase/migrations/0024_guest_ingest_v2.sql.)                          *)
(*                                                                         *)
(* An upload carries a batch id made from the outbox ids it sends, and the *)
(* server answers a batch id it has seen with the counts of the first time *)
(* and does nothing.                                                       *)
(***************************************************************************)
EXTENDS LocalStore

CONSTANTS
    Games,         \* ids of records
    Refused,       \* values the checks of the server's table do not let in
    BatchSize,     \* BATCH_SIZE: changes per upload
    MaxOutboxId,   \* bound: ids of outbox rows
    MaxEdits,      \* bound: changes the user makes
    MaxFaults      \* bound: failed uploads and crashes

ASSUME GuestAssumption ==
    /\ Refused \subseteq Values
    /\ BatchSize \in Nat \ {0} /\ MaxOutboxId \in Nat \ {0}
    /\ {MaxEdits, MaxFaults} \subseteq Nat

ASSUME ObservationAssumption == Absent \notin [payload : Payload, withdrawn : BOOLEAN]

VARIABLES
    local,          \* local[g]: what the device keeps of record g
    upload,         \* the upload of the sync thread
    observations,   \* observations[g]: the server's observation of record g
    batches,        \* ingestion_batches, each with the changes it came with
    late,           \* batches no client waits for, which may still reach the server
    outrun,         \* history: records whose last word on the server is not the client's
    budget          \* what is left of the bounds

vars == <<local, upload, observations, batches, late, outrun, budget>>

server == <<observations, batches, outrun>>

\* entries are the fetched changes by record; reply says whether the server
\* refused any of them, Absent as long as it has not answered.
Idle == [busy |-> FALSE, entries |-> [g \in Games |-> Absent], reply |-> Absent]

Init ==
    /\ local = [g \in Games |-> Unknown]
    /\ upload = Idle
    /\ observations = [g \in Games |-> Absent]
    /\ batches = {} /\ late = {} /\ outrun = {}
    /\ budget = [edits |-> MaxEdits, faults |-> MaxFaults]

Spend(what) == budget[what] > 0 /\ budget' = [budget EXCEPT ![what] = @ - 1]

-----------------------------------------------------------------------------
(* The user: the transactions of db.py.                                    *)

Save(g, payload, op) ==
    /\ Spend("edits")
    /\ \E id \in 1..MaxOutboxId :
         /\ IsNextIdOf(local, id)
         /\ local' = [local EXCEPT ![g] =
                Enqueue(@, [payload |-> payload, rv |-> NoVersion,
                            base |-> IF @.row = Absent THEN Absent ELSE @.row.base,
                            status |-> "pending"], op, id)]
    /\ UNCHANGED <<upload, late, server>>

InsertGame(g) ==
    /\ local[g].row = Absent
    /\ \E p \in Payload : ~Deleted(p) /\ Save(g, p, "upsert")

Editable(g) == local[g].row # Absent /\ ~Deleted(local[g].row.payload)

UpdateGame(g) ==
    /\ Editable(g)
    /\ \E f \in Fields, v \in Values :
          Save(g, [local[g].row.payload EXCEPT ![f] = v], "upsert")

DeleteGame(g) ==
    /\ Editable(g)
    /\ Save(g, [local[g].row.payload EXCEPT ![DeletedAt] = AtDevice], "delete")

\* request_sync(retry_failed=True).
RetryFailed ==
    /\ \E e \in QueuedIn(local) : e.retry # "due"
    /\ local' = [g \in Games |-> RetryFailedEntries(local[g])]
    /\ UNCHANGED <<upload, late, server, budget>>

\* next_retry_at of a queued change passes.
Elapse(g, e) ==
    /\ e.retry = "waiting"
    /\ local' = [local EXCEPT ![g].box = (@ \ {e}) \cup {[e EXCEPT !.retry = "due"]}]
    /\ UNCHANGED <<upload, late, server, budget>>

-----------------------------------------------------------------------------
(* What is sent.                                                           *)

Sent(entries) == {g \in Games : entries[g] # Absent}

\* build_withdrawal and build_observation.
Change(g, e) == [game |-> g, withdraw |-> e.op = "delete",
                 payload |-> LivePayload(e.snap.payload)]

Changes(entries) == {Change(g, entries[g]) : g \in Sent(entries)}

\* The batch id: a hash of the outbox id and the record of each change.
Key(entries) == {<<g, entries[g].id>> : g \in Sent(entries)}

BatchOf(entries) == [key |-> Key(entries), changes |-> Changes(entries)]

-----------------------------------------------------------------------------
(* The server: ingest_guest_batch, one transaction.                        *)

IsRefused(c) == ~c.withdraw /\ \E f \in Fields : c.payload[f] \in Refused

\* A batch with the same id has come before.
Seen(b) == \E x \in batches : x.key = b.key

\* The counts the server answers with are those of the first time.
FirstTaken(b) == IF Seen(b) THEN CHOOSE x \in batches : x.key = b.key ELSE b

AnyRefused(b) == \E c \in b.changes : IsRefused(c)

\* An observation that keeps what it was first (op 'create').
FirstOneCounts(o, c) ==
    IF c.withdraw THEN IF o = Absent THEN Absent ELSE [o EXCEPT !.withdrawn = TRUE]
    ELSE IF o # Absent THEN o
    ELSE [payload |-> c.payload, withdrawn |-> FALSE]

\* An upsert that writes the whole row anew.
WrittenAnew(o, c) ==
    IF c.withdraw THEN IF o = Absent THEN Absent ELSE [o EXCEPT !.withdrawn = TRUE]
    ELSE [payload |-> c.payload, withdrawn |-> FALSE]

\* What a change makes of an observation.  A withdrawal of what is not there is
\* skipped; no change undoes a withdrawal.
Observed(o, c) ==
    IF c.withdraw THEN IF o = Absent THEN Absent ELSE [o EXCEPT !.withdrawn = TRUE]
    ELSE [payload |-> c.payload, withdrawn |-> o # Absent /\ o.withdrawn]

Ingest(b) ==
    LET taken == {c \in b.changes : ~IsRefused(c)}
    IN  IF Seen(b) THEN UNCHANGED <<observations, batches>>
        ELSE /\ batches' = batches \cup {b}
             /\ observations' = [g \in Games |->
                  IF \E c \in taken : c.game = g
                  THEN Observed(observations[g], CHOOSE c \in taken : c.game = g)
                  ELSE observations[g]]

\* Changes the server does not carry out because it takes their batch for another.
Swallowed(b) ==
    {c \in b.changes : Seen(b) /\ Observed(observations[c.game], c) # observations[c.game]}

\* Changes of a late batch that the client has since replaced.
Overtaken(b) ==
    {c \in b.changes : ~Seen(b) /\ LET box == local[c.game].box
                                   IN  box = {} \/ Change(c.game, Newest(box)) # c}

GamesOf(changes) == {c.game : c \in changes}

-----------------------------------------------------------------------------
(* An upload: _push_guest.                                                 *)

StartUpload ==
    /\ ~upload.busy
    /\ Sent(DueChanges(local, BatchSize)) # {}
    /\ upload' = [Idle EXCEPT !.busy = TRUE, !.entries = DueChanges(local, BatchSize)]
    /\ UNCHANGED <<local, late, server, budget>>

ServerIngest ==
    LET b == BatchOf(upload.entries)
    IN  /\ upload.busy /\ upload.reply = Absent
        /\ Ingest(b)
        /\ outrun' = (IF Seen(b) THEN outrun ELSE outrun \ GamesOf(b.changes))
                     \cup GamesOf(Swallowed(b))
        /\ upload' = [upload EXCEPT !.reply = [rejected |-> AnyRefused(FirstTaken(b))]]
        /\ UNCHANGED <<local, late, budget>>

\* record_failure for the whole batch.
Failed(retry) ==
    LET entries == upload.entries
        own(g)  == IF entries[g] = Absent THEN {} ELSE {entries[g].id}
        ids     == {entries[g].id : g \in Sent(entries)}
    IN  [g \in Games |-> RecordFailure(local[g], ids, own(g), retry)]

\* A refusal that is tried again by itself.
AfterRefusalRetried == Failed("waiting")

\* One refused change fails them all until the user asks again.
AfterRefusal == Failed("never")

ReceiveUpload ==
    /\ upload.busy /\ upload.reply # Absent
    /\ local' = IF upload.reply.rejected THEN AfterRefusal
                ELSE [g \in Games |-> IF upload.entries[g] = Absent THEN local[g]
                                      ELSE Acknowledge(local[g], upload.entries[g], NoVersion)]
    /\ upload' = Idle
    /\ UNCHANGED <<late, server, budget>>

\* A request nobody waits for any more may arrive later.
MayArriveLate ==
    late' \in IF upload.reply = Absent THEN {late, late \cup {BatchOf(upload.entries)}}
                                       ELSE {late}

\* The network, the server or a rate limit fails the upload: it is retried later.
FailUpload ==
    /\ upload.busy /\ Spend("faults")
    /\ local' = Failed("waiting") /\ MayArriveLate
    /\ upload' = Idle
    /\ UNCHANGED server

\* guest-ingest refuses the request for good before it changes anything.
RejectUpload ==
    /\ upload.busy /\ upload.reply = Absent /\ Spend("faults")
    /\ local' = Failed("never")
    /\ upload' = Idle
    /\ UNCHANGED <<late, server>>

\* The program is killed.
Crash ==
    /\ upload.busy /\ Spend("faults")
    /\ MayArriveLate
    /\ upload' = Idle
    /\ UNCHANGED <<local, server>>

\* A request nobody waits for is carried out.
ServerLate ==
    /\ \E b \in late :
         /\ Ingest(b)
         /\ outrun' = outrun \cup GamesOf(Overtaken(b))
         /\ late' = late \ {b}
    /\ UNCHANGED <<local, upload, budget>>

-----------------------------------------------------------------------------
User(g) == InsertGame(g) \/ UpdateGame(g) \/ DeleteGame(g)

Uploading == StartUpload \/ ServerIngest \/ ReceiveUpload

Next ==
    \/ \E g \in Games : User(g)
    \/ \E g \in Games : \E e \in local[g].box : Elapse(g, e)
    \/ RetryFailed \/ Uploading
    \/ FailUpload \/ RejectUpload \/ Crash \/ ServerLate

\* The worker loop goes on, the server answers, a retry time comes.
UploadFairness ==
    /\ WF_vars(Uploading)
    /\ \A g \in Games : WF_vars(\E e \in local[g].box : Elapse(g, e))

FairSpec == Init /\ [][Next]_vars /\ UploadFairness

-----------------------------------------------------------------------------
TypeOK ==
    /\ local \in [Games -> Record]
    /\ \A g \in Games :
         /\ upload.entries[g] \in Entry \cup {Absent}
         /\ observations[g] \in [payload : Payload, withdrawn : BOOLEAN] \cup {Absent}
    /\ upload.busy \in BOOLEAN
    /\ outrun \subseteq Games

\* Nothing of the record is left to send.
Settled(g) == local[g].row # Absent /\ local[g].box = {}

\* The server's observation is the record: the payload, or withdrawn, or nothing
\* for a record that was deleted before it was ever sent.
Reflects(g) ==
    LET row == local[g].row
        o   == observations[g]
    IN  IF Deleted(row.payload) THEN o = Absent \/ o.withdrawn
        ELSE o = [payload |-> row.payload, withdrawn |-> FALSE]

(* Whatever fails and is retried, a record with nothing left to send is on *)
(* the server as the user left it.  The two ways in which it is not are    *)
(* the ones outrun records: its change was taken for a batch that came     *)
(* before, or an older request arrived after it.                           *)
UploadsAreReflected == \A g \in Games : Settled(g) => g \in outrun \/ Reflects(g)

(* A withdrawal that reached the server stays, whatever comes late or      *)
(* again (0024_guest_ingest_v2.sql, the M3 guard of the upsert).           *)
WithdrawnStaysWithdrawn ==
    [][\A g \in Games : observations[g] # Absent /\ observations[g].withdrawn
          => observations'[g] # Absent /\ observations'[g].withdrawn]_vars

(* No change is uploaded over and over on its own: again and again it is   *)
(* on the server, or it was refused for good and waits until the user asks *)
(* for another try.                                                        *)
UploadsSettle ==
    \A g \in Games : []<>(local[g].box = {} \/ \E e \in local[g].box : e.retry = "never")

-----------------------------------------------------------------------------
(* The same as UploadsAreReflected without the exceptions, for a network   *)
(* that loses nothing: what a guest changed or withdrew and the client no  *)
(* longer sends is on the server (docs/privacy-policy.md).                 *)
GuestChangesReachServer == \A g \in Games : Settled(g) => Reflects(g)
=============================================================================
