----------------------------- MODULE WebServer -----------------------------
(***************************************************************************)
(* The server as the web client uses it: apply_game_changes with the       *)
(* receipts of repeated creates (supabase/migrations 0030), the two reads  *)
(* of 0031 that answer from one snapshot, and the modes a game may be      *)
(* created in (0022).  The rows themselves and their compare-and-set are   *)
(* GameServer's.                                                           *)
(*                                                                         *)
(* Lists are in the order of (played_at, id).  A game is a number here and *)
(* stands for its place in that order, which nothing the pages write can   *)
(* change.                                                                 *)
(***************************************************************************)
EXTENDS GameServer

CONSTANTS Existing,      \* the games recorded before the page is opened
          Mode,          \* the field that holds a game's play_context_id and standing_kind
          ContextOf,     \* the play_context_id in such a value
          ModeIds,       \* ids of modes
          AtFirst,       \* the modes that are active at first
          MaxAttempts,   \* bound: creates prepared
          PageSize       \* p_limit of list_game_history, 100 in the client

ASSUME WebAssumption ==
    /\ Mode \in Fields /\ MaxAttempts \in Nat /\ PageSize \in Nat \ {0}
    /\ Games \subseteq Nat \ {0} /\ Existing \subseteq Games

\* A row of game_modes: its context and kind are one value.
Definition == [id : ModeIds, offers : Values]
Contexts   == {ContextOf[v] : v \in Values}

ASSUME ModesAssumption == AtFirst \subseteq Definition

VARIABLES receipts,   \* game_create_receipts of the account, by request_id
          active,     \* the rows of game_modes that are active, one of an id
          late        \* changes under way whose page no longer waits for the answer

webServerVars == <<games, clock, acked, past, receipts, active, late>>

NoRequest == 0     \* no request_id
AllModes  == "all" \* no filter: p_context is null

Receipt  == [game : Games, payload : Payload, version : Nat \ {NoVersion}]
ASSUME ReceiptAssumption == Absent \notin Receipt

NoAnswer == [status |-> "none", version |-> NoVersion]
Answered == [status : {"none", "applied", "conflict", "rejected"}, version : Nat]

\* A change as the pages send it.  shown is the version the page had on screen
\* when the user clicked; it is not sent.
Change == [game : Games, seq : {0}, op : {"create", "update", "delete"}, expected : Nat,
           payload : Payload, request : 0 .. MaxAttempts, shown : Nat]

WebServerInit ==
    /\ \E content \in [Existing -> {p \in Payload : ~Deleted(p)}] :
          games = [g \in Games |->
                      IF g \in Existing
                      THEN [payload |-> content[g],
                            version |-> Cardinality({h \in Existing : h <= g})]
                      ELSE Absent]
    /\ clock = Cardinality(Existing)
    /\ acked = Absent
    /\ past  = RowsOf(Existing, games)
    /\ receipts = [n \in 1 .. MaxAttempts |-> Absent]
    /\ active = AtFirst
    /\ late = {}

-----------------------------------------------------------------------------
(* Writes.                                                                 *)

\* (A slip: no receipts are looked up.)
NeverReplayed(c) == FALSE

Replayed(c) == c.request # NoRequest /\ receipts[c.request] # Absent

\* game_mode_context_valid
Admitted(modes, payload) == \E m \in modes : m.offers = payload[Mode]

\* What makes the whole call raise: a request id that was used for something
\* else, or a create that no active mode admits.
Invalid(c) ==
    IF Replayed(c)
    THEN receipts[c.request].game # c.game \/ receipts[c.request].payload # c.payload
    ELSE c.op = "create" /\ ~Admitted(active, c.payload)

Outcome(c) ==
    IF Invalid(c) THEN [status |-> "rejected", version |-> NoVersion]
    ELSE IF Replayed(c) THEN [status |-> "applied", version |-> receipts[c.request].version]
    ELSE IF Accepts(c) THEN [status |-> "applied", version |-> VersionGiven({c}, c)]
    ELSE [status |-> "conflict", version |-> NoVersion]

\* The call (late is left to the caller) changes something only when it is neither refused nor a repetition.
Handle(c) ==
    IF Invalid(c) \/ Replayed(c)
    THEN UNCHANGED <<games, clock, acked, past, receipts, active>>
    ELSE /\ ApplyChanges({c})
         /\ receipts' =
                IF Accepts(c) /\ c.request # NoRequest
                THEN [receipts EXCEPT ![c.request] =
                        [game |-> c.game, payload |-> c.payload, version |-> VersionGiven({c}, c)]]
                ELSE receipts
         /\ UNCHANGED <<acked, active>>

-----------------------------------------------------------------------------
(* Reads.                                                                  *)

\* The games of a context, or all.
Live(context) == {g \in Games : /\ games[g] # Absent
                                /\ ~Deleted(games[g].payload)
                                /\ context \in {AllModes, ContextOf[games[g].payload[Mode]]}}

\* max(change_version) of the account's rows, deleted ones included.
Snapshot == CHOOSE v \in 0 .. clock :
                /\ v = 0 \/ \E g \in Games : games[g] # Absent /\ games[g].version = v
                /\ \A g \in Games : games[g] # Absent => games[g].version <= v

\* The n games of a set that come first in descending order.
First(n, set) == {g \in set : Cardinality({h \in set : h > g}) < n}

\* get_record_state.  Today's score and the standings are read from the same
\* snapshot as the last game.
RecordState ==
    [snapshot |-> Snapshot, last |-> RowsOf(First(1, Live(AllModes)), games)]

\* (A slip: a later page is cut from whatever the server has now.)
NeverStale(snapshot) == FALSE

Stale(snapshot) == snapshot # Absent /\ snapshot # Snapshot

\* list_game_history: the page of a context after a cursor, from the snapshot the
\* pages before it came from, or the news that there is another one.
HistoryPage(context, cursor, snapshot) ==
    LET candidates == {g \in Live(context) : cursor = Absent \/ g < cursor}
        page       == First(PageSize, candidates)
    IN  IF Stale(snapshot)
        THEN [stale |-> TRUE, snapshot |-> Snapshot, rows |-> {}, more |-> FALSE,
              cursor |-> Absent]
        ELSE [stale |-> FALSE, snapshot |-> Snapshot, rows |-> RowsOf(page, games),
              more |-> Cardinality(candidates) > PageSize,
              cursor |-> IF page = {} THEN Absent
                         ELSE CHOOSE g \in page : \A h \in page : g <= h]

-----------------------------------------------------------------------------
\* A change nobody waits for arrives after all.
DeliverLate(c) == Handle(c) /\ late' = late \ {c}

\* An administrator (manage_game_modes) adds a mode, brings one back or makes
\* something else of it, or deletes or deactivates it.
ManageModes ==
    /\ \E id \in ModeIds :
          LET others == {m \in active : m.id # id}
          IN  \/ active' = others
              \/ \E v \in Values : active' = others \cup {[id |-> id, offers |-> v]}
    /\ active' # active
    /\ UNCHANGED <<games, clock, acked, past, receipts, late>>

\* Another client of the account writes.
OtherWrite(c) ==
    /\ Accepts(c)
    /\ ApplyChanges({c})
    /\ UNCHANGED <<acked, receipts, active, late>>

WebServerTypeOK ==
    /\ ServerTypeOK
    /\ receipts \in [1 .. MaxAttempts -> Receipt \cup {Absent}]
    /\ active \subseteq Definition
    /\ late \subseteq Change
=============================================================================
