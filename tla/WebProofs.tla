----------------------------- MODULE WebProofs -----------------------------
(***************************************************************************)
(* Theorems about the web client, for any records, fields and modes, pages *)
(* of any length, and any bounds.                                          *)
(*                                                                         *)
(* WebInv, at the end, is what they rest on.  Its parts are stated and     *)
(* shown to be kept one after the other, each from those before it: types, *)
(* what the server has stored (ServerInv), the changes the pages sent      *)
(* (PagesInv), creations and their receipts (CreationsInv), what the user  *)
(* was told (ToldInv), what the form starts from (FormInv) and waits for   *)
(* (WaitInv), and the list on the history page (HistoryInv).               *)
(***************************************************************************)
EXTENDS Web, FiniteSetTheorems, WellFoundedInduction, TLAPS

USE DEF NoVersion, NoRequest

-----------------------------------------------------------------------------
(* Finite sets of numbers.                                                 *)

(* A finite set has an element that is at the end of an order.             *)
LEMMA EndExists ==
    ASSUME NEW S, IsFiniteSet(S), S # {}, NEW F \in [S -> SUBSET S],
           \A m \in S : m \notin F[m],
           \A m \in S : \A n \in F[m] : F[n] \subseteq F[m]
    PROVE  \E m \in S : F[m] = {}
<1> DEFINE T == {F[n] : n \in S}
<1>1. IsWellFoundedOn(StrictSubsetOrdering(S), SUBSET S)
  <2>1. FiniteSubsetsOf(S) = SUBSET S
    BY FS_FiniteSubsetsOfFinite
  <2>2. IsWellFoundedOn(StrictSubsetOrdering(S), FiniteSubsetsOf(S))
    BY FS_StrictSubsetOrderingWellFounded, Zenon
  <2> QED
    BY <2>1, <2>2, Zenon
<1>2. T \subseteq SUBSET S /\ T # {}
  OBVIOUS
<1> HIDE DEF T
<1>3. PICK x \in T : \A y \in T : ~ (<<y, x>> \in StrictSubsetOrdering(S))
  BY <1>1, <1>2, WFMin
<1> USE DEF T
<1>4. PICK m \in S : x = F[m]
  OBVIOUS
<1>5. ASSUME NEW n \in F[m] PROVE FALSE
  <2>1. n \in S /\ F[n] \subseteq F[m] /\ F[n] # F[m]
    OBVIOUS
  <2>2. F[n] \in SUBSET S /\ F[m] \in SUBSET S
    BY <2>1
  <2>3. <<F[n], F[m]>> \in StrictSubsetOrdering(S)
    BY <2>1, <2>2 DEF StrictSubsetOrdering
  <2> QED
    BY <2>1, <2>3, <1>3, <1>4
<1> QED
  BY <1>5

(* A finite set of games has a last and a first one.                       *)
LEMMA EndsExist ==
    ASSUME NEW S, S \subseteq Games, S # {}
    PROVE  /\ \E m \in S : \A n \in S : n <= m
           /\ \E m \in S : \A n \in S : m <= n
<1>1. IsFiniteSet(S) /\ S \subseteq Nat
  BY GamesAssumption, WebAssumption, FS_Subset
<1>2. \E m \in S : \A n \in S : n <= m
  <2> DEFINE F == [m \in S |-> {n \in S : n > m}]
  <2>1. \E m \in S : F[m] = {}
    <3>1. F \in [S -> SUBSET S]
      OBVIOUS
    <3>2. \A m \in S : m \notin F[m]
      BY <1>1
    <3>3. \A m \in S : \A n \in F[m] : F[n] \subseteq F[m]
      <4> SUFFICES ASSUME NEW m \in S, NEW n \in S, n > m, NEW k \in S, k > n
                   PROVE  k > m
        OBVIOUS
      <4> QED
        BY <1>1
    <3> HIDE DEF F
    <3> QED
      BY <1>1, <3>1, <3>2, <3>3, EndExists
  <2> QED
    BY <1>1, <2>1
<1>3. \E m \in S : \A n \in S : m <= n
  <2> DEFINE F == [m \in S |-> {n \in S : n < m}]
  <2>1. \E m \in S : F[m] = {}
    <3>1. F \in [S -> SUBSET S]
      OBVIOUS
    <3>2. \A m \in S : m \notin F[m]
      BY <1>1
    <3>3. \A m \in S : \A n \in F[m] : F[n] \subseteq F[m]
      <4> SUFFICES ASSUME NEW m \in S, NEW n \in S, n < m, NEW k \in S, k < n
                   PROVE  k < m
        OBVIOUS
      <4> QED
        BY <1>1
    <3> HIDE DEF F
    <3> QED
      BY <1>1, <3>1, <3>2, <3>3, EndExists
  <2> QED
    BY <1>1, <2>1
<1> QED
  BY <1>2, <1>3

-----------------------------------------------------------------------------
(* Types.                                                                  *)

PageAnswer == [stale : BOOLEAN, snapshot : Nat, rows : SUBSET VersionedRow, more : BOOLEAN,
               cursor : Games \cup {Absent}]

Reading == [purpose : HistoryPurpose, mode : Contexts \cup {AllModes},
            answer : PageAnswer \cup {Absent}, modes : SUBSET Definition,
            cursor : Games \cup {Absent}, snapshot : Nat \cup {Absent}]

HistoryState ==
    [modes : SUBSET Definition, filter : ModeIds \cup {AllModes}, rows : SUBSET VersionedRow,
     page : Cut \cup {Absent}, loading : BOOLEAN, moreLoading : BOOLEAN, stale : BOOLEAN,
     moved : BOOLEAN, editing : VersionedRow \cup {Absent},
     write : [change : Change, answer : Answered] \cup {Absent}, reads : SUBSET Reading]

Attempt == [game : Games, request : 1 .. MaxAttempts, payload : Payload]
State == [snapshot : Nat, last : SUBSET VersionedRow]
RecordReading == [purpose : Purpose, answer : State \cup {Absent}]

ToldType ==
    told \in [saved : SUBSET Games, refused : SUBSET Games, version : Nat,
              reopened : SUBSET Games]

\* The game that undo deletes was entered, so there is something to enter.
LastWasEntered == rec.last # Absent => Payload # {}

\* HistoryTypeOK says nothing of the reads but their purpose: here they have types.
TypeInv ==
    /\ WebServerTypeOK /\ RecordTypeOK /\ ToldType /\ LastWasEntered
    /\ issued \in [games : SUBSET Games, requests : 0 .. MaxAttempts]
    /\ hist # Absent => hist \in HistoryState

\* No version is beyond the clock.
VersionsAreInClock ==
    \A g \in Games : games[g] # Absent => games[g].version <= clock

\* A row as it is stored and shown.
StoredRow(g, p, v) == [game |-> g, payload |-> p, version |-> v]

\* The one change c is stored.
Stores(c) ==
    /\ Accepts(c)
    /\ games' = [games EXCEPT ![c.game] = [payload |-> Written(c), version |-> clock + 1]]
    /\ clock' = clock + 1
    /\ past'  = past \cup {StoredRow(c.game, Written(c), clock + 1)}

(* What the server writes for a change is a payload.                       *)
LEMMA WrittenType ==
    ASSUME WebServerTypeOK, NEW c \in Change, Accepts(c)
    PROVE  Written(c) \in Payload
<1>1. CASE c.op = "delete"
  <2>1. games[c.game] \in ServerRow
    BY <1>1 DEF Accepts, WebServerTypeOK, ServerTypeOK, Change
  <2> QED
    BY <1>1, <2>1, FieldsAssumption DEF Written, ServerRow, Payload, Columns, Stamps
<1>2. CASE c.op # "delete"
  BY <1>2, FieldsAssumption DEF Written, LivePayload, Change, Payload, Columns, Stamps
<1> QED
  BY <1>1, <1>2

(* apply_game_changes with one change stores it or does nothing.           *)
LEMMA OneChange ==
    ASSUME WebServerTypeOK, VersionsAreInClock, NEW c \in Change, ApplyChanges({c})
    PROVE  /\ Accepts(c) => Stores(c) /\ VersionGiven({c}, c) = clock + 1
           /\ ~Accepts(c) => UNCHANGED <<games, clock, past>>
<1>1. /\ games \in [Games -> ServerRow \cup {Absent}] /\ clock \in Nat
      /\ c.game \in Games /\ c.seq = 0
      /\ \A g \in Games : games[g] # Absent =>
            games[g].version \in Nat /\ games[g].version <= clock
  BY DEF WebServerTypeOK, ServerTypeOK, Change, ServerRow, VersionsAreInClock
<1>2. Cardinality({}) = 0 /\ Cardinality({c}) = 1
  BY FS_EmptySet, FS_Singleton
<1>3. ASSUME Accepts(c) PROVE Stores(c) /\ VersionGiven({c}, c) = clock + 1
  <2>1. Accepted({c}) = {c}
    BY <1>3 DEF Accepted
  <2>2. {q \in Accepted({c}) : q.seq <= c.seq} = {c}
    <3>1. c.seq <= c.seq
      BY <1>1
    <3> QED
      BY <2>1, <3>1
  <2>3. VersionGiven({c}, c) = clock + 1 /\ clock' = clock + 1
    BY <1>2, <2>1, <2>2 DEF VersionGiven, ApplyChanges
  <2>4. ASSUME NEW g \in Games
        PROVE  games'[g] = IF g = c.game THEN [payload |-> Written(c), version |-> clock + 1]
                                         ELSE games[g]
    <3>1. CASE g = c.game
      <4>1. (CHOOSE r \in {c} : r.game = g) = c
        BY <3>1
      <4> QED
        BY <2>1, <2>3, <3>1, <4>1 DEF ApplyChanges, Applied
    <3>2. CASE g # c.game
      BY <2>1, <3>2 DEF ApplyChanges, Applied
    <3> QED
      BY <3>1, <3>2
  <2>5. games' = [games EXCEPT ![c.game] = [payload |-> Written(c), version |-> clock + 1]]
    BY <1>1, <2>4 DEF ApplyChanges, Applied
  <2>6. games[c.game] # games'[c.game]
    <3>1. games'[c.game] = [payload |-> Written(c), version |-> clock + 1]
      BY <1>1, <2>4
    <3>2. games'[c.game] # Absent
      <4>1. games'[c.game] \in ServerRow
        BY <1>1, <1>3, <3>1, WrittenType DEF ServerRow
      <4> QED
        BY <4>1, AbsentAssumption
    <3>3. games[c.game] # Absent => games[c.game].version < clock + 1
      BY <1>1
    <3> QED
      BY <1>1, <3>1, <3>2, <3>3
  <2>7. RowsOf({g \in Games : games'[g] # games[g]}, games') =
            {StoredRow(c.game, Written(c), clock + 1)}
    <3>1. {g \in Games : games'[g] # games[g]} = {c.game}
      BY <1>1, <2>4, <2>6
    <3> QED
      BY <1>1, <2>4, <3>1 DEF RowsOf, StoredRow
  <2> QED
    BY <1>3, <2>3, <2>5, <2>7 DEF Stores, ApplyChanges
<1>4. ASSUME ~Accepts(c) PROVE UNCHANGED <<games, clock, past>>
  <2>1. Accepted({c}) = {}
    BY <1>4 DEF Accepted
  <2>2. games' = games
    BY <1>1, <2>1 DEF ApplyChanges, Applied
  <2>3. clock' = clock
    BY <1>1, <1>2, <2>1 DEF ApplyChanges
  <2>4. past' = past
    BY <2>2 DEF ApplyChanges, RowsOf
  <2> QED
    BY <2>2, <2>3, <2>4
<1> QED
  BY <1>3, <1>4

(* A change that is stored leaves rows, clock and history of their types.  *)
LEMMA StoresType ==
    ASSUME WebServerTypeOK, NEW c \in Change, Stores(c)
    PROVE  /\ games' \in [Games -> ServerRow \cup {Absent}] /\ clock' \in Nat
           /\ past' \subseteq VersionedRow
<1>1. /\ games \in [Games -> ServerRow \cup {Absent}] /\ clock \in Nat
      /\ past \subseteq VersionedRow /\ c.game \in Games
  BY DEF WebServerTypeOK, ServerTypeOK, Change
<1>2. Written(c) \in Payload
  BY WrittenType DEF Stores
<1>3. [payload |-> Written(c), version |-> clock + 1] \in ServerRow
  BY <1>1, <1>2 DEF ServerRow
<1>4. StoredRow(c.game, Written(c), clock + 1) \in VersionedRow
  BY <1>1, <1>2 DEF VersionedRow, StoredRow
<1> QED
  BY <1>1, <1>3, <1>4 DEF Stores

\* The receipt of the change c, stored now.
ReceiptOf(c) == [game |-> c.game, payload |-> c.payload, version |-> clock + 1]

\* What a call that stores its change does to the receipts.
Receipted(c) ==
    receipts' = IF c.request # NoRequest THEN [receipts EXCEPT ![c.request] = ReceiptOf(c)]
                                         ELSE receipts

\* Nothing is stored.
Unstored == UNCHANGED <<games, clock, past, receipts>>

\* Another client stores a change, of a game that is new to it or there.
OtherStores(c) ==
    /\ Stores(c) /\ c.request = NoRequest /\ UNCHANGED <<receipts, active, late>>
    /\ IF games[c.game] = Absent
       THEN c.game \notin issued.games /\ issued' = [issued EXCEPT !.games = @ \cup {c.game}]
       ELSE issued' = issued

(* A call stores its change, or changes nothing.                           *)
LEMMA Handled ==
    ASSUME WebServerTypeOK, VersionsAreInClock, NEW c \in Change, Handle(c)
    PROVE  /\ UNCHANGED <<acked, active>>
           /\ \/ Unstored /\ (Invalid(c) \/ Replayed(c) \/ ~Accepts(c))
              \/ Stores(c) /\ ~Invalid(c) /\ ~Replayed(c) /\ Receipted(c)
<1>1. CASE Invalid(c) \/ Replayed(c)
  BY <1>1 DEF Handle, Unstored
<1>2. CASE ~(Invalid(c) \/ Replayed(c))
  <2>1. ApplyChanges({c}) /\ UNCHANGED <<acked, active>>
    BY <1>2 DEF Handle
  <2>2. CASE Accepts(c)
    BY <1>2, <2>1, <2>2, OneChange DEF Handle, Receipted, ReceiptOf
  <2>3. CASE ~Accepts(c)
    BY <1>2, <2>1, <2>3, OneChange DEF Handle, Unstored
  <2> QED
    BY <2>1, <2>2, <2>3
<1> QED
  BY <1>1, <1>2

\* The ways in which a step may change what the server has.
ServerMoves ==
    \/ Unstored /\ active' \subseteq Definition
    \/ /\ active' = active
       /\ \E c \in UnderWay : Stores(c) /\ ~Invalid(c) /\ ~Replayed(c) /\ Receipted(c)
    \/ \E c \in Change : OtherStores(c)

(* What is under way are changes.                                          *)
LEMMA UnderWayType == ASSUME TypeInv PROVE UnderWay \subseteq Change
BY DEF TypeInv, WebServerTypeOK, RecordTypeOK, HistoryState, UnderWay, Unanswered, Forsaken

(* A step moves the server in one of these ways.                           *)
LEMMA ServerStep ==
    ASSUME TypeInv, VersionsAreInClock, Next
    PROVE  ServerMoves /\ UNCHANGED acked
<1>1. WebServerTypeOK /\ UnderWay \subseteq Change
  BY UnderWayType DEF TypeInv
<1>2. ASSUME NEW c \in UnderWay, Handle(c) PROVE ServerMoves /\ UNCHANGED acked
  BY <1>1, <1>2, Handled DEF ServerMoves, WebServerTypeOK
<1>3. CASE RecordWriteArrives
  <2>1. rec.write.change \in UnderWay
    BY <1>3 DEF RecordWriteArrives, DeliverRecordWrite, UnderWay, Unanswered
  <2> QED
    BY <1>2, <1>3, <2>1 DEF RecordWriteArrives, DeliverRecordWrite
<1>4. CASE HistoryWriteArrives
  <2>1. hist.write.change \in UnderWay
    BY <1>4 DEF HistoryWriteArrives, DeliverHistoryWrite, UnderWay, Forsaken
  <2> QED
    BY <1>2, <1>4, <2>1 DEF HistoryWriteArrives, DeliverHistoryWrite
<1>5. CASE LateWrite
  <2>1. PICK c \in late : DeliverLate(c)
    BY <1>5 DEF LateWrite
  <2>2. c \in UnderWay
    BY DEF UnderWay
  <2> QED
    BY <1>2, <2>1, <2>2 DEF DeliverLate
<1>6. CASE OtherClient
  <2>1. PICK g \in Games, p \in {q \in Payload : ~Deleted(q)} :
          \/ /\ games[g] = Absent /\ g \notin issued.games
             /\ OtherWrite(OtherChange(g, "create", p))
             /\ issued' = [issued EXCEPT !.games = @ \cup {g}]
          \/ /\ games[g] # Absent
             /\ \E op \in {"update", "delete"} : OtherWrite(OtherChange(g, op, p))
             /\ UNCHANGED issued
    BY <1>6 DEF OtherClient
  <2>2. \A op \in {"create", "update", "delete"} :
           /\ (op = "create" \/ games[g] # Absent) => OtherChange(g, op, p) \in Change
           /\ OtherChange(g, op, p).game = g /\ OtherChange(g, op, p).request = NoRequest
    <3>1. games[g] # Absent => games[g].version \in Nat
      BY <1>1 DEF WebServerTypeOK, ServerTypeOK, ServerRow
    <3> QED
      BY <3>1, WebAssumption DEF OtherChange, Change
  <2>3. ASSUME NEW c \in Change, OtherWrite(c), c.request = NoRequest,
               IF games[c.game] = Absent
               THEN /\ c.game \notin issued.games
                    /\ issued' = [issued EXCEPT !.games = @ \cup {c.game}]
               ELSE issued' = issued
        PROVE  ServerMoves /\ UNCHANGED acked
    <3>1. Stores(c)
      BY <1>1, <2>3, OneChange DEF OtherWrite
    <3>2. UNCHANGED <<acked, receipts, active, late>>
      BY <2>3 DEF OtherWrite
    <3>3. OtherStores(c)
      BY <2>3, <3>1, <3>2 DEF OtherStores
    <3> QED
      BY <3>2, <3>3 DEF ServerMoves
  <2> QED
    BY <2>1, <2>2, <2>3
<1>7. CASE Administrator
  <2>1. active \subseteq Definition
    BY <1>1 DEF WebServerTypeOK
  <2>2. active' \subseteq Definition
    BY <1>7, <2>1 DEF Administrator, ManageModes, Definition
  <2> QED
    BY <1>7, <2>2 DEF Administrator, ManageModes, ServerMoves, Unstored
<1>8. CASE UNCHANGED <<games, clock, acked, past, receipts, active>>
  BY <1>1, <1>8 DEF ServerMoves, Unstored, WebServerTypeOK
<1> QED
  BY <1>3, <1>4, <1>5, <1>6, <1>7, <1>8
     DEF Next, RecordClick, RecordTurn, RecordWriteIsLost, RecordWriteLost, HistoryClick,
         HistoryTurn, HistoryWriteIsLost, HistoryWriteLost, OpenRecord, OpenHistory, Leave,
         LeaveHistory, SessionChanges, serverStays, webServerVars

-----------------------------------------------------------------------------
(* What the server has stored.                                             *)

\* The newest row carries the clock.
ClockIsSeen == clock = 0 \/ \E g \in Games : games[g] # Absent /\ games[g].version = clock

\* What was stored of a game is there or was replaced by a newer version; of a
\* version there is one row.
PastIsKept ==
    /\ \A p \in past : games[p.game] # Absent /\ p.version <= games[p.game].version
    /\ \A p, q \in past : p.game = q.game /\ p.version = q.version => p = q
    /\ \A g \in Games : games[g] # Absent =>
          StoredRow(g, games[g].payload, games[g].version) \in past

ServerInv == VersionsAreInClock /\ ClockIsSeen /\ PastIsKept

(* The facts about the server that types alone give.                       *)
LEMMA ServerFacts ==
    ASSUME WebServerTypeOK
    PROVE  /\ games \in [Games -> ServerRow \cup {Absent}] /\ clock \in Nat
           /\ past \subseteq VersionedRow
           /\ \A g \in Games : games[g] # Absent =>
                /\ games[g] \in ServerRow /\ games[g].payload \in Payload
                /\ games[g].version \in Nat \ {0}
           /\ \A p \in past : /\ p.game \in Games /\ p.payload \in Payload
                              /\ p.version \in Nat \ {0}
                              /\ p = StoredRow(p.game, p.payload, p.version)
           /\ Absent \notin ServerRow /\ Absent \notin Nat
BY AbsentAssumption DEF WebServerTypeOK, ServerTypeOK, ServerRow, VersionedRow, StoredRow

(* A stored change is a new row of its game.                               *)
LEMMA StoresOne ==
    ASSUME WebServerTypeOK, NEW c \in Change, Stores(c)
    PROVE  /\ \A g \in Games \ {c.game} : games'[g] = games[g]
           /\ games'[c.game] = [payload |-> Written(c), version |-> clock + 1]
           /\ games'[c.game] # Absent
           /\ games'[c.game].payload = Written(c) /\ games'[c.game].version = clock + 1
           /\ c.game \in Games
<1>1. c.game \in Games
  BY DEF Change
<1>2. games'[c.game] = [payload |-> Written(c), version |-> clock + 1]
  BY <1>1, ServerFacts DEF Stores
<1>3. games'[c.game] \in ServerRow
  BY <1>2, ServerFacts, WrittenType DEF Stores, ServerRow
<1> QED
  BY <1>1, <1>2, <1>3, ServerFacts DEF Stores

(* The server starts with one version for each game that is there.         *)
LEMMA ServerInitInv == WebServerInit => WebServerTypeOK /\ ServerInv
<1> SUFFICES ASSUME WebServerInit PROVE WebServerTypeOK /\ ServerInv
  OBVIOUS
<1> DEFINE upTo(g) == {h \in Existing : h <= g}
<1>1. IsFiniteSet(Existing) /\ Existing \subseteq Games /\ Games \subseteq Nat
  BY GamesAssumption, WebAssumption, FS_Subset
<1>2. Cardinality(Existing) \in Nat
  BY <1>1, FS_CardinalityType
<1>3. ASSUME NEW g \in Existing
      PROVE  Cardinality(upTo(g)) \in Nat \ {0} /\ Cardinality(upTo(g)) <= Cardinality(Existing)
  <2>1. upTo(g) \subseteq Existing /\ g \in upTo(g)
    BY <1>1
  <2>2. IsFiniteSet(upTo(g)) /\ Cardinality(upTo(g)) \in Nat
        /\ Cardinality(upTo(g)) <= Cardinality(Existing)
    BY <1>1, <2>1, FS_Subset, FS_CardinalityType
  <2>3. Cardinality(upTo(g)) # 0
    BY <2>1, <2>2, FS_EmptySet
  <2> QED
    BY <2>2, <2>3
<1>4. PICK content \in [Existing -> {p \in Payload : ~Deleted(p)}] :
        games = [g \in Games |->
                    IF g \in Existing
                    THEN [payload |-> content[g], version |-> Cardinality(upTo(g))]
                    ELSE Absent]
  BY DEF WebServerInit
<1> HIDE DEF upTo
<1>5. \A g \in Existing : /\ games[g] = [payload |-> content[g], version |-> Cardinality(upTo(g))]
                          /\ games[g] \in ServerRow /\ games[g] # Absent
  <2> SUFFICES ASSUME NEW g \in Existing
               PROVE  /\ games[g] = [payload |-> content[g], version |-> Cardinality(upTo(g))]
                      /\ games[g] \in ServerRow /\ games[g] # Absent
    OBVIOUS
  <2>1. games[g] = [payload |-> content[g], version |-> Cardinality(upTo(g))]
    BY <1>1, <1>4
  <2>2. content[g] \in Payload /\ Cardinality(upTo(g)) \in Nat \ {0}
    BY <1>3
  <2>3. games[g] \in ServerRow
    BY <2>1, <2>2 DEF ServerRow
  <2> QED
    BY <2>1, <2>3, AbsentAssumption
<1>6. \A g \in Games \ Existing : games[g] = Absent
  BY <1>4
<1>7. games \in [Games -> ServerRow \cup {Absent}]
  BY <1>4, <1>5, <1>6
<1>8. past = RowsOf(Existing, games) /\ clock = Cardinality(Existing)
  BY DEF WebServerInit
<1>a. \A g \in Existing : /\ g \in Games /\ games[g].version = Cardinality(upTo(g))
                          /\ games[g].payload \in Payload /\ games[g].version \in Nat \ {0}
                          /\ games[g].version <= clock
  <2> SUFFICES ASSUME NEW g \in Existing
               PROVE  /\ g \in Games /\ games[g].version = Cardinality(upTo(g))
                      /\ games[g].payload \in Payload /\ games[g].version \in Nat \ {0}
                      /\ games[g].version <= clock
    OBVIOUS
  <2>1. games[g].version = Cardinality(upTo(g))
    <3>1. games[g] = [payload |-> content[g], version |-> Cardinality(upTo(g))]
      BY <1>5
    <3> QED
      BY <3>1
  <2>2. games[g].payload \in Payload
    BY <1>5 DEF ServerRow
  <2> QED
    BY <1>1, <1>3, <1>8, <2>1, <2>2
<1>9. past \subseteq VersionedRow
  <2> SUFFICES ASSUME NEW g \in Existing
               PROVE  StoredRow(g, games[g].payload, games[g].version) \in VersionedRow
    BY <1>8 DEF RowsOf, StoredRow
  <2> QED
    BY <1>a DEF StoredRow, VersionedRow
<1>10. WebServerTypeOK
  <2>1. ServerTypeOK
    BY <1>2, <1>7, <1>8, <1>9 DEF WebServerInit, ServerTypeOK
  <2> QED
    BY <2>1, ModesAssumption DEF WebServerInit, WebServerTypeOK
<1>11. VersionsAreInClock
  BY <1>6, <1>a DEF VersionsAreInClock
<1>12. ClockIsSeen
  <2>1. CASE Existing = {}
    BY <1>8, <2>1, FS_EmptySet DEF ClockIsSeen
  <2>2. CASE Existing # {}
    <3>1. PICK m \in Existing : \A n \in Existing : n <= m
      BY <1>1, <2>2, EndsExist
    <3>2. upTo(m) = Existing
      BY <3>1 DEF upTo
    <3>3. m \in Games /\ games[m] # Absent /\ games[m].version = clock
      BY <1>1, <1>5, <1>8, <1>a, <3>2
    <3> QED
      BY <3>3 DEF ClockIsSeen
  <2> QED
    BY <2>1, <2>2
<1>13. PastIsKept
  <2>1. \A p \in past : /\ p.game \in Existing
                        /\ p = StoredRow(p.game, games[p.game].payload, games[p.game].version)
                        /\ p.version = games[p.game].version
    BY <1>8 DEF RowsOf, StoredRow
  <2>2. \A g \in Existing : StoredRow(g, games[g].payload, games[g].version) \in past
    BY <1>8 DEF RowsOf, StoredRow
  <2>3. \A p \in past : games[p.game] # Absent /\ p.version <= games[p.game].version
    <3> SUFFICES ASSUME NEW p \in past
                 PROVE  games[p.game] # Absent /\ p.version <= games[p.game].version
      OBVIOUS
    <3>1. p.game \in Existing /\ p.version = games[p.game].version
      BY <2>1
    <3>2. games[p.game] # Absent /\ games[p.game].version \in Nat
      BY <1>5, <1>a, <3>1
    <3> QED
      BY <3>1, <3>2
  <2>4. \A p, q \in past : p.game = q.game => p = q
    BY <2>1
  <2>5. \A g \in Games : games[g] # Absent =>
           StoredRow(g, games[g].payload, games[g].version) \in past
    BY <1>6, <2>2
  <2> QED
    BY <2>3, <2>4, <2>5 DEF PastIsKept
<1> QED
  BY <1>10, <1>11, <1>12, <1>13 DEF ServerInv

(* A stored change keeps what was stored.                                  *)
LEMMA StoresKeeps ==
    ASSUME WebServerTypeOK, ServerInv, NEW c \in Change, Stores(c)
    PROVE  ServerInv'
<1> DEFINE row == StoredRow(c.game, Written(c), clock + 1)
<1>1. /\ clock' = clock + 1 /\ past' = past \cup {row}
      /\ row.game = c.game /\ row.payload = Written(c) /\ row.version = clock + 1
  BY DEF Stores, StoredRow
<1>2. \A p \in past : p.version <= clock
  BY ServerFacts DEF ServerInv, PastIsKept, VersionsAreInClock
<1>3. VersionsAreInClock'
  <2> SUFFICES ASSUME NEW g \in Games, games'[g] # Absent PROVE games'[g].version <= clock + 1
    BY <1>1 DEF VersionsAreInClock
  <2>a. clock \in Nat
    BY ServerFacts
  <2>1. CASE g = c.game
    <3>1. games'[g].version = clock + 1
      BY <2>1, StoresOne, Zenon
    <3> QED
      BY <3>1, <2>a
  <2>2. CASE g # c.game
    <3>1. games'[g] = games[g]
      BY <2>2, StoresOne
    <3>2. games[g] # Absent /\ games[g].version <= clock
      BY <3>1 DEF ServerInv, VersionsAreInClock
    <3>3. games[g].version \in Nat
      BY <3>2, ServerFacts
    <3> QED
      BY <2>a, <3>1, <3>2, <3>3
  <2> QED
    BY <2>1, <2>2
<1>4. ClockIsSeen'
  BY <1>1, StoresOne DEF ClockIsSeen
<1> HIDE DEF row
<1>b. /\ games'[c.game] # Absent /\ games'[c.game].version = clock + 1 /\ clock \in Nat
      /\ \A p \in past : p.version \in Nat /\ p.game \in Games
  BY StoresOne, ServerFacts
<1>5. ASSUME NEW p \in past'
      PROVE  games'[p.game] # Absent /\ p.version <= games'[p.game].version
  <2>1. CASE p = row
    BY <1>1, <1>b, <2>1
  <2>2. CASE p \in past /\ p.game = c.game
    BY <1>2, <1>b, <2>2
  <2>3. CASE p \in past /\ p.game # c.game
    BY <2>3, StoresOne, ServerFacts DEF ServerInv, PastIsKept
  <2> QED
    BY <1>1, <1>5, <2>1, <2>2, <2>3
<1>6. ASSUME NEW p \in past', NEW q \in past', p.game = q.game, p.version = q.version
      PROVE  p = q
  <2>1. \A r \in past : r.version # row.version
    BY <1>1, <1>2, ServerFacts
  <2> QED
    BY <1>1, <1>6, <2>1 DEF ServerInv, PastIsKept
<1>7. ASSUME NEW g \in Games, games'[g] # Absent
      PROVE  StoredRow(g, games'[g].payload, games'[g].version) \in past'
  <2>1. CASE g = c.game
    BY <1>1, <2>1, StoresOne DEF row
  <2>2. CASE g # c.game
    BY <1>1, <1>7, <2>2, StoresOne DEF ServerInv, PastIsKept
  <2> QED
    BY <2>1, <2>2
<1> QED
  BY <1>3, <1>4, <1>5, <1>6, <1>7 DEF ServerInv, PastIsKept

(* Every step keeps what was stored.                                       *)
LEMMA ServerInvStep ==
    ASSUME TypeInv, ServerInv, Next PROVE ServerInv'
<1>1. WebServerTypeOK /\ ServerMoves /\ UnderWay \subseteq Change
  BY ServerStep, UnderWayType DEF TypeInv, ServerInv
<1>2. CASE Unstored
  BY <1>2 DEF Unstored, ServerInv, VersionsAreInClock, ClockIsSeen, PastIsKept
<1>3. CASE \E c \in Change : Stores(c)
  BY <1>1, <1>3, StoresKeeps
<1> QED
  BY <1>1, <1>2, <1>3 DEF ServerMoves, OtherStores

(* The snapshot of the account is its clock.                               *)
LEMMA SnapshotIsClock ==
    ASSUME WebServerTypeOK, ServerInv PROVE Snapshot = clock
<1> DEFINE Newest(v) == /\ v = 0 \/ \E g \in Games : games[g] # Absent /\ games[g].version = v
                        /\ \A g \in Games : games[g] # Absent => games[g].version <= v
<1>1. clock \in 0 .. clock /\ Newest(clock)
  BY ServerFacts DEF ServerInv, VersionsAreInClock, ClockIsSeen
<1>2. ASSUME NEW v \in 0 .. clock, Newest(v) PROVE v = clock
  <2>1. CASE clock = 0
    BY <2>1
  <2>2. CASE clock # 0
    <3>1. PICK g \in Games : games[g] # Absent /\ games[g].version = clock
      BY <2>2 DEF ServerInv, ClockIsSeen
    <3>2. clock <= v
      BY <1>2, <3>1
    <3> QED
      BY <3>2, ServerFacts
  <2> QED
    BY <2>1, <2>2
<1>3. Snapshot = CHOOSE v \in 0 .. clock : Newest(v)
  BY DEF Snapshot
<1> HIDE DEF Newest
<1> QED
  BY <1>1, <1>2, <1>3

-----------------------------------------------------------------------------
(* The types are kept.                                                     *)

RecordPage ==
    [loaded : BOOLEAN, loading : BOOLEAN, ready : BOOLEAN, dirty : BOOLEAN,
     state : State \cup {Absent}, last : [game : Games, version : Nat] \cup {Absent},
     attempt : Attempt \cup {Absent},
     write : [change : Change, answer : Answered] \cup {Absent}, reads : SUBSET RecordReading]

(* The type of the record page, with names for its parts.                  *)
LEMMA RecordPageType == RecordTypeOK => rec \in RecordPage
BY DEF RecordTypeOK, RecordPage, State, Attempt, RecordReading

(* And back.                                                               *)
LEMMA PageIsTyped ==
    ASSUME rec' \in RecordPage, issued' \in [games : SUBSET Games, requests : 0 .. MaxAttempts]
    PROVE  RecordTypeOK'
BY DEF RecordTypeOK, RecordPage, State, Attempt, RecordReading

(* Rows of the server are shown with their versions.                       *)
LEMMA RowsType ==
    ASSUME WebServerTypeOK, NEW page \in SUBSET Games, \A g \in page : games[g] # Absent
    PROVE  RowsOf(page, games) \subseteq VersionedRow
<1> SUFFICES ASSUME NEW g \in page
             PROVE  StoredRow(g, games[g].payload, games[g].version) \in VersionedRow
  BY DEF RowsOf, StoredRow
<1>1. games[g].payload \in Payload /\ games[g].version \in Nat \ {0}
  BY ServerFacts
<1> QED
  BY <1>1 DEF VersionedRow, StoredRow

(* What the server answers to the reads of the pages.                      *)
LEMMA RecordStateType == ASSUME WebServerTypeOK, ServerInv PROVE RecordState \in State
<1>1. RowsOf(First(1, Live(AllModes)), games) \subseteq VersionedRow
  BY RowsType DEF First, Live
<1>2. Snapshot \in Nat
  BY SnapshotIsClock, ServerFacts
<1> QED
  BY <1>1, <1>2 DEF RecordState, State

LEMMA HistoryPageType ==
    ASSUME WebServerTypeOK, ServerInv, NEW mode, NEW cursor, NEW snapshot
    PROVE  HistoryPage(mode, cursor, snapshot) \in PageAnswer
<1> DEFINE candidates == {g \in Live(mode) : cursor = Absent \/ g < cursor}
           page == First(PageSize, candidates)
<1>1. page \subseteq Live(mode) /\ Live(mode) \subseteq Games
  BY DEF First, Live
<1>2. RowsOf(page, games) \subseteq VersionedRow
  <2>1. \A g \in page : games[g] # Absent
    BY DEF Live, First
  <2> QED
    BY <1>1, <2>1, RowsType
<1>3. Snapshot \in Nat
  BY SnapshotIsClock, ServerFacts
<1>4. (IF page = {} THEN Absent ELSE CHOOSE g \in page : \A h \in page : g <= h)
          \in Games \cup {Absent}
  <2>1. CASE page # {}
    <3>1. \E g \in page : \A h \in page : g <= h
      BY <1>1, <2>1, EndsExist
    <3>2. (CHOOSE g \in page : \A h \in page : g <= h) \in page
      BY <3>1
    <3> QED
      BY <1>1, <2>1, <3>2
  <2> QED
    BY <2>1
<1> HIDE DEF page, candidates
<1>5. HistoryPage(mode, cursor, snapshot) =
          IF Stale(snapshot)
          THEN [stale |-> TRUE, snapshot |-> Snapshot, rows |-> {}, more |-> FALSE,
                cursor |-> Absent]
          ELSE [stale |-> FALSE, snapshot |-> Snapshot, rows |-> RowsOf(page, games),
                more |-> Cardinality(candidates) > PageSize,
                cursor |-> IF page = {} THEN Absent
                           ELSE CHOOSE g \in page : \A h \in page : g <= h]
  BY DEF HistoryPage, page, candidates
<1>6. (Cardinality(candidates) > PageSize) \in BOOLEAN
  OBVIOUS
<1> QED
  BY <1>2, <1>3, <1>4, <1>5, <1>6 DEF PageAnswer

(* What it answers to a write, and what it does then.                      *)
LEMMA OutcomeType ==
    ASSUME WebServerTypeOK, VersionsAreInClock, NEW c \in Change, Handle(c)
    PROVE  /\ Outcome(c) \in Answered
           /\ Outcome(c).status \in {"applied", "conflict", "rejected"}
           /\ Outcome(c).status = "applied" =>
                /\ ~Invalid(c)
                /\ Outcome(c).version =
                      IF Replayed(c) THEN receipts[c.request].version ELSE clock + 1
                /\ ~Replayed(c) => Stores(c) /\ Receipted(c)
<1>1. clock \in Nat /\ receipts \in [1 .. MaxAttempts -> Receipt \cup {Absent}]
  BY ServerFacts DEF WebServerTypeOK
<1>2. Replayed(c) => receipts[c.request].version \in Nat
  <2> SUFFICES ASSUME Replayed(c) PROVE receipts[c.request].version \in Nat
    OBVIOUS
  <2>1. c.request \in 1 .. MaxAttempts
    BY WebAssumption DEF Replayed, Change
  <2>2. receipts[c.request] \in Receipt
    BY <1>1, <2>1 DEF Replayed
  <2> QED
    BY <2>2 DEF Receipt
<1>3. ASSUME ~Invalid(c), ~Replayed(c), Accepts(c)
      PROVE  VersionGiven({c}, c) = clock + 1 /\ Stores(c) /\ Receipted(c)
  <2>1. ApplyChanges({c})
    BY <1>3 DEF Handle
  <2>2. VersionGiven({c}, c) = clock + 1 /\ Stores(c)
    BY <1>3, <2>1, OneChange
  <2> QED
    BY <1>3, <2>2 DEF Handle, Receipted, ReceiptOf
<1>4. CASE Invalid(c)
  BY <1>4 DEF Outcome, Answered
<1>5. CASE ~Invalid(c) /\ Replayed(c)
  BY <1>2, <1>5 DEF Outcome, Answered
<1>6. CASE ~Invalid(c) /\ ~Replayed(c) /\ Accepts(c)
  BY <1>1, <1>3, <1>6 DEF Outcome, Answered
<1>7. CASE ~Invalid(c) /\ ~Replayed(c) /\ ~Accepts(c)
  BY <1>7 DEF Outcome, Answered
<1> QED
  BY <1>4, <1>5, <1>6, <1>7

(* A form that is sent is a change.                                        *)
LEMMA CreationType ==
    \A a \in Attempt : /\ Creation(a) \in Change /\ Creation(a).op = "create"
                       /\ Creation(a).game = a.game /\ Creation(a).request = a.request
                       /\ Creation(a).payload = a.payload /\ Creation(a).expected = NoVersion
BY WebAssumption DEF Attempt, Creation, Change

(* An undo is a change.                                                    *)
LEMMA DeletionType ==
    ASSUME NEW g \in Games, NEW v \in Nat, NEW p \in Payload
    PROVE  /\ Deletion(g, v) \in Change /\ Deletion(g, v).op = "delete"
           /\ Deletion(g, v).expected = v /\ Deletion(g, v).shown = v
           /\ Deletion(g, v).request = NoRequest /\ Deletion(g, v).game = g
<1>1. NoPayload \in Payload
  BY DEF NoPayload
<1> QED
  BY <1>1, WebAssumption DEF Deletion, ExpectedOf, Change

LEMMA NoAnswerType == NoAnswer \in Answered
BY DEF NoAnswer, Answered

\* The steps that touch the record page, and the others.
RecordSteps ==
    \/ Visit \/ RefreshRecord \/ FillIn \/ SelectMode \/ Prepare \/ SaveAgain \/ Undo
    \/ \E r \in rec.reads : AnswerRecordRead(r) \/ RecordReadReturns(r) \/ RecordReadFails(r)
    \/ RecordWriteReturns \/ DeliverRecordWrite \/ RecordWriteLost
    \/ rec' = FreshRecord /\ route' = "elsewhere" /\ UNCHANGED <<issued, told>>

\* A decision about the modes as the record page's variables see it.
Decided == /\ UNCHANGED <<rec, issued>>
           /\ told' = [told EXCEPT !.reopened = @ \cup Reopened]

(* What touches the record page is a step of it, or the end of the         *)
(* session.                                                                *)
LEMMA StepsOfRecord ==
    ASSUME Next
    PROVE  \/ RecordSteps \/ UNCHANGED recordVars
           \/ (OtherClient /\ UNCHANGED <<rec, told>>)
           \/ (Administrator /\ Decided)
BY DEF Next, RecordClick, RecordTurn, RecordWriteArrives, RecordWriteIsLost, HistoryClick,
       HistoryTurn, HistoryWriteArrives, HistoryWriteIsLost, OpenRecord, OpenHistory, Leave,
       SessionChanges, LateWrite, OtherClient, Administrator, recordStays, recordVars, RecordSteps,
       Decided

(* The record page keeps its type.                                         *)
LEMMA RecordTypes ==
    ASSUME TypeInv, ServerInv, Next
    PROVE  /\ rec' \in RecordPage /\ ToldType'
           /\ issued' \in [games : SUBSET Games, requests : 0 .. MaxAttempts]
<1>1. /\ rec \in RecordPage /\ ToldType /\ WebServerTypeOK /\ VersionsAreInClock
      /\ issued \in [games : SUBSET Games, requests : 0 .. MaxAttempts]
  BY RecordPageType DEF TypeInv, ServerInv
<1>2. \A p \in Purpose : RecordRead(p) \in RecordReading
  BY DEF RecordRead, RecordReading
<1>p. {"load", "refresh", "replace", "saved", "undone"} = Purpose
  BY DEF Purpose
<1>3. \A w : Superseded(w) = {}
  BY DEF Superseded
<1>4. CASE UNCHANGED recordVars
  BY <1>1, <1>4 DEF recordVars, ToldType
<1>5. CASE OtherClient /\ UNCHANGED <<rec, told>>
  <2>1. issued' = issued \/ \E g \in Games : issued' = [issued EXCEPT !.games = @ \cup {g}]
    BY <1>5 DEF OtherClient
  <2> QED
    BY <1>1, <1>5, <2>1 DEF ToldType
<1>6. CASE Visit
  BY <1>1, <1>2, <1>3, <1>6, <1>p DEF Visit, Loading, RecordPage, ToldType
<1>7. CASE RefreshRecord
  BY <1>1, <1>2, <1>3, <1>7, <1>p DEF RefreshRecord, Loading, RecordPage, ToldType
<1>8. CASE FillIn \/ SelectMode
  BY <1>1, <1>8 DEF FillIn, SelectMode, RecordPage, ToldType
<1>9. ASSUME NEW r \in RecordPage, NEW c \in Change PROVE Sending(r, c) \in RecordPage
  BY <1>3, NoAnswerType DEF Sending, RecordPage
<1>10. CASE Prepare
  <2>1. PICK g \in Games \ (issued.games \cup Foreign), p \in {q \in Payload : ~Deleted(q)} :
          LET a == [game |-> g, request |-> issued.requests + 1, payload |-> p]
          IN  /\ issued' = [games |-> issued.games \cup {g}, requests |-> a.request]
              /\ rec' = Sending([rec EXCEPT !.attempt = a], Creation(a))
    BY <1>10 DEF Prepare
  <2> DEFINE a == [game |-> g, request |-> issued.requests + 1, payload |-> p]
  <2>2. a \in Attempt /\ a.request \in 1 .. MaxAttempts
    BY <1>1, <1>10, WebAssumption DEF Prepare, Attempt
  <2>3. issued' = [games |-> issued.games \cup {g}, requests |-> a.request]
        /\ rec' = Sending([rec EXCEPT !.attempt = a], Creation(a))
    BY <2>1
  <2> HIDE DEF a
  <2>4. [rec EXCEPT !.attempt = a] \in RecordPage
    BY <1>1, <2>2 DEF RecordPage
  <2> QED
    BY <1>1, <1>9, <1>10, <2>2, <2>3, <2>4, CreationType DEF Prepare, ToldType
<1>11. CASE SaveAgain
  <2>1. rec.attempt \in Attempt
    BY <1>1, <1>11 DEF SaveAgain, RecordPage
  <2> QED
    BY <1>1, <1>9, <1>11, <2>1, CreationType DEF SaveAgain, ToldType
<1>12. CASE Undo
  <2>1. rec.last.game \in Games /\ rec.last.version \in Nat
    BY <1>1, <1>12 DEF Undo, RecordPage
  <2>2. \E p \in Payload : TRUE
    BY <1>12 DEF Undo, TypeInv, LastWasEntered
  <2> QED
    BY <1>1, <1>9, <1>12, <2>1, <2>2, DeletionType DEF Undo, ToldType
<1>13. ASSUME NEW r \in rec.reads, AnswerRecordRead(r)
       PROVE  rec' \in RecordPage /\ ToldType' /\ issued' = issued
  <2>1. [r EXCEPT !.answer = RecordState] \in RecordReading
    BY <1>1, RecordStateType DEF RecordReading, RecordPage
  <2> QED
    BY <1>1, <1>13, <2>1 DEF AnswerRecordRead, RecordPage, ToldType
<1>14. ASSUME NEW r \in rec.reads, RecordReadReturns(r)
       PROVE  rec' \in RecordPage /\ ToldType' /\ issued' = issued
  <2>1. r \in RecordReading /\ r.answer \in State
    BY <1>1, <1>14 DEF RecordReadReturns, RecordPage, RecordReading
  <2>2. ToUndo(r.answer) \in [game : Games, version : Nat] \cup {Absent}
    <3> SUFFICES ASSUME r.answer.last # {}
                 PROVE  ToUndo(r.answer) \in [game : Games, version : Nat]
      BY DEF ToUndo
    <3> DEFINE row == CHOOSE row \in r.answer.last : TRUE
    <3>1. row \in VersionedRow
      BY <2>1 DEF State
    <3> HIDE DEF row
    <3>2. row.game \in Games /\ row.version \in Nat
      BY <3>1 DEF VersionedRow
    <3>3. ToUndo(r.answer) = [game |-> row.game, version |-> row.version]
      BY DEF ToUndo, row
    <3> QED
      BY <3>2, <3>3
  <2>3. LastAfter(r) \in [game : Games, version : Nat] \cup {Absent}
    BY <1>1, <2>2 DEF LastAfter, RecordPage
  <2>4. (rec.loading /\ r.purpose # "load") \in BOOLEAN
    OBVIOUS
  <2> QED
    BY <1>1, <1>14, <2>1, <2>3, <2>4 DEF RecordReadReturns, RecordPage, ToldType
<1>15. ASSUME NEW r \in rec.reads, RecordReadFails(r)
       PROVE  rec' \in RecordPage /\ ToldType' /\ issued' = issued
  <2>1. (rec.loading /\ r.purpose # "load") \in BOOLEAN
    OBVIOUS
  <2> QED
    BY <1>1, <1>15, <2>1 DEF RecordReadFails, RecordPage, ToldType
<1>16. CASE RecordWriteReturns
  <2>1. /\ rec.write.change.game \in Games /\ rec.write.answer.version \in Nat
        /\ issued' = issued
    BY <1>1, <1>16 DEF RecordWriteReturns, RecordPage, Change, Answered
  <2>2. ASSUME NEW r \in RecordPage, NEW l \in [game : Games, version : Nat] \cup {Absent},
               NEW p \in Purpose
        PROVE  Confirmed(r, l, p) \in RecordPage
    BY <1>2, <1>3 DEF Confirmed, RecordPage
  <2>3. CASE Saved(rec.write.change.game, rec.write.answer.version)
    <3>1. [rec EXCEPT !.attempt = Absent, !.dirty = FALSE] \in RecordPage
      BY <1>1 DEF RecordPage
    <3>2. rec' \in RecordPage
      BY <1>p, <2>1, <2>2, <2>3, <3>1 DEF Saved
    <3>3. ToldType'
      BY <1>1, <2>1, <2>3 DEF Saved, ToldType
    <3> QED
      BY <1>1, <2>1, <3>2, <3>3
  <2>4. CASE Refused(rec.write.change.game)
    BY <1>1, <2>1, <2>4 DEF Refused, RecordPage, ToldType
  <2>5. CASE Undone(rec.write.answer.version)
    <3>1. rec' \in RecordPage
      BY <1>1, <1>p, <2>2, <2>5 DEF Undone
    <3>2. ToldType'
      BY <1>1, <2>1, <2>5 DEF Undone, ToldType
    <3> QED
      BY <1>1, <2>1, <3>1, <3>2
  <2>6. CASE rec' = NotUndone(rec) /\ UNCHANGED told
    BY <1>1, <2>1, <2>6 DEF NotUndone, RecordPage, ToldType
  <2> QED
    BY <1>16, <2>3, <2>4, <2>5, <2>6 DEF RecordWriteReturns
<1>17. CASE DeliverRecordWrite
  <2>1. rec.write.change \in Change /\ rec.write \in [change : Change, answer : Answered]
    BY <1>1, <1>17 DEF DeliverRecordWrite, RecordPage
  <2>2. Outcome(rec.write.change) \in Answered
    BY <1>1, <1>17, <2>1, OutcomeType DEF DeliverRecordWrite
  <2> QED
    BY <1>1, <1>17, <2>1, <2>2 DEF DeliverRecordWrite, RecordPage, ToldType
<1>18. CASE RecordWriteLost
  BY <1>1, <1>18 DEF RecordWriteLost, NotUndone, RecordPage, ToldType
<1>19. CASE rec' = FreshRecord /\ UNCHANGED <<issued, told>>
  BY <1>1, <1>19 DEF FreshRecord, RecordPage, ToldType
<1>20. CASE Decided
  <2>1. Reopened \subseteq Games
    BY <1>1 DEF Reopened, WebServerTypeOK, Change
  <2> QED
    BY <1>1, <1>20, <2>1 DEF Decided, ToldType
<1> QED
  BY <1>1, <1>4, <1>5, <1>6, <1>7, <1>8, <1>10, <1>11, <1>12, <1>13, <1>14, <1>15, <1>16,
     <1>17, <1>18, <1>19, <1>20, StepsOfRecord DEF RecordSteps

(* What is last was entered: it was read from a row or comes from a receipt *)
(* for a change.                                                           *)
LEMMA LastStep ==
    ASSUME TypeInv, ServerInv, Next
    PROVE  LastWasEntered'
<1>1. rec \in RecordPage /\ LastWasEntered
  BY RecordPageType DEF TypeInv
<1>2. CASE Payload # {}
  BY <1>2 DEF LastWasEntered
<1>3. CASE Payload = {}
  <2> SUFFICES rec'.last = Absent
    BY DEF LastWasEntered
  <2>1. VersionedRow = {} /\ Change = {} /\ rec.last = Absent
    BY <1>1, <1>3 DEF VersionedRow, Change, LastWasEntered
  <2>2. \A r \in rec.reads : r.answer # Absent => ToUndo(r.answer) = Absent
    <3> SUFFICES ASSUME NEW r \in rec.reads, r.answer # Absent PROVE r.answer.last = {}
      BY DEF ToUndo
    <3>1. r.answer \in State
      BY <1>1 DEF RecordPage, RecordReading
    <3> QED
      BY <2>1, <3>1 DEF State
  <2>3. rec.write = Absent
    BY <1>1, <2>1 DEF RecordPage
  <2>4. \A r \in rec.reads : RecordReadReturns(r) => rec'.last = Absent
    BY <1>1, <2>1, <2>2 DEF RecordReadReturns, LastAfter, RecordPage
  <2>5. CASE Visit \/ RefreshRecord \/ FillIn \/ SelectMode \/ SaveAgain \/ Prepare
    BY <1>1, <2>1, <2>5 DEF Visit, Loading, RefreshRecord, FillIn, SelectMode, SaveAgain, Prepare,
                            Sending, RecordPage
  <2>6. CASE Undo \/ RecordWriteReturns \/ DeliverRecordWrite \/ RecordWriteLost
    BY <2>1, <2>3, <2>6 DEF Undo, RecordWriteReturns, DeliverRecordWrite, RecordWriteLost
  <2>7. ASSUME NEW r \in rec.reads, AnswerRecordRead(r) \/ RecordReadFails(r)
        PROVE  rec'.last = Absent
    BY <1>1, <2>1, <2>7 DEF AnswerRecordRead, RecordReadFails, RecordPage
  <2>8. CASE rec' = FreshRecord \/ UNCHANGED rec
    BY <2>1, <2>8 DEF FreshRecord
  <2> QED
    BY <2>4, <2>5, <2>6, <2>7, <2>8, StepsOfRecord DEF RecordSteps, recordVars, Decided
<1> QED
  BY <1>2, <1>3

\* The steps that touch the history page.
HistoryReads ==
    \E r \in hist.reads : AnswerHistoryRead(r) \/ HistoryReadReturns(r) \/ HistoryReadFails(r)

HistorySteps ==
    \/ /\ hist # Absent
       /\ \/ RefreshHistory \/ LoadMore \/ CancelEdit \/ SaveEdit
          \/ \E mode \in ModeIds \cup {AllModes} : SelectFilter(mode)
          \/ \E row \in hist.rows : StartEdit(row) \/ DeleteRow(row)
          \/ HistoryReads \/ HistoryWriteReturns \/ DeliverHistoryWrite \/ HistoryWriteLost
    \/ EnterHistory

(* What touches the history page is a step of it, or closes it.            *)
LEMMA StepsOfHistory ==
    ASSUME Next PROVE HistorySteps \/ UNCHANGED hist \/ hist' = Absent
BY DEF Next, RecordClick, RecordTurn, RecordWriteArrives, RecordWriteIsLost, HistoryClick,
       HistoryTurn, HistoryWriteArrives, HistoryWriteIsLost, OpenRecord, OpenHistory, Leave,
       LeaveHistory, SessionChanges, LateWrite, OtherClient, Administrator, historyStays,
       HistorySteps, HistoryReads

(* What a page is made of keeps its type.                                  *)
LEMMA ReadType ==
    ASSUME NEW h \in HistoryState, NEW p \in HistoryPurpose, p = "more" => h.page # Absent
    PROVE  /\ HistoryRead(h, p) \in Reading
           /\ Issue(h, p) \in HistoryState
           /\ Issue(h, p) = [h EXCEPT !.reads = {HistoryRead(h, p)}]
<1>1. Context(h) \in Contexts \cup {AllModes}
  <2>1. CASE \E m \in h.modes : m.id = h.filter
    <3> DEFINE m == CHOOSE m \in h.modes : m.id = h.filter
    <3>1. m \in h.modes
      BY <2>1
    <3>2. m \in Definition
      BY <3>1 DEF HistoryState
    <3> HIDE DEF m
    <3>3. m.offers \in Values
      BY <3>2 DEF Definition
    <3>4. Context(h) = ContextOf[m.offers]
      BY <2>1 DEF Context, ContextIn, m
    <3> QED
      BY <3>3, <3>4 DEF Contexts
  <2>2. CASE ~\E m \in h.modes : m.id = h.filter
    BY <2>2 DEF Context, ContextIn
  <2> QED
    BY <2>1, <2>2
<1>2. p = "more" => h.page \in Cut
  BY DEF HistoryState
<1>3. HistoryRead(h, p) \in Reading
  BY <1>1, <1>2 DEF HistoryRead, Reading, Cut
<1>4. Issue(h, p) = [h EXCEPT !.reads = {HistoryRead(h, p)}]
  BY DEF Issue, Outdated, HistoryState
<1> QED
  BY <1>3, <1>4 DEF HistoryState

LEMMA RefreshType ==
    ASSUME NEW h \in HistoryState
    PROVE  Refreshing(h) \in HistoryState /\ AfterWriting(h) \in HistoryState
<1>1. Issue(h, "refresh") \in HistoryState /\ Issue(h, "written") \in HistoryState
  BY ReadType DEF HistoryPurpose
<1>2. ASSUME NEW k \in HistoryState
      PROVE  /\ [k EXCEPT !.loading = TRUE, !.moreLoading = FALSE] \in HistoryState
             /\ [k EXCEPT !.loading = TRUE, !.moreLoading = FALSE, !.stale = TRUE] \in HistoryState
  <2>1. [k EXCEPT !.loading = TRUE, !.moreLoading = FALSE] \in HistoryState
    BY DEF HistoryState
  <2>2. [k EXCEPT !.loading = TRUE, !.moreLoading = FALSE, !.stale = TRUE] \in HistoryState
    BY DEF HistoryState
  <2> QED
    BY <2>1, <2>2
<1> QED
  BY <1>1, <1>2 DEF Refreshing, AfterWriting

LEMMA InvalidatedType ==
    ASSUME NEW h \in HistoryState
    PROVE  /\ Invalidated(h) \in HistoryState
           /\ Invalidated(h) = [h EXCEPT !.reads = {}, !.loading = FALSE, !.moreLoading = FALSE]
           /\ Invalidated(h).write = h.write
           /\ \A e : [Invalidated(h) EXCEPT !.editing = e].write = h.write
BY DEF Invalidated, Outdated, HistoryState

LEMMA ShownType ==
    ASSUME NEW h \in HistoryState, NEW a \in PageAnswer
    PROVE  Shown(h, a) \in HistoryState /\ Extended(h, a) \in HistoryState
<1>1. [snapshot |-> a.snapshot, more |-> a.more, cursor |-> a.cursor] \in Cut
  BY DEF PageAnswer, Cut
<1> QED
  BY <1>1 DEF Shown, Extended, PageAnswer, HistoryState

(* An edit and a deletion are changes, of the version that is shown.       *)
LEMMA RevisionType ==
    ASSUME NEW op \in {"update", "delete"}, NEW r \in VersionedRow, NEW p \in Payload
    PROVE  /\ Revision(op, r, p) \in Change /\ Revision(op, r, p).op = op
           /\ Revision(op, r, p).expected = r.version /\ Revision(op, r, p).shown = r.version
           /\ Revision(op, r, p).request = NoRequest
BY WebAssumption DEF Revision, ExpectedVersion, VersionedRow, Change

(* The history page keeps its type.                                        *)
LEMMA HistoryTypes ==
    ASSUME TypeInv, ServerInv, Next
    PROVE  hist' # Absent => hist' \in HistoryState
<1>1. /\ hist # Absent => hist \in HistoryState
      /\ WebServerTypeOK /\ VersionsAreInClock
  BY DEF TypeInv, ServerInv
<1>2. CASE UNCHANGED hist \/ hist' = Absent
  BY <1>1, <1>2
<1>p. HistoryPurpose = {"first", "refresh", "written", "more"}
  BY DEF HistoryPurpose
<1>3. CASE EnterHistory
  <2>1. FreshHistory \in HistoryState
    BY DEF FreshHistory, HistoryState
  <2> QED
    BY <1>3, <1>p, <2>1, ReadType DEF EnterHistory
<1>4. CASE hist # Absent /\ RefreshHistory
  <2>1. [hist EXCEPT !.loading = TRUE] \in HistoryState
    BY <1>1, <1>4 DEF HistoryState
  <2> QED
    BY <1>1, <1>4, <1>p, <2>1, ReadType, RefreshType DEF RefreshHistory
<1>5. CASE hist # Absent /\ LoadMore
  <2>1. Issue(hist, "more") \in HistoryState
    BY <1>1, <1>5, <1>p, ReadType DEF LoadMore
  <2> QED
    BY <1>5, <2>1 DEF LoadMore, HistoryState
<1>6. CASE hist # Absent /\ CancelEdit
  BY <1>1, <1>6, InvalidatedType DEF CancelEdit, HistoryState
<1>7. ASSUME hist # Absent, NEW c \in Change PROVE Writing(c) \in HistoryState
  BY <1>1, <1>7, InvalidatedType, NoAnswerType DEF Writing, HistoryState
<1>8. CASE hist # Absent /\ SaveEdit
  <2>1. hist.editing \in VersionedRow
    BY <1>1, <1>8 DEF SaveEdit, HistoryState
  <2>2. CASE hist' = Invalidated(hist)
    BY <1>1, <1>8, <2>2, InvalidatedType
  <2>3. ASSUME NEW p \in Payload, hist' = Writing(Revision("update", hist.editing, p))
        PROVE  hist' \in HistoryState
    BY <1>7, <1>8, <2>1, <2>3, RevisionType
  <2> QED
    BY <1>8, <2>2, <2>3 DEF SaveEdit
<1>9. ASSUME hist # Absent, NEW row \in hist.rows, StartEdit(row) \/ DeleteRow(row)
      PROVE  hist' \in HistoryState
  <2>1. row \in VersionedRow /\ row.payload \in Payload
    BY <1>1, <1>9 DEF HistoryState, VersionedRow
  <2>2. CASE StartEdit(row)
    BY <1>1, <1>9, <2>1, <2>2, InvalidatedType DEF StartEdit, HistoryState
  <2>3. CASE DeleteRow(row)
    BY <1>7, <1>9, <2>1, <2>3, RevisionType DEF DeleteRow
  <2> QED
    BY <1>9, <2>2, <2>3
<1>10. ASSUME hist # Absent, NEW mode \in ModeIds \cup {AllModes}, SelectFilter(mode)
       PROVE  hist' \in HistoryState
  <2> DEFINE h == [hist EXCEPT !.filter = mode, !.rows = {}, !.page = Absent, !.loading = TRUE,
                               !.moreLoading = FALSE, !.moved = FALSE, !.editing = Absent,
                               !.reads = Outdated(@)]
  <2>1. h \in HistoryState
    BY <1>1, <1>10 DEF Outdated, HistoryState
  <2>2. hist' = IF Context(h) # Context(hist) THEN Issue(h, "first") ELSE h
    BY <1>10 DEF SelectFilter
  <2> HIDE DEF h
  <2> QED
    BY <1>p, <2>1, <2>2, ReadType
<1>11. ASSUME hist # Absent, NEW r \in hist.reads,
              AnswerHistoryRead(r) \/ HistoryReadReturns(r) \/ HistoryReadFails(r)
       PROVE  hist' \in HistoryState
  <2>1. r \in Reading /\ hist \in HistoryState
    BY <1>1, <1>11 DEF HistoryState
  <2>2. CASE AnswerHistoryRead(r)
    <3>1. HistoryPage(r.mode, r.cursor, r.snapshot) \in PageAnswer
      BY <1>1, HistoryPageType DEF ServerInv
    <3>2. active \subseteq Definition
      BY <1>1 DEF WebServerTypeOK
    <3>3. (IF r.purpose = "first" THEN active ELSE {}) \in SUBSET Definition
      BY <3>2
    <3>4. [r EXCEPT !.answer = HistoryPage(r.mode, r.cursor, r.snapshot),
                    !.modes  = IF r.purpose = "first" THEN active ELSE {}] \in Reading
      BY <2>1, <3>1, <3>3 DEF Reading
    <3> QED
      BY <2>1, <2>2, <3>4 DEF AnswerHistoryRead, HistoryState
  <2>3. CASE HistoryReadReturns(r)
    <3> DEFINE h == [hist EXCEPT !.reads = @ \ {r}]
               listed == [Shown(h, r.answer) EXCEPT !.modes = r.modes]
    <3>1. r.answer \in PageAnswer /\ r.modes \subseteq Definition
      BY <2>1, <2>3 DEF HistoryReadReturns, Reading
    <3>2. h \in HistoryState
      BY <2>1 DEF HistoryState
    <3>3. hist' = IF r.purpose = "first"
                  THEN IF Context(listed) # Context(hist)
                       THEN Issue([listed EXCEPT !.moved = TRUE], "first") ELSE listed
                  ELSE IF r.purpose # "more" THEN Shown(h, r.answer)
                  ELSE IF r.answer.stale THEN Refreshing([h EXCEPT !.stale = TRUE])
                  ELSE Extended(h, r.answer)
      BY <2>3 DEF HistoryReadReturns
    <3> HIDE DEF h
    <3>4. Shown(h, r.answer) \in HistoryState /\ Extended(h, r.answer) \in HistoryState
      BY <3>1, <3>2, ShownType
    <3>5. listed \in HistoryState
      BY <3>1, <3>4 DEF HistoryState
    <3> HIDE DEF listed
    <3>6. Issue([listed EXCEPT !.moved = TRUE], "first") \in HistoryState
      <4>1. [listed EXCEPT !.moved = TRUE] \in HistoryState
        BY <3>5 DEF HistoryState
      <4> QED
        BY <1>p, <4>1, ReadType
    <3>7. Refreshing([h EXCEPT !.stale = TRUE]) \in HistoryState
      <4>1. [h EXCEPT !.stale = TRUE] \in HistoryState
        BY <3>2 DEF HistoryState
      <4> QED
        BY <4>1, RefreshType
    <3> QED
      BY <3>3, <3>4, <3>5, <3>6, <3>7
  <2>4. CASE HistoryReadFails(r)
    <3>1. (hist.loading /\ r.purpose = "more") \in BOOLEAN
          /\ (hist.moreLoading /\ r.purpose # "more") \in BOOLEAN
      OBVIOUS
    <3> QED
      BY <2>1, <2>4, <3>1 DEF HistoryReadFails, HistoryState
  <2> QED
    BY <1>11, <2>2, <2>3, <2>4
<1>12. CASE hist # Absent /\ HistoryWriteReturns
  <2> DEFINE h == [hist EXCEPT !.write = Absent]
             c == hist.write.change
  <2>1. h \in HistoryState
    BY <1>1, <1>12 DEF HistoryState
  <2>2. \/ hist' = AfterWriting([h EXCEPT !.editing = Absent])
        \/ hist' = [h EXCEPT !.editing = Absent]
        \/ hist' = h
        \/ hist' = AfterWriting([h EXCEPT !.rows = Without(c.game)])
    BY <1>12 DEF HistoryWriteReturns
  <2>3. [h EXCEPT !.editing = Absent] \in HistoryState
    BY <2>1 DEF HistoryState
  <2>4. [h EXCEPT !.rows = Without(c.game)] \in HistoryState
    <3>1. Without(c.game) \subseteq VersionedRow
      BY <1>1, <1>12 DEF Without, HistoryState
    <3> QED
      BY <2>1, <3>1 DEF HistoryState
  <2> HIDE DEF h
  <2> QED
    BY <2>1, <2>2, <2>3, <2>4, RefreshType
<1>13. CASE hist # Absent /\ DeliverHistoryWrite
  <2>1. hist.write \in [change : Change, answer : Answered] /\ hist.write.change \in Change
    BY <1>1, <1>13 DEF DeliverHistoryWrite, HistoryState
  <2>2. Outcome(hist.write.change) \in Answered
    BY <1>1, <1>13, <2>1, OutcomeType DEF DeliverHistoryWrite
  <2> QED
    BY <1>1, <1>13, <2>1, <2>2 DEF DeliverHistoryWrite, HistoryState
<1>14. CASE hist # Absent /\ HistoryWriteLost
  BY <1>1, <1>14 DEF HistoryWriteLost, HistoryState
<1> QED
  BY <1>2, <1>3, <1>4, <1>5, <1>6, <1>8, <1>9, <1>10, <1>11, <1>12, <1>13, <1>14,
     StepsOfHistory DEF HistorySteps, HistoryReads

(* Everything keeps its type.                                              *)
LEMMA TypeInit == Init => TypeInv /\ ServerInv
<1> SUFFICES ASSUME Init PROVE TypeInv /\ ServerInv
  OBVIOUS
<1>1. WebServerTypeOK /\ ServerInv
  BY ServerInitInv DEF Init
<1>2. rec \in RecordPage /\ rec.last = Absent
  BY DEF Init, RecordInit, FreshRecord, RecordPage
<1>3. issued \in [games : SUBSET Games, requests : 0 .. MaxAttempts] /\ ToldType
  BY WebAssumption DEF Init, RecordInit, ToldType
<1>4. RecordTypeOK
  BY <1>2, <1>3 DEF RecordTypeOK, RecordPage, State, Attempt, RecordReading
<1> QED
  BY <1>1, <1>2, <1>3, <1>4 DEF TypeInv, LastWasEntered, Init

LEMMA TypeStep ==
    ASSUME TypeInv, ServerInv, Next PROVE TypeInv'
<1>1. WebServerTypeOK'
  <2>1. WebServerTypeOK /\ ServerMoves /\ acked' = acked /\ UnderWay \subseteq Change
    BY ServerStep, UnderWayType DEF TypeInv, ServerInv
  <2>2. /\ games' \in [Games -> ServerRow \cup {Absent}] /\ clock' \in Nat
        /\ past' \subseteq VersionedRow
    <3>1. CASE Unstored
      BY <2>1, <3>1, ServerFacts DEF Unstored
    <3>2. CASE \E c \in Change : Stores(c)
      BY <2>1, <3>2, StoresType
    <3> QED
      BY <2>1, <3>1, <3>2 DEF ServerMoves, OtherStores
  <2>3. receipts' \in [1 .. MaxAttempts -> Receipt \cup {Absent}]
    <3>1. receipts \in [1 .. MaxAttempts -> Receipt \cup {Absent}] /\ clock \in Nat
      BY <2>1, ServerFacts DEF WebServerTypeOK
    <3>2. ASSUME NEW c \in Change, Receipted(c)
          PROVE  receipts' \in [1 .. MaxAttempts -> Receipt \cup {Absent}]
      <4>1. ReceiptOf(c) \in Receipt
        BY <3>1 DEF ReceiptOf, Receipt, Change
      <4> QED
        BY <3>1, <3>2, <4>1 DEF Receipted
    <3> QED
      BY <2>1, <3>1, <3>2 DEF ServerMoves, Unstored, OtherStores
  <2>4. active' \subseteq Definition
    BY <2>1 DEF ServerMoves, OtherStores, WebServerTypeOK
  <2>5. late' \subseteq Change
    <3>1. late' \subseteq late \cup UnderWay
      BY DEF Next, RecordClick, RecordTurn, RecordWriteArrives, DeliverRecordWrite,
             RecordWriteIsLost, RecordWriteLost, HistoryClick, HistoryTurn, HistoryWriteArrives,
             DeliverHistoryWrite, HistoryWriteIsLost, HistoryWriteLost, OpenRecord, OpenHistory,
             Leave, LeaveHistory, SessionChanges, LateWrite, DeliverLate, OtherClient,
             OtherWrite, Administrator, ManageModes, serverStays, webServerVars, UnderWay
    <3> QED
      BY <2>1, <3>1 DEF UnderWay
  <2> QED
    BY <2>1, <2>2, <2>3, <2>4, <2>5 DEF WebServerTypeOK, ServerTypeOK
<1>2. /\ rec' \in RecordPage /\ ToldType'
      /\ issued' \in [games : SUBSET Games, requests : 0 .. MaxAttempts]
  BY RecordTypes
<1>3. RecordTypeOK'
  BY <1>2, PageIsTyped
<1> QED
  BY <1>1, <1>2, <1>3, LastStep, HistoryTypes DEF TypeInv

-----------------------------------------------------------------------------
(* What the pages ask for.                                                 *)

\* A change of a game that exists asks for the version that was shown.
RevisionFits(c) ==
    c.op # "create" => c.expected = c.shown /\ c.expected # NoVersion /\ c.request = NoRequest

\* What is under way is as it was shown, and no answer gives version 0.
PagesInv ==
    /\ \A c \in UnderWay : RevisionFits(c)
    /\ rec.last # Absent => rec.last.version # NoVersion
    /\ rec.write # Absent /\ rec.write.answer.status = "applied" =>
          rec.write.answer.version # NoVersion
    /\ hist # Absent /\ hist.write # Absent => hist.write.change.op # "create"

RecordVersions ==
    /\ rec.last # Absent => rec.last.version # NoVersion
    /\ rec.write # Absent /\ rec.write.answer.status = "applied" =>
          rec.write.answer.version # NoVersion

\* The pages send at most this.
Sends(c) ==
    \/ \E a \in Attempt : c = Creation(a) /\ rec' = Sending([rec EXCEPT !.attempt = a], c)
    \/ rec.attempt = Absent /\ RevisionFits(c) /\ c.op # "create" /\ rec' = Sending(rec, c)

(* The record page sends a create for its attempt, or a delete of the last *)
(* game as it was shown.                                                   *)
LEMMA RecordSends ==
    ASSUME TypeInv, RecordVersions, Prepare \/ SaveAgain \/ Undo
    PROVE  \E c \in Change : Sends(c) /\ RevisionFits(c)
<1>1. rec \in RecordPage /\ issued \in [games : SUBSET Games, requests : 0 .. MaxAttempts]
  BY RecordPageType DEF TypeInv
<1>2. CASE Prepare
  <2>1. PICK g \in Games \ (issued.games \cup Foreign), p \in {q \in Payload : ~Deleted(q)} :
          LET a == [game |-> g, request |-> issued.requests + 1, payload |-> p]
          IN  rec' = Sending([rec EXCEPT !.attempt = a], Creation(a))
    BY <1>2 DEF Prepare
  <2> DEFINE a == [game |-> g, request |-> issued.requests + 1, payload |-> p]
  <2>2. a \in Attempt
    BY <1>1, <1>2, WebAssumption DEF Prepare, Attempt
  <2>3. rec' = Sending([rec EXCEPT !.attempt = a], Creation(a))
    BY <2>1
  <2> HIDE DEF a
  <2> QED
    BY <2>2, <2>3, CreationType DEF Sends, RevisionFits
<1>3. CASE SaveAgain
  <2>1. rec.attempt \in Attempt
    BY <1>1, <1>3 DEF SaveAgain, RecordPage
  <2>2. [rec EXCEPT !.attempt = rec.attempt] = rec
    BY <1>1 DEF RecordPage
  <2> QED
    BY <1>3, <2>1, <2>2, CreationType DEF SaveAgain, Sends, RevisionFits
<1>4. CASE Undo
  <2>1. rec.last.game \in Games /\ rec.last.version \in Nat /\ rec.last.version # NoVersion
    BY <1>1, <1>4 DEF Undo, RecordPage, RecordVersions
  <2>2. Payload # {}
    BY <1>4 DEF Undo, TypeInv, LastWasEntered
  <2> QED
    BY <1>4, <2>1, <2>2, DeletionType DEF Undo, Sends, RevisionFits
<1> QED
  BY <1>2, <1>3, <1>4

\* What an answer tells of a change that was handled.
AnsweredNow(c, a) ==
    /\ a \in Answered /\ a.status \in {"applied", "conflict", "rejected"}
    /\ a.status = "applied" => a.version # NoVersion

(* An answer that says applied gives a version.                            *)
LEMMA OutcomeTells ==
    ASSUME WebServerTypeOK, VersionsAreInClock, NEW c \in Change, Handle(c)
    PROVE  AnsweredNow(c, Outcome(c))
<1>1. clock + 1 # NoVersion
  BY ServerFacts
<1>2. Replayed(c) => receipts[c.request].version # NoVersion
  <2> SUFFICES ASSUME Replayed(c) PROVE receipts[c.request].version # NoVersion
    OBVIOUS
  <2>1. c.request \in 1 .. MaxAttempts
    BY WebAssumption DEF Replayed, Change
  <2>2. receipts[c.request] \in Receipt
    BY <2>1 DEF Replayed, WebServerTypeOK
  <2> QED
    BY <2>2 DEF Receipt
<1> QED
  BY <1>1, <1>2, OutcomeType DEF AnsweredNow

(* What is last, and what is asked for, keep fitting.                      *)
LEMMA PagesRecordStep ==
    ASSUME TypeInv, ServerInv, RecordVersions, Next
    PROVE  RecordVersions'
<1>1. rec \in RecordPage /\ WebServerTypeOK /\ VersionsAreInClock
  BY RecordPageType DEF TypeInv, ServerInv
<1>2. CASE Prepare \/ SaveAgain \/ Undo
  <2>1. PICK c \in Change : Sends(c) /\ RevisionFits(c)
    BY <1>2, RecordSends
  <2>2. CASE \E a \in Attempt : c = Creation(a) /\ rec' = Sending([rec EXCEPT !.attempt = a], c)
    <3>1. PICK a \in Attempt : c = Creation(a) /\ rec' = Sending([rec EXCEPT !.attempt = a], c)
      BY <2>2
    <3>2. /\ rec'.last = rec.last /\ rec'.write = [change |-> c, answer |-> NoAnswer]
      BY <1>1, <3>1 DEF Sending, RecordPage
    <3>4. rec'.write.change = c /\ rec'.write.answer.status = "none"
      BY <3>2 DEF NoAnswer
    <3> QED
      BY <3>2, <3>4 DEF RecordVersions
  <2>3. CASE rec.attempt = Absent /\ c.op # "create" /\ rec' = Sending(rec, c)
    <3>1. /\ rec'.last = rec.last
          /\ rec'.write = [change |-> c, answer |-> NoAnswer]
      BY <1>1, <2>3 DEF Sending, RecordPage
    <3>2. rec'.write.change = c /\ rec'.write.answer.status = "none"
      BY <3>1 DEF NoAnswer
    <3> QED
      BY <2>3, <3>1, <3>2 DEF RecordVersions
  <2> QED
    BY <2>1, <2>2, <2>3 DEF Sends
<1>3. CASE Visit \/ RefreshRecord \/ FillIn \/ SelectMode
  <2>1. rec'.last = rec.last /\ rec'.write = rec.write
    BY <1>1, <1>3 DEF Visit, Loading, RefreshRecord, FillIn, SelectMode, RecordPage
  <2> QED
    BY <2>1 DEF RecordVersions
<1>4. ASSUME NEW r \in rec.reads, AnswerRecordRead(r) \/ RecordReadFails(r) PROVE RecordVersions'
  <2>1. rec'.last = rec.last /\ rec'.write = rec.write
    BY <1>1, <1>4 DEF AnswerRecordRead, RecordReadFails, RecordPage
  <2> QED
    BY <2>1 DEF RecordVersions
<1>5. ASSUME NEW r \in rec.reads, RecordReadReturns(r) PROVE RecordVersions'
  <2>1. rec'.last = LastAfter(r) /\ rec'.write = rec.write
    BY <1>1, <1>5 DEF RecordReadReturns, RecordPage
  <2>2. r.answer \in State
    BY <1>1, <1>5 DEF RecordReadReturns, RecordPage, RecordReading
  <2>3. ASSUME ToUndo(r.answer) # Absent PROVE ToUndo(r.answer).version # NoVersion
    <3> DEFINE row == CHOOSE row \in r.answer.last : TRUE
    <3>1. r.answer.last # {}
      BY <2>3 DEF ToUndo
    <3>2. row \in VersionedRow
      BY <2>2, <3>1 DEF State
    <3>3. ToUndo(r.answer) = [game |-> row.game, version |-> row.version]
      BY <3>1 DEF ToUndo
    <3> HIDE DEF row
    <3>4. row.version # NoVersion
      BY <3>2 DEF VersionedRow
    <3> QED
      BY <3>3, <3>4
  <2>4. LastAfter(r) \in {rec.last, ToUndo(r.answer)}
    BY DEF LastAfter
  <2> QED
    BY <2>1, <2>3, <2>4 DEF RecordVersions
<1>6. CASE RecordWriteReturns
  <2>1. rec'.write = Absent
    BY <1>1, <1>6 DEF RecordWriteReturns, Saved, Refused, Undone, Confirmed, NotUndone, RecordPage
  <2>2. \/ rec'.last \in {rec.last, Absent}
        \/ /\ rec'.last = [game |-> rec.write.change.game, version |-> rec.write.answer.version]
           /\ rec.write.answer.status = "applied"
    BY <1>1, <1>6 DEF RecordWriteReturns, Saved, Refused, Undone, Confirmed, NotUndone, RecordPage
  <2>3. rec'.last # Absent => rec'.last.version # NoVersion
    <3>1. CASE rec'.last \in {rec.last, Absent}
      BY <3>1 DEF RecordVersions
    <3>2. CASE /\ rec'.last = [game |-> rec.write.change.game,
                               version |-> rec.write.answer.version]
               /\ rec.write.answer.status = "applied"
      <4>1. rec'.last.version = rec.write.answer.version
        BY <3>2
      <4> QED
        BY <1>6, <3>2, <4>1 DEF RecordVersions, RecordWriteReturns
    <3> QED
      BY <2>2, <3>1, <3>2
  <2> QED
    BY <2>1, <2>3 DEF RecordVersions
<1>7. CASE DeliverRecordWrite
  <2>1. rec.write.change \in Change /\ rec.write \in [change : Change, answer : Answered]
    BY <1>1, <1>7 DEF DeliverRecordWrite, RecordPage
  <2>2. AnsweredNow(rec.write.change, Outcome(rec.write.change))
    BY <1>1, <1>7, <2>1, OutcomeTells DEF DeliverRecordWrite
  <2>3. /\ rec'.last = rec.last
        /\ rec'.write.change = rec.write.change
        /\ rec'.write.answer = Outcome(rec.write.change)
    BY <1>1, <1>7, <2>1 DEF DeliverRecordWrite, RecordPage
  <2>4. rec.write # Absent
    BY <1>7 DEF DeliverRecordWrite
  <2> QED
    BY <2>2, <2>3, <2>4 DEF RecordVersions, AnsweredNow
<1>8. CASE RecordWriteLost
  <2>1. rec'.write = Absent /\ rec'.last \in {rec.last, Absent}
    BY <1>1, <1>8 DEF RecordWriteLost, NotUndone, RecordPage
  <2> QED
    BY <2>1 DEF RecordVersions
<1>9. CASE rec' = FreshRecord
  BY <1>9 DEF FreshRecord, RecordVersions
<1>10. CASE UNCHANGED rec
  BY <1>10 DEF RecordVersions
<1> QED
  BY <1>2, <1>3, <1>4, <1>5, <1>6, <1>7, <1>8, <1>9, <1>10, StepsOfRecord
     DEF RecordSteps, recordVars, Decided

(* What the history page asks for is a revision of a row it shows.         *)
LEMMA HistoryWriteStep ==
    ASSUME TypeInv, Next, hist' # Absent, hist'.write # Absent
    PROVE  \/ /\ hist # Absent /\ hist.write # Absent
              /\ hist'.write.change = hist.write.change
              /\ hist'.write.answer = NoAnswer => hist.write.answer = NoAnswer
           \/ RevisionFits(hist'.write.change) /\ hist'.write.change.op # "create"
<1>1. hist # Absent => hist \in HistoryState
  BY DEF TypeInv
<1>2. ASSUME hist # Absent, hist'.write = hist.write
      PROVE  /\ hist # Absent /\ hist.write # Absent
             /\ hist'.write.change = hist.write.change
             /\ hist'.write.answer = NoAnswer => hist.write.answer = NoAnswer
  BY <1>2
<1>3. CASE EnterHistory
  <2>1. hist'.write = Absent
    BY <1>3 DEF EnterHistory, Issue, FreshHistory
  <2> QED
    BY <2>1
<1>4. CASE hist # Absent /\ (RefreshHistory \/ LoadMore \/ CancelEdit)
  <2>1. hist'.write = hist.write
    BY <1>1, <1>4 DEF RefreshHistory, LoadMore, CancelEdit, Refreshing, Issue, Invalidated,
                      HistoryState
  <2> QED
    BY <1>2, <1>4, <2>1
<1>5. ASSUME hist # Absent, NEW c, hist' = Writing(c) PROVE hist'.write.change = c
  BY <1>1, <1>5, InvalidatedType DEF Writing, HistoryState
<1>6. CASE hist # Absent /\ SaveEdit
  <2>1. hist.editing \in VersionedRow
    BY <1>1, <1>6 DEF SaveEdit, HistoryState
  <2>2. CASE hist' = Invalidated(hist)
    <3>1. hist'.write = hist.write
      BY <1>1, <1>6, <2>2, InvalidatedType DEF HistoryState
    <3> QED
      BY <1>2, <1>6, <3>1
  <2>3. ASSUME NEW p \in Payload, hist' = Writing(Revision("update", hist.editing, p))
        PROVE  RevisionFits(hist'.write.change) /\ hist'.write.change.op # "create"
    <3>1. hist.editing.version # NoVersion
      BY <2>1 DEF VersionedRow
    <3> QED
      BY <1>5, <1>6, <2>1, <2>3, <3>1, RevisionType DEF RevisionFits
  <2> QED
    BY <1>6, <2>2, <2>3 DEF SaveEdit
<1>7. ASSUME hist # Absent, NEW row \in hist.rows, StartEdit(row)
      PROVE  hist'.write = hist.write
  BY <1>1, <1>7, InvalidatedType DEF StartEdit
<1>8. ASSUME hist # Absent, NEW row \in hist.rows, DeleteRow(row)
      PROVE  RevisionFits(hist'.write.change) /\ hist'.write.change.op # "create"
  <2>1. row \in VersionedRow /\ row.payload \in Payload /\ row.version # NoVersion
    BY <1>1, <1>8 DEF HistoryState, VersionedRow
  <2> QED
    BY <1>5, <1>8, <2>1, RevisionType DEF DeleteRow, RevisionFits
<1>9. ASSUME hist # Absent, NEW mode \in ModeIds \cup {AllModes}, SelectFilter(mode)
      PROVE  hist'.write = hist.write
  BY <1>1, <1>9 DEF SelectFilter, Issue, HistoryState
<1>10. ASSUME hist # Absent, NEW r \in hist.reads,
              AnswerHistoryRead(r) \/ HistoryReadReturns(r) \/ HistoryReadFails(r)
       PROVE  hist'.write = hist.write
  <2>1. CASE AnswerHistoryRead(r) \/ HistoryReadFails(r)
    BY <1>1, <1>10, <2>1 DEF AnswerHistoryRead, HistoryReadFails, HistoryState
  <2>2. CASE HistoryReadReturns(r)
    BY <1>1, <1>10, <2>2 DEF HistoryReadReturns, Shown, Extended, Refreshing, Issue, HistoryState
  <2> QED
    BY <1>10, <2>1, <2>2
<1>11. CASE hist # Absent /\ (HistoryWriteReturns \/ HistoryWriteLost)
  <2>1. hist'.write = Absent
    BY <1>1, <1>11 DEF HistoryWriteReturns, HistoryWriteLost, AfterWriting, Issue, HistoryState
  <2> QED
    BY <2>1
<1>12. CASE hist # Absent /\ DeliverHistoryWrite
  <2>1. hist'.write.change = hist.write.change
    BY <1>1, <1>12 DEF DeliverHistoryWrite, HistoryState
  <2> QED
    BY <1>12, <2>1 DEF DeliverHistoryWrite
<1>13. CASE UNCHANGED hist
  BY <1>13
<1> QED
  BY <1>2, <1>3, <1>4, <1>6, <1>7, <1>8, <1>9, <1>10, <1>11, <1>12, <1>13, StepsOfHistory
     DEF HistorySteps, HistoryReads

(* How the request of the record page goes on.                             *)
LEMMA RecordWriteStep ==
    ASSUME TypeInv, ServerInv, RecordVersions, Next, rec'.write # Absent
    PROVE  \/ rec'.write = rec.write
           \/ /\ DeliverRecordWrite /\ rec'.write.change = rec.write.change
              /\ rec'.write.answer = Outcome(rec.write.change)
           \/ \E c \in Change :
                 /\ RevisionFits(c) /\ rec'.write = [change |-> c, answer |-> NoAnswer]
                 /\ c.op = "create" /\ ~Prepare =>
                       rec.attempt # Absent /\ c = Creation(rec.attempt)
<1>1. rec \in RecordPage
  BY RecordPageType DEF TypeInv
<1>2. CASE Prepare
  <2>1. PICK c \in Change : Sends(c) /\ RevisionFits(c)
    BY <1>2, RecordSends
  <2>2. rec'.write = [change |-> c, answer |-> NoAnswer]
    BY <1>1, <2>1 DEF Sends, Sending, RecordPage
  <2> QED
    BY <1>2, <2>1, <2>2
<1>3. CASE SaveAgain
  <2>1. rec.attempt \in Attempt /\ rec.attempt # Absent
    BY <1>1, <1>3 DEF SaveAgain, RecordPage
  <2>2. Creation(rec.attempt) \in Change /\ RevisionFits(Creation(rec.attempt))
    BY <2>1, CreationType DEF RevisionFits
  <2>3. rec'.write = [change |-> Creation(rec.attempt), answer |-> NoAnswer]
    BY <1>1, <1>3 DEF SaveAgain, Sending, RecordPage
  <2> QED
    BY <2>1, <2>2, <2>3
<1>4. CASE Undo
  <2>1. PICK c \in Change : Sends(c) /\ RevisionFits(c)
    BY <1>4, RecordSends
  <2>2. rec'.write = [change |-> c, answer |-> NoAnswer]
    BY <1>1, <2>1 DEF Sends, Sending, RecordPage
  <2>3. rec'.write = [change |-> Deletion(rec.last.game, rec.last.version), answer |-> NoAnswer]
    BY <1>1, <1>4 DEF Undo, Sending, RecordPage
  <2>4. c.op = "delete"
    BY <2>2, <2>3 DEF Deletion
  <2> QED
    BY <2>1, <2>2, <2>4
<1>5. CASE Visit \/ RefreshRecord \/ FillIn \/ SelectMode
  <2>1. rec'.write = rec.write
    BY <1>1, <1>5 DEF Visit, Loading, RefreshRecord, FillIn, SelectMode, RecordPage
  <2> QED
    BY <2>1
<1>6. ASSUME NEW r \in rec.reads,
             AnswerRecordRead(r) \/ RecordReadFails(r) \/ RecordReadReturns(r)
      PROVE  rec'.write = rec.write
  BY <1>1, <1>6 DEF AnswerRecordRead, RecordReadFails, RecordReadReturns, RecordPage
<1>7. CASE RecordWriteReturns \/ RecordWriteLost
  <2>1. rec'.write = Absent
    BY <1>1, <1>7 DEF RecordWriteReturns, Saved, Refused, Undone, Confirmed, NotUndone,
                      RecordWriteLost, RecordPage
  <2> QED
    BY <2>1
<1>8. CASE DeliverRecordWrite
  <2>1. /\ rec'.write.change = rec.write.change
        /\ rec'.write.answer = Outcome(rec.write.change)
    BY <1>1, <1>8 DEF DeliverRecordWrite, RecordPage
  <2> QED
    BY <1>8, <2>1
<1>9. CASE rec' = FreshRecord
  BY <1>9 DEF FreshRecord
<1>10. CASE UNCHANGED rec
  BY <1>10
<1> QED
  BY <1>2, <1>3, <1>4, <1>5, <1>6, <1>7, <1>8, <1>9, <1>10, StepsOfRecord
     DEF RecordSteps, recordVars, Decided

(* What nobody waits for was under way.                                    *)
LEMMA LateStep == ASSUME Next PROVE late' \subseteq UnderWay
BY DEF Next, RecordClick, RecordTurn, RecordWriteArrives, DeliverRecordWrite,
       RecordWriteIsLost, RecordWriteLost, HistoryClick, HistoryTurn, HistoryWriteArrives,
       DeliverHistoryWrite, HistoryWriteIsLost, HistoryWriteLost, OpenRecord, OpenHistory,
       Leave, LeaveHistory, SessionChanges, LateWrite, DeliverLate, OtherClient,
       OtherWrite, Administrator, ManageModes, serverStays, webServerVars, UnderWay

(* Every step keeps what the pages sent and show.                          *)
LEMMA PagesStep ==
    ASSUME TypeInv, ServerInv, PagesInv, Next PROVE PagesInv'
<1>1. RecordVersions
  BY DEF PagesInv, RecordVersions
<1>2. RecordVersions'
  BY <1>1, PagesRecordStep
<1>3. ASSUME NEW c \in UnderWay' PROVE RevisionFits(c)
  <2>1. CASE c \in late'
    BY <2>1, LateStep DEF PagesInv
  <2>2. CASE c \in Unanswered(rec.write)'
    <3>1. rec'.write # Absent /\ rec'.write.answer = NoAnswer /\ c = rec'.write.change
      BY <2>2 DEF Unanswered
    <3>2. CASE rec'.write = rec.write
      <4>1. c \in UnderWay
        BY <3>1, <3>2 DEF UnderWay, Unanswered
      <4> QED
        BY <4>1 DEF PagesInv
    <3>3. CASE DeliverRecordWrite
      <4>1. rec.write.change \in UnderWay
        BY <3>3 DEF DeliverRecordWrite, UnderWay, Unanswered
      <4>2. rec'.write.change = rec.write.change
        BY <3>3, RecordPageType DEF TypeInv, DeliverRecordWrite, RecordPage
      <4> QED
        BY <3>1, <4>1, <4>2 DEF PagesInv
    <3>4. ASSUME NEW d \in Change, RevisionFits(d), rec'.write = [change |-> d, answer |-> NoAnswer]
          PROVE  RevisionFits(c)
      <4>1. c = d
        BY <3>1, <3>4
      <4> QED
        BY <3>4, <4>1
    <3> QED
      BY <1>1, <3>1, <3>2, <3>3, <3>4, RecordWriteStep
  <2>3. CASE hist' # Absent /\ c \in Forsaken(hist.write)'
    <3>1. /\ hist' # Absent /\ hist'.write # Absent /\ hist'.write.answer = NoAnswer
          /\ c = hist'.write.change
      BY <2>3 DEF Forsaken
    <3>2. CASE /\ hist # Absent /\ hist.write # Absent
               /\ hist'.write.change = hist.write.change
               /\ hist'.write.answer = NoAnswer => hist.write.answer = NoAnswer
      <4>1. c \in UnderWay
        BY <3>1, <3>2 DEF UnderWay, Forsaken
      <4> QED
        BY <4>1 DEF PagesInv
    <3> QED
      BY <3>1, <3>2, HistoryWriteStep
  <2> QED
    BY <1>3, <2>1, <2>2, <2>3 DEF UnderWay
<1>4. hist' # Absent /\ hist'.write # Absent => hist'.write.change.op # "create"
  BY HistoryWriteStep DEF PagesInv
<1> QED
  BY <1>2, <1>3, <1>4 DEF PagesInv, RecordVersions

LEMMA PagesInit == Init => PagesInv
BY DEF Init, WebServerInit, RecordInit, FreshRecord, PagesInv, UnderWay, Unanswered

-----------------------------------------------------------------------------
(* The revisions.                                                          *)

(* Only a change that is stored writes, and it is the one that leaves what *)
(* is under way.                                                           *)
LEMMA RevisionStep ==
    ASSUME TypeInv, ServerInv, PagesInv, Next,
           NEW c \in UnderWay, c \notin UnderWay', c.op # "create",
           games'[c.game] # games[c.game]
    PROVE  games[c.game].version = c.shown
<1>1. WebServerTypeOK /\ VersionsAreInClock /\ UnderWay \subseteq Change
  BY UnderWayType DEF TypeInv, ServerInv
<1>2. ASSUME Handle(c) PROVE games[c.game].version = c.shown
  <2>1. c \in Change /\ RevisionFits(c)
    BY <1>1 DEF PagesInv
  <2>2. Unstored \/ Stores(c)
    BY <1>1, <1>2, <2>1, Handled
  <2>3. Accepts(c)
    BY <2>2 DEF Unstored, Stores
  <2> QED
    BY <2>1, <2>3 DEF Accepts, RevisionFits
<1>3. CASE RecordWriteArrives
  <2>1. UnderWay \ UnderWay' \subseteq {rec.write.change}
    BY <1>3 DEF RecordWriteArrives, DeliverRecordWrite, historyStays, UnderWay, Unanswered, Forsaken
  <2> QED
    BY <1>2, <1>3, <2>1 DEF RecordWriteArrives, DeliverRecordWrite
<1>4. CASE HistoryWriteArrives
  <2>1. UnderWay \ UnderWay' \subseteq {hist.write.change}
    BY <1>4 DEF HistoryWriteArrives, DeliverHistoryWrite, recordStays, recordVars, UnderWay,
                Unanswered, Forsaken
  <2> QED
    BY <1>2, <1>4, <2>1 DEF HistoryWriteArrives, DeliverHistoryWrite
<1>5. CASE LateWrite
  <2>1. PICK d \in late : DeliverLate(d)
    BY <1>5 DEF LateWrite
  <2>2. UnderWay \ UnderWay' \subseteq {d}
    BY <1>5, <2>1 DEF LateWrite, DeliverLate, recordStays, recordVars, historyStays, UnderWay,
                      Unanswered, Forsaken
  <2> QED
    BY <1>2, <2>1, <2>2 DEF DeliverLate
<1>6. CASE OtherClient
  <2>1. UnderWay' = UnderWay
    BY <1>6 DEF OtherClient, OtherWrite, historyStays, UnderWay, Unanswered, Forsaken
  <2> QED
    BY <2>1
<1>7. CASE UNCHANGED games
  BY <1>7
<1> QED
  BY <1>3, <1>4, <1>5, <1>6, <1>7
     DEF Next, RecordClick, RecordTurn, RecordWriteIsLost, RecordWriteLost, HistoryClick,
         HistoryTurn, HistoryWriteIsLost, HistoryWriteLost, OpenRecord, OpenHistory, Leave,
         LeaveHistory, SessionChanges, Administrator, ManageModes, serverStays, webServerVars

-----------------------------------------------------------------------------
(* Creations and their receipts.                                           *)

\* The creations the record page knows of.
Attempted ==
    (IF rec.attempt = Absent THEN {} ELSE {Creation(rec.attempt)})
    \cup (IF rec.write # Absent /\ rec.write.change.op = "create" THEN {rec.write.change} ELSE {})

\* With those on their way.
Creations == {c \in late : c.op = "create"} \cup Attempted

\* A creation has ids of its own, and its game is there only with its receipt.
CreationFits(c) ==
    /\ c.request \in 1 .. issued.requests /\ c.game \in issued.games \ Foreign
    /\ receipts[c.request] # Absent =>
          receipts[c.request].game = c.game /\ receipts[c.request].payload = c.payload
    /\ games[c.game] # Absent => receipts[c.request] # Absent

\* A receipt was given to a request, for a game that was stored.
ReceiptFits(n) ==
    receipts[n] # Absent =>
        /\ n <= issued.requests /\ receipts[n].version <= clock
        /\ \E p \in past : p.game = receipts[n].game

CreationsInv ==
    /\ \A c \in Creations : CreationFits(c)
    /\ \A c, d \in Creations : c.request = d.request \/ c.game = d.game => c = d
    /\ \A n \in 1 .. MaxAttempts : ReceiptFits(n)
    /\ \A g \in Games : games[g] # Absent => g \in issued.games

\* A new form gets ids that were never used.
Prepared(a) ==
    /\ a \in Attempt /\ a.game \notin issued.games \cup Foreign
    /\ a.request = issued.requests + 1
    /\ issued'.games = issued.games \cup {a.game} /\ issued'.requests = a.request
    /\ Attempted' \subseteq Attempted \cup {Creation(a)}
    /\ Creations' \subseteq Creations \cup {Creation(a)}
    /\ Unstored /\ active' = active /\ told' = told

(* Creations are changes.                                                  *)
LEMMA CreationsType ==
    ASSUME TypeInv, NEW c \in Creations
    PROVE  c \in Change /\ c.op = "create"
<1>1. rec \in RecordPage /\ late \subseteq Change
  BY RecordPageType DEF TypeInv, WebServerTypeOK
<1>2. CASE c \in late /\ c.op = "create"
  BY <1>1, <1>2
<1>3. CASE rec.attempt # Absent /\ c = Creation(rec.attempt)
  BY <1>1, <1>3, CreationType DEF RecordPage
<1>4. CASE rec.write # Absent /\ rec.write.change.op = "create" /\ c = rec.write.change
  BY <1>1, <1>4 DEF RecordPage
<1> QED
  BY <1>2, <1>3, <1>4 DEF Creations, Attempted

(* A creation under way is one of them.                                    *)
LEMMA UnderWayCreations ==
    ASSUME PagesInv, NEW c \in UnderWay, c.op = "create" PROVE c \in Creations
BY DEF PagesInv, UnderWay, Unanswered, Forsaken, Creations, Attempted

(* Only a new form brings a new creation.                                  *)
LEMMA CreationsStep ==
    ASSUME TypeInv, ServerInv, PagesInv, Next
    PROVE  \/ /\ Creations' \subseteq Creations /\ Attempted' \subseteq Attempted
              /\ issued'.requests = issued.requests /\ issued.games \subseteq issued'.games
           \/ \E a \in Attempt : Prepared(a)
<1>1. /\ rec \in RecordPage /\ RecordVersions
      /\ issued \in [games : SUBSET Games, requests : 0 .. MaxAttempts]
  BY RecordPageType DEF TypeInv, PagesInv, RecordVersions
<1>2. \A c \in late' : c.op = "create" => c \in Creations
  BY LateStep, UnderWayCreations
<1>3. CASE Prepare
  <2>1. PICK g \in Games \ (issued.games \cup Foreign), p \in {q \in Payload : ~Deleted(q)} :
          LET a == [game |-> g, request |-> issued.requests + 1, payload |-> p]
          IN  /\ issued' = [games |-> issued.games \cup {g}, requests |-> a.request]
              /\ rec' = Sending([rec EXCEPT !.attempt = a], Creation(a))
    BY <1>3 DEF Prepare
  <2> DEFINE a == [game |-> g, request |-> issued.requests + 1, payload |-> p]
  <2>2. /\ a \in Attempt /\ a.game = g /\ a.request = issued.requests + 1
        /\ a.game \notin issued.games \cup Foreign
    BY <1>1, <1>3, WebAssumption DEF Prepare, Attempt
  <2>3. /\ issued' = [games |-> issued.games \cup {g}, requests |-> a.request]
        /\ rec' = Sending([rec EXCEPT !.attempt = a], Creation(a))
    BY <2>1
  <2> HIDE DEF a
  <2>4. rec'.attempt = a /\ rec'.write = [change |-> Creation(a), answer |-> NoAnswer]
    BY <1>1, <2>3 DEF Sending, RecordPage
  <2>5. /\ Attempted' \subseteq Attempted \cup {Creation(a)}
        /\ Creations' \subseteq Creations \cup {Creation(a)}
    BY <1>2, <2>4 DEF Creations, Attempted
  <2>6. RecordClick
    <3> SUFFICES ASSUME ~RecordClick PROVE issued'.requests = issued.requests
      BY <1>1, <2>3, <2>2
    <3>1. CASE OtherClient
      BY <1>1, <3>1 DEF OtherClient
    <3>2. CASE UNCHANGED issued
      BY <3>2
    <3> QED
      BY <3>1, <3>2
         DEF Next, RecordTurn, RecordWriteArrives, RecordWriteIsLost, HistoryClick, HistoryTurn,
             HistoryWriteArrives, HistoryWriteIsLost, OpenRecord, OpenHistory, Leave,
             SessionChanges, LateWrite, Administrator, recordStays, recordVars, Visit,
             AnswerRecordRead, RecordReadReturns, RecordReadFails, RecordWriteReturns,
             DeliverRecordWrite, RecordWriteLost
  <2>7. Unstored /\ active' = active /\ told' = told
    BY <1>3, <2>6 DEF RecordClick, serverStays, webServerVars, Unstored, Prepare
  <2> QED
    BY <2>2, <2>3, <2>5, <2>7 DEF Prepared
<1>4. CASE ~Prepare
  <2>1. rec'.attempt \in {rec.attempt, Absent}
    <3>1. CASE Visit \/ RefreshRecord \/ FillIn \/ SelectMode \/ SaveAgain \/ Undo
      BY <1>1, <3>1 DEF Visit, Loading, RefreshRecord, FillIn, SelectMode, SaveAgain, Undo,
                        Sending, RecordPage
    <3>2. ASSUME NEW r \in rec.reads,
                 AnswerRecordRead(r) \/ RecordReadReturns(r) \/ RecordReadFails(r)
          PROVE  rec'.attempt = rec.attempt
      BY <1>1, <3>2 DEF AnswerRecordRead, RecordReadReturns, RecordReadFails, RecordPage
    <3>3. CASE RecordWriteReturns \/ DeliverRecordWrite \/ RecordWriteLost
      BY <1>1, <3>3 DEF RecordWriteReturns, DeliverRecordWrite, RecordWriteLost, Saved, Refused,
                        Undone, Confirmed, NotUndone, RecordPage
    <3>4. CASE rec' = FreshRecord \/ UNCHANGED rec
      BY <3>4 DEF FreshRecord
    <3> QED
      BY <1>4, <3>1, <3>2, <3>3, <3>4, StepsOfRecord DEF RecordSteps, recordVars, Decided
  <2>2. ASSUME rec'.write # Absent, rec'.write.change.op = "create"
        PROVE  rec'.write.change \in Attempted
    <3>1. CASE rec'.write = rec.write
      BY <2>2, <3>1 DEF Attempted
    <3>2. CASE DeliverRecordWrite /\ rec'.write.change = rec.write.change
      BY <2>2, <3>2 DEF Attempted, DeliverRecordWrite
    <3>3. ASSUME NEW c \in Change, rec'.write = [change |-> c, answer |-> NoAnswer],
                 c.op = "create" => rec.attempt # Absent /\ c = Creation(rec.attempt)
          PROVE  rec'.write.change \in Attempted
      <4>1. rec'.write.change = c
        BY <3>3
      <4> QED
        BY <2>2, <3>3, <4>1 DEF Attempted
    <3> QED
      BY <1>1, <1>4, <2>2, <3>1, <3>2, <3>3, RecordWriteStep
  <2>3. Creations' \subseteq Creations /\ Attempted' \subseteq Attempted
    BY <1>2, <2>1, <2>2 DEF Creations, Attempted
  <2>4. issued'.requests = issued.requests /\ issued.games \subseteq issued'.games
    <3>1. CASE OtherClient
      BY <1>1, <3>1 DEF OtherClient
    <3>2. CASE UNCHANGED issued
      BY <3>2
    <3> QED
      BY <1>4, <3>1, <3>2, StepsOfRecord
         DEF RecordSteps, recordVars, Visit, RefreshRecord, FillIn, SelectMode, SaveAgain, Undo,
             AnswerRecordRead, RecordReadReturns, RecordReadFails, RecordWriteReturns,
             DeliverRecordWrite, RecordWriteLost, Decided
  <2> QED
    BY <2>3, <2>4
<1> QED
  BY <1>3, <1>4

(* What a change that is stored means to the creations: it is one of them, *)
(* with a receipt, or a revision of a game that is there.                  *)
LEMMA StoredIs ==
    ASSUME TypeInv, PagesInv, CreationsInv, NEW d \in UnderWay, Stores(d), Receipted(d)
    PROVE  \/ /\ d \in Creations /\ games[d.game] = Absent
              /\ receipts' = [receipts EXCEPT ![d.request] = ReceiptOf(d)]
              /\ d.request \in 1 .. MaxAttempts
           \/ games[d.game] # Absent /\ receipts' = receipts
<1>1. d \in Change
  BY UnderWayType
<1>2. CASE d.op = "create"
  <2>1. d \in Creations
    BY <1>2, UnderWayCreations
  <2>2. d.request \in 1 .. issued.requests
    BY <2>1 DEF CreationsInv, CreationFits
  <2>3. d.request \in 1 .. MaxAttempts /\ d.request # NoRequest
    BY <2>2, WebAssumption DEF TypeInv
  <2> QED
    BY <1>2, <2>1, <2>3 DEF Stores, Accepts, Receipted
<1>3. CASE d.op # "create"
  BY <1>3 DEF PagesInv, RevisionFits, Stores, Accepts, Receipted
<1> QED
  BY <1>2, <1>3

\* What a stored change leaves alone.
Untouched(c) == games'[c.game] = games[c.game] /\ receipts'[c.request] = receipts[c.request]

(* The server leaves a creation alone, stores it with a receipt, or        *)
(* changes its game, which is there.                                       *)
LEMMA CreationMeetsServer ==
    ASSUME TypeInv, ServerInv, PagesInv, CreationsInv, Next, NEW c \in Creations
    PROVE  \/ Untouched(c)
           \/ /\ games[c.game] # Absent /\ receipts'[c.request] = receipts[c.request]
           \/ /\ c \in UnderWay
              /\ receipts'[c.request] = ReceiptOf(c) /\ ~Invalid(c) /\ ~Replayed(c)
              /\ games[c.game] = Absent
<1>1. /\ WebServerTypeOK /\ ServerMoves /\ c \in Change /\ CreationFits(c)
      /\ UnderWay \subseteq Change
      /\ receipts \in [1 .. MaxAttempts -> Receipt \cup {Absent}]
      /\ c.request \in 1 .. MaxAttempts
  <2>1. issued.requests \in 0 .. MaxAttempts /\ CreationFits(c)
    BY DEF TypeInv, CreationsInv
  <2>2. c.request \in 1 .. MaxAttempts
    BY <2>1, WebAssumption DEF CreationFits
  <2> QED
    BY <2>1, <2>2, ServerStep, CreationsType, UnderWayType
       DEF TypeInv, ServerInv, WebServerTypeOK
<1>2. CASE Unstored
  BY <1>2 DEF Unstored, Untouched
<1>3. ASSUME NEW d \in UnderWay, Stores(d), ~Invalid(d), ~Replayed(d), Receipted(d)
      PROVE  \/ Untouched(c)
             \/ games[c.game] # Absent /\ receipts'[c.request] = receipts[c.request]
             \/ /\ c \in UnderWay
                /\ receipts'[c.request] = ReceiptOf(c) /\ ~Invalid(c) /\ ~Replayed(c)
                /\ games[c.game] = Absent
  <2>1. d \in Change /\ \A g \in Games \ {d.game} : games'[g] = games[g]
    BY <1>1, <1>3, StoresOne
  <2>2. CASE /\ d \in Creations /\ games[d.game] = Absent
             /\ receipts' = [receipts EXCEPT ![d.request] = ReceiptOf(d)]
             /\ d.request \in 1 .. MaxAttempts
    <3>1. CASE d = c
      BY <1>1, <1>3, <2>2, <3>1
    <3>2. CASE d # c
      <4>1. d.request # c.request /\ d.game # c.game /\ c.game \in Games
        BY <1>1, <2>2, <3>2 DEF CreationsInv, Change
      <4> QED
        BY <1>1, <2>1, <2>2, <4>1 DEF Untouched
    <3> QED
      BY <3>1, <3>2
  <2>3. CASE games[d.game] # Absent /\ receipts' = receipts
    <3>1. CASE d.game = c.game
      BY <2>3, <3>1
    <3>2. CASE d.game # c.game
      <4>1. c.game \in Games
        BY <1>1 DEF Change
      <4> QED
        BY <2>1, <2>3, <3>2, <4>1 DEF Untouched
    <3> QED
      BY <3>1, <3>2
  <2> QED
    BY <1>3, <2>2, <2>3, StoredIs
<1>4. ASSUME NEW d \in Change, OtherStores(d)
      PROVE  \/ Untouched(c)
             \/ games[c.game] # Absent /\ receipts'[c.request] = receipts[c.request]
  <2>1. receipts' = receipts /\ \A g \in Games \ {d.game} : games'[g] = games[g]
    BY <1>1, <1>4, StoresOne DEF OtherStores
  <2>2. CASE d.game = c.game
    BY <1>1, <1>4, <2>1, <2>2 DEF OtherStores, CreationFits
  <2>3. CASE d.game # c.game
    <3>1. c.game \in Games
      BY <1>1 DEF Change
    <3> QED
      BY <2>1, <2>3, <3>1 DEF Untouched
  <2> QED
    BY <2>2, <2>3
<1> QED
  BY <1>1, <1>2, <1>3, <1>4 DEF ServerMoves

(* A game that comes to be was issued, and stays.                          *)
LEMMA GamesAreIssued ==
    ASSUME TypeInv, ServerInv, PagesInv, CreationsInv, Next,
           NEW g \in Games, games'[g] # Absent
    PROVE  g \in issued'.games
<1>1. /\ WebServerTypeOK /\ ServerMoves /\ UnderWay \subseteq Change
      /\ issued.games \subseteq issued'.games
      /\ issued \in [games : SUBSET Games, requests : 0 .. MaxAttempts]
  BY ServerStep, UnderWayType, CreationsStep DEF TypeInv, ServerInv, Prepared
<1>2. CASE games[g] # Absent
  BY <1>1, <1>2 DEF CreationsInv
<1>3. CASE games[g] = Absent
  <2>1. ASSUME NEW d \in UnderWay, Stores(d), Receipted(d) PROVE g \in issued'.games
    <3>1. g = d.game
      BY <1>1, <1>3, <2>1, StoresOne
    <3>2. d \in Creations
      BY <1>3, <2>1, <3>1, StoredIs
    <3> QED
      BY <1>1, <3>1, <3>2 DEF CreationsInv, CreationFits
  <2>2. ASSUME NEW d \in Change, OtherStores(d) PROVE g \in issued'.games
    <3>1. g = d.game
      BY <1>1, <1>3, <2>2, StoresOne DEF OtherStores
    <3> QED
      BY <1>1, <1>3, <2>2, <3>1 DEF OtherStores
  <2> QED
    BY <1>1, <1>3, <2>1, <2>2 DEF ServerMoves, Unstored
<1> QED
  BY <1>2, <1>3

(* What was stored stays in the past, and the clock goes on.               *)
LEMMA PastGrows ==
    ASSUME TypeInv, ServerInv, Next
    PROVE  /\ past \subseteq past' /\ clock \in Nat /\ clock' \in Nat /\ clock <= clock'
           /\ \A p \in past' \ past : p.version = clock + 1 /\ clock' = clock + 1
<1>1. WebServerTypeOK /\ ServerMoves /\ clock \in Nat
  BY ServerStep, ServerFacts DEF TypeInv, ServerInv
<1>2. CASE Unstored
  BY <1>1, <1>2 DEF Unstored
<1>3. CASE \E d : Stores(d)
  BY <1>1, <1>3 DEF Stores, StoredRow
<1> QED
  BY <1>1, <1>2, <1>3 DEF ServerMoves, OtherStores

(* Every step keeps the receipts true.                                     *)
LEMMA ReceiptsStep ==
    ASSUME TypeInv, ServerInv, PagesInv, CreationsInv, Next, NEW n \in 1 .. MaxAttempts
    PROVE  ReceiptFits(n)'
<1>1. /\ WebServerTypeOK /\ ServerMoves /\ UnderWay \subseteq Change
      /\ receipts \in [1 .. MaxAttempts -> Receipt \cup {Absent}]
      /\ issued.requests \in Nat /\ issued'.requests \in Nat
      /\ issued.requests <= issued'.requests
  <2>1. issued.requests \in Nat
    BY WebAssumption DEF TypeInv
  <2>2. issued'.requests \in Nat /\ issued.requests <= issued'.requests
    BY <2>1, CreationsStep DEF Prepared
  <2> QED
    BY <2>1, <2>2, ServerStep, UnderWayType DEF TypeInv, ServerInv, WebServerTypeOK
<1>2. /\ past \subseteq past' /\ clock \in Nat /\ clock' \in Nat /\ clock <= clock'
  BY PastGrows
<1>3. ASSUME receipts'[n] = receipts[n] PROVE ReceiptFits(n)'
  <2> SUFFICES ASSUME receipts[n] # Absent
               PROVE  /\ n <= issued'.requests /\ receipts[n].version <= clock'
                      /\ \E p \in past' : p.game = receipts[n].game
    BY <1>3 DEF ReceiptFits
  <2>1. /\ n <= issued.requests /\ receipts[n].version <= clock
        /\ \E p \in past : p.game = receipts[n].game
    BY DEF CreationsInv, ReceiptFits
  <2>2. receipts[n].version \in Nat
    BY <1>1 DEF Receipt
  <2> QED
    BY <1>1, <1>2, <2>1, <2>2
<1>4. ASSUME NEW d \in UnderWay, Stores(d), Receipted(d), receipts'[n] # receipts[n]
      PROVE  ReceiptFits(n)'
  <2>1. /\ d \in Creations /\ d.request \in 1 .. MaxAttempts
        /\ receipts' = [receipts EXCEPT ![d.request] = ReceiptOf(d)]
    BY <1>4, StoredIs
  <2>2. n = d.request /\ receipts'[n] = ReceiptOf(d)
    BY <1>1, <1>4, <2>1
  <2>3. receipts'[n].game = d.game /\ receipts'[n].version = clock + 1
    BY <2>2 DEF ReceiptOf
  <2>4. n <= issued'.requests
    BY <1>1, <2>1, <2>2 DEF CreationsInv, CreationFits
  <2>5. clock' = clock + 1 /\ \E p \in past' : p.game = d.game
    <3>1. StoredRow(d.game, Written(d), clock + 1) \in past' /\ clock' = clock + 1
      BY <1>4 DEF Stores
    <3>2. StoredRow(d.game, Written(d), clock + 1).game = d.game
      BY DEF StoredRow
    <3> QED
      BY <3>1, <3>2
  <2> QED
    BY <1>2, <2>3, <2>4, <2>5 DEF ReceiptFits
<1> QED
  BY <1>1, <1>3, <1>4 DEF ServerMoves, Unstored, OtherStores

(* Creations keep ids of their own, and their games come with receipts.    *)
LEMMA CreationsInvStep ==
    ASSUME TypeInv, ServerInv, PagesInv, CreationsInv, Next PROVE CreationsInv'
<1>1. issued.requests \in Nat
  BY WebAssumption DEF TypeInv
<1>2. (\A n \in 1 .. MaxAttempts : ReceiptFits(n))'
  BY ReceiptsStep
<1>3. (\A g \in Games : games[g] # Absent => g \in issued.games)'
  BY GamesAreIssued
<1>4. ASSUME NEW c \in Creations,
             issued.games \subseteq issued'.games, issued'.requests \in Nat,
             issued.requests <= issued'.requests
      PROVE  CreationFits(c)'
  <2>1. CreationFits(c)
    BY DEF CreationsInv
  <2>2. c.request \in 1 .. issued'.requests /\ c.game \in issued'.games \ Foreign
    BY <1>1, <1>4, <2>1 DEF CreationFits
  <2>3. CASE Untouched(c)
    BY <2>1, <2>2, <2>3 DEF CreationFits, Untouched
  <2>4. CASE games[c.game] # Absent /\ receipts'[c.request] = receipts[c.request]
    BY <2>1, <2>2, <2>4 DEF CreationFits
  <2>5. CASE receipts'[c.request] = ReceiptOf(c)
    <3>1. /\ receipts'[c.request].game = c.game /\ receipts'[c.request].payload = c.payload
      BY <2>5 DEF ReceiptOf
    <3>2. ReceiptOf(c) # Absent
      <4>1. ReceiptOf(c) \in Receipt
        BY CreationsType, ServerFacts DEF TypeInv, ReceiptOf, Receipt, Change
      <4> QED
        BY <4>1, ReceiptAssumption
    <3> QED
      BY <2>2, <2>5, <3>1, <3>2 DEF CreationFits
  <2> QED
    BY <2>3, <2>4, <2>5, CreationMeetsServer
<1>5. CASE /\ Creations' \subseteq Creations
           /\ issued'.requests = issued.requests /\ issued.games \subseteq issued'.games
  <2>1. (\A c \in Creations : CreationFits(c))'
    BY <1>1, <1>4, <1>5
  <2>2. (\A c, d \in Creations : c.request = d.request \/ c.game = d.game => c = d)'
    BY <1>5 DEF CreationsInv
  <2> QED
    BY <1>2, <1>3, <2>1, <2>2 DEF CreationsInv
<1>6. ASSUME NEW a \in Attempt, Prepared(a) PROVE CreationsInv'
  <2> DEFINE k == Creation(a)
  <2>1. /\ k.game = a.game /\ k.request = a.request
        /\ issued'.requests = issued.requests + 1 /\ a.request = issued.requests + 1
        /\ issued'.games = issued.games \cup {a.game} /\ Creations' \subseteq Creations \cup {k}
        /\ a.game \notin issued.games \cup Foreign /\ a.game \in Games
        /\ a.request \in 1 .. MaxAttempts
    BY <1>6, CreationType DEF Prepared, Attempt
  <2> HIDE DEF k
  <2>2. ASSUME NEW c \in Creations PROVE c.request # k.request /\ c.game # k.game
    BY <1>1, <2>1 DEF CreationsInv, CreationFits
  <2>3. CreationFits(k)'
    <3>1. receipts[a.request] = Absent
      BY <1>1, <2>1 DEF CreationsInv, ReceiptFits
    <3>2. games[a.game] = Absent
      BY <2>1 DEF CreationsInv
    <3>3. receipts' = receipts /\ games' = games
      BY <1>6 DEF Prepared, Unstored
    <3> QED
      BY <1>1, <2>1, <3>1, <3>2, <3>3 DEF CreationFits
  <2>4. (\A c \in Creations : CreationFits(c))'
    <3>1. /\ issued.games \subseteq issued'.games /\ issued'.requests \in Nat
          /\ issued.requests <= issued'.requests
      BY <1>1, <2>1
    <3> QED
      BY <1>4, <2>1, <2>3, <3>1
  <2>5. (\A c, d \in Creations : c.request = d.request \/ c.game = d.game => c = d)'
    BY <2>1, <2>2 DEF CreationsInv
  <2> QED
    BY <1>2, <1>3, <2>4, <2>5 DEF CreationsInv
<1> QED
  BY <1>5, <1>6, CreationsStep

(* Nothing is created at first.                                            *)
LEMMA CreationsInit == Init => CreationsInv
<1> SUFFICES ASSUME Init PROVE CreationsInv
  OBVIOUS
<1>1. Creations = {}
  BY DEF Init, WebServerInit, RecordInit, FreshRecord, Creations, Attempted
<1>2. \A n \in 1 .. MaxAttempts : receipts[n] = Absent
  BY DEF Init, WebServerInit
<1>3. \A g \in Games : games[g] # Absent => g \in issued.games
  BY DEF Init, WebServerInit, RecordInit
<1> QED
  BY <1>1, <1>2, <1>3 DEF CreationsInv, ReceiptFits

-----------------------------------------------------------------------------
(* What the user is told.                                                  *)

\* A creation that is not carried out, and will not be as the modes are: no page
\* sends it any more, and a copy on its way is not admitted.
Dead(c) ==
    /\ games[c.game] = Absent /\ receipts[c.request] = Absent
    /\ c \in late => ~Admitted(active, c.payload)

\* A game that was refused is given up by the page, and if its mode has not come
\* back while a copy was on its way, then it is not there and no copy stores it.
RefusedGame(g) ==
    /\ g \in issued.games
    /\ \A c \in Attempted : c.game # g
    /\ g \notin told.reopened =>
          games[g] = Absent /\ \A c \in Creations : c.game = g => Dead(c)

\* An answer tells what became of its change.
AnswerFits(w) ==
    /\ w.answer.status = "applied" => w.answer.version <= clock
    /\ w.change.op = "create" /\ w.answer # NoAnswer =>
          IF w.answer.status = "applied" THEN \E p \in past : p.game = w.change.game
          ELSE w.change.game \notin told.reopened => Dead(w.change)

\* What the user was told is so, and what the page is about to hear is, too.
ToldInv ==
    /\ \A g \in told.saved : \E p \in past : p.game = g
    /\ \A g \in told.refused : RefusedGame(g)
    /\ rec.write # Absent => AnswerFits(rec.write)

(* Only an administrator's decision changes the modes.                     *)
LEMMA ModesStep == ASSUME Next PROVE active' = active \/ (Administrator /\ Decided)
BY DEF Next, RecordClick, RecordTurn, RecordWriteArrives, DeliverRecordWrite,
       RecordWriteIsLost, RecordWriteLost, HistoryClick, HistoryTurn, HistoryWriteArrives,
       DeliverHistoryWrite, HistoryWriteIsLost, HistoryWriteLost, OpenRecord, OpenHistory,
       Leave, LeaveHistory, SessionChanges, LateWrite, DeliverLate, Handle, OtherClient,
       OtherWrite, Administrator, Decided, serverStays, webServerVars

(* Only the answer to a request is told, and a game that is let in stays   *)
(* marked.                                                                 *)
LEMMA ToldStep ==
    ASSUME ToldType, Next
    PROVE  /\ told' = told \/ RecordWriteReturns \/ (Administrator /\ Decided)
           /\ told.reopened \subseteq told'.reopened
<1>1. told' = told \/ RecordWriteReturns \/ (Administrator /\ Decided)
  BY StepsOfRecord
     DEF RecordSteps, recordVars, Visit, RefreshRecord, FillIn, SelectMode, Prepare, SaveAgain,
         Undo, AnswerRecordRead, RecordReadReturns, RecordReadFails, DeliverRecordWrite,
         RecordWriteLost
<1>2. ASSUME RecordWriteReturns PROVE told.reopened \subseteq told'.reopened
  BY <1>2 DEF RecordWriteReturns, Saved, Refused, Undone, ToldType
<1>3. ASSUME Decided PROVE told.reopened \subseteq told'.reopened
  BY <1>3 DEF Decided, ToldType
<1> QED
  BY <1>1, <1>2, <1>3

(* What is dead stays dead when no page sends it, unless its mode comes    *)
(* back while a copy is on its way: nothing else has its ids.              *)
LEMMA DeadStays ==
    ASSUME TypeInv, ServerInv, PagesInv, CreationsInv, Next, NEW c \in Creations, Dead(c),
           c \in UnderWay => c \in late, c.game \notin told'.reopened
    PROVE  Dead(c)'
<1>1. c.op = "create" /\ ToldType /\ (c \in late' => c \in late)
  BY CreationsType, LateStep DEF TypeInv
<1>2. c \in UnderWay => Invalid(c)
  BY <1>1 DEF Dead, Invalid, Replayed
<1>3. Untouched(c)
  BY <1>2, CreationMeetsServer DEF Dead
<1>4. ASSUME c \in late' PROVE ~Admitted(active', c.payload)
  <2>1. c \in late /\ ~Admitted(active, c.payload)
    BY <1>1, <1>4 DEF Dead
  <2>2. CASE active' = active
    BY <2>1, <2>2
  <2>3. CASE Decided
    <3>1. Reopened \subseteq told'.reopened
      BY <1>1, <2>3 DEF Decided, ToldType
    <3> QED
      BY <1>1, <2>1, <3>1 DEF Reopened
  <2> QED
    BY <2>2, <2>3, ModesStep
<1> QED
  BY <1>3, <1>4 DEF Dead, Untouched

(* A game that was refused is not created by anything else.                *)
LEMMA RefusedStays ==
    ASSUME TypeInv, ServerInv, PagesInv, CreationsInv, Next,
           NEW g \in Games, g \in issued.games, games[g] = Absent,
           \A c \in Creations : c.game = g => Dead(c) /\ (c \in UnderWay => c \in late)
    PROVE  games'[g] = Absent
<1>1. WebServerTypeOK /\ ServerMoves /\ UnderWay \subseteq Change
  BY ServerStep, UnderWayType DEF TypeInv, ServerInv
<1>2. ASSUME NEW d \in UnderWay, Stores(d), ~Invalid(d), Receipted(d) PROVE games'[g] = Absent
  <2>1. d.game # g
    <3> SUFFICES ASSUME d.game = g PROVE FALSE
      OBVIOUS
    <3>1. d \in Creations /\ Dead(d) /\ d \in late
      BY <1>2, StoredIs
    <3> QED
      BY <1>2, <3>1, CreationsType DEF Dead, Invalid, Replayed
  <2> QED
    BY <1>1, <1>2, <2>1, StoresOne
<1>3. ASSUME NEW d \in Change, OtherStores(d) PROVE games'[g] = Absent
  BY <1>1, <1>3, StoresOne DEF OtherStores
<1> QED
  BY <1>1, <1>2, <1>3 DEF ServerMoves, Unstored

(* What the server answers to a creation is so.                            *)
LEMMA AnswerTells ==
    ASSUME TypeInv, ServerInv, PagesInv, CreationsInv, Next,
           NEW c \in Creations, Handle(c)
    PROVE  IF Outcome(c).status = "applied" THEN \E p \in past' : p.game = c.game
                                            ELSE Dead(c)'
<1>1. /\ WebServerTypeOK /\ VersionsAreInClock /\ c \in Change /\ c.op = "create"
      /\ CreationFits(c) /\ past \subseteq past'
  BY CreationsType, PastGrows DEF TypeInv, ServerInv, CreationsInv
<1>2. c.request # NoRequest /\ c.request \in 1 .. MaxAttempts
  BY <1>1, WebAssumption DEF CreationFits, TypeInv
<1>3. Accepts(c) \/ Replayed(c)
  BY <1>1, <1>2 DEF Accepts, Replayed, CreationFits
<1>4. CASE Replayed(c)
  <2>1. ~Invalid(c)
    BY <1>1, <1>4 DEF Invalid, Replayed, CreationFits
  <2>2. Outcome(c).status = "applied"
    BY <1>4, <2>1 DEF Outcome
  <2>3. \E p \in past : p.game = c.game
    BY <1>1, <1>2, <1>4 DEF Replayed, CreationFits, CreationsInv, ReceiptFits
  <2> QED
    BY <1>1, <2>2, <2>3
<1>5. CASE Invalid(c) /\ ~Replayed(c)
  <2>1. games' = games /\ receipts' = receipts /\ active' = active
    BY <1>5 DEF Handle
  <2>2. /\ games[c.game] = Absent /\ receipts[c.request] = Absent
        /\ ~Admitted(active, c.payload)
    BY <1>1, <1>2, <1>5 DEF Invalid, Replayed, CreationFits
  <2>3. Outcome(c).status # "applied"
    BY <1>5 DEF Outcome
  <2> QED
    BY <2>1, <2>2, <2>3 DEF Dead
<1>6. CASE ~Invalid(c) /\ ~Replayed(c)
  <2>1. Outcome(c).status = "applied"
    BY <1>3, <1>6 DEF Outcome
  <2>2. Stores(c)
    BY <1>1, <1>6, <2>1, OutcomeType
  <2>3. StoredRow(c.game, Written(c), clock + 1) \in past'
    BY <2>2 DEF Stores
  <2>4. StoredRow(c.game, Written(c), clock + 1).game = c.game
    BY DEF StoredRow
  <2> QED
    BY <2>1, <2>3, <2>4
<1> QED
  BY <1>4, <1>5, <1>6

(* A creation whose request is answered, or that the page has given up, is *)
(* under way only late.                                                    *)
LEMMA OnlyLate ==
    ASSUME PagesInv, NEW c \in Creations, c.op = "create",
           \/ c \notin Attempted
           \/ rec.write # Absent /\ rec.write.answer # NoAnswer
    PROVE  c \in UnderWay => c \in late
BY DEF PagesInv, UnderWay, Unanswered, Forsaken, Attempted

(* Every step keeps the answer true that the record page has.              *)
LEMMA AnswersStep ==
    ASSUME TypeInv, ServerInv, PagesInv, CreationsInv, ToldInv, Next, rec'.write # Absent
    PROVE  AnswerFits(rec.write)'
<1>1. /\ RecordVersions /\ rec \in RecordPage /\ WebServerTypeOK /\ VersionsAreInClock
      /\ past \subseteq past' /\ clock \in Nat /\ clock' \in Nat /\ clock <= clock'
      /\ told.reopened \subseteq told'.reopened
  BY PastGrows, RecordPageType, ToldStep DEF TypeInv, ServerInv, PagesInv, RecordVersions
<1>2. CASE rec'.write = rec.write
  <2>1. rec.write.answer.status = "applied" => rec.write.answer.version <= clock'
    <3>1. rec.write.answer.version \in Nat
      BY <1>1, <1>2 DEF RecordPage, Answered
    <3>2. rec.write.answer.status = "applied" => rec.write.answer.version <= clock
      BY <1>2 DEF ToldInv, AnswerFits
    <3> QED
      BY <1>1, <3>1, <3>2
  <2>2. ASSUME rec.write.change.op = "create", rec.write.answer # NoAnswer
        PROVE  IF rec.write.answer.status = "applied"
               THEN \E p \in past' : p.game = rec.write.change.game
               ELSE rec.write.change.game \notin told'.reopened => Dead(rec.write.change)'
    <3>1. rec.write.change \in Creations
      BY <1>2, <2>2 DEF Creations, Attempted
    <3>2. PICK c \in Creations : c = rec.write.change
      BY <3>1
    <3>3. IF rec.write.answer.status = "applied" THEN \E p \in past : p.game = c.game
          ELSE c.game \notin told.reopened => Dead(c)
      BY <1>2, <2>2, <3>2 DEF ToldInv, AnswerFits
    <3>4. c \in UnderWay => c \in late
      BY <1>2, <2>2, <3>2, OnlyLate
    <3>5. IF rec.write.answer.status = "applied" THEN \E p \in past' : p.game = c.game
          ELSE c.game \notin told'.reopened => Dead(c)'
      BY <1>1, <3>3, <3>4, DeadStays
    <3> QED
      BY <1>2, <3>2, <3>5 DEF Dead
  <2> QED
    BY <1>2, <2>1, <2>2 DEF AnswerFits, Dead
<1>3. CASE /\ DeliverRecordWrite /\ rec'.write.change = rec.write.change
           /\ rec'.write.answer = Outcome(rec.write.change)
  <2>1. PICK c \in Change : c = rec.write.change
    BY <1>1, <1>3 DEF DeliverRecordWrite, RecordPage
  <2>2. Handle(c) /\ rec'.write.answer = Outcome(c) /\ rec'.write.change = c
    BY <1>3, <2>1 DEF DeliverRecordWrite
  <2>3. rec'.write.answer.status = "applied" => rec'.write.answer.version <= clock'
    <3> SUFFICES ASSUME Outcome(c).status = "applied" PROVE Outcome(c).version <= clock'
      BY <2>2
    <3>1. CASE Replayed(c)
      <4>1. c.request \in 1 .. MaxAttempts
        BY <3>1, WebAssumption DEF Replayed, Change
      <4>2. receipts[c.request] \in Receipt /\ receipts[c.request].version <= clock
        BY <1>1, <3>1, <4>1 DEF Replayed, WebServerTypeOK, CreationsInv, ReceiptFits
      <4>3. receipts[c.request].version \in Nat
        BY <4>2 DEF Receipt
      <4> QED
        BY <1>1, <2>2, <3>1, <4>2, <4>3, OutcomeType
    <3>2. CASE ~Replayed(c)
      <4>1. Stores(c) /\ Outcome(c).version = clock + 1
        BY <1>1, <2>2, <3>2, OutcomeType
      <4> QED
        BY <1>1, <4>1 DEF Stores
    <3> QED
      BY <3>1, <3>2
  <2>4. ASSUME c.op = "create"
        PROVE  IF Outcome(c).status = "applied" THEN \E p \in past' : p.game = c.game
                                                ELSE Dead(c)'
    <3>1. c \in Creations
      BY <1>3, <2>1, <2>4 DEF Creations, Attempted, DeliverRecordWrite
    <3> QED
      BY <2>2, <3>1, AnswerTells
  <2> QED
    BY <2>2, <2>3, <2>4 DEF AnswerFits, Dead
<1>4. ASSUME NEW c \in Change, rec'.write = [change |-> c, answer |-> NoAnswer]
      PROVE  AnswerFits(rec.write)'
  <2>1. rec'.write.answer = NoAnswer /\ rec'.write.answer.status = "none"
    BY <1>4 DEF NoAnswer
  <2> QED
    BY <2>1 DEF AnswerFits
<1> QED
  BY <1>1, <1>2, <1>3, <1>4, RecordWriteStep

(* A game that was refused stays so.                                       *)
LEMMA RefusedGameStays ==
    ASSUME TypeInv, ServerInv, PagesInv, CreationsInv, Next,
           NEW g \in told'.refused, g \in issued.games,
           \A c \in Attempted' : c.game # g,
           \A c \in Creations : c.game = g /\ c \in UnderWay => c \in late,
           g \notin told'.reopened =>
              games[g] = Absent /\ \A c \in Creations : c.game = g => Dead(c)
    PROVE  RefusedGame(g)'
<1>1. g \in Games
  BY RecordTypes DEF ToldType
<1>2. /\ issued.games \subseteq issued'.games
      /\ \A c \in Creations' : c \in Creations \/ c.game \notin issued.games
  BY CreationsStep, CreationType DEF Prepared
<1>3. ASSUME g \notin told'.reopened
      PROVE  /\ games'[g] = Absent
             /\ \A c \in Creations' : c.game = g => Dead(c)'
  <2>1. games'[g] = Absent
    BY <1>1, <1>3, RefusedStays
  <2>2. ASSUME NEW c \in Creations', c.game = g PROVE Dead(c)'
    <3>1. c \in Creations
      BY <1>2, <2>2
    <3> QED
      BY <1>3, <2>2, <3>1, DeadStays
  <2> QED
    BY <2>1, <2>2
<1> QED
  BY <1>2, <1>3 DEF RefusedGame

(* What the user was told stays true, and what is told now is.             *)
LEMMA ToldInvStep ==
    ASSUME TypeInv, ServerInv, PagesInv, CreationsInv, ToldInv, Next PROVE ToldInv'
<1>1. /\ rec \in RecordPage /\ past \subseteq past' /\ ToldType /\ ToldType'
      /\ told.reopened \subseteq told'.reopened
      /\ issued \in [games : SUBSET Games, requests : 0 .. MaxAttempts]
  BY RecordPageType, RecordTypes, PastGrows, ToldStep DEF TypeInv
<1>2. \A c \in Attempted' : c \in Attempted \/ c.game \notin issued.games
  BY CreationsStep, CreationType DEF Prepared
<1>3. ASSUME NEW g \in told.refused, g \in told'.refused PROVE RefusedGame(g)'
  <2>1. RefusedGame(g)
    BY DEF ToldInv
  <2>2. \A c \in Attempted' : c.game # g
    BY <1>2, <2>1 DEF RefusedGame
  <2>3. ASSUME NEW c \in Creations, c.game = g, c \in UnderWay PROVE c \in late
    <3>1. c.op = "create" /\ c \notin Attempted
      BY <2>1, <2>3, CreationsType DEF RefusedGame
    <3> QED
      BY <2>3, <3>1, OnlyLate
  <2> QED
    BY <1>1, <1>3, <2>1, <2>2, <2>3, RefusedGameStays DEF RefusedGame
<1>4. rec'.write # Absent => AnswerFits(rec.write)'
  BY AnswersStep
<1>5. ASSUME NEW g \in told.saved PROVE \E p \in past' : p.game = g
  BY <1>1 DEF ToldInv
<1>6. ASSUME told'.saved = told.saved, told'.refused = told.refused PROVE ToldInv'
  BY <1>3, <1>4, <1>5, <1>6 DEF ToldInv
<1>7. CASE told' = told \/ Decided
  <2>1. told'.saved = told.saved /\ told'.refused = told.refused
    BY <1>1, <1>7 DEF Decided, ToldType
  <2> QED
    BY <1>6, <2>1
<1>8. CASE RecordWriteReturns
  <2> DEFINE c == rec.write.change
             a == rec.write.answer
  <2>1. /\ rec.write # Absent /\ a # NoAnswer /\ AnswerFits(rec.write) /\ c \in Change
        /\ c.game \in Games
    BY <1>1, <1>8 DEF RecordWriteReturns, RecordPage, ToldInv, Change
  <2>2. CASE c.op = "create" /\ a.status = "applied"
    <3>1. Saved(c.game, a.version)
      BY <1>8, <2>2 DEF RecordWriteReturns
    <3>2. told'.saved = told.saved \cup {c.game} /\ told'.refused = told.refused
      BY <1>1, <3>1 DEF Saved, ToldType
    <3>3. \E p \in past' : p.game = c.game
      BY <1>1, <2>1, <2>2 DEF AnswerFits
    <3> QED
      BY <1>3, <1>4, <1>5, <3>2, <3>3 DEF ToldInv
  <2>3. CASE c.op = "create" /\ a.status # "applied"
    <3>1. Refused(c.game)
      BY <1>8, <2>3 DEF RecordWriteReturns
    <3>2. told'.saved = told.saved /\ told'.refused = told.refused \cup {c.game}
      BY <1>1, <3>1 DEF Refused, ToldType
    <3>3. /\ c \in Creations /\ c.game \in issued.games
          /\ c.game \notin told.reopened => Dead(c)
      BY <2>1, <2>3 DEF Creations, Attempted, AnswerFits, CreationsInv, CreationFits
    <3>4. rec'.attempt = Absent /\ rec'.write = Absent
      BY <1>1, <3>1 DEF Refused, RecordPage
    <3>5. PICK g \in told'.refused : g = c.game
      BY <3>2
    <3>6. \A d \in Creations : d.game = g => d = c
      BY <3>3, <3>5 DEF CreationsInv
    <3>7. \A d \in Attempted' : d.game # g
      BY <3>4 DEF Attempted
    <3>8. \A d \in Creations : d.game = g /\ d \in UnderWay => d \in late
      BY <2>1, CreationsType, OnlyLate
    <3>9. g \notin told'.reopened =>
             games[g] = Absent /\ \A d \in Creations : d.game = g => Dead(d)
      BY <1>1, <3>3, <3>5, <3>6 DEF Dead
    <3>10. g \in issued.games
      BY <3>3, <3>5
    <3>11. RefusedGame(g)'
      BY <3>7, <3>8, <3>9, <3>10, RefusedGameStays
    <3>12. \A h \in told'.refused : h \in told.refused \/ h = g
      BY <3>2, <3>5
    <3> HIDE DEF c, a
    <3> QED
      BY <1>3, <1>4, <1>5, <3>2, <3>11, <3>12 DEF ToldInv
  <2>4. CASE c.op # "create"
    <3>1. told'.saved = told.saved /\ told'.refused = told.refused
      BY <1>1, <1>8, <2>4 DEF RecordWriteReturns, Undone, ToldType
    <3> QED
      BY <1>6, <3>1
  <2> QED
    BY <2>2, <2>3, <2>4
<1> QED
  BY <1>1, <1>7, <1>8, ToldStep

-----------------------------------------------------------------------------
(* What the form starts from.                                              *)

\* The state of the form and the answers under way are not older than what the
\* user was told.
FormInv ==
    /\ told.version <= clock
    /\ rec.ready => rec.state # Absent /\ rec.state.snapshot >= told.version
    /\ \A r \in rec.reads : r.answer # Absent => r.answer.snapshot >= told.version

(* Every step keeps the form as new as what the user was told.             *)
LEMMA FormStep ==
    ASSUME TypeInv, ServerInv, ToldInv, FormInv, Next PROVE FormInv'
<1>1. /\ rec \in RecordPage /\ WebServerTypeOK
      /\ told \in [saved : SUBSET Games, refused : SUBSET Games, version : Nat,
                   reopened : SUBSET Games]
      /\ told.version \in Nat
      /\ clock \in Nat /\ clock' \in Nat /\ clock <= clock'
  BY RecordPageType, PastGrows DEF TypeInv, ToldType
<1>2. \A p : RecordRead(p).answer = Absent
  BY DEF RecordRead
<1>3. \A q : Superseded(q) = {}
  BY DEF Superseded
<1>4. ASSUME told' = told, rec'.ready => rec.ready /\ rec'.state = rec.state,
             \A r \in rec'.reads : r.answer # Absent => r \in rec.reads
      PROVE  FormInv'
  BY <1>1, <1>4 DEF FormInv
<1>5. CASE Visit
  BY <1>1, <1>2, <1>3, <1>4, <1>5 DEF Visit, Loading, RecordPage
<1>6. CASE RefreshRecord
  BY <1>1, <1>2, <1>3, <1>4, <1>6 DEF RefreshRecord, Loading, RecordPage
<1>7. CASE FillIn \/ SelectMode
  BY <1>1, <1>4, <1>7 DEF FillIn, SelectMode, RecordPage
<1>8. CASE Prepare \/ SaveAgain \/ Undo
  BY <1>1, <1>3, <1>4, <1>8 DEF Prepare, SaveAgain, Undo, Sending, RecordPage
<1>9. ASSUME NEW r \in rec.reads, AnswerRecordRead(r) PROVE FormInv'
  <2> DEFINE s == [r EXCEPT !.answer = RecordState]
  <2>1. s.answer = RecordState
    BY <1>1 DEF RecordPage, RecordReading
  <2>2. RecordState.snapshot = clock
    BY <1>1, SnapshotIsClock DEF RecordState
  <2>3. /\ rec'.ready = rec.ready /\ rec'.state = rec.state /\ told' = told
        /\ rec'.reads = (rec.reads \ {r}) \cup {s}
    BY <1>1, <1>9 DEF AnswerRecordRead, RecordPage
  <2> HIDE DEF s
  <2> QED
    BY <1>1, <2>1, <2>2, <2>3 DEF FormInv
<1>10. ASSUME NEW r \in rec.reads, RecordReadReturns(r) PROVE FormInv'
  <2>1. /\ rec'.state = r.answer /\ r.answer # Absent /\ rec'.reads = rec.reads \ {r}
        /\ told' = told
    BY <1>1, <1>10 DEF RecordReadReturns, RecordPage
  <2> QED
    BY <1>1, <2>1 DEF FormInv
<1>11. ASSUME NEW r \in rec.reads, RecordReadFails(r) PROVE FormInv'
  BY <1>1, <1>4, <1>11 DEF RecordReadFails, RecordPage
<1>12. CASE RecordWriteReturns
  <2> DEFINE c == rec.write.change
             v == rec.write.answer.version
  <2>1. v \in Nat /\ rec.write # Absent /\ AnswerFits(rec.write)
    BY <1>1, <1>12 DEF RecordWriteReturns, RecordPage, Answered, ToldInv
  <2>2. ASSUME rec.write.answer.status = "applied", rec'.ready = FALSE,
               rec'.reads = {RecordRead("saved")} \/ rec'.reads = {RecordRead("undone")},
               told'.version = IF v > told.version THEN v ELSE told.version
        PROVE  FormInv'
    <3>1. v <= clock
      BY <2>1, <2>2 DEF AnswerFits
    <3>2. told'.version <= clock'
      BY <1>1, <2>1, <2>2, <3>1 DEF FormInv
    <3>3. \A r \in rec'.reads : r.answer = Absent
      BY <1>2, <2>2
    <3> QED
      BY <2>2, <3>2, <3>3 DEF FormInv
  <2>3. CASE rec.write.answer.status = "applied" /\ Saved(c.game, v)
    <3>1. /\ rec'.ready = FALSE /\ rec'.reads = {RecordRead("saved")}
          /\ told'.version = IF v > told.version THEN v ELSE told.version
      BY <1>1, <1>3, <2>3 DEF Saved, Confirmed, RecordPage
    <3> QED
      BY <2>2, <2>3, <3>1
  <2>4. CASE rec.write.answer.status = "applied" /\ Undone(v)
    <3>1. /\ rec'.ready = FALSE /\ rec'.reads = {RecordRead("undone")}
          /\ told'.version = IF v > told.version THEN v ELSE told.version
      BY <1>1, <1>3, <2>4 DEF Undone, Confirmed, RecordPage
    <3> QED
      BY <2>2, <2>4, <3>1
  <2>5. CASE Refused(c.game)
    <3>1. /\ rec'.ready = rec.ready /\ rec'.state = rec.state /\ rec'.reads = rec.reads
          /\ told'.version = told.version
      BY <1>1, <2>5 DEF Refused, RecordPage
    <3> QED
      BY <1>1, <3>1 DEF FormInv
  <2>6. CASE rec' = NotUndone(rec) /\ UNCHANGED told
    BY <1>1, <1>4, <2>6 DEF NotUndone, RecordPage
  <2> QED
    BY <1>12, <2>3, <2>4, <2>5, <2>6 DEF RecordWriteReturns
<1>13. CASE DeliverRecordWrite \/ RecordWriteLost
  BY <1>1, <1>4, <1>13 DEF DeliverRecordWrite, RecordWriteLost, NotUndone, RecordPage
<1>14. CASE rec' = FreshRecord /\ told' = told
  BY <1>4, <1>14 DEF FreshRecord
<1>15. CASE UNCHANGED <<rec, told>>
  BY <1>4, <1>15
<1>16. CASE Decided
  <2>1. told'.version = told.version /\ rec' = rec
    BY <1>1, <1>16 DEF Decided
  <2> QED
    BY <1>1, <2>1 DEF FormInv
<1> QED
  BY <1>5, <1>6, <1>7, <1>8, <1>9, <1>10, <1>11, <1>12, <1>13, <1>14, <1>15, <1>16,
     StepsOfRecord DEF RecordSteps, recordVars

-----------------------------------------------------------------------------
(* What a page waits for.                                                  *)

\* A form that loads holds nothing that a load could lose.
WaitInv ==
    /\ rec.attempt # Absent \/ Submitting \/ rec.dirty => ~rec.loading
    /\ rec.dirty \/ rec.ready => rec.loaded

RecordWaitsForNothing == rec.loading /\ ~\E r \in rec.reads : r.purpose = "load"

\* A read that follows a write.
Later(r) == r.purpose \in {"saved", "undone"}

(* No step of the record page leaves it loading and waiting for nothing.   *)
LEMMA WaitStep ==
    ASSUME TypeInv, WaitInv, Next
    PROVE  /\ WaitInv'
           /\ RecordWaitsForNothing' /\ route' = "record" =>
                 RecordWaitsForNothing /\ ~Visit
<1>1. rec \in RecordPage
  BY RecordPageType DEF TypeInv
<1>2. \A p : RecordRead(p).purpose = p
  BY DEF RecordRead
<1>3. \A q : Superseded(q) = {}
  BY DEF Superseded
<1> DEFINE Goal == /\ WaitInv'
                   /\ RecordWaitsForNothing' /\ route' = "record" => RecordWaitsForNothing
<1>4. ASSUME rec'.write = rec.write \/ rec'.write = Absent,
             \A r \in rec'.reads : r \in rec.reads \/ ~Later(r)
      PROVE  Submitting' => Submitting
  BY <1>4 DEF Submitting, Later
<1>5. ASSUME Visit PROVE WaitInv' /\ ~RecordWaitsForNothing'
  <2>1. CASE rec.attempt # Absent \/ Submitting \/ (rec.loaded /\ rec.dirty)
    <3>1. rec' = [rec EXCEPT !.reads = {r \in @ : r.purpose # "load"}]
      BY <1>5, <2>1 DEF Visit
    <3>2. /\ rec'.loading = rec.loading /\ rec'.attempt = rec.attempt /\ rec'.dirty = rec.dirty
          /\ rec'.ready = rec.ready /\ rec'.loaded = rec.loaded /\ rec'.write = rec.write
          /\ rec'.reads \subseteq rec.reads
      BY <1>1, <3>1 DEF RecordPage
    <3>3. Submitting' => Submitting
      BY <1>4, <3>2
    <3> QED
      BY <2>1, <3>2, <3>3 DEF WaitInv, RecordWaitsForNothing
  <2>2. CASE ~(rec.attempt # Absent \/ Submitting \/ (rec.loaded /\ rec.dirty))
    <3>1. rec' = Loading(rec)
      BY <1>5, <2>2 DEF Visit
    <3>2. /\ rec'.loading = TRUE /\ rec'.attempt = rec.attempt /\ rec'.dirty = rec.dirty
          /\ rec'.ready = FALSE /\ rec'.loaded = rec.loaded /\ rec'.write = rec.write
          /\ rec'.reads = {RecordRead("load")}
      BY <1>1, <1>3, <3>1 DEF Loading, RecordPage
    <3>3. Submitting' => Submitting
      BY <1>2, <1>4, <3>2 DEF Later
    <3> QED
      BY <1>2, <2>2, <3>2, <3>3 DEF WaitInv, RecordWaitsForNothing
  <2> QED
    BY <2>1, <2>2
<1>6. ASSUME RefreshRecord PROVE Goal
  <2>1. CASE ~rec.loaded
    <3>1. /\ rec'.loading = TRUE /\ rec'.attempt = rec.attempt /\ rec'.dirty = rec.dirty
          /\ rec'.ready = FALSE /\ rec'.loaded = rec.loaded /\ rec'.write = rec.write
          /\ rec'.reads = {RecordRead("load")}
      BY <1>1, <1>3, <1>6, <2>1 DEF RefreshRecord, Loading, RecordPage
    <3>2. Submitting' => Submitting
      BY <1>2, <1>4, <3>1 DEF Later
    <3> QED
      BY <1>2, <1>6, <2>1, <3>1, <3>2 DEF WaitInv, RecordWaitsForNothing, RefreshRecord
  <2>2. CASE rec.loaded
    <3>1. /\ rec'.loading = rec.loading /\ rec'.attempt = rec.attempt /\ rec'.dirty = rec.dirty
          /\ rec'.ready = FALSE /\ rec'.loaded = rec.loaded
      BY <1>1, <1>6, <2>2 DEF RefreshRecord, RecordPage
    <3> QED
      BY <1>6, <2>2, <3>1 DEF WaitInv, RecordWaitsForNothing, RefreshRecord
  <2> QED
    BY <2>1, <2>2
<1>7. ASSUME FillIn \/ SelectMode PROVE Goal
  <2>1. /\ rec'.loading = rec.loading /\ rec'.ready = rec.ready /\ rec'.loaded = rec.loaded
        /\ ~rec.loading /\ rec.ready
    BY <1>1, <1>7 DEF FillIn, SelectMode, RecordPage
  <2> QED
    BY <2>1 DEF WaitInv, RecordWaitsForNothing
<1>8. ASSUME Prepare \/ SaveAgain \/ Undo PROVE Goal
  <2>1. /\ rec'.loading = rec.loading /\ rec'.ready = rec.ready /\ rec'.loaded = rec.loaded
        /\ rec'.dirty = rec.dirty /\ ~rec.loading
    BY <1>1, <1>8 DEF Prepare, SaveAgain, Undo, Sending, RecordPage
  <2> QED
    BY <2>1 DEF WaitInv, RecordWaitsForNothing
<1>9. ASSUME NEW r \in rec.reads, AnswerRecordRead(r) PROVE Goal
  <2> DEFINE s == [r EXCEPT !.answer = RecordState]
  <2>1. s.purpose = r.purpose
    BY <1>1 DEF RecordPage, RecordReading
  <2>2. /\ rec'.loading = rec.loading /\ rec'.attempt = rec.attempt /\ rec'.dirty = rec.dirty
        /\ rec'.ready = rec.ready /\ rec'.loaded = rec.loaded /\ rec'.write = rec.write
        /\ rec'.reads = (rec.reads \ {r}) \cup {s}
    BY <1>1, <1>9 DEF AnswerRecordRead, RecordPage
  <2> HIDE DEF s
  <2>3. Submitting' => Submitting
    BY <2>1, <2>2 DEF Submitting
  <2>4. RecordWaitsForNothing' => RecordWaitsForNothing
    <3> SUFFICES ASSUME RecordWaitsForNothing', NEW q \in rec.reads, q.purpose = "load"
                 PROVE  FALSE
      BY <2>2 DEF RecordWaitsForNothing
    <3>1. \E p \in rec'.reads : p.purpose = "load"
      BY <2>1, <2>2
    <3> QED
      BY <3>1 DEF RecordWaitsForNothing
  <2> QED
    BY <2>2, <2>3, <2>4 DEF WaitInv
<1>10. ASSUME NEW r \in rec.reads, RecordReadReturns(r) PROVE Goal
  <2>1. /\ rec'.loading = (rec.loading /\ r.purpose # "load") /\ rec'.attempt = rec.attempt
        /\ rec'.dirty = FALSE /\ rec'.loaded = TRUE /\ rec'.write = rec.write
        /\ rec'.reads = rec.reads \ {r}
    BY <1>1, <1>10 DEF RecordReadReturns, RecordPage
  <2>2. Submitting' => Submitting
    BY <1>4, <2>1
  <2> QED
    BY <2>1, <2>2 DEF WaitInv, RecordWaitsForNothing
<1>11. ASSUME NEW r \in rec.reads, RecordReadFails(r) PROVE Goal
  <2>1. /\ rec'.loading = (rec.loading /\ r.purpose # "load") /\ rec'.attempt = rec.attempt
        /\ rec'.dirty = rec.dirty /\ rec'.ready = rec.ready /\ rec'.loaded = rec.loaded
        /\ rec'.write = rec.write /\ rec'.reads = rec.reads \ {r}
    BY <1>1, <1>11 DEF RecordReadFails, RecordPage
  <2>2. Submitting' => Submitting
    BY <1>4, <2>1
  <2> QED
    BY <2>1, <2>2 DEF WaitInv, RecordWaitsForNothing
<1>12. ASSUME RecordWriteReturns \/ RecordWriteLost PROVE Goal
  <2>1. ~rec.loading
    BY <1>12 DEF RecordWriteReturns, RecordWriteLost, WaitInv, Submitting
  <2>2. /\ rec'.loading = rec.loading /\ rec'.loaded = rec.loaded
        /\ rec'.dirty => rec.dirty
        /\ rec'.ready => rec.ready
    BY <1>1, <1>12 DEF RecordWriteReturns, RecordWriteLost, Saved, Refused, Undone, Confirmed,
                       NotUndone, RecordPage
  <2> QED
    BY <2>1, <2>2 DEF WaitInv, RecordWaitsForNothing
<1>13. ASSUME DeliverRecordWrite PROVE Goal
  <2>1. ~rec.loading
    BY <1>13 DEF DeliverRecordWrite, WaitInv, Submitting
  <2>2. /\ rec'.loading = rec.loading /\ rec'.loaded = rec.loaded
        /\ rec'.dirty = rec.dirty /\ rec'.ready = rec.ready
    BY <1>1, <1>13 DEF DeliverRecordWrite, RecordPage
  <2> QED
    BY <2>1, <2>2 DEF WaitInv, RecordWaitsForNothing
<1>14. ASSUME rec' = FreshRecord, route' = "elsewhere" PROVE Goal
  <2>1. /\ rec'.dirty = FALSE /\ rec'.ready = FALSE /\ rec'.attempt = Absent
        /\ rec'.write = Absent /\ rec'.reads = {}
    BY <1>14 DEF FreshRecord
  <2> QED
    BY <1>14, <2>1 DEF WaitInv, Submitting
<1>15. ASSUME UNCHANGED rec PROVE Goal
  BY <1>15 DEF WaitInv, Submitting, RecordWaitsForNothing
<1>16. Visit \/ Goal
  BY <1>6, <1>7, <1>8, <1>9, <1>10, <1>11, <1>12, <1>13, <1>14, <1>15, StepsOfRecord
     DEF RecordSteps, recordVars, Decided
<1> QED
  BY <1>5, <1>16

-----------------------------------------------------------------------------
(* Pages.                                                                  *)

(* The first games of a set are those down to the last of them, and there  *)
(* are more exactly if there are more of them.                             *)
LEMMA FirstIsCut ==
    ASSUME NEW C \in SUBSET Games, NEW n \in Nat \ {0}
    PROVE  /\ First(n, C) = {} => C = {}
           /\ \A m \in First(n, C) : (\A h \in First(n, C) : m <= h) =>
                 /\ First(n, C) = {g \in C : g >= m}
                 /\ Cardinality(C) > n <=> \E g \in C : g < m
           /\ Cardinality(C) > n => C # {}
<1>1. IsFiniteSet(C) /\ C \subseteq Nat /\ Cardinality(C) \in Nat
  BY GamesAssumption, WebAssumption, FS_Subset, FS_CardinalityType
<1> DEFINE above(g) == {h \in C : h > g}
<1>2. ASSUME NEW S \in SUBSET C
      PROVE  IsFiniteSet(S) /\ Cardinality(S) \in Nat /\ Cardinality(S) <= Cardinality(C)
  BY <1>1, FS_Subset, FS_CardinalityType
<1>3. First(n, C) = {g \in C : Cardinality(above(g)) < n}
  BY DEF First
<1>4. ASSUME NEW g \in C, NEW h \in C, h >= g
      PROVE  Cardinality(above(h)) <= Cardinality(above(g))
  <2>1. above(h) \subseteq above(g)
    <3> SUFFICES ASSUME NEW k \in C, k > h PROVE k > g
      OBVIOUS
    <3>1. k \in Nat /\ h \in Nat /\ g \in Nat
      BY <1>1
    <3> QED
      BY <1>4, <3>1
  <2>2. IsFiniteSet(above(g))
    BY <1>2
  <2> QED
    BY <2>1, <2>2, FS_Subset
<1>5. \A g \in C : Cardinality(above(g)) \in Nat
  BY <1>2
<1>6. First(n, C) = {} => C = {}
  <2> SUFFICES ASSUME C # {} PROVE First(n, C) # {}
    OBVIOUS
  <2>1. PICK m \in C : \A k \in C : k <= m
    BY EndsExist
  <2>2. above(m) = {}
    <3> SUFFICES ASSUME NEW k \in C PROVE ~(k > m)
      OBVIOUS
    <3>1. k \in Nat /\ m \in Nat /\ k <= m
      BY <1>1, <2>1
    <3> QED
      BY <3>1
  <2>3. Cardinality(above(m)) = 0
    BY <2>2, FS_EmptySet
  <2> QED
    BY <1>3, <2>3
<1>7. Cardinality(C) > n => C # {}
  BY FS_EmptySet
<1>8. ASSUME NEW m \in First(n, C), \A h \in First(n, C) : m <= h
      PROVE  /\ First(n, C) = {g \in C : g >= m}
             /\ Cardinality(C) > n <=> \E g \in C : g < m
  <2>1. m \in C /\ Cardinality(above(m)) < n
    BY <1>3
  <2>2. ASSUME NEW g \in C, g >= m PROVE g \in First(n, C)
    <3>1. Cardinality(above(g)) <= Cardinality(above(m))
      BY <1>4, <2>1, <2>2
    <3> QED
      BY <1>3, <1>5, <2>1, <3>1
  <2>3. First(n, C) = {g \in C : g >= m}
    <3>1. First(n, C) \subseteq C
      BY <1>3
    <3> QED
      BY <1>1, <1>8, <2>2, <3>1
  <2>4. ASSUME NEW g \in C, g < m PROVE Cardinality(C) > n
    <3>1. g \notin First(n, C)
      BY <1>1, <1>8, <2>1, <2>4
    <3>2. Cardinality(above(g)) >= n
      BY <1>3, <1>5, <3>1
    <3>3. /\ g \notin above(g) /\ IsFiniteSet(above(g))
          /\ above(g) \cup {g} \in SUBSET C
      BY <1>1, <1>2
    <3>4. Cardinality(above(g) \cup {g}) = Cardinality(above(g)) + 1
      BY <3>3, FS_AddElement
    <3>5. Cardinality(above(g) \cup {g}) <= Cardinality(C)
      BY <1>2, <3>3
    <3>6. Cardinality(above(g)) \in Nat
      BY <1>5
    <3> QED
      BY <1>1, <3>2, <3>4, <3>5, <3>6
  <2>5. ASSUME \A g \in C : ~(g < m) PROVE Cardinality(C) <= n
    <3>a. ASSUME NEW k \in C, ~(k > m) PROVE k = m
      <4>1. k \in Nat /\ m \in Nat /\ ~(k < m)
        BY <1>1, <2>1, <2>5
      <4> QED
        BY <3>a, <4>1
    <3>b. m \notin above(m)
      <4>1. m \in Nat
        BY <1>1, <2>1
      <4> QED
        BY <4>1
    <3>1. C = above(m) \cup {m} /\ m \notin above(m) /\ IsFiniteSet(above(m))
      BY <1>2, <2>1, <3>a, <3>b
    <3>2. Cardinality(C) = Cardinality(above(m)) + 1
      BY <3>1, FS_AddElement
    <3>3. Cardinality(above(m)) \in Nat
      BY <1>5, <2>1
    <3> QED
      BY <2>1, <3>2, <3>3
  <2> QED
    BY <1>1, <2>3, <2>4, <2>5
<1> HIDE DEF above
<1> QED
  BY <1>6, <1>7, <1>8

(* The games of a context now are those of the version of the clock.       *)
LEMMA LiveNow ==
    ASSUME WebServerTypeOK, ServerInv, NEW mode
    PROVE  LiveAt(clock, mode) =
               {StoredRow(g, games[g].payload, games[g].version) : g \in Live(mode)}
<1> DEFINE row(g) == StoredRow(g, games[g].payload, games[g].version)
<1>1. \A g \in Games : games[g] # Absent =>
         /\ row(g) \in past /\ row(g).game = g /\ row(g).payload = games[g].payload
         /\ row(g).version = games[g].version
  BY DEF ServerInv, PastIsKept, StoredRow
<1>2. ASSUME NEW p \in LiveAt(clock, mode) PROVE \E g \in Live(mode) : p = row(g)
  <2>1. /\ p \in past /\ ~Deleted(p.payload)
        /\ mode \in {AllModes, ContextOf[p.payload[Mode]]}
        /\ \A q \in past : q.game = p.game /\ q.version <= clock => q.version <= p.version
    BY DEF LiveAt
  <2>2. p.game \in Games /\ p.version \in Nat /\ games[p.game] # Absent
        /\ p.version <= games[p.game].version
    BY <2>1, ServerFacts DEF ServerInv, PastIsKept
  <2>3. row(p.game) \in past /\ row(p.game).game = p.game
        /\ row(p.game).version = games[p.game].version
        /\ row(p.game).payload = games[p.game].payload
    BY <1>1, <2>2
  <2>4. games[p.game].version <= clock /\ games[p.game].version \in Nat
    BY <2>2, ServerFacts DEF ServerInv, VersionsAreInClock
  <2>5. row(p.game).version <= p.version
    BY <2>1, <2>3, <2>4
  <2>6. p.version = row(p.game).version
    BY <2>2, <2>3, <2>4, <2>5
  <2>7. p = row(p.game)
    BY <2>1, <2>3, <2>6 DEF ServerInv, PastIsKept
  <2>8. p.payload = games[p.game].payload
    BY <2>3, <2>7
  <2>9. p.game \in Live(mode)
    BY <2>1, <2>2, <2>8 DEF Live
  <2> QED
    BY <2>7, <2>9
<1>3. ASSUME NEW g \in Live(mode) PROVE row(g) \in LiveAt(clock, mode)
  <2>1. /\ g \in Games /\ games[g] # Absent /\ ~Deleted(games[g].payload)
        /\ mode \in {AllModes, ContextOf[games[g].payload[Mode]]}
    BY DEF Live
  <2>2. /\ row(g) \in past /\ row(g).game = g /\ row(g).payload = games[g].payload
        /\ row(g).version = games[g].version
    BY <1>1, <2>1
  <2>3. games[g].version <= clock
    BY <2>1 DEF ServerInv, VersionsAreInClock
  <2>4. \A q \in past : q.game = g => q.version <= games[g].version
    BY DEF ServerInv, PastIsKept
  <2> HIDE DEF row
  <2> QED
    BY <2>1, <2>2, <2>3, <2>4 DEF LiveAt
<1> QED
  BY <1>2, <1>3

\* rows are the games of a version and a mode from below top down to cut.
IsList(s, m, top, cut, more, rows) ==
    /\ s <= clock
    /\ rows = {p \in LiveAt(s, m) :
                  (top = Absent \/ p.game < top) /\ (cut = Absent \/ p.game >= cut)}
    /\ more <=> \E p \in LiveAt(s, m) : cut # Absent /\ p.game < cut
    /\ top # Absent /\ cut # Absent => cut < top

(* What the server answers to a read of the history is a list.             *)
LEMMA PageIsList ==
    ASSUME WebServerTypeOK, ServerInv, NEW mode, NEW cursor \in Games \cup {Absent}, NEW snapshot,
           ~Stale(snapshot)
    PROVE  LET a == HistoryPage(mode, cursor, snapshot)
           IN  /\ ~a.stale /\ (snapshot # Absent => a.snapshot = snapshot)
               /\ IsList(a.snapshot, mode, cursor, a.cursor, a.more, a.rows)
<1> DEFINE C == {g \in Live(mode) : cursor = Absent \/ g < cursor}
           page == First(PageSize, C)
           cut == IF page = {} THEN Absent ELSE CHOOSE g \in page : \A h \in page : g <= h
           a == HistoryPage(mode, cursor, snapshot)
           row(g) == StoredRow(g, games[g].payload, games[g].version)
<1>1. /\ Live(mode) \subseteq Games /\ C \subseteq Games /\ Games \subseteq Nat
      /\ Absent \notin Games /\ C \subseteq Live(mode)
  BY WebAssumption, AbsentAssumption DEF Live
<1>2. /\ a.stale = FALSE /\ a.snapshot = Snapshot /\ a.rows = RowsOf(page, games)
      /\ a.more = (Cardinality(C) > PageSize) /\ a.cursor = cut
  BY DEF HistoryPage
<1>3. Snapshot = clock
  BY SnapshotIsClock
<1>4. snapshot # Absent => snapshot = Snapshot
  BY DEF Stale
<1>5. PageSize \in Nat \ {0}
  BY WebAssumption
<1>6. /\ page = {} => C = {}
      /\ \A m \in page : (\A h \in page : m <= h) =>
             /\ page = {g \in C : g >= m}
             /\ Cardinality(C) > PageSize <=> \E g \in C : g < m
      /\ Cardinality(C) > PageSize => C # {}
      /\ page \subseteq C
  <2>1. page \subseteq C
    BY DEF First
  <2> HIDE DEF C
  <2> QED
    BY <1>1, <1>5, <2>1, FirstIsCut
<1>7. page # {} => cut \in page /\ \A h \in page : cut <= h
  <2> SUFFICES ASSUME page # {} PROVE cut \in page /\ \A h \in page : cut <= h
    OBVIOUS
  <2>1. page \subseteq Games
    BY <1>1, <1>6
  <2> HIDE DEF page
  <2>2. \E g \in page : \A h \in page : g <= h
    BY <2>1, EndsExist
  <2> QED
    BY <2>2
<1> HIDE DEF page
<1>8. page = {g \in C : cut = Absent \/ g >= cut}
  BY <1>1, <1>6, <1>7
<1>9. Cardinality(C) > PageSize <=> \E g \in C : cut # Absent /\ g < cut
  <2>1. CASE page = {}
    BY <1>6, <2>1
  <2>2. CASE page # {}
    BY <1>1, <1>6, <1>7, <2>2
  <2> QED
    BY <2>1, <2>2
<1>10. cursor # Absent /\ cut # Absent => cut < cursor
  BY <1>1, <1>6, <1>7
<1>11. LiveAt(clock, mode) = {row(g) : g \in Live(mode)} /\ \A g : row(g).game = g
  BY LiveNow DEF StoredRow
<1>12. RowsOf(page, games) = {row(g) : g \in page}
  BY DEF RowsOf, StoredRow
<1> HIDE DEF row, a
<1>13. RowsOf(page, games) = {p \in LiveAt(clock, mode) :
          (cursor = Absent \/ p.game < cursor) /\ (cut = Absent \/ p.game >= cut)}
  <2>1. ASSUME NEW g \in Live(mode)
        PROVE  g \in page <=> /\ cursor = Absent \/ row(g).game < cursor
                              /\ cut = Absent \/ row(g).game >= cut
    BY <1>8, <1>11
  <2>2. page \subseteq Live(mode)
    BY <1>1, <1>6
  <2> HIDE DEF C, cut
  <2> QED
    BY <1>11, <1>12, <2>1, <2>2
<1>14. (\E g \in C : cut # Absent /\ g < cut) <=>
          \E p \in LiveAt(clock, mode) : cut # Absent /\ p.game < cut
  <2>1. ASSUME NEW g \in C, cut # Absent, g < cut
        PROVE  \E p \in LiveAt(clock, mode) : cut # Absent /\ p.game < cut
    BY <1>11, <2>1
  <2>2. ASSUME NEW p \in LiveAt(clock, mode), cut # Absent, p.game < cut
        PROVE  \E g \in C : cut # Absent /\ g < cut
    <3>1. PICK g \in Live(mode) : p = row(g) /\ p.game = g
      BY <1>11
    <3>2. cursor # Absent => cut < cursor /\ cursor \in Nat /\ g \in Nat /\ cut \in Nat
      BY <1>1, <1>6, <1>7, <1>10, <2>2
    <3>3. g \in C
      BY <2>2, <3>1, <3>2
    <3> QED
      BY <2>2, <3>1, <3>3
  <2> QED
    BY <2>1, <2>2
<1> HIDE DEF cut, C
<1>15. clock <= clock
  BY ServerFacts
<1>16. IsList(a.snapshot, mode, cursor, a.cursor, a.more, a.rows)
  BY <1>2, <1>3, <1>9, <1>10, <1>13, <1>14, <1>15 DEF IsList
<1> QED
  BY <1>2, <1>4, <1>16 DEF a

(* A list stays what it is whatever is written later.                      *)
LEMMA ListsStay ==
    ASSUME TypeInv, ServerInv, Next, NEW s \in Nat, s <= clock, NEW m
    PROVE  LiveAt(s, m)' = LiveAt(s, m) /\ s <= clock'
<1>1. /\ past \subseteq past' /\ clock \in Nat /\ clock' \in Nat /\ clock <= clock'
      /\ \A p \in past' \ past : p.version = clock + 1
  BY PastGrows
<1>2. \A p \in past' : p.version <= s => p \in past
  BY <1>1
<1>3. LiveAt(s, m)' = {p \in past' :
        /\ p.version <= s
        /\ \A q \in past' : q.game = p.game /\ q.version <= s => q.version <= p.version
        /\ ~Deleted(p.payload)
        /\ m \in {AllModes, ContextOf[p.payload[Mode]]}}
  BY DEF LiveAt
<1> QED
  BY <1>1, <1>2, <1>3 DEF LiveAt

(* A list and the one that follows it are one list.                        *)
LEMMA ListsJoin ==
    ASSUME NEW s, NEW m, NEW cut \in Games, NEW lower \in Games \cup {Absent},
           NEW more1, NEW more2, NEW rows1, NEW rows2, past \subseteq VersionedRow,
           IsList(s, m, Absent, cut, more1, rows1), IsList(s, m, cut, lower, more2, rows2)
    PROVE  IsList(s, m, Absent, lower, more2, rows1 \cup rows2)
<1>1. \A p \in LiveAt(s, m) : p.game \in Games
  BY DEF LiveAt, VersionedRow
<1>2. Games \subseteq Nat /\ Absent \notin Games
  BY WebAssumption, AbsentAssumption
<1>3. /\ rows1 = {p \in LiveAt(s, m) : p.game >= cut}
      /\ rows2 = {p \in LiveAt(s, m) : p.game < cut /\ (lower = Absent \/ p.game >= lower)}
      /\ lower # Absent => lower < cut
  BY <1>2 DEF IsList
<1>4. rows1 \cup rows2 = {p \in LiveAt(s, m) : lower = Absent \/ p.game >= lower}
  <2>1. ASSUME NEW p \in LiveAt(s, m)
        PROVE  p \in rows1 \cup rows2 <=> lower = Absent \/ p.game >= lower
    <3>1. p.game \in Nat /\ cut \in Nat /\ (lower # Absent => lower \in Nat)
      BY <1>1, <1>2
    <3>2. p \in rows1 <=> p.game >= cut
      BY <1>3
    <3>3. p \in rows2 <=> p.game < cut /\ (lower = Absent \/ p.game >= lower)
      BY <1>3
    <3>4. lower # Absent => lower < cut
      BY <1>3
    <3> QED
      BY <3>1, <3>2, <3>3, <3>4
  <2>2. rows1 \cup rows2 \subseteq LiveAt(s, m)
    BY <1>3
  <2> QED
    BY <2>1, <2>2
<1> QED
  BY <1>4 DEF IsList

-----------------------------------------------------------------------------
(* The history page.                                                       *)

\* What a read asks for, and what its answer is, fit the page that waits for it.
ReadFits(h, r) ==
    /\ r.mode = Context(h)
    /\ IF r.purpose = "more"
       THEN /\ h.moreLoading /\ ~h.loading /\ ~h.stale /\ h.page # Absent
            /\ r.cursor # Absent /\ r.cursor = h.page.cursor /\ r.snapshot = h.page.snapshot
       ELSE ~h.moreLoading /\ r.cursor = Absent /\ r.snapshot = Absent
    /\ r.answer # Absent =>
          IF r.answer.stale THEN r.purpose = "more"
          ELSE /\ r.snapshot # Absent => r.answer.snapshot = r.snapshot
               /\ IsList(r.answer.snapshot, r.mode, r.cursor, r.answer.cursor, r.answer.more,
                         r.answer.rows)

\* What is on screen is a list down to where it was cut, unless it came with the
\* news that the filter's mode has another context.
RowsFit(h) ==
    h.page # Absent /\ ~h.stale /\ ~h.moved =>
        IsList(h.page.snapshot, Context(h), Absent, h.page.cursor, h.page.more, h.rows)

PageInv(h) ==
    /\ \A r, s \in h.reads : r = s
    /\ \A r \in h.reads : ReadFits(h, r)
    /\ RowsFit(h)

HistoryInv == hist # Absent => PageInv(hist)

(* A page keeps fitting whatever the others do.                            *)
LEMMA PageKept ==
    ASSUME TypeInv, ServerInv, Next, NEW h \in HistoryState, PageInv(h)
    PROVE  PageInv(h)'
<1>2. ASSUME NEW s \in Nat, NEW m, NEW top, NEW cut, NEW more, NEW rows,
             IsList(s, m, top, cut, more, rows)
      PROVE  IsList(s, m, top, cut, more, rows)'
  <2>1. LiveAt(s, m)' = LiveAt(s, m) /\ s <= clock'
    BY <1>2, ListsStay DEF IsList
  <2> QED
    BY <1>2, <2>1 DEF IsList
<1>3. RowsFit(h)'
  <2> SUFFICES ASSUME h.page # Absent, ~h.stale, ~h.moved
               PROVE  IsList(h.page.snapshot, Context(h), Absent, h.page.cursor, h.page.more,
                             h.rows)'
    BY DEF RowsFit, Context, ContextIn
  <2>1. h.page.snapshot \in Nat
    BY DEF HistoryState, Cut
  <2>2. IsList(h.page.snapshot, Context(h), Absent, h.page.cursor, h.page.more, h.rows)
    BY DEF PageInv, RowsFit
  <2> QED
    BY <1>2, <2>1, <2>2
<1>4. ASSUME NEW r \in h.reads PROVE ReadFits(h, r)'
  <2>1. ReadFits(h, r) /\ r \in Reading
    BY DEF PageInv, HistoryState
  <2>2. ASSUME r.answer # Absent, ~r.answer.stale
        PROVE  IsList(r.answer.snapshot, r.mode, r.cursor, r.answer.cursor, r.answer.more,
                      r.answer.rows)'
    <3>1. r.answer.snapshot \in Nat
      BY <2>1, <2>2 DEF Reading, PageAnswer
    <3>2. IsList(r.answer.snapshot, r.mode, r.cursor, r.answer.cursor, r.answer.more,
                 r.answer.rows)
      BY <2>1, <2>2 DEF ReadFits
    <3> QED
      BY <1>2, <3>1, <3>2
  <2> QED
    BY <2>1, <2>2 DEF ReadFits, Context, ContextIn
<1> QED
  BY <1>3, <1>4 DEF PageInv

\* The list of one page is that of another.
SameList(h, k) ==
    /\ k.rows = h.rows /\ k.page = h.page /\ k.stale = h.stale
    /\ k.filter = h.filter /\ k.modes = h.modes /\ k.moved = h.moved

(* A page that gave its reads up fits.                                     *)
LEMMA QuietPage ==
    ASSUME NEW h, NEW k, PageInv(h), SameList(h, k), k.reads = {}
    PROVE  PageInv(k)
BY DEF PageInv, SameList, RowsFit, Context

(* A page whose list and reads stay fits.                                  *)
LEMMA SamePage ==
    ASSUME NEW h, NEW k, PageInv(h), SameList(h, k), k.reads = h.reads,
           k.loading = h.loading, k.moreLoading = h.moreLoading
    PROVE  PageInv(k)
BY DEF PageInv, SameList, RowsFit, Context, ReadFits

(* A page that reads anew fits.                                            *)
LEMMA ReadingPage ==
    ASSUME NEW h, NEW k, NEW p \in HistoryPurpose,
           RowsFit(k), k.page = h.page, Context(k) = Context(h),
           k.reads = {HistoryRead(h, p)},
           IF p = "more"
           THEN /\ k.moreLoading /\ ~k.loading /\ ~k.stale /\ h.page # Absent
                /\ h.page.cursor # Absent
           ELSE ~k.moreLoading
    PROVE  PageInv(k)
<1>1. ReadFits(k, HistoryRead(h, p))
  BY DEF ReadFits, HistoryRead
<1> QED
  BY <1>1 DEF PageInv

HistoryWaits(h) == (h.loading \/ h.moreLoading) /\ h.reads = {}

\* The user turned to a filter of the same context.
Turned(k) == k.filter # hist.filter /\ Context(k) = Context(hist)

\* What a step of the page has to show.
Goes(k) == PageInv(k) /\ (HistoryWaits(k) => HistoryWaits(hist) \/ Turned(k))

LEMMA QuietGoes ==
    ASSUME NEW k, PageInv(hist), SameList(hist, k), k.reads = {}, ~k.loading, ~k.moreLoading
    PROVE  Goes(k)
BY QuietPage DEF Goes, HistoryWaits

LEMMA ReadingGoes ==
    ASSUME NEW h, NEW k, NEW p \in HistoryPurpose,
           RowsFit(k), k.page = h.page, Context(k) = Context(h),
           k.reads = {HistoryRead(h, p)},
           IF p = "more"
           THEN /\ k.moreLoading /\ ~k.loading /\ ~k.stale /\ h.page # Absent
                /\ h.page.cursor # Absent
           ELSE ~k.moreLoading
    PROVE  Goes(k)
BY ReadingPage DEF Goes, HistoryWaits

(* A refresh, whatever it was asked for.                                   *)
LEMMA RefreshGoes ==
    ASSUME NEW h \in HistoryState
    PROVE  /\ RowsFit(h) => Goes(Refreshing(h))
           /\ Goes(AfterWriting(h))
<1>1. {"refresh", "written"} \subseteq HistoryPurpose
  BY DEF HistoryPurpose
<1>2. ASSUME RowsFit(h) PROVE Goes(Refreshing(h))
  <2> DEFINE k == Refreshing(h)
  <2>1. /\ k.rows = h.rows /\ k.page = h.page /\ k.stale = h.stale /\ k.filter = h.filter
        /\ k.modes = h.modes /\ k.moved = h.moved /\ k.reads = {HistoryRead(h, "refresh")}
        /\ k.moreLoading = FALSE
    BY DEF Refreshing, Issue, Outdated, HistoryState
  <2> HIDE DEF k
  <2>2. RowsFit(k) /\ Context(k) = Context(h)
    BY <1>2, <2>1 DEF RowsFit, Context
  <2> QED
    BY <1>1, <2>1, <2>2, ReadingGoes DEF k
<1>3. Goes(AfterWriting(h))
  <2> DEFINE k == AfterWriting(h)
  <2>1. /\ k.page = h.page /\ k.stale = TRUE /\ k.filter = h.filter
        /\ k.modes = h.modes /\ k.reads = {HistoryRead(h, "written")} /\ k.moreLoading = FALSE
    BY DEF AfterWriting, Issue, Outdated, HistoryState
  <2> HIDE DEF k
  <2>2. RowsFit(k) /\ Context(k) = Context(h)
    BY <2>1 DEF RowsFit, Context
  <2> QED
    BY <1>1, <2>1, <2>2, ReadingGoes DEF k
<1> QED
  BY <1>2, <1>3

(* What the user does on the history page.                                 *)
LEMMA HistoryClicks ==
    ASSUME TypeInv, hist # Absent, PageInv(hist),
           \/ RefreshHistory \/ LoadMore \/ CancelEdit \/ SaveEdit
           \/ \E mode \in ModeIds \cup {AllModes} : SelectFilter(mode)
           \/ \E row \in hist.rows : StartEdit(row) \/ DeleteRow(row)
    PROVE  Goes(hist')
<1> SUFFICES ASSUME NEW k, k = hist' PROVE Goes(k)
  OBVIOUS
<1>1. hist \in HistoryState /\ RowsFit(hist)
  BY DEF TypeInv, PageInv
<1>p. HistoryPurpose = {"first", "refresh", "written", "more"}
  BY DEF HistoryPurpose
<1>2. CASE RefreshHistory
  <2>1. CASE hist.modes = {}
    <3>1. /\ k.rows = hist.rows /\ k.page = hist.page /\ k.stale = hist.stale
          /\ k.filter = hist.filter /\ k.modes = hist.modes /\ k.moved = hist.moved
          /\ k.moreLoading = FALSE
          /\ k.reads = {HistoryRead([hist EXCEPT !.loading = TRUE], "first")}
      BY <1>1, <1>2, <2>1 DEF RefreshHistory, Issue, Outdated, HistoryState
    <3>2. HistoryRead([hist EXCEPT !.loading = TRUE], "first") = HistoryRead(hist, "first")
      BY <1>1 DEF HistoryRead, Context, HistoryState
    <3>3. RowsFit(k) /\ Context(k) = Context(hist)
      BY <1>1, <3>1 DEF RowsFit, Context
    <3> QED
      BY <1>p, <3>1, <3>2, <3>3, ReadingGoes
  <2>2. CASE hist.modes # {}
    BY <1>1, <1>2, <2>2, RefreshGoes DEF RefreshHistory
  <2> QED
    BY <2>1, <2>2
<1>3. CASE LoadMore
  <2>1. /\ k.rows = hist.rows /\ k.page = hist.page /\ k.stale = hist.stale
        /\ k.filter = hist.filter /\ k.modes = hist.modes /\ k.loading = hist.loading
        /\ k.moved = hist.moved /\ k.moreLoading = TRUE /\ k.reads = {HistoryRead(hist, "more")}
    BY <1>1, <1>3 DEF LoadMore, Issue, Outdated, HistoryState
  <2>2. RowsFit(k) /\ Context(k) = Context(hist)
    BY <1>1, <2>1 DEF RowsFit, Context
  <2> QED
    BY <1>3, <1>p, <2>1, <2>2, ReadingGoes DEF LoadMore
<1>4. ASSUME \/ k = Invalidated(hist)
             \/ \E e : k = [Invalidated(hist) EXCEPT !.editing = e]
             \/ \E c : k = Writing(c)
      PROVE  Goes(k)
  <2>1. SameList(hist, k) /\ k.reads = {} /\ ~k.loading /\ ~k.moreLoading
    BY <1>1, <1>4 DEF Invalidated, Writing, Outdated, SameList, HistoryState
  <2> QED
    BY <2>1, QuietGoes
<1>5. CASE CancelEdit \/ SaveEdit
  BY <1>4, <1>5 DEF CancelEdit, SaveEdit
<1>6. ASSUME NEW row, StartEdit(row) \/ DeleteRow(row) PROVE Goes(k)
  BY <1>4, <1>6 DEF StartEdit, DeleteRow
<1>7. ASSUME NEW mode \in ModeIds \cup {AllModes}, SelectFilter(mode) PROVE Goes(k)
  <2> DEFINE h == [hist EXCEPT !.filter = mode, !.rows = {}, !.page = Absent, !.loading = TRUE,
                               !.moreLoading = FALSE, !.moved = FALSE, !.editing = Absent,
                               !.reads = Outdated(@)]
  <2>1. /\ k = IF Context(h) # Context(hist) THEN Issue(h, "first") ELSE h
        /\ mode # hist.filter
    BY <1>7 DEF SelectFilter
  <2>2. /\ h.filter = mode /\ h.modes = hist.modes /\ h.page = Absent /\ h.reads = {}
        /\ h.moreLoading = FALSE
    BY <1>1 DEF Outdated, HistoryState
  <2>3. RowsFit(h)
    BY <2>2 DEF RowsFit
  <2>4. h \in HistoryState
    BY <1>1, <1>7 DEF Outdated, HistoryState
  <2> HIDE DEF h
  <2>5. CASE Context(h) # Context(hist)
    <3>1. /\ k.page = h.page /\ k.filter = h.filter /\ k.modes = h.modes
          /\ k.moreLoading = FALSE /\ k.reads = {HistoryRead(h, "first")}
      BY <2>1, <2>2, <2>4, <2>5 DEF Issue, Outdated, HistoryState
    <3>2. RowsFit(k) /\ Context(k) = Context(h)
      BY <2>2, <2>3, <3>1 DEF RowsFit, Context
    <3> QED
      BY <1>p, <3>1, <3>2, ReadingGoes
  <2>6. CASE Context(h) = Context(hist)
    <3>1. k = h
      BY <2>1, <2>6
    <3>2. PageInv(k)
      BY <2>2, <2>3, <3>1 DEF PageInv
    <3>3. Turned(k)
      BY <2>1, <2>2, <2>6, <3>1 DEF Turned
    <3> QED
      BY <3>2, <3>3 DEF Goes
  <2> QED
    BY <2>5, <2>6
<1> QED
  BY <1>2, <1>3, <1>5, <1>6, <1>7

(* The answer to a read fits the page that waits for it.                   *)
LEMMA AnswerGoes ==
    ASSUME TypeInv, ServerInv, hist # Absent, PageInv(hist),
           NEW r \in hist.reads, AnswerHistoryRead(r)
    PROVE  Goes(hist')
<1> SUFFICES ASSUME NEW k, k = hist' PROVE Goes(k)
  OBVIOUS
<1> DEFINE a == HistoryPage(r.mode, r.cursor, r.snapshot)
           s == [r EXCEPT !.answer = a, !.modes = IF r.purpose = "first" THEN active ELSE {}]
<1>1. /\ hist \in HistoryState /\ r \in Reading /\ hist.reads = {r} /\ ReadFits(hist, r)
      /\ WebServerTypeOK
  BY DEF TypeInv, PageInv, HistoryState
<1>2. /\ SameList(hist, k) /\ k.reads = {s}
      /\ k.loading = hist.loading /\ k.moreLoading = hist.moreLoading
  BY <1>1 DEF AnswerHistoryRead, SameList, HistoryState
<1>3. /\ s.purpose = r.purpose /\ s.mode = r.mode /\ s.cursor = r.cursor
      /\ s.snapshot = r.snapshot /\ s.answer = a
      /\ s.modes = IF r.purpose = "first" THEN active ELSE {}
  BY <1>1 DEF Reading
<1>4. IF a.stale THEN r.purpose = "more"
      ELSE /\ r.snapshot # Absent => a.snapshot = r.snapshot
           /\ IsList(a.snapshot, r.mode, r.cursor, a.cursor, a.more, a.rows)
  <2>1. CASE Stale(r.snapshot)
    <3>1. a.stale = TRUE
      BY <2>1 DEF HistoryPage
    <3>2. r.snapshot # Absent
      BY <2>1 DEF Stale
    <3>3. r.purpose = "more"
      BY <1>1, <3>2 DEF ReadFits
    <3> QED
      BY <3>1, <3>3
  <2>2. CASE ~Stale(r.snapshot)
    <3>1. r.cursor \in Games \cup {Absent}
      BY <1>1 DEF Reading
    <3>2. /\ ~a.stale /\ (r.snapshot # Absent => a.snapshot = r.snapshot)
          /\ IsList(a.snapshot, r.mode, r.cursor, a.cursor, a.more, a.rows)
      BY <1>1, <2>2, <3>1, PageIsList
    <3> QED
      BY <3>2
  <2> QED
    BY <2>1, <2>2
<1> HIDE DEF a, s
<1>5. ReadFits(k, s)
  <2>1. Context(k) = Context(hist)
    BY <1>2 DEF SameList, Context
  <2> QED
    BY <1>1, <1>2, <1>3, <1>4, <2>1 DEF ReadFits, SameList
<1>6. RowsFit(k)
  BY <1>2 DEF PageInv, RowsFit, SameList, Context
<1> QED
  BY <1>2, <1>5, <1>6 DEF Goes, PageInv, HistoryWaits

(* An answer that is shown leaves a page that fits.                        *)
LEMMA ReturnGoes ==
    ASSUME TypeInv, ServerInv, hist # Absent, PageInv(hist),
           NEW r \in hist.reads, HistoryReadReturns(r)
    PROVE  Goes(hist')
<1> SUFFICES ASSUME NEW k, k = hist' PROVE Goes(k)
  OBVIOUS
<1> DEFINE a == r.answer
           h == [hist EXCEPT !.reads = @ \ {r}]
           listed == [Shown(h, a) EXCEPT !.modes = r.modes]
<1>p. HistoryPurpose = {"first", "refresh", "written", "more"}
  BY DEF HistoryPurpose
<1>1. /\ hist \in HistoryState /\ r \in Reading /\ hist.reads = {r} /\ ReadFits(hist, r)
      /\ a # Absent /\ a \in PageAnswer /\ RowsFit(hist)
  BY DEF TypeInv, PageInv, HistoryState, HistoryReadReturns, Reading
<1>2. /\ h.reads = {} /\ h.rows = hist.rows /\ h.page = hist.page /\ h.stale = hist.stale
      /\ h.filter = hist.filter /\ h.modes = hist.modes /\ h.loading = hist.loading
      /\ h.moved = hist.moved /\ h.moreLoading = hist.moreLoading /\ h \in HistoryState
  BY <1>1 DEF HistoryState
<1>3. k = IF r.purpose = "first"
          THEN IF Context(listed) # Context(hist)
               THEN Issue([listed EXCEPT !.moved = TRUE], "first") ELSE listed
          ELSE IF r.purpose # "more" THEN Shown(h, a)
          ELSE IF a.stale THEN Refreshing([h EXCEPT !.stale = TRUE])
          ELSE Extended(h, a)
  BY DEF HistoryReadReturns
<1> HIDE DEF h
<1>4. LET s == Shown(h, a) IN
      /\ s.rows = a.rows /\ s.loading = FALSE /\ s.stale = FALSE
      /\ s.page = [snapshot |-> a.snapshot, more |-> a.more, cursor |-> a.cursor]
      /\ s.reads = {} /\ s.filter = hist.filter /\ s.modes = hist.modes
      /\ s.moreLoading = hist.moreLoading /\ s \in HistoryState
  BY <1>1, <1>2, ShownType DEF Shown, HistoryState
<1>5. /\ listed.rows = a.rows /\ listed.loading = FALSE /\ listed.stale = FALSE
      /\ listed.page = [snapshot |-> a.snapshot, more |-> a.more, cursor |-> a.cursor]
      /\ listed.reads = {} /\ listed.filter = hist.filter /\ listed.modes = r.modes
      /\ listed.moreLoading = hist.moreLoading /\ listed \in HistoryState
  <2>1. r.modes \subseteq Definition
    BY <1>1 DEF Reading
  <2> QED
    BY <1>4, <2>1 DEF HistoryState
<1> HIDE DEF listed, a
<1>6. ASSUME r.purpose # "more"
      PROVE  /\ hist.moreLoading = FALSE
             /\ IsList(a.snapshot, Context(hist), Absent, a.cursor, a.more, a.rows)
  <2>1. hist.moreLoading \in BOOLEAN
    BY <1>1 DEF HistoryState
  <2> QED
    BY <1>1, <1>6, <2>1 DEF ReadFits, a
<1>7. CASE r.purpose = "first"
  <2>3. CASE Context(listed) # Context(hist)
    <3> DEFINE g == [listed EXCEPT !.moved = TRUE]
    <3>1. /\ g \in HistoryState /\ g.moreLoading = FALSE
      BY <1>5, <1>6, <1>7 DEF HistoryState
    <3>2. g.moved = TRUE
      BY <1>5 DEF HistoryState
    <3>3. k = Issue(g, "first")
      BY <1>3, <1>7, <2>3
    <3> HIDE DEF g
    <3>4. /\ k.page = g.page /\ k.filter = g.filter /\ k.modes = g.modes
          /\ k.moreLoading = FALSE /\ k.reads = {HistoryRead(g, "first")}
      BY <1>p, <3>1, <3>3, ReadType DEF HistoryState
    <3>5. k.moved = TRUE
      BY <1>p, <3>1, <3>2, <3>3, ReadType DEF HistoryState
    <3>6. RowsFit(k) /\ Context(k) = Context(g)
      BY <3>4, <3>5 DEF RowsFit, Context
    <3> QED
      BY <1>p, <3>4, <3>6, ReadingGoes
  <2>4. CASE Context(listed) = Context(hist)
    <3>1. k = listed
      BY <1>3, <1>7, <2>4
    <3>2. RowsFit(k)
      BY <1>5, <1>6, <1>7, <2>4, <3>1 DEF RowsFit
    <3> QED
      BY <1>5, <1>6, <1>7, <3>1, <3>2 DEF Goes, PageInv, HistoryWaits
  <2> QED
    BY <2>3, <2>4
<1>8. CASE r.purpose \notin {"first", "more"}
  <2>1. k = Shown(h, a)
    BY <1>3, <1>8
  <2>a. /\ k.rows = a.rows /\ k.filter = hist.filter /\ k.modes = hist.modes
        /\ k.page = [snapshot |-> a.snapshot, more |-> a.more, cursor |-> a.cursor]
    BY <1>4, <2>1
  <2>2. Context(k) = Context(hist)
    BY <1>1, <1>4, <2>1 DEF Context
  <2>3. RowsFit(k)
    <3>1. IsList(a.snapshot, Context(k), Absent, a.cursor, a.more, a.rows)
      BY <1>6, <1>8, <2>2
    <3>2. /\ k.page.snapshot = a.snapshot /\ k.page.more = a.more
          /\ k.page.cursor = a.cursor /\ k.rows = a.rows
      BY <2>a
    <3> QED
      BY <3>1, <3>2 DEF RowsFit
  <2> QED
    BY <1>4, <1>6, <1>8, <2>1, <2>2, <2>3 DEF Goes, PageInv, HistoryWaits
<1>9. CASE r.purpose = "more" /\ a.stale
  <2> DEFINE g == [h EXCEPT !.stale = TRUE]
  <2>1. k = Refreshing(g)
    BY <1>3, <1>9
  <2>2. g \in HistoryState /\ g.stale = TRUE /\ g.filter = hist.filter /\ g.modes = hist.modes
    BY <1>2 DEF HistoryState
  <2> HIDE DEF g
  <2>3. RowsFit(g)
    BY <2>2 DEF RowsFit
  <2> QED
    BY <2>1, <2>2, <2>3, RefreshGoes
<1>10. CASE r.purpose = "more" /\ ~a.stale
  <2>1. k = Extended(h, a)
    BY <1>3, <1>10
  <2>2. /\ k.rows = hist.rows \cup a.rows /\ k.moreLoading = FALSE /\ k.loading = hist.loading
        /\ k.page = [snapshot |-> a.snapshot, more |-> a.more, cursor |-> a.cursor]
        /\ k.reads = {} /\ k.filter = hist.filter /\ k.modes = hist.modes
        /\ k.stale = hist.stale /\ k.moved = hist.moved
    BY <1>2, <2>1 DEF Extended, HistoryState
  <2>3. /\ ~hist.loading /\ ~hist.stale /\ hist.page # Absent /\ r.mode = Context(hist)
        /\ hist.page.cursor = r.cursor /\ r.cursor # Absent
        /\ r.snapshot = hist.page.snapshot /\ hist.page.snapshot \in Nat
        /\ IsList(a.snapshot, r.mode, r.cursor, a.cursor, a.more, a.rows)
        /\ r.snapshot # Absent => a.snapshot = r.snapshot
    BY <1>1, <1>10 DEF ReadFits, HistoryState, Cut, a
  <2>4. Context(k) = Context(hist)
    BY <1>1, <2>2 DEF Context
  <2>5. ASSUME ~k.moved
        PROVE  IsList(a.snapshot, Context(k), Absent, a.cursor, a.more, hist.rows \cup a.rows)
    <3>1. IsList(hist.page.snapshot, Context(hist), Absent, r.cursor, hist.page.more, hist.rows)
      BY <1>1, <2>2, <2>3, <2>5 DEF RowsFit
    <3>2. a.snapshot = hist.page.snapshot
      BY <2>3, AbsentAssumption
    <3>3. /\ r.cursor \in Games /\ a.cursor \in Games \cup {Absent}
          /\ past \subseteq VersionedRow
      BY <1>1, <2>3, ServerFacts DEF Reading, PageAnswer, TypeInv
    <3> QED
      BY <2>3, <2>4, <3>1, <3>2, <3>3, ListsJoin
  <2>6. RowsFit(k)
    BY <2>2, <2>5 DEF RowsFit
  <2> QED
    BY <2>2, <2>3, <2>4, <2>6 DEF Goes, PageInv, HistoryWaits
<1> QED
  BY <1>7, <1>8, <1>9, <1>10

LEMMA SameGoes ==
    ASSUME NEW k, PageInv(hist), SameList(hist, k), k.reads = hist.reads,
           k.loading = hist.loading, k.moreLoading = hist.moreLoading
    PROVE  Goes(k)
BY SamePage DEF Goes, HistoryWaits

(* So do reads that fail and the answers to writes.                        *)
LEMMA OtherGoes ==
    ASSUME TypeInv, hist # Absent, PageInv(hist),
           \/ \E r \in hist.reads : HistoryReadFails(r)
           \/ HistoryWriteReturns \/ DeliverHistoryWrite \/ HistoryWriteLost
    PROVE  Goes(hist')
<1> SUFFICES ASSUME NEW k, k = hist' PROVE Goes(k)
  OBVIOUS
<1>1. hist \in HistoryState
  BY DEF TypeInv
<1>2. ASSUME NEW r \in hist.reads, HistoryReadFails(r) PROVE Goes(k)
  <2>1. hist.reads = {r} /\ ReadFits(hist, r)
    BY DEF PageInv
  <2>2. IF r.purpose = "more" THEN hist.loading = FALSE ELSE hist.moreLoading = FALSE
    BY <1>1, <2>1 DEF ReadFits, HistoryState
  <2>3. /\ SameList(hist, k) /\ k.reads = {}
        /\ k.loading = (hist.loading /\ r.purpose = "more")
        /\ k.moreLoading = (hist.moreLoading /\ r.purpose # "more")
    BY <1>1, <1>2, <2>1 DEF HistoryReadFails, SameList, HistoryState
  <2> QED
    BY <2>2, <2>3, QuietGoes
<1>3. CASE HistoryWriteReturns
  <2> DEFINE h == [hist EXCEPT !.write = Absent]
             c == hist.write.change
  <2>1. \/ k = AfterWriting([h EXCEPT !.editing = Absent])
        \/ k = [h EXCEPT !.editing = Absent]
        \/ k = h
        \/ k = AfterWriting([h EXCEPT !.rows = Without(c.game)])
    BY <1>3 DEF HistoryWriteReturns
  <2>2. ASSUME k = [h EXCEPT !.editing = Absent] \/ k = h PROVE Goes(k)
    <3>1. /\ SameList(hist, k) /\ k.reads = hist.reads /\ k.loading = hist.loading
          /\ k.moreLoading = hist.moreLoading
      BY <1>1, <2>2 DEF SameList, HistoryState
    <3> QED
      BY <3>1, SameGoes
  <2>3. Goes(AfterWriting([h EXCEPT !.editing = Absent]))
    <3> DEFINE g == [h EXCEPT !.editing = Absent]
    <3>1. g \in HistoryState
      BY <1>1 DEF HistoryState
    <3> HIDE DEF g
    <3>2. Goes(AfterWriting(g))
      BY <3>1, RefreshGoes
    <3> QED
      BY <3>2 DEF g
  <2>4. Goes(AfterWriting([h EXCEPT !.rows = Without(c.game)]))
    <3> DEFINE g == [h EXCEPT !.rows = Without(c.game)]
    <3>1. Without(c.game) \subseteq VersionedRow
      BY <1>1 DEF Without, HistoryState
    <3>2. g \in HistoryState
      BY <1>1, <3>1 DEF HistoryState
    <3> HIDE DEF g
    <3>3. Goes(AfterWriting(g))
      BY <3>2, RefreshGoes
    <3> QED
      BY <3>3 DEF g
  <2> HIDE DEF h
  <2> QED
    BY <2>1, <2>2, <2>3, <2>4
<1>4. CASE DeliverHistoryWrite \/ HistoryWriteLost
  <2>1. /\ SameList(hist, k) /\ k.reads = hist.reads /\ k.loading = hist.loading
        /\ k.moreLoading = hist.moreLoading
    BY <1>1, <1>4 DEF DeliverHistoryWrite, HistoryWriteLost, SameList, HistoryState
  <2> QED
    BY <2>1, SameGoes
<1> QED
  BY <1>2, <1>3, <1>4

(* The page as it is entered.                                              *)
LEMMA EnterGoes == ASSUME EnterHistory PROVE PageInv(hist') /\ ~HistoryWaits(hist')
<1> SUFFICES ASSUME NEW k, k = Issue(FreshHistory, "first") PROVE PageInv(k) /\ ~HistoryWaits(k)
  BY DEF EnterHistory
<1>1. FreshHistory \in HistoryState /\ "first" \in HistoryPurpose
  BY DEF FreshHistory, HistoryState, HistoryPurpose
<1>2. k = [FreshHistory EXCEPT !.reads = {HistoryRead(FreshHistory, "first")}]
  BY <1>1, ReadType
<1>3. /\ k.page = Absent /\ k.moreLoading = FALSE /\ k.filter = AllModes /\ k.modes = {}
      /\ k.reads = {HistoryRead(FreshHistory, "first")}
      /\ FreshHistory.page = Absent /\ FreshHistory.filter = AllModes /\ FreshHistory.modes = {}
  BY <1>2 DEF FreshHistory
<1>4. Context(k) = Context(FreshHistory) /\ RowsFit(k)
  BY <1>3 DEF Context, RowsFit
<1>5. PageInv(k)
  BY <1>1, <1>3, <1>4, ReadingPage
<1> QED
  BY <1>3, <1>5 DEF HistoryWaits

(* A step of the page leaves a page that fits.                             *)
LEMMA PageStep ==
    ASSUME TypeInv, ServerInv, HistoryInv, HistorySteps
    PROVE  /\ PageInv(hist')
           /\ HistoryWaits(hist') => hist # Absent /\ (HistoryWaits(hist) \/ Turned(hist'))
<1>1. CASE EnterHistory
  BY <1>1, EnterGoes
<1>2. ASSUME hist # Absent, ~EnterHistory PROVE Goes(hist')
  <2>1. PageInv(hist)
    BY <1>2 DEF HistoryInv
  <2> QED
    BY <1>2, <2>1, HistoryClicks, AnswerGoes, ReturnGoes, OtherGoes
       DEF HistorySteps, HistoryReads
<1> QED
  BY <1>1, <1>2 DEF HistorySteps, Goes

(* Every step keeps the page fitting, also those of others.                *)
LEMMA HistoryStep ==
    ASSUME TypeInv, ServerInv, HistoryInv, Next PROVE HistoryInv'
<1> SUFFICES ASSUME hist' # Absent PROVE PageInv(hist)'
  BY DEF HistoryInv
<1>1. PICK k : k = hist'
  OBVIOUS
<1>2. k \in HistoryState
  BY <1>1, HistoryTypes
<1>3. PageInv(k)
  <2>1. CASE HistorySteps
    BY <1>1, <2>1, PageStep
  <2>2. CASE UNCHANGED hist
    BY <1>1, <2>2 DEF HistoryInv
  <2> QED
    BY <2>1, <2>2, StepsOfHistory
<1>4. PageInv(k)'
  BY <1>2, <1>3, PageKept
<1> QED
  BY <1>1, <1>4

-----------------------------------------------------------------------------
(* The invariant, and what follows from it.                                *)

WebInv ==
    /\ TypeInv /\ ServerInv /\ PagesInv /\ CreationsInv /\ ToldInv /\ FormInv /\ WaitInv
    /\ HistoryInv

(* The invariant holds at first, and every step keeps it.                  *)
LEMMA WebInvInit == Init => WebInv
<1> SUFFICES ASSUME Init PROVE WebInv
  OBVIOUS
<1>1. /\ rec = FreshRecord /\ hist = Absent /\ clock \in Nat
      /\ told = [saved |-> {}, refused |-> {}, version |-> NoVersion, reopened |-> {}]
  BY TypeInit, ServerFacts DEF Init, RecordInit, TypeInv
<1>2. ToldInv /\ FormInv
  BY <1>1 DEF ToldInv, FormInv, FreshRecord
<1>3. WaitInv
  BY <1>1 DEF WaitInv, Submitting, FreshRecord
<1> QED
  BY <1>1, <1>2, <1>3, TypeInit, PagesInit, CreationsInit DEF WebInv, HistoryInv

LEMMA WebInvStep == WebInv /\ [Next]_vars => WebInv'
<1> SUFFICES ASSUME WebInv, [Next]_vars PROVE WebInv'
  OBVIOUS
<1>1. CASE Next
  BY <1>1, TypeStep, ServerInvStep, PagesStep, CreationsInvStep, ToldInvStep, FormStep,
     WaitStep, HistoryStep DEF WebInv
<1>2. CASE UNCHANGED vars
  BY <1>2
     DEF vars, WebInv, TypeInv, ToldType, LastWasEntered, WebServerTypeOK, ServerTypeOK,
         RecordTypeOK, ServerInv, VersionsAreInClock, ClockIsSeen, PastIsKept,
         PagesInv, UnderWay, Unanswered, Forsaken, RevisionFits,
         CreationsInv, Creations, Attempted, CreationFits, ReceiptFits,
         ToldInv, RefusedGame, AnswerFits, Dead, FormInv, WaitInv, Submitting,
         HistoryInv, PageInv, ReadFits, RowsFit, IsList, LiveAt
<1> QED
  BY <1>1, <1>2

(* What is stored, what is under way, what the user was told and what is   *)
(* on screen fit together.                                                 *)
THEOREM WebInvariance == Spec => []WebInv
BY WebInvInit, WebInvStep, PTL DEF Spec

(* A game the user was told is saved was stored, and one that was refused  *)
(* is not there and never comes, unless its mode came back while a copy of *)
(* its creation was on its way (handleSave, 0030).                         *)
THEOREM SavesAreToldAsTheyWentHolds == Spec => []SavesAreToldAsTheyWent
<1>1. WebInv => SavesAreToldAsTheyWent
  BY DEF WebInv, ToldInv, RefusedGame, SavesAreToldAsTheyWent
<1> QED
  BY <1>1, WebInvariance, PTL

(* The form is ready for the next game only with standings read after      *)
(* every write of the page that was confirmed (refreshRecord, handleSave,  *)
(* handleUndo).                                                            *)
THEOREM NextGameStartsFromOwnWritesHolds == Spec => []NextGameStartsFromOwnWrites
<1>1. WebInv => NextGameStartsFromOwnWrites
  BY DEF WebInv, FormInv, NextGameStartsFromOwnWrites
<1> QED
  BY <1>1, WebInvariance, PTL

(* The pages of the history make the list of one version of the account,   *)
(* nothing twice or missing, and more is offered exactly when there is     *)
(* more, however the modes change, unless the list came with the news that *)
(* its filter has another context (list_game_history, loadMore).           *)
THEOREM HistoryIsOneSnapshotHolds == Spec => []HistoryIsOneSnapshot
<1>1. WebInv => HistoryIsOneSnapshot
  <2> SUFFICES ASSUME WebInv, hist # Absent, hist.page # Absent, ~hist.stale, ~hist.moved
               PROVE  LET list == LiveAt(hist.page.snapshot, Context(hist))
                          cut  == hist.page.cursor
                      IN  /\ hist.rows = {p \in list : cut = Absent \/ p.game >= cut}
                          /\ hist.page.more <=> \E p \in list : cut # Absent /\ p.game < cut
    BY DEF HistoryIsOneSnapshot
  <2>1. IsList(hist.page.snapshot, Context(hist), Absent, hist.page.cursor, hist.page.more,
               hist.rows)
    BY DEF WebInv, HistoryInv, PageInv, RowsFit
  <2> QED
    BY <2>1 DEF IsList
<1> QED
  BY <1>1, WebInvariance, PTL

(* An undo, an edit or a deletion changes the version the user saw or      *)
(* nothing (deleteGame, updateGame).                                       *)
THEOREM RevisionsHitWhatWasShown == Spec => OnlyWhatWasShownIsChanged
<1> DEFINE A == \A c \in UnderWay \ UnderWay' :
                   c.op # "create" /\ games'[c.game] # games[c.game]
                       => games[c.game].version = c.shown
<1>1. WebInv /\ [Next]_vars => [A]_vars
  <2> SUFFICES ASSUME WebInv, Next PROVE A
    OBVIOUS
  <2> QED
    BY RevisionStep DEF WebInv
<1> HIDE DEF A
<1>2. Spec => [][A]_vars
  BY <1>1, WebInvariance, PTL DEF Spec
<1> USE DEF A
<1> QED
  BY <1>2 DEF OnlyWhatWasShownIsChanged

(* No step makes a page wait for nothing, but the choice of a filter that  *)
(* has the same context (HistoryPage selectFilter).                        *)
THEOREM LoadingPagesWait == Spec => LoadingWaitsForAnAnswer
<1> DEFINE A == WaitsForNothing' => WaitsForNothing \/ TurnsToTheSame
<1>1. WebInv /\ [Next]_vars => [A]_vars
  <2> SUFFICES ASSUME WebInv, Next, WaitsForNothing' PROVE  WaitsForNothing \/ TurnsToTheSame
    OBVIOUS
  <2>1. CASE route' = "record" /\ RecordWaitsForNothing'
    <3>1. RecordWaitsForNothing /\ ~Visit
      BY <2>1, WaitStep DEF WebInv
    <3>2. route = "record" \/ OpenRecord
      BY <2>1 DEF Next, RecordClick, RecordTurn, RecordWriteArrives, RecordWriteIsLost,
                  HistoryClick, HistoryTurn, HistoryWriteArrives, HistoryWriteIsLost,
                  OpenHistory, Leave, SessionChanges, LateWrite, OtherClient, Administrator,
                  serverStays, routeStays
    <3> QED
      BY <3>1, <3>2 DEF OpenRecord, WaitsForNothing, RecordWaitsForNothing
  <2>2. CASE hist' # Absent /\ HistoryWaits(hist')
    <3>1. CASE HistorySteps
      BY <2>2, <3>1, PageStep DEF WebInv, WaitsForNothing, HistoryWaits, Turned,
                                  TurnsToTheSame
    <3>2. CASE UNCHANGED hist
      BY <2>2, <3>2 DEF WaitsForNothing, HistoryWaits
    <3> QED
      BY <2>2, <3>1, <3>2, StepsOfHistory
  <2> QED
    BY <2>1, <2>2 DEF WaitsForNothing, RecordWaitsForNothing, HistoryWaits
<1> HIDE DEF A
<1>2. Spec => [][A]_vars
  BY <1>1, WebInvariance, PTL DEF Spec
<1> USE DEF A
<1> QED
  BY <1>2 DEF LoadingWaitsForAnAnswer
=============================================================================
