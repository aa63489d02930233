-------------------------------- MODULE Web --------------------------------
(***************************************************************************)
(* The web client at work: the record controller, the history page, the    *)
(* server, and the other clients of the same account.  Steps of a page are *)
(* turns of its event loop; requests and answers travel in between, are    *)
(* lost, or arrive when nobody waits for them any more.                    *)
(***************************************************************************)
EXTENDS WebRecord, WebHistory

CONSTANT Budgets   \* the bounds: how many edits (undos, edits and deletions on the pages),
                   \* events (writes of other clients, sessions ended) and decisions (modes
                   \* added, changed or taken away) there may be together

VARIABLES route,    \* the page that is open
          uses,     \* bound: the one page, of the two, that is opened in this run; the
                    \* writes of the other one are those of another client to it
          budget    \* what is left of the other bounds

vars == <<games, clock, acked, past, receipts, active, late, rec, issued, told, hist,
          route, uses, budget>>

Routes == {"record", "history", "elsewhere"}

Init ==
    /\ WebServerInit /\ RecordInit
    /\ hist  = Absent
    /\ route = "elsewhere"
    /\ uses \in {"record", "history"}
    /\ budget \in Budgets

Spend(what) == budget[what] > 0 /\ budget' = [budget EXCEPT ![what] = @ - 1]

routeStays   == UNCHANGED <<route, uses>>
serverStays  == UNCHANGED webServerVars /\ routeStays
recordStays  == UNCHANGED recordVars
historyStays == UNCHANGED hist

-----------------------------------------------------------------------------
\* The controller is above the routes: only what is clicked needs its page.
RecordClick ==
    /\ route = "record"
    /\ \/ (RefreshRecord \/ FillIn \/ SelectMode \/ Prepare \/ SaveAgain) /\ UNCHANGED budget
       \/ Undo /\ Spend("edits")
    /\ serverStays /\ historyStays

RecordTurn ==
    /\ \/ \E r \in rec.reads : \/ AnswerRecordRead(r) \/ RecordReadReturns(r)
                               \/ RecordReadFails(r)
       \/ RecordWriteReturns
    /\ serverStays /\ historyStays /\ UNCHANGED budget

RecordWriteArrives == DeliverRecordWrite /\ historyStays /\ routeStays /\ UNCHANGED budget

RecordWriteIsLost == RecordWriteLost /\ historyStays /\ routeStays /\ UNCHANGED budget

HistoryClick ==
    /\ hist # Absent
    /\ \/ (RefreshHistory \/ LoadMore \/ CancelEdit) /\ UNCHANGED budget
       \/ (\E mode \in ModeIds \cup {AllModes} : SelectFilter(mode)) /\ UNCHANGED budget
       \/ (\E row \in hist.rows : StartEdit(row)) /\ UNCHANGED budget
       \/ (SaveEdit \/ \E row \in hist.rows : DeleteRow(row)) /\ Spend("edits")
    /\ serverStays /\ recordStays

HistoryTurn ==
    /\ hist # Absent
    /\ \/ \E r \in hist.reads : \/ AnswerHistoryRead(r) \/ HistoryReadReturns(r)
                                \/ HistoryReadFails(r)
       \/ HistoryWriteReturns
    /\ serverStays /\ recordStays /\ UNCHANGED budget

HistoryWriteArrives ==
    /\ hist # Absent
    /\ DeliverHistoryWrite /\ recordStays /\ routeStays /\ UNCHANGED budget

HistoryWriteIsLost ==
    /\ hist # Absent
    /\ HistoryWriteLost /\ recordStays /\ routeStays /\ UNCHANGED budget

-----------------------------------------------------------------------------
(* Navigation.                                                             *)

OpenRecord ==
    /\ uses = "record" /\ route = "elsewhere" /\ route' = "record"
    /\ Visit
    /\ historyStays /\ UNCHANGED <<webServerVars, uses, budget>>

OpenHistory ==
    /\ uses = "history" /\ route = "elsewhere" /\ route' = "history"
    /\ EnterHistory
    /\ recordStays /\ UNCHANGED <<webServerVars, uses, budget>>

Leave ==
    /\ route' = "elsewhere"
    /\ recordStays /\ UNCHANGED <<uses, budget>>
    /\ \/ route = "record"  /\ historyStays /\ UNCHANGED webServerVars
       \/ route = "history" /\ LeaveHistory

\* The changes of the pages that have not reached the server yet.
UnderWay ==
    late \cup Unanswered(rec.write) \cup (IF hist = Absent THEN {} ELSE Forsaken(hist.write))

\* The session ends, another begins: acceptSession gives it a new generation,
\* everything under RecordScope is created anew, and answers to the old one
\* are ignored.
SessionChanges ==
    /\ Spend("events")
    /\ rec' = FreshRecord /\ hist' = Absent /\ route' = "elsewhere"
    /\ late' = UnderWay
    /\ UNCHANGED <<games, clock, acked, past, receipts, active, issued, told, uses>>

-----------------------------------------------------------------------------
(* The rest of the world.                                                  *)

LateWrite ==
    /\ \E c \in late : DeliverLate(c)
    /\ recordStays /\ historyStays /\ routeStays /\ UNCHANGED budget

OtherChange(g, op, p) ==
    [game |-> g, seq |-> 0, op |-> op,
     expected |-> IF op = "create" THEN NoVersion ELSE games[g].version,
     payload |-> p, request |-> NoRequest, shown |-> NoVersion]

OtherClient ==
    /\ \E g \in Games, p \in {p \in Payload : ~Deleted(p)} :
          \/ /\ games[g] = Absent /\ g \notin issued.games
             /\ OtherWrite(OtherChange(g, "create", p))
             /\ issued' = [issued EXCEPT !.games = @ \cup {g}]
          \/ /\ games[g] # Absent
             /\ \E op \in {"update", "delete"} : OtherWrite(OtherChange(g, op, p))
             /\ UNCHANGED issued
    /\ Spend("events")
    /\ historyStays /\ routeStays /\ UNCHANGED <<rec, told>>

\* The games of creations on their way that a change of the modes lets in.
Reopened == {c.game : c \in {d \in late : /\ d.op = "create"
                                           /\ ~Admitted(active, d.payload)
                                           /\ Admitted(active', d.payload)}}

Administrator ==
    /\ ManageModes
    /\ Spend("decisions")
    /\ told' = [told EXCEPT !.reopened = @ \cup Reopened]
    /\ historyStays /\ routeStays /\ UNCHANGED <<rec, issued>>

Next ==
    \/ RecordClick \/ RecordTurn \/ RecordWriteArrives \/ RecordWriteIsLost
    \/ HistoryClick \/ HistoryTurn \/ HistoryWriteArrives \/ HistoryWriteIsLost
    \/ OpenRecord \/ OpenHistory \/ Leave \/ SessionChanges
    \/ LateWrite \/ OtherClient \/ Administrator

Spec == Init /\ [][Next]_vars

-----------------------------------------------------------------------------
TypeOK ==
    /\ WebServerTypeOK /\ RecordTypeOK /\ HistoryTypeOK
    /\ route \in Routes
    /\ (hist # Absent) <=> (route = "history")

(* The user is told the truth about a save whose answer was lost and that  *)
(* was asked for again, perhaps while the first request is still on its    *)
(* way: a game said to be saved was stored, and one said to be refused is  *)
(* not there and never comes, so entering it anew makes no second one      *)
(* (0030 receipts, handleSave).  The one exception is a game whose mode an *)
(* administrator brings back while a copy of its creation is on its way:   *)
(* nothing tells the server that the user has given it up.                 *)
SavesAreToldAsTheyWent ==
    /\ \A g \in told.saved : \E p \in past : p.game = g
    /\ \A g \in told.refused \ told.reopened : games[g] = Absent

(* An undo, an edit or a deletion never hits another version of a game     *)
(* than the one the user had on screen, however late it arrives and        *)
(* whatever other clients or the other page did meanwhile (deleteGame,     *)
(* updateGame).                                                            *)
OnlyWhatWasShownIsChanged ==
    [][\A c \in UnderWay \ UnderWay' :
          c.op # "create" /\ games'[c.game] # games[c.game]
              => games[c.game].version = c.shown]_vars

\* The games that a context showed at a version of the account.
LiveAt(version, context) ==
    {p \in past :
        /\ p.version <= version
        /\ \A q \in past : q.game = p.game /\ q.version <= version => q.version <= p.version
        /\ ~Deleted(p.payload)
        /\ context \in {AllModes, ContextOf[p.payload[Mode]]}}

(* The pages of the history, read one by one while others write, make one  *)
(* list: exactly the games that the filter's context had at one version of *)
(* the account, down to where the list was cut, none twice, none missing,  *)
(* none outdated, and more to come if and only if there are more           *)
(* (list_game_history, loadMore).  The one exception is a list that came   *)
(* with news about the modes that give the filter another context: it is   *)
(* on screen, and may be continued, until a whole list is read again.      *)
HistoryIsOneSnapshot ==
    hist # Absent /\ hist.page # Absent /\ ~hist.stale /\ ~hist.moved =>
        LET list == LiveAt(hist.page.snapshot, Context(hist))
            cut  == hist.page.cursor
        IN  /\ hist.rows = {p \in list : cut = Absent \/ p.game >= cut}
            /\ hist.page.more <=> \E p \in list : cut # Absent /\ p.game < cut

(* The form never offers the next game from standings older than a write   *)
(* of this page that was confirmed: it is ready only with a state read     *)
(* after it (refreshRecord, handleSave, handleUndo).                       *)
NextGameStartsFromOwnWrites ==
    rec.ready /\ ~Submitting => rec.state.snapshot >= told.version

\* A page that says it is loading and waits for nothing.
WaitsForNothing ==
    \/ route = "record" /\ rec.loading /\ ~\E r \in rec.reads : r.purpose = "load"
    \/ hist # Absent /\ (hist.loading \/ hist.moreLoading) /\ hist.reads = {}

\* The user turns to a filter of the same context: from a mode that is gone to
\* all games, or from one mode of a context to another.
TurnsToTheSame ==
    /\ hist # Absent /\ hist' # Absent /\ hist'.filter # hist.filter
    /\ Context(hist) = Context(hist')

(* A page that says it is loading waits for an answer, whatever was        *)
(* clicked, left or superseded meanwhile: nothing else takes the sign      *)
(* away, and the refresh button is disabled under it.  The one exception   *)
(* is a filter whose games are those of the filter before.                 *)
LoadingWaitsForAnAnswer ==
    [][WaitsForNothing' => WaitsForNothing \/ TurnsToTheSame]_vars
=============================================================================
