---------------------------- MODULE WebHistory -----------------------------
(***************************************************************************)
(* The history page of the web client (web/src/routes/HistoryPage.tsx): a  *)
(* list that grows page by page under a mode filter, and the edits and     *)
(* deletions made from its rows.                                           *)
(*                                                                         *)
(* The page is created when its route is entered and gone when it is left. *)
(* generation.current is shared by the reads, the writes and the edit      *)
(* form; a read that is superseded is forgotten here at once.              *)
(***************************************************************************)
EXTENDS WebServer

VARIABLE hist   \* the page, Absent while its route is not open

\* modes are the modes last fetched, filter the id of one, rows and page what is
\* on screen and where it was cut, editing the row in the edit form.  moved is a
\* ghost: the rows were read for another context than the filter's mode has by
\* the modes that came with them.
FreshHistory ==
    [modes |-> {}, filter |-> AllModes, rows |-> {}, page |-> Absent, loading |-> TRUE,
     moreLoading |-> FALSE, stale |-> FALSE, moved |-> FALSE, editing |-> Absent,
     write |-> Absent, reads |-> {}]

\* contextId: a filter whose mode is not among the fetched ones shows all.
ContextIn(modes, filter) ==
    IF \E m \in modes : m.id = filter
    THEN ContextOf[(CHOOSE m \in modes : m.id = filter).offers] ELSE AllModes
Context(h) == ContextIn(h.modes, h.filter)

Filters(h) == {m.id : m \in h.modes} \cup {AllModes}

HistoryRead(h, purpose) ==
    [purpose |-> purpose, mode |-> Context(h), answer |-> Absent, modes |-> {},
     cursor   |-> IF purpose = "more" THEN h.page.cursor ELSE Absent,
     snapshot |-> IF purpose = "more" THEN h.page.snapshot ELSE Absent]

\* generation.current += 1
Outdated(reads) == {}

Issue(h, purpose) == [h EXCEPT !.reads = Outdated(@) \cup {HistoryRead(h, purpose)}]

\* refresh and refreshAfterWrite.  The list is not to be acted on after a write.
Refreshing(h)   == [Issue(h, "refresh") EXCEPT !.loading = TRUE, !.moreLoading = FALSE]
AfterWriting(h) == [Issue(h, "written") EXCEPT !.loading = TRUE, !.moreLoading = FALSE,
                                               !.stale = TRUE]

\* (A slip: the reads are given up, what they announced is not.)
GivenUp(h) == [h EXCEPT !.reads = Outdated(@)]

\* invalidateReads
Invalidated(h) == [h EXCEPT !.reads = Outdated(@), !.loading = FALSE, !.moreLoading = FALSE]

\* Until a write and the read that follows it have ended.
Busy == hist.write # Absent \/ \E r \in hist.reads : r.purpose = "written"

Displayed == hist # Absent /\ ~(hist.loading /\ hist.modes = {})

-----------------------------------------------------------------------------
(* Reads.                                                                  *)

EnterHistory == hist = Absent /\ hist' = Issue(FreshHistory, "first")

RefreshHistory ==
    /\ Displayed /\ ~Busy /\ ~hist.moreLoading /\ ~hist.loading
    /\ hist' = IF hist.modes = {} THEN Issue([hist EXCEPT !.loading = TRUE], "first")
               ELSE Refreshing(hist)

LoadMore ==
    /\ Displayed /\ hist.page # Absent /\ hist.page.more /\ hist.page.cursor # Absent
    /\ ~Busy /\ ~hist.moreLoading /\ ~hist.loading /\ ~hist.stale
    /\ hist' = [Issue(hist, "more") EXCEPT !.moreLoading = TRUE]

\* selectFilter.  The list is read again by an effect, which runs only when the
\* context has become another one.
SelectFilter(mode) ==
    /\ Displayed /\ ~Busy /\ ~hist.moreLoading
    /\ mode \in Filters(hist) \ {hist.filter}
    /\ LET h == [hist EXCEPT !.filter = mode, !.rows = {}, !.page = Absent, !.loading = TRUE,
                             !.moreLoading = FALSE, !.moved = FALSE, !.editing = Absent,
                             !.reads = Outdated(@)]
       IN  hist' = IF Context(h) # Context(hist) THEN Issue(h, "first") ELSE h

AnswerHistoryRead(r) ==
    /\ r.answer = Absent
    /\ hist' = [hist EXCEPT !.reads = (@ \ {r}) \cup
           {[r EXCEPT !.answer = HistoryPage(r.mode, r.cursor, r.snapshot),
                      !.modes  = IF r.purpose = "first" THEN active ELSE {}]}]

Shown(h, a) == [h EXCEPT !.rows = a.rows, !.loading = FALSE, !.stale = FALSE, !.moved = FALSE,
                   !.page = [snapshot |-> a.snapshot, more |-> a.more, cursor |-> a.cursor]]

Extended(h, a) == [h EXCEPT !.rows = @ \cup a.rows, !.moreLoading = FALSE,
                      !.page = [snapshot |-> a.snapshot, more |-> a.more, cursor |-> a.cursor]]

HistoryReadReturns(r) ==
    /\ r.answer # Absent
    /\ LET h == [hist EXCEPT !.reads = @ \ {r}]
           listed == [Shown(h, r.answer) EXCEPT !.modes = r.modes]
       IN  hist' = IF r.purpose = "first"
                   THEN IF Context(listed) # Context(hist)
                        THEN Issue([listed EXCEPT !.moved = TRUE], "first") ELSE listed
                   ELSE IF r.purpose # "more" THEN Shown(h, r.answer)
                   ELSE IF r.answer.stale THEN Refreshing([h EXCEPT !.stale = TRUE])
                   ELSE Extended(h, r.answer)

HistoryReadFails(r) ==
    /\ r.answer = Absent
    /\ hist' = [hist EXCEPT !.reads = @ \ {r},
                            !.loading     = @ /\ r.purpose = "more",
                            !.moreLoading = @ /\ r.purpose # "more"]

-----------------------------------------------------------------------------
(* Edits and deletions.                                                    *)

\* What the buttons of a row need.
Choosable(row) ==
    Displayed /\ row \in hist.rows /\ ~Busy /\ ~hist.moreLoading /\ ~hist.stale

StartEdit(row) == Choosable(row) /\ hist' = [Invalidated(hist) EXCEPT !.editing = row]

CancelEdit ==
    /\ Displayed /\ hist.editing # Absent /\ ~Busy
    /\ hist' = [Invalidated(hist) EXCEPT !.editing = Absent]

\* expected_change_version: that of the row as it was shown.
ExpectedVersion(row) == row.version

Revision(op, row, payload) ==
    [game |-> row.game, seq |-> 0, op |-> op, expected |-> ExpectedVersion(row),
     payload |-> payload, request |-> NoRequest, shown |-> row.version]

Writing(c) == [Invalidated(hist) EXCEPT !.write = [change |-> c, answer |-> NoAnswer]]

\* saveEdit.  The context of a game is not edited, its kind becomes that of the
\* mode that has the context now; a form that is not filled in properly is not sent.
SaveEdit ==
    /\ Displayed /\ hist.editing # Absent /\ ~Busy
    /\ \/ hist' = Invalidated(hist)
       \/ \E p \in Payload :
             /\ ContextOf[p[Mode]] = ContextOf[hist.editing.payload[Mode]] /\ ~Deleted(p)
             /\ hist' = Writing(Revision("update", hist.editing, p))

DeleteRow(row) ==
    Choosable(row) /\ hist' = Writing(Revision("delete", row, row.payload))

DeliverHistoryWrite ==
    /\ hist.write # Absent /\ hist.write.answer = NoAnswer
    /\ Handle(hist.write.change)
    /\ hist' = [hist EXCEPT !.write.answer = Outcome(hist.write.change)]
    /\ UNCHANGED late

Without(g) == {row \in hist.rows : row.game # g}

HistoryWriteReturns ==
    /\ hist.write # Absent /\ hist.write.answer # NoAnswer
    /\ LET h == [hist EXCEPT !.write = Absent]
           c == hist.write.change
           status == hist.write.answer.status
       IN  hist' = IF c.op = "update"
                   THEN CASE status = "applied"  -> AfterWriting([h EXCEPT !.editing = Absent])
                          [] status = "conflict" -> [h EXCEPT !.editing = Absent]
                          [] OTHER -> h
                   ELSE IF status = "applied"
                   THEN AfterWriting([h EXCEPT !.rows = Without(c.game)])
                   ELSE h

\* The answer does not come, or the page is left before it does.
Forsaken(write) == IF write # Absent /\ write.answer = NoAnswer THEN {write.change} ELSE {}

HistoryWriteLost ==
    /\ hist.write # Absent
    /\ late' = late \cup Forsaken(hist.write)
    /\ hist' = [hist EXCEPT !.write = Absent]
    /\ UNCHANGED <<games, clock, acked, past, receipts, active>>

LeaveHistory ==
    /\ hist # Absent /\ hist' = Absent
    /\ late' = late \cup Forsaken(hist.write)
    /\ UNCHANGED <<games, clock, acked, past, receipts, active>>

-----------------------------------------------------------------------------
HistoryPurpose == {"first", "refresh", "written", "more"}
Cut == [snapshot : Nat, more : BOOLEAN, cursor : Games \cup {Absent}]

HistoryTypeOK ==
    hist # Absent =>
        /\ hist.modes \subseteq Definition /\ hist.filter \in ModeIds \cup {AllModes}
        /\ hist.rows \subseteq VersionedRow /\ hist.editing \in VersionedRow \cup {Absent}
        /\ hist.page \in Cut \cup {Absent}
        /\ hist.loading \in BOOLEAN /\ hist.moreLoading \in BOOLEAN /\ hist.stale \in BOOLEAN
        /\ hist.moved \in BOOLEAN
        /\ hist.write # Absent => hist.write.change \in Change /\ hist.write.answer \in Answered
        /\ \A r \in hist.reads : r.purpose \in HistoryPurpose
=============================================================================
