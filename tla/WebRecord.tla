----------------------------- MODULE WebRecord -----------------------------
(***************************************************************************)
(* The record page of the web client (web/src/games/useRecordController.ts *)
(* and gameApi.ts): saving a game and asking again for an unknown result,  *)
(* undoing the last game, and the reads that fill the form from the state  *)
(* on the server.                                                          *)
(*                                                                         *)
(* The controller lives above the routes, so requests go on while another  *)
(* page is open.  Every action of its own is one turn of the event loop.   *)
(* reading.current numbers the reads, and an answer with an old number is  *)
(* dropped: a read that is superseded is forgotten here at once.           *)
(***************************************************************************)
EXTENDS WebServer

VARIABLES rec,      \* the controller
          issued,   \* the game and request ids (UUIDs) generated so far
          told      \* ghost: what the user was told of the writes of this page, and
                    \* the games whose creation the server began to admit on its way

recordVars == <<rec, issued, told>>

Purpose == {"load", "refresh", "replace", "saved", "undone"}

\* state is what the form's standings were read from, last the game that undo
\* deletes, attempt the create whose result is unknown, write the request that
\* is awaited.
FreshRecord ==
    [loaded |-> FALSE, loading |-> TRUE, ready |-> FALSE, dirty |-> FALSE,
     state |-> Absent, last |-> Absent, attempt |-> Absent, write |-> Absent, reads |-> {}]

RecordInit ==
    /\ rec = FreshRecord
    /\ issued = [games |-> Existing, requests |-> 0]
    /\ told = [saved |-> {}, refused |-> {}, version |-> NoVersion, reopened |-> {}]

RecordRead(purpose) == [purpose |-> purpose, answer |-> Absent]

\* submitting.current: until a write and the read that follows it have ended.
Submitting == rec.write # Absent \/ \E r \in rec.reads : r.purpose \in {"saved", "undone"}

\* (A slip: the generation is not compared.)
Kept(reads) == reads

\* reading.current += 1
Superseded(reads) == {}

ToUndo(state) == IF state.last = {} THEN Absent
                 ELSE LET row == CHOOSE row \in state.last : TRUE
                      IN  [game |-> row.game, version |-> row.version]

-----------------------------------------------------------------------------
(* Reads.                                                                  *)

Loading(r) == [r EXCEPT !.loading = TRUE, !.ready = FALSE,
                        !.reads = Superseded(@) \cup {RecordRead("load")}]

\* The effect of a visit.  It leaves an unknown result and a draft alone, and
\* cancels a load of an earlier visit in any case.
Visit ==
    /\ rec' = IF rec.attempt # Absent \/ Submitting \/ (rec.loaded /\ rec.dirty)
              THEN [rec EXCEPT !.reads = {r \in @ : r.purpose # "load"}]
              ELSE Loading(rec)
    /\ UNCHANGED <<issued, told>>

\* handleRefresh: a page without modes starts over.
RefreshRecord ==
    /\ ~rec.loading /\ ~Submitting /\ rec.attempt = Absent
    /\ rec' = IF ~rec.loaded THEN Loading(rec)
              ELSE [rec EXCEPT !.ready = FALSE,
                       !.reads = Superseded(@) \cup
                           {RecordRead(IF rec.last = Absent THEN "replace" ELSE "refresh")}]
    /\ UNCHANGED <<issued, told>>

AnswerRecordRead(r) ==
    /\ r.answer = Absent
    /\ rec' = [rec EXCEPT !.reads = (@ \ {r}) \cup {[r EXCEPT !.answer = RecordState]}]
    /\ UNCHANGED <<issued, told>>

\* The receipt of a save is what undo acts on, whatever the server has by now.
LastAfter(r) ==
    CASE r.purpose = "load" -> IF rec.last # Absent THEN rec.last ELSE ToUndo(r.answer)
      [] r.purpose \in {"replace", "undone"} -> ToUndo(r.answer)
      [] OTHER -> rec.last

RecordReadReturns(r) ==
    /\ r.answer # Absent
    /\ rec' = [rec EXCEPT !.state = r.answer, !.ready = TRUE, !.last = LastAfter(r),
                          !.dirty = FALSE, !.loaded = TRUE,
                          !.loading = @ /\ r.purpose # "load", !.reads = @ \ {r}]
    /\ UNCHANGED <<issued, told>>

RecordReadFails(r) ==
    /\ r.answer = Absent
    /\ rec' = [rec EXCEPT !.loading = @ /\ r.purpose # "load", !.reads = @ \ {r}]
    /\ UNCHANGED <<issued, told>>

-----------------------------------------------------------------------------
(* The form.                                                               *)

FillIn ==
    /\ ~rec.loading /\ rec.ready /\ ~Submitting /\ rec.attempt = Absent
    /\ rec' = [rec EXCEPT !.dirty = TRUE]
    /\ UNCHANGED <<issued, told>>

SelectMode ==
    /\ ~rec.loading /\ rec.ready /\ ~Submitting /\ rec.attempt = Absent
    /\ rec' = [rec EXCEPT !.dirty = FALSE]
    /\ UNCHANGED <<issued, told>>

-----------------------------------------------------------------------------
(* Writes.                                                                 *)

Sending(r, c) == [r EXCEPT !.write = [change |-> c, answer |-> NoAnswer],
                           !.reads = Superseded(@)]

Creation(a) == [game |-> a.game, seq |-> 0, op |-> "create", expected |-> NoVersion,
                payload |-> a.payload, request |-> a.request, shown |-> NoVersion]

\* (A slip: a delete without a version, which the server takes to mean any.)
AnyVersion(version) == NoVersion

\* expected_change_version: what the page had on screen.
ExpectedOf(version) == version

NoPayload == CHOOSE p \in Payload : TRUE   \* a delete sends none

Deletion(game, version) ==
    [game |-> game, seq |-> 0, op |-> "delete", expected |-> ExpectedOf(version),
     payload |-> NoPayload, request |-> NoRequest, shown |-> version]

\* prepareCreate: new ids and a frozen payload, once for a game that is entered.
Prepare ==
    /\ ~rec.loading /\ rec.ready /\ ~Submitting /\ rec.attempt = Absent
    /\ issued.requests < MaxAttempts
    /\ \E g \in Games \ (issued.games \cup Foreign), p \in {p \in Payload : ~Deleted(p)} :
          LET a == [game |-> g, request |-> issued.requests + 1, payload |-> p]
          IN  /\ issued' = [games |-> issued.games \cup {g}, requests |-> a.request]
              /\ rec' = Sending([rec EXCEPT !.attempt = a], Creation(a))
    /\ UNCHANGED told

\* The same request again, for a result that is unknown.
SaveAgain ==
    /\ ~rec.loading /\ ~Submitting /\ rec.attempt # Absent
    /\ rec' = Sending(rec, Creation(rec.attempt))
    /\ UNCHANGED <<issued, told>>

\* handleUndo
Undo ==
    /\ ~rec.loading /\ ~Submitting /\ rec.attempt = Absent /\ rec.last # Absent
    /\ rec' = Sending(rec, Deletion(rec.last.game, rec.last.version))
    /\ UNCHANGED <<issued, told>>

DeliverRecordWrite ==
    /\ rec.write # Absent /\ rec.write.answer = NoAnswer
    /\ Handle(rec.write.change)
    /\ rec' = [rec EXCEPT !.write.answer = Outcome(rec.write.change)]
    /\ UNCHANGED <<late, issued, told>>

\* A write is confirmed: the form waits for a read made after it.
Confirmed(r, last, purpose) ==
    [r EXCEPT !.write = Absent, !.last = last, !.ready = FALSE,
              !.reads = Superseded(@) \cup {RecordRead(purpose)}]

Saved(g, v) ==
    /\ rec' = Confirmed([rec EXCEPT !.attempt = Absent, !.dirty = FALSE],
                        [game |-> g, version |-> v], "saved")
    /\ told' = [told EXCEPT !.saved = @ \cup {g}, !.version = IF v > @ THEN v ELSE @]

\* GameConflictError or GameMutationRejectedError: the user enters the game anew.
Refused(g) ==
    /\ rec' = [rec EXCEPT !.write = Absent, !.attempt = Absent]
    /\ told' = [told EXCEPT !.refused = @ \cup {g}]

Undone(v) ==
    /\ rec' = Confirmed(rec, Absent, "undone")
    /\ told' = [told EXCEPT !.version = IF v > @ THEN v ELSE @]

\* Whatever went wrong with an undo, the page no longer knows what is last.
NotUndone(r) == [r EXCEPT !.write = Absent, !.ready = FALSE, !.last = Absent]

RecordWriteReturns ==
    /\ rec.write # Absent /\ rec.write.answer # NoAnswer
    /\ LET c == rec.write.change
           a == rec.write.answer
       IN  IF c.op = "create"
           THEN IF a.status = "applied" THEN Saved(c.game, a.version) ELSE Refused(c.game)
           ELSE IF a.status = "applied" THEN Undone(a.version)
           ELSE rec' = NotUndone(rec) /\ UNCHANGED told
    /\ UNCHANGED issued

\* The answer does not come, or not in a form that tells anything.
Unanswered(write) == IF write # Absent /\ write.answer = NoAnswer THEN {write.change} ELSE {}

RecordWriteLost ==
    /\ rec.write # Absent
    /\ late' = late \cup Unanswered(rec.write)
    /\ rec' = IF rec.write.change.op = "create" THEN [rec EXCEPT !.write = Absent]
              ELSE NotUndone(rec)
    /\ UNCHANGED <<games, clock, acked, past, receipts, active, issued, told>>

-----------------------------------------------------------------------------
RecordTypeOK ==
    /\ rec \in [loaded : BOOLEAN, loading : BOOLEAN, ready : BOOLEAN, dirty : BOOLEAN,
               state : {Absent} \cup [snapshot : Nat, last : SUBSET VersionedRow],
               last : {Absent} \cup [game : Games, version : Nat],
               attempt : {Absent} \cup [game : Games, request : 1 .. MaxAttempts, payload : Payload],
               write : {Absent} \cup [change : Change, answer : Answered],
               reads : SUBSET [purpose : Purpose,
                               answer : {Absent} \cup [snapshot : Nat, last : SUBSET VersionedRow]]]
    /\ issued.games \subseteq Games /\ issued.requests \in 0 .. MaxAttempts
=============================================================================
