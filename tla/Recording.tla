----------------------------- MODULE Recording -----------------------------
(***************************************************************************)
(* A game is recorded on the desktop: the modes an administrator defines   *)
(* reach the device and its window (modes.py, main_window.py), the form    *)
(* works out the standings (detail_form.py), the game is saved under a     *)
(* mode (db.py), and the server takes or refuses it (0023).  The form of   *)
(* the web client works out the same standings (formModel.ts).             *)
(*                                                                         *)
(* The UI thread opens, fills and saves forms; the sync thread fetches     *)
(* modes and sends games in between, also while a form is open.            *)
(***************************************************************************)
EXTENDS Integers, Sequences

CONSTANTS
    Modes,          \* ids of modes, as numbers in the order of the list (sort_order)
    Contexts,       \* play contexts; every mode has one (manage_game_modes.py)
    Definitions,    \* Definitions[m]: what an administrator may make of mode m
    AtFirst,        \* AtFirst[m]: what mode m is at first
    Tiers,          \* number of tiers
    Divisions,      \* number of divisions of a tier (RANK_DIVISION_MAX)
    MaxNumber,      \* the largest number a form lets the user type
    Entries,        \* bound: numbers a user types
    Blank,          \* nothing typed, nothing chosen, NULL, no such mode
    MaxRecorded,    \* bound: games recorded
    MaxCorrections, \* bound: games edited
    MaxDecisions    \* bound: modes defined or deleted, defaults chosen

Kinds == {"event_points", "rating", "rank"}

\* A row of game_modes, but for its id and what is only shown.
Definition == [kind : Kinds, context : Contexts, active : BOOLEAN]

ASSUME RecordingAssumption ==
    /\ Modes \subseteq Nat /\ MaxNumber \in Nat /\ Entries \subseteq 0..MaxNumber
    /\ Definitions \in [Modes -> SUBSET Definition]
    /\ AtFirst \in [Modes -> Definition \cup {Blank}]
    /\ {Tiers, Divisions} \subseteq Nat \ {0}
    /\ {MaxRecorded, MaxCorrections, MaxDecisions} \subseteq Nat

VARIABLES
    offered,    \* game_modes of the server: offered[m] is Blank or the row of m
    playModes,  \* play_modes, the device's cache of it
    memory,     \* default_mode and last_used_mode of the database
    window,     \* the modes the window lists, and the chosen one
    form,       \* the form that is open, if any; history: whether its mode has left
                \* the window since, or come back as something else (gone)
    log,        \* the games of the device, oldest first
    entered,    \* history: what the form of each of them said when it was saved
    given,      \* history: kind and context of modes the device was ever offered
    stored,     \* the games that the server has
    outbox,     \* outbox[g]: the newest change of game g, "due", "failed" or "none"
    rest        \* what is left of the bounds

recordingVars ==
    <<offered, playModes, memory, window, form, log, entered, given, stored, outbox, rest>>

Lowest(modes) == CHOOSE m \in modes : \A n \in modes : m <= n

\* get_active_play_modes.
Listed(rows) ==
    [m \in Modes |-> IF rows[m] # Blank /\ rows[m].active THEN rows[m] ELSE Blank]
Active(rows) == {m \in Modes : Listed(rows)[m] # Blank}

Pair(d) == <<d.kind, d.context>>
Pairs(rows) == {Pair(rows[m]) : m \in Active(rows)}

Closed == Blank

RecordingInit ==
    /\ offered = AtFirst /\ playModes = AtFirst /\ given = Pairs(AtFirst)
    /\ memory = [default |-> Blank, lastUsed |-> Blank]
    /\ window = [modes |-> Listed(playModes),
                 mode  |-> IF Active(playModes) = {} THEN Blank ELSE Lowest(Active(playModes))]
    /\ form = Closed
    /\ log = <<>> /\ entered = <<>> /\ stored = {} /\ outbox = <<>>
    /\ rest = [corrections |-> MaxCorrections, decisions |-> MaxDecisions]

Use(what) == rest[what] > 0 /\ rest' = [rest EXCEPT ![what] = @ - 1]

-----------------------------------------------------------------------------
(* Modes on their way to the window.                                       *)

\* The administrator defines a mode, anew or as something else, withdraws it or
\* brings it back, or deletes it (manage_game_modes).
ManageMode(m) ==
    /\ Use("decisions")
    /\ \E d \in Definitions[m] \cup {Blank} :
         d # offered[m] /\ offered' = [offered EXCEPT ![m] = d]
    /\ UNCHANGED <<playModes, memory, window, form, log, entered, given, stored, outbox>>

\* The sync thread has read the modes and replaces the cache.
SyncModes ==
    /\ playModes' = offered /\ playModes # offered
    /\ given' = given \cup Pairs(offered)
    /\ UNCHANGED <<offered, memory, window, form, log, entered, stored, outbox, rest>>

ResolvedDefault(modes) ==
    CASE modes = {}                -> Blank
      [] memory.default  \in modes -> memory.default
      [] memory.lastUsed \in modes -> memory.lastUsed
      [] OTHER                     -> Lowest(modes)

\* _reload_modes_if_changed that falls back to the default each time.
ReloadedAtDefault(rows) == [modes |-> Listed(rows), mode |-> ResolvedDefault(Active(rows))]

Reloaded(rows) ==
    [modes |-> Listed(rows),
     mode  |-> IF window.mode \in Active(rows) THEN window.mode
               ELSE ResolvedDefault(Active(rows))]

\* A status of the sync thread arrives at the window after a cycle.
SetSyncStatus ==
    /\ Listed(playModes) # window.modes
    /\ window' = Reloaded(playModes)
    /\ form' = IF form # Closed /\ form.mode # Blank /\ window'.modes[form.mode] # form.as
               THEN [form EXCEPT !.gone = TRUE] ELSE form
    /\ UNCHANGED <<offered, playModes, memory, log, entered, given, stored, outbox, rest>>

OnModeChanged(m) ==
    /\ form = Closed
    /\ window.modes[m] # Blank /\ m # window.mode
    /\ window' = [window EXCEPT !.mode = m]
    /\ UNCHANGED <<offered, playModes, memory, form, log, entered, given, stored, outbox, rest>>

\* In the settings window, which does not wait for the form.
SetDefaultMode(m) ==
    /\ m \in Active(playModes) /\ memory.default # m
    /\ Use("decisions")
    /\ memory' = [memory EXCEPT !.default = m]
    /\ UNCHANGED <<offered, playModes, window, form, log, entered, given, stored, outbox>>

-----------------------------------------------------------------------------
(* The standings a form works out.  An input i says who won, how the       *)
(* number was typed, the number, and for a rank the button that was used.  *)

Rungs == (1..Tiers) \X (1..Divisions)

ASSUME BlankAssumption == Blank \notin Int \cup Rungs \cup Definition

\* One step up: division 1 is the best of a tier.
Promoted(s) == IF s = <<Tiers, 1>> THEN s
               ELSE IF s[2] = 1 THEN <<s[1] + 1, Divisions>> ELSE <<s[1], s[2] - 1>>
Demoted(s)  == IF s = <<1, Divisions>> THEN s
               ELSE IF s[2] = Divisions THEN <<s[1] - 1, 1>> ELSE <<s[1], s[2] + 1>>

Quick == {"same", "up", "down"}

RungInputs ==
    [result : {"win"}, style : {"direct"}, before : Rungs, number : Rungs, quick : {"unused"}]
    \cup {[result |-> r, style |-> "direct", before |-> s, number |-> s, quick |-> q] :
             r \in {"win", Blank}, s \in Rungs, q \in Quick}

\* An edited game has its own numbers in the form at first.
NumberInputs(f) ==
    [result : {"win", "lose", Blank}, style : {"delta", "direct"},
     before : Entries \cup {Blank} \cup (IF f.editing = Blank THEN {} ELSE {f.base}),
     number : Entries \cup {Blank} \cup (IF f.editing = Blank THEN {} ELSE {f.last}),
     quick  : {"unused"}]

Inputs(f) == IF f.as.kind = "rank" THEN RungInputs ELSE NumberInputs(f)

\* The standings before and after, or Blank when the form refuses them.
Standings(before, after) ==
    IF Blank \in {before, after} THEN Blank ELSE [before |-> before, after |-> after]

Swing(before, i) == IF i.result = "win" THEN before + i.number ELSE before - i.number

\* values() and _RankPanel._apply_quick.
DesktopAfter(f, before, i) ==
    CASE f.as.kind = "rank" /\ i.quick # "unused" ->
             IF i.quick = "up" THEN Promoted(before)
             ELSE IF i.quick = "down" THEN Demoted(before) ELSE before
      [] f.as.kind # "rank" /\ f.editing = Blank /\ i.style = "delta" ->
             IF Blank \in {before, i.number} THEN Blank ELSE Swing(before, i)
      [] OTHER -> i.number

DesktopValues(f, i) ==
    LET typed  == \/ f.as.kind = "rank" \/ f.editing # Blank
                  \/ f.as.kind = "rating" /\ f.base = Blank
        before == IF typed THEN i.before ELSE f.base
    IN  IF i.result = Blank THEN Blank ELSE Standings(before, DesktopAfter(f, before, i))

\* What the form lets through.
Outcomes(f) == {DesktopValues(f, i) : i \in Inputs(f)} \ {Blank}

\* parseIntOrNull: a number in the range of _int_line's validator.  The desktop
\* asks the validator while a number is typed, not of one that is in the form
\* at first.
Parsed(n) == IF n \in 0..MaxNumber THEN n ELSE Blank

\* applyRankQuick.
RankQuick(before, quick) ==
    CASE quick = "up"   -> Promoted(before)
      [] quick = "down" -> Demoted(before)
      [] OTHER          -> before

\* buildEventPoints.
WebPoints(f, i) ==
    LET n == Parsed(i.number)
    IN  CASE f.editing # Blank -> Standings(Parsed(i.before), n)
          [] f.editing = Blank /\ i.style = "direct" -> Standings(f.base, n)
          [] OTHER -> IF n = Blank THEN Blank
                      ELSE IF Swing(f.base, i) < 0 THEN Blank
                      ELSE Standings(f.base, Swing(f.base, i))

\* buildRating that takes the typed number before the last game's.
WebRatingTypedFirst(f, i) ==
    LET n      == Parsed(i.number)
        before == IF Parsed(i.before) # Blank THEN Parsed(i.before) ELSE f.base
    IN  IF f.editing # Blank \/ i.style = "direct" THEN Standings(before, n)
        ELSE IF Blank \in {before, n} THEN Blank ELSE Standings(before, Swing(before, i))

\* buildRating.
WebRating(f, i) ==
    LET n      == Parsed(i.number)
        before == IF f.editing # Blank \/ f.base = Blank THEN Parsed(i.before) ELSE f.base
    IN  IF f.editing # Blank \/ i.style = "direct" THEN Standings(before, n)
        ELSE IF Blank \in {before, n} THEN Blank ELSE Standings(before, Swing(before, i))

\* buildGamePayload.
WebValues(f, i) ==
    IF i.result = Blank THEN Blank
    ELSE CASE f.as.kind = "event_points" -> WebPoints(f, i)
           [] f.as.kind = "rating"       -> WebRating(f, i)
           [] OTHER -> Standings(i.before, IF i.quick = "unused" THEN i.number
                                           ELSE RankQuick(i.before, i.quick))

-----------------------------------------------------------------------------
(* Forms.                                                                  *)

\* get_last_score, get_last_standing, get_last_rating of a mode, whose context the
\* cache tells; a mode that is not in it any more has no games.
LastAfter(kind, m) ==
    LET known == {g \in DOMAIN log : /\ playModes[m] # Blank
                                     /\ log[g].context = playModes[m].context
                                     /\ log[g].kind = kind /\ log[g].after # Blank}
    IN  IF known # {} THEN log[CHOOSE g \in known : \A h \in known : h <= g].after
        ELSE IF kind = "event_points" THEN 0 ELSE Blank

ShowDetail ==
    /\ form = Closed /\ Len(log) < MaxRecorded
    /\ window.mode # Blank
    /\ LET d == window.modes[window.mode] IN
       form' = [mode |-> window.mode, as |-> d, editing |-> Blank,
                base |-> LastAfter(d.kind, window.mode), last |-> Blank, gone |-> FALSE]
    /\ UNCHANGED <<offered, playModes, memory, window, log, entered, given, stored, outbox, rest>>

\* set_values (and _row_mode: a mode without an id, of the game's kind and
\* context): what is in the desktop's form at first, from which the user
\* goes on.  The web's (gameToFormState) has no 0 for a missing number.
FormOf(g) ==
    [mode |-> Blank, as |-> [kind |-> log[g].kind, context |-> log[g].context, active |-> TRUE],
     editing |-> g,
     base |-> IF log[g].kind = "event_points" /\ log[g].before = Blank
              THEN 0 ELSE log[g].before,
     last |-> log[g].after, gone |-> FALSE]

EditSelected(g) ==
    /\ form = Closed
    /\ Use("corrections")
    /\ form' = FormOf(g)
    /\ UNCHANGED <<offered, playModes, memory, window, log, entered, given, stored, outbox>>

Back ==
    /\ form # Closed /\ form' = Closed
    /\ UNCHANGED <<offered, playModes, memory, window, log, entered, given, stored, outbox, rest>>

\* _payload: only the standings of its own kind get into a row.
Game(kind, context, values) ==
    [kind |-> kind, context |-> context,
     before |-> IF kind = form.as.kind THEN values.before ELSE Blank,
     after  |-> IF kind = form.as.kind THEN values.after  ELSE Blank]

Said(values) == [kind |-> form.as.kind, context |-> form.as.context, values |-> values,
                 gone |-> form.gone]

\* on_confirm that sets the play context alone.
ConfirmedContextOnly(values) ==
    IF window.mode = Blank THEN Game(form.as.kind, form.as.context, values)
    ELSE Game(form.as.kind, window.modes[window.mode].context, values)

\* The mode the window has now takes the place of the form's.
Confirmed(values) ==
    LET d == IF window.mode = Blank THEN form.as ELSE window.modes[window.mode]
    IN  Game(d.kind, d.context, values)

OnConfirm ==
    /\ form # Closed /\ form.editing = Blank
    /\ \E values \in Outcomes(form) :
          /\ log'     = Append(log, Confirmed(values))
          /\ entered' = Append(entered, Said(values))
    /\ memory' = [memory EXCEPT !.lastUsed = IF window.mode = Blank THEN @ ELSE window.mode]
    /\ outbox' = Append(outbox, "due")
    /\ form' = Closed
    /\ UNCHANGED <<offered, playModes, window, given, stored, rest>>

SaveEdited ==
    /\ form # Closed /\ form.editing # Blank
    /\ \E values \in Outcomes(form) :
          /\ log' = [log EXCEPT ![form.editing] = Game(form.as.kind, form.as.context, values)]
          /\ entered' = [entered EXCEPT ![form.editing] = Said(values)]
    /\ outbox' = [outbox EXCEPT ![form.editing] = "due"]
    /\ form' = Closed
    /\ UNCHANGED <<offered, playModes, memory, window, given, stored, rest>>

-----------------------------------------------------------------------------
(* Games on their way to the server.                                       *)

DueGames == {g \in DOMAIN log : outbox[g] = "due"}

Negative(values) == \E n \in {values.before, values.after} \ {Blank} : n < 0

\* The checks of apply_game_changes on the mode, and of games on the points.
Takes(g) ==
    /\ g \in stored \/ Pair(log[g]) \in Pairs(offered)
    /\ log[g].kind = "event_points" => ~Negative(log[g])

\* A push is one transaction of the server: all of its changes or none.
Push ==
    /\ DueGames # {}
    /\ LET taken == \A g \in DueGames : Takes(g)
       IN  /\ stored' = IF taken THEN stored \cup DueGames ELSE stored
           /\ outbox' = [g \in DOMAIN log |-> IF g \notin DueGames THEN outbox[g]
                                              ELSE IF taken THEN "none" ELSE "failed"]
    /\ UNCHANGED <<offered, playModes, memory, window, form, log, entered, given, rest>>

RetryFailed ==
    /\ \E g \in DOMAIN log : outbox[g] = "failed"
    /\ outbox' = [g \in DOMAIN log |-> IF outbox[g] = "failed" THEN "due" ELSE outbox[g]]
    /\ UNCHANGED <<offered, playModes, memory, window, form, log, entered, given, stored, rest>>

RecordingNext ==
    \/ \E m \in Modes : ManageMode(m) \/ OnModeChanged(m) \/ SetDefaultMode(m)
    \/ SyncModes \/ SetSyncStatus
    \/ ShowDetail \/ (\E g \in DOMAIN log : EditSelected(g)) \/ Back
    \/ OnConfirm \/ SaveEdited
    \/ Push \/ RetryFailed

RecordingSpec == RecordingInit /\ [][RecordingNext]_recordingVars

-----------------------------------------------------------------------------
(* A game is saved as it was entered, whatever modes arrive at the window  *)
(* while the form is open: under the kind and context the form was opened  *)
(* for, with the standings the form worked out.  The exception is a form   *)
(* whose mode was withdrawn or defined as something else under it          *)
(* (on_confirm, _reload_modes_if_changed).                                 *)
SavedAsEntered ==
    \A g \in DOMAIN log :
        \/ entered[g].gone
        \/ /\ log[g].context = entered[g].context
           /\ log[g].kind = entered[g].kind
           /\ log[g].before = entered[g].values.before
           /\ log[g].after  = entered[g].values.after

(* When the server refuses a push, and with it every game of the batch, a  *)
(* game in it has one of two known reasons: the administrator offered its  *)
(* kind in its context and does not any more, or event points below zero   *)
(* were entered.  Nothing the device makes up on its own is refused        *)
(* (values, on_confirm, _payload against apply_game_changes).              *)
RefusedForAReason ==
    [][\A g \in DOMAIN log : outbox[g] = "due" /\ outbox'[g] = "failed" =>
          \E h \in DueGames :
              \/ Pair(log[h]) \in given \ Pairs(offered)
              \/ entered[h].kind = "event_points" /\ Negative(entered[h].values)
      ]_recordingVars

\* A standing outside the range of numbers that can be typed: below zero after
\* a loss, or beyond the largest after many gains.
OutOfRange(values) == \E n \in {values.before, values.after} : n \notin 0..MaxNumber

(* The form of the web client and the one of the desktop work out the same *)
(* standings from the same input, and refuse the same.  The exception are  *)
(* numbers out of range, which the desktop works out and an edit keeps,    *)
(* and the web refuses: an edited number always, a sum below zero if it    *)
(* counts event points (formModel.ts buildGamePayload, detail_form.py      *)
(* values).                                                                *)
FormsAgree ==
    form # Closed =>
        \A i \in Inputs(form) :
            LET values == DesktopValues(form, i)
            IN  \/ WebValues(form, i) = values
                \/ /\ WebValues(form, i) = Blank
                   /\ form.as.kind # "rank" /\ OutOfRange(values)
=============================================================================
