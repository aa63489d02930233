----------------------------- MODULE MCWindows -----------------------------
(* What TLC checks of what stands in front of the user, in one run: a       *)
(* behaviour is one of the web client, or of the login and settings windows *)
(* of the desktop.                                                          *)
EXTENDS Web, ProfileRouter, TLC

VARIABLE runs   \* the part that is at work

Symmetry == Permutations(Values) \cup Permutations(Accounts) \cup Permutations(Requests)

\* Each value is a context of its own, and is offered by a mode at first.
OneKind  == [v \in Values |-> v]
OneByOne == {[id |-> v, offers |-> v] : v \in Values}

\* A click and a step of another client or the end of the session, or a click
\* and a mode that is taken away and comes back, perhaps as another.
Bounds == {[edits |-> 1, events |-> 1, decisions |-> 0],
           [edits |-> 1, events |-> 0, decisions |-> 2]}

windowsVars == <<vars, routerVars, runs>>

NoWeb ==
    /\ games = [g \in Games |-> Absent] /\ clock = 0 /\ acked = Absent /\ past = {}
    /\ receipts = [n \in 1 .. MaxAttempts |-> Absent] /\ active = AtFirst /\ late = {}
    /\ RecordInit /\ hist = Absent /\ route = "elsewhere" /\ uses = "record"
    /\ budget = [edits |-> 0, events |-> 0, decisions |-> 0]

WindowsInit ==
    /\ RouterInit
    /\ \/ runs = "web"     /\ Init
       \/ runs = "desktop" /\ NoWeb

WindowsNext ==
    \/ runs = "web"     /\ Next       /\ UNCHANGED <<routerVars, runs>>
    \/ runs = "desktop" /\ RouterNext /\ UNCHANGED <<vars, runs>>

WindowsSpec == WindowsInit /\ [][WindowsNext]_windowsVars
=============================================================================
