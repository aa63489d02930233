------------------------------ MODULE MCRest ------------------------------
(* What TLC checks of the work that has to come to an end, in one run: a   *)
(* behaviour is one of a sync thread, or of resets and recoveries of the   *)
(* local data.                                                             *)
EXTENDS MCGameSync, LocalReset

VARIABLE does   \* the part that is at work

restVars == <<vars, resetVars, does>>

\* A profile that is closed: its thread has stopped, and nothing is to be sent.
NoSync ==
    /\ ServerInit
    /\ local  = [g \in Games |-> Unknown] /\ cursor = 0
    /\ worker = [w \in Workers |-> [Idle EXCEPT !.pc = "stopped"]]
    /\ active \in Workers /\ dialog = NoDialog /\ late = {}
    /\ budget = [edits |-> 0, others |-> 0, faults |-> 0, answers |-> 0]

\* A program that does nothing with its data, which no fair step of LocalReset moves.
NoReset ==
    /\ fs = [root |-> None, old |-> None, new |-> None, staging |-> FALSE, folders |-> {},
             tmp |-> FALSE, journal |-> NoJournal, marker |-> FALSE, epoch |-> 0]
    /\ job = NoJob /\ app = "stuck" /\ known = 0 /\ deck = NoDeck /\ generation = 0
    /\ left = [resets |-> 0, errors |-> 0, crashes |-> 0]

RestInit ==
    \/ does = "sync"  /\ Init   /\ NoReset
    \/ does = "reset" /\ NoSync /\ ResetInit

RestNext ==
    \/ does = "sync"  /\ Next      /\ UNCHANGED <<resetVars, does>>
    \/ does = "reset" /\ ResetNext /\ UNCHANGED <<vars, does>>

\* Of the part that is not at work no fair step can be taken.
RestSpec == RestInit /\ [][RestNext]_restVars /\ Fairness /\ ResetFairness
=============================================================================
