---------------------------- MODULE MCBackground ----------------------------
(* What TLC checks of the work behind the windows, in one run: a behaviour  *)
(* is one of the uploads of a guest profile or of an installation.          *)
EXTENDS GuestSync, Update

VARIABLE works   \* the part that is at work

backgroundVars == <<vars, updateVars, works>>

BackgroundInit ==
    /\ Init /\ UpdateInit
    /\ works \in {"upload", "install"}
    /\ works = "upload" => ready

BackgroundNext ==
    \/ works = "upload"  /\ Next       /\ UNCHANGED <<updateVars, works>>
    \/ works = "install" /\ UpdateNext /\ UNCHANGED <<vars, works>>

\* Where a part is idle, none of its fair steps is possible.
BackgroundSpec ==
    /\ BackgroundInit /\ [][BackgroundNext]_backgroundVars
    /\ UploadFairness /\ Fairness
=============================================================================
