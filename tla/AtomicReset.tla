---------------------------- MODULE AtomicReset ----------------------------
(***************************************************************************)
(* What a reset of the local data promises: the data of this installation  *)
(* is replaced as a whole, at one moment, and an application that is open  *)
(* sees exactly the data that counts.  How the files get there is          *)
(* LocalReset's business: while the application is closed the files may    *)
(* look like anything.                                                     *)
(***************************************************************************)
EXTENDS Naturals

CONSTANTS Dirs, Files   \* profile directories and loose files of the application

Names == Dirs \cup Files

VARIABLES
    data,      \* data[n]: the epoch n was written in, 0 if there is no n
    epoch,     \* resets that took effect, plus one; 0 before the first start
    visible,   \* what is in the data directory
    open,      \* the application is using it
    known      \* the epoch of the profile state the application has in memory

vars == <<data, epoch, visible, open, known>>

Init ==
    /\ data = [n \in Names |-> 0] /\ visible = data
    /\ epoch = 0 /\ open = FALSE /\ known = 0

\* The first start: directories are made, files of an older installation copied.
Found ==
    /\ ~open /\ epoch = 0
    /\ \A n \in Names : data'[n] \in {data[n], 1}
    /\ UNCHANGED <<epoch, open, known>>

Open ==
    /\ ~open /\ open'
    /\ epoch' = (IF epoch = 0 THEN 1 ELSE epoch)
    /\ IF epoch = 0 THEN \A n \in Names : data'[n] \in {data[n], 1}
                    ELSE data' = data
    /\ visible' = data' /\ known' = epoch'

\* Files are written, never those of another epoch.
Write ==
    /\ open
    /\ \A n \in Names : data'[n] # data[n] => n \in Files /\ data'[n] = epoch
    /\ visible' = data'
    /\ UNCHANGED <<epoch, open, known>>

Close ==
    /\ open /\ ~open'
    /\ UNCHANGED <<data, epoch, visible>>

\* Files are moved about behind a closed application.
Rearrange ==
    /\ ~open
    /\ UNCHANGED <<data, epoch, open>>

Replace ==
    /\ ~open
    /\ epoch' = epoch + 1
    /\ data' = [n \in Names |-> IF n \in Dirs THEN epoch' ELSE 0]
    /\ UNCHANGED open

Next == Found \/ Open \/ Write \/ Close \/ Rearrange \/ Replace

Spec == Init /\ [][Next]_vars
=============================================================================
