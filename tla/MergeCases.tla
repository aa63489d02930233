---------------------------- MODULE MergeCases ----------------------------
(***************************************************************************)
(* The merge of GamePayload on every base and every pair of edits made of  *)
(* it by two sides.  A side works on the record the way a device or the    *)
(* web page does: it changes fields of a live record one at a time, and    *)
(* may delete the record or bring a deleted one back.                      *)
(***************************************************************************)
EXTENDS GamePayload, FiniteSets

VARIABLES base, sides   \* sides[s]: the record as side s has it

vars == <<base, sides>>

Sides == {"device", "server"}
Stamp(s) == IF s = "device" THEN AtDevice ELSE AtServer

Init == /\ base \in Payload
        /\ sides = [s \in Sides |-> base]

EditField(s) ==
    /\ ~Deleted(sides[s])
    /\ \E f \in Fields, v \in Values : sides' = [sides EXCEPT ![s][f] = v]
    /\ UNCHANGED base

Delete(s) ==
    /\ ~Deleted(sides[s])
    /\ sides' = [sides EXCEPT ![s][DeletedAt] = Stamp(s)]
    /\ UNCHANGED base

Restore(s) ==
    /\ Deleted(sides[s])
    /\ sides' = [sides EXCEPT ![s][DeletedAt] = NotDeleted]
    /\ UNCHANGED base

Next == \E s \in Sides : EditField(s) \/ Delete(s) \/ Restore(s)

Spec == Init /\ [][Next]_vars

Local  == sides["device"]
Remote == sides["server"]

-----------------------------------------------------------------------------
(* A merge that goes through without asking the user keeps every change of *)
(* either side: a column this device changed has the device's value, one   *)
(* the server changed has the server's, and the rest are as in the base    *)
(* (repository.py _reconcile_remote, the path that queues a merged row).   *)
MergeKeepsBothSides ==
    ~Collides(base, Local, Remote) =>
        LET m == Merged(base, Local, Remote)
        IN  /\ \A c \in Changed(base, Local)  : Equivalent(c, m[c], Local[c])
            /\ \A c \in Changed(base, Remote) : Equivalent(c, m[c], Remote[c])
            /\ Changed(base, m) = Changed(base, Local) \cup Changed(base, Remote)

(* Two devices that merge the same pair of edits from opposite ends agree: *)
(* either both ask their user or both reach the same record, so a pair of  *)
(* automatic merges cannot chase each other through the server forever.    *)
MergeIsSymmetric ==
    /\ Collides(base, Local, Remote) <=> Collides(base, Remote, Local)
    /\ ~Collides(base, Local, Remote) =>
            SameRecord(Merged(base, Local, Remote), Merged(base, Remote, Local))

(* The operation queued for an automatic merge is worked out from the row  *)
(* as it was before the merge, yet it is the one the merged row needs: a   *)
(* delete only for a deleted row, a restore only for a live row the server *)
(* has deleted.  (A device and a server that both hold the record deleted, *)
(* with different fields, are the exception: no operation changes a        *)
(* deleted record.)                                                        *)
MergeIsQueuedAsWhatItIs ==
    ~Collides(base, Local, Remote) /\ ~(Deleted(Local) /\ Deleted(Remote)) =>
        LET m == Merged(base, Local, Remote)
        IN  ~SameRecord(m, Remote) => ResolutionOp(Local, Remote) = ResolutionOp(m, Remote)
=============================================================================
