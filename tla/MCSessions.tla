----------------------------- MODULE MCSessions -----------------------------
(* Instances of Sessions for TLC. *)
EXTENDS Sessions, TLC

CONSTANTS member, first, second, ui, worker, other

TwoWindows == ui :> first @@ worker :> first @@ other :> second
=============================================================================
