------------------------------ MODULE MCSettings ------------------------------
(* An instance of Settings for TLC: two preferences and one setting of the   *)
(* device; other clients upload nothing, a part, all and values of another   *)
(* version.                                                                  *)
EXTENDS Settings, TLC

UploadedByOthers ==
    {<<>>,
     "theme_mode" :> 1 @@ "score_input_mode" :> Odd,
     "score_input_mode" :> 1 @@ "default_mode" :> 1,
     "theme_mode" :> 1 @@ "score_input_mode" :> 0 @@ "default_mode" :> Odd}
=============================================================================
