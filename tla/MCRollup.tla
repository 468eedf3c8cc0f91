------------------------------ MODULE MCRollup ------------------------------
(* Constants for model checking Rollup: three events of two groups.         *)
EXTENDS Rollup, TLC

MCGroupOf == 1 :> 1 @@ 2 :> 2 @@ 3 :> 1
=============================================================================
