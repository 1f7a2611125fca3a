---------------------------- MODULE MC_ParamSpec ----------------------------
(***************************************************************************)
(* ParamSpec for one function script of two formals and one local, over  *)
(* three compilations.  Every frame of the script is a function frame    *)
(* with its formals (missing actuals read as undefined); the values of   *)
(* the formals and the local vary from call to call.                     *)
(***************************************************************************)
EXTENDS ParamSpec

MCArgVals == {"undefined", "v"}

MCFrames ==
  {[hasArgs |-> TRUE, isFunctionFrame |-> TRUE, formals |-> fs, slots |-> <<l>>] :
     fs \in [1..2 -> MCArgVals], l \in MCArgVals}
=============================================================================
