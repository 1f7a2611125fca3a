------------------------------- MODULE CPSem --------------------------------
(***************************************************************************)
(* The meaning of a def-use graph, shared by the constant propagation     *)
(* models CP and AbstractCP.                                              *)
(***************************************************************************)
EXTENDS Integers, Sequences

(***************************************************************************)
(* Reference semantics.  Sem gives every node the set of values it can     *)
(* take in some execution, as the least fixed point of the collecting      *)
(* semantics: a parameter or call result is any of ParamVals, a phi any    *)
(* value of any operand, an add the sums of its operands' values (the      *)
(* values above Big are one saturated value).                              *)
(***************************************************************************)
ParamVals == {0, 1}
Big == 16
Sat(x) == IF x >= Big THEN Big ELSE x

Sem(k, v, o, D) ==
  LET F(S) == [n \in D |->
                 CASE k[n] = "Constant"         -> {Sat(v[n])}
                   [] k[n] \in {"Param", "Call"} -> ParamVals
                   [] k[n] = "Add" -> {Sat(a + b) : a \in S[o[n][1]],
                                                    b \in S[o[n][2]]}
                   [] k[n] = "Phi" -> UNION {S[o[n][i]] : i \in DOMAIN o[n]}
                   [] OTHER -> {}]
      RECURSIVE Lfp(_)
      Lfp(S) == IF F(S) = S THEN S ELSE Lfp(F(S))
  IN  Lfp([n \in D |-> {}])
=============================================================================
