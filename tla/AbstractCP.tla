----------------------------- MODULE AbstractCP ------------------------------
(***************************************************************************)
(* What constant propagation promises (spec sections 3 and 8), without    *)
(* the work list, the phi map or any visiting order.  A step rewrites      *)
(* operand slots of the def-use graph to constant nodes, possibly creating *)
(* fresh constants, and each rewritten slot is justified by the meaning of *)
(* the graph before the step:                                              *)
(*   - the definition the slot referred to only ever takes the constant's  *)
(*     value (folding an instruction), or                                  *)
(*   - the slot belongs to a phi that only ever takes the constant's       *)
(*     value and all of whose slots now refer to that constant (a phi     *)
(*     cycle proved constant).                                             *)
(* The pass ends only when no used instruction can still be folded from    *)
(* its operands, and it does end.                                          *)
(***************************************************************************)
EXTENDS Integers, Sequences, CPSem

CONSTANTS N, Graphs

VARIABLES kind, val, ops, done

avars == <<kind, val, ops, done>>

Ins  == 1..N
Node == 1..(2 * N)

Init ==
  /\ \E g \in Graphs :
       /\ kind = [n \in Node |-> IF n \in Ins THEN g.kind[n] ELSE "None"]
       /\ val  = [n \in Node |-> IF n \in Ins THEN g.val[n] ELSE 0]
       /\ ops  = [n \in Node |-> IF n \in Ins THEN g.ops[n] ELSE <<>>]
  /\ done = FALSE

Used(n) == \E m \in Node : \E i \in DOMAIN ops[m] : ops[m][i] = n

\* Slot i of n may now name c: justified by the values before the step.
Justified(S, n, i, c) ==
  /\ kind'[c] = "Constant"
  /\ \/ S[ops[n][i]] = {Sat(val'[c])}
     \/ /\ kind[n] = "Phi"
        /\ S[n] = {Sat(val'[c])}
        /\ \A j \in DOMAIN ops[n] : ops'[n][j] = c

Rewrite ==
  /\ ~done
  /\ <<kind, val, ops>>' # <<kind, val, ops>>
  /\ LET S == Sem(kind, val, ops, Node) IN
     /\ \A n \in Node : <<kind'[n], val'[n]>> # <<kind[n], val[n]>> =>
          kind[n] = "None" /\ kind'[n] = "Constant" /\ ~Used(n)
     /\ \A n \in Node : DOMAIN ops'[n] = DOMAIN ops[n]
     /\ \A n \in Node : \A i \in DOMAIN ops[n] :
          ops'[n][i] # ops[n][i] => Justified(S, n, i, ops'[n][i])
  /\ UNCHANGED done

\* An instruction that still folds: an add of two constants, or a phi
\* whose operands are constants of one value.
Foldable(n) ==
  LET cs == {ops[n][i] : i \in DOMAIN ops[n]} IN
  /\ kind[n] \in {"Add", "Phi"}
  /\ cs # {}
  /\ \A c \in cs : kind[c] = "Constant"
  /\ kind[n] = "Phi" => \A a, b \in cs : val[a] = val[b]

Finish ==
  /\ ~done
  /\ \A n \in Ins : Used(n) => ~Foldable(n)
  /\ done' = TRUE
  /\ UNCHANGED <<kind, val, ops>>

Spec == Init /\ [][Rewrite \/ Finish]_avars /\ WF_avars(Finish)
=============================================================================
