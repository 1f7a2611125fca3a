-------------------------------- MODULE MC_CP --------------------------------
(***************************************************************************)
(* Model-checking instances of CP.  GenGraphs(n) is every def-use graph   *)
(* of n instructions in SSA form: an add or a call uses earlier            *)
(* instructions only, a phi has two operands, the first (the loop entry)   *)
(* earlier and the second (the back edge) anywhere, itself included.       *)
(* Curated5 holds the example scenarios of spec section 8 and the phi      *)
(* cycles that need more than one relaxation round.                        *)
(***************************************************************************)
EXTENDS CP

Leaf(k, v) == [kind |-> k, val |-> v, ops |-> <<>>]
Opt(i, n) ==
  {Leaf("Constant", v) : v \in {1, 2}} \cup {Leaf("Param", 0)}
  \cup {[kind |-> "Add", val |-> 0, ops |-> <<a, b>>] : a, b \in 1..(i - 1)}
  \cup {[kind |-> "Phi", val |-> 0, ops |-> <<a, b>>] :
          a \in 1..(i - 1), b \in 1..n}
  \cup {[kind |-> "Call", val |-> 0, ops |-> <<a>>] : a \in 1..(i - 1)}

AsGraph(f, n) ==
  [kind |-> [i \in 1..n |-> f[i].kind],
   val  |-> [i \in 1..n |-> f[i].val],
   ops  |-> [i \in 1..n |-> f[i].ops]]

GenGraphs(n) ==
  LET RECURSIVE GraphPrefixes(_)
      GraphPrefixes(i) == IF i = 0 THEN {<<>>}
                    ELSE {Append(s, o) : s \in GraphPrefixes(i - 1), o \in Opt(i, n)}
  IN  {AsGraph(f, n) : f \in GraphPrefixes(n)}

MCGraphs3 == GenGraphs(3)

G(ks, vs, os) == [kind |-> ks, val |-> vs, ops |-> os]
Curated5 == {
  \* spec 8.1: c = a + b folds to 7, then a phi of c and itself
  G(<<"Constant", "Constant", "Add", "Phi", "Call">>, <<3, 4, 0, 0, 0>>,
    <<<<>>, <<>>, <<1, 2>>, <<3, 4>>, <<4>>>>),
  \* spec 8.2: p = phi(5, q), q = phi(p, p): a two-phi cycle of constant 5
  G(<<"Constant", "Phi", "Phi", "Constant", "Add">>, <<5, 0, 0, 1, 0>>,
    <<<<>>, <<1, 3>>, <<2, 2>>, <<>>, <<3, 4>>>>),
  \* spec 8.3: p = phi(1, 2) merged with a parameter: Top
  G(<<"Constant", "Constant", "Phi", "Param", "Phi">>, <<1, 2, 0, 0, 0>>,
    <<<<>>, <<>>, <<1, 2>>, <<>>, <<3, 4>>>>),
  \* a cycle closed through an add: i = phi(0, i + 0) stays Top
  G(<<"Constant", "Phi", "Add", "Phi", "Add">>, <<0, 0, 0, 0, 0>>,
    <<<<>>, <<1, 3>>, <<2, 1>>, <<2, 4>>, <<4, 1>>>>),
  \* nested cycles p = phi(1, q), q = phi(p, r), r = phi(q, p)
  G(<<"Constant", "Phi", "Phi", "Phi", "Add">>, <<1, 0, 0, 0, 0>>,
    <<<<>>, <<1, 3>>, <<2, 4>>, <<3, 2>>, <<4, 1>>>>),
  \* two entry constants of equal value through distinct instructions
  G(<<"Constant", "Constant", "Phi", "Phi", "Call">>, <<2, 2, 0, 0, 0>>,
    <<<<>>, <<>>, <<1, 4>>, <<2, 3>>, <<3>>>>),
  \* nested loops p = phi(1, q), q = phi(p, 2): different constants meet
  G(<<"Constant", "Constant", "Phi", "Phi", "Call">>, <<1, 2, 0, 0, 0>>,
    <<<<>>, <<>>, <<1, 4>>, <<3, 2>>, <<4>>>>)
}
=============================================================================
