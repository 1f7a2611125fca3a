-------------------------------- MODULE MC_BCE --------------------------------
(***************************************************************************)
(* Model-checking instances of BCE over the loop graphs of LoopGraphs.     *)
(***************************************************************************)
EXTENDS BCE, LoopGraphs

\* A parameter is -2 or 3 when the function runs: a negative index and one
\* past every upper bound used below.
MCParamVals == {-2, 3}

\* Loops BCE must handle correctly: a non-negative constant start, a
\* strict `<' bound, the check in the body, with or without a negative
\* step, a store to the array, a second use of the check or a ToInt32.
SafeGraphs ==
  { Build(Loop([style |-> s, L |-> l, C |-> c, U |-> u, A |-> a,
                ck |-> k[1], min |-> k[2], max |-> k[3],
                store |-> f = "store", extra |-> f = "extra",
                conv |-> f = "conv"])) :
      s \in {"for", "dowhile"}, l \in {0, 1}, c \in {-1, 1}, u \in {2, 3},
      a \in {2, 3},
      k \in {<<"exact", 0, 0>>, <<"range", -1, 0>>, <<"range", 0, 1>>,
             <<"lower", 1, 0>>},
      f \in {"none", "store", "extra", "conv"} }

\* i0 = q < 2 ? 1 : 0; do { a[i - 1]; } while (i + 1 < 2), and the same
\* with a check of i >= 1: the first phi operand is the larger start.
DoWhileDiamondGraphs ==
  { Build(Loop([style |-> "dowhile", diamond |-> TRUE, L |-> 1, L2 |-> 0,
                ck |-> k[1], min |-> k[2], max |-> k[3]])) :
      k \in {<<"range", -1, 0>>, <<"lower", 1, 0>>} }

\* The same loops started at i0 = q < 2 ? L : L2, with a check a[i - 1]
\* or a check of i >= 1 that needs both starts to be 1; a do-while is
\* included only when its first phi operand is the smaller start.
DiamondGraphs ==
  { Build(Loop([style |-> s, diamond |-> TRUE, L |-> l, L2 |-> l2,
                ck |-> k[1], min |-> k[2], max |-> k[3]])) :
      s \in {"for", "dowhile"}, l \in {0, 1}, l2 \in {0, 1},
      k \in {<<"range", -1, 0>>, <<"lower", 1, 0>>} } \ DoWhileDiamondGraphs

\* Every loop BCE must handle correctly.
AllSafeGraphs == SafeGraphs \cup DiamondGraphs


\* for (i = 0; i <= 2; i++) a[i] over a two-element array.
LEGraphs == {Build(Loop([op |-> "LE"]))}

\* for (i = p; i < 2; i++) a[i]: the start is a parameter.
ParamStartGraphs == {Build(Loop([lowKind |-> "Param"]))}

\* Loops that reach a check with a negative index.
NegativeIndexGraphs == ParamStartGraphs \cup DoWhileDiamondGraphs

\* for (i = 0; i < 2; i++) with the check in the loop header.
HeaderCheckGraphs == {Build(Loop([inHeader |-> TRUE]))}

\* for (i = 0; i < 2; i = p + 1) a[i - 0 .. i + 1] over three elements.
OtherIncGraphs ==
  {Build(Loop([incOther |-> TRUE, ck |-> "range", max |-> 1, A |-> 3]))}

\* i = 3; do { a[i]; } while (i + 1 < 2) over two elements.
DoWhileFirstGraphs == {Build(Loop([style |-> "dowhile", L |-> 3]))}

\* A do-while whose phi takes a parameter on the backedge.
DoWhilePhiGraphs == {Build(Loop([style |-> "dowhile", incOther |-> TRUE]))}

\* The loop header taken as in range: a for-loop check there, and a do-while
\* whose first iteration is above the bound.
HeaderRangeGraphs == HeaderCheckGraphs \cup DoWhileFirstGraphs

\* Both patterns with an increment that is not the phi's own.
ForeignIncGraphs == OtherIncGraphs \cup DoWhilePhiGraphs
=============================================================================
