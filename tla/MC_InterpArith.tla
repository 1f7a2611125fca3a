--------------------------- MODULE MC_InterpArith ---------------------------
(***************************************************************************)
(* InterpArith at width 4 (int32 is -8..7, shift counts are masked with   *)
(* 3) over two slots.  Two programs have between them a site of every    *)
(* helper.  The sites store back into the slots they read, so results    *)
(* feed later operations: an overflowed sum is the double operand of the *)
(* next op, a comparison's boolean is an operand of arithmetic.          *)
(***************************************************************************)
EXTENDS InterpArith

MCRegs == {1, 2}

S(op, a, b, dst) == [op |-> op, a |-> a, b |-> b, dst |-> dst]

\* The helpers that may store a double and call MonitorOverflow, and a
\* comparison whose boolean feeds them.
MCArithProg ==
  << S("add", 1, 2, 1), S("sub", 2, 1, 2), S("mul", 1, 2, 2), S("div", 1, 2, 1),
     S("mod", 2, 1, 2), S("ursh", 1, 2, 1), S("lt", 1, 2, 2) >>

\* The relational and bitwise helpers, whose operands include the doubles
\* and booleans the others produce.
MCBitProg ==
  << S("add", 1, 2, 1), S("div", 2, 1, 2), S("lt", 1, 2, 2), S("ge", 2, 1, 1),
     S("le", 1, 1, 2), S("gt", 2, 2, 1), S("bitnot", 1, 1, 1), S("bitxor", 1, 2, 2),
     S("bitor", 2, 1, 1), S("bitand", 1, 2, 2), S("lsh", 1, 2, 1),
     S("rsh", 2, 1, 2) >>

\* Entry values: int32 at the edges of the range, -0, a fraction, NaN.
MCInitVals == {I32(7), I32(-8), I32(-1), Dbl(Zero(TRUE)), Dbl(Rat(5, 2)), Dbl(NaN)}
MCProgs == {MCArithProg, MCBitProg}
=============================================================================
