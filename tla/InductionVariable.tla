-------------------------- MODULE InductionVariable --------------------------
(***************************************************************************)
(* The induction variable recogniser of src/js/src/ion/InductionVariable  *)
(* .cpp, as pure operators over a MIR graph g.  Instructions are numbered  *)
(* 1..; NULL (0) is the null MDefinition*.  Blocks are numbered by their   *)
(* reverse-postorder id (RenumberBlocks has run).  The graph record has:  *)
(*   kind[i]   opcode; "Constant" is an int32 constant, "ConstDouble" a   *)
(*             non-int32 number, "ConstArray" a dense array object,       *)
(*             "ConstObject" another object                               *)
(*   ops[i]    operand sequence        blk[i]   owning block              *)
(*   cval[i]   int32 value of a Constant, initialized length of an array  *)
(*   jsop[i]   "LT" | "LE" | "GT" of a Compare                            *)
(*   bmin[i], bmax[i]  minimum() and maximum() of a bounds check          *)
(*   header    the loop header blocks   backedge[b]  a header's backedge  *)
(*   preds[b]  predecessor sequence     code[b]  instructions of block b  *)
(***************************************************************************)
EXTENDS Integers, Sequences, SequencesExt

NULL == 0

ConstKinds == {"Constant", "ConstDouble", "ConstArray", "ConstObject"}
ConvKinds  == {"ToInt32", "Unbox", "Box"}

(* Graph queries of the IR collaborator (MIR.h, MIRGraph.h).               *)
IsConstant(g, d) == d # NULL /\ g.kind[d] \in ConstKinds
IsInt32(g, d)    == g.kind[d] = "Constant"
Op(g, d, i)      == g.ops[d][i]
LastIns(g, b)    == Last(g.code[b])
IsLoopHeader(g, b)   == b \in g.header
IsLoopBackedge(g, b) == \E h \in g.header : g.backedge[h] = b
Uses(g, d) == {n \in DOMAIN g.ops : \E i \in DOMAIN g.ops[n] : g.ops[n][i] = d}

\* The phi behind d, or NULL: d itself, or the input of a ToInt32, Unbox
\* or Box of a phi (InductionVariable.cpp:70-91 and 282-296).
PhiBehind(g, d) ==
  IF g.kind[d] = "Phi" THEN d
  ELSE IF g.kind[d] \in ConvKinds /\ g.kind[Op(g, d, 1)] = "Phi"
       THEN Op(g, d, 1) ELSE NULL

\* The compare tested by the last instruction of block b, or NULL when
\* that is not a Test of an LT or LE Compare (lines 49-62, 250-263).
LoopCompare(g, b) ==
  LET t == LastIns(g, b)
  IN  IF g.kind[t] = "Test" /\ g.kind[Op(g, t, 1)] = "Compare"
         /\ g.jsop[Op(g, t, 1)] \in {"LT", "LE"}
      THEN Op(g, t, 1) ELSE NULL

IncrementAnySign(g, add) ==
  LET inc == IF IsConstant(g, Op(g, add, 1)) THEN Op(g, add, 1)
             ELSE IF IsConstant(g, Op(g, add, 2)) THEN Op(g, add, 2)
             ELSE NULL
  IN  IF inc # NULL /\ IsInt32(g, inc) THEN inc ELSE NULL

\* The increment of an add: its constant lhs, else its constant rhs, when
\* that is a non-negative int32; NULL otherwise (lines 159-175, 327-343).
Increment(g, add) ==
  LET inc == IF IsConstant(g, Op(g, add, 1)) THEN Op(g, add, 1)
             ELSE IF IsConstant(g, Op(g, add, 2)) THEN Op(g, add, 2)
             ELSE NULL
  IN  IF inc # NULL /\ IsInt32(g, inc) /\ g.cval[inc] >= 0 THEN inc ELSE NULL

\* The upper bound kept from the compare's rhs (lines 216-233, 357-373):
\* a non-negative int32 constant, minus one for an LE compare.
UpperBound(g, cmp) ==
  LET r == Op(g, cmp, 2)
  IN  IF IsConstant(g, r) /\ IsInt32(g, r) /\ g.cval[r] >= 0
      THEN [has |-> TRUE,
            v |-> IF g.jsop[cmp] = "LE" THEN g.cval[r] - 1 ELSE g.cval[r]]
      ELSE [has |-> FALSE, v |-> 0]

LowerFrom(isInt, v) ==
  IF isInt /\ v >= 0 THEN [has |-> TRUE, v |-> v] ELSE [has |-> FALSE, v |-> 0]

NoMatch == [ok |-> FALSE, var |-> NULL, lb |-> [has |-> FALSE, v |-> 0],
            ub |-> [has |-> FALSE, v |-> 0], doWhile |-> FALSE]

LowerBoundMax(g, mlb) ==
  LET lphi == g.kind[mlb] = "Phi" /\ Len(g.ops[mlb]) = 2
              /\ IsInt32(g, Op(g, mlb, 1)) /\ IsInt32(g, Op(g, mlb, 2))
  IN  CASE IsConstant(g, mlb) -> LowerFrom(IsInt32(g, mlb), g.cval[mlb])
        [] lphi -> LowerFrom(TRUE, IF g.cval[Op(g, mlb, 1)] >= g.cval[Op(g, mlb, 2)]
                                   THEN g.cval[Op(g, mlb, 1)]
                                   ELSE g.cval[Op(g, mlb, 2)])
        [] OTHER -> LowerFrom(FALSE, 0)

\* The lower bound kept from the phi's other operand mlb (lines 179-213):
\* an int32 constant, or the smaller of a phi of two int32 constants, when
\* it is non-negative.
LowerBound(g, mlb) ==
  LET lphi == g.kind[mlb] = "Phi" /\ Len(g.ops[mlb]) = 2
              /\ IsInt32(g, Op(g, mlb, 1)) /\ IsInt32(g, Op(g, mlb, 2))
  IN  CASE IsConstant(g, mlb) -> LowerFrom(IsInt32(g, mlb), g.cval[mlb])
        [] lphi -> LowerFrom(TRUE, IF g.cval[Op(g, mlb, 1)] <= g.cval[Op(g, mlb, 2)]
                                   THEN g.cval[Op(g, mlb, 1)]
                                   ELSE g.cval[Op(g, mlb, 2)])
        [] OTHER -> LowerFrom(FALSE, 0)

-----------------------------------------------------------------------------
(* InductionVariable::extractUBCSPattern (lines 39-236): the for-loop    *)
(* pattern at header b.  The search for the add (lines 106-157) is an      *)
(* else-if chain: the first candidate whose opcode test holds decides,     *)
(* even when its inner condition then fails.                               *)
ExtractUBCSPattern(g, b) ==
  LET cmp == LoopCompare(g, b)
      phi == IF cmp = NULL THEN NULL ELSE PhiBehind(g, Op(g, cmp, 1))
      Cands == <<<<"Add", 1>>, <<"Add", 2>>, <<"ToInt32", 1>>,
                 <<"ToInt32", 2>>, <<"Unbox", 1>>, <<"Unbox", 2>>,
                 <<"Box", 1>>, <<"Box", 2>>>>
      Picks(c) == LET o == Op(g, phi, c[2])
                  IN  g.kind[o] = c[1]
                      /\ (c[1] = "Add" => IsLoopBackedge(g, g.blk[o]))
      j    == SelectInSeq(Cands, Picks)
      on   == Op(g, phi, Cands[j][2])
      add  == IF j = 0 THEN NULL
              ELSE IF Cands[j][1] = "Add" THEN on
              ELSE IF g.kind[Op(g, on, 1)] = "Add"
                      /\ IsLoopBackedge(g, g.blk[on]) THEN Op(g, on, 1)
              ELSE NULL
      mlb  == Op(g, phi, 3 - Cands[j][2])
  IN  IF /\ IsLoopHeader(g, b)
         /\ phi # NULL /\ Len(g.ops[phi]) = 2
         /\ add # NULL /\ Increment(g, add) # NULL
      THEN [ok |-> TRUE, var |-> phi, lb |-> LowerBound(g, mlb), ub |-> UpperBound(g, cmp),
            doWhile |-> FALSE]
      ELSE NoMatch

(* InductionVariable::extractUBCSPatternDoWhile (lines 238-377): the test *)
(* is in the sole predecessor of the backedge and compares an add of the   *)
(* phi; the lower bound is the first operand of the phi, or of the phi    *)
(* that is its first operand, as a constant or a Box of one.               *)
ExtractUBCSPatternDoWhile(g, b) ==
  LET tb   == g.preds[g.backedge[b]][1]
      cmp  == LoopCompare(g, tb)
      add  == IF cmp = NULL THEN NULL ELSE Op(g, cmp, 1)
      phi  == IF add = NULL \/ g.kind[add] # "Add" THEN NULL
              ELSE PhiBehind(g, Op(g, add, 1))
      oth  == IF g.kind[Op(g, phi, 1)] = "Phi" THEN Op(g, phi, 1) ELSE phi
      o0   == Op(g, oth, 1)
      lbc  == IF g.kind[o0] = "Box" /\ IsConstant(g, Op(g, o0, 1)) THEN Op(g, o0, 1)
              ELSE IF IsConstant(g, o0) THEN o0 ELSE NULL
  IN  IF /\ IsLoopHeader(g, b)
         /\ cmp # NULL /\ IsConstant(g, Op(g, cmp, 2))
         /\ phi # NULL /\ Len(g.ops[phi]) = 2
         /\ lbc # NULL /\ Increment(g, add) # NULL
      THEN [ok |-> TRUE, var |-> phi,
            lb |-> LowerFrom(IsInt32(g, lbc), g.cval[lbc]),
            ub |-> UpperBound(g, cmp), doWhile |-> TRUE]
      ELSE NoMatch

(* InductionVariable::extractPattern (lines 20-37), on an object just    *)
(* constructed (lines 11-18).  The constructor leaves isDoWhile_          *)
(* uninitialised, so after a for-loop match the flag is whatever byte the *)
(* stack slot held: garbage is that value.                                *)
ExtractPattern(g, b, garbage) ==
  LET f == ExtractUBCSPattern(g, b)
  IN  IF f.ok THEN [f EXCEPT !.doWhile = garbage]
      ELSE ExtractUBCSPatternDoWhile(g, b)

RangeIsValidHeader(g, iv, b) ==
  LET h == g.blk[iv.var]
  IN  /\ iv.var # NULL
      /\ IsLoopHeader(g, h)
      /\ h <= b /\ b <= g.backedge[h]

(* InductionVariable::rangeIsValid (lines 385-407): block ids strictly    *)
(* after the header up to the backedge, the header included for do-while. *)
RangeIsValid(g, iv, b) ==
  LET h == g.blk[iv.var]
  IN  /\ iv.var # NULL
      /\ IsLoopHeader(g, h)
      /\ \/ h < b /\ b <= g.backedge[h]
         \/ iv.doWhile /\ h <= b /\ b <= g.backedge[h]
=============================================================================
