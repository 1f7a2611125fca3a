------------------------------ MODULE LoopGraphs ------------------------------
(***************************************************************************)
(* The MIR graphs IonBuilder emits for a counted loop over a constant     *)
(* dense array, in the two shapes InductionVariable recognises (spec 4.3): *)
(*                                                                         *)
(*   for:      entry(1) -> header(2) -> body(3) -> backedge(4) -> header,  *)
(*             header -> exit(5); the header tests phi <op> U              *)
(*   dowhile:  entry(1) -> header+body(2) -> backedge(3) -> header,        *)
(*             header -> exit(4); the header tests (phi + C) <op> U        *)
(*                                                                         *)
(* Instruction ids are fixed; an instruction the parameters leave out has *)
(* kind "Nop" and belongs to no block.  Elements and InitializedLength   *)
(* sit just before the check, in its block, as IonBuilder emits them.     *)
(*   1 lower bound (Constant L or Param)   2 Constant U   3 Constant C     *)
(*   4 ConstArray of initialized length A  5 Elements(4)                   *)
(*   6 InitializedLength(5)   7 Phi(1, backedge value)   8 Compare         *)
(*   9 Test(8)   10 ToInt32(7)   11 the bounds check   12 LoadElement(5,11)*)
(*   13 Add   14 Store(4) (a.length = 0)   15 another Param                *)
(*   16-18 Gotos   19 Return   20 StoreElement(5,11)                       *)
(* With diamond, blocks 1-4 are `if (q < U) i0 = L; else i0 = L2;' and the *)
(* loop's blocks follow, numbered from 5:                                  *)
(*   21 Constant L2   22 Phi(1, 21)   23 Compare(24, 2)   24 Param q       *)
(*   25 Test(23)   26, 27 Gotos to the merge block 4                        *)
(*                                                                         *)
(* The parameters p of Build:                                              *)
(*   style "for" | "dowhile"; lowKind "Constant" | "Param"; L, C, U, A;    *)
(*   op "LT" | "LE"; ck "exact" | "range" | "lower" with min, max;         *)
(*   inHeader (for: the check sits in the header); store; extra (a second *)
(*   use of the check); conv (the check indexes ToInt32(phi)); incOther   *)
(*   (for: the add increments 15, not the phi; dowhile: the phi's          *)
(*   backedge operand is 15, not the add); diamond with L2 (the loop      *)
(*   starts at the phi 22 of L and L2).                                    *)
(***************************************************************************)
EXTENDS Integers, Sequences

LGIns == 1..27

Build(p) ==
  LET isFor == p.style = "for"
      dm    == p.diamond
      d     == IF dm THEN 3 ELSE 0     \* the loop's first block is 2 + d
      K(i) ==
        CASE i = 1  -> IF p.lowKind = "Param" THEN "Param" ELSE "Constant"
          [] i \in {2, 3} -> "Constant"
          [] i = 4  -> "ConstArray"
          [] i = 5  -> "Elements"
          [] i = 6  -> "InitializedLength"
          [] i = 7  -> "Phi"
          [] i = 8  -> "Compare"
          [] i = 9  -> "Test"
          [] i = 10 -> IF p.conv THEN "ToInt32" ELSE "Nop"
          [] i = 11 -> IF p.ck = "lower" THEN "BoundsCheckLower" ELSE "BoundsCheck"
          [] i = 12 -> "LoadElement"
          [] i = 13 -> "Add"
          [] i = 14 -> IF p.store THEN "Store" ELSE "Nop"
          [] i = 15 -> IF p.incOther THEN "Param" ELSE "Nop"
          [] i = 17 -> IF isFor THEN "Goto" ELSE "Nop"
          [] i \in {16, 18} -> "Goto"
          [] i = 19 -> "Return"
          [] i = 20 -> IF p.extra THEN "StoreElement" ELSE "Nop"
          [] i \in 21..27 /\ ~dm -> "Nop"
          [] i = 21 -> "Constant"
          [] i = 22 -> "Phi"
          [] i = 23 -> "Compare"
          [] i = 24 -> "Param"
          [] i = 25 -> "Test"
          [] i \in {26, 27} -> "Goto"
      kind == [i \in LGIns |-> K(i)]
      idx  == IF p.conv THEN 10 ELSE 7
      O(i) ==
        CASE i = 5  -> <<4>>
          [] i = 6  -> <<5>>
          [] i = 7  -> <<IF dm THEN 22 ELSE 1, IF ~isFor /\ p.incOther THEN 15 ELSE 13>>
          [] i = 8  -> <<IF isFor THEN 7 ELSE 13, 2>>
          [] i = 9  -> <<8>>
          [] i = 10 -> <<7>>
          [] i = 11 -> IF p.ck = "lower" THEN <<idx>> ELSE <<idx, 6>>
          [] i \in {12, 20} -> <<5, 11>>
          [] i = 13 -> <<IF isFor /\ p.incOther THEN 15 ELSE 7, 3>>
          [] i = 14 -> <<4>>
          [] i = 22 -> <<1, 21>>
          [] i = 23 -> <<24, 2>>
          [] i = 25 -> <<23>>
          [] OTHER  -> <<>>
      In(s) == SelectSeq(s, LAMBDA i : kind[i] # "Nop")
      prefix == IF dm THEN << <<1, 2, 3, 4, 21, 24, 23, 25>>, <<26>>, <<27>>,
                              In(<<22, 15, 16>>) >>
                ELSE << In(<<1, 2, 3, 4, 15, 16>>) >>
      code == prefix \o
        IF isFor
        THEN << In(IF p.inHeader THEN <<7, 10, 5, 6, 11, 12, 8, 9>> ELSE <<7, 10, 8, 9>>),
                In(IF p.inHeader THEN <<14, 20, 17>> ELSE <<5, 6, 11, 12, 14, 20, 17>>),
                <<13, 18>>, <<19>> >>
        ELSE << In(<<7, 10, 5, 6, 11, 12, 14, 20, 13, 8, 9>>), <<18>>, <<19>> >>
      nb == Len(code)
      blk == [i \in LGIns |->
                IF \E b \in 1..nb : \E j \in DOMAIN code[b] : code[b][j] = i
                THEN CHOOSE b \in 1..nb : \E j \in DOMAIN code[b] : code[b][j] = i
                ELSE 0]
  IN  [kind  |-> kind,
       ops   |-> [i \in LGIns |-> IF kind[i] = "Nop" THEN <<>> ELSE O(i)],
       blk   |-> blk,
       cval  |-> [i \in LGIns |-> CASE i = 1 -> p.L [] i = 2 -> p.U
                                    [] i = 3 -> p.C [] i = 4 -> p.A
                                    [] i = 21 -> p.L2 [] OTHER -> 0],
       jsop  |-> [i \in LGIns |-> CASE i = 8 -> p.op [] i = 23 -> "LT"
                                    [] OTHER -> "none"],
       bmin  |-> [i \in LGIns |-> IF i = 11 THEN p.min ELSE 0],
       bmax  |-> [i \in LGIns |-> IF i = 11 THEN p.max ELSE 0],
       tgt   |-> [i \in LGIns |-> CASE i = 9  -> IF isFor THEN <<3 + d, 5 + d>>
                                                  ELSE <<3 + d, 4 + d>>
                                    [] i \in {16, 18} -> <<2 + d>>
                                    [] i = 17 -> <<4 + d>>
                                    [] i = 25 -> <<2, 3>>
                                    [] i \in {26, 27} -> <<4>>
                                    [] OTHER  -> <<>>],
       header   |-> {2 + d},
       backedge |-> [b \in 1..nb |-> IF b = 2 + d THEN (IF isFor THEN 4 ELSE 3) + d
                                     ELSE 0],
       preds    |-> (IF dm THEN << <<>>, <<1>>, <<1>>, <<2, 3>> >> ELSE << <<>> >>) \o
                    (IF isFor THEN << <<1 + d, 4 + d>>, <<2 + d>>, <<3 + d>>, <<2 + d>> >>
                     ELSE << <<1 + d, 3 + d>>, <<2 + d>>, <<2 + d>> >>),
       code  |-> code]

\* A parameter record with the defaults of a plain `for (i = L; i < U;
\* i += C) a[i]' loop, updated by the fields of upd.
Loop(upd) ==
  [f \in {"style", "lowKind", "L", "C", "U", "A", "op", "ck", "min", "max",
          "inHeader", "store", "extra", "conv", "incOther", "diamond", "L2"} |->
     IF f \in DOMAIN upd THEN upd[f]
     ELSE CASE f = "style" -> "for" [] f = "lowKind" -> "Constant"
            [] f \in {"L", "L2", "min", "max"} -> 0 [] f = "C" -> 1
            [] f \in {"U", "A"} -> 2 [] f = "op" -> "LT" [] f = "ck" -> "exact"
            [] OTHER -> FALSE]
=============================================================================
