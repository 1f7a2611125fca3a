------------------------------ MODULE MC_ElemOps -------------------------------
(***************************************************************************)
(* A dense array of capacity 3 over two values, under a prototype with no *)
(* index property, with a data element, or with a setter at index 1 or at *)
(* the name "-1"; strings of length 0 to 2, and one or two actual        *)
(* arguments (index 1 is then inside, at the end of, or beyond them).    *)
(***************************************************************************)
EXTENDS ElemOps

MCVals == {"a", "b"}

NoProps == [i \in Keys |-> Absent]
MCProtos == {NoProps,
             [NoProps EXCEPT ![1] = "b"],
             [NoProps EXCEPT ![1] = Setter],
             [NoProps EXCEPT ![-1] = Setter]}

MCSeqs == {<<>>, <<"a">>, <<"a", "b">>}
MCArgs == {<<"a">>, <<"b", "a">>}
=============================================================================
