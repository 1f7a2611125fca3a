------------------------------ MODULE MIRExec ------------------------------
(***************************************************************************)
(* Reference semantics of the MIR graphs of InductionVariable: a bounded  *)
(* interpreter that runs the control-flow graph from block 1 for every    *)
(* assignment of ParamVals to the parameters and records, for every        *)
(* bounds check it executes, the index it checked and the length the      *)
(* array had then, and the value every phi holds when a block is entered. *)
(* A check is redundant when every record is in bounds.                   *)
(* A Store truncates its array to length 0 (as `a.length = 0' does).      *)
(***************************************************************************)
EXTENDS Integers, Sequences, FiniteSets, SequencesExt

Fuel == 24           \* blocks executed per run: every loop here repeats
                     \* its values within fewer iterations than this

\* Run the straight-line part of block b from instruction position k.
RECURSIVE ExecFrom(_, _, _, _)
ExecFrom(g, b, k, st) ==
  IF k > Len(g.code[b]) THEN st
  ELSE
    LET i   == g.code[b][k]
        o   == g.ops[i]
        ev  == st.env
        K   == g.kind[i]
        arr == IF K = "InitializedLength" THEN g.ops[o[1]][1] ELSE 0
        v   == CASE K = "Constant" -> g.cval[i]
                 [] K = "Add" -> ev[o[1]] + ev[o[2]]
                 [] K \in {"ToInt32", "Unbox", "Box", "BoundsCheck",
                           "BoundsCheckLower"} -> ev[o[1]]
                 [] K = "Compare" ->
                      IF \/ g.jsop[i] = "LT" /\ ev[o[1]] < ev[o[2]]
                         \/ g.jsop[i] = "LE" /\ ev[o[1]] <= ev[o[2]]
                         \/ g.jsop[i] = "GT" /\ ev[o[1]] > ev[o[2]]
                      THEN 1 ELSE 0
                 [] K = "InitializedLength" -> st.alen[arr]
                 [] OTHER -> ev[i]
        obs == CASE K = "BoundsCheck" -> {<<i, ev[o[1]], ev[o[2]]>>}
                 [] K = "BoundsCheckLower" -> {<<i, ev[o[1]], 0>>}
                 [] OTHER -> {}
        nxt == CASE K = "Test" -> IF ev[o[1]] = 1 THEN g.tgt[i][1]
                                  ELSE g.tgt[i][2]
                 [] K = "Goto" -> g.tgt[i][1]
                 [] OTHER -> st.next
        st2 == [env  |-> [ev EXCEPT ![i] = v],
                alen |-> IF K = "Store" THEN [st.alen EXCEPT ![o[1]] = 0]
                         ELSE st.alen,
                obs  |-> st.obs \cup obs,
                phis |-> st.phis,
                next |-> nxt]
    IN  ExecFrom(g, b, k + 1, st2)

\* Enter block b from block pred: the phis read their operand for pred
\* all at once, then the instructions run in order.  The values of all
\* phis on entry are recorded as <<b, phi, value>>.
RECURSIVE Run(_, _, _, _, _)
Run(g, b, pred, st, fuel) ==
  IF b = 0 \/ fuel = 0 THEN st
  ELSE
    LET k   == CHOOSE j \in DOMAIN g.preds[b] : g.preds[b][j] = pred
        phis == {i \in ToSet(g.code[b]) : g.kind[i] = "Phi"}
        env == [i \in DOMAIN st.env |->
                  IF i \in phis THEN st.env[g.ops[i][k]] ELSE st.env[i]]
        seen == {<<b, i, env[i]>> : i \in {j \in DOMAIN g.ops : g.kind[j] = "Phi"}}
        out == ExecFrom(g, b, 1, [st EXCEPT !.env = env, !.next = 0,
                                            !.phis = @ \cup seen])
    IN  Run(g, out.next, b, out, fuel - 1)

\* The final state of every run of g, one per assignment of ParamVals.
Executions(g, ParamVals) ==
  LET ins    == DOMAIN g.ops
      params == {i \in ins : g.kind[i] = "Param"}
      arrays == {i \in ins : g.kind[i] = "ConstArray"}
  IN  {Run(g, 1, 0,
           [env  |-> [i \in ins |-> IF i \in params THEN pv[i] ELSE 0],
            alen |-> [a \in arrays |-> g.cval[a]],
            obs  |-> {}, phis |-> {}, next |-> 0], Fuel) :
         pv \in [params -> ParamVals]}

\* Every <<check, index, length>> any run of g executes.
Observations(g, ParamVals) == UNION {e.obs : e \in Executions(g, ParamVals)}

\* Every <<block, phi, value>> any run of g enters a block with.
PhiValues(g, ParamVals) == UNION {e.phis : e \in Executions(g, ParamVals)}

\* Check c passes on every observation of it.
Redundant(g, obs, c) ==
  \A o \in obs :
    o[1] = c =>
      IF g.kind[c] = "BoundsCheck"
      THEN o[2] + g.bmin[c] >= 0 /\ o[2] + g.bmax[c] < o[3]
      ELSE o[2] >= g.bmin[c]
=============================================================================
