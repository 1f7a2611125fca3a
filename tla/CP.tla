--------------------------------- MODULE CP ---------------------------------
(***************************************************************************)
(* The constant propagation pass of src/js/src/ion/CP.cpp: CP::analyze,   *)
(* its work list, and the phi-cycle solver (solvePhiCycles, analyzePhi,    *)
(* propagate) over the three-point lattice Bottom < Constant < Top.        *)
(*                                                                         *)
(* The MIR graph is abstracted to its def-use structure: a node has a      *)
(* kind, an integer value when it is a constant, and an ordered operand    *)
(* list.  Nodes 1..N are the instructions of the compiled script; node     *)
(* N+d is the constant that folding instruction d creates.  std::set and  *)
(* std::map are ordered by pointer, so the order in which CP takes work    *)
(* and walks the phi map is the allocation order of the instructions:     *)
(* the variable addr, chosen once in Init over every permutation.          *)
(***************************************************************************)
EXTENDS Integers, Sequences, FiniteSets, SequencesExt, Functions, CPSem

CONSTANTS
  N,        \* number of instructions of the graph
  Graphs,   \* the graphs the pass may be given: [kind, val, ops] records
  Runs      \* how many times the pipeline calls CP::analyze on a graph

ASSUME N \in Nat \ {0}
ASSUME Runs \in {1, 2}

Ins  == 1..N                 \* the instructions of the script
Node == 1..(2 * N)           \* instructions and the constants folding makes
FoldNode(d) == N + d         \* the MConstant that replaces instruction d
NULL == 0                    \* PhiItem::c when no constant is carried

Kinds == {"Constant", "Param", "Add", "Phi", "Call", "None"}

VARIABLES
  kind,      \* node -> opcode ("None": a fold constant not yet created)
  val,       \* node -> value of a constant
  ops,       \* node -> sequence of operand nodes (the use edges)
  addr,      \* instruction -> its address, the order of std::set/std::map
  g0,        \* the graph as the pass received it (history variable)
  workList,  \* CP::workList
  phiMap,    \* CP::phiMap, a function from the phis it holds to PhiItems
  cursor,    \* address of the phiMap entry solvePhiCycles visited last
  roundUpd,  \* the `updated' flag of the current relaxation round
  updated,   \* the value CP::analyze will return
  pc,        \* "init" | "drain" | "solve" | "done"
  run        \* how many times CP::analyze has been entered

vars == <<kind, val, ops, addr, g0, workList, phiMap, cursor, roundUpd,
          updated, pc, run>>

Bottom   == [s |-> "Bottom", c |-> NULL]
TopItem  == [s |-> "Top", c |-> NULL]
PhiItems == [s : {"Bottom", "Constant", "Top"}, c : Node \cup {NULL}]

-----------------------------------------------------------------------------
(* Graph queries of the IR collaborator (MIR.h, not in the repository).   *)

\* The definitions that use d: MDefinition::usesBegin()..usesEnd().
Uses(d) == {n \in Node : \E i \in DOMAIN ops[n] : ops[n][i] = d}

\* CP::isBlacklisted: MPassArg, MCall and MCreateThis keep their operands.
IsBlacklisted(n) == kind[n] = "Call"

\* CP::addUsesToWorkList: the non-blacklisted definitions using d.
UsesToWorkList(d) == {n \in Uses(d) : ~IsBlacklisted(n)}

\* MDefinition::foldsToConstant: {v} when d folds to the constant v from
\* its current operands, {} when it returns d itself.
FoldsToConstant(d) ==
  LET o == ops[d]
      allConst == \A i \in DOMAIN o : kind[o[i]] = "Constant"
  IN  CASE kind[d] = "Add" /\ allConst -> {val[o[1]] + val[o[2]]}
        [] kind[d] = "Phi" /\ allConst /\ Len(o) > 0
                           /\ \A i \in DOMAIN o : val[o[i]] = val[o[1]]
                           -> {val[o[1]]}
        [] OTHER -> {}

\* MDefinition::replaceWithInstruction: every operand slot that refers to
\* d now refers to r; the folded constant r is placed in d's block.
ReplaceAllUses(d, r) ==
  [n \in Node |-> [i \in DOMAIN ops[n] |-> IF ops[n][i] = d THEN r
                                            ELSE ops[n][i]]]

\* The entry of a set or map of instructions that begin() returns.
First(S) == CHOOSE x \in S : \A y \in S : addr[x] <= addr[y]

-----------------------------------------------------------------------------
(* Variants of propagate a slip in CP.cpp:259-289 would produce: the      *)
(* different-constant test dropped, and the Top transition replaced by an  *)
(* overwrite with the incoming constant.                                   *)
PropagateSameConstOnly(to, from) ==
  CASE to.s = "Bottom" /\ from.s # "Bottom" -> [item |-> from, upd |-> TRUE]
    [] to.s = "Constant" /\ from.s = "Top" -> [item |-> TopItem, upd |-> TRUE]
    [] OTHER -> [item |-> to, upd |-> FALSE]
PropagateOverwrite(to, from) ==
  CASE to.s = "Bottom" /\ from.s # "Bottom" -> [item |-> from, upd |-> TRUE]
    [] to.s = "Constant" /\ from.s = "Constant"
                        /\ val[from.c] # val[to.c] -> [item |-> from, upd |-> TRUE]
    [] to.s = "Constant" /\ from.s = "Top" -> [item |-> TopItem, upd |-> TRUE]
    [] OTHER -> [item |-> to, upd |-> FALSE]

(* CP::propagate(to, from): the lattice join, returning the new `to' and   *)
(* whether it changed.                                                      *)
Propagate(to, from) ==
  CASE to.s = "Bottom" /\ from.s # "Bottom" -> [item |-> from, upd |-> TRUE]
    [] to.s = "Constant" /\ (from.s = "Top" \/ (from.s = "Constant"
                                  /\ val[from.c] # val[to.c]))
                               -> [item |-> TopItem, upd |-> TRUE]
    [] OTHER -> [item |-> to, upd |-> FALSE]

\* CP::analyzePhi: fold propagate over the operands of phi in order.  The
\* accumulator is the whole map, since an operand phi missing from the map
\* is inserted at Bottom and PhiItem references stay valid across inserts.
AnalyzePhi(phi, map) ==
  LET step(acc, o) ==
        LET m   == acc.map
            m2  == IF kind[o] = "Phi" /\ o \notin DOMAIN m
                   THEN m @@ (o :> Bottom) ELSE m
            frm == CASE kind[o] = "Constant" -> [s |-> "Constant", c |-> o]
                     [] kind[o] = "Phi"      -> m2[o]
                     [] OTHER                -> TopItem
            r   == Propagate(m2[phi], frm)
        IN  [map |-> [m2 EXCEPT ![phi] = r.item], upd |-> acc.upd \/ r.upd]
  IN  FoldLeft(step, [map |-> map, upd |-> FALSE], ops[phi])

-----------------------------------------------------------------------------
Init ==
  /\ \E g \in Graphs :
       /\ kind = [n \in Node |-> IF n \in Ins THEN g.kind[n] ELSE "None"]
       /\ val  = [n \in Node |-> IF n \in Ins THEN g.val[n] ELSE 0]
       /\ ops  = [n \in Node |-> IF n \in Ins THEN g.ops[n] ELSE <<>>]
       /\ g0 = g
  /\ addr \in Bijection(Ins, Ins)
  /\ workList = {}
  /\ phiMap = <<>>
  /\ cursor = 0
  /\ roundUpd = FALSE
  /\ updated = FALSE
  /\ pc = "init"
  /\ run = 1

\* CP::initWorkList: the uses of every constant instruction in the blocks.
InitWorkList ==
  /\ pc = "init"
  /\ workList' = UNION {UsesToWorkList(n) :
                         n \in {m \in Node : kind[m] = "Constant"
                                             /\ ~IsBlacklisted(m)}}
  /\ pc' = "drain"
  /\ UNCHANGED <<kind, val, ops, addr, g0, phiMap, cursor, roundUpd,
                 updated, run>>

\* One iteration of the inner while loop of CP::analyze, on a definition
\* that folds: its uses are queued and it is replaced by a new constant.
DrainFold ==
  /\ pc = "drain"
  /\ workList # {}
  /\ LET d == First(workList)
     IN  /\ FoldsToConstant(d) # {}
         /\ workList' = (workList \ {d}) \cup UsesToWorkList(d)
         /\ kind' = [kind EXCEPT ![FoldNode(d)] = "Constant"]
         /\ val'  = [val EXCEPT ![FoldNode(d)] =
                        CHOOSE v \in FoldsToConstant(d) : TRUE]
         /\ ops'  = ReplaceAllUses(d, FoldNode(d))
         /\ updated' = TRUE
  /\ UNCHANGED <<addr, g0, phiMap, cursor, roundUpd, pc, run>>

\* A variant registering every definition that does not fold.
DrainKeepAnyDef ==
  /\ pc = "drain"
  /\ workList # {}
  /\ LET d == First(workList)
     IN  /\ FoldsToConstant(d) = {}
         /\ workList' = workList \ {d}
         /\ phiMap' = IF d \notin DOMAIN phiMap
                      THEN phiMap @@ (d :> Bottom) ELSE phiMap
  /\ UNCHANGED <<kind, val, ops, addr, g0, cursor, roundUpd, updated, pc,
                 run>>

\* The same iteration on a definition that does not fold: a phi enters the
\* phi map at Bottom (std::map::insert keeps an existing entry).
DrainKeep ==
  /\ pc = "drain"
  /\ workList # {}
  /\ LET d == First(workList)
     IN  /\ FoldsToConstant(d) = {}
         /\ workList' = workList \ {d}
         /\ phiMap' = IF kind[d] = "Phi" /\ d \notin DOMAIN phiMap
                      THEN phiMap @@ (d :> Bottom) ELSE phiMap
  /\ UNCHANGED <<kind, val, ops, addr, g0, cursor, roundUpd, updated, pc,
                 run>>

\* The work list is empty: CP::analyze calls solvePhiCycles.
StartSolve ==
  /\ pc = "drain"
  /\ workList = {}
  /\ pc' = "solve"
  /\ cursor' = 0
  /\ roundUpd' = FALSE
  /\ UNCHANGED <<kind, val, ops, addr, g0, workList, phiMap, updated, run>>

\* One iteration of the for loop of solvePhiCycles: the next entry of the
\* map in address order, including entries inserted during this round.
SolveVisit ==
  /\ pc = "solve"
  /\ \E phi \in DOMAIN phiMap : addr[phi] > cursor
  /\ LET phi == First({p \in DOMAIN phiMap : addr[p] > cursor})
         r   == AnalyzePhi(phi, phiMap)
     IN  /\ phiMap' = r.map
         /\ roundUpd' = (roundUpd \/ r.upd)
         /\ cursor' = addr[phi]
  /\ UNCHANGED <<kind, val, ops, addr, g0, workList, updated, pc, run>>

\* The end of a round that changed some entry: `while (updated)' repeats.
SolveRound ==
  /\ pc = "solve"
  /\ ~\E phi \in DOMAIN phiMap : addr[phi] > cursor
  /\ roundUpd
  /\ cursor' = 0
  /\ roundUpd' = FALSE
  /\ UNCHANGED <<kind, val, ops, addr, g0, workList, phiMap, updated, pc,
                 run>>

\* Variants of the commit loop of solvePhiCycles (CP.cpp:217-237): the
\* Constant phis are rewritten but not queued, or every phi is queued.
SolveCommitNoQueue ==
  /\ pc = "solve"
  /\ ~\E phi \in DOMAIN phiMap : addr[phi] > cursor
  /\ ~roundUpd
  /\ LET consts == {p \in DOMAIN phiMap : phiMap[p].s = "Constant"}
     IN  /\ ops' = [n \in Node |->
                      IF n \in consts
                      THEN [i \in DOMAIN ops[n] |-> phiMap[n].c]
                      ELSE ops[n]]
         /\ phiMap' = <<>>
         /\ pc' = IF workList # {} THEN "drain" ELSE "done"
  /\ UNCHANGED <<kind, val, addr, g0, workList, cursor, roundUpd, updated,
                 run>>
SolveCommitQueueAll ==
  /\ pc = "solve"
  /\ ~\E phi \in DOMAIN phiMap : addr[phi] > cursor
  /\ ~roundUpd
  /\ LET consts == {p \in DOMAIN phiMap : phiMap[p].s = "Constant"}
         wl     == workList \cup DOMAIN phiMap
     IN  /\ ops' = [n \in Node |->
                      IF n \in consts
                      THEN [i \in DOMAIN ops[n] |-> phiMap[n].c]
                      ELSE ops[n]]
         /\ workList' = wl
         /\ phiMap' = <<>>
         /\ pc' = IF wl # {} THEN "drain" ELSE "done"
  /\ UNCHANGED <<kind, val, addr, g0, cursor, roundUpd, updated, run>>

\* The fixed point: every Constant phi has all its operands replaced by its
\* constant and is queued, the map is cleared, and the do-while of
\* CP::analyze either drains again or returns.
SolveCommit ==
  /\ pc = "solve"
  /\ ~\E phi \in DOMAIN phiMap : addr[phi] > cursor
  /\ ~roundUpd
  /\ LET consts == {p \in DOMAIN phiMap : phiMap[p].s = "Constant"}
         wl     == workList \cup consts
     IN  /\ ops' = [n \in Node |->
                      IF n \in consts
                      THEN [i \in DOMAIN ops[n] |-> phiMap[n].c]
                      ELSE ops[n]]
         /\ workList' = wl
         /\ phiMap' = <<>>
         /\ pc' = IF wl # {} THEN "drain" ELSE "done"
  /\ UNCHANGED <<kind, val, addr, g0, cursor, roundUpd, updated, run>>

\* The pipeline calls CP::analyze again on the graph the first call left.
Rerun ==
  /\ pc = "done"
  /\ run < Runs
  /\ run' = run + 1
  /\ pc' = "init"
  /\ updated' = FALSE
  /\ UNCHANGED <<kind, val, ops, addr, g0, workList, phiMap, cursor,
                 roundUpd>>

Next ==
  \/ InitWorkList
  \/ DrainFold
  \/ DrainKeep
  \/ StartSolve
  \/ SolveVisit
  \/ SolveRound
  \/ SolveCommit
  \/ Rerun

\* CP::analyze runs to completion in one synchronous call.
Spec == Init /\ [][Next]_vars /\ WF_vars(Next)

-----------------------------------------------------------------------------
(* Reference semantics: Sem, the collecting semantics of CPSem.          *)

Rank(s) == CASE s = "Bottom" -> 0 [] s = "Constant" -> 1 [] s = "Top" -> 2

-----------------------------------------------------------------------------
TypeOK ==
  /\ kind \in [Node -> Kinds]
  /\ ops \in [Node -> Seq(Node)]
  /\ workList \subseteq Ins
  /\ DOMAIN phiMap \subseteq {p \in Ins : kind[p] = "Phi"}
  /\ \A p \in DOMAIN phiMap : phiMap[p] \in PhiItems
  /\ \A p \in DOMAIN phiMap :
       (phiMap[p].s = "Constant") <=> (phiMap[p].c # NULL)
  /\ pc \in {"init", "drain", "solve", "done"}
  /\ updated \in BOOLEAN /\ roundUpd \in BOOLEAN

(* Soundness (spec 8): at every step of CP::analyze, folding a definition  *)
(* into a constant and rewriting the operands of the phis solvePhiCycles    *)
(* proved Constant leave the set of values every instruction of the script  *)
(* can take exactly as it was in the graph the pass received.               *)
SemanticsPreserved ==
  LET now  == Sem(kind, val, ops, Node)
      orig == Sem(g0.kind, g0.val, g0.ops, Ins)
  IN  \A n \in Ins : now[n] = orig[n]

(* Lattice monotonicity (spec 3, 8): within one solvePhiCycles call, the   *)
(* entry propagate keeps for a phi only climbs Bottom -> Constant -> Top,   *)
(* and a Constant entry never switches to a different constant.             *)
LatticeMonotone ==
  [][\A p \in DOMAIN phiMap \cap DOMAIN phiMap' :
        /\ Rank(phiMap'[p].s) >= Rank(phiMap[p].s)
        /\ (phiMap[p].s = "Constant" /\ phiMap'[p].s = "Constant")
              => val[phiMap'[p].c] = val[phiMap[p].c]]_phiMap

(* When CP::analyze returns, no instruction that still has uses could be  *)
(* folded from its current operands: the work list and the phi-cycle       *)
(* re-queueing reached every definition a fold or a phi commit enabled.    *)
FixpointReached ==
  pc = "done" => \A n \in Ins : Uses(n) # {} => FoldsToConstant(n) = {}

(* CP::analyze terminates: the drain loop and the relaxation rounds of     *)
(* solvePhiCycles cannot cycle (spec 5).                                    *)
Termination == <>(pc = "done" /\ run = Runs)

(* Idempotence (spec 8): a second CP::analyze on the graph the first call  *)
(* produced reports no change.                                             *)
Idempotent == (pc = "done" /\ run = 2) => ~updated


(* Refinement: CP::analyze, run Runs times, implements AbstractCP.  Every  *)
(* operand rewrite of a fold or of the phi commit is justified by the       *)
(* meaning of the graph at that step, the last call returns only at a fold  *)
(* fixpoint, and it returns.  The abstract pass is done when the last       *)
(* analyze call has returned.                                               *)
Abstract == INSTANCE AbstractCP WITH done <- (pc = "done" /\ run = Runs)

AbstractSpec == Abstract!Spec

=============================================================================
