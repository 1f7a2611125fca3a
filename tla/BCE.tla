--------------------------------- MODULE BCE ---------------------------------
(***************************************************************************)
(* The bounds check elimination pass of src/js/src/ion/BCE.cpp.  The scan *)
(* (BCE::analyze, tryElimination and the eliminate* rules) only collects  *)
(* checks into unneededChecks; eliminateUnneededChecks then rewrites the  *)
(* LoadElement uses of each collected check and discards it.  A step of   *)
(* the model is one iteration of the block loop of BCE::analyze or of the *)
(* while loop of eliminateUnneededChecks.                                 *)
(***************************************************************************)
EXTENDS InductionVariable, MIRExec, FiniteSets

CONSTANTS
  Graphs,    \* the MIR graphs BCE may be given (see InductionVariable)
  ParamVals  \* the values a parameter takes in the reference executions

VARIABLES
  g0,         \* the graph as the pass received it
  ops,        \* current operand sequences (rewritten by the deletion phase)
  code,       \* current instruction list of every block (discard)
  blockIt,    \* the next block of the for loop of BCE::analyze
  unneeded,   \* BCE::unneededChecks
  removed,    \* the checks discarded so far (history)
  pc          \* "scan" | "delete" | "done"

vars == <<g0, ops, code, blockIt, unneeded, removed, pc>>

Cur == [g0 EXCEPT !.ops = ops, !.code = code]
Blocks == DOMAIN g0.code

\* int32 a <= uint32 b: a is converted to uint32_t, so a negative a is
\* 2^32 + a, above every initialized length (which is below 2^31).
LEUInt32(a, b) == a >= 0 /\ a <= b

-----------------------------------------------------------------------------
HasUnchangeableLengthAlways(g, array) == TRUE

(* BCE::hasUnchangeableLength (BCE.cpp:222-244): no use of the array      *)
(* constant has a store alias set.                                         *)
HasUnchangeableLength(g, array) ==
  \A u \in Uses(g, array) : g.kind[u] # "Store"

(* The array behind a check's length: length()->toInitializedLength()     *)
(* ->elements()->toElements()->object() (lines 125-128, 163-166).                  *)
ArrayOf(g, c) == Op(g, Op(g, Op(g, c, 2), 1), 1)

(* The dense-array conditions shared by the two length-based rules (lines *)
(* 123-139 and 161-177): a constant dense array whose length no store can *)
(* change.                                                                 *)
KnownArray(g, c) ==
  LET obj == ArrayOf(g, c)
  IN  IsConstant(g, obj) /\ g.kind[obj] = "ConstArray"
      /\ HasUnchangeableLength(g, obj)

(* BCE::evaluateConstantLength (lines 205-220).                            *)
EvaluateConstantLength(g, ub, c) ==
  LET len == Op(g, c, 2)
  IN  IsConstant(g, len) /\ IsInt32(g, len) /\ ub <= g.cval[len]

(* BCE::eliminateBoundsCheck (lines 105-150): index < length.             *)
EliminateBoundsCheck(g, iv, c) ==
  /\ g.kind[Op(g, c, 2)] = "InitializedLength"
  /\ iv.ub.has
  /\ \/ EvaluateConstantLength(g, iv.ub.v, c)
     \/ /\ KnownArray(g, c)
        /\ LEUInt32(iv.ub.v, g.cval[ArrayOf(g, c)])

EliminateBoundsCheckRangeNoLower(g, iv, c) ==
  /\ iv.lb.has /\ iv.ub.has
  /\ KnownArray(g, c)
  /\ LEUInt32(iv.ub.v + g.bmax[c], g.cval[ArrayOf(g, c)])

(* BCE::eliminateBoundsCheckRange (lines 152-188): index + minimum >= 0   *)
(* and index + maximum < length; the sum is compared as uint32_t.          *)
EliminateBoundsCheckRange(g, iv, c) ==
  /\ iv.lb.has /\ iv.ub.has
  /\ KnownArray(g, c)
  /\ iv.lb.v + g.bmin[c] >= 0
  /\ LEUInt32(iv.ub.v + g.bmax[c], g.cval[ArrayOf(g, c)])

(* BCE::eliminateBoundsCheckLower (lines 190-203): index >= minimum.      *)
EliminateBoundsCheckLower(g, iv, c) ==
  iv.lb.has /\ iv.lb.v >= g.bmin[c]

TryEliminationNoKindTest(g, iv, d) ==
  /\ RangeIsValid(g, iv, g.blk[d])
  /\ IF g.kind[d] = "BoundsCheck"
     THEN IF g.bmin[d] = 0 /\ g.bmax[d] = 0
          THEN EliminateBoundsCheck(g, iv, d)
          ELSE EliminateBoundsCheckRange(g, iv, d)
     ELSE EliminateBoundsCheckLower(g, iv, d)

(* BCE::tryElimination (lines 81-103): whether def is a check the        *)
(* variable's range proves, in a block where that range is valid.         *)
TryElimination(g, iv, d) ==
  /\ RangeIsValid(g, iv, g.blk[d])
  /\ \/ /\ g.kind[d] = "BoundsCheck"
        /\ IF g.bmin[d] = 0 /\ g.bmax[d] = 0
           THEN EliminateBoundsCheck(g, iv, d)
           ELSE EliminateBoundsCheckRange(g, iv, d)
     \/ g.kind[d] = "BoundsCheckLower" /\ EliminateBoundsCheckLower(g, iv, d)

(* The checks the use loop of BCE::analyze (lines 36-73) collects for   *)
(* variable iv: its uses, and for a use that is not eliminated and is a   *)
(* ToInt32 or Unbox, that conversion's uses.                               *)
ChecksFor(g, iv) ==
  LET us == Uses(g, iv.var)
      direct == {u \in us : TryElimination(g, iv, u)}
      conv   == {u \in us \ direct : g.kind[u] \in {"ToInt32", "Unbox"}}
  IN  direct \cup {w \in UNION {Uses(g, u) : u \in conv} :
                     TryElimination(g, iv, w)}

-----------------------------------------------------------------------------
Init ==
  /\ g0 \in Graphs
  /\ ops = g0.ops
  /\ code = g0.code
  /\ blockIt = 1
  /\ unneeded = {}
  /\ removed = {}
  /\ pc = "scan"

(* One iteration of the block loop of BCE::analyze (lines 26-74): build  *)
(* an InductionVariable for the block and collect the checks it proves.   *)
(* The constructor's uninitialised isDoWhile_ is any byte the stack held. *)
ScanBlock ==
  /\ pc = "scan"
  /\ blockIt \in Blocks
  /\ \E garbage \in BOOLEAN :
       LET iv == ExtractPattern(Cur, blockIt, garbage)
       IN  unneeded' = IF iv.ok THEN unneeded \cup ChecksFor(Cur, iv)
                       ELSE unneeded
  /\ blockIt' = blockIt + 1
  /\ UNCHANGED <<g0, ops, code, removed, pc>>

(* The block loop is over: BCE::analyze calls eliminateUnneededChecks.    *)
EndScan ==
  /\ pc = "scan"
  /\ blockIt \notin Blocks
  /\ pc' = "delete"
  /\ UNCHANGED <<g0, ops, code, blockIt, unneeded, removed>>

(* The use loop of eliminateUnneededChecks (lines 253-262): a check can   *)
(* be discarded when every use is a LoadElement, which it rewrites.        *)
CanDeleteAlways(c) == TRUE
CanDelete(c) == \A u \in Uses(Cur, c) : g0.kind[u] = "LoadElement"

(* One iteration of eliminateUnneededChecks (lines 249-272): every        *)
(* LoadElement use of the first check is redirected to the check's index  *)
(* operand; the check is erased from the set, and discarded from its      *)
(* block (releasing its operands) only if no other use remained.  The set *)
(* is a std::set ordered by address, so any element may come first.       *)
DeleteCheck ==
  /\ pc = "delete"
  /\ unneeded # {}
  /\ \E c \in unneeded :
     LET canDelete == CanDelete(c)
         b == g0.blk[c]
         rewritten == [n \in DOMAIN ops |->
                         IF g0.kind[n] = "LoadElement"
                         THEN [i \in DOMAIN ops[n] |->
                                 IF ops[n][i] = c THEN ops[c][1] ELSE ops[n][i]]
                         ELSE ops[n]]
     IN  /\ unneeded' = unneeded \ {c}
         /\ IF canDelete
            THEN /\ ops' = [rewritten EXCEPT ![c] = <<>>]
                 /\ code' = [code EXCEPT ![b] = SelectSeq(@, LAMBDA x : x # c)]
                 /\ removed' = removed \cup {c}
            ELSE /\ ops' = rewritten
                 /\ UNCHANGED <<code, removed>>
  /\ UNCHANGED <<g0, blockIt, pc>>

(* The set is empty: BCE::analyze returns true.                           *)
Finish ==
  /\ pc = "delete"
  /\ unneeded = {}
  /\ pc' = "done"
  /\ UNCHANGED <<g0, ops, code, blockIt, unneeded, removed>>

Next == ScanBlock \/ EndScan \/ DeleteCheck \/ Finish

Spec == Init /\ [][Next]_vars /\ WF_vars(Next)

-----------------------------------------------------------------------------
Checks == {c \in DOMAIN g0.ops : g0.kind[c] \in {"BoundsCheck", "BoundsCheckLower"}}

TypeOK ==
  /\ unneeded \subseteq Checks
  /\ removed \subseteq Checks
  /\ blockIt \in 1..(Cardinality(Blocks) + 1)
  /\ pc \in {"scan", "delete", "done"}

(* Soundness (spec 8): every check BCE collects or discards passes in      *)
(* every execution of the graph it was given: the induction variable's     *)
(* range, where rangeIsValid says it holds, together with the unchanging   *)
(* length proof, entails index + minimum >= 0 and index + maximum < length *)
(* on every iteration.                                                     *)
BCESound ==
  LET obs == Observations(g0, ParamVals)
  IN  \A c \in unneeded \cup removed : Redundant(g0, obs, c)

(* Induction variable range correctness (spec 8): for every header the   *)
(* scan builds an InductionVariable for, the phi extractPattern returns   *)
(* lies within its bounds -- at least lowerBound() and below upperBound() *)
(* -- whenever execution enters a block rangeIsValid accepts.  BCE's      *)
(* rules rely on exactly this.  isDoWhile_ is taken as initialised to     *)
(* false after a for-loop match; the other byte value breaks the property *)
(* at the header, which is the finding of the bce_header_range run.       *)
IVRangeCorrect ==
  LET vals == PhiValues(g0, ParamVals)
  IN  \A h \in g0.header, garbage \in {FALSE} :
        LET iv == ExtractPattern(g0, h, garbage)
        IN  iv.ok =>
              \A t \in vals :
                 t[2] = iv.var /\ RangeIsValid(g0, iv, t[1]) =>
                   /\ iv.lb.has => t[3] >= iv.lb.v
                   /\ iv.ub.has => t[3] < iv.ub.v

(* Deferred deletion (spec 4.4.2): a check is discarded only when no       *)
(* instruction left in a block still uses it; eliminateUnneededChecks      *)
(* rewrites the LoadElement uses and keeps a check any other use needs.    *)
NoDanglingUse ==
  \A b \in Blocks : \A i \in ToSet(code[b]) :
     \A k \in DOMAIN ops[i] : ops[i][k] \notin removed
=============================================================================
