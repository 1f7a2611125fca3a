# TLA+ models of the IonMonkey value-specialization passes

This directory models the optimization passes under `src/js/src/ion/`:
- constant propagation (`CP.cpp`);
- the induction variable recogniser (`InductionVariable.cpp`);
- bounds check elimination (`BCE.cpp`);
- parameter specialization (`ParameterSpecialization.cpp`).

It also models the interpreter helpers of `src/js/src/jsinterpinlines.h` that feed the JIT its type information:
- the arithmetic, relational and bitwise operations;
- the element get and set operations.

The modules are checked with TLC. The spec of the passes is `spec.md` at the root of the repository.

## 1. The system

The passes run one after another on a MIR graph that one compilation owns. Each pass is a single synchronous call with no threads, callbacks or I/O on its functional path (spec §5). The concurrency a model checker usually explores is therefore absent. What is hard instead:

- **Orders nobody fixed.** `CP::workList`, `CP::phiMap` and `BCE::unneededChecks` are `std::set`/`std::map` keyed by pointer, so the visiting order is the allocation order of the instructions.
- **Mutation during iteration.** `analyzePhi` inserts into `phiMap` while `solvePhiCycles` walks it. `eliminateUnneededChecks` rewrites the use list it iterates.
- **Fixpoints.** The CP drain loop, the relaxation rounds and the commit must terminate and must end at a real fixpoint.
- **Pattern matching that must be sound for every execution.** BCE removes a check only when every iteration of every run of the loop stays in bounds.

### Components (inventory)

| Component | Source | State | Operations | Model |
|---|---|---|---|---|
| CP | `CP.cpp`, `CP.h` | `workList`, `phiMap` (PhiItem = Bottom / Constant c / Top), the graph's operands | `initWorkList`, the drain loop of `analyze` (fold / register phi), `solvePhiCycles` (`analyzePhi`, `propagate`, rounds, commit) | `CP.tla`, `CPSem.tla`, abstract `AbstractCP.tla` (partly; `initSlot` patching left out) |
| InductionVariable | `InductionVariable.cpp/.h` | `variable_`, `range`, `hasLowerBound_`, `hasUpperBound_`, `isDoWhile_` | `extractPattern` (for-loop and do-while patterns), `rangeIsValid` | `InductionVariable.tla` (pure operators) |
| BCE | `BCE.cpp/.h` | `unneededChecks`, the graph's operands and block lists | the block scan of `analyze`, `tryElimination` and its three rules, `hasUnchangeableLength`, `eliminateUnneededChecks` | `BCE.tla`; soundness against `MIRExec.tla` over the loops of `LoopGraphs.tla` |
| MIR collaborator | `MIR.h`, `MIRGraph.h` (not in the repository) | instructions, uses, blocks | queries, `replaceWithInstruction`, `discard` | modelled from spec §6 (`spec_modelled` in `PROJECT.json`) |
| ParameterSpecialization | `ParameterSpecialization.cpp/.h` | per-script `disabledForPS`, `isParameterSpecialized`; `fp`, `nargs`, `args` | constructor, `extractArgs`, `canSpecialize`, `canSpecializeAtOsr`, `getConstantArg`, `getLocalValue`, `disable` | `ParamSpec.tla` |
| Interpreter arithmetic | `jsinterpinlines.h` 493-626, 816-937 | the values in the slots, the type sets `MonitorOverflow` feeds | `AddOperation` .. `ModOperation`, the relational operators, `BitNot` .. `BitRsh`, `UrshOperation` | `InterpArith.tla`, reference `JSNumber.tla` (strings, objects, XML left out) |
| Interpreter element access | `jsinterpinlines.h` 107-133, 208-245, 660-807 | a dense array: elements, initialized length, length; a string; the frame's actuals and `needsArgsObj`; the analysis flags | `IsOptimizedArguments`, `GuardFunApplyArgumentsOptimization`, `GetPropertyOperation` (`JSOP_LENGTH`), `GetObjectElementOperation`, `GetElementOperation`, `SetObjectElementOperation` | `ElemOps.tla` (XML branch left out) |
| LInversion, OverflowTestElimination, IonProfiler | `.cpp` of the same names | none | statistics written to `/tmp` files; empty bodies | not modelled: pure I/O |
| Trampolines | x86/x64 code generators | machine state | code emission | not modelled: outside TLC's reach |
| Other interpreter helpers | `jsinterpinlines.h` 1-492, 628-659, 809-814 | frames, scope chains, shapes, atoms | `this` computation, property caches, name lookup, `ToIdOperation` | not modelled: heap and scope structures no model represents |

How they interact:
- The interpreter runs a script first. Its arithmetic and element helpers record what they saw in the type sets and in the bytecode analysis flags, and the compiler specializes on them.
- ParameterSpecialization then lets the graph builder replace the parameters of a hot function by the constants of the frame it is compiled on.
- CP rewrites operands so that later passes see constants. BCE builds one `InductionVariable` per block and asks it for a range. A check is collected only when that range, together with the proof that the array length is unchanged, bounds the index. Deletion is deferred until the scan is over.

The properties that make each component correct (spec §8):
- **CP:** folding preserves every value, the lattice climbs, the pass terminates at a fixpoint, and a second run changes nothing.
- **InductionVariable:** the range holds in every block `rangeIsValid` accepts.
- **BCE:** every removed check would have passed, and no live instruction uses a discarded one.
- **Interpreter arithmetic:** every result is the value the language defines. Every double stored is in the type set inference holds for its slot, which is what lets compiled code trust the sets.
- **Element access:** the fast paths agree with the language's [[Get]] and [[Put]].
- **ParameterSpecialization:** the constants are the frame's values, never undefined, and a disabled script stays disabled.

## 2. Modules

### `CP.tla`: constant propagation

**State.** Each node has `kind`, `val` and `ops`. Nodes `1..N` are the script's instructions, and node `N+d` is the constant that folding `d` creates. The other variables are:
- `addr`: a bijection chosen in `Init`. `First(S)` is `begin()` of a pointer-ordered container.
- `workList` and `phiMap`.
- `cursor`: the address of the `phiMap` entry the solver visited last.
- `roundUpd` and `updated`.
- `pc`.
- `run`: how many `analyze` calls have started.
- `g0`: the input graph, a history variable.

**Actions.** Each action is one loop iteration of the code:

| Action | Code |
|---|---|
| `InitWorkList` | `CP::initWorkList` (45-66) |
| `DrainFold` | fold branch of the drain loop (78-123): queue the uses, then `replaceWithInstruction` |
| `DrainKeep` | a non-folding phi enters `phiMap` (124-127) |
| `StartSolve` | the work list is empty (128-130) |
| `SolveVisit` | one iteration of the `for` over `phiMap` (199-211), `AnalyzePhi` and `Propagate`. Entries inserted during the round are visited if their address is above the cursor, as a `std::map` iterator does. |
| `SolveRound` | `while (updated)` (212) |
| `SolveCommit` | the commit loop (214-237) and the outer `do ... while` of `analyze` |
| `Rerun` | the pipeline calls `analyze` again |

**Reference.** `Sem` (in `CPSem.tla`) is the least-fixpoint collecting semantics of the def-use graph: parameters and calls take values in {0,1}, and sums saturate at 16. It is the reference for soundness.

**Refinement.** `AbstractCP.tla` states what the pass promises without a work list, a phi map or an order. Its state is `kind`, `val`, `ops` and `done`. It has two actions:
- `Rewrite` changes operand slots to constant nodes, possibly creating fresh constants. Each changed slot must be justified by `Sem` of the graph before the step, in one of two ways:
  - the definition it named only ever takes the constant's value (a fold);
  - it is a slot of a phi that only ever takes that value, and all of that phi's slots now name the constant (a phi-cycle commit).
- `Finish` is taken only when no used instruction is still an add of constants or a phi of equal constants. It is weakly fair.

`CP` maps onto it with `Abstract == INSTANCE AbstractCP WITH done <- (pc = "done" /\ run = Runs)`. The graph variables map to themselves. Every work-list, phi-map and rerun step is a stutter. `AbstractSpec == Abstract!Spec` is checked as a property. This is stronger than `SemanticsPreserved`, which compares each state with the input only:
- every individual rewrite must be justified at the moment it happens;
- the last `analyze` call must return, and at a fixpoint.

### `InductionVariable.tla`: the pattern recogniser

The module has pure operators over a graph record (kind, ops, block, constant value, compare op, check min/max, headers, backedges, predecessors, block code):
- `ExtractUBCSPattern` keeps the `else if` chain of lines 106-157: the first candidate whose opcode test holds decides, even when its inner test fails.
- `ExtractUBCSPatternDoWhile` and `RangeIsValid` translate their functions.
- `ExtractPattern(g, b, garbage)` passes the uninitialised `isDoWhile_` in as `garbage`, which `BCE` chooses from `BOOLEAN`.

### `BCE.tla`: bounds check elimination

**State.** `g0`, `ops`, `code`, `blockIt`, `unneeded` (`unneededChecks`), `removed` (history of discards) and `pc`.

**Actions.**
- `ScanBlock` is one block of the loop in `BCE::analyze` (26-74). It includes the use loop `ChecksFor` and the rules `EliminateBoundsCheck`, `EliminateBoundsCheckRange` and `EliminateBoundsCheckLower`.
- `EndScan` starts the deletion phase.
- `DeleteCheck` is one iteration of `eliminateUnneededChecks` (249-272). It may take any element, because the set is ordered by address.
- `Finish` ends the pass.

The `int32 <= uint32_t` comparisons are `LEUInt32`: a negative left side converts to a value above every length.

### `LoopGraphs.tla` and `MIRExec.tla`: the inputs and the reference

`LoopGraphs!Build(p)` builds the MIR that IonBuilder emits for `for (i = L; i <op> U; i += C) a[i]` and for `do { a[i]; } while (i + C <op> U)`. The parameters choose the start (a constant or a parameter), the step, the bound, the array length, the check kind (exact, range with min/max, lower), and a few variations:
- a store `a.length = 0` to the array;
- a second use of the check;
- a `ToInt32` of the phi;
- the check placed in the header;
- an add that increments something other than the phi;
- a diamond `i0 = q < U ? L : L2` before the loop (blocks 1-4, the loop's blocks renumbered from 5), so that the loop starts at a phi of two constants.

`MIRExec` interprets a graph block by block, with phis read by predecessor index and at most 24 blocks per run, for every assignment of {-2, 3} to the parameters. It records `<<check, index, length>>` for every check executed, and `<<block, phi, value>>` for every phi on entry to a block. `Redundant` says a check passed on every record; `PhiValues` gathers the phi records of all executions.

### `ParamSpec.tla`: parameter specialization across compilations

**State.**
- The per-script flags `disabledForPS` and `isParameterSpecialized`.
- The fields of the current `ParameterSpecialization`: `fp`, `nargs` and `args`. `osrPc` says whether this compilation has an OSR entry.
- `entry` and `osr`: the constants the builder put into the entry block and the OSR block. `NoBlock` means the parameters were kept.
- `pc` and `compiles`.

**Actions.**
- `Construct`: the constructor. `nargs` and `args` hold arbitrary values, since the constructor never sets them.
- `CanSpecialize`: `canSpecialize(osrPc)` and the builder's use of a yes answer. Every formal becomes `getConstantArg(i)` and the script is flagged.
- `CanSpecializeAtOsr`: `canSpecializeAtOsr()` and the builder's use of it, taking the formals and the locals (`getLocalValue`).
- `Disable`: `disable()` during a compilation.

The builder is not in the repository. Its use of the flag is taken from the comment at lines 80-81: it sets `isParameterSpecialized` when it replaces the entry parameters. Nothing in the repository clears it.

### `JSNumber.tla` and `InterpArith.tla`: interpreter arithmetic

**`JSNumber`** is the reference:
- exact IEEE arithmetic on rationals, with the sign of zero, infinities and NaN;
- ECMA-262 `ToInt32` and `ToUint32` at an integer width `W`;
- `Value::setNumber`, which tags an integral double in range as int32 unless it is -0.

**`InterpArith`** runs a register program (`prog`, one of `Progs`). Each site is `dst := op(a, b)`, and sites may execute in any order (loops).

| Action | Code |
|---|---|
| `Add`, `Sub`, `Mul`, `Div`, `Mod` | `AddOperation` .. `ModOperation` (493-626): the int32 fast paths (the wrapped sum and its overflow test, the `Mod` guard), `setNumber`, and the `MonitorOverflow` calls |
| `Rel` | `RELATIONAL_OP` (816-863): int32 compare or double compare |
| `Bit` | `BitNot` .. `BitRsh` (865-923): `ToInt32`, shift counts masked with `W-1` |
| `Ursh` | `UrshOperation` (925-937): uint32 result, monitored when it is not int32 |

The variable `monitored` records the sites that called `MonitorOverflow`. `TypeSets` computes the type sets inference derives from:
- the entry tags (`types0`);
- what each site pushes: int32; double when an operand's set holds double or the site was monitored; boolean for a comparison.

The propagation to a fixpoint is `RECURSIVE TIFix`.

### `ElemOps.tla`: element get and set on an array, a string and `arguments`

**State.**
- The dense vector `elems`, with the magic hole.
- `initLen` and `length`.
- The own property `named` ("-1").
- The inherited properties `proto` (Object.prototype, reached from the array, the String wrapper and the arguments object): absent, a data value, or a setter.
- The frame's actual arguments `actuals`, and `needsArgsObj` (set by `argumentsOptimizationFailed`, which creates the arguments object).
- `res`: the value pushed by the last get.
- The analysis flags `getStringElement` and `arrayWriteHole`.

**Actions.**
- `GetElem(o, s, i)`: `GetElementOperation` with the left operand `o`: the array, the string `s` (a sequence of unit strings from `Strs`), or the optimized-arguments magic. The four disjuncts are its four exits:
  - the string fast path `size_t(i) < length` (`StrFast`, `UnitString`);
  - the arguments fast path `i >= 0 && uint32_t(i) < numActualArgs` while `IsOptimizedArguments` holds (`ArgsFast`, `UnaliasedActual`);
  - `argumentsOptimizationFailed` followed by `GetObjectElementOperation` on the new arguments object (`maybeGetElement` below its length);
  - `GetObjectElementOperation` on the array, the String wrapper, or the arguments object once it exists.
- `GetLength(o, s)`: the `JSOP_LENGTH` fast paths of `GetPropertyOperation` (`jsinterpinlines.h` 208-245) on the same receivers: the string's length, `numActualArgs()` for the magic, `getArrayLength()`, and an arguments object's `initialLength()` (its length is never overridden here).
- `GuardFunApply(isApply)`: `GuardFunApplyArgumentsOptimization`. A callee other than the builtin `apply` makes the script create the arguments object.

  In `GetElem`, the reads the unsigned casts prevent are given the values they would produce: a character before the string is `Garbage`, and `formals()[-1]` is the this slot `ThisV`.
- `SetElem`: `SetObjectElementOperation`.

The engine's `getElement`, `getProperty` and `setGeneric` are not in the repository. They are [[Get]] and [[Put]] on the same state (`JSGet`, `SetGeneric`), and they are the reference the fast paths are checked against.

## 3. Runs

| Run | Checks | Result |
|---|---|---|
| `cp_gen3` (`MC_CP_gen3.cfg`) | TypeOK, SemanticsPreserved, FixpointReached, Termination, AbstractSpec | pass: 24,816 states |
| `cp_curated` (`MC_CP_cur5.cfg`) | SemanticsPreserved, FixpointReached, LatticeMonotone, Termination | pass: 11,700 states |
| `cp_idempotent` (`MC_CP_idem.cfg`) | Idempotent | violation (finding) |
| `bce_safe` (`MC_BCE_safe.cfg`) | TypeOK, BCESound, IVRangeCorrect, NoDanglingUse | pass: 4,090 states |
| `bce_le_bound`, `bce_negative_index`, `bce_header_range`, `bce_foreign_increment` | BCESound | violation (findings) |
| `interp` (`MC_InterpArith.cfg`) | TypeOK, TypeSetSound, ResultCorrect | pass: 387,586 states |
| `elem` (`MC_ElemOps.cfg`) | GetCorrect, SetCorrect | pass: 508,030 states |
| `ps_flags` (`MC_ParamSpec.cfg`) | ConstantsMatchFrame | pass: 3,276 states |
| `ps_osr_stale` (`MC_ParamSpec_osr.cfg`) | OsrOnlyWithEntry | violation (finding) |

`cp_gen3` covers every SSA def-use graph of three instructions:
- a constant 1 or 2, a parameter, an add of earlier instructions, a call, or a two-operand phi whose back-edge operand may be any instruction;
- under every allocation order (`addr`);
- with two consecutive `analyze` calls.

`cp_curated` runs the spec's scenarios 8.1–8.3 and five-instruction phi nests, under every order. These include the nested loops `p = phi(1, q)`, `q = phi(p, 2)`, where different constants meet.

What the properties say:
- **SemanticsPreserved:** after every step, every original instruction has the same value set under `Sem` as in the input.
- **FixpointReached:** when `analyze` returns, no used instruction can still fold.
- **LatticeMonotone:** no entry of `phiMap` descends or switches constant between two steps.
- **Termination:** the calls return.
- **AbstractSpec:** CP implements `AbstractCP`. Every rewrite is justified when it happens, and the last call returns at a fixpoint (see §2).

`bce_safe` covers 512 loops:
- both shapes, start 0 or 1, step −1 or 1, bound 2 or 3, length 2 or 3, four check kinds;
- with or without a store, a second use or a `ToInt32`.

It also covers 14 loops that start at the diamond phi of two starts 0 or 1, with a check of `a[i - 1]` or of `i >= 1`. These exercise the smaller-start rule of `LowerBound` (`InductionVariable.cpp` 189-203). The do-while loops whose first phi operand is the larger start are left out here; they are a finding.

Properties:
- **BCESound:** every check in `unneeded ∪ removed` is `Redundant` in every execution of the input graph.
- **IVRangeCorrect** (spec §8): for every loop whose pattern `extractPattern` matches, the phi's value lies in `[lb, ub)` on entry to every block that `rangeIsValid` accepts, in every execution. It checks `InductionVariable` alone, before BCE uses its result. The uninitialised `isDoWhile_` is taken as false after a for-loop match here; the other value is the `bce_header_range` finding.
- **NoDanglingUse:** no instruction left in a block uses a discarded check.

The BCE violation runs use loops that exhibit the defects listed in `PROJECT.json` under findings:
- `bce_le_bound`: the `<=` bound is stored as `U - 1`.
- `bce_negative_index` (`MC_BCE_ParamStart.cfg`): a removed check fails for a negative index. Either the exact rule ignores the lower bound (a loop starting at a parameter), or the do-while pattern takes the lower bound from the first operand of a phi of two starts, which may be the larger one.
- `bce_header_range`: the loop header is taken as in range. Either the uninitialised `isDoWhile_` reads true for a for-loop, or a do-while's first iteration is above the bound.
- `bce_foreign_increment`: neither pattern checks that the increment adds the phi itself. This covers the for-loop add and the do-while backedge operand.

Each merged run holds the loops of two related defects. TLC reports the first one it meets, and each defect was also confirmed on its own loop (the `*Graphs` definitions of `MC_BCE.tla`).

`interp` runs two programs over two slots:
- `add`, `sub`, `mul`, `div`, `mod`, `ursh`, `lt` feeding each other;
- the relational and bitwise operators.

The start values are int32 7, -8, -1, the double -0 and 5/2. Properties:
- **ResultCorrect:** every step stores `SetNumber` of the ECMA-262 result (bitwise results rebuilt from their bits), or the boolean of the comparison.
- **TypeSetSound:** the tag of every slot is in the type set inference derives from the entry types, the sites' pushes and the `MonitorOverflow` reports. If a helper stores a double without reporting it, compiled code that trusts the set is wrong.

`elem` runs every dense array of capacity 3 over two values, with holes, under four prototypes: no index properties, a data value at 1, a setter at 1, a setter at "-1". Properties:
- **GetCorrect:** GETELEM pushes [[Get]] of its left operand: never the hole magic, the inherited value behind a hole or past a string's end, never a character or the this slot read at index -1, and the same value before and after the arguments object is created (this part holds by construction: nothing in the model writes the actuals or the arguments object). LENGTH pushes the receiver's length property.
- **SetCorrect:** SETELEM leaves the object [[Put]] would. A hole is not filled on the fast path when an inherited setter must take the write, and nothing is written at or above the initialized length.

`ps_flags` runs three compilations of a function script with two formals, each undefined or not, with or without an OSR entry, with `disable()` possible at any point. Property:
- **ConstantsMatchFrame:** the constants the entry and the OSR block receive are the values of the current compilation's frame, never garbage from unset `nargs`/`args` or values of an earlier frame. It depends on `canSpecializeAtOsr` calling `extractArgs` again (line 86) although `canSpecialize` already did.

The refusal of an undefined argument (lines 67-72) and the early return on `disabledForPS` (line 48) are single guards, and no property restates them.

`ps_osr_stale` finds the finding at `ParameterSpecialization.cpp:82`:
1. Compilation 1 specializes the entry block and sets `isParameterSpecialized`.
2. Compilation 2 has an undefined argument, so `canSpecialize` refuses.
3. `canSpecializeAtOsr` still sees the flag, so the OSR block is specialized (undefined included) while the entry block is not. This contradicts the comment at lines 80-81.

Every property of a passing run has a mutant: a plausible slip in the code it models, under which TLC finds the property violated. The mutants are listed in `PROJECT.json`.

### Bounds, fairness, deadlock

- The CP bounds of three instructions (every graph) and five (curated) include a phi cycle through a second phi, an add closing a cycle, a call, and two runs.
- The BCE values are small but reach every branch of the three rules. Negative parameters, a step of −1 and a bound equal to the length are all included.
- InterpArith: `W = 4`, results bounded to magnitude 9 and denominator 2 (`MaxMag`, `MaxDen`). At this width the int32 range is -8..7, so overflow in both directions (7 + 1 and -8 + -1), `INT_MIN / -1`, -0, the sign bit in shifts and uint32 results above `IntMax` all happen. The shift mask is `W - 1` as 31 is for 32 bits.
- ElemOps: capacity 3 gives a hole between two elements, a write at and beyond the initialized length, and the index -1. Strings of length 0 to 2 and one or two actual arguments give an index inside, at the end of, and beyond the operand, and an inherited value at an index past a string's end.
- ParamSpec: three compilations are enough for a specialization, a refusal and a third compilation after a disable.
- CP (only): `WF_vars(Next)`: each pass is one synchronous call that keeps executing until it returns (spec §5), so every enabled step is eventually taken.
- The passes really stop, so the CP and BCE cfgs say `CHECK_DEADLOCK FALSE`. A final state is `pc = "done"`.
- InterpArith and ElemOps check safety only: the interpreter may stop or keep running, and no fairness is assumed. Their Next is always enabled.
- ParamSpec says `CHECK_DEADLOCK FALSE`: compilations stop at the bound, and a script may never be compiled again.

## 4. Not modelled, and why

- **CP `initSlot` patching (CP.cpp 105-107) and resume points:** they are not part of the def-use abstraction. A block that records the folded phi in its slots is dominated by the phi's block and comes after it in reverse post-order, so the patching misses none, and no hazard is listed.
- **Signed overflow in the int32 fast paths** (`AddOperation` line 499, the left shift line 911): undefined behaviour in C++. The model takes the two's-complement wrap the build produces; an optimiser that exploits the undefined behaviour is not covered.
- **`toDefinition()` on resume-point uses (BCE.cpp 255) and the unchecked `toInitializedLength` cast (163):** these are undefined behaviour with no outcome set to enumerate.
- **Aliasing stores and calls that change an array's length:** the loop graphs only contain direct stores.
- **DEBUG statistics, spew output, `LInversion`, `OverflowTestElimination` and `IonProfiler`:** these are I/O only.
- **CP followed by BCE on one graph:** the passes share no state in this repository; they meet only through the MIR graph. CP's folding (`CP.tla`) and BCE's soundness (`BCE.tla`) are checked separately. A composed run would replace the loop family's constants with CP's output, which it already contains as `Constant` instructions.
- **The trampolines:** these are machine-code generators, out of TLC's reach.
- **The remaining `jsinterpinlines.h` helpers** (frames, `this`, property caches, names, `typeof`, `ToIdOperation`) and **the string and XML paths of the arithmetic helpers and the XML branch of the element helpers:** they act on shapes, atoms and scope chains, which no model here represents.
- **Out-of-memory failures** of `getUnitStringForElement` and `argumentsOptimizationFailed` in `GetElementOperation`: they only return false.
- **Writes to the arguments object:** without them the frame's actuals and the arguments object never differ, so the stale-magic replacement of `IsOptimizedArguments` changes no value (listed as a hazard).
- **Type monitoring:** `MonitorAssign` and the consumers of the analysis flags are not in the repository. The flags are state of `ElemOps`, but no property speaks of them (see the hazards).
- **The graph builder's use of ParameterSpecialization:** it is not in the repository and is taken from the comment of `canSpecializeAtOsr`.

## 5. Plan for later work

1. Compose CP and BCE: run CP on the loop graphs before BCE, as the pipeline does, and check that BCE stays sound on the CP output.
2. Extend the loop family: nested loops, where the do-while pattern's inner phi is an enclosing loop's phi, and conversions on the phi's backedge operand.
3. Model the string concatenation of `AddOperation` with strings as short sequences.
