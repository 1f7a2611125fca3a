------------------------------ MODULE ParamSpec ------------------------------
(***************************************************************************)
(* ParameterSpecialization (ion/ParameterSpecialization.cpp, .h) across   *)
(* repeated compilations of one script.                                   *)
(*                                                                         *)
(* Each compilation constructs a ParameterSpecialization on the current   *)
(* interpreter frame; its nargs and args are not initialised until        *)
(* extractArgs succeeds.  The graph builder (not in this repository)      *)
(* asks canSpecialize(osrPc) before the entry block and, when the script  *)
(* has an OSR entry, canSpecializeAtOsr() before the OSR block; when the  *)
(* answer is yes it takes getConstantArg(i) for every formal (and, at the *)
(* OSR block, getLocalValue(i) for the locals).  The comment of           *)
(* canSpecializeAtOsr says the flag isParameterSpecialized records that   *)
(* the entry block's parameters were replaced: the builder sets it then.  *)
(* No code of this repository clears it.  disable() may be called while   *)
(* a compilation is under way.                                            *)
(***************************************************************************)
EXTENDS Naturals, Sequences

CONSTANTS
  ArgVals,      \* values a formal or a local may hold
  Undefined,    \* the undefined value, in ArgVals
  MaxArgs,      \* bound on numFormalArgs
  Frames,       \* the interpreter frames a compilation may start on
  MaxCompiles   \* bound on the number of compilations

ASSUME Undefined \in ArgVals

\* The parameters of a block: replaced by constants or not.
NoBlock == [replaced |-> FALSE, formals |-> <<>>, locals |-> <<>>]
Replaced(fs, ls) == [replaced |-> TRUE, formals |-> fs, locals |-> ls]

VARIABLES
  disabledForPS,            \* JSScript::disabledForPS
  isParameterSpecialized,   \* JSScript::isParameterSpecialized
  fp, osrPc,                \* the frame and the OSR entry of this compilation
  nargs, args,              \* ParameterSpecialization::nargs, ::args
  entry, osr,               \* the constants the entry and the OSR block received
  pc,                       \* "idle", "entry" (before canSpecialize), "osr"
  compiles                  \* compilations started

vars == <<disabledForPS, isParameterSpecialized, fp, osrPc, nargs, args, entry, osr, pc, compiles>>

\* extractArgs: only a function frame with arguments has formals to take.
ExtractArgs(f) == f.hasArgs /\ f.isFunctionFrame

GetArg(i) == args[i]

GetConstantArg(i) == GetArg(i)

GetLocalValue(i) == fp.slots[i]

\* The constants getConstantArg gives for the formals 0 .. nargs-1.
ArgConstants(n) == [i \in 1..n |-> GetConstantArg(i)]

Init ==
  /\ disabledForPS = FALSE
  /\ isParameterSpecialized = FALSE
  /\ fp \in Frames /\ osrPc = FALSE
  /\ nargs = 0 /\ args = [i \in 1..MaxArgs |-> Undefined]
  /\ entry = NoBlock /\ osr = NoBlock
  /\ pc = "idle"
  /\ compiles = 0

\* A compilation constructs ParameterSpecialization on cx->fp(); nargs and
\* args hold whatever the allocation held.
Construct ==
  /\ pc = "idle" /\ compiles < MaxCompiles
  /\ \E f \in Frames, o \in BOOLEAN, n \in 0..MaxArgs, a \in [1..MaxArgs -> ArgVals] :
       /\ fp' = f /\ osrPc' = o
       /\ nargs' = n /\ args' = a
  /\ entry' = NoBlock /\ osr' = NoBlock
  /\ pc' = "entry"
  /\ compiles' = compiles + 1
  /\ UNCHANGED <<disabledForPS, isParameterSpecialized>>

\* extractArgs on the frame of this compilation: nargs and args are set.
Extract ==
  LET n == Len(fp.formals) IN
  /\ nargs' = n
  /\ args' = [i \in 1..MaxArgs |-> IF i <= n THEN fp.formals[i] ELSE args[i]]

\* The loop of lines 67-72: no formal is undefined.
NoneUndefined == (\A i \in 1..nargs : GetArg(i) # Undefined)'

\* canSpecialize(osrPc), and the builder's use of its answer: every formal
\* becomes the constant getConstantArg(i) and the script is flagged.
CanSpecialize ==
  /\ pc = "entry"
  /\ CASE disabledForPS ->
            UNCHANGED <<disabledForPS, nargs, args, entry, isParameterSpecialized>>
       [] ~osrPc \/ ~ExtractArgs(fp) ->
            disabledForPS' = TRUE /\ UNCHANGED <<nargs, args, entry, isParameterSpecialized>>
       [] OTHER ->
            /\ Extract
            /\ IF NoneUndefined
               THEN entry' = Replaced(ArgConstants(nargs)', <<>>) /\ isParameterSpecialized' = TRUE
               ELSE UNCHANGED <<entry, isParameterSpecialized>>
            /\ UNCHANGED disabledForPS
  /\ pc' = IF osrPc THEN "osr" ELSE "idle"
  /\ UNCHANGED <<fp, osrPc, osr, compiles>>

\* extractArgs as canSpecializeAtOsr calls it.
ExtractAtOsrSkipped == UNCHANGED <<nargs, args>>
ExtractAtOsr == Extract

\* canSpecializeAtOsr(), and the builder's use of its answer: the formals
\* by getConstantArg, the locals by getLocalValue.
CanSpecializeAtOsr ==
  /\ pc = "osr"
  /\ CASE ~isParameterSpecialized ->
            UNCHANGED <<disabledForPS, nargs, args, osr>>
       [] ~ExtractArgs(fp) ->
            disabledForPS' = TRUE /\ UNCHANGED <<nargs, args, osr>>
       [] OTHER ->
            /\ ExtractAtOsr
            /\ osr' = Replaced(ArgConstants(nargs)',
                              [i \in DOMAIN fp.slots |-> GetLocalValue(i)])
            /\ UNCHANGED disabledForPS
  /\ pc' = "idle"
  /\ UNCHANGED <<isParameterSpecialized, fp, osrPc, entry, compiles>>

\* disable(), called by the builder during a compilation.
Disable ==
  /\ pc # "idle"
  /\ disabledForPS' = TRUE
  /\ UNCHANGED <<isParameterSpecialized, fp, osrPc, nargs, args, entry, osr, pc, compiles>>

Next == Construct \/ CanSpecialize \/ CanSpecializeAtOsr \/ Disable

Spec == Init /\ [][Next]_vars

-----------------------------------------------------------------------------
\* The constants a block receives are the values of the frame the script is
\* compiled on: getConstantArg reads args, which only extractArgs fills
\* from cx->fp(), and a fresh ParameterSpecialization holds garbage there
\* until it does (canSpecialize and canSpecializeAtOsr both call it).
ConstantsMatchFrame ==
  /\ entry.replaced => entry.formals = fp.formals
  /\ osr.replaced => osr.formals = fp.formals /\ osr.locals = fp.slots

\* The comment of canSpecializeAtOsr: the parameters are replaced in the
\* OSR block only if they were replaced in the entry block.
OsrOnlyWithEntry == osr.replaced => entry.replaced
=============================================================================
