------------------------------- MODULE ElemOps --------------------------------
(***************************************************************************)
(* The element helpers of jsinterpinlines.h: GetElementOperation and      *)
(* GetObjectElementOperation (JSOP_GETELEM) and SetObjectElementOperation *)
(* (JSOP_SETELEM), with an int32 index.                                   *)
(*                                                                         *)
(* The left operand of a GETELEM is a dense array, a string, or the magic *)
(* JS_OPTIMIZED_ARGUMENTS that stands for the frame's arguments object    *)
(* before one is created.  The array keeps its elements in a dense        *)
(* vector: the slots below the initialized length hold a value or the     *)
(* magic JS_ARRAY_HOLE, the slots above it are unused.  The helpers take  *)
(* a fast path on the vector, the string's characters or the frame's      *)
(* actual arguments, and otherwise call the engine's generic getElement / *)
(* getProperty / setGeneric, which are not code of this repository: they  *)
(* are modelled by what the language says of [[Get]] and [[Put]], and are *)
(* the reference the fast paths are checked against.  All three receivers *)
(* inherit from Object.prototype, whose properties (proto) may include    *)
(* indexed data properties or setters; the index -1 names the ordinary    *)
(* property "-1".  Type monitoring (MonitorAssign) is left out.           *)
(***************************************************************************)
EXTENDS Integers, Sequences

CONSTANTS
  Vals,     \* the values a property may hold (a character is a unit string)
  Cap,      \* the capacity of the dense vector
  Protos,   \* the inherited properties: Keys -> Vals \cup {Absent, Setter}
  Strs,     \* the strings a script indexes: sequences over Vals
  ArgLists, \* the actual arguments a frame may have: sequences over Vals
  Hole,     \* MagicValue(JS_ARRAY_HOLE)
  Absent,   \* no such property
  Setter,   \* an accessor property with a setter and no getter
  Undef,    \* the value undefined
  ThisV,    \* the frame's this value, in the slot just below its actuals
  Garbage   \* what a read past the end of a string's characters yields

Dense == 0..(Cap - 1)       \* indices of the dense vector
Keys  == {-1} \cup Dense    \* the int32 indices a script uses

ASSUME {Hole, Absent, Setter, Undef, ThisV, Garbage} \cap Vals = {}

VARIABLES
  elems,            \* the dense vector
  initLen,          \* getDenseArrayInitializedLength()
  length,           \* getArrayLength()
  named,            \* the own property "-1"
  proto,            \* the inherited properties
  actuals,          \* the frame's actual arguments
  needsArgsObj,     \* script->needsArgsObj(): the arguments object exists
  res,              \* the value the last GETELEM pushed
  getStringElement, \* analysis()->getCode(pc).getStringElement
  arrayWriteHole,   \* analysis()->getCode(pc).arrayWriteHole
  last              \* the last operation and its operands (history)

vars == <<elems, initLen, length, named, proto, actuals, needsArgsObj, res,
          getStringElement, arrayWriteHole, last>>

-----------------------------------------------------------------------------
(* The objects as the language sees them, and [[Get]] / [[Put]] on them.  *)
(* A string is indexed through its String wrapper, whose own properties   *)
(* are its characters; the arguments object owns the actual arguments.    *)
Own(i) == IF i \in Dense THEN IF i < initLen /\ elems[i] # Hole THEN elems[i] ELSE Absent
          ELSE named

Owned(seq, i) == IF i \in 0..(Len(seq) - 1) THEN seq[i + 1] ELSE Absent

OwnOf(o, s, i) ==
  CASE o = "array"  -> Own(i)
    [] o = "string" -> Owned(s, i)
    [] o = "args"   -> Owned(actuals, i)

Object == [own |-> [i \in Keys |-> Own(i)], length |-> length]

JSGet(o, s, i) ==
  CASE OwnOf(o, s, i) # Absent -> OwnOf(o, s, i)
    [] proto[i] \in Vals      -> proto[i]
    [] OTHER                  -> Undef

\* [[Put]] creates or overwrites an own property unless an inherited
\* setter takes the assignment; an index at or above length extends it.
PutsOwn(i) == Own(i) # Absent \/ proto[i] # Setter

JSPut(i, v) ==
  IF PutsOwn(i)
  THEN [own |-> [Object.own EXCEPT ![i] = v],
        length |-> IF i \in Dense /\ i >= length THEN i + 1 ELSE length]
  ELSE Object

\* The generic paths of the engine, as [[Put]] on the representation.
SetGeneric(i, v) ==
  IF ~PutsOwn(i) THEN UNCHANGED <<elems, initLen, length, named>>
  ELSE IF i \in Dense
  THEN /\ elems' = [j \in Dense |-> CASE j = i -> v
                                     [] j >= initLen -> Hole
                                     [] OTHER -> elems[j]]
       /\ initLen' = IF i >= initLen THEN i + 1 ELSE initLen
       /\ length' = IF i >= length THEN i + 1 ELSE length
       /\ UNCHANGED named
  ELSE named' = v /\ UNCHANGED <<elems, initLen, length>>

\* js_PrototypeHasIndexedProperties: the prototype owns an index property.
PrototypeHasIndexedProperties == \E i \in Dense : proto[i] # Absent

-----------------------------------------------------------------------------
Init ==
  /\ initLen \in 0..Cap
  /\ length \in initLen..Cap
  /\ elems \in {e \in [Dense -> Vals \cup {Hole}] : \A i \in Dense : i >= initLen => e[i] = Hole}
  /\ named \in Vals \cup {Absent}
  /\ proto \in Protos
  /\ actuals \in ArgLists
  /\ needsArgsObj = FALSE
  /\ res = Undef
  /\ getStringElement = FALSE /\ arrayWriteHole = FALSE
  /\ last = [op |-> "none", o |-> "array", s |-> <<>>, i |-> 0, v |-> Undef]

\* GetObjectElementOperation on object o: IsDefinitelyIndex holds for a
\* non-negative int32; a dense array is read below the initialized length
\* (a hole falls through to getElement), an arguments object answers
\* maybeGetElement for an index below its length, any other object calls
\* getElement.  Another index is converted to a name; the interpreter
\* (not Ion code) marks the site.
GetObjectElementNoHoleTest(o, s, i, inIon) ==
  IF i >= 0
  THEN /\ res' = CASE o = "array" /\ i < initLen      -> elems[i]
                   [] o = "args" /\ i < Len(actuals) -> actuals[i + 1]
                   [] OTHER                          -> JSGet(o, s, i)
       /\ UNCHANGED getStringElement
  ELSE /\ getStringElement' = (getStringElement \/ ~inIon)
       /\ res' = JSGet(o, s, i)

GetObjectElement(o, s, i, inIon) ==
  IF i >= 0
  THEN /\ res' = CASE o = "array" /\ i < initLen /\ elems[i] # Hole -> elems[i]
                   [] o = "args" /\ i < Len(actuals)               -> actuals[i + 1]
                   [] OTHER                                        -> JSGet(o, s, i)
       /\ UNCHANGED getStringElement
  ELSE /\ getStringElement' = (getStringElement \/ ~inIon)
       /\ res' = JSGet(o, s, i)

\* The string fast path: size_t(i) < str->length(), so a negative index
\* wraps to a huge one and is not taken.
StrFastSigned(s, i) == i < Len(s)
StrFast(s, i) == i >= 0 /\ i < Len(s)

\* getUnitStringForElement reads str->chars()[i]; past the characters it
\* reads memory that is not the string's.
UnitString(s, i) == IF i \in 0..(Len(s) - 1) THEN s[i + 1] ELSE Garbage

\* IsOptimizedArguments: the magic stands for the arguments object until
\* argumentsOptimizationFailed created one; from then on the magic (still
\* held in a temporary) is replaced by that object.
IsOptimizedArguments(o) == o = "args" /\ ~needsArgsObj

\* The arguments fast path: i >= 0 && uint32_t(i) < fp->numActualArgs().
ArgsFastSigned(i) == i < Len(actuals)
ArgsFast(i) == i >= 0 /\ i < Len(actuals)

\* fp->unaliasedActual(i) reads formals()[i]; the slot below the first
\* actual holds this.
UnaliasedActual(i) == IF i \in 0..(Len(actuals) - 1) THEN actuals[i + 1] ELSE ThisV

\* GetElementOperation with left operand o (s when o is a string).
GetElem(o, s, i) ==
  /\ \E inIon \in BOOLEAN :
       \/ /\ o = "string" /\ StrFast(s, i)
          /\ res' = UnitString(s, i)
          /\ UNCHANGED <<getStringElement, needsArgsObj>>
       \/ /\ IsOptimizedArguments(o) /\ ArgsFast(i)
          /\ res' = UnaliasedActual(i)
          /\ UNCHANGED <<getStringElement, needsArgsObj>>
       \/ /\ IsOptimizedArguments(o) /\ ~ArgsFast(i)
          /\ needsArgsObj' = TRUE
          /\ GetObjectElement(o, s, i, inIon)
       \/ /\ ~(o = "string" /\ StrFast(s, i)) /\ ~IsOptimizedArguments(o)
          /\ GetObjectElement(o, s, i, inIon)
          /\ UNCHANGED needsArgsObj
  /\ last' = [op |-> "get", o |-> o, s |-> s, i |-> i, v |-> Undef]
  /\ UNCHANGED <<elems, initLen, length, named, proto, actuals, arrayWriteHole>>

\* The length property as the language sees it: the string's length, the
\* array's length, or the arguments object's (never overridden here).
JSLength(o, s) ==
  CASE o = "array"  -> length
    [] o = "string" -> Len(s)
    [] o = "args"   -> Len(actuals)

\* The JSOP_LENGTH fast paths of GetPropertyOperation: a string's length,
\* numActualArgs() for the optimized arguments, getArrayLength() of an
\* array, and initialLength() of an arguments object whose length was not
\* overridden.  None of these receivers reaches the property cache path.
ArrayLengthInit == initLen
ArrayLength == length

GetLength(o, s) ==
  /\ res' = CASE o = "string"              -> Len(s)
              [] IsOptimizedArguments(o)   -> Len(actuals)
              [] o = "array"               -> ArrayLength
              [] o = "args"                -> Len(actuals)
  /\ last' = [op |-> "length", o |-> o, s |-> s, i |-> 0, v |-> Undef]
  /\ UNCHANGED <<elems, initLen, length, named, proto, actuals, needsArgsObj,
                 getStringElement, arrayWriteHole>>

\* GuardFunApplyArgumentsOptimization before a call f.apply(x, arguments):
\* the optimized arguments may be passed on only to the builtin apply;
\* any other callee makes the script create the arguments object, which
\* then replaces the magic in the stack slot.
GuardFunApply(isApply) ==
  /\ needsArgsObj' = (needsArgsObj \/ ~isApply)
  /\ last' = [op |-> "apply", o |-> "args", s |-> <<>>, i |-> 0,
              v |-> IF needsArgsObj' THEN "object" ELSE "magic"]
  /\ UNCHANGED <<elems, initLen, length, named, proto, actuals, res,
                 getStringElement, arrayWriteHole>>

\* The dense fast path of SetObjectElementOperation: (uint32_t)i < the
\* initialized length; a hole is written only when no prototype has
\* indexed properties, and extends length when it is at or above it.
SetDenseNoProtoTest(i, v) ==
  /\ length' = IF elems[i] = Hole /\ i >= length THEN i + 1 ELSE length
  /\ elems' = [elems EXCEPT ![i] = v]
  /\ UNCHANGED <<initLen, named>>

SetDense(i, v) ==
  IF elems[i] = Hole /\ PrototypeHasIndexedProperties
  THEN SetGeneric(i, v)
  ELSE /\ length' = IF elems[i] = Hole /\ i >= length THEN i + 1 ELSE length
       /\ elems' = [elems EXCEPT ![i] = v]
       /\ UNCHANGED <<initLen, named>>

\* (uint32_t)i < length: a negative index is never below the initialized length.
InDenseOffByOne(i) == i \in Dense /\ i <= initLen
InDense(i) == i \in Dense /\ i < initLen

SetElem(i, v) ==
  /\ \E inIon \in BOOLEAN :
       IF InDense(i)
       THEN SetDense(i, v) /\ UNCHANGED arrayWriteHole
       ELSE /\ arrayWriteHole' = (arrayWriteHole \/ ~inIon)
            /\ SetGeneric(i, v)
  /\ last' = [op |-> "set", o |-> "array", s |-> <<>>, i |-> i, v |-> v]
  /\ UNCHANGED <<proto, actuals, needsArgsObj, res, getStringElement>>

Next ==
  \/ \E o \in {"array", "args"}, i \in Keys : GetElem(o, <<>>, i)
  \/ \E s \in Strs, i \in Keys : GetElem("string", s, i)
  \/ \E i \in Keys, v \in Vals : SetElem(i, v)
  \/ \E o \in {"array", "args"} : GetLength(o, <<>>)
  \/ \E s \in Strs : GetLength("string", s)
  \/ \E isApply \in BOOLEAN : GuardFunApply(isApply)

Spec == Init /\ [][Next]_vars

-----------------------------------------------------------------------------
(* JSOP_GETELEM pushes what [[Get]] gives on its left operand: an own    *)
(* element or character, else the inherited value, else undefined.  Never *)
(* the hole magic of the dense vector (the isMagic test of               *)
(* GetObjectElementOperation), never a character read at a negative index *)
(* (the size_t cast of the string fast path), never the this slot below   *)
(* the actual arguments (the uint32_t cast of the arguments fast path),   *)
(* and the same value before and after argumentsOptimizationFailed.       *)
(* JSOP_LENGTH pushes the length property of the same three receivers.    *)
GetCorrect ==
  [][/\ last'.op = "get" => res' = JSGet(last'.o, last'.s, last'.i)
     /\ last'.op = "length" => res' = JSLength(last'.o, last'.s)]_vars

(* JSOP_SETELEM leaves the array as [[Put]] would: the fast path of      *)
(* SetObjectElementOperation writes only below the initialized length,   *)
(* and defers a hole to setGeneric when a prototype setter may take it.  *)
SetCorrect ==
  [][last'.op = "set" => Object' = JSPut(last'.i, last'.v)]_vars
=============================================================================
