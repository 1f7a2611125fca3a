----------------------------- MODULE InterpArith -----------------------------
(***************************************************************************)
(* The arithmetic, relational and bitwise helpers of jsinterpinlines.h    *)
(* (AddOperation .. UrshOperation, lines 494-937), run by an interpreter  *)
(* over a small register program, together with the type-inference       *)
(* side effect they have: TypeScript::MonitorOverflow(cx, script, pc)    *)
(* adds "double" to the type set of the value the bytecode at pc pushes. *)
(*                                                                         *)
(* Each site i of prog is one bytecode: dst := op(a, b).  The interpreter *)
(* may reach the sites in any order (loops and branches).  Strings,       *)
(* objects and XML are left out: on numbers and booleans ToPrimitive is  *)
(* the identity and the string branches are not taken.                   *)
(***************************************************************************)
EXTENDS JSNumber, Bitwise, Sequences, FiniteSets

CONSTANTS
  Regs,       \* the local slots of the script
  Progs,      \* programs: sequences of sites [op, a, b, dst], a, b, dst in Regs
  InitVals,   \* the values the slots may hold on entry
  MaxMag,     \* bound: no finite result larger than MaxMag in magnitude ...
  MaxDen      \* ... or with a denominator above MaxDen is produced

ArithOps == {"add", "sub", "mul", "div", "mod"}
RelOps   == {"lt", "le", "gt", "ge"}
BitOps   == {"bitnot", "bitxor", "bitor", "bitand", "lsh", "rsh"}
Ops      == ArithOps \cup RelOps \cup BitOps \cup {"ursh"}
CmpOf    == [lt |-> "<", le |-> "<=", gt |-> ">", ge |-> ">="]

ASSUME \A p \in Progs : \A i \in DOMAIN p : p[i].op \in Ops /\ {p[i].a, p[i].b, p[i].dst} \subseteq Regs

VARIABLES
  prog,       \* the program of the script being interpreted
  reg,        \* the value in each slot
  types0,     \* the tags of the values on entry (history: the entry type sets)
  monitored,  \* the sites at which MonitorOverflow has been called
  last        \* the site executed by the last step, 0 before the first

vars == <<prog, reg, types0, monitored, last>>

\* The state without the history of the last site: no step depends on it.
StateView == <<prog, reg, types0, monitored>>

Sites == DOMAIN prog

\* The machine word: the unsigned view of an int32 and back.
U(x) == x % 2^W
SignedNoWrap(u) == u
Signed(u) == IF u > IntMax THEN u - 2^W ELSE u
SignBit == 2^(W-1)

(***************************************************************************)
(* The helpers.  Each returns the value stored in *res and whether it     *)
(* called MonitorOverflow.                                                *)
(***************************************************************************)
\* The non-int32 result of an arithmetic op must be reported unless an
\* operand is a double (lines 561-562, 575, 588).
ArithMonitorIntOnly(l, r, v) == v.t # "int32" /\ l.t = "int32" /\ r.t = "int32"
ArithMonitor(l, r, v) == v.t # "int32" /\ ~(l.t = "double" \/ r.t = "double")

\* `int32_t sum = l + r' overflows in the int32 type, which C leaves
\* undefined; the build wraps it.  The overflow test of line 500.
AddOverflowedNoR(a, b, sum) == ((U(a) ^^ U(sum)) & SignBit) # 0
AddOverflowed(a, b, sum) == ((U(a) ^^ U(sum)) & ((U(b) ^^ U(sum)) & SignBit)) # 0

AddOperation(l, r) ==
  IF l.t = "int32" /\ r.t = "int32"
  THEN LET a == l.n.p
           b == r.n.p
           sum == Signed(U(a + b))
       IN  IF AddOverflowed(a, b, sum)
           THEN [res |-> Dbl(NAdd(l.n, r.n)), mon |-> TRUE]
           ELSE [res |-> I32(sum), mon |-> FALSE]
  ELSE LET v == SetNumber(NAdd(ToNumber(l), ToNumber(r)))
       IN  [res |-> v, mon |-> ArithMonitor(l, r, v)]

SubOperation(l, r) ==
  LET v == SetNumber(NSub(ToNumber(l), ToNumber(r)))
  IN  [res |-> v, mon |-> ArithMonitor(l, r, v)]

MulOperation(l, r) ==
  LET v == SetNumber(NMul(ToNumber(l), ToNumber(r)))
  IN  [res |-> v, mon |-> ArithMonitor(l, r, v)]

DivOperation(l, r) ==
  LET v == SetNumber(NDiv(ToNumber(l), ToNumber(r)))
  IN  [res |-> v, mon |-> IsZero(ToNumber(r)) \/ ArithMonitor(l, r, v)]

\* The int32 fast path takes l >= 0 and r > 0 only: l % r is then the
\* JavaScript result, never -0, and INT_MIN % -1 cannot occur.
ModFast(l, r) == l.t = "int32" /\ r.t = "int32" /\ l.n.p >= 0 /\ r.n.p > 0

ModOperation(l, r) ==
  IF ModFast(l, r)
  THEN [res |-> I32(CRem(l.n.p, r.n.p)), mon |-> FALSE]
  ELSE [res |-> SetNumber(NMod(ToNumber(l), ToNumber(r))), mon |-> TRUE]

\* RELATIONAL_OP: an int32 comparison for two int32 operands, a double
\* comparison otherwise.
IntCompare(op, a, b) ==
  CASE op = "<" -> a < b [] op = "<=" -> a <= b [] op = ">" -> a > b [] op = ">=" -> a >= b

RelationalOperation(op, l, r) ==
  [res |-> Bool(IF l.t = "int32" /\ r.t = "int32"
                THEN IntCompare(CmpOf[op], l.n.p, r.n.p)
                ELSE NCompare(CmpOf[op], ToNumber(l), ToNumber(r))),
   mon |-> FALSE]

\* `right & 31'
ShiftCount(r) == U(ToInt32(ToNumber(r))) & (W - 1)

\* BitNot .. BitRsh compute on the two's complement word; `left << n' of
\* a negative left is undefined in C and wraps in the build, `>>' of a
\* negative left copies the sign bit (sar).
BitWordLogicalRsh(op, l, r) ==
  LET x == U(ToInt32(ToNumber(l)))
      y == U(ToInt32(ToNumber(r)))
      s == ShiftCount(r)
  IN  CASE op = "bitnot" -> x ^^ (2^W - 1)
        [] op = "bitxor" -> x ^^ y
        [] op = "bitor"  -> x | y
        [] op = "bitand" -> x & y
        [] op = "lsh"    -> (x * 2^s) % 2^W
        [] op = "rsh"    -> x \div 2^s

BitWord(op, l, r) ==
  LET x == U(ToInt32(ToNumber(l)))
      y == U(ToInt32(ToNumber(r)))
      s == ShiftCount(r)
  IN  CASE op = "bitnot" -> x ^^ (2^W - 1)
        [] op = "bitxor" -> x ^^ y
        [] op = "bitor"  -> x | y
        [] op = "bitand" -> x & y
        [] op = "lsh"    -> (x * 2^s) % 2^W
        [] op = "rsh"    -> x \div 2^s + (IF x >= SignBit THEN 2^W - 2^(W - s) ELSE 0)

BitOperation(op, l, r) == [res |-> I32(Signed(BitWord(op, l, r))), mon |-> FALSE]

UrshOperationNoMonitor(l, r) ==
  [res |-> SetNumber(Num(ToUint32(ToNumber(l)) \div 2^ShiftCount(r))), mon |-> FALSE]

UrshOperation(l, r) ==
  LET v == SetNumber(Num(ToUint32(ToNumber(l)) \div 2^ShiftCount(r)))
  IN  [res |-> v, mon |-> v.t # "int32"]

(***************************************************************************)
(* The interpreter: one action per helper, each executing one site.      *)
(***************************************************************************)
Bounded(v) == v.n.c # "fin" \/ (AbsI(v.n.p) <= MaxMag * v.n.q /\ v.n.q <= MaxDen)

Exec(i, out) ==
  /\ Bounded(out.res)
  /\ reg' = [reg EXCEPT ![prog[i].dst] = out.res]
  /\ monitored' = IF out.mon THEN monitored \cup {i} ELSE monitored
  /\ last' = i
  /\ UNCHANGED <<prog, types0>>

L(i) == reg[prog[i].a]
R(i) == reg[prog[i].b]

Init ==
  /\ prog \in Progs
  /\ reg \in [Regs -> InitVals]
  /\ types0 = [r \in Regs |-> reg[r].t]
  /\ monitored = {}
  /\ last = 0

Add(i)  == prog[i].op = "add" /\ Exec(i, AddOperation(L(i), R(i)))
Sub(i)  == prog[i].op = "sub" /\ Exec(i, SubOperation(L(i), R(i)))
Mul(i)  == prog[i].op = "mul" /\ Exec(i, MulOperation(L(i), R(i)))
Div(i)  == prog[i].op = "div" /\ Exec(i, DivOperation(L(i), R(i)))
Mod(i)  == prog[i].op = "mod" /\ Exec(i, ModOperation(L(i), R(i)))
Rel(i)  == prog[i].op \in RelOps /\ Exec(i, RelationalOperation(prog[i].op, L(i), R(i)))
Bit(i)  == prog[i].op \in BitOps /\ Exec(i, BitOperation(prog[i].op, L(i), R(i)))
Ursh(i) == prog[i].op = "ursh" /\ Exec(i, UrshOperation(L(i), R(i)))

Next ==
  \E i \in Sites :
    Add(i) \/ Sub(i) \/ Mul(i) \/ Div(i) \/ Mod(i) \/ Rel(i) \/ Bit(i) \/ Ursh(i)

Spec == Init /\ [][Next]_vars

(***************************************************************************)
(* The reference: what ECMA-262 5.1 (11.4-11.9) says each operator yields *)
(* on the numbers x and y of its operands, tagged as Value::setNumber     *)
(* tags a number.  The bitwise operators are stated on the bits of the   *)
(* two's complement representation, bit k of x being (x \div 2^k) % 2.   *)
(***************************************************************************)
BitK(x, k) == (x \div 2^k) % 2

FromBits(f(_)) ==
  LET RECURSIVE Low(_)
      Low(k) == IF k < 0 THEN 0 ELSE 2^k * f(k) + Low(k - 1)
  IN  Low(W - 2) - SignBit * f(W - 1)

RefNumber(op, x, y) ==
  LET a == ToInt32(x)
      b == ToInt32(y)
      s == ToUint32(y) % W
  IN  CASE op = "add"    -> NAdd(x, y)
        [] op = "sub"    -> NSub(x, y)
        [] op = "mul"    -> NMul(x, y)
        [] op = "div"    -> NDiv(x, y)
        [] op = "mod"    -> NMod(x, y)
        [] op = "bitnot" -> Num(-a - 1)
        [] op = "bitand" -> Num(FromBits(LAMBDA k : BitK(a, k) * BitK(b, k)))
        [] op = "bitor"  -> Num(FromBits(LAMBDA k : BitK(a, k) + BitK(b, k) - BitK(a, k) * BitK(b, k)))
        [] op = "bitxor" -> Num(FromBits(LAMBDA k : (BitK(a, k) + BitK(b, k)) % 2))
        [] op = "lsh"    -> Num(ToInt32(Num(a * 2^s)))
        [] op = "rsh"    -> Num(a \div 2^s)
        [] op = "ursh"   -> Num(ToUint32(x) \div 2^s)

RefValue(op, l, r) ==
  IF op \in RelOps THEN Bool(NCompare(CmpOf[op], ToNumber(l), ToNumber(r)))
  ELSE SetNumber(RefNumber(op, ToNumber(l), ToNumber(r)))

(***************************************************************************)
(* Type inference's view of the slots (jsinfer.cpp, not in this          *)
(* repository, as the monitoring calls presuppose it): an arithmetic     *)
(* site pushes int32, and double when an operand's type set has double;  *)
(* ursh and the bitwise sites push int32, the relational ones boolean;   *)
(* every site at which MonitorOverflow was called also pushes double.    *)
(* A slot's type set holds its entry type and what every site storing to *)
(* it pushes: the least fixpoint of these constraints.                   *)
(***************************************************************************)
PushedTypes(i, ts) ==
  LET s == prog[i]
      fromMon == IF i \in monitored THEN {"double"} ELSE {}
      fromOps == IF "double" \in ts[s.a] \cup ts[s.b] THEN {"double"} ELSE {}
  IN  CASE s.op \in ArithOps -> {"int32"} \cup fromOps \cup fromMon
        [] s.op = "ursh"      -> {"int32"} \cup fromMon
        [] s.op \in RelOps    -> {"boolean"}
        [] OTHER              -> {"int32"}

TIStep(ts) ==
  [r \in Regs |-> ts[r] \cup UNION {PushedTypes(i, ts) : i \in {j \in Sites : prog[j].dst = r}}]

RECURSIVE TIFix(_)
TIFix(ts) == IF TIStep(ts) = ts THEN ts ELSE TIFix(TIStep(ts))

TypeSets == TIFix([r \in Regs |-> {types0[r]}])

-----------------------------------------------------------------------------
TypeOK ==
  /\ \A r \in Regs : /\ reg[r].t \in Tags /\ types0[r] \in Tags
                    /\ reg[r].n.c \in {"fin", "inf", "nan"}
                    /\ reg[r].t = "int32" => FitsInt32(reg[r].n)
  /\ monitored \subseteq Sites
  /\ last \in Sites \cup {0}

\* Every helper stores in *res the value the language defines, tagged as
\* setNumber would tag it: the int32 fast paths of AddOperation (the
\* wrapped sum and its overflow test) and ModOperation (C's %), the int32
\* comparison of RELATIONAL_OP and the word operations of BitNot .. Ursh
\* agree with the double arithmetic and ECMA-262's conversions.
ResultCorrect ==
  [][last' # 0 =>
       LET s == prog[last'] IN reg'[s.dst] = RefValue(s.op, reg[s.a], reg[s.b])]_vars

\* Type inference is never surprised: every value a slot holds has a type
\* in the slot's inferred type set.  This holds only if each helper calls
\* MonitorOverflow whenever it stores a double that no double operand
\* already accounts for (the conditions at lines 500, 561, 575, 588, 602,
\* 624 and 935), across any sequence of sites.
TypeSetSound == \A r \in Regs : reg[r].t \in TypeSets[r]
=============================================================================
