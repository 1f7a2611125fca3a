------------------------------ MODULE JSNumber -------------------------------
(***************************************************************************)
(* JavaScript numbers and values as the interpreter helpers of            *)
(* jsinterpinlines.h see them.  This module is the REFERENCE: the IEEE    *)
(* double arithmetic the slow paths call (d1 + d2, NumberDiv, NumberMod), *)
(* the conversions of ECMA-262 5.1 (ToNumber, ToInt32, ToUint32) and the  *)
(* tagging Value::setNumber performs.  None of it is code of this         *)
(* repository; the fast paths of InterpArith are checked against it.      *)
(*                                                                         *)
(* A number is exact: a rational p/q (q > 0, in lowest terms), with the   *)
(* sign of zero kept in neg, or an infinity, or NaN.  The integer width   *)
(* is the constant W (32 in the build); a value of the int32 type lies in *)
(* -2^(W-1) .. 2^(W-1)-1 and a shift count is masked with W-1 (31).       *)
(***************************************************************************)
EXTENDS Integers

CONSTANT W
ASSUME W \in {2, 4, 8}          \* a power of two, so that "& (W-1)" is "% W"

IntMin == -(2^(W-1))
IntMax == 2^(W-1) - 1
Int32Range == IntMin..IntMax

AbsI(x) == IF x < 0 THEN -x ELSE x

RECURSIVE GcdN(_, _)
GcdN(a, b) == IF b = 0 THEN a ELSE GcdN(b, a % b)

NaN       == [c |-> "nan", p |-> 0, q |-> 1, neg |-> FALSE]
Inf(neg)  == [c |-> "inf", p |-> 0, q |-> 1, neg |-> neg]
Zero(neg) == [c |-> "fin", p |-> 0, q |-> 1, neg |-> neg]

\* The finite number p/q, q # 0; an exact zero is +0.
Rat(p, q) ==
  LET g == GcdN(AbsI(p), AbsI(q))
      s == IF q < 0 THEN -1 ELSE 1
  IN  IF p = 0 THEN Zero(FALSE)
      ELSE [c |-> "fin", p |-> (s * p) \div g, q |-> (s * q) \div g, neg |-> s * p < 0]

Num(n) == Rat(n, 1)
IsZero(x) == x.c = "fin" /\ x.p = 0
IsNaN(x) == x.c = "nan"

\* Integer division and remainder rounding toward zero, as C does.
Trunc(a, b) == IF a * b >= 0 THEN AbsI(a) \div AbsI(b) ELSE -(AbsI(a) \div AbsI(b))
CRem(a, b) == a - b * Trunc(a, b)

NNeg(x) == IF IsNaN(x) THEN x ELSE [x EXCEPT !.p = -x.p, !.neg = ~x.neg]

NAdd(x, y) ==
  CASE IsNaN(x) \/ IsNaN(y)       -> NaN
    [] x.c = "inf" /\ y.c = "inf" -> IF x.neg = y.neg THEN x ELSE NaN
    [] x.c = "inf"                -> x
    [] y.c = "inf"                -> y
    [] IsZero(x) /\ IsZero(y)     -> Zero(x.neg /\ y.neg)
    [] OTHER                      -> Rat(x.p * y.q + y.p * x.q, x.q * y.q)

NSub(x, y) == NAdd(x, NNeg(y))

NMul(x, y) ==
  LET s == x.neg # y.neg IN
  CASE IsNaN(x) \/ IsNaN(y) -> NaN
    [] (x.c = "inf" /\ IsZero(y)) \/ (IsZero(x) /\ y.c = "inf") -> NaN
    [] x.c = "inf" \/ y.c = "inf" -> Inf(s)
    [] IsZero(x) \/ IsZero(y)     -> Zero(s)
    [] OTHER                      -> Rat(x.p * y.p, x.q * y.q)

\* NumberDiv (jsnum.h): IEEE division.
NDiv(x, y) ==
  LET s == x.neg # y.neg IN
  CASE IsNaN(x) \/ IsNaN(y)                          -> NaN
    [] (x.c = "inf" /\ y.c = "inf") \/ (IsZero(x) /\ IsZero(y)) -> NaN
    [] x.c = "inf" \/ IsZero(y)                      -> Inf(s)
    [] y.c = "inf" \/ IsZero(x)                      -> Zero(s)
    [] OTHER                                         -> Rat(x.p * y.q, x.q * y.p)

\* NumberMod (jsnum.h), i.e. fmod: the result has the sign of x.
NMod(x, y) ==
  CASE IsNaN(x) \/ IsNaN(y) \/ x.c = "inf" \/ IsZero(y) -> NaN
    [] y.c = "inf" \/ IsZero(x)                          -> x
    [] OTHER ->
         LET t == Trunc(x.p * y.q, x.q * y.p)
             r == Rat(x.p * y.q - t * y.p * x.q, x.q * y.q)
         IN  IF IsZero(r) THEN Zero(x.neg) ELSE r

\* x < y on numbers that are not NaN.
NLess(x, y) ==
  CASE x.c = "inf" -> x.neg /\ ~(y.c = "inf" /\ y.neg)
    [] y.c = "inf" -> ~y.neg
    [] OTHER       -> x.p * y.q < y.p * x.q

\* The four relational operators on doubles: false whenever NaN is involved.
NCompare(op, x, y) ==
  ~IsNaN(x) /\ ~IsNaN(y) /\
  CASE op = "<"  -> NLess(x, y)
    [] op = "<=" -> ~NLess(y, x)
    [] op = ">"  -> NLess(y, x)
    [] op = ">=" -> ~NLess(x, y)

\* ECMA-262 9.5 and 9.6, at width W.
ToUint32(x) == IF x.c # "fin" THEN 0 ELSE Trunc(x.p, x.q) % 2^W
ToInt32(x) == LET u == ToUint32(x) IN IF u > IntMax THEN u - 2^W ELSE u

(***************************************************************************)
(* Values.  A value is a tagged number: tag "int32", "double" or         *)
(* "boolean" (the result of a relational operator; ToNumber gives 0/1).  *)
(***************************************************************************)
Tags == {"int32", "double", "boolean"}
I32(n) == [t |-> "int32", n |-> Num(n)]
Dbl(x) == [t |-> "double", n |-> x]
Bool(b) == [t |-> "boolean", n |-> Num(IF b THEN 1 ELSE 0)]
ToNumber(v) == v.n

\* Value::setNumber: int32 when the double is an integer of the int32
\* range other than -0, a double otherwise; it returns whether it chose int32.
FitsInt32(x) == x.c = "fin" /\ x.q = 1 /\ x.p \in Int32Range /\ ~(x.p = 0 /\ x.neg)
SetNumber(x) == IF FitsInt32(x) THEN [t |-> "int32", n |-> x] ELSE Dbl(x)
=============================================================================
