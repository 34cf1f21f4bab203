------------------------------ MODULE ConstFold -----------------------------
(***************************************************************************)
(* Constant folding (lir/const_fold.rs) as lowering applies it: each       *)
(* expression is lowered children first, and folded when it has been put   *)
(* together.  Integers are isize values of Width bits; an operation that   *)
(* leaves their range, or has no result, panics (the build of builder/ is  *)
(* the debug one).  Floats are left out; chars and strings have only the   *)
(* comparisons of ints.                                                    *)
(***************************************************************************)
EXTENDS Integers, Sequences, FiniteSets, Bitwise

CONSTANTS Width,   \* bits of isize
          Inputs   \* the expressions to lower

ASSUME WidthAssumption == Width \in Nat /\ Width >= 2

VARIABLES expr,    \* the typed expression
          todo,    \* its subexpressions, children first, that are not lowered
          lowered, \* what the others have become
          st       \* "lower", "done" or "panic"

vars == <<expr, todo, lowered, st>>

MaxInt == 2 ^ (Width - 1) - 1
MinInt == -(2 ^ (Width - 1))

-----------------------------------------------------------------------------
(* Values and expressions *)

IntV(n)  == [t |-> "int", v |-> n]
BoolV(b) == [t |-> "bool", v |-> IF b THEN 1 ELSE 0]
Panic    == [t |-> "panic", v |-> 0]

Value(v)       == [k |-> "value", op |-> "", v |-> v, x |-> <<>>]
Ident(t)       == [k |-> "ident", op |-> "", v |-> [t |-> t, v |-> 0], x |-> <<>>]
Parens(e)      == [k |-> "parens", op |-> "", v |-> Panic, x |-> <<e>>]
Urnary(op, e)  == [k |-> "urnary", op |-> op, v |-> Panic, x |-> <<e>>]
Binary(op, l, r) == [k |-> "binary", op |-> op, v |-> Panic, x |-> <<l, r>>]
Call(args)     == [k |-> "call", op |-> "", v |-> Panic, x |-> args]

Arith == {"Mul", "Div", "Rem", "Add", "Sub", "LeftShift", "RightShift",
          "BitAnd", "BitXor", "BitOr"}
Compare == {"Lt", "Le", "Ge", "Gt", "Eq", "Ne"}
Logic == {"And", "Or"}

-----------------------------------------------------------------------------
(* The operations of the code *)

\* the overflow check of the debug build
Checked(n) == IF n \in MinInt..MaxInt THEN IntV(n) ELSE Panic

Abs(n)  == IF n < 0 THEN -n ELSE n
Sign(n) == IF n < 0 THEN -1 ELSE 1

Bits(n)   == n % 2 ^ Width                      \* the bit pattern of n
Signed(m) == IF m > MaxInt THEN m - 2 ^ Width ELSE m

bool_cmp(a, b, op) ==
  BoolV(CASE op = "Lt" -> a < b  [] op = "Le" -> a <= b
          [] op = "Ge" -> a >= b [] op = "Gt" -> a > b
          [] op = "Eq" -> a = b  [] op = "Ne" -> a # b)

int_op(a, b, op) ==
  CASE op = "Mul" -> Checked(a * b)
    [] op = "Div" -> IF b = 0 THEN Panic
                     ELSE Checked(Sign(a) * Sign(b) * (Abs(a) \div Abs(b)))
    [] op = "Rem" -> IF b = 0 \/ (a = MinInt /\ b = -1) THEN Panic
                     ELSE IntV(Sign(a) * (Abs(a) % Abs(b)))
    [] op = "Add" -> Checked(a + b)
    [] op = "Sub" -> Checked(a - b)
    [] op = "LeftShift"  -> IF b \notin 0..(Width - 1) THEN Panic
                            ELSE IntV(Signed((Bits(a) * 2 ^ b) % 2 ^ Width))
    [] op = "RightShift" -> IF b \notin 0..(Width - 1) THEN Panic
                            ELSE IntV(a \div 2 ^ b)
    [] op = "BitAnd" -> IntV(Signed(Bits(a) & Bits(b)))
    [] op = "BitXor" -> IntV(Signed(Bits(a) ^^ Bits(b)))
    [] op = "BitOr"  -> IntV(Signed(Bits(a) | Bits(b)))
    [] op = "And" -> BoolV(a # 0 /\ b # 0)
    [] op = "Or"  -> BoolV(a # 0 \/ b # 0)
    [] OTHER      -> bool_cmp(a, b, op)

bool_op(a, b, op) ==
  CASE op = "Lt" -> BoolV(a = 0 /\ b = 1)
    [] op = "Gt" -> BoolV(a = 1 /\ b = 0)
    [] op \in {"And", "BitAnd"} -> BoolV(a = 1 /\ b = 1)
    [] op \in {"Or", "BitOr"}   -> BoolV(a = 1 \/ b = 1)
    [] op = "BitXor" -> BoolV(a # b)
    [] op \in {"Le", "Ge", "Eq", "Ne"} -> bool_cmp(a, b, op)
    [] OTHER -> Panic                          \* unreachable!()

\* the operands swapped
Mut_evaluate(l, op, r) ==
  IF l.t # r.t THEN Panic
  ELSE IF l.t = "int" THEN int_op(r.v, l.v, op) ELSE bool_op(r.v, l.v, op)

\* Val::evaluate: values of two types are todo!()
evaluate(l, op, r) ==
  IF l.t # r.t THEN Panic
  ELSE IF l.t = "int" THEN int_op(l.v, r.v, op) ELSE bool_op(l.v, r.v, op)

fold_unop(op, v) ==
  IF op = "Not" THEN BoolV(v.v = 0)
  ELSE IF v.t = "int" THEN IntV(-v.v - 1) ELSE BoolV(v.v = 0)

\* constants in parentheses are left alone
Mut_const_fold(e) ==
  CASE e.k = "urnary" /\ e.x[1].k = "value" -> Value(fold_unop(e.op, e.x[1].v))
    [] e.k = "binary" /\ e.x[1].k = "value" /\ e.x[2].k = "value"
                      -> Value(evaluate(e.x[1].v, e.op, e.x[2].v))
    [] OTHER -> e

\* const_fold of an expression whose children are folded already; for those
\* its recursion changes nothing
const_fold(e) ==
  CASE e.k = "parens" /\ e.x[1].k = "value" -> e.x[1]
    [] e.k = "urnary" /\ e.x[1].k = "value" -> Value(fold_unop(e.op, e.x[1].v))
    [] e.k = "binary" /\ e.x[1].k = "value" /\ e.x[2].k = "value"
                      -> Value(evaluate(e.x[1].v, e.op, e.x[2].v))
    [] OTHER -> e

-----------------------------------------------------------------------------
(* Expr::lower: a subexpression is named by its path from the root.        *)

RECURSIVE At(_, _)
At(e, p) == IF p = <<>> THEN e ELSE At(e.x[Head(p)], Tail(p))

RECURSIVE Paths(_, _)
Paths(e, p) ==                    \* left to right, children first
  LET Sub(i) == Paths(e.x[i], Append(p, i))
  IN  (CASE Len(e.x) = 0 -> <<>> [] Len(e.x) = 1 -> Sub(1)
         [] Len(e.x) = 2 -> Sub(1) \o Sub(2)) \o <<p>>

Init == /\ expr \in Inputs
        /\ todo = Paths(expr, <<>>)
        /\ lowered = <<>>
        /\ st = "lower"

lower ==
  /\ st = "lower"
  /\ LET e == At(expr, Head(todo))
         n == Len(e.x)
         r == const_fold([e EXCEPT !.x = SubSeq(lowered, Len(lowered) - n + 1, Len(lowered))])
     IN  /\ lowered' = Append(SubSeq(lowered, 1, Len(lowered) - n), r)
         /\ st' = IF r.k = "value" /\ r.v = Panic THEN "panic"
                  ELSE IF Len(todo) = 1 THEN "done" ELSE "lower"
  /\ todo' = Tail(todo)
  /\ UNCHANGED expr

Next == lower

Spec == Init /\ [][Next]_vars

-----------------------------------------------------------------------------
(* The meaning of an expression, from arithmetic: x is the value of the    *)
(* identifiers and calls.  Panic where there is none.                      *)

\* the quotient and the remainder with the sign of the dividend
DivRem(a, b) ==
  CHOOSE qr \in (MinInt..(MaxInt + 1)) \X (MinInt..MaxInt) :
     /\ a = qr[1] * b + qr[2]
     /\ Abs(qr[2]) < Abs(b)
     /\ qr[2] = 0 \/ Sign(qr[2]) = Sign(a)

Bit(n, i) == (n \div 2 ^ i) % 2
\* the number whose bits are F(0) .. F(Width - 1)
RECURSIVE FromBits(_, _)
FromBits(F(_), i) ==
  IF i = Width - 1 THEN -(2 ^ i) * F(i) ELSE 2 ^ i * F(i) + FromBits(F, i + 1)

Means(op, a, b) ==
  LET InRange(n) == IF n > MaxInt \/ n < MinInt THEN Panic ELSE IntV(n)
      AndBit(i) == Bit(a, i) * Bit(b, i)
      OrBit(i)  == Bit(a, i) + Bit(b, i) - AndBit(i)
      XorBit(i) == (Bit(a, i) + Bit(b, i)) % 2
      ShlBit(i) == IF i < b THEN 0 ELSE Bit(a, i - b)
      ShrBit(i) == Bit(a, i + b)
  IN  CASE op = "Mul" -> InRange(a * b)
        [] op = "Add" -> InRange(a + b)
        [] op = "Sub" -> InRange(a - b)
        [] op = "Div" -> IF b = 0 THEN Panic ELSE InRange(DivRem(a, b)[1])
        [] op = "Rem" -> IF b = 0 \/ DivRem(a, b)[1] > MaxInt THEN Panic
                         ELSE IntV(DivRem(a, b)[2])
        [] op = "BitAnd" -> IntV(FromBits(AndBit, 0))
        [] op = "BitOr"  -> IntV(FromBits(OrBit, 0))
        [] op = "BitXor" -> IntV(FromBits(XorBit, 0))
        [] op = "LeftShift"  -> IF b < 0 \/ b >= Width THEN Panic ELSE IntV(FromBits(ShlBit, 0))
        [] op = "RightShift" -> IF b < 0 \/ b >= Width THEN Panic ELSE IntV(FromBits(ShrBit, 0))

AsBool(op, a, b) ==
  CASE op = "Lt" -> a < b [] op = "Gt" -> b < a
    [] op = "Le" -> a < b \/ a = b [] op = "Ge" -> b < a \/ a = b
    [] op = "Eq" -> a = b [] op = "Ne" -> a # b
    [] op = "And" -> a * b # 0 [] op = "Or" -> a # 0 \/ b # 0
    [] op = "BitAnd" -> a * b = 1 [] op = "BitOr" -> a + b # 0
    [] op = "BitXor" -> a + b = 1

RECURSIVE Meaning(_, _)
Meaning(e, x) ==
  LET m == [i \in DOMAIN e.x |-> Meaning(e.x[i], x)]
  IN  IF \E i \in DOMAIN m : m[i] = Panic THEN Panic
      ELSE CASE e.k = "value"  -> e.v
             [] e.k = "ident"  -> IF e.v.t = "int" THEN IntV(x) ELSE BoolV(x > 0)
             [] e.k = "call"   -> IntV(x)
             [] e.k = "parens" -> m[1]
             [] e.k = "urnary" -> IF e.op = "Not" THEN BoolV(m[1].v = 0)
                                  ELSE IntV(MaxInt + MinInt - m[1].v)
             [] e.k = "binary" ->
                  IF m[1].t = "int" /\ e.op \in Arith
                  THEN Means(e.op, m[1].v, m[2].v)
                  ELSE BoolV(AsBool(e.op, m[1].v, m[2].v))

RECURSIVE Constant(_)
Constant(e) == e.k = "value" \/
               (e.x # <<>> /\ e.k # "call" /\ \A i \in DOMAIN e.x : Constant(e.x[i]))

RECURSIVE Subs(_)
Subs(e) == {e} \cup UNION {Subs(e.x[i]) : i \in DOMAIN e.x}

-----------------------------------------------------------------------------
(* Properties *)

\* The folded constants stay within the range of isize.
TypeOK == /\ st \in {"lower", "done", "panic"}
          /\ \A i \in DOMAIN lowered : \A e \in Subs(lowered[i]) :
               e.k = "value" /\ e.v.t = "int" => e.v.v \in MinInt..MaxInt

\* eval_binop and the unary folds (const_fold.rs 32-69) do not change what an
\* expression means, whatever the values of its variables.
FoldKeepsMeaning ==
  st = "done" => \A x \in MinInt..MaxInt :
                    Meaning(lowered[1], x) = Meaning(expr, x)

\* The compiler panics exactly if some constant part of the expression has
\* no value (it overflows, divides by zero, shifts too far): int_op works
\* with the operators of isize, which panic in the debug build.
PanicsOnlyOnOverflow ==
  /\ st = "panic" => \E e \in Subs(expr) : Constant(e) /\ Meaning(e, 0) = Panic
  /\ st = "done" => \A e \in Subs(expr) : Constant(e) => Meaning(e, 0) # Panic

\* Folding is exact: the value of the expression where it has one, a panic
\* where a constant part has none.
FoldIsExact == FoldKeepsMeaning /\ PanicsOnlyOnOverflow

\* After the one call of const_fold per lowered expression (lower.rs 469)
\* nothing is left to fold: in the result every operator has an operand that
\* is not constant.
FoldsAll == st = "done" => \A e \in Subs(lowered[1]) : Constant(e) => e.k = "value"
=============================================================================
