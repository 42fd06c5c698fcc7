------------------------------ MODULE Numbers ------------------------------
(* 32-bit integers and the operators of the mini-pogo machine on them.      *)
EXTENDS Integers

CONSTANT MaxInt  \* INT32_MAX

Ints == -(MaxInt + 1)..MaxInt

\* 32-bit wrap-around of the -O0 build.
Wrap(n)  == ((n + MaxInt + 1) % (2 * (MaxInt + 1))) - (MaxInt + 1)
Truth(b) == IF b THEN 1 ELSE 0
Abs(n)   == IF n < 0 THEN -n ELSE n

\* C division truncates towards zero.
Quotient(y, x) ==
  IF (y < 0) = (x < 0) THEN Abs(y) \div Abs(x) ELSE -(Abs(y) \div Abs(x))

\* BINARY_OP(operator): x was popped first, y second.
Binary(op, y, x) ==
  CASE op = "OP_ADD"       -> Wrap(y + x)
    [] op = "OP_SUBTRACT"  -> Wrap(y - x)
    [] op = "OP_MULTIPLY"  -> Wrap(y * x)
    [] op = "OP_DIVIDE"    -> Wrap(Quotient(y, x))
    [] op = "OP_REMAINDER" -> Wrap(y - Quotient(y, x) * x)
    [] op = "OP_AND" -> Truth(y # 0 /\ x # 0)
    [] op = "OP_OR"  -> Truth(y # 0 \/ x # 0)
    [] op = "OP_EQ"  -> Truth(y = x)
    [] op = "OP_NE"  -> Truth(y # x)
    [] op = "OP_LT"  -> Truth(y < x)
    [] op = "OP_LE"  -> Truth(y <= x)
    [] op = "OP_GT"  -> Truth(y > x)
    [] op = "OP_GE"  -> Truth(y >= x)

\* The idiv instruction traps on these operands.
Traps(op, y, x) ==
  op \in {"OP_DIVIDE", "OP_REMAINDER"} /\ (x = 0 \/ (y = -(MaxInt+1) /\ x = -1))
=============================================================================
