------------------------------- MODULE Maths -------------------------------
(***************************************************************************)
(* The functions of the module `math` on integers.  Those that need floats *)
(* are left out.                                                           *)
(***************************************************************************)
EXTENDS Objects

MathArity ==
  [abs |-> 1, sign |-> 1, gcd |-> 2, lcm |-> 2, factorial |-> 1, comb |-> 2, perm |-> 2, isqrt |-> 1]

RECURSIVE Gcd(_, _)
Gcd(a, b) == IF b = 0 THEN a ELSE Gcd(b, a % b)
Lcm(a, b) == IF Gcd(a, b) = 0 THEN 0 ELSE (a \div Gcd(a, b)) * b

(* The largest n whose factorial fits an integer: 20 of 64 bits.           *)
Factorial[n \in Nat] == IF n < 2 THEN 1 ELSE n * Factorial[n - 1]
MaxFactorial == Max({n \in 0..IntBits : IsInt(Factorial[n])})

(* A product of factors that may not fit on the way, which is 0 then.      *)
Fitting(n) == IF IsInt(n) THEN n ELSE 0
Chosen(n, k) ==
  FoldLeft(LAMBDA c, i : Fitting(c * (n - k + i)) \div i, 1, [i \in 1..k |-> i])
Arranged(n, k) == FoldLeft(LAMBDA c, i : Fitting(c * (n - i + 1)), 1, [i \in 1..k |-> i])
Product(h, n) == IF n = 0 THEN Wrong ELSE Fine(h, Number(n))

Counting(h, name, n, k) ==
  IF n < 0 \/ k < 0 THEN Wrong
  ELSE IF k > n THEN Fine(h, Number(0))
  ELSE Product(h, IF name = "comb" THEN Chosen(n, Min({k, n - k})) ELSE Arranged(n, k))
SquareRoot(n) == Max({r \in 0..n : r * r <= n})

(* abs and sign take a bool for an integer, the others only integers; abs  *)
(* of the least integer is that integer.                                   *)
IsNumber(v) == v.t \in {"int", "bool"}
Magnitude(h, v) == IF IsNumber(v) THEN Fine(h, Number(Signed(Abs(v.v)))) ELSE Wrong
SignOf(h, v) ==
  IF IsNumber(v) THEN Fine(h, Number(IF v.v = 0 THEN 0 ELSE IF v.v > 0 THEN 1 ELSE -1)) ELSE Wrong
MathFunction(h, name, args) ==
  LET n == args[1].v
  IN  CASE name = "abs" -> Magnitude(h, args[1])
        [] name = "sign" -> SignOf(h, args[1])
        [] \E i \in DOMAIN args : args[i].t # "int" -> Wrong
        [] name = "gcd" -> Checked(h, Gcd(Abs(n), Abs(args[2].v)))
        [] name = "lcm" -> Checked(h, Lcm(Abs(n), Abs(args[2].v)))
        [] name = "factorial" -> IF n \in 0..MaxFactorial THEN Fine(h, Number(Factorial[n])) ELSE Wrong
        [] name \in {"comb", "perm"} -> Counting(h, name, n, args[2].v)
        [] name = "isqrt" -> IF n < 0 THEN Wrong ELSE Fine(h, Number(SquareRoot(n)))
=============================================================================
