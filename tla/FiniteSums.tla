----------------------------- MODULE FiniteSums -----------------------------
(***************************************************************************)
(* Sums over an indexed family of integers.  Python's sum() over a tuple   *)
(* kept in identifier order (tenants, requests) is the sum over 1..n of    *)
(* the family.  The recursion is a function over 0..n, so that the lemmas  *)
(* of ArithmeticTheorems can be proved about it.                           *)
(***************************************************************************)
EXTENDS Integers

\* f[1] + f[2] + ... + f[n].
SumTo(f, n) ==
    LET s[i \in 0 .. n] == IF i = 0 THEN 0 ELSE s[i - 1] + f[i]
    IN  s[n]

\* The sum of the family f over the indices of 1..n that lie in S.
SumOver(f, S, n) == SumTo([i \in 1 .. n |-> IF i \in S THEN f[i] ELSE 0], n)

\* The larger of two integers.
MaxOf(a, b) == IF a >= b THEN a ELSE b

\* Mutant of CeilDiv: an exact quotient is rounded up too.
CeilDivPlusOne(a, b) == a \div b + 1

\* a / b rounded up, for natural a and positive b (_ceil_div).
CeilDiv(a, b) == (a + b - 1) \div b
=============================================================================
