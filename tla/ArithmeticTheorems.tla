------------------------- MODULE ArithmeticTheorems -------------------------
(***************************************************************************)
(* Lemmas about the arithmetic of the ledgers: finite sums, upward         *)
(* division, the exact power, and the fixed-point power by repeated        *)
(* squaring.                                                               *)
(*                                                                         *)
(* The recursions are functions: each is shown to have a solution, so that *)
(* its unfolding holds (SumToDef, PowerDef, PowerCeilIsLoop), and what it  *)
(* computes is then an induction.  An induction is run as a statement      *)
(* about a SET of naturals or of loop states (NatSetInduction,             *)
(* StrongSetInduction, LoopInduction), which is in turn the existence of a *)
(* least element, taken from the library's theorem that < is well founded  *)
(* on Nat.                                                                 *)
(***************************************************************************)
EXTENDS Decay, WellFoundedInduction, TLAPS

\* Every non-empty set of naturals has a least element.
LEMMA LeastNatural ==
  ASSUME NEW T \in SUBSET Nat, T # {}
  PROVE  \E m \in T : \A k \in T : m <= k
<1> DEFINE R == OpToRel(<, Nat)
<1>1. IsWellFoundedOn(R, Nat)
  BY NatLessThanWellFounded, Zenon
<1>2. PICK x \in T : \A y \in T : ~ (<<y, x>> \in R)
  <2> HIDE DEF R
  <2> QED
    BY <1>1, WFMin
<1>3. \A y \in T : ~ (y < x)
  BY <1>2 DEF OpToRel
<1> QED
  BY <1>3

\* A set of naturals that holds 0 and is closed under successor is Nat.
LEMMA NatSetInduction ==
  ASSUME NEW S \in SUBSET Nat, 0 \in S, \A n \in S : n + 1 \in S
  PROVE  \A n \in Nat : n \in S
<1> SUFFICES ASSUME Nat \ S # {} PROVE FALSE
  OBVIOUS
<1>1. PICK m \in Nat \ S : \A k \in Nat \ S : m <= k
  BY LeastNatural
<1>2. m # 0
  OBVIOUS
<1>3. m - 1 \in Nat /\ m - 1 \notin Nat \ S
  BY <1>1, <1>2
<1>4. (m - 1) + 1 \in S
  BY <1>3
<1> QED
  BY <1>1, <1>4

\* A set of naturals that holds every number whose predecessors it holds is Nat.
LEMMA StrongSetInduction ==
  ASSUME NEW S \in SUBSET Nat,
         \A n \in Nat : (\A m \in 0 .. n - 1 : m \in S) => n \in S
  PROVE  \A n \in Nat : n \in S
<1> SUFFICES ASSUME Nat \ S # {} PROVE FALSE
  OBVIOUS
<1>1. PICK m \in Nat \ S : \A k \in Nat \ S : m <= k
  BY LeastNatural
<1>2. \A k \in 0 .. m - 1 : k \in S
  BY <1>1
<1> QED
  BY <1>1, <1>2

-----------------------------------------------------------------------------
\* The recursion that defines a sum has a solution, so its unfolding holds.
\* s is the table of the partial sums of f up to n.
IsSumTable(s, f, n) ==
    s = [i \in 0 .. n |-> IF i = 0 THEN 0 ELSE s[i - 1] + f[i]]

LEMMA SumTableExists ==
  ASSUME NEW f
  PROVE  \A n \in Nat : \E s : IsSumTable(s, f, n)
<1> DEFINE S == {n \in Nat : \E s : IsSumTable(s, f, n)}
<1>1. 0 \in S
  <2>1. IsSumTable([i \in 0 .. 0 |-> 0], f, 0)
    BY DEF IsSumTable
  <2> QED
    BY <2>1
<1>2. ASSUME NEW n \in S PROVE n + 1 \in S
  <2>1. PICK s : IsSumTable(s, f, n)
    OBVIOUS
  <2> DEFINE u == [i \in 0 .. n + 1 |-> IF i = n + 1 THEN s[n] + f[n + 1] ELSE s[i]]
  <2>2. \A i \in 0 .. n : s[i] = IF i = 0 THEN 0 ELSE s[i - 1] + f[i]
    BY <2>1 DEF IsSumTable
  <2>3. ASSUME NEW i \in 0 .. n + 1
        PROVE  u[i] = IF i = 0 THEN 0 ELSE u[i - 1] + f[i]
    <3>1. CASE i = n + 1
      <4>1. i # 0 /\ i - 1 = n /\ i - 1 \in 0 .. n + 1 /\ i - 1 # n + 1
        BY <3>1
      <4>2. u[i - 1] = s[n] /\ u[i] = s[n] + f[n + 1]
        BY <3>1, <4>1
      <4> QED
        BY <3>1, <4>1, <4>2
    <3>2. CASE i \in 0 .. n
      <4>1. u[i] = s[i] /\ (i # 0 => u[i - 1] = s[i - 1])
        BY <3>2
      <4> QED
        BY <3>2, <4>1, <2>2
    <3> QED
      BY <3>1, <3>2
  <2>4. IsSumTable(u, f, n + 1)
    <3>1. u = [i \in 0 .. n + 1 |-> u[i]]
      OBVIOUS
    <3>2. [i \in 0 .. n + 1 |-> u[i]]
            = [i \in 0 .. n + 1 |-> IF i = 0 THEN 0 ELSE u[i - 1] + f[i]]
      <4> HIDE DEF u
      <4> QED
        BY <2>3
    <3> HIDE DEF u
    <3> QED
      BY <3>1, <3>2 DEF IsSumTable
  <2> HIDE DEF u
  <2> QED
    BY <2>4
<1>3. \A n \in Nat : n \in S
  <2>1. S \in SUBSET Nat
    OBVIOUS
  <2> HIDE DEF S
  <2> QED
    BY <1>1, <1>2, <2>1, NatSetInduction
<1> QED
  BY <1>3

\* Two tables of the same family agree wherever both are defined.
LEMMA SumTableUnique ==
  ASSUME NEW f, NEW s, NEW u, NEW m \in Nat, NEW n \in Nat,
         IsSumTable(s, f, m), IsSumTable(u, f, n)
  PROVE  \A i \in Nat : i <= m /\ i <= n => s[i] = u[i]
<1> DEFINE S == {i \in Nat : i <= m /\ i <= n => s[i] = u[i]}
<1>1. /\ \A i \in 0 .. m : s[i] = IF i = 0 THEN 0 ELSE s[i - 1] + f[i]
      /\ \A i \in 0 .. n : u[i] = IF i = 0 THEN 0 ELSE u[i - 1] + f[i]
  BY DEF IsSumTable
<1>2. 0 \in S
  BY <1>1
<1>3. ASSUME NEW i \in S PROVE i + 1 \in S
  <2> SUFFICES ASSUME i + 1 <= m, i + 1 <= n
               PROVE  s[i + 1] = u[i + 1]
    OBVIOUS
  <2>1. s[i] = u[i]
    OBVIOUS
  <2>2. i + 1 \in 0 .. m /\ i + 1 \in 0 .. n /\ i + 1 # 0 /\ (i + 1) - 1 = i
    OBVIOUS
  <2> QED
    BY <1>1, <2>1, <2>2
<1>4. S \in SUBSET Nat
  OBVIOUS
<1>5. \A i \in Nat : i \in S
  <2> HIDE DEF S
  <2> QED
    BY <1>2, <1>3, <1>4, NatSetInduction
<1> QED
  BY <1>5

\* The unfolding of a sum.
THEOREM SumToDef ==
  ASSUME NEW f
  PROVE  /\ SumTo(f, 0) = 0
         /\ \A n \in Nat : SumTo(f, n + 1) = SumTo(f, n) + f[n + 1]
<1> DEFINE Table(n) == CHOOSE s : IsSumTable(s, f, n)
<1>1. \A n \in Nat : IsSumTable(Table(n), f, n)
  BY SumTableExists
<1>2. \A n \in Nat : SumTo(f, n) = Table(n)[n]
  BY DEF SumTo, IsSumTable
<1> HIDE DEF Table
<1>3. SumTo(f, 0) = 0
  BY <1>1, <1>2 DEF IsSumTable
<1>4. ASSUME NEW n \in Nat
      PROVE  SumTo(f, n + 1) = SumTo(f, n) + f[n + 1]
  <2>1. IsSumTable(Table(n), f, n) /\ IsSumTable(Table(n + 1), f, n + 1)
    BY <1>1
  <2>2. Table(n)[n] = Table(n + 1)[n]
    BY <2>1, SumTableUnique
  <2>3. \A i \in 0 .. n + 1 :
          Table(n + 1)[i] = IF i = 0 THEN 0 ELSE Table(n + 1)[i - 1] + f[i]
    BY <2>1 DEF IsSumTable
  <2>4. Table(n + 1)[n + 1] = Table(n + 1)[n] + f[n + 1]
    BY <2>3
  <2> QED
    BY <1>2, <2>2, <2>4
<1> QED
  BY <1>3, <1>4
-----------------------------------------------------------------------------
\* A sum of integers is an integer.
LEMMA SumToInt ==
  ASSUME NEW f, NEW N \in Nat, \A i \in 1 .. N : f[i] \in Int
  PROVE  \A n \in 0 .. N : SumTo(f, n) \in Int
<1> DEFINE S == {n \in Nat : n <= N => SumTo(f, n) \in Int}
<1>1. 0 \in S
  BY SumToDef
<1>2. ASSUME NEW n \in S PROVE n + 1 \in S
  <2> SUFFICES ASSUME n + 1 <= N PROVE SumTo(f, n + 1) \in Int
    OBVIOUS
  <2>1. SumTo(f, n) \in Int /\ f[n + 1] \in Int
    OBVIOUS
  <2> QED
    BY <2>1, SumToDef
<1>3. \A n \in Nat : n \in S
  <2>1. S \in SUBSET Nat
    OBVIOUS
  <2> HIDE DEF S
  <2> QED
    BY <1>1, <1>2, <2>1, NatSetInduction
<1> QED
  BY <1>3

\* A sum of naturals is a natural and at least each of its summands.
LEMMA SumToNat ==
  ASSUME NEW f, NEW N \in Nat, \A i \in 1 .. N : f[i] \in Nat
  PROVE  \A n \in 0 .. N : /\ SumTo(f, n) \in Nat
                           /\ \A i \in 1 .. n : f[i] <= SumTo(f, n)
<1> DEFINE S == {n \in Nat : n <= N => /\ SumTo(f, n) \in Nat
                                       /\ \A i \in 1 .. n : f[i] <= SumTo(f, n)}
<1>1. 0 \in S
  BY SumToDef
<1>2. ASSUME NEW n \in S PROVE n + 1 \in S
  <2> SUFFICES ASSUME n + 1 <= N
               PROVE  /\ SumTo(f, n + 1) \in Nat
                      /\ \A i \in 1 .. n + 1 : f[i] <= SumTo(f, n + 1)
    OBVIOUS
  <2>1. SumTo(f, n) \in Nat /\ f[n + 1] \in Nat
    OBVIOUS
  <2>2. SumTo(f, n + 1) = SumTo(f, n) + f[n + 1]
    BY SumToDef
  <2>3. \A i \in 1 .. n : f[i] <= SumTo(f, n) /\ f[i] \in Nat
    OBVIOUS
  <2>4. \A i \in 1 .. n + 1 : i \in 1 .. n \/ i = n + 1
    OBVIOUS
  <2> QED
    BY <2>1, <2>2, <2>3, <2>4
<1>3. \A n \in Nat : n \in S
  <2>1. S \in SUBSET Nat
    OBVIOUS
  <2> HIDE DEF S
  <2> QED
    BY <1>1, <1>2, <2>1, NatSetInduction
<1> QED
  BY <1>3

\* Families that agree on 1..N have the same sum.
LEMMA SumToCongruent ==
  ASSUME NEW f, NEW g, NEW N \in Nat, \A i \in 1 .. N : f[i] = g[i]
  PROVE  SumTo(f, N) = SumTo(g, N)
<1> DEFINE S == {n \in Nat : n <= N => SumTo(f, n) = SumTo(g, n)}
<1>1. 0 \in S
  BY SumToDef
<1>2. ASSUME NEW n \in S PROVE n + 1 \in S
  <2> SUFFICES ASSUME n + 1 <= N
               PROVE  SumTo(f, n + 1) = SumTo(g, n + 1)
    OBVIOUS
  <2>1. SumTo(f, n) = SumTo(g, n) /\ f[n + 1] = g[n + 1]
    OBVIOUS
  <2> QED
    BY <2>1, SumToDef
<1>3. \A n \in Nat : n \in S
  <2>1. S \in SUBSET Nat
    OBVIOUS
  <2> HIDE DEF S
  <2> QED
    BY <1>1, <1>2, <2>1, NatSetInduction
<1> QED
  BY <1>3

\* The sum of a pointwise sum is the sum of the two sums.
LEMMA SumToAdd ==
  ASSUME NEW f, NEW g, NEW h, NEW N \in Nat,
         \A i \in 1 .. N : f[i] \in Int /\ g[i] \in Int /\ h[i] = f[i] + g[i]
  PROVE  SumTo(h, N) = SumTo(f, N) + SumTo(g, N)
<1> DEFINE S == {n \in Nat : n <= N => SumTo(h, n) = SumTo(f, n) + SumTo(g, n)}
<1>1. 0 \in S
  BY SumToDef
<1>2. ASSUME NEW n \in S PROVE n + 1 \in S
  <2> SUFFICES ASSUME n + 1 <= N
               PROVE  SumTo(h, n + 1) = SumTo(f, n + 1) + SumTo(g, n + 1)
    OBVIOUS
  <2>1. SumTo(h, n) = SumTo(f, n) + SumTo(g, n)
    OBVIOUS
  <2>2. n \in 0 .. N /\ n + 1 \in 1 .. N
    OBVIOUS
  <2>3. SumTo(f, n) \in Int /\ SumTo(g, n) \in Int
    BY <2>2, SumToInt
  <2>4. /\ SumTo(h, n + 1) = SumTo(h, n) + h[n + 1]
        /\ SumTo(f, n + 1) = SumTo(f, n) + f[n + 1]
        /\ SumTo(g, n + 1) = SumTo(g, n) + g[n + 1]
    BY SumToDef
  <2>5. f[n + 1] \in Int /\ g[n + 1] \in Int /\ h[n + 1] = f[n + 1] + g[n + 1]
    BY <2>2
  <2> QED
    BY <2>1, <2>3, <2>4, <2>5
<1>3. \A n \in Nat : n \in S
  <2>1. S \in SUBSET Nat
    OBVIOUS
  <2> HIDE DEF S
  <2> QED
    BY <1>1, <1>2, <2>1, NatSetInduction
<1> QED
  BY <1>3

\* A common factor moves out of a sum.
LEMMA SumToScale ==
  ASSUME NEW f, NEW h, NEW c \in Int, NEW N \in Nat,
         \A i \in 1 .. N : f[i] \in Int /\ h[i] = f[i] * c
  PROVE  SumTo(h, N) = SumTo(f, N) * c
<1> DEFINE S == {n \in Nat : n <= N => SumTo(h, n) = SumTo(f, n) * c}
<1>1. 0 \in S
  BY SumToDef
<1>2. ASSUME NEW n \in S PROVE n + 1 \in S
  <2> SUFFICES ASSUME n + 1 <= N
               PROVE  SumTo(h, n + 1) = SumTo(f, n + 1) * c
    OBVIOUS
  <2>1. SumTo(h, n) = SumTo(f, n) * c
    OBVIOUS
  <2>2. n \in 0 .. N /\ n + 1 \in 1 .. N
    OBVIOUS
  <2>3. SumTo(f, n) \in Int
    BY <2>2, SumToInt
  <2>4. /\ SumTo(h, n + 1) = SumTo(h, n) + h[n + 1]
        /\ SumTo(f, n + 1) = SumTo(f, n) + f[n + 1]
    BY SumToDef
  <2>5. f[n + 1] \in Int /\ h[n + 1] = f[n + 1] * c
    BY <2>2
  <2>6. \A a, b \in Int : (a + b) * c = a * c + b * c
    OBVIOUS
  <2> QED
    BY <2>1, <2>3, <2>4, <2>5, <2>6
<1>3. \A n \in Nat : n \in S
  <2>1. S \in SUBSET Nat
    OBVIOUS
  <2> HIDE DEF S
  <2> QED
    BY <1>1, <1>2, <2>1, NatSetInduction
<1> QED
  BY <1>3

\* The sum of a family with one summand that is not 0.
LEMMA SumToSingle ==
  ASSUME NEW f, NEW c \in Int, NEW N \in Nat, NEW k \in 1 .. N,
         \A i \in 1 .. N : f[i] = IF i = k THEN c ELSE 0
  PROVE  SumTo(f, N) = c
<1> DEFINE S == {n \in Nat : n <= N => SumTo(f, n) = IF n >= k THEN c ELSE 0}
<1>1. 0 \in S
  BY SumToDef
<1>2. ASSUME NEW n \in S PROVE n + 1 \in S
  <2> SUFFICES ASSUME n + 1 <= N
               PROVE  SumTo(f, n + 1) = IF n + 1 >= k THEN c ELSE 0
    OBVIOUS
  <2>1. SumTo(f, n) = IF n >= k THEN c ELSE 0
    OBVIOUS
  <2>2. f[n + 1] = IF n + 1 = k THEN c ELSE 0
    OBVIOUS
  <2>3. SumTo(f, n + 1) = SumTo(f, n) + f[n + 1]
    BY SumToDef
  <2> QED
    BY <2>1, <2>2, <2>3
<1>3. \A n \in Nat : n \in S
  <2>1. S \in SUBSET Nat
    OBVIOUS
  <2> HIDE DEF S
  <2> QED
    BY <1>1, <1>2, <2>1, NatSetInduction
<1> QED
  BY <1>3

\* A sum of zeros is 0.
LEMMA SumToZero ==
  ASSUME NEW f, NEW N \in Nat, \A i \in 1 .. N : f[i] = 0
  PROVE  SumTo(f, N) = 0
<1>1. \A i \in 1 .. N : f[i] \in Int /\ f[i] = f[i] * 0
  OBVIOUS
<1>2. SumTo(f, N) \in Int
  BY <1>1, SumToInt
<1>3. SumTo(f, N) = SumTo(f, N) * 0
  BY <1>1, SumToScale
<1> QED
  BY <1>2, <1>3

-----------------------------------------------------------------------------
\* The sum over a set of indices of naturals is a natural, and at least each
\* summand of the set.
LEMMA SumOverNat ==
  ASSUME NEW f, NEW S, NEW N \in Nat, \A i \in 1 .. N : f[i] \in Nat
  PROVE  /\ SumOver(f, S, N) \in Nat
         /\ \A i \in 1 .. N : i \in S => f[i] <= SumOver(f, S, N)
<1> DEFINE g == [i \in 1 .. N |-> IF i \in S THEN f[i] ELSE 0]
<1>1. \A i \in 1 .. N : g[i] \in Nat /\ (i \in S => g[i] = f[i])
  OBVIOUS
<1>2. SumOver(f, S, N) = SumTo(g, N)
  BY DEF SumOver
<1> HIDE DEF g
<1>3. SumTo(g, N) \in Nat /\ \A i \in 1 .. N : g[i] <= SumTo(g, N)
  BY <1>1, SumToNat
<1> QED
  BY <1>1, <1>2, <1>3

\* The sum over a set of indices of integers is an integer.
LEMMA SumOverInt ==
  ASSUME NEW f, NEW S, NEW N \in Nat, \A i \in 1 .. N : f[i] \in Int
  PROVE  SumOver(f, S, N) \in Int
<1> DEFINE g == [i \in 1 .. N |-> IF i \in S THEN f[i] ELSE 0]
<1>1. \A i \in 1 .. N : g[i] \in Int
  OBVIOUS
<1>2. SumOver(f, S, N) = SumTo(g, N)
  BY DEF SumOver
<1> HIDE DEF g
<1> QED
  BY <1>1, <1>2, SumToInt

\* The sum over a set of indices where the family is 0.
LEMMA SumOverZero ==
  ASSUME NEW f, NEW S, NEW N \in Nat, \A i \in 1 .. N : i \in S => f[i] = 0
  PROVE  SumOver(f, S, N) = 0
<1> DEFINE g == [i \in 1 .. N |-> IF i \in S THEN f[i] ELSE 0]
<1>1. \A i \in 1 .. N : g[i] = 0
  OBVIOUS
<1>2. SumOver(f, S, N) = SumTo(g, N)
  BY DEF SumOver
<1> HIDE DEF g
<1> QED
  BY <1>1, <1>2, SumToZero

\* The sum over a set depends only on the family's values there.
LEMMA SumOverCongruent ==
  ASSUME NEW f, NEW h, NEW S, NEW N \in Nat, \A i \in 1 .. N : i \in S => f[i] = h[i]
  PROVE  SumOver(f, S, N) = SumOver(h, S, N)
<1> DEFINE g(x) == [i \in 1 .. N |-> IF i \in S THEN x[i] ELSE 0]
<1>1. \A i \in 1 .. N : g(f)[i] = g(h)[i]
  OBVIOUS
<1>2. SumOver(f, S, N) = SumTo(g(f), N) /\ SumOver(h, S, N) = SumTo(g(h), N)
  BY DEF SumOver
<1> HIDE DEF g
<1> QED
  BY <1>1, <1>2, SumToCongruent

\* The sum over a set of a pointwise sum.
LEMMA SumOverAdd ==
  ASSUME NEW f, NEW g, NEW h, NEW S, NEW N \in Nat,
         \A i \in 1 .. N : f[i] \in Int /\ g[i] \in Int,
         \A i \in 1 .. N : i \in S => h[i] = f[i] + g[i]
  PROVE  SumOver(h, S, N) = SumOver(f, S, N) + SumOver(g, S, N)
<1> DEFINE z(x) == [i \in 1 .. N |-> IF i \in S THEN x[i] ELSE 0]
<1>1. \A i \in 1 .. N : z(f)[i] \in Int /\ z(g)[i] \in Int /\ z(h)[i] = z(f)[i] + z(g)[i]
  OBVIOUS
<1>2. /\ SumOver(f, S, N) = SumTo(z(f), N)
      /\ SumOver(g, S, N) = SumTo(z(g), N)
      /\ SumOver(h, S, N) = SumTo(z(h), N)
  BY DEF SumOver
<1> HIDE DEF z
<1> QED
  BY <1>1, <1>2, SumToAdd

\* A common factor moves out of a sum over a set.
LEMMA SumOverScale ==
  ASSUME NEW f, NEW h, NEW c \in Int, NEW S, NEW N \in Nat,
         \A i \in 1 .. N : f[i] \in Int,
         \A i \in 1 .. N : i \in S => h[i] = f[i] * c
  PROVE  SumOver(h, S, N) = SumOver(f, S, N) * c
<1> DEFINE z(x) == [i \in 1 .. N |-> IF i \in S THEN x[i] ELSE 0]
<1>1. 0 = 0 * c
  OBVIOUS
<1>2. \A i \in 1 .. N : z(f)[i] \in Int /\ z(h)[i] = z(f)[i] * c
  BY <1>1
<1>3. SumOver(f, S, N) = SumTo(z(f), N) /\ SumOver(h, S, N) = SumTo(z(h), N)
  BY DEF SumOver
<1> HIDE DEF z
<1> QED
  BY <1>2, <1>3, SumToScale

\* The parts of the sum of f that an owner function cuts out, by owner.
Parts(f, own, N, M) ==
  [t \in 1 .. M |-> SumOver(f, {i \in 1 .. N : own[i] = t}, N)]

\* The parts of a sum that an owner function cuts out add up to the whole sum,
\* over any set of owners that holds the owner of every summand that is not 0.
LEMMA SumByOwner ==
  ASSUME NEW N \in Nat, NEW M \in Nat, NEW own \in [1 .. N -> 1 .. M], NEW A,
         NEW f, \A i \in 1 .. N : f[i] \in Int,
         \A i \in 1 .. N : f[i] # 0 => own[i] \in A
  PROVE  SumOver(Parts(f, own, N, M), A, M) = SumTo(f, N)
<1> DEFINE part(t) == [i \in 1 .. N |-> IF i \in {j \in 1 .. N : own[j] = t} THEN f[i] ELSE 0]
           row(n)  == [t \in 1 .. M |-> IF t \in A THEN SumTo(part(t), n) ELSE 0]
           S == {n \in Nat : n <= N => SumTo(row(n), M) = SumTo(f, n)}
<1>1. \A t \in 1 .. M : \A i \in 1 .. N :
         part(t)[i] = IF own[i] = t THEN f[i] ELSE 0
  OBVIOUS
<1>2. \A t \in 1 .. M : \A n \in 0 .. N : SumTo(part(t), n) \in Int
  <2> SUFFICES ASSUME NEW t \in 1 .. M PROVE \A n \in 0 .. N : SumTo(part(t), n) \in Int
    OBVIOUS
  <2>1. \A i \in 1 .. N : part(t)[i] \in Int
    BY <1>1
  <2> HIDE DEF part
  <2> QED
    BY <2>1, SumToInt
<1>3. \A n \in 0 .. N : \A t \in 1 .. M :
         row(n)[t] = IF t \in A THEN SumTo(part(t), n) ELSE 0
  BY Zenon
<1>4. 0 \in S
  <2>1. \A t \in 1 .. M : row(0)[t] = 0
    BY SumToDef, <1>3
  <2> HIDE DEF row
  <2>2. SumTo(row(0), M) = 0
    BY <2>1, SumToZero
  <2> QED
    BY <2>2, SumToDef
<1>5. ASSUME NEW n \in S PROVE n + 1 \in S
  <2> SUFFICES ASSUME n + 1 <= N PROVE SumTo(row(n + 1), M) = SumTo(f, n + 1)
    OBVIOUS
  <2> DEFINE new == [t \in 1 .. M |-> IF t = own[n + 1] THEN f[n + 1] ELSE 0]
  <2>1. n \in 0 .. N /\ n + 1 \in 0 .. N /\ n + 1 \in 1 .. N /\ n \in Nat
    OBVIOUS
  <2>2. f[n + 1] \in Int /\ own[n + 1] \in 1 .. M /\ (f[n + 1] # 0 => own[n + 1] \in A)
    BY <2>1
  <2>3. SumTo(row(n), M) = SumTo(f, n)
    BY <2>1
  <2>4. \A t \in 1 .. M : new[t] = IF t = own[n + 1] THEN f[n + 1] ELSE 0
    OBVIOUS
  <2> HIDE DEF S, row, new
  <2>5. SumTo(new, M) = f[n + 1]
    BY <2>2, <2>4, SumToSingle
  <2>6. ASSUME NEW t \in 1 .. M
        PROVE  row(n)[t] \in Int /\ new[t] \in Int /\ row(n + 1)[t] = row(n)[t] + new[t]
    <3>1. SumTo(part(t), n + 1) = SumTo(part(t), n) + part(t)[n + 1]
      <4> HIDE DEF part
      <4> QED
        BY <2>1, SumToDef
    <3>2. part(t)[n + 1] = IF own[n + 1] = t THEN f[n + 1] ELSE 0
      BY <2>1, <1>1
    <3>3. SumTo(part(t), n) \in Int
      BY <1>2, <2>1
    <3>4. /\ row(n)[t] = IF t \in A THEN SumTo(part(t), n) ELSE 0
          /\ row(n + 1)[t] = IF t \in A THEN SumTo(part(t), n + 1) ELSE 0
      BY <1>3, <2>1
    <3> HIDE DEF part
    <3>5. CASE t \in A
      BY <3>1, <3>2, <3>3, <3>4, <3>5, <2>2, <2>4
    <3>6. CASE t \notin A
      BY <3>4, <3>6, <2>2, <2>4
    <3> QED
      BY <3>5, <3>6
  <2>7. SumTo(row(n + 1), M) = SumTo(row(n), M) + SumTo(new, M)
    BY <2>6, SumToAdd
  <2> QED
    BY <2>1, <2>3, <2>5, <2>7, SumToDef
<1>6. \A n \in Nat : n \in S
  <2>1. S \in SUBSET Nat
    OBVIOUS
  <2> HIDE DEF S
  <2> QED
    BY <1>4, <1>5, <2>1, NatSetInduction
<1>7. SumTo(row(N), M) = SumTo(f, N)
  <2>1. N \in S
    <3> HIDE DEF S
    <3> QED
      BY <1>6
  <2>2. N <= N
    OBVIOUS
  <2> HIDE DEF row
  <2> QED
    BY <2>1, <2>2
<1> DEFINE whole == [t \in 1 .. M |-> SumOver(f, {i \in 1 .. N : own[i] = t}, N)]
<1>8. \A t \in 1 .. M : row(N)[t] = IF t \in A THEN whole[t] ELSE 0
  BY DEF SumOver
<1>9. SumOver(whole, A, M) = SumTo(row(N), M)
  <2> DEFINE cut == [t \in 1 .. M |-> IF t \in A THEN whole[t] ELSE 0]
  <2>1. \A t \in 1 .. M : cut[t] = row(N)[t]
    BY <1>8
  <2>2. SumOver(whole, A, M) = SumTo(cut, M)
    BY DEF SumOver
  <2> HIDE DEF cut, row, whole
  <2> QED
    BY <2>1, <2>2, SumToCongruent
<1>10. whole = Parts(f, own, N, M)
  BY DEF Parts
<1> QED
  BY <1>7, <1>9, <1>10

-----------------------------------------------------------------------------
\* A quotient rounded up: the least natural whose product with the divisor
\* covers the dividend, and less than one divisor above it.
LEMMA CeilDivCovers ==
  ASSUME NEW a \in Nat, NEW b \in Nat \ {0}
  PROVE  /\ CeilDiv(a, b) \in Nat
         /\ a <= CeilDiv(a, b) * b
         /\ CeilDiv(a, b) * b <= a + b - 1
BY DEF CeilDiv

LEMMA CeilDivLeast ==
  ASSUME NEW a \in Nat, NEW b \in Nat \ {0}, NEW m \in Nat, a <= m * b
  PROVE  CeilDiv(a, b) <= m
<1> DEFINE q == CeilDiv(a, b)
<1>1. q \in Nat /\ q * b <= a + b - 1
  BY CeilDivCovers
<1> HIDE DEF q
<1>2. ASSUME q >= m + 1 PROVE FALSE
  <2>1. \A x, y, z \in Nat : x >= y + 1 => x * z >= y * z + z
    <3>1. \A x, y, z \in Nat : x >= y => x * z >= y * z
      OBVIOUS
    <3>2. \A y, z \in Nat : (y + 1) * z = y * z + z
      OBVIOUS
    <3> QED
      BY <3>1, <3>2
  <2>2. q * b >= m * b + b
    BY <1>1, <1>2, <2>1
  <2>3. q * b \in Nat /\ m * b \in Nat
    BY <1>1
  <2> QED
    BY <1>1, <2>2, <2>3
<1>3. q <= m
  BY <1>1, <1>2
<1> QED
  BY <1>3 DEF q

\* A larger dividend has no smaller quotient.
LEMMA CeilDivMonotone ==
  ASSUME NEW a \in Nat, NEW c \in Nat, NEW b \in Nat \ {0}, a <= c
  PROVE  CeilDiv(a, b) <= CeilDiv(c, b)
<1>1. CeilDiv(c, b) \in Nat /\ c <= CeilDiv(c, b) * b
  BY CeilDivCovers
<1>2. CeilDiv(c, b) * b \in Nat
  BY <1>1
<1>3. a <= CeilDiv(c, b) * b
  BY <1>1, <1>2
<1> QED
  BY <1>1, <1>3, CeilDivLeast

\* An exact quotient is not rounded.
LEMMA CeilDivExact ==
  ASSUME NEW a \in Nat, NEW b \in Nat \ {0}
  PROVE  CeilDiv(b * a, b) = a
<1>1. b * a = a * b /\ a * b \in Nat
  OBVIOUS
<1>2. CeilDiv(a * b, b) \in Nat /\ a * b <= CeilDiv(a * b, b) * b
  BY <1>1, CeilDivCovers
<1>3. CeilDiv(a * b, b) <= a
  BY <1>1, CeilDivLeast
<1>4. \A q \in Nat : a * b <= q * b => a <= q
  OBVIOUS
<1> QED
  BY <1>1, <1>2, <1>3, <1>4

-----------------------------------------------------------------------------
\* The recursion that defines an exact power has a solution.
IsPowerTable(p, num, n) ==
    p = [i \in 0 .. n |-> IF i = 0 THEN 1 ELSE p[i - 1] * num]

LEMMA PowerTableExists ==
  ASSUME NEW num
  PROVE  \A n \in Nat : \E p : IsPowerTable(p, num, n)
<1> DEFINE S == {n \in Nat : \E p : IsPowerTable(p, num, n)}
<1>1. 0 \in S
  <2>1. IsPowerTable([i \in 0 .. 0 |-> 1], num, 0)
    BY DEF IsPowerTable
  <2> QED
    BY <2>1
<1>2. ASSUME NEW n \in S PROVE n + 1 \in S
  <2>1. PICK p : IsPowerTable(p, num, n)
    OBVIOUS
  <2> DEFINE u == [i \in 0 .. n + 1 |-> IF i = 0 THEN 1 ELSE p[i - 1] * num]
  <2>2. \A i \in 0 .. n : p[i] = IF i = 0 THEN 1 ELSE p[i - 1] * num
    BY <2>1 DEF IsPowerTable
  <2>3. \A i \in 0 .. n : u[i] = p[i]
    BY <2>2
  <2>4. \A i \in 0 .. n + 1 : i # 0 => i - 1 \in 0 .. n
    OBVIOUS
  <2>5. u = [i \in 0 .. n + 1 |-> IF i = 0 THEN 1 ELSE u[i - 1] * num]
    <3>1. \A i \in 0 .. n + 1 : (IF i = 0 THEN 1 ELSE p[i - 1] * num)
                                  = (IF i = 0 THEN 1 ELSE u[i - 1] * num)
      <4> HIDE DEF u
      <4> QED
        BY <2>3, <2>4
    <3>2. u = [i \in 0 .. n + 1 |-> IF i = 0 THEN 1 ELSE p[i - 1] * num]
      OBVIOUS
    <3> HIDE DEF u
    <3> QED
      BY <3>1, <3>2
  <2> HIDE DEF u
  <2>6. IsPowerTable(u, num, n + 1)
    BY <2>5 DEF IsPowerTable
  <2> QED
    BY <2>6
<1>3. \A n \in Nat : n \in S
  <2>1. S \in SUBSET Nat
    OBVIOUS
  <2> HIDE DEF S
  <2> QED
    BY <1>1, <1>2, <2>1, NatSetInduction
<1> QED
  BY <1>3

LEMMA PowerTableUnique ==
  ASSUME NEW num, NEW p, NEW q, NEW n \in Nat,
         IsPowerTable(p, num, n), IsPowerTable(q, num, n + 1)
  PROVE  p[n] = q[n]
<1> DEFINE S == {i \in Nat : i <= n => p[i] = q[i]}
<1>1. /\ \A i \in 0 .. n : p[i] = IF i = 0 THEN 1 ELSE p[i - 1] * num
      /\ \A i \in 0 .. n + 1 : q[i] = IF i = 0 THEN 1 ELSE q[i - 1] * num
  BY DEF IsPowerTable
<1>2. 0 \in S
  BY <1>1
<1>3. ASSUME NEW i \in S PROVE i + 1 \in S
  <2> SUFFICES ASSUME i + 1 <= n PROVE p[i + 1] = q[i + 1]
    OBVIOUS
  <2>1. p[i] = q[i]
    OBVIOUS
  <2>2. i + 1 \in 0 .. n /\ i + 1 \in 0 .. n + 1 /\ i + 1 # 0 /\ (i + 1) - 1 = i
    OBVIOUS
  <2> QED
    BY <1>1, <2>1, <2>2
<1>4. \A i \in Nat : i \in S
  <2>1. S \in SUBSET Nat
    OBVIOUS
  <2> HIDE DEF S
  <2> QED
    BY <1>2, <1>3, <2>1, NatSetInduction
<1> QED
  BY <1>4

\* The unfolding of an exact power.
THEOREM PowerDef ==
  ASSUME NEW num
  PROVE  /\ Power(num, 0) = 1
         /\ \A k \in Nat : Power(num, k + 1) = Power(num, k) * num
<1> DEFINE Table(k) == CHOOSE p : IsPowerTable(p, num, k)
<1>1. \A k \in Nat : IsPowerTable(Table(k), num, k)
  BY PowerTableExists
<1>2. \A k \in Nat : Power(num, k) = Table(k)[k]
  BY DEF Power, IsPowerTable
<1> HIDE DEF Table
<1>3. Power(num, 0) = 1
  BY <1>1, <1>2 DEF IsPowerTable
<1>4. ASSUME NEW k \in Nat
      PROVE  Power(num, k + 1) = Power(num, k) * num
  <2>1. IsPowerTable(Table(k), num, k) /\ IsPowerTable(Table(k + 1), num, k + 1)
    BY <1>1
  <2>2. Table(k)[k] = Table(k + 1)[k]
    BY <2>1, PowerTableUnique
  <2>3. \A i \in 0 .. k + 1 :
          Table(k + 1)[i] = IF i = 0 THEN 1 ELSE Table(k + 1)[i - 1] * num
    BY <2>1 DEF IsPowerTable
  <2>4. Table(k + 1)[k + 1] = Table(k + 1)[k] * num
    BY <2>3
  <2> QED
    BY <1>2, <2>2, <2>4
<1> QED
  BY <1>3, <1>4

-----------------------------------------------------------------------------
\* Products of naturals keep the order of their factors.
LEMMA ProductMonotone ==
  ASSUME NEW a \in Nat, NEW b \in Nat, NEW c \in Nat, NEW d \in Nat, a <= b, c <= d
  PROVE  a * c <= b * d
<1>1. \A x, y, z \in Nat : x <= y => x * z <= y * z /\ z * x <= z * y
  OBVIOUS
<1>2. a * c <= b * c /\ b * c <= b * d
  BY <1>1
<1>3. a * c \in Nat /\ b * c \in Nat /\ b * d \in Nat
  OBVIOUS
<1> QED
  BY <1>2, <1>3

\* A positive common factor cancels.
LEMMA ProductCancels ==
  ASSUME NEW a \in Nat, NEW b \in Nat, NEW c \in Nat \ {0}, a * c <= b * c
  PROVE  a <= b
OBVIOUS

\* A power of a natural is a natural, positive when its base is.
LEMMA PowerNat ==
  ASSUME NEW num \in Nat
  PROVE  \A k \in Nat : Power(num, k) \in Nat /\ (num # 0 => Power(num, k) # 0)
<1> DEFINE S == {k \in Nat : Power(num, k) \in Nat /\ (num # 0 => Power(num, k) # 0)}
<1>1. 0 \in S
  BY PowerDef
<1>2. ASSUME NEW k \in S PROVE k + 1 \in S
  <2>1. Power(num, k + 1) = Power(num, k) * num
    BY PowerDef
  <2>2. \A a, b \in Nat : a * b \in Nat /\ (a # 0 /\ b # 0 => a * b # 0)
    OBVIOUS
  <2> QED
    BY <2>1, <2>2
<1>3. \A k \in Nat : k \in S
  <2>1. S \in SUBSET Nat
    OBVIOUS
  <2> HIDE DEF S
  <2> QED
    BY <1>1, <1>2, <2>1, NatSetInduction
<1> QED
  BY <1>3

\* The power of a product.
LEMMA PowerOfProduct ==
  ASSUME NEW a \in Nat, NEW b \in Nat
  PROVE  \A k \in Nat : Power(a * b, k) = Power(a, k) * Power(b, k)
<1> DEFINE S == {k \in Nat : Power(a * b, k) = Power(a, k) * Power(b, k)}
<1>1. 0 \in S
  BY PowerDef
<1>2. ASSUME NEW k \in S PROVE k + 1 \in S
  <2>1. /\ Power(a * b, k + 1) = Power(a * b, k) * (a * b)
        /\ Power(a, k + 1) = Power(a, k) * a
        /\ Power(b, k + 1) = Power(b, k) * b
    BY PowerDef
  <2>2. Power(a, k) \in Nat /\ Power(b, k) \in Nat
    BY PowerNat
  <2>3. \A x, y, u, v \in Nat : (x * y) * (u * v) = (x * u) * (y * v)
    OBVIOUS
  <2> QED
    BY <2>1, <2>2, <2>3
<1>3. \A k \in Nat : k \in S
  <2>1. S \in SUBSET Nat
    OBVIOUS
  <2> HIDE DEF S
  <2> QED
    BY <1>1, <1>2, <2>1, NatSetInduction
<1> QED
  BY <1>3

\* A larger base has no smaller power.
LEMMA PowerMonotone ==
  ASSUME NEW a \in Nat, NEW b \in Nat, a <= b
  PROVE  \A k \in Nat : Power(a, k) <= Power(b, k)
<1> DEFINE S == {k \in Nat : Power(a, k) <= Power(b, k)}
<1>1. 0 \in S
  BY PowerDef
<1>2. ASSUME NEW k \in S PROVE k + 1 \in S
  <2>1. Power(a, k + 1) = Power(a, k) * a /\ Power(b, k + 1) = Power(b, k) * b
    BY PowerDef
  <2>2. Power(a, k) \in Nat /\ Power(b, k) \in Nat /\ Power(a, k) <= Power(b, k)
    BY PowerNat
  <2> QED
    BY <2>1, <2>2, ProductMonotone
<1>3. \A k \in Nat : k \in S
  <2>1. S \in SUBSET Nat
    OBVIOUS
  <2> HIDE DEF S
  <2> QED
    BY <1>1, <1>2, <2>1, NatSetInduction
<1> QED
  BY <1>3

\* Half the exponent, the square of the base; the odd unit is one more factor.
LEMMA PowerHalved ==
  ASSUME NEW a \in Nat
  PROVE  \A k \in Nat : /\ Power(a, 2 * k) = Power(a * a, k)
                        /\ Power(a, 2 * k + 1) = Power(a * a, k) * a
<1> DEFINE S == {k \in Nat : Power(a, 2 * k) = Power(a * a, k)}
<1>1. 0 \in S
  BY PowerDef
<1>2. ASSUME NEW k \in S PROVE k + 1 \in S
  <2>1. 2 * k \in Nat /\ 2 * k + 1 \in Nat /\ 2 * (k + 1) = (2 * k + 1) + 1
    OBVIOUS
  <2>2. /\ Power(a, (2 * k + 1) + 1) = Power(a, 2 * k + 1) * a
        /\ Power(a, 2 * k + 1) = Power(a, 2 * k) * a
        /\ Power(a * a, k + 1) = Power(a * a, k) * (a * a)
    BY <2>1, PowerDef
  <2>3. Power(a * a, k) \in Nat
    BY PowerNat
  <2>4. \A x, y \in Nat : (x * y) * y = x * (y * y)
    OBVIOUS
  <2>5. Power(a, 2 * k) = Power(a * a, k)
    OBVIOUS
  <2>6. Power(a, 2 * (k + 1)) = (Power(a * a, k) * a) * a
    BY <2>1, <2>2, <2>5
  <2>7. Power(a, 2 * (k + 1)) = Power(a * a, k + 1)
    BY <2>2, <2>3, <2>4, <2>6
  <2> QED
    BY <2>7
<1>3. \A k \in Nat : k \in S
  <2>1. S \in SUBSET Nat
    OBVIOUS
  <2> HIDE DEF S
  <2> QED
    BY <1>1, <1>2, <2>1, NatSetInduction
<1>4. ASSUME NEW k \in Nat
      PROVE  Power(a, 2 * k + 1) = Power(a * a, k) * a
  <2>1. 2 * k \in Nat
    OBVIOUS
  <2>2. Power(a, 2 * k + 1) = Power(a, 2 * k) * a
    BY <2>1, PowerDef
  <2>3. Power(a, 2 * k) = Power(a * a, k)
    BY <1>3
  <2> QED
    BY <2>2, <2>3
<1> QED
  BY <1>3, <1>4

\* Two bases of at most d*d that are d apart: their k-th powers are no more
\* than k*(d*d)^k / d apart.
LEMMA PowerDistance ==
  ASSUME NEW a \in Nat, NEW b \in Nat, NEW d \in Nat,
         a <= b + d, a <= d * d, b <= d * d
  PROVE  \A k \in Nat : d * Power(a, k) <= d * Power(b, k) + k * Power(d * d, k)
<1> DEFINE S == {k \in Nat : d * Power(a, k) <= d * Power(b, k) + k * Power(d * d, k)}
<1>1. 0 \in S
  <2>1. Power(a, 0) = 1 /\ Power(b, 0) = 1 /\ Power(d * d, 0) = 1
    BY PowerDef
  <2>2. d * 1 <= d * 1 + 0 * 1
    OBVIOUS
  <2> QED
    BY <2>1, <2>2
<1>2. ASSUME NEW k \in S PROVE k + 1 \in S
  <2> DEFINE A == Power(a, k)
             B == Power(b, k)
             M == Power(d * d, k)
             m == d * d
  <2>1. /\ Power(a, k + 1) = A * a /\ Power(b, k + 1) = B * b
        /\ Power(m, k + 1) = M * m
    BY PowerDef
  <2>2. m \in Nat /\ A \in Nat /\ B \in Nat /\ M \in Nat /\ B <= M
    BY PowerNat, PowerMonotone
  <2>3. d * A <= d * B + k * M /\ m = d * d /\ a <= m
    OBVIOUS
  <2> HIDE DEF A, B, M, m
  <2>4. (d * A) * a <= (d * B + k * M) * a
    BY <2>2, <2>3, ProductMonotone
  <2>5. (d * B + k * M) * a = (d * B) * a + (k * M) * a
    BY <2>2
  <2>6. (d * B) * a <= (d * B) * (b + d)
    BY <2>2, ProductMonotone
  <2>7. (k * M) * a <= (k * M) * m
    BY <2>2, <2>3, ProductMonotone
  <2>8. (d * B) * (b + d) = (d * B) * b + B * m
    BY <2>2, <2>3
  <2>9. B * m <= M * m
    BY <2>2, ProductMonotone
  <2>10. (k * M) * m + M * m = (k + 1) * (M * m)
    BY <2>2
  <2>11. /\ (d * A) * a = d * (A * a) /\ (d * B) * b = d * (B * b)
         /\ d * (A * a) \in Nat /\ d * (B * b) \in Nat /\ (k * M) * m \in Nat
         /\ (d * B) * a \in Nat /\ (k * M) * a \in Nat
         /\ M * m \in Nat /\ B * m \in Nat
    BY <2>2
  <2>12. d * (A * a) <= d * (B * b) + (k + 1) * (M * m)
    BY <2>4, <2>5, <2>6, <2>7, <2>8, <2>9, <2>10, <2>11
  <2>13. d * Power(a, k + 1) <= d * Power(b, k + 1) + (k + 1) * Power(d * d, k + 1)
    BY <2>1, <2>3, <2>12
  <2> QED
    BY <2>13
<1>3. \A k \in Nat : k \in S
  <2>1. S \in SUBSET Nat
    OBVIOUS
  <2> HIDE DEF S
  <2> QED
    BY <1>1, <1>2, <2>1, NatSetInduction
<1> QED
  BY <1>3

-----------------------------------------------------------------------------
\* The loop of _fixed_point_power_ceil as a function of its variables: the
\* recursion has a solution for every divisor and every number of ticks.
IsPowerLoop(loop, den, k) ==
    loop = [s \in PowerLoop(k) |->
              IF s.remaining = 0 THEN s.result ELSE loop[NextBit(s, den)]]

\* A pass of the loop halves what remains.
LEMMA NextBitTypes ==
  ASSUME NEW k \in Nat, NEW den \in Nat \ {0}, NEW s \in PowerLoop(k)
  PROVE  /\ NextBit(s, den) \in PowerLoop(k)
         /\ NextBit(s, den).remaining = s.remaining \div 2
         /\ s.remaining # 0 => s.remaining \div 2 < s.remaining
<1>1. /\ s.base * s.base \in Nat /\ s.result * s.base \in Nat /\ s.result \in Nat
      /\ s.remaining \in 0 .. k
  BY DEF PowerLoop
<1>2. CeilDiv(s.base * s.base, den) \in Nat /\ CeilDiv(s.result * s.base, den) \in Nat
  BY <1>1, CeilDivCovers
<1>3. /\ s.remaining \div 2 \in 0 .. k
      /\ s.remaining # 0 => s.remaining \div 2 < s.remaining
  BY <1>1
<1> QED
  BY <1>1, <1>2, <1>3 DEF PowerLoop, NextBit

\* A set of loop states holds all of them when it holds those with nothing
\* remaining, and every state whose next one it holds.
LEMMA LoopInduction ==
  ASSUME NEW k \in Nat, NEW den \in Nat \ {0}, NEW S,
         \A s \in PowerLoop(k) : s.remaining = 0 => s \in S,
         \A s \in PowerLoop(k) : s.remaining # 0 /\ NextBit(s, den) \in S => s \in S
  PROVE  \A s \in PowerLoop(k) : s \in S
<1> DEFINE N == {n \in Nat : \A s \in PowerLoop(k) : s.remaining = n => s \in S}
<1>1. ASSUME NEW n \in Nat, \A m \in 0 .. n - 1 : m \in N
      PROVE  n \in N
  <2> SUFFICES ASSUME NEW s \in PowerLoop(k), s.remaining = n
               PROVE  s \in S
    OBVIOUS
  <2>1. CASE n = 0
    BY <2>1
  <2>2. CASE n # 0
    <3>1. NextBit(s, den) \in PowerLoop(k) /\ NextBit(s, den).remaining \in 0 .. n - 1
      BY <2>2, NextBitTypes
    <3>2. NextBit(s, den).remaining \in N
      BY <1>1, <3>1
    <3> QED
      BY <2>2, <3>1, <3>2
  <2> QED
    BY <2>1, <2>2
<1>2. \A n \in Nat : n \in N
  <2>1. N \in SUBSET Nat
    OBVIOUS
  <2> HIDE DEF N
  <2> QED
    BY <1>1, <2>1, StrongSetInduction
<1>3. \A s \in PowerLoop(k) : s.remaining \in Nat
  BY DEF PowerLoop
<1> QED
  BY <1>2, <1>3

LEMMA PowerLoopExists ==
  ASSUME NEW den \in Nat \ {0}
  PROVE  \A k \in Nat : \E loop : IsPowerLoop(loop, den, k)
<1> DEFINE S == {k \in Nat : \E loop : IsPowerLoop(loop, den, k)}
<1>1. 0 \in S
  <2>1. IsPowerLoop([s \in PowerLoop(0) |-> s.result], den, 0)
    BY DEF IsPowerLoop, PowerLoop
  <2> QED
    BY <2>1
<1>2. ASSUME NEW k \in S PROVE k + 1 \in S
  <2>1. PICK loop : IsPowerLoop(loop, den, k)
    OBVIOUS
  <2> DEFINE u == [s \in PowerLoop(k + 1) |->
                     IF s.remaining = 0 THEN s.result ELSE loop[NextBit(s, den)]]
  <2>2. \A s \in PowerLoop(k) :
          loop[s] = IF s.remaining = 0 THEN s.result ELSE loop[NextBit(s, den)]
    BY <2>1 DEF IsPowerLoop
  <2>3. \A s \in PowerLoop(k) : s \in PowerLoop(k + 1)
    BY DEF PowerLoop
  <2>4. \A s \in PowerLoop(k) : u[s] = loop[s]
    BY <2>2, <2>3
  <2>5. ASSUME NEW s \in PowerLoop(k + 1), s.remaining # 0
        PROVE  NextBit(s, den) \in PowerLoop(k)
    <3>1. /\ NextBit(s, den) \in PowerLoop(k + 1)
          /\ NextBit(s, den).remaining < s.remaining
      BY <2>5, NextBitTypes
    <3> QED
      BY <3>1 DEF PowerLoop
  <2>6. u = [s \in PowerLoop(k + 1) |->
               IF s.remaining = 0 THEN s.result ELSE loop[NextBit(s, den)]]
    OBVIOUS
  <2> HIDE DEF u
  <2>7. \A s \in PowerLoop(k + 1) :
          (IF s.remaining = 0 THEN s.result ELSE loop[NextBit(s, den)])
             = (IF s.remaining = 0 THEN s.result ELSE u[NextBit(s, den)])
    BY <2>4, <2>5
  <2>8. IsPowerLoop(u, den, k + 1)
    BY <2>6, <2>7 DEF IsPowerLoop
  <2> QED
    BY <2>8
<1>3. \A k \in Nat : k \in S
  <2>1. S \in SUBSET Nat
    OBVIOUS
  <2> HIDE DEF S
  <2> QED
    BY <1>1, <1>2, <2>1, NatSetInduction
<1> QED
  BY <1>3

\* Two solutions agree wherever both are defined.
LEMMA PowerLoopUnique ==
  ASSUME NEW den \in Nat \ {0}, NEW j \in Nat, NEW k \in Nat, j <= k,
         NEW f, NEW g, IsPowerLoop(f, den, j), IsPowerLoop(g, den, k)
  PROVE  \A s \in PowerLoop(j) : f[s] = g[s]
<1> DEFINE S == {s \in PowerLoop(j) : f[s] = g[s]}
<1>1. \A s \in PowerLoop(j) : s \in PowerLoop(k)
  BY DEF PowerLoop
<1>2. \A s \in PowerLoop(j) :
        /\ f[s] = IF s.remaining = 0 THEN s.result ELSE f[NextBit(s, den)]
        /\ g[s] = IF s.remaining = 0 THEN s.result ELSE g[NextBit(s, den)]
  BY <1>1 DEF IsPowerLoop
<1>3. /\ \A s \in PowerLoop(j) : s.remaining = 0 => s \in S
      /\ \A s \in PowerLoop(j) : s.remaining # 0 /\ NextBit(s, den) \in S => s \in S
  BY <1>2
<1>4. \A s \in PowerLoop(j) : s \in S
  <2> HIDE DEF S
  <2> QED
    BY <1>3, LoopInduction
<1> QED
  BY <1>4

\* PowerCeil runs the loop from its initial state, whatever the table's size.
LEMMA PowerCeilIsLoop ==
  ASSUME NEW num \in Nat, NEW den \in Nat \ {0}, NEW k \in Nat, NEW n \in Nat, k <= n,
         NEW loop, IsPowerLoop(loop, den, n)
  PROVE  PowerCeil(num, den, k) = loop[[remaining |-> k, base |-> num, result |-> den]]
<1> DEFINE f == CHOOSE p : IsPowerLoop(p, den, k)
           s == [remaining |-> k, base |-> num, result |-> den]
<1>1. IsPowerLoop(f, den, k)
  BY PowerLoopExists
<1>2. PowerCeil(num, den, k) = f[s]
  BY DEF PowerCeil, IsPowerLoop
<1>3. s \in PowerLoop(k)
  BY DEF PowerLoop
<1> HIDE DEF f, s
<1>4. f[s] = loop[s]
  BY <1>1, <1>3, PowerLoopUnique
<1> QED
  BY <1>2, <1>4 DEF s

-----------------------------------------------------------------------------
\* The halves of a number and its lowest bit.
LEMMA Halving ==
  ASSUME NEW e \in Nat
  PROVE  /\ e \div 2 \in Nat
         /\ e % 2 = 1 => e = 2 * (e \div 2) + 1
         /\ e % 2 # 1 => e = 2 * (e \div 2)
OBVIOUS

\* Over a factor of at most one, the fixed-point power stays between 0 and one.
LEMMA PowerCeilBounded ==
  ASSUME NEW num \in Nat, NEW den \in Nat \ {0}, num <= den, NEW k \in Nat
  PROVE  PowerCeil(num, den, k) \in 0 .. den
<1>1. PICK loop : IsPowerLoop(loop, den, k)
  BY PowerLoopExists
<1> DEFINE S == {s \in PowerLoop(k) :
                   s.base <= den /\ s.result <= den => loop[s] \in 0 .. den}
<1>2. \A s \in PowerLoop(k) :
        loop[s] = IF s.remaining = 0 THEN s.result ELSE loop[NextBit(s, den)]
  BY <1>1 DEF IsPowerLoop
<1>3. \A s \in PowerLoop(k) : s.remaining = 0 => s \in S
  BY <1>2 DEF PowerLoop
<1>4. ASSUME NEW s \in PowerLoop(k), s.remaining # 0, NextBit(s, den) \in S
      PROVE  s \in S
  <2> SUFFICES ASSUME s.base <= den, s.result <= den PROVE loop[s] \in 0 .. den
    OBVIOUS
  <2>1. s.base \in Nat /\ s.result \in Nat
    BY DEF PowerLoop
  <2>2. /\ s.base * s.base <= den * den /\ s.result * s.base <= den * den
        /\ s.base * s.base \in Nat /\ s.result * s.base \in Nat
    BY <2>1, ProductMonotone
  <2>3. CeilDiv(s.base * s.base, den) <= den /\ CeilDiv(s.result * s.base, den) <= den
    BY <2>2, CeilDivLeast
  <2>4. NextBit(s, den).base <= den /\ NextBit(s, den).result <= den
    BY <2>1, <2>3 DEF NextBit
  <2> QED
    BY <1>2, <1>4, <2>4
<1>5. \A s \in PowerLoop(k) : s \in S
  <2> HIDE DEF S
  <2> QED
    BY <1>3, <1>4, LoopInduction
<1> DEFINE start == [remaining |-> k, base |-> num, result |-> den]
<1>6. start \in PowerLoop(k) /\ start.base <= den /\ start.result <= den
  BY DEF PowerLoop
<1>7. PowerCeil(num, den, k) = loop[start]
  BY <1>1, PowerCeilIsLoop
<1> QED
  BY <1>5, <1>6, <1>7

\* A larger result at the start of the loop is no smaller at its end.
LEMMA LoopMonotone ==
  ASSUME NEW den \in Nat \ {0}, NEW k \in Nat, NEW loop, IsPowerLoop(loop, den, k),
         NEW e \in 0 .. k, NEW b \in Nat, NEW x \in Nat, NEW y \in Nat, x <= y
  PROVE  loop[[remaining |-> e, base |-> b, result |-> x]]
            <= loop[[remaining |-> e, base |-> b, result |-> y]]
<1> DEFINE With(s, r) == [remaining |-> s.remaining, base |-> s.base, result |-> r]
           S == {s \in PowerLoop(k) : \A r \in Nat : s.result <= r => loop[s] <= loop[With(s, r)]}
<1>1. \A s \in PowerLoop(k) :
        loop[s] = IF s.remaining = 0 THEN s.result ELSE loop[NextBit(s, den)]
  BY DEF IsPowerLoop
<1>2. \A s \in PowerLoop(k), r \in Nat : With(s, r) \in PowerLoop(k)
  BY DEF PowerLoop
<1>3. ASSUME NEW s \in PowerLoop(k), s.remaining = 0 PROVE s \in S
  <2>1. \A r \in Nat : loop[With(s, r)] = r
    BY <1>1, <1>2, <1>3
  <2> QED
    BY <1>1, <1>3, <2>1
<1>4. ASSUME NEW s \in PowerLoop(k), s.remaining # 0, NextBit(s, den) \in S
      PROVE  s \in S
  <2> SUFFICES ASSUME NEW r \in Nat, s.result <= r PROVE loop[s] <= loop[With(s, r)]
    OBVIOUS
  <2>1. s.base \in Nat /\ s.result \in Nat
    BY DEF PowerLoop
  <2>2. loop[s] = loop[NextBit(s, den)] /\ loop[With(s, r)] = loop[NextBit(With(s, r), den)]
    BY <1>1, <1>2, <1>4
  <2>3. /\ s.result * s.base <= r * s.base
        /\ s.result * s.base \in Nat /\ r * s.base \in Nat
    BY <2>1, ProductMonotone
  <2>4. /\ CeilDiv(s.result * s.base, den) <= CeilDiv(r * s.base, den)
        /\ CeilDiv(r * s.base, den) \in Nat
    BY <2>3, CeilDivMonotone, CeilDivCovers
  <2> DEFINE q == IF s.remaining % 2 = 1 THEN CeilDiv(r * s.base, den) ELSE r
  <2>5. q \in Nat /\ NextBit(s, den).result <= q
    BY <2>1, <2>4 DEF NextBit
  <2>6. NextBit(With(s, r), den) = With(NextBit(s, den), q)
    BY DEF NextBit
  <2> HIDE DEF q, With
  <2> QED
    BY <1>4, <2>2, <2>5, <2>6
<1>5. \A s \in PowerLoop(k) : s \in S
  <2> HIDE DEF S
  <2> QED
    BY <1>3, <1>4, LoopInduction
<1> DEFINE s == [remaining |-> e, base |-> b, result |-> x]
<1>6. s \in PowerLoop(k) /\ s.result = x
      /\ With(s, y) = [remaining |-> e, base |-> b, result |-> y]
  BY DEF PowerLoop
<1>7. loop[s] <= loop[With(s, y)]
  <2> HIDE DEF With, s
  <2> QED
    BY <1>5, <1>6
<1> QED
  BY <1>6, <1>7

\* One more tick and one more factor are the same: the loop over e + 1 ticks
\* that starts from one ends where the loop over e ticks does that starts from
\* the base.
LEMMA LoopShifts ==
  ASSUME NEW den \in Nat \ {0}, NEW k \in Nat, NEW loop, IsPowerLoop(loop, den, k + 1),
         NEW e \in 0 .. k, NEW b \in Nat
  PROVE  loop[[remaining |-> e + 1, base |-> b, result |-> den]]
            = loop[[remaining |-> e, base |-> b, result |-> b]]
<1> DEFINE More(s) == [remaining |-> s.remaining + 1, base |-> s.base, result |-> den]
           Same(s) == [remaining |-> s.remaining, base |-> s.base, result |-> s.base]
           S == {s \in PowerLoop(k) : loop[More(s)] = loop[Same(s)]}
<1>1. \A s \in PowerLoop(k + 1) :
        loop[s] = IF s.remaining = 0 THEN s.result ELSE loop[NextBit(s, den)]
  BY DEF IsPowerLoop
<1>2. \A s \in PowerLoop(k) :
        /\ s.remaining \in Nat /\ s.base \in Nat
        /\ More(s) \in PowerLoop(k + 1) /\ More(s).remaining # 0
        /\ Same(s) \in PowerLoop(k + 1)
  BY DEF PowerLoop
<1>3. ASSUME NEW s \in PowerLoop(k), s.remaining % 2 # 1
      PROVE  /\ NextBit(More(s), den)
                  = [remaining |-> s.remaining \div 2, base |-> CeilDiv(s.base * s.base, den),
                     result |-> s.base]
             /\ NextBit(Same(s), den)
                  = [remaining |-> s.remaining \div 2, base |-> CeilDiv(s.base * s.base, den),
                     result |-> s.base]
  <2>1. s.remaining \in Nat /\ s.base \in Nat
    BY <1>2
  <2>2. (s.remaining + 1) % 2 = 1 /\ (s.remaining + 1) \div 2 = s.remaining \div 2
    BY <1>3, <2>1
  <2>3. CeilDiv(den * s.base, den) = s.base
    BY <2>1, CeilDivExact
  <2> QED
    BY <1>3, <2>2, <2>3 DEF NextBit
<1>4. ASSUME NEW s \in PowerLoop(k), s.remaining = 0 PROVE s \in S
  <2>1. s.remaining % 2 # 1 /\ s.remaining \div 2 = 0
    BY <1>4
  <2>2. NextBit(More(s), den) \in PowerLoop(k + 1)
    <3> HIDE DEF More
    <3>1. More(s) \in PowerLoop(k + 1)
      BY <1>2
    <3>2. k + 1 \in Nat
      OBVIOUS
    <3> QED
      BY <3>1, <3>2, NextBitTypes
  <2>3. NextBit(More(s), den).remaining = 0 /\ NextBit(More(s), den).result = s.base
    <3>1. NextBit(More(s), den)
            = [remaining |-> s.remaining \div 2, base |-> CeilDiv(s.base * s.base, den),
               result |-> s.base]
      BY <1>3, <2>1
    <3> HIDE DEF More
    <3> QED
      BY <2>1, <3>1
  <2>4. loop[More(s)] = s.base
    BY <1>1, <1>2, <2>2, <2>3
  <2>5. loop[Same(s)] = s.base
    BY <1>1, <1>2, <1>4
  <2> QED
    BY <2>4, <2>5
<1>5. ASSUME NEW s \in PowerLoop(k), s.remaining # 0, NextBit(s, den) \in S
      PROVE  s \in S
  <2>1. /\ loop[More(s)] = loop[NextBit(More(s), den)]
        /\ loop[Same(s)] = loop[NextBit(Same(s), den)]
    BY <1>1, <1>2, <1>5
  <2>2. CASE s.remaining % 2 # 1
    BY <1>3, <2>1, <2>2
  <2>3. CASE s.remaining % 2 = 1
    <3>1. s.remaining \in Nat
      BY <1>2
    <3>2. (s.remaining + 1) % 2 # 1 /\ (s.remaining + 1) \div 2 = (s.remaining \div 2) + 1
      BY <2>3, <3>1
    <3>3. NextBit(More(s), den) = More(NextBit(s, den))
      BY <3>2 DEF NextBit
    <3>4. NextBit(Same(s), den) = Same(NextBit(s, den))
      BY <2>3 DEF NextBit
    <3> HIDE DEF More, Same
    <3> QED
      BY <1>5, <2>1, <3>3, <3>4
  <2> QED
    BY <2>2, <2>3
<1>6. \A s \in PowerLoop(k) : s \in S
  <2> HIDE DEF S
  <2> QED
    BY <1>4, <1>5, LoopInduction
<1> DEFINE s == [remaining |-> e, base |-> b, result |-> b]
<1>7. s \in PowerLoop(k)
  BY DEF PowerLoop
<1> QED
  BY <1>6, <1>7

\* One more tick never raises the power of a factor of at most one.
THEOREM PowerCeilFalls ==
  ASSUME NEW num \in Nat, NEW den \in Nat \ {0}, num <= den, NEW k \in Nat
  PROVE  PowerCeil(num, den, k + 1) <= PowerCeil(num, den, k)
<1>1. PICK loop : IsPowerLoop(loop, den, k + 1)
  BY PowerLoopExists
<1>2. /\ PowerCeil(num, den, k)
           = loop[[remaining |-> k, base |-> num, result |-> den]]
      /\ PowerCeil(num, den, k + 1)
           = loop[[remaining |-> k + 1, base |-> num, result |-> den]]
  BY <1>1, PowerCeilIsLoop
<1>3. loop[[remaining |-> k + 1, base |-> num, result |-> den]]
        = loop[[remaining |-> k, base |-> num, result |-> num]]
  BY <1>1, LoopShifts
<1>4. loop[[remaining |-> k, base |-> num, result |-> num]]
        <= loop[[remaining |-> k, base |-> num, result |-> den]]
  BY <1>1, LoopMonotone
<1> QED
  BY <1>2, <1>3, <1>4

-----------------------------------------------------------------------------
\* A pass over a bit that is not set: the square is rounded up to c, the result
\* stays.  What the rest of the loop keeps above the exact value of the next
\* state is above that of this state.
LEMMA EvenPassCovers ==
  ASSUME NEW den \in Nat, NEW j \in Nat, NEW b \in Nat, NEW c \in Nat, NEW r \in Nat,
         NEW out \in Nat, b * b <= c * den,
         r * Power(c, j) <= out * Power(den, j)
  PROVE  r * Power(b, 2 * j) <= out * Power(den, 2 * j)
<1> DEFINE D == Power(den, j)
           C == Power(c, j)
           B == Power(b * b, j)
<1>1. b * b \in Nat /\ c * den \in Nat
  OBVIOUS
<1>2. B \in Nat /\ C \in Nat /\ D \in Nat
  BY <1>1, PowerNat
<1>3. B <= Power(c * den, j) /\ Power(c * den, j) = C * D
  BY <1>1, PowerMonotone, PowerOfProduct
<1>4. Power(b, 2 * j) = B /\ Power(den, 2 * j) = D * D
  <2>1. Power(b, 2 * j) = Power(b * b, j) /\ Power(den, 2 * j) = Power(den * den, j)
    BY PowerHalved
  <2>2. Power(den * den, j) = Power(den, j) * Power(den, j)
    BY PowerOfProduct
  <2> QED
    BY <2>1, <2>2
<1>5. r * C <= out * D
  OBVIOUS
<1> HIDE DEF B, C, D
<1>6. r * B <= r * (C * D) /\ (r * C) * D <= (out * D) * D
  BY <1>2, <1>3, <1>5, ProductMonotone
<1>7. /\ r * (C * D) = (r * C) * D /\ (out * D) * D = out * (D * D)
      /\ r * B \in Nat /\ r * (C * D) \in Nat /\ out * (D * D) \in Nat
  BY <1>2
<1>8. r * B <= out * (D * D)
  BY <1>6, <1>7
<1> QED
  BY <1>4, <1>8

\* A pass over a bit that is set: the result times the base is rounded up to q.
LEMMA OddPassCovers ==
  ASSUME NEW den \in Nat, NEW j \in Nat, NEW b \in Nat, NEW c \in Nat, NEW r \in Nat,
         NEW q \in Nat, NEW out \in Nat, b * b <= c * den, r * b <= q * den,
         q * Power(c, j) <= out * Power(den, j)
  PROVE  r * Power(b, 2 * j + 1) <= out * Power(den, 2 * j + 1)
<1> DEFINE D == Power(den, 2 * j)
           B == Power(b, 2 * j)
<1>1. q * B <= out * D
  BY EvenPassCovers
<1>2. 2 * j \in Nat
  OBVIOUS
<1>3. B \in Nat /\ D \in Nat /\ Power(b, 2 * j + 1) = B * b /\ Power(den, 2 * j + 1) = D * den
  BY <1>2, PowerNat, PowerDef
<1> HIDE DEF B, D
<1>4. (r * b) * B <= (q * den) * B /\ (q * B) * den <= (out * D) * den
  BY <1>1, <1>3, ProductMonotone
<1>5. /\ (r * b) * B = r * (B * b) /\ (q * den) * B = (q * B) * den
      /\ (out * D) * den = out * (D * den)
      /\ r * (B * b) \in Nat /\ (q * B) * den \in Nat /\ out * (D * den) \in Nat
  BY <1>3
<1>6. r * (B * b) <= out * (D * den)
  BY <1>4, <1>5
<1> QED
  BY <1>3, <1>6

\* The fixed-point power never falls below the exact one.
THEOREM PowerCeilIsConservative ==
  ASSUME NEW num \in Nat, NEW den \in Nat \ {0}, NEW k \in Nat
  PROVE  /\ PowerCeil(num, den, k) \in Nat
         /\ PowerCeil(num, den, k) * Power(den, k) >= Power(num, k) * den
<1>1. PICK loop : IsPowerLoop(loop, den, k)
  BY PowerLoopExists
<1> DEFINE S == {s \in PowerLoop(k) :
                   /\ loop[s] \in Nat
                   /\ s.result * Power(s.base, s.remaining)
                        <= loop[s] * Power(den, s.remaining)}
<1>2. \A s \in PowerLoop(k) :
        loop[s] = IF s.remaining = 0 THEN s.result ELSE loop[NextBit(s, den)]
  BY <1>1 DEF IsPowerLoop
<1>3. ASSUME NEW s \in PowerLoop(k), s.remaining = 0 PROVE s \in S
  <2>1. loop[s] = s.result /\ s.result \in Nat /\ s.base \in Nat
    BY <1>2, <1>3 DEF PowerLoop
  <2>2. Power(den, 0) = 1 /\ Power(s.base, 0) = 1
    BY PowerDef
  <2> QED
    BY <1>3, <2>1, <2>2
<1>4. ASSUME NEW s \in PowerLoop(k), s.remaining # 0, NextBit(s, den) \in S
      PROVE  s \in S
  <2>1. loop[s] = loop[NextBit(s, den)] /\ NextBit(s, den).remaining = s.remaining \div 2
    BY <1>2, <1>4, NextBitTypes
  <2>2. /\ loop[s] \in Nat
        /\ NextBit(s, den).result * Power(NextBit(s, den).base, s.remaining \div 2)
             <= loop[s] * Power(den, s.remaining \div 2)
    BY <1>4, <2>1
  <2>3. s.remaining \in Nat /\ s.base \in Nat /\ s.result \in Nat
    BY DEF PowerLoop
  <2>4. /\ s.base * s.base \in Nat /\ s.result * s.base \in Nat
        /\ s.remaining \div 2 \in Nat
    BY <2>3, Halving
  <2>5. /\ CeilDiv(s.base * s.base, den) \in Nat
        /\ s.base * s.base <= CeilDiv(s.base * s.base, den) * den
        /\ CeilDiv(s.result * s.base, den) \in Nat
        /\ s.result * s.base <= CeilDiv(s.result * s.base, den) * den
    BY <2>4, CeilDivCovers
  <2>6. s.result * Power(s.base, s.remaining) <= loop[s] * Power(den, s.remaining)
    <3>1. CASE s.remaining % 2 = 1
      <4>1. CeilDiv(s.result * s.base, den) * Power(CeilDiv(s.base * s.base, den), s.remaining \div 2)
              <= loop[s] * Power(den, s.remaining \div 2)
        BY <2>2, <2>4, <2>5, <3>1, PowerNat DEF NextBit
      <4>2. s.result * Power(s.base, 2 * (s.remaining \div 2) + 1)
              <= loop[s] * Power(den, 2 * (s.remaining \div 2) + 1)
        BY <2>2, <2>3, <2>4, <2>5, <4>1, OddPassCovers
      <4> QED
        BY <2>3, <3>1, <4>2, Halving
    <3>2. CASE s.remaining % 2 # 1
      <4>1. s.result * Power(CeilDiv(s.base * s.base, den), s.remaining \div 2)
              <= loop[s] * Power(den, s.remaining \div 2)
        BY <2>2, <3>2 DEF NextBit
      <4>2. s.result * Power(s.base, 2 * (s.remaining \div 2))
              <= loop[s] * Power(den, 2 * (s.remaining \div 2))
        BY <2>2, <2>3, <2>4, <2>5, <4>1, EvenPassCovers
      <4> QED
        BY <2>3, <3>2, <4>2, Halving
    <3> QED
      BY <3>1, <3>2
  <2> QED
    BY <2>2, <2>6
<1>5. \A s \in PowerLoop(k) : s \in S
  <2> HIDE DEF S
  <2> QED
    BY <1>3, <1>4, LoopInduction
<1> DEFINE start == [remaining |-> k, base |-> num, result |-> den]
<1>6. start \in PowerLoop(k)
  BY DEF PowerLoop
<1>7. PowerCeil(num, den, k) = loop[start]
  BY <1>1, PowerCeilIsLoop
<1>8. loop[start] \in Nat /\ den * Power(num, k) <= loop[start] * Power(den, k)
  BY <1>5, <1>6
<1>9. Power(num, k) \in Nat /\ Power(den, k) \in Nat
  BY PowerNat
<1> HIDE DEF start
<1> QED
  BY <1>7, <1>8, <1>9

-----------------------------------------------------------------------------
\* What a pass over a bit that is not set may add above the exact value: two
\* roundings of the square, each worth j units of the divisor's power.
LEMMA EvenPassTight ==
  ASSUME NEW den \in Nat, NEW j \in Nat, NEW b \in Nat, NEW c \in Nat, NEW r \in Nat,
         NEW out \in Nat, b <= den, c <= den, r <= den, c * den <= b * b + den,
         out * Power(den, j) <= r * Power(c, j) + j * Power(den, j)
  PROVE  out * Power(den, 2 * j) <= r * Power(b, 2 * j) + (2 * j) * Power(den, 2 * j)
<1> DEFINE D == Power(den, j)
           C == Power(c, j)
           B == Power(b * b, j)
           X == Power(c * den, j)
           M == Power(den * den, j)
<1>1. /\ b * b \in Nat /\ c * den \in Nat /\ den * den \in Nat
      /\ b * b <= den * den /\ c * den <= den * den
  BY ProductMonotone
<1>2. B \in Nat /\ C \in Nat /\ D \in Nat
  BY <1>1, PowerNat
<1>3. X = C * D /\ M = D * D /\ Power(b, 2 * j) = B /\ Power(den, 2 * j) = M
  <2>1. Power(b, 2 * j) = B /\ Power(den, 2 * j) = M
    BY PowerHalved
  <2>2. X = C * D
    BY PowerOfProduct
  <2>3. M = D * D
    BY PowerOfProduct
  <2> QED
    BY <2>1, <2>2, <2>3
<1>4. den * X <= den * B + j * M
  BY <1>1, PowerDistance
<1>5. out * D <= r * C + j * D
  OBVIOUS
<1> HIDE DEF B, C, D, X, M
<1>6. X \in Nat /\ M \in Nat
  BY <1>2, <1>3
<1>7. r * X <= r * B + j * M
  <2>1. CASE X <= B
    <3>1. r * X <= r * B /\ r * X \in Nat /\ r * B \in Nat /\ j * M \in Nat
      BY <1>2, <1>6, <2>1, ProductMonotone
    <3> QED
      BY <3>1
  <2>2. CASE ~ (X <= B)
    <3>1. PICK y \in Nat : X = B + y
      <4>1. X - B \in Nat /\ X = B + (X - B)
        BY <1>2, <1>6, <2>2
      <4> QED
        BY <4>1
    <3>2. /\ r * X = r * B + r * y /\ den * X = den * B + den * y
          /\ r * y \in Nat /\ den * y \in Nat /\ r * B \in Nat /\ den * B \in Nat
          /\ j * M \in Nat
      BY <1>2, <1>6, <3>1
    <3>3. r * y <= den * y
      BY ProductMonotone
    <3> QED
      BY <1>4, <3>2, <3>3
  <2> QED
    BY <2>1, <2>2
<1>8. (out * D) * D <= (r * C + j * D) * D
  BY <1>2, <1>5, ProductMonotone
<1>9. /\ (out * D) * D = out * M /\ (r * C + j * D) * D = r * X + j * M
      /\ (2 * j) * M = j * M + j * M
      /\ out * M \in Nat /\ r * X \in Nat /\ j * M \in Nat /\ r * B \in Nat
  BY <1>2, <1>3, <1>6
<1>10. out * M <= r * B + (2 * j) * M
  BY <1>7, <1>8, <1>9
<1> QED
  BY <1>3, <1>10

\* A pass over a bit that is set rounds the result once more.
LEMMA OddPassTight ==
  ASSUME NEW den \in Nat, NEW j \in Nat, NEW b \in Nat, NEW c \in Nat, NEW r \in Nat,
         NEW q \in Nat, NEW out \in Nat, b <= den, c <= den, q <= den,
         c * den <= b * b + den, q * den <= r * b + den,
         out * Power(den, j) <= q * Power(c, j) + j * Power(den, j)
  PROVE  out * Power(den, 2 * j + 1)
            <= r * Power(b, 2 * j + 1) + (2 * j + 1) * Power(den, 2 * j + 1)
<1> DEFINE D == Power(den, 2 * j)
           B == Power(b, 2 * j)
           n == 2 * j
<1>1. out * D <= q * B + n * D
  BY EvenPassTight
<1>2. n \in Nat /\ 2 * j + 1 = n + 1
  OBVIOUS
<1>3. /\ B \in Nat /\ D \in Nat /\ B <= D
      /\ Power(b, n + 1) = B * b /\ Power(den, n + 1) = D * den
  BY <1>2, PowerNat, PowerDef, PowerMonotone
<1> HIDE DEF B, D, n
<1>4. (out * D) * den <= (q * B + n * D) * den
  BY <1>1, <1>2, <1>3, ProductMonotone
<1>5. (q * den) * B <= (r * b + den) * B /\ den * B <= den * D
  BY <1>3, ProductMonotone
<1>6. /\ (out * D) * den = out * (D * den)
      /\ (q * B + n * D) * den = (q * den) * B + n * (D * den)
      /\ (r * b + den) * B = r * (B * b) + den * B
      /\ den * D = D * den /\ (n + 1) * (D * den) = n * (D * den) + D * den
  BY <1>2, <1>3
<1>7. /\ out * (D * den) \in Nat /\ (q * den) * B \in Nat /\ n * (D * den) \in Nat
      /\ r * (B * b) \in Nat /\ den * B \in Nat /\ D * den \in Nat
  BY <1>2, <1>3
<1>8. out * (D * den) <= r * (B * b) + (n + 1) * (D * den)
  BY <1>4, <1>5, <1>6, <1>7
<1> QED
  BY <1>2, <1>3, <1>8

\* Over a factor of at most one, the roundings do not compound: the fixed-point
\* power of k ticks is at most k units above the exact one.
THEOREM PowerCeilIsTight ==
  ASSUME NEW num \in Nat, NEW den \in Nat \ {0}, num <= den, NEW k \in Nat
  PROVE  PowerCeil(num, den, k) * Power(den, k)
            <= Power(num, k) * den + k * Power(den, k)
<1>1. PICK loop : IsPowerLoop(loop, den, k)
  BY PowerLoopExists
<1> DEFINE S == {s \in PowerLoop(k) :
                   s.base <= den /\ s.result <= den =>
                     /\ loop[s] \in Nat
                     /\ loop[s] * Power(den, s.remaining)
                          <= s.result * Power(s.base, s.remaining)
                               + s.remaining * Power(den, s.remaining)}
<1>2. \A s \in PowerLoop(k) :
        loop[s] = IF s.remaining = 0 THEN s.result ELSE loop[NextBit(s, den)]
  BY <1>1 DEF IsPowerLoop
<1>3. ASSUME NEW s \in PowerLoop(k), s.remaining = 0 PROVE s \in S
  <2>1. loop[s] = s.result /\ s.result \in Nat /\ s.base \in Nat
    BY <1>2, <1>3 DEF PowerLoop
  <2>2. Power(den, 0) = 1 /\ Power(s.base, 0) = 1
    BY PowerDef
  <2>3. s.result * 1 <= s.result * 1 + 0 * 1
    BY <2>1
  <2> QED
    BY <1>3, <2>1, <2>2, <2>3
<1>4. ASSUME NEW s \in PowerLoop(k), s.remaining # 0, NextBit(s, den) \in S
      PROVE  s \in S
  <2> SUFFICES ASSUME s.base <= den, s.result <= den
               PROVE  /\ loop[s] \in Nat
                      /\ loop[s] * Power(den, s.remaining)
                           <= s.result * Power(s.base, s.remaining)
                                + s.remaining * Power(den, s.remaining)
    OBVIOUS
  <2> DEFINE j == s.remaining \div 2
             c == CeilDiv(s.base * s.base, den)
             q == CeilDiv(s.result * s.base, den)
  <2>1. s.remaining \in Nat /\ s.base \in Nat /\ s.result \in Nat /\ j \in Nat
    BY Halving DEF PowerLoop
  <2>2. /\ s.base * s.base \in Nat /\ s.result * s.base \in Nat
        /\ s.base * s.base <= den * den /\ s.result * s.base <= den * den
    BY <2>1, ProductMonotone
  <2>3. c \in Nat /\ c * den <= s.base * s.base + den - 1 /\ c <= den
    BY <2>2, CeilDivCovers, CeilDivLeast
  <2>4. q \in Nat /\ q * den <= s.result * s.base + den - 1 /\ q <= den
    BY <2>2, CeilDivCovers, CeilDivLeast
  <2>5. loop[s] = loop[NextBit(s, den)] /\ NextBit(s, den).remaining = j
    BY <1>2, <1>4, NextBitTypes
  <2>6. /\ NextBit(s, den).base = c
        /\ NextBit(s, den).result = IF s.remaining % 2 = 1 THEN q ELSE s.result
    BY DEF NextBit
  <2> HIDE DEF c, q, j
  <2>7. /\ loop[s] \in Nat
        /\ loop[s] * Power(den, j)
             <= (IF s.remaining % 2 = 1 THEN q ELSE s.result) * Power(c, j)
                  + j * Power(den, j)
    BY <1>4, <2>1, <2>3, <2>4, <2>5, <2>6
  <2>8. c * den <= s.base * s.base + den /\ q * den <= s.result * s.base + den
    BY <2>2, <2>3, <2>4
  <2>9. CASE s.remaining % 2 = 1
    <3>1. loop[s] * Power(den, j) <= q * Power(c, j) + j * Power(den, j)
      BY <2>7, <2>9
    <3>2. loop[s] * Power(den, 2 * j + 1)
            <= s.result * Power(s.base, 2 * j + 1) + (2 * j + 1) * Power(den, 2 * j + 1)
      BY <2>1, <2>3, <2>4, <2>7, <2>8, <3>1, OddPassTight
    <3>3. s.remaining = 2 * j + 1
      BY <2>1, <2>9, Halving DEF j
    <3> QED
      BY <2>7, <3>2, <3>3
  <2>10. CASE s.remaining % 2 # 1
    <3>1. loop[s] * Power(den, j) <= s.result * Power(c, j) + j * Power(den, j)
      BY <2>7, <2>10
    <3>2. loop[s] * Power(den, 2 * j)
            <= s.result * Power(s.base, 2 * j) + (2 * j) * Power(den, 2 * j)
      BY <2>1, <2>3, <2>7, <2>8, <3>1, EvenPassTight
    <3>3. s.remaining = 2 * j
      BY <2>1, <2>10, Halving DEF j
    <3> QED
      BY <2>7, <3>2, <3>3
  <2> QED
    BY <2>9, <2>10
<1>5. \A s \in PowerLoop(k) : s \in S
  <2> HIDE DEF S
  <2> QED
    BY <1>3, <1>4, LoopInduction
<1> DEFINE start == [remaining |-> k, base |-> num, result |-> den]
<1>6. start \in PowerLoop(k) /\ start.base <= den /\ start.result <= den
  BY DEF PowerLoop
<1>7. PowerCeil(num, den, k) = loop[start]
  BY <1>1, PowerCeilIsLoop
<1>8. loop[start] * Power(den, k) <= den * Power(num, k) + k * Power(den, k)
  BY <1>5, <1>6
<1>9. Power(num, k) \in Nat
  BY PowerNat
<1>10. den * Power(num, k) = Power(num, k) * den
  BY <1>9
<1> HIDE DEF start
<1> QED
  BY <1>7, <1>8, <1>10

-----------------------------------------------------------------------------
\* The least multiple of the grain that covers a/b.
LEMMA QuantizeUpCovers ==
  ASSUME NEW a \in Nat, NEW b \in Nat \ {0}, NEW grain \in Nat \ {0}
  PROVE  QuantizeUp(a, b, grain) \in Nat /\ a <= QuantizeUp(a, b, grain) * b
<1> DEFINE q == CeilDiv(a, b * grain)
<1>1. b * grain \in Nat \ {0}
  OBVIOUS
<1>2. q \in Nat /\ a <= q * (b * grain)
  BY <1>1, CeilDivCovers
<1>3. QuantizeUp(a, b, grain) = q * grain
  BY DEF QuantizeUp
<1> HIDE DEF q
<1>4. q * grain \in Nat /\ q * (b * grain) = (q * grain) * b
  BY <1>2
<1> QED
  BY <1>2, <1>3, <1>4

\* A debt aged in fixed point and rounded up covers what the exact factor
\* leaves of any amount it covered before.
LEMMA AgeingCovers ==
  ASSUME NEW num \in Nat, NEW den \in Nat \ {0}, NEW grain \in Nat \ {0}, NEW k \in Nat,
         NEW d \in Nat, NEW x \in Nat, NEW unit \in Nat, x <= d * unit
  PROVE  /\ QuantizeUp(d * PowerCeil(num, den, k), den, grain) \in Nat
         /\ (x * Power(num, k)) \div Power(den, k) \in Nat
         /\ (x * Power(num, k)) \div Power(den, k)
              <= QuantizeUp(d * PowerCeil(num, den, k), den, grain) * unit
<1> DEFINE F == PowerCeil(num, den, k)
           N == Power(num, k)
           D == Power(den, k)
           aged == QuantizeUp(d * F, den, grain)
<1>1. F \in Nat /\ N \in Nat /\ D \in Nat \ {0} /\ N * den <= F * D
  BY PowerCeilIsConservative, PowerNat
<1> HIDE DEF F, N, D
<1>2. d * F \in Nat
  BY <1>1
<1>3. aged \in Nat /\ d * F <= aged * den
  BY <1>2, QuantizeUpCovers
<1> HIDE DEF aged
<1>4. d * (N * den) <= d * (F * D) /\ (d * F) * D <= (aged * den) * D
  BY <1>1, <1>2, <1>3, ProductMonotone
<1>5. /\ d * (N * den) = (d * N) * den /\ d * (F * D) = (d * F) * D
      /\ (aged * den) * D = (aged * D) * den
      /\ (d * N) * den \in Nat /\ (d * F) * D \in Nat /\ (aged * D) * den \in Nat
      /\ d * N \in Nat /\ aged * D \in Nat
  BY <1>1, <1>3
<1>6. d * N <= aged * D
  <2>1. (d * N) * den <= (aged * D) * den
    BY <1>4, <1>5
  <2> QED
    BY <1>5, <2>1, ProductCancels
<1>7. x * N <= (d * unit) * N /\ (d * N) * unit <= (aged * D) * unit
  BY <1>1, <1>5, <1>6, ProductMonotone
<1>8. /\ (d * unit) * N = (d * N) * unit /\ (aged * D) * unit = (aged * unit) * D
      /\ x * N \in Nat /\ (d * N) * unit \in Nat /\ (aged * unit) * D \in Nat
      /\ aged * unit \in Nat
  BY <1>1, <1>3
<1>9. x * N <= (aged * unit) * D
  BY <1>7, <1>8
<1>10. \A a, m \in Nat, n \in Nat \ {0} : a <= m * n => a \div n \in Nat /\ a \div n <= m
  <2> SUFFICES ASSUME NEW a \in Nat, NEW m \in Nat, NEW n \in Nat \ {0}, a <= m * n
               PROVE  a \div n \in Nat /\ a \div n <= m
    OBVIOUS
  <2>1. a \div n \in Nat /\ (a \div n) * n <= a
    OBVIOUS
  <2>2. (a \div n) * n \in Nat /\ m * n \in Nat
    BY <2>1
  <2>3. (a \div n) * n <= m * n
    BY <2>1, <2>2
  <2> QED
    BY <2>1, <2>3, ProductCancels
<1>11. (x * N) \div D \in Nat /\ (x * N) \div D <= aged * unit
  BY <1>1, <1>8, <1>9, <1>10
<1> QED
  BY <1>3, <1>11 DEF F, N, D, aged
=============================================================================
