-------------------------- MODULE DecayTicksProofs --------------------------
(***************************************************************************)
(* What ageing does to a debt, for every decay factor, every denominator   *)
(* (the code's default is 2^64) and any number of ticks.                   *)
(***************************************************************************)
EXTENDS DecayTicks, ArithmeticTheorems

\* A policy's factor is above 0 and at most one (DebtDecayPolicy.__post_init__).
FactorTyped == den \in Nat \ {0} /\ num \in Nat /\ num <= den /\ ticks \in Nat

LEMMA FactorIsTyped == Spec => []FactorTyped
<1>1. Init => FactorTyped
  BY TicksAssumption DEF Init, FactorTyped
<1>2. FactorTyped /\ [Tick]_vars => FactorTyped'
  BY DEF FactorTyped, Tick, vars
<1> QED
  BY <1>1, <1>2, PTL DEF Spec

\* The rounded squarings and products of _fixed_point_power_ceil
\* (accounting.py:978) never fall below the exact power of the factor.
THEOREM AgeingConserves == Spec => []AgeingIsConservative
<1>1. FactorTyped => AgeingIsConservative
  BY PowerCeilIsConservative DEF FactorTyped, AgeingIsConservative, Factor
<1> QED
  BY <1>1, FactorIsTyped, PTL

\* Its roundings add up to at most one unit of 1/den for each tick.
THEOREM AgeingStaysTight == Spec => []AgeingIsTight
<1>1. FactorTyped => AgeingIsTight
  BY PowerCeilIsTight DEF FactorTyped, AgeingIsTight, Factor
<1> QED
  BY <1>1, FactorIsTyped, PTL

\* Rounding the aged debt up to its grid (quantize_up, accounting.py:1066) never
\* makes it more than it was.
THEOREM AgeingChargesNothing == Spec => []AgeingNeverCharges
<1>1. ASSUME FactorTyped PROVE AgeingNeverCharges
  <2> SUFFICES ASSUME NEW d \in 0 .. MaxDebt PROVE Aged(d) <= d
    BY DEF AgeingNeverCharges
  <2>1. d \in Nat /\ den \in Nat \ {0} /\ Factor \in 0 .. den
    BY <1>1, TicksAssumption, PowerCeilBounded DEF FactorTyped, Factor
  <2>2. d * Factor \in Nat /\ d * Factor <= d * den
    BY <2>1, ProductMonotone
  <2>3. CeilDiv(d * Factor, den) \in Nat /\ CeilDiv(d * Factor, den) <= d
    BY <2>1, <2>2, CeilDivLeast, CeilDivCovers
  <2>4. Aged(d) = CeilDiv(d * Factor, den)
    BY <2>1, <2>3 DEF Aged, QuantizeUp
  <2> QED
    BY <2>3, <2>4
<1> QED
  BY <1>1, FactorIsTyped, PTL

\* One more tick of sleep never leaves a larger factor, whichever bits the two
\* exponents have: the loop over an exponent and one more tick is the loop over
\* the exponent that starts from one factor already taken (LoopShifts).
THEOREM SleepNeverCosts == Spec => LongerSleepNeverCostsMore
<1>1. ASSUME FactorTyped, [Tick]_vars PROVE [Factor' <= Factor]_vars
  <2>1. CASE Tick
    <3>1. Factor' = PowerCeil(num, den, ticks + 1)
      BY <2>1 DEF Tick, Factor
    <3> QED
      BY <1>1, <3>1, PowerCeilFalls DEF FactorTyped, Factor
  <2>2. CASE UNCHANGED vars
    BY <2>2
  <2> QED
    BY <1>1, <2>1, <2>2
<1> QED
  BY <1>1, FactorIsTyped, PTL DEF Spec, LongerSleepNeverCostsMore
=============================================================================
