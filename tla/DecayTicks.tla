----------------------------- MODULE DecayTicks -----------------------------
(***************************************************************************)
(* A debt that sleeps: under one decay policy, the ticks that have passed  *)
(* since its epoch grow one by one, and at any of them the ledger may age  *)
(* the debt by all of them at once (DebtDecayPolicy.factor_for_elapsed).   *)
(***************************************************************************)
EXTENDS Decay

CONSTANTS MaxDenominator, MaxTicks, MaxDebt

ASSUME TicksAssumption ==
    MaxDenominator \in Nat \ {0} /\ MaxTicks \in Nat /\ MaxDebt \in Nat

VARIABLES num, den, ticks

vars == <<num, den, ticks>>

\* DebtDecayPolicy.__post_init__: a factor above 0 and at most one.
Init ==
    /\ den \in 1 .. MaxDenominator
    /\ num \in 1 .. den
    /\ ticks = 0

Tick ==
    /\ ticks < MaxTicks
    /\ ticks' = ticks + 1
    /\ UNCHANGED <<num, den>>

Spec == Init /\ [][Tick]_vars

-----------------------------------------------------------------------------
\* The factor after the ticks so far, in units of 1/den.
Factor == PowerCeil(num, den, ticks)

\* The debt that is left of d units.
Aged(d) == QuantizeUp(d * Factor, den, 1)

\* Ageing is conservative (the comments of DebtDecayPolicy): no chain of rounded
\* squarings and products falls below the exact power of the factor.
AgeingIsConservative == Factor * Power(den, ticks) >= Power(num, ticks) * den

\* The roundings of the squarings do not compound: after k ticks the factor is
\* at most k units of 1/den above the exact one.
AgeingIsTight ==
    Factor * Power(den, ticks) <= Power(num, ticks) * den + ticks * Power(den, ticks)

\* Ageing never charges: a debt already on the grid stays or shrinks.
AgeingNeverCharges == \A d \in 0 .. MaxDebt : Aged(d) <= d

\* A longer sleep never leaves more debt, although the exponents of neighbouring
\* tick counts take unrelated paths through the squarings.
LongerSleepNeverCostsMore == [][Factor' <= Factor]_vars
=============================================================================
