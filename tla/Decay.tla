------------------------------- MODULE Decay -------------------------------
(***************************************************************************)
(* The arithmetic of DebtDecayPolicy (sim/accounting.py): a decay factor   *)
(* num/den per tick, raised to the number of ticks in fixed point with     *)
(* every rounding upward, so that ageing never forgives more debt than the *)
(* exact factor would.                                                     *)
(***************************************************************************)
EXTENDS FiniteSums

\* The variables of _fixed_point_power_ceil, with at most k ticks remaining.
PowerLoop(k) == [remaining : 0 .. k, base : Nat, result : Nat]

\* Mutants of NextBit: the product is rounded down; the base is squared before
\* its bit of the exponent is used.
NextBitFloor(s, den) ==
    [remaining |-> s.remaining \div 2,
     base      |-> CeilDiv(s.base * s.base, den),
     result    |-> IF s.remaining % 2 = 1 THEN (s.result * s.base) \div den ELSE s.result]

NextBitSquaredFirst(s, den) ==
    LET base == IF s.remaining > 1 THEN CeilDiv(s.base * s.base, den) ELSE s.base
    IN  [remaining |-> s.remaining \div 2,
         base      |-> base,
         result    |-> IF s.remaining % 2 = 1 THEN CeilDiv(s.result * base, den) ELSE s.result]

\* One pass of the loop: a bit of the exponent, and the square for the next.
\* After the last bit the square is not read; the code leaves it out.
NextBit(s, den) ==
    [remaining |-> s.remaining \div 2,
     base      |-> CeilDiv(s.base * s.base, den),
     result    |-> IF s.remaining % 2 = 1 THEN CeilDiv(s.result * s.base, den) ELSE s.result]

\* _fixed_point_power_ceil: den * (num/den)^k by repeated squaring.
PowerCeil(num, den, k) ==
    LET loop[s \in PowerLoop(k)] ==
            IF s.remaining = 0 THEN s.result ELSE loop[NextBit(s, den)]
    IN  loop[[remaining |-> k, base |-> num, result |-> den]]

\* num^k, the exact power.
Power(num, k) ==
    LET power[i \in 0 .. k] == IF i = 0 THEN 1 ELSE power[i - 1] * num
    IN  power[k]

\* quantize_up: the least multiple of grain that is at least num/den.
QuantizeUp(num, den, grain) == CeilDiv(num, den * grain) * grain
=============================================================================
