----------------------------- MODULE DualLedger -----------------------------
(***************************************************************************)
(* The resource-debt ledger of sim/accounting.py on top of the canonical   *)
(* one: account_dual_ledger_quantum ages every active tenant's debt over   *)
(* the wall-clock time since its epoch, adds what the quantum used, takes  *)
(* off the tenant's share of the quantum, and then runs the canonical      *)
(* accounting of FairAccounting on the state this leaves.                  *)
(*                                                                         *)
(* Debts are in fair units (1/Scale ns) and multiples of Grain, the unit   *)
(* 1/debt_scale_denominator ns.                                            *)
(***************************************************************************)
EXTENDS FairAccounting, Decay

CONSTANTS
    Components,   \* the components of a ResourceTimeVector
    Usages,       \* the normalized usages of one component, in fair units
    TickNs,       \* DebtDecayPolicy.tick_ns
    FactorNum,    \* DebtDecayPolicy.factor_numerator
    FactorDen,    \* DebtDecayPolicy.factor_denominator
    Grain         \* fair units in one unit of debt

ASSUME DecayAssumption ==
    /\ TickNs \in Nat \ {0} /\ Grain \in Nat \ {0}
    /\ FactorDen \in Nat \ {0} /\ FactorNum \in 1 .. FactorDen
    /\ Usages \subseteq Nat /\ 0 \in Usages

VARIABLES
    debt,        \* TenantLedger.resource_debt
    remainder,   \* TenantLedger.resource_decay_remainder_ns
    updated,     \* TenantLedger.resource_debt_updated_ns
    born,        \* history: the finish of the quantum that last made a debt of none
    agedTicks,   \* history: the ticks this debt was aged by since
    exactDebt    \* history: the debt without any rounding, in 1/ExactScale

ledgerVars == <<debt, remainder, updated>>
historyVars == <<born, agedTicks, exactDebt>>
dualVars == <<vars, ledgerVars, historyVars>>

NoDebt == [c \in Components |-> 0]

\* The ticks a run can age a debt by, and a unit that keeps them all exact.
ExactScale == Power(FactorDen, MaxTime \div TickNs)

DualInit ==
    /\ Init
    /\ debt = [t \in Tenants |-> NoDebt]
    /\ remainder = [t \in Tenants |-> 0]
    /\ updated = [t \in Tenants |-> Never]
    /\ born = [t \in Tenants |-> Never]
    /\ agedTicks = [t \in Tenants |-> 0]
    /\ exactDebt = [t \in Tenants |-> NoDebt]

-----------------------------------------------------------------------------
\* Mutant of DecayWindow: the part of a tick that is left over is dropped.
WindowWithoutRemainder(t, finish) == IF debt[t] = NoDebt THEN 0 ELSE finish - updated[t]

\* The time a debt has aged by at the end of a quantum, with the part of a tick
\* carried over; no debt, nothing to age.
DecayWindow(t, finish) ==
    IF debt[t] = NoDebt THEN 0 ELSE finish - updated[t] + remainder[t]

TicksOf(t, finish) == DecayWindow(t, finish) \div TickNs

\* resource_entitlement: a share of the quantum's time by weight, for every
\* component alike.
Entitlement(t, elapsed) == elapsed * Weight[t] * (Scale \div WeightOf(active))

\* Mutants of DebtAfter: the share may leave a credit; the aged debt is rounded
\* down.
DebtUnfloored(t, c, used, elapsed, k) ==
    LET aged == QuantizeUp(debt[t][c] * PowerCeil(FactorNum, FactorDen, k), FactorDen, Grain)
    IN  QuantizeUp(aged + used - Entitlement(t, elapsed), 1, Grain)

DebtRoundedDown(t, c, used, elapsed, k) ==
    LET aged == ((debt[t][c] * PowerCeil(FactorNum, FactorDen, k)) \div (FactorDen * Grain)) * Grain
    IN  QuantizeUp(MaxOf(0, aged + used - Entitlement(t, elapsed)), 1, Grain)

\* update_resource_debt on one component: age, charge, take off the share.
DebtAfter(t, c, used, elapsed, k) ==
    LET aged == QuantizeUp(debt[t][c] * PowerCeil(FactorNum, FactorDen, k), FactorDen, Grain)
    IN  QuantizeUp(MaxOf(0, aged + used - Entitlement(t, elapsed)), 1, Grain)

\* The same without rounding.
ExactDebtAfter(t, c, used, elapsed, k) ==
    MaxOf(0, (exactDebt[t][c] * Power(FactorNum, k)) \div Power(FactorDen, k)
                + (used - Entitlement(t, elapsed)) * ExactScale)

\* account_quantum_resource_usage: every tenant active at the start of the
\* quantum is updated, the one that used nothing too.
AccountResources(used, start, finish) ==
    /\ debt' = [t \in Tenants |-> IF t \notin active THEN debt[t] ELSE
                  [c \in Components |->
                     DebtAfter(t, c, used[t][c], finish - start, TicksOf(t, finish))]]
    /\ remainder' = [t \in Tenants |-> IF t \notin active THEN remainder[t]
                                       ELSE DecayWindow(t, finish) % TickNs]
    /\ updated' = [t \in Tenants |-> IF t \in active THEN finish ELSE updated[t]]
    /\ born' = [t \in Tenants |-> IF t \in active /\ debt[t] = NoDebt THEN finish ELSE born[t]]
    /\ agedTicks' = [t \in Tenants |->
                       IF t \notin active THEN agedTicks[t]
                       ELSE IF debt[t] = NoDebt THEN 0
                       ELSE agedTicks[t] + TicksOf(t, finish)]
    /\ exactDebt' = [t \in Tenants |-> IF t \notin active THEN exactDebt[t] ELSE
                       [c \in Components |->
                          ExactDebtAfter(t, c, used[t][c], finish - start, TicksOf(t, finish))]]

\* validate_quantum_result: the action A allocates runnable requests of active
\* tenants, only they complete steps, exactly their tenants use resources, and
\* the quantum starts after everything the ledgers know of its active tenants.
ValidQuantum(A, n, used, start, finish) ==
    /\ \A r \in A : status[r] = "runnable" /\ Owner[r] \in active
    /\ \A r \in Requests : n[r] > 0 => r \in A
    /\ \A t \in Tenants : used[t] # NoDebt => \E r \in A : Owner[r] = t
    /\ A # {} => start < finish
    /\ \A t \in active : start >= lastActive[t] /\ start >= updated[t]
    /\ \A r \in Requests : status[r] \in NonTerminal =>
          start >= arrival[r] /\ start >= lastProgress[r]

\* account_dual_ledger_quantum: both phases or neither.
AccountDualQuantum(A, n, used, start, finish) ==
    /\ ValidQuantum(A, n, used, start, finish)
    /\ AccountResources(used, start, finish)
    /\ AccountQuantum(n, finish)

\* The ledger operations that leave the debts alone.
CanonicalOnly ==
    /\ \/ \E t \in Tenants : RegisterTenant(t)
       \/ \E r \in Requests, s \in NonTerminal \cup {"rejected"}, at \in Instants :
             RegisterRequest(r, s, at)
       \/ \E r \in Requests, at \in Instants : RejectRequest(r, at)
       \/ \E r \in Requests, s \in NonTerminal : Reschedule(r, s)
    /\ UNCHANGED <<ledgerVars, historyVars>>

DualNext ==
    \/ CanonicalOnly
    \/ \E A \in SUBSET Requests, n \in Progress, start \in Instants, finish \in Instants :
          \E used \in [Tenants -> [Components -> Usages]] :
             start <= finish /\ AccountDualQuantum(A, n, used, start, finish)

DualSpec == DualInit /\ [][DualNext]_dualVars

-----------------------------------------------------------------------------
DualTypeOK ==
    /\ TypeOK
    /\ debt \in [Tenants -> [Components -> Nat]]
    /\ remainder \in [Tenants -> 0 .. TickNs - 1]
    /\ updated \in [Tenants -> Nat \cup {Never}]
    /\ born \in [Tenants -> Nat \cup {Never}]
    /\ agedTicks \in [Tenants -> Nat]
    /\ exactDebt \in [Tenants -> [Components -> Nat]]

\* Lazy ageing loses no time and counts none twice: across sleeps, wakes and
\* quanta of any length, a debt has been aged by every full tick since the
\* quantum that made it, and the rest of the time is in the remainder.
NoDecayTimeLost ==
    \A t \in Tenants :
        /\ updated[t] <= now
        /\ debt[t] # NoDebt =>
              updated[t] - born[t] = agedTicks[t] * TickNs + remainder[t]

\* Rounding never forgives: through any sequence of agings, charges and shares,
\* the kept debt is at least what exact arithmetic would leave.
RoundingNeverForgives ==
    \A t \in Tenants, c \in Components : debt[t][c] * ExactScale >= exactDebt[t][c]
=============================================================================
