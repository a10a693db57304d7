-------------------------- MODULE DualLedgerProofs --------------------------
(***************************************************************************)
(* The dual ledger runs the canonical one; its lazy ageing loses no        *)
(* wall-clock time; and it never keeps less debt than exact arithmetic     *)
(* would, which is computed without any rounding.  For every tick, factor, *)
(* debt grid, usage and number of tenants.                                 *)
(***************************************************************************)
EXTENDS DualLedger, FairAccountingProofs

\* account_dual_ledger_quantum (accounting.py:1952) adds debts to the canonical
\* accounting and changes nothing of it: every behaviour of the dual ledger is
\* one of the canonical ledger, and has its proved properties.
THEOREM DualImplementsFair == DualSpec => Spec
<1>1. DualInit => Init
  BY DEF DualInit
<1>2. [DualNext]_dualVars => [Next]_vars
  BY DEF DualNext, CanonicalOnly, AccountDualQuantum, Next, dualVars
<1> QED
  BY <1>1, <1>2, PTL DEF DualSpec, Spec

-----------------------------------------------------------------------------
\* The ledger's epoch, remainder and history are naturals or unset, and a debt
\* has an epoch (TenantLedger.__post_init__, model.py:1396).
EpochsTyped ==
    \A t \in Tenants :
        /\ updated[t] \in Nat \cup {Never}
        /\ born[t] \in Nat \cup {Never}
        /\ agedTicks[t] \in Nat
        /\ remainder[t] \in 0 .. TickNs - 1
        /\ debt[t] # NoDebt => updated[t] # Never

\* A window of time is its full ticks and a rest smaller than a tick.
LEMMA TickDivision ==
  ASSUME NEW w \in Nat
  PROVE  /\ w \div TickNs \in Nat /\ w % TickNs \in 0 .. TickNs - 1
         /\ w = (w \div TickNs) * TickNs + (w % TickNs)
<1>1. TickNs \in Nat \ {0}
  BY DecayAssumption
<1>2. w = TickNs * (w \div TickNs) + (w % TickNs) /\ w \div TickNs \in Nat
      /\ w % TickNs \in 0 .. TickNs - 1
  BY <1>1
<1>3. \A a, b \in Nat : a * b = b * a
  OBVIOUS
<1> QED
  BY <1>1, <1>2, <1>3

\* A quantum dates every active tenant's debt, and ages it by the ticks of its
\* window.
LEMMA EpochQuantum ==
  ASSUME TypeOK, EpochsTyped, NoDecayTimeLost,
         NEW used, NEW start \in Instants, NEW finish \in Instants, start <= finish,
         \A t \in active : start >= updated[t],
         AccountResources(used, start, finish), now' = finish
  PROVE  EpochsTyped' /\ NoDecayTimeLost'
<1>1. /\ start \in Nat /\ finish \in Nat /\ now \in Nat
      /\ now <= finish /\ finish # Never
      /\ active \subseteq Tenants
  BY InstantsAreLater DEF TypeOK
<1> SUFFICES ASSUME NEW t \in Tenants
             PROVE  /\ updated'[t] \in Nat \cup {Never} /\ born'[t] \in Nat \cup {Never}
                    /\ agedTicks'[t] \in Nat /\ remainder'[t] \in 0 .. TickNs - 1
                    /\ debt'[t] # NoDebt => updated'[t] # Never
                    /\ updated'[t] <= now'
                    /\ debt'[t] # NoDebt =>
                          updated'[t] - born'[t] = agedTicks'[t] * TickNs + remainder'[t]
  BY DEF EpochsTyped, NoDecayTimeLost, NoDebt
<1>2. /\ updated[t] \in Nat \cup {Never} /\ born[t] \in Nat \cup {Never}
      /\ agedTicks[t] \in Nat /\ remainder[t] \in 0 .. TickNs - 1
      /\ debt[t] # NoDebt => updated[t] # Never
      /\ updated[t] <= now
      /\ debt[t] # NoDebt => updated[t] - born[t] = agedTicks[t] * TickNs + remainder[t]
  BY DEF EpochsTyped, NoDecayTimeLost
<1>3. TickNs \in Nat \ {0} /\ Never \notin Nat
  BY DecayAssumption DEF Never
<1>4. CASE t \notin active
  <2>1. /\ debt'[t] = debt[t] /\ remainder'[t] = remainder[t] /\ updated'[t] = updated[t]
        /\ born'[t] = born[t] /\ agedTicks'[t] = agedTicks[t]
    BY <1>4 DEF AccountResources
  <2>2. updated[t] <= finish
    BY <1>1, <1>2, <1>3 DEF Never
  <2> QED
    BY <1>1, <1>2, <2>1, <2>2
<1>5. CASE t \in active /\ debt[t] = NoDebt
  <2>1. DecayWindow(t, finish) = 0
    BY <1>5 DEF DecayWindow
  <2>2. /\ remainder'[t] = 0 % TickNs
        /\ updated'[t] = finish /\ born'[t] = finish /\ agedTicks'[t] = 0
    BY <1>5, <2>1 DEF AccountResources
  <2>3. 0 % TickNs = 0 /\ 0 * TickNs = 0
    BY <1>3
  <2> QED
    BY <1>1, <1>3, <2>2, <2>3
<1>6. CASE t \in active /\ debt[t] # NoDebt
  <2> DEFINE window == finish - updated[t] + remainder[t]
  <2>1. window \in Nat /\ updated[t] \in Nat
    BY <1>1, <1>2, <1>3, <1>6
  <2>2. DecayWindow(t, finish) = window
    BY <1>6 DEF DecayWindow
  <2>3. /\ remainder'[t] = window % TickNs
        /\ updated'[t] = finish /\ born'[t] = born[t]
        /\ agedTicks'[t] = agedTicks[t] + window \div TickNs
    BY <1>6, <2>2 DEF AccountResources, TicksOf
  <2>4. /\ window \div TickNs \in Nat /\ window % TickNs \in 0 .. TickNs - 1
        /\ window = (window \div TickNs) * TickNs + (window % TickNs)
    BY <2>1, TickDivision
  <2>5. /\ (agedTicks[t] + window \div TickNs) * TickNs
              = agedTicks[t] * TickNs + (window \div TickNs) * TickNs
        /\ agedTicks[t] * TickNs \in Nat /\ (window \div TickNs) * TickNs \in Nat
    <3>1. \A a, b, k \in Nat : (a + b) * k = a * k + b * k /\ a * k \in Nat /\ b * k \in Nat
      OBVIOUS
    <3> QED
      BY <1>2, <1>3, <2>4, <3>1
  <2>6. window = finish - updated[t] + remainder[t]
    OBVIOUS
  <2> HIDE DEF window
  <2>7. finish - born[t]
          = (agedTicks[t] + window \div TickNs) * TickNs + (window % TickNs)
    <3>1. born[t] \in Int /\ updated[t] - born[t] = agedTicks[t] * TickNs + remainder[t]
      BY <1>2, <1>6 DEF Never
    <3> QED
      BY <1>1, <1>2, <2>1, <2>4, <2>5, <2>6, <3>1
  <2> QED
    BY <1>1, <1>2, <1>3, <2>3, <2>4, <2>7
<1> QED
  BY <1>4, <1>5, <1>6

\* Every step keeps the epochs and loses no time.
LEMMA EpochStep ==
  ASSUME TypeOK, EpochsTyped, NoDecayTimeLost, [DualNext]_dualVars
  PROVE  EpochsTyped' /\ NoDecayTimeLost'
<1>1. ASSUME CanonicalOnly PROVE EpochsTyped' /\ NoDecayTimeLost'
  <2>1. UNCHANGED <<ledgerVars, historyVars>> /\ now' \in Nat /\ now <= now'
    BY <1>1, InstantsAreLater
    DEF CanonicalOnly, RegisterTenant, RegisterRequest, RejectRequest, Reschedule, TypeOK
  <2>2. \A t \in Tenants : updated[t] <= now'
    BY <2>1 DEF NoDecayTimeLost, EpochsTyped, TypeOK, Never
  <2> QED
    BY <2>1, <2>2 DEF EpochsTyped, NoDecayTimeLost, ledgerVars, historyVars
<1>2. ASSUME NEW A \in SUBSET Requests, NEW n \in Progress,
             NEW start \in Instants, NEW finish \in Instants,
             NEW used \in [Tenants -> [Components -> Usages]],
             start <= finish, AccountDualQuantum(A, n, used, start, finish)
      PROVE  EpochsTyped' /\ NoDecayTimeLost'
  <2>1. /\ AccountResources(used, start, finish)
        /\ \A t \in active : start >= updated[t]
        /\ now' = finish
    BY <1>2 DEF AccountDualQuantum, ValidQuantum, AccountQuantum
  <2> QED
    BY <1>2, <2>1, EpochQuantum
<1>3. CASE UNCHANGED dualVars
  BY <1>3 DEF dualVars, vars, ledgerVars, historyVars, EpochsTyped, NoDecayTimeLost
<1> QED
  BY <1>1, <1>2, <1>3 DEF DualNext

\* The lazy ageing of account_quantum_resource_usage (accounting.py:1507-1534)
\* ages a debt by all the time since it arose, to the tick, and by no more.
THEOREM AgeingIsExact == DualSpec => []NoDecayTimeLost
<1>1. DualInit => EpochsTyped /\ NoDecayTimeLost
  BY DecayAssumption
  DEF DualInit, Init, EpochsTyped, NoDecayTimeLost, NoDebt, Never
<1> QED
  BY <1>1, EpochStep, DualImplementsFair, TypeInvariant, PTL DEF DualSpec

-----------------------------------------------------------------------------
\* The unit of the exact history is a natural.
LEMMA ScaleIsNatural == ExactScale \in Nat
<1>1. MaxTime \div TickNs \in Nat
  BY SizeAssumption, DecayAssumption
<1> QED
  BY <1>1, DecayAssumption, PowerNat DEF ExactScale

\* The share of an active tenant is a natural.
LEMMA EntitlementIsNatural ==
  ASSUME TypeOK, NEW t \in active, NEW elapsed \in Nat
  PROVE  Entitlement(t, elapsed) \in Nat
<1>1. t \in Tenants /\ active \in SUBSET Tenants /\ active # {}
  BY DEF TypeOK
<1>2. Scale \div WeightOf(active) \in Nat /\ Weight[t] \in Nat
  BY <1>1, ScaleDivides, PolicyAssumption
<1> QED
  BY <1>2 DEF Entitlement

\* One component of one active tenant: the debt a quantum leaves is a natural,
\* and covers what exact arithmetic leaves of the same history.
LEMMA DebtCovers ==
  ASSUME NEW t, NEW c, NEW used \in Nat, NEW elapsed, NEW k \in Nat,
         Entitlement(t, elapsed) \in Nat,
         debt[t][c] \in Nat, exactDebt[t][c] \in Nat,
         debt[t][c] * ExactScale >= exactDebt[t][c]
  PROVE  /\ DebtAfter(t, c, used, elapsed, k) \in Nat
         /\ ExactDebtAfter(t, c, used, elapsed, k) \in Nat
         /\ DebtAfter(t, c, used, elapsed, k) * ExactScale
              >= ExactDebtAfter(t, c, used, elapsed, k)
<1> DEFINE aged == QuantizeUp(debt[t][c] * PowerCeil(FactorNum, FactorDen, k),
                              FactorDen, Grain)
           left == (exactDebt[t][c] * Power(FactorNum, k)) \div Power(FactorDen, k)
           share == Entitlement(t, elapsed)
           kept == MaxOf(0, aged + used - share)
           S == ExactScale
<1>1. S \in Nat
  BY ScaleIsNatural
<1>2. /\ FactorNum \in Nat /\ FactorDen \in Nat \ {0} /\ Grain \in Nat \ {0}
      /\ exactDebt[t][c] <= debt[t][c] * S
  BY <1>1, DecayAssumption
<1>3. aged \in Nat /\ left \in Nat /\ left <= aged * S
  BY <1>1, <1>2, AgeingCovers
<1>4. /\ DebtAfter(t, c, used, elapsed, k) = QuantizeUp(kept, 1, Grain)
      /\ ExactDebtAfter(t, c, used, elapsed, k) = MaxOf(0, left + (used - share) * S)
  BY DEF DebtAfter, ExactDebtAfter
<1> HIDE DEF aged, left, share, S
<1>5. kept \in Nat /\ aged + used - share <= kept
  BY <1>3 DEF MaxOf, share
<1> HIDE DEF kept
<1>6. QuantizeUp(kept, 1, Grain) \in Nat /\ kept <= QuantizeUp(kept, 1, Grain)
  <2>1. QuantizeUp(kept, 1, Grain) \in Nat /\ kept <= QuantizeUp(kept, 1, Grain) * 1
    BY <1>2, <1>5, QuantizeUpCovers
  <2> QED
    BY <2>1
<1>7. left + (used - share) * S <= kept * S
  <2>1. share \in Nat
    BY DEF share
  <2>2. (aged + used - share) * S = aged * S + (used - share) * S
    BY <1>1, <1>3, <2>1
  <2>3. \A x, y \in Int, z \in Nat : x <= y => x * z <= y * z
    OBVIOUS
  <2>4. (aged + used - share) * S <= kept * S
    BY <1>1, <1>3, <1>5, <2>1, <2>3
  <2>5. aged * S \in Nat /\ (used - share) * S \in Int /\ kept * S \in Nat
    BY <1>1, <1>3, <1>5, <2>1
  <2> QED
    BY <1>3, <2>2, <2>4, <2>5
<1>8. kept * S <= QuantizeUp(kept, 1, Grain) * S /\ kept * S \in Nat
      /\ QuantizeUp(kept, 1, Grain) * S \in Nat
  BY <1>1, <1>5, <1>6, ProductMonotone
<1>9. left + (used - share) * S \in Int
  BY <1>1, <1>3 DEF share
<1>10. /\ MaxOf(0, left + (used - share) * S) \in Nat
       /\ MaxOf(0, left + (used - share) * S) <= QuantizeUp(kept, 1, Grain) * S
  BY <1>7, <1>8, <1>9 DEF MaxOf
<1> QED
  BY <1>4, <1>6, <1>10 DEF S

\* The window a debt ages over is a natural number of nanoseconds.
LEMMA TicksAreNatural ==
  ASSUME TypeOK, EpochsTyped, NEW t \in active, NEW start \in Instants, NEW finish \in Instants,
         start <= finish, start >= updated[t]
  PROVE  TicksOf(t, finish) \in Nat
<1>1. t \in Tenants /\ start \in Nat /\ finish \in Nat
  BY InstantsAreLater DEF TypeOK
<1>2. /\ updated[t] \in Nat \cup {Never} /\ remainder[t] \in Nat
      /\ debt[t] # NoDebt => updated[t] # Never
  BY <1>1, DecayAssumption DEF EpochsTyped
<1>3. DecayWindow(t, finish) \in Nat
  BY <1>1, <1>2 DEF DecayWindow
<1> QED
  BY <1>3, TickDivision DEF TicksOf

\* A quantum keeps every debt above its exact history.
LEMMA DebtQuantum ==
  ASSUME TypeOK, EpochsTyped, DualTypeOK, RoundingNeverForgives,
         NEW used \in [Tenants -> [Components -> Usages]],
         NEW start \in Instants, NEW finish \in Instants, start <= finish,
         \A t \in active : start >= updated[t],
         AccountResources(used, start, finish)
  PROVE  /\ debt' \in [Tenants -> [Components -> Nat]]
         /\ exactDebt' \in [Tenants -> [Components -> Nat]]
         /\ RoundingNeverForgives'
<1>1. ASSUME NEW t \in active, NEW c \in Components
      PROVE  /\ DebtAfter(t, c, used[t][c], finish - start, TicksOf(t, finish)) \in Nat
             /\ ExactDebtAfter(t, c, used[t][c], finish - start, TicksOf(t, finish)) \in Nat
             /\ DebtAfter(t, c, used[t][c], finish - start, TicksOf(t, finish)) * ExactScale
                  >= ExactDebtAfter(t, c, used[t][c], finish - start, TicksOf(t, finish))
  <2>1. t \in Tenants /\ start \in Nat /\ finish \in Nat /\ finish - start \in Nat
    BY InstantsAreLater DEF TypeOK
  <2>2. used[t][c] \in Nat
    BY <2>1, DecayAssumption
  <2>3. TicksOf(t, finish) \in Nat
    BY TicksAreNatural
  <2>4. Entitlement(t, finish - start) \in Nat
    BY <2>1, EntitlementIsNatural
  <2>5. /\ debt[t][c] \in Nat /\ exactDebt[t][c] \in Nat
        /\ debt[t][c] * ExactScale >= exactDebt[t][c]
    BY <2>1 DEF DualTypeOK, RoundingNeverForgives
  <2> QED
    BY <2>2, <2>3, <2>4, <2>5, DebtCovers
<1>2. debt' = [t \in Tenants |-> IF t \notin active THEN debt[t] ELSE
                 [c \in Components |->
                    DebtAfter(t, c, used[t][c], finish - start, TicksOf(t, finish))]]
  BY DEF AccountResources
<1>3. exactDebt' = [t \in Tenants |-> IF t \notin active THEN exactDebt[t] ELSE
                 [c \in Components |->
                    ExactDebtAfter(t, c, used[t][c], finish - start, TicksOf(t, finish))]]
  BY DEF AccountResources
<1>4. ASSUME NEW t \in Tenants
      PROVE  /\ debt'[t] \in [Components -> Nat]
             /\ exactDebt'[t] \in [Components -> Nat]
             /\ \A c \in Components : debt'[t][c] * ExactScale >= exactDebt'[t][c]
  <2>1. CASE t \notin active
    <3>1. debt'[t] = debt[t] /\ exactDebt'[t] = exactDebt[t]
      BY <1>2, <1>3, <2>1
    <3> QED
      BY <3>1 DEF DualTypeOK, RoundingNeverForgives
  <2>2. CASE t \in active
    <3>1. /\ debt'[t] = [c \in Components |->
                 DebtAfter(t, c, used[t][c], finish - start, TicksOf(t, finish))]
          /\ exactDebt'[t] = [c \in Components |->
                 ExactDebtAfter(t, c, used[t][c], finish - start, TicksOf(t, finish))]
      BY <1>2, <1>3, <2>2
    <3> QED
      BY <1>1, <2>2, <3>1
  <2> QED
    BY <2>1, <2>2
<1>5. debt' \in [Tenants -> [Components -> Nat]]
  BY <1>2, <1>4
<1>6. exactDebt' \in [Tenants -> [Components -> Nat]]
  BY <1>3, <1>4
<1>7. ExactScale' = ExactScale
  BY DEF ExactScale
<1> QED
  BY <1>4, <1>5, <1>6, <1>7 DEF RoundingNeverForgives

\* Every step keeps the types and forgives nothing.
LEMMA DebtStep ==
  ASSUME TypeOK, TypeOK', EpochsTyped, EpochsTyped', DualTypeOK, RoundingNeverForgives,
         [DualNext]_dualVars
  PROVE  DualTypeOK' /\ RoundingNeverForgives'
<1>1. ASSUME UNCHANGED <<ledgerVars, historyVars>>
      PROVE  DualTypeOK' /\ RoundingNeverForgives'
  BY <1>1 DEF ledgerVars, historyVars, DualTypeOK, RoundingNeverForgives, ExactScale
<1>2. CASE CanonicalOnly
  BY <1>1, <1>2 DEF CanonicalOnly
<1>3. ASSUME NEW A \in SUBSET Requests, NEW n \in Progress,
             NEW start \in Instants, NEW finish \in Instants,
             NEW used \in [Tenants -> [Components -> Usages]],
             start <= finish, AccountDualQuantum(A, n, used, start, finish)
      PROVE  DualTypeOK' /\ RoundingNeverForgives'
  <2>1. AccountResources(used, start, finish) /\ \A t \in active : start >= updated[t]
    BY <1>3 DEF AccountDualQuantum, ValidQuantum
  <2>2. /\ debt' \in [Tenants -> [Components -> Nat]]
        /\ exactDebt' \in [Tenants -> [Components -> Nat]]
        /\ RoundingNeverForgives'
    BY <1>3, <2>1, DebtQuantum
  <2>3. /\ remainder' \in [Tenants -> 0 .. TickNs - 1]
        /\ updated' \in [Tenants -> Nat \cup {Never}]
        /\ born' \in [Tenants -> Nat \cup {Never}]
        /\ agedTicks' \in [Tenants -> Nat]
    BY <2>1 DEF AccountResources, EpochsTyped
  <2> QED
    BY <2>2, <2>3 DEF DualTypeOK
<1>4. CASE UNCHANGED dualVars
  BY <1>1, <1>4 DEF dualVars
<1> QED
  BY <1>2, <1>3, <1>4 DEF DualNext

\* Everything the ledger's steps need of each other.
LEMMA LedgerInvariant ==
  DualSpec => [](EpochsTyped /\ NoDecayTimeLost /\ DualTypeOK /\ RoundingNeverForgives)
<1>1. DualInit => EpochsTyped /\ NoDecayTimeLost
  BY DecayAssumption
  DEF DualInit, Init, EpochsTyped, NoDecayTimeLost, NoDebt, Never
<1>2. ASSUME DualInit, TypeOK PROVE DualTypeOK /\ RoundingNeverForgives
  <2>1. \A t \in Tenants, c \in Components : debt[t][c] = 0 /\ exactDebt[t][c] = 0
    BY <1>2 DEF DualInit, NoDebt
  <2>2. RoundingNeverForgives
    BY <2>1, ScaleIsNatural DEF RoundingNeverForgives
  <2>3. 0 \in 0 .. TickNs - 1
    BY DecayAssumption
  <2> QED
    BY <1>2, <2>2, <2>3 DEF DualInit, DualTypeOK, NoDebt
<1> QED
  BY <1>1, <1>2, EpochStep, DebtStep, DualImplementsFair, TypeInvariant, PTL DEF DualSpec

\* The types of TenantLedger (model.py:1396): debts and epochs never go below
\* zero, and the carried remainder is less than a tick.
THEOREM DualTypes == DualSpec => []DualTypeOK
BY LedgerInvariant, PTL

\* The comments of DebtDecayPolicy promise a conservative approximation: ageing
\* by the rounded factor, rounding to the debt grid and taking off the share
\* (update_resource_debt) leave, after any history, no less than exact
\* arithmetic would.
THEOREM NothingForgiven == DualSpec => []RoundingNeverForgives
BY LedgerInvariant, PTL
-----------------------------------------------------------------------------
(* The exact history is exact: none of its divisions leaves a remainder.   *)

\* The division of ExactDebtAfter is exact, at whatever instant the next quantum
\* ends.
HistoryIsExact ==
    \A t \in active, finish \in Instants, c \in Components :
        finish >= updated[t] =>
            LET k == TicksOf(t, finish)
            IN  (exactDebt[t][c] * Power(FactorNum, k)) % Power(FactorDen, k) = 0

\* The ticks a run can still age the debt of t by, as a unit of that debt.
UnitLeft(t) == Power(FactorDen, MaxTime \div TickNs - agedTicks[t])

\* HistoryIsExact made inductive: a debt is a multiple of that unit.
WholeUnits ==
    \A t \in Tenants :
        debt[t] # NoDebt =>
            /\ born[t] # Never
            /\ agedTicks[t] <= MaxTime \div TickNs
            /\ \A c \in Components : \E m \in Nat : exactDebt[t][c] = m * UnitLeft(t)

\* The power of a sum of exponents.
LEMMA PowerOfSum ==
  ASSUME NEW a \in Nat, NEW i \in Nat
  PROVE  \A k \in Nat : Power(a, i + k) = Power(a, i) * Power(a, k)
<1> DEFINE S == {k \in Nat : Power(a, i + k) = Power(a, i) * Power(a, k)}
<1>1. 0 \in S
  <2>1. Power(a, i) \in Nat /\ Power(a, 0) = 1 /\ i + 0 = i
    BY PowerNat, PowerDef
  <2> QED
    BY <2>1
<1>2. ASSUME NEW k \in S PROVE k + 1 \in S
  <2>1. i + k \in Nat /\ i + (k + 1) = (i + k) + 1
    OBVIOUS
  <2>2. Power(a, (i + k) + 1) = Power(a, i + k) * a /\ Power(a, k + 1) = Power(a, k) * a
    BY <2>1, PowerDef
  <2>3. Power(a, i) \in Nat /\ Power(a, k) \in Nat
    BY PowerNat
  <2>4. \A x, y, z \in Nat : (x * y) * z = x * (y * z)
    OBVIOUS
  <2> QED
    BY <2>1, <2>2, <2>3, <2>4
<1>3. \A k \in Nat : k \in S
  <2>1. S \in SUBSET Nat
    OBVIOUS
  <2> HIDE DEF S
  <2> QED
    BY <1>1, <1>2, <2>1, NatSetInduction
<1> QED
  BY <1>3

\* A multiple divides without a remainder.
LEMMA MultipleDivides ==
  ASSUME NEW m \in Nat, NEW b \in Nat \ {0}
  PROVE  (m * b) % b = 0 /\ (m * b) \div b = m
<1> DEFINE q == (m * b) \div b
           r == (m * b) % b
<1>1. m * b \in Nat
  OBVIOUS
<1>2. q \in Nat /\ r \in 0 .. b - 1 /\ m * b = b * q + r
  <2>1. \A a \in Nat : /\ a \div b \in Nat /\ a % b \in 0 .. b - 1
                       /\ a = b * (a \div b) + (a % b)
    OBVIOUS
  <2> QED
    BY <1>1, <2>1
<1> HIDE DEF q, r
<1>3. q = m
  <2>1. \A x, y \in Nat : x + 1 <= y => x * b + b <= y * b
    <3>1. \A x, y \in Nat : x <= y => x * b <= y * b
      OBVIOUS
    <3>2. \A x \in Nat : (x + 1) * b = x * b + b
      OBVIOUS
    <3> QED
      BY <3>1, <3>2
  <2>2. b * q = q * b /\ q * b \in Nat
    BY <1>2
  <2>3. ASSUME q + 1 <= m PROVE FALSE
    BY <1>1, <1>2, <2>1, <2>2, <2>3
  <2>4. ASSUME m + 1 <= q PROVE FALSE
    BY <1>1, <1>2, <2>1, <2>2, <2>4
  <2> QED
    BY <1>2, <2>3, <2>4
<1>4. r = 0
  BY <1>1, <1>2, <1>3
<1> QED
  BY <1>3, <1>4 DEF q, r

\* A debt has been aged by no more ticks than the run has.
LEMMA TicksFitRun ==
  ASSUME TypeOK, EpochsTyped, NoDecayTimeLost, WholeUnits,
         NEW t \in active, NEW finish \in Instants, finish >= updated[t], debt[t] # NoDebt
  PROVE  /\ TicksOf(t, finish) \in Nat
         /\ agedTicks[t] + TicksOf(t, finish) <= MaxTime \div TickNs
<1> DEFINE w == finish - updated[t] + remainder[t]
           k == w \div TickNs
<1>1. t \in Tenants /\ finish \in Nat /\ finish <= MaxTime /\ MaxTime \in Nat
  BY SizeAssumption, InstantsAreLater DEF TypeOK, Instants
<1>2. /\ updated[t] \in Nat /\ remainder[t] \in Nat /\ born[t] \in Nat /\ agedTicks[t] \in Nat
      /\ updated[t] - born[t] = agedTicks[t] * TickNs + remainder[t]
  BY <1>1, DecayAssumption DEF EpochsTyped, NoDecayTimeLost, WholeUnits
<1>3. TickNs \in Nat \ {0}
  BY DecayAssumption
<1>4. w \in Nat /\ TicksOf(t, finish) = k
  BY <1>1, <1>2 DEF TicksOf, DecayWindow
<1>5. k \in Nat /\ k * TickNs <= w
  <2>1. /\ k \in Nat /\ w % TickNs \in 0 .. TickNs - 1
        /\ w = k * TickNs + (w % TickNs)
    BY <1>4, TickDivision
  <2>2. k * TickNs \in Nat
    BY <1>3, <2>1
  <2> HIDE DEF w, k
  <2> QED
    BY <1>3, <1>4, <2>1, <2>2
<1>6. agedTicks[t] * TickNs \in Nat /\ agedTicks[t] * TickNs + w = finish - born[t]
  <2>1. agedTicks[t] * TickNs \in Nat
    BY <1>2, <1>3
  <2> QED
    BY <1>1, <1>2, <2>1
<1> HIDE DEF w, k
<1>7. (agedTicks[t] + k) * TickNs <= MaxTime
  <2>1. (agedTicks[t] + k) * TickNs = agedTicks[t] * TickNs + k * TickNs /\ k * TickNs \in Nat
    BY <1>2, <1>3, <1>5
  <2>2. agedTicks[t] * TickNs + k * TickNs <= agedTicks[t] * TickNs + w
    BY <1>4, <1>5, <1>6, <2>1
  <2>3. agedTicks[t] * TickNs + w <= MaxTime
    BY <1>1, <1>2, <1>6
  <2> QED
    BY <1>1, <1>4, <1>6, <2>1, <2>2, <2>3
<1>8. \A n \in Nat : n * TickNs <= MaxTime => n <= MaxTime \div TickNs
  <2>1. /\ MaxTime \div TickNs \in Nat /\ MaxTime % TickNs \in 0 .. TickNs - 1
        /\ MaxTime = (MaxTime \div TickNs) * TickNs + (MaxTime % TickNs)
    BY <1>1, TickDivision
  <2> DEFINE e == MaxTime \div TickNs
  <2> HIDE DEF e
  <2>2. \A n \in Nat : n >= e + 1 => n * TickNs >= e * TickNs + TickNs
    <3>1. e \in Nat
      BY <2>1 DEF e
    <3>2. \A x, y \in Nat : x <= y => x * TickNs <= y * TickNs
      BY <1>3
    <3>3. (e + 1) * TickNs = e * TickNs + TickNs
      BY <1>3, <3>1
    <3> QED
      BY <3>1, <3>2, <3>3
  <2>3. e * TickNs + TickNs > MaxTime /\ e \in Nat /\ e * TickNs \in Nat
    BY <1>1, <1>3, <2>1 DEF e
  <2>4. ASSUME NEW n \in Nat, n * TickNs <= MaxTime PROVE n <= e
    <3>1. n * TickNs \in Nat
      BY <1>3
    <3> QED
      BY <1>1, <1>3, <2>2, <2>3, <2>4, <3>1
  <2> QED
    BY <2>4 DEF e
<1>9. agedTicks[t] + k \in Nat
  BY <1>2, <1>5
<1> QED
  BY <1>4, <1>5, <1>7, <1>8, <1>9

\* What is left of a multiple of the unit is a multiple of the unit that is left.
LEMMA AgedInUnits ==
  ASSUME NEW e \in Nat, NEW k \in Nat, k <= e, NEW m \in Nat
  PROVE  LET d == m * Power(FactorDen, e)
         IN  /\ (d * Power(FactorNum, k)) % Power(FactorDen, k) = 0
             /\ \E n \in Nat : (d * Power(FactorNum, k)) \div Power(FactorDen, k)
                                  = n * Power(FactorDen, e - k)
<1> DEFINE P == Power(FactorNum, k)
           Q == Power(FactorDen, k)
           U == Power(FactorDen, e - k)
<1>1. e - k \in Nat /\ k + (e - k) = e
  OBVIOUS
<1>2. P \in Nat /\ Q \in Nat \ {0} /\ U \in Nat
  <2>1. FactorNum \in Nat /\ FactorDen \in Nat /\ FactorDen # 0
    BY DecayAssumption
  <2>2. P \in Nat
    BY <2>1, PowerNat
  <2>3. Q \in Nat /\ Q # 0
    BY <2>1, PowerNat
  <2>4. U \in Nat
    BY <1>1, <2>1, PowerNat
  <2> QED
    BY <2>2, <2>3, <2>4
<1>3. Power(FactorDen, e) = Q * U
  <2>1. FactorDen \in Nat
    BY DecayAssumption
  <2> QED
    BY <1>1, <2>1, PowerOfSum
<1> HIDE DEF P, Q, U
<1>4. (m * (Q * U)) * P = ((m * P) * U) * Q /\ (m * P) * U \in Nat /\ m * P \in Nat
  BY <1>2
<1>5. /\ ((m * (Q * U)) * P) % Q = 0
      /\ ((m * (Q * U)) * P) \div Q = (m * P) * U
  BY <1>2, <1>4, MultipleDivides
<1> QED
  BY <1>3, <1>4, <1>5 DEF P, Q, U

\* A debt of naturals that exact arithmetic never leaves above nothing is none.
LEMMA NoDebtIsExact ==
  ASSUME DualTypeOK, RoundingNeverForgives, NEW t \in Tenants, NEW c \in Components,
         debt[t] = NoDebt
  PROVE  exactDebt[t][c] = 0
<1>1. debt[t][c] = 0 /\ exactDebt[t][c] \in Nat /\ ExactScale \in Nat
  BY ScaleIsNatural DEF NoDebt, DualTypeOK
<1>2. 0 * ExactScale = 0
  BY <1>1
<1> QED
  BY <1>1, <1>2 DEF RoundingNeverForgives

\* A charge and a share are whole units too.
LEMMA ChargedInUnits ==
  ASSUME NEW e \in Nat, NEW E \in Nat, e <= E, NEW n \in Nat, NEW x \in Int
  PROVE  \E m \in Nat :
            MaxOf(0, n * Power(FactorDen, e) + x * Power(FactorDen, E)) = m * Power(FactorDen, e)
<1> DEFINE U == Power(FactorDen, e)
           V == Power(FactorDen, E - e)
<1>1. E - e \in Nat /\ e + (E - e) = E /\ FactorDen \in Nat \ {0}
  BY DecayAssumption
<1>2. U \in Nat \ {0} /\ V \in Nat
  BY <1>1, PowerNat
<1>3. Power(FactorDen, E) = U * V
  BY <1>1, PowerOfSum
<1> HIDE DEF U, V
<1> DEFINE y == n + x * V
<1>4. y \in Int /\ n * U + x * (U * V) = y * U
  <2>1. x * V \in Int /\ x * (U * V) = (x * V) * U
    BY <1>2
  <2> QED
    BY <1>2, <2>1
<1> HIDE DEF y
<1>5. CASE y >= 0
  <2>1. y \in Nat /\ y * U >= 0 /\ y * U \in Int
    BY <1>2, <1>4, <1>5
  <2>2. MaxOf(0, y * U) = y * U
    BY <2>1 DEF MaxOf
  <2> QED
    BY <1>3, <1>4, <2>1, <2>2 DEF U
<1>6. CASE y < 0
  <2>1. y * U < 0 /\ y * U \in Int
    BY <1>2, <1>4, <1>6
  <2>2. MaxOf(0, y * U) = 0 /\ 0 = 0 * U
    BY <1>2, <2>1 DEF MaxOf
  <2> QED
    BY <1>3, <1>4, <2>2 DEF U
<1> QED
  BY <1>4, <1>5, <1>6

\* A quantum leaves whole units.
LEMMA UnitsQuantum ==
  ASSUME TypeOK, EpochsTyped, NoDecayTimeLost, DualTypeOK, RoundingNeverForgives, WholeUnits,
         NEW used \in [Tenants -> [Components -> Usages]],
         NEW start \in Instants, NEW finish \in Instants, start <= finish,
         \A t \in active : start >= updated[t],
         AccountResources(used, start, finish)
  PROVE  WholeUnits'
<1> DEFINE last == MaxTime \div TickNs
<1>1. last \in Nat
  BY SizeAssumption, DecayAssumption
<1> SUFFICES ASSUME NEW t \in Tenants, debt'[t] # NoDebt
             PROVE  /\ born'[t] # Never
                    /\ agedTicks'[t] <= last
                    /\ \A c \in Components : \E m \in Nat :
                          exactDebt'[t][c] = m * Power(FactorDen, last - agedTicks'[t])
  BY DEF WholeUnits, UnitLeft, NoDebt
<1>2. CASE t \notin active
  <2>1. /\ debt'[t] = debt[t] /\ born'[t] = born[t] /\ agedTicks'[t] = agedTicks[t]
        /\ exactDebt'[t] = exactDebt[t]
    BY <1>2 DEF AccountResources
  <2> QED
    BY <2>1 DEF WholeUnits, UnitLeft
<1>3. CASE t \in active
  <2> DEFINE k == TicksOf(t, finish)
             aged == IF debt[t] = NoDebt THEN 0 ELSE agedTicks[t] + k
             x(c) == used[t][c] - Entitlement(t, finish - start)
             left(c) == (exactDebt[t][c] * Power(FactorNum, k)) \div Power(FactorDen, k)
  <2>1. start \in Nat /\ finish \in Nat /\ finish - start \in Nat /\ finish # Never
    BY InstantsAreLater DEF TypeOK
  <2>2. \A c \in Components : x(c) \in Int
    <3>1. Entitlement(t, finish - start) \in Nat
      BY <1>3, <2>1, EntitlementIsNatural
    <3>2. \A c \in Components : used[t][c] \in Nat
      BY DecayAssumption
    <3> QED
      BY <3>1, <3>2
  <2>3. /\ born'[t] = IF debt[t] = NoDebt THEN finish ELSE born[t]
        /\ agedTicks'[t] = aged
        /\ \A c \in Components : exactDebt'[t][c] = MaxOf(0, left(c) + x(c) * ExactScale)
    BY <1>3 DEF AccountResources, ExactDebtAfter
  <2>4. /\ aged \in Nat /\ aged <= last
        /\ \A c \in Components : \E n \in Nat : left(c) = n * Power(FactorDen, last - aged)
    <3>1. CASE debt[t] = NoDebt
      <4>1. k = 0
        <5>1. 0 \div TickNs = 0
          BY DecayAssumption
        <5> QED
          BY <3>1, <5>1 DEF TicksOf, DecayWindow
      <4>2. Power(FactorDen, k) = 1 /\ Power(FactorNum, k) = 1
        BY <4>1, PowerDef
      <4>3. \A c \in Components : left(c) = 0
        BY <3>1, <4>2, NoDebtIsExact
      <4>4. Power(FactorDen, last) \in Nat
        BY <1>1, DecayAssumption, PowerNat
      <4>5. aged = 0 /\ last - aged = last /\ 0 * Power(FactorDen, last) = 0
        BY <1>1, <3>1, <4>4
      <4> HIDE DEF left, aged, last
      <4> QED
        BY <1>1, <4>3, <4>5
    <3>2. CASE debt[t] # NoDebt
      <4>1. finish >= updated[t]
        <5>1. updated[t] \in Int
          BY DEF EpochsTyped, Never
        <5> QED
          BY <1>3, <2>1, <5>1
      <4>2. k \in Nat /\ agedTicks[t] + k <= last /\ agedTicks[t] \in Nat
        BY <1>3, <3>2, <4>1, TicksFitRun DEF EpochsTyped
      <4> HIDE DEF k, last
      <4> DEFINE e == last - agedTicks[t]
      <4>3. e \in Nat /\ k <= e /\ last - aged = e - k /\ aged \in Nat /\ aged <= last
        BY <1>1, <3>2, <4>2
      <4>4. ASSUME NEW c \in Components
            PROVE  \E n \in Nat : left(c) = n * Power(FactorDen, last - aged)
        <5>1. PICK m \in Nat : exactDebt[t][c] = m * Power(FactorDen, e)
          BY <3>2 DEF WholeUnits, UnitLeft, last
        <5> HIDE DEF e
        <5>2. \E n \in Nat : ((m * Power(FactorDen, e)) * Power(FactorNum, k))
                                \div Power(FactorDen, k) = n * Power(FactorDen, e - k)
          BY <4>2, <4>3, AgedInUnits
        <5> QED
          BY <4>3, <5>1, <5>2
      <4> QED
        BY <4>3, <4>4
    <3> QED
      BY <3>1, <3>2
  <2>5. born'[t] # Never
    BY <2>1, <2>3 DEF WholeUnits
  <2> HIDE DEF left, x, aged
  <2>6. ASSUME NEW c \in Components
        PROVE  \E m \in Nat : exactDebt'[t][c] = m * Power(FactorDen, last - aged)
    <3>1. PICK n \in Nat : left(c) = n * Power(FactorDen, last - aged)
      BY <2>4
    <3>2. exactDebt'[t][c] = MaxOf(0, n * Power(FactorDen, last - aged) + x(c) * Power(FactorDen, last))
      BY <2>3, <3>1 DEF ExactScale
    <3> HIDE DEF last
    <3>3. last - aged \in Nat /\ last - aged <= last
      BY <1>1, <2>4
    <3> DEFINE e == last - aged
               y == x(c)
    <3>4. y \in Int
      BY <2>2
    <3>5. exactDebt'[t][c] = MaxOf(0, n * Power(FactorDen, e) + y * Power(FactorDen, last))
      BY <3>2
    <3>6. e \in Nat /\ e <= last
      BY <3>3
    <3> HIDE DEF e, y
    <3>7. \E m \in Nat : MaxOf(0, n * Power(FactorDen, e) + y * Power(FactorDen, last))
                             = m * Power(FactorDen, e)
      BY <1>1, <3>4, <3>6, ChargedInUnits
    <3> QED
      BY <3>5, <3>7 DEF e
  <2> QED
    BY <2>3, <2>4, <2>5, <2>6
<1> QED
  BY <1>2, <1>3

\* Every step keeps the debts in whole units.
LEMMA UnitsStep ==
  ASSUME TypeOK, EpochsTyped, NoDecayTimeLost, DualTypeOK, RoundingNeverForgives, WholeUnits,
         [DualNext]_dualVars
  PROVE  WholeUnits'
<1>1. ASSUME UNCHANGED <<ledgerVars, historyVars>>
      PROVE  WholeUnits'
  BY <1>1 DEF ledgerVars, historyVars, WholeUnits, UnitLeft, NoDebt
<1>2. CASE CanonicalOnly
  BY <1>1, <1>2 DEF CanonicalOnly
<1>3. ASSUME NEW A \in SUBSET Requests, NEW n \in Progress,
             NEW start \in Instants, NEW finish \in Instants,
             NEW used \in [Tenants -> [Components -> Usages]],
             start <= finish, AccountDualQuantum(A, n, used, start, finish)
      PROVE  WholeUnits'
  <2>1. AccountResources(used, start, finish) /\ \A t \in active : start >= updated[t]
    BY <1>3 DEF AccountDualQuantum, ValidQuantum
  <2> QED
    BY <1>3, <2>1, UnitsQuantum
<1>4. CASE UNCHANGED dualVars
  BY <1>1, <1>4 DEF dualVars
<1> QED
  BY <1>2, <1>3, <1>4 DEF DualNext

\* The history that RoundingNeverForgives compares the ledger with is that of
\* exact rational arithmetic: no division of it is ever rounded.
THEOREM HistoryIsNeverRounded == DualSpec => []HistoryIsExact
<1>1. DualInit => WholeUnits
  BY DEF DualInit, WholeUnits
<1>2. ASSUME TypeOK, EpochsTyped, NoDecayTimeLost, DualTypeOK, RoundingNeverForgives, WholeUnits
      PROVE  HistoryIsExact
  <2> SUFFICES ASSUME NEW t \in active, NEW finish \in Instants, NEW c \in Components,
                      finish >= updated[t]
               PROVE  (exactDebt[t][c] * Power(FactorNum, TicksOf(t, finish)))
                         % Power(FactorDen, TicksOf(t, finish)) = 0
    BY DEF HistoryIsExact
  <2>1. t \in Tenants
    BY <1>2 DEF TypeOK
  <2>2. CASE debt[t] = NoDebt
    <3>1. 0 \div TickNs = 0
      BY DecayAssumption
    <3>2. TicksOf(t, finish) = 0
      BY <2>2, <3>1 DEF TicksOf, DecayWindow
    <3>3. exactDebt[t][c] = 0
      BY <1>2, <2>1, <2>2, NoDebtIsExact
    <3> QED
      BY <3>2, <3>3, PowerDef
  <2>3. CASE debt[t] # NoDebt
    <3> DEFINE k == TicksOf(t, finish)
               e == MaxTime \div TickNs - agedTicks[t]
    <3>1. k \in Nat /\ agedTicks[t] + k <= MaxTime \div TickNs /\ agedTicks[t] \in Nat
      BY <1>2, <2>1, <2>3, TicksFitRun DEF EpochsTyped
    <3>2. MaxTime \div TickNs \in Nat
      BY SizeAssumption, DecayAssumption
    <3>3. e \in Nat /\ k <= e
      <4> HIDE DEF k
      <4> QED
        BY <3>1, <3>2
    <3>4. PICK m \in Nat : exactDebt[t][c] = m * Power(FactorDen, e)
      BY <1>2, <2>1, <2>3 DEF WholeUnits, UnitLeft
    <3> HIDE DEF k, e
    <3>5. ((m * Power(FactorDen, e)) * Power(FactorNum, k)) % Power(FactorDen, k) = 0
      BY <3>1, <3>3, AgedInUnits
    <3> QED
      BY <3>4, <3>5 DEF k
  <2> QED
    BY <2>2, <2>3
<1> QED
  BY <1>1, <1>2, UnitsStep, LedgerInvariant, DualImplementsFair, TypeInvariant, PTL DEF DualSpec
=============================================================================
