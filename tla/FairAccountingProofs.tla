------------------------ MODULE FairAccountingProofs ------------------------
(***************************************************************************)
(* What FairAccounting promises, for any number of tenants and requests,   *)
(* any weights, owners and step costs, and without the bounds of a run.    *)
(*                                                                         *)
(* Core is inductive; ActiveIsBacklog and the ledger properties are        *)
(* inductive relative to it.                                               *)
(***************************************************************************)
EXTENDS FairAccounting, ArithmeticTheorems

\* Types and lifecycle together: a charge is a natural because the steps it
\* is for exist, and they exist because of the lifecycle.
Core == TypeOK /\ LifecycleAgrees

-----------------------------------------------------------------------------
\* The weight of a non-empty set of tenants is positive.
LEMMA WeightPositive ==
  ASSUME NEW A \in SUBSET Tenants, A # {}
  PROVE  WeightOf(A) \in Nat \ {0}
<1>1. \A t \in 1 .. NTenants : Weight[t] \in Nat \ {0}
  BY PolicyAssumption DEF Tenants
<1>2. /\ WeightOf(A) \in Nat
      /\ \A t \in 1 .. NTenants : t \in A => Weight[t] <= WeightOf(A)
  BY <1>1, SizeAssumption, SumOverNat DEF WeightOf
<1>3. PICK t \in A : t \in 1 .. NTenants
  BY DEF Tenants
<1> QED
  BY <1>1, <1>2, <1>3

\* The exact division of the code: the fair units of one nanosecond, shared by
\* the weights of a non-empty set of tenants, leave no remainder.
LEMMA ScaleDivides ==
  ASSUME NEW A \in SUBSET Tenants, A # {}
  PROVE  /\ Scale \div WeightOf(A) \in Nat
         /\ (Scale \div WeightOf(A)) * WeightOf(A) = Scale
<1>1. PICK k \in 1 .. Scale : Scale = k * WeightOf(A)
  BY ScaleAssumption
<1>2. WeightOf(A) \in Nat \ {0} /\ Scale \in Nat \ {0}
  BY WeightPositive, ScaleAssumption
<1>3. \A w \in Nat \ {0}, m \in Nat : (m * w) \div w = m
  OBVIOUS
<1>4. Scale \div WeightOf(A) = k
  BY <1>1, <1>2, <1>3
<1> QED
  BY <1>1, <1>2, <1>4

\* What a quantum's charges are: naturals, positive exactly for the requests
\* that progressed, and only for active tenants.
LEMMA QuantumCharges ==
  ASSUME Core, NEW n \in Progress, NEW at \in Instants,
         \A r \in Requests : n[r] > 0 => MayComplete(r, n[r], at)
  PROVE  /\ \A r \in Requests : /\ Charges(n)[r] \in Nat
                                /\ Charges(n)[r] > 0 <=> n[r] > 0
         /\ \A t \in Tenants : /\ ChargeOf(n, t) \in Nat
                               /\ ChargeOf(n, t) > 0 => t \in active
                               /\ ChargeOf(n, t) > 0 =>
                                    \E r \in Requests : Owner[r] = t /\ n[r] > 0
         /\ \A r \in Requests : Charges(n)[r] <= ChargeOf(n, Owner[r])
         /\ TotalCharge(n) \in Nat
         /\ TotalCharge(n) > 0 => active # {}
<1>1. ASSUME NEW r \in Requests
      PROVE  Charges(n)[r] \in Nat /\ (Charges(n)[r] > 0 <=> n[r] > 0)
  <2>1. n[r] \in Nat /\ done[r] \in Nat /\ Steps[r] \in Nat /\ done[r] <= Steps[r]
    BY SizeAssumption, PolicyAssumption DEF Core, TypeOK, LifecycleAgrees, Progress
  <2>2. done[r] + n[r] <= Steps[r]
    BY <2>1 DEF MayComplete
  <2>3. done[r] \in 0 .. Steps[r] /\ done[r] + n[r] \in 0 .. Steps[r]
    BY <2>1, <2>2
  <2>4. /\ CumCost[r][done[r]] \in Nat
        /\ CumCost[r][done[r] + n[r]] \in Nat
        /\ done[r] < done[r] + n[r] => CumCost[r][done[r]] < CumCost[r][done[r] + n[r]]
    BY <2>3, ProfileAssumption
  <2>5. Charges(n)[r] = CumCost[r][done[r] + n[r]] - CumCost[r][done[r]]
    BY DEF Charges
  <2>6. n[r] = 0 => done[r] + n[r] = done[r]
    BY <2>1
  <2> QED
    BY <2>1, <2>4, <2>5, <2>6
<1>2. \A r \in 1 .. NRequests : Charges(n)[r] \in Nat
  BY <1>1 DEF Requests
<1>3. \A r \in Requests : Owner[r] \in Tenants
  BY PolicyAssumption
<1>4. ASSUME NEW t \in Tenants
      PROVE  /\ ChargeOf(n, t) \in Nat
             /\ \A r \in Requests : Owner[r] = t => Charges(n)[r] <= ChargeOf(n, t)
  BY <1>2, SizeAssumption, SumOverNat DEF ChargeOf, Requests
<1>5. ASSUME NEW t \in Tenants, ChargeOf(n, t) > 0
      PROVE  \E r \in Requests : Owner[r] = t /\ n[r] > 0
  <2> SUFFICES ASSUME \A r \in Requests : Owner[r] = t => ~(n[r] > 0)
               PROVE  FALSE
    OBVIOUS
  <2>1. \A r \in 1 .. NRequests :
           r \in {q \in Requests : Owner[q] = t} => Charges(n)[r] = 0
    BY <1>1 DEF Requests
  <2>2. ChargeOf(n, t) = 0
    BY <2>1, SizeAssumption, SumOverZero DEF ChargeOf
  <2> QED
    BY <1>5, <2>2
<1>6. TotalCharge(n) \in Nat
  BY <1>2, SizeAssumption, SumToNat DEF TotalCharge
<1>7. ASSUME TotalCharge(n) > 0 PROVE active # {}
  <2> SUFFICES ASSUME \A r \in Requests : ~(n[r] > 0) PROVE FALSE
    BY DEF MayComplete
  <2>1. \A r \in 1 .. NRequests : Charges(n)[r] = 0
    BY <1>1 DEF Requests
  <2> QED
    BY <1>7, <2>1, SizeAssumption, SumToZero DEF TotalCharge
<1>8. \A t \in Tenants : ChargeOf(n, t) > 0 => t \in active
  BY <1>5 DEF MayComplete
<1> QED
  BY <1>1, <1>3, <1>4, <1>5, <1>6, <1>7, <1>8

\* The virtual time a quantum leaves is a natural, never below the old one.
LEMMA VirtualTimeGrows ==
  ASSUME Core, NEW n \in Progress, NEW at \in Instants,
         \A r \in Requests : n[r] > 0 => MayComplete(r, n[r], at)
  PROVE  VirtualTimeAfter(n) \in Nat /\ vtime <= VirtualTimeAfter(n)
<1>1. TotalCharge(n) \in Nat /\ (TotalCharge(n) > 0 => active # {}) /\ vtime \in Nat
  BY QuantumCharges DEF Core, TypeOK
<1>2. CASE TotalCharge(n) = 0
  BY <1>1, <1>2 DEF VirtualTimeAfter
<1>3. CASE TotalCharge(n) > 0
  <2>1. active \in SUBSET Tenants /\ active # {}
    BY <1>1, <1>3 DEF Core, TypeOK
  <2>2. Scale \div WeightOf(active) \in Nat
    BY <2>1, ScaleDivides
  <2>3. \A a, b \in Nat : a * b \in Nat
    OBVIOUS
  <2>4. TotalCharge(n) * (Scale \div WeightOf(active)) \in Nat
    BY <1>1, <2>2, <2>3
  <2>5. VirtualTimeAfter(n) = vtime + TotalCharge(n) * (Scale \div WeightOf(active))
    BY <1>3 DEF VirtualTimeAfter
  <2> HIDE DEF WeightOf
  <2> QED
    BY <1>1, <2>4, <2>5
<1> QED
  BY <1>1, <1>2, <1>3

-----------------------------------------------------------------------------
\* Types and lifecycle hold initially.
LEMMA CoreInit == Init => Core
  BY SizeAssumption, PolicyAssumption
  DEF Init, Core, TypeOK, LifecycleAgrees, Statuses, Terminal, NonTerminal, Never

\* Instants are naturals no earlier than the clock.
LEMMA InstantsAreLater ==
  ASSUME TypeOK, NEW at \in Instants
  PROVE  at \in Nat /\ now <= at /\ at # Never
  BY SizeAssumption DEF TypeOK, Instants, Never

\* A quantum preserves the types and the lifecycle.
LEMMA CoreQuantum ==
  ASSUME Core, NEW n \in Progress, NEW at \in Instants, AccountQuantum(n, at)
  PROVE  Core'
<1>1. \A r \in Requests : n[r] > 0 => MayComplete(r, n[r], at)
  BY DEF AccountQuantum
<1>2. /\ \A r \in Requests : n[r] \in Nat /\ done[r] \in Nat /\ Steps[r] \in Nat \ {0}
      /\ at \in Nat /\ at # Never
  BY SizeAssumption, PolicyAssumption, InstantsAreLater DEF Core, TypeOK, Progress
<1>3. \A t \in Tenants : ChargeOf(n, t) \in Nat /\ ChargeOf(n, t) * Scale \in Nat
  <2>1. \A a, b \in Nat : a * b \in Nat
    OBVIOUS
  <2>2. Scale \in Nat
    BY ScaleAssumption
  <2> QED
    BY <1>1, <2>1, <2>2, QuantumCharges
<1>4. TypeOK'
  <2>1. vtime' \in Nat
    BY <1>1, VirtualTimeGrows DEF AccountQuantum
  <2>2. coord' \in [Tenants -> Nat] /\ service' \in [Tenants -> Nat]
    BY <1>3 DEF AccountQuantum, Core, TypeOK
  <2>3. active' \subseteq Tenants /\ registered' \subseteq Tenants /\ now' \in Nat
    BY <1>2 DEF AccountQuantum, ActiveAfter, Core, TypeOK
  <2>4. status' \in [Requests -> Statuses]
    BY DEF AccountQuantum, StatusAfter, Core, TypeOK, Statuses, Terminal, NonTerminal
  <2>5. done' \in [Requests -> Nat]
    BY <1>2 DEF AccountQuantum
  <2>6. /\ arrival' \in [Requests -> Nat \cup {Never}]
        /\ lastProgress' \in [Requests -> Nat \cup {Never}]
        /\ lastActive' \in [Tenants -> Nat \cup {Never}]
    BY <1>2 DEF AccountQuantum, Core, TypeOK
  <2> QED
    BY <2>1, <2>2, <2>3, <2>4, <2>5, <2>6 DEF TypeOK
<1>5. LifecycleAgrees'
  <2> SUFFICES ASSUME NEW r \in Requests
               PROVE  /\ done'[r] <= Steps[r]
                      /\ status'[r] = "completed" <=> done'[r] = Steps[r]
                      /\ done'[r] > 0 <=> lastProgress'[r] # Never
                      /\ status'[r] = "absent" <=> arrival'[r] = Never
                      /\ status'[r] # "absent" => Owner[r] \in registered'
    BY DEF LifecycleAgrees
  <2>1. /\ done'[r] = done[r] + n[r]
        /\ status'[r] = StatusAfter(r, n)
        /\ lastProgress'[r] = IF n[r] > 0 THEN at ELSE lastProgress[r]
        /\ arrival'[r] = arrival[r]
        /\ registered' = registered
    BY DEF AccountQuantum
  <2>2. /\ done[r] <= Steps[r]
        /\ status[r] = "completed" <=> done[r] = Steps[r]
        /\ done[r] > 0 <=> lastProgress[r] # Never
        /\ status[r] = "absent" <=> arrival[r] = Never
        /\ status[r] # "absent" => Owner[r] \in registered
    BY DEF Core, LifecycleAgrees
  <2>3. CASE n[r] = 0
    BY <2>1, <2>2, <2>3, <1>2 DEF StatusAfter
  <2>4. CASE n[r] > 0
    <3>1. status[r] = "runnable" /\ n[r] <= Steps[r] - done[r]
      BY <1>1, <2>4 DEF MayComplete
    <3>2. status'[r] = IF done'[r] = Steps[r] THEN "completed" ELSE "runnable"
      BY <2>1, <2>4 DEF StatusAfter
    <3> QED
      BY <2>1, <2>2, <2>4, <3>1, <3>2, <1>2
  <2> QED
    BY <2>3, <2>4, <1>2
<1> QED
  BY <1>4, <1>5 DEF Core

\* The coordinate of a waking tenant is a natural, no lower than before.
LEMMA WakeCoordinateGrows ==
  ASSUME TypeOK, NEW t \in Tenants
  PROVE  WakeCoordinate(t) \in Nat /\ coord[t] <= WakeCoordinate(t)
<1>1. coord[t] \in Nat /\ ZeroLag(t) \in Nat /\ MaximumCredit * Scale \in Nat
  <2>1. \A a, b \in Nat : a * b \in Nat
    OBVIOUS
  <2> QED
    BY <2>1, SizeAssumption, PolicyAssumption, ScaleAssumption DEF TypeOK, ZeroLag
<1> QED
  BY <1>1 DEF WakeCoordinate, MaxOf

\* Every step preserves the types and the lifecycle.
LEMMA CoreStep ==
  ASSUME Core, [Next]_vars
  PROVE  Core'
<1>1. ASSUME NEW t \in Tenants, RegisterTenant(t) PROVE Core'
  <2>1. ZeroLag(t) \in Nat
    <3>1. \A a, b \in Nat : a * b \in Nat
      OBVIOUS
    <3> QED
      BY <3>1, PolicyAssumption DEF Core, TypeOK, ZeroLag
  <2> QED
    BY <1>1, <2>1 DEF RegisterTenant, Core, TypeOK, LifecycleAgrees, requestVars
<1>2. ASSUME NEW r \in Requests, NEW s \in NonTerminal \cup {"rejected"},
             NEW at \in Instants, RegisterRequest(r, s, at)
      PROVE  Core'
  <2>1. Owner[r] \in Tenants
    BY PolicyAssumption
  <2>2. /\ WakeCoordinate(Owner[r]) \in Nat
        /\ at \in Nat /\ at # Never
        /\ s \in Statuses \ {"absent", "completed"}
    BY <2>1, WakeCoordinateGrows, InstantsAreLater DEF Core, Statuses, NonTerminal, Terminal
  <2>3. active' \subseteq Tenants /\ coord' \in [Tenants -> Nat]
    BY <1>2, <2>1, <2>2 DEF RegisterRequest, WakeTenant, Core, TypeOK
  <2>4. done[r] # Steps[r]
    BY <1>2 DEF RegisterRequest, Core, LifecycleAgrees
  <2> QED
    BY <1>2, <2>2, <2>3, <2>4 DEF RegisterRequest, Core, TypeOK, LifecycleAgrees
<1>3. ASSUME NEW r \in Requests, NEW at \in Instants, RejectRequest(r, at)
      PROVE  Core'
  <2>1. at \in Nat
    BY InstantsAreLater DEF Core
  <2>2. active' \subseteq Tenants
    BY <1>3 DEF RejectRequest, ActiveAfter, Core, TypeOK
  <2> QED
    BY <1>3, <2>1, <2>2
    DEF RejectRequest, Core, TypeOK, LifecycleAgrees, fairVars, Statuses, NonTerminal, Terminal
<1>4. ASSUME NEW r \in Requests, NEW s \in NonTerminal, Reschedule(r, s)
      PROVE  Core'
  BY <1>4 DEF Reschedule, Core, TypeOK, LifecycleAgrees, fairVars, Statuses, NonTerminal, Terminal
<1>5. ASSUME NEW n \in Progress, NEW at \in Instants, AccountQuantum(n, at)
      PROVE  Core'
  BY <1>5, CoreQuantum
<1>6. CASE UNCHANGED vars
  BY <1>6 DEF vars, Core, TypeOK, LifecycleAgrees, fairVars, requestVars
<1> QED
  BY <1>1, <1>2, <1>3, <1>4, <1>5, <1>6 DEF Next

\* sim/model.py's field types hold in every reachable scheduler state.
THEOREM TypeInvariant == Spec => []TypeOK
<1>1. Core => TypeOK
  BY DEF Core
<1> QED
  BY <1>1, CoreInit, CoreStep, PTL DEF Spec

\* RequestState's lifecycle checks (model.py:1099) hold in every reachable
\* state, whatever quanta, arrivals and rejections the scheduler sees.
THEOREM LifecycleInvariant == Spec => []LifecycleAgrees
<1>1. Core => LifecycleAgrees
  BY DEF Core
<1> QED
  BY <1>1, CoreInit, CoreStep, PTL DEF Spec

-----------------------------------------------------------------------------
\* Whatever a transition makes of the statuses, the active set it recomputes is
\* the backlog: every request's owner is registered before the request.
LEMMA ActiveAfterIsBacklog ==
  ASSUME Core, NEW st \in [Requests -> Statuses],
         \A r \in Requests : st[r] \in NonTerminal => status[r] \in NonTerminal
  PROVE  ActiveAfter(st) = Backlogged(st)
  BY DEF ActiveAfter, Backlogged, Core, LifecycleAgrees, NonTerminal

\* A quantum never makes a request backlogged that was not.
LEMMA QuantumAddsNoBacklog ==
  ASSUME NEW n \in Progress, NEW at, AccountQuantum(n, at), NEW r \in Requests,
         status'[r] \in NonTerminal
  PROVE  status[r] \in NonTerminal
<1>1. n[r] \in Nat
  BY SizeAssumption DEF Progress
<1> QED
  BY <1>1 DEF AccountQuantum, StatusAfter, MayComplete, NonTerminal

\* Every step leaves the active set equal to the backlog.
LEMMA BacklogStep ==
  ASSUME Core, Core', ActiveIsBacklog, [Next]_vars
  PROVE  ActiveIsBacklog'
<1>1. ASSUME NEW t \in Tenants, RegisterTenant(t) PROVE ActiveIsBacklog'
  BY <1>1 DEF RegisterTenant, requestVars, ActiveIsBacklog, Backlogged
<1>2. ASSUME NEW r \in Requests, NEW s \in NonTerminal \cup {"rejected"},
             NEW at \in Instants, RegisterRequest(r, s, at)
      PROVE  ActiveIsBacklog'
  <2>1. /\ status[r] = "absent"
        /\ status' = [status EXCEPT ![r] = s]
        /\ status \in [Requests -> Statuses]
    BY <1>2 DEF RegisterRequest, Core, TypeOK
  <2>2. \A q \in Requests : status'[q] \in NonTerminal <=>
             (status[q] \in NonTerminal \/ (q = r /\ s \in NonTerminal))
    BY <2>1 DEF NonTerminal
  <2>3. Backlogged(status') = Backlogged(status) \cup
             (IF s \in NonTerminal THEN {Owner[r]} ELSE {})
    BY <2>2 DEF Backlogged
  <2>4. active' = active \cup (IF s \in NonTerminal THEN {Owner[r]} ELSE {})
    BY <1>2 DEF RegisterRequest, WakeTenant
  <2> QED
    BY <2>3, <2>4 DEF ActiveIsBacklog
<1>3. ASSUME NEW r \in Requests, NEW at \in Instants, RejectRequest(r, at)
      PROVE  ActiveIsBacklog'
  <2>1. \A q \in Requests : status'[q] \in NonTerminal => status[q] \in NonTerminal
    BY <1>3 DEF RejectRequest, NonTerminal, Core, TypeOK
  <2>2. status' \in [Requests -> Statuses] /\ active' = ActiveAfter(status')
    BY <1>3 DEF RejectRequest, Core, TypeOK
  <2> QED
    BY <2>1, <2>2, ActiveAfterIsBacklog DEF ActiveIsBacklog
<1>4. ASSUME NEW r \in Requests, NEW s \in NonTerminal, Reschedule(r, s)
      PROVE  ActiveIsBacklog'
  <2>1. \A q \in Requests : status'[q] \in NonTerminal <=> status[q] \in NonTerminal
    BY <1>4 DEF Reschedule, Core, TypeOK
  <2> QED
    BY <1>4, <2>1 DEF Reschedule, ActiveIsBacklog, Backlogged
<1>5. ASSUME NEW n \in Progress, NEW at \in Instants, AccountQuantum(n, at)
      PROVE  ActiveIsBacklog'
  <2>1. \A q \in Requests : status'[q] \in NonTerminal => status[q] \in NonTerminal
    BY <1>5, QuantumAddsNoBacklog
  <2>2. status' \in [Requests -> Statuses] /\ active' = ActiveAfter(status')
    BY <1>5 DEF AccountQuantum, Core, TypeOK
  <2> QED
    BY <2>1, <2>2, ActiveAfterIsBacklog DEF ActiveIsBacklog
<1>6. CASE UNCHANGED vars
  BY <1>6 DEF vars, requestVars, ActiveIsBacklog, Backlogged
<1> QED
  BY <1>1, <1>2, <1>3, <1>4, <1>5, <1>6 DEF Next

\* SchedulerState's backlog check (model.py:1569) never fires: after every
\* transition the active tenants are exactly those with a non-terminal request.
THEOREM ActiveInvariant == Spec => []ActiveIsBacklog
<1>1. Init => ActiveIsBacklog
  BY DEF Init, ActiveIsBacklog, Backlogged, NonTerminal
<1> QED
  BY <1>1, CoreInit, CoreStep, BacklogStep, PTL DEF Spec

-----------------------------------------------------------------------------
\* A tenant that sleeps wakes only when a request is registered.
LEMMA OnlyRegistrationWakes ==
  ASSUME Core, ActiveIsBacklog, Core', ActiveIsBacklog', [Next]_vars,
         NEW t \in active' \ active
  PROVE  /\ \E r \in Requests : Owner[r] = t
         /\ coord'[t] = WakeCoordinate(t)
         /\ vtime' = vtime
<1>1. PICK q \in Requests : Owner[q] = t /\ status'[q] \in NonTerminal
                            /\ status[q] \notin NonTerminal
  BY DEF ActiveIsBacklog, Backlogged
<1>2. CASE \E u \in Tenants : RegisterTenant(u)
  BY <1>1, <1>2 DEF RegisterTenant, requestVars
<1>3. ASSUME NEW r \in Requests, NEW s \in NonTerminal \cup {"rejected"},
             NEW at \in Instants, RegisterRequest(r, s, at)
      PROVE  coord'[t] = WakeCoordinate(t) /\ vtime' = vtime
  <2>1. q = r /\ s \in NonTerminal
    BY <1>1, <1>3 DEF RegisterRequest, Core, TypeOK
  <2>2. coord \in [Tenants -> Nat] /\ t \in Tenants
    BY DEF Core, TypeOK
  <2> QED
    BY <1>1, <1>3, <2>1, <2>2 DEF RegisterRequest, WakeTenant
<1>4. CASE \E r \in Requests, at \in Instants : RejectRequest(r, at)
  BY <1>1, <1>4 DEF RejectRequest, Core, TypeOK, NonTerminal
<1>5. CASE \E r \in Requests, s \in NonTerminal : Reschedule(r, s)
  BY <1>1, <1>5 DEF Reschedule, Core, TypeOK
<1>6. CASE \E n \in Progress, at \in Instants : AccountQuantum(n, at)
  BY <1>1, <1>6, QuantumAddsNoBacklog
<1>7. CASE UNCHANGED vars
  BY <1>1, <1>7 DEF vars, requestVars
<1> QED
  BY <1>1, <1>2, <1>3, <1>4, <1>5, <1>6, <1>7 DEF Next

\* wake_tenant's cap (accounting.py:126): sleeping banks no more than
\* maximum_credit_ns and never improves a tenant's lag.
THEOREM WakeCreditBound == Spec => WakeCreditIsBounded
<1>1. ASSUME Core, ActiveIsBacklog, Core', ActiveIsBacklog', [Next]_vars
      PROVE  [\A t \in active' \ active :
                Lag(t)' <= MaximumCredit * Scale /\ Lag(t)' <= Lag(t)]_vars
  <2> SUFFICES ASSUME NEW t \in active' \ active
               PROVE  Lag(t)' <= MaximumCredit * Scale /\ Lag(t)' <= Lag(t)
    OBVIOUS
  <2>1. t \in Tenants /\ coord'[t] = WakeCoordinate(t) /\ vtime' = vtime
    BY <1>1, OnlyRegistrationWakes DEF Core, TypeOK
  <2>2. coord[t] \in Nat /\ ZeroLag(t) \in Nat /\ MaximumCredit * Scale \in Nat
    <3>1. \A a, b \in Nat : a * b \in Nat
      OBVIOUS
    <3> QED
      BY <1>1, <2>1, <3>1, SizeAssumption, PolicyAssumption, ScaleAssumption
      DEF Core, TypeOK, ZeroLag
  <2>3. /\ Lag(t) = ZeroLag(t) - coord[t]
        /\ Lag(t)' = ZeroLag(t) - WakeCoordinate(t)
    BY <2>1 DEF Lag, ZeroLag
  <2>4. /\ coord[t] <= WakeCoordinate(t)
        /\ ZeroLag(t) - MaximumCredit * Scale <= WakeCoordinate(t)
        /\ WakeCoordinate(t) \in Nat
    BY <2>2 DEF WakeCoordinate, MaxOf
  <2> QED
    BY <2>2, <2>3, <2>4
<1> QED
  BY <1>1, CoreInit, CoreStep, BacklogStep, ActiveInvariant, TypeInvariant,
     LifecycleInvariant, PTL DEF Spec, WakeCreditIsBounded, Core

-----------------------------------------------------------------------------
\* The requests of one tenant.
OwnedBy(t) == {r \in Requests : Owner[r] = t}

\* The cost of the completed steps of each request.
WorkDone == [r \in Requests |-> CumCost[r][done[r]]]

\* The cost of completed steps is a natural, and 0 for a request not started.
LEMMA WorkDoneType ==
  ASSUME Core
  PROVE  \A r \in Requests : /\ WorkDone[r] \in Nat
                             /\ done[r] = 0 => WorkDone[r] = 0
<1> SUFFICES ASSUME NEW r \in Requests
             PROVE  WorkDone[r] \in Nat /\ (done[r] = 0 => WorkDone[r] = 0)
  OBVIOUS
<1>1. done[r] \in 0 .. Steps[r]
  BY PolicyAssumption DEF Core, TypeOK, LifecycleAgrees
<1> QED
  BY <1>1, ProfileAssumption DEF WorkDone

\* Every step charges exactly the work it completes.
LEMMA ServiceStep ==
  ASSUME Core, Core', ServiceIsCompletedWork, [Next]_vars
  PROVE  ServiceIsCompletedWork'
<1> SUFFICES ASSUME NEW t \in Tenants
             PROVE  service'[t] = SumOver(WorkDone', OwnedBy(t), NRequests)
  BY DEF ServiceIsCompletedWork, WorkDone, OwnedBy
<1>1. service[t] = SumOver(WorkDone, OwnedBy(t), NRequests)
  BY DEF ServiceIsCompletedWork, WorkDone, OwnedBy
<1>2. ASSUME UNCHANGED <<service, done>>
      PROVE  service'[t] = SumOver(WorkDone', OwnedBy(t), NRequests)
  BY <1>1, <1>2 DEF WorkDone
<1>3. ASSUME NEW n \in Progress, NEW at \in Instants, AccountQuantum(n, at)
      PROVE  service'[t] = SumOver(WorkDone', OwnedBy(t), NRequests)
  <2>1. \A r \in Requests : n[r] > 0 => MayComplete(r, n[r], at)
    BY <1>3 DEF AccountQuantum
  <2>2. \A r \in Requests :
           /\ Charges(n)[r] \in Int /\ WorkDone[r] \in Int
           /\ WorkDone'[r] \in Int
           /\ Charges(n)[r] = WorkDone'[r] - WorkDone[r]
    <3>1. \A r \in Requests : done'[r] = done[r] + n[r]
      BY <1>3 DEF AccountQuantum
    <3>2. \A r \in Requests : Charges(n)[r] \in Nat
      BY <2>1, QuantumCharges
    <3>3. \A r \in Requests : WorkDone[r] \in Nat
      BY WorkDoneType
    <3>4. \A r \in Requests : WorkDone'[r] = CumCost[r][done[r] + n[r]]
      BY <3>1 DEF WorkDone
    <3>5. \A r \in Requests : WorkDone'[r] \in Int
      <4> SUFFICES ASSUME NEW r \in Requests PROVE WorkDone'[r] \in Int
        OBVIOUS
      <4>1. done'[r] \in 0 .. Steps[r]
        BY PolicyAssumption DEF Core, TypeOK, LifecycleAgrees
      <4> QED
        BY <3>1, <3>4, <4>1, ProfileAssumption
    <3> QED
      BY <3>2, <3>3, <3>4, <3>5 DEF Charges, WorkDone
  <2>3. \A r \in 1 .. NRequests :
           /\ Charges(n)[r] \in Int /\ WorkDone[r] \in Int
           /\ r \in OwnedBy(t) => WorkDone'[r] = WorkDone[r] + Charges(n)[r]
    <3>1. \A a, b, c \in Int : a = b - c => b = c + a
      OBVIOUS
    <3> QED
      BY <2>2, <3>1 DEF Requests
  <2> HIDE DEF WorkDone
  <2>4. SumOver(WorkDone', OwnedBy(t), NRequests)
          = SumOver(WorkDone, OwnedBy(t), NRequests)
              + SumOver(Charges(n), OwnedBy(t), NRequests)
    BY <2>3, SizeAssumption, SumOverAdd
  <2>5. service'[t] = service[t] + SumOver(Charges(n), OwnedBy(t), NRequests)
    BY <1>3 DEF AccountQuantum, ChargeOf, OwnedBy
  <2> QED
    BY <1>1, <2>4, <2>5
<1> QED
  BY <1>2, <1>3 DEF Next, RegisterTenant, RegisterRequest, RejectRequest, Reschedule,
                    vars, fairVars, requestVars

\* Canonical service is the cost of exactly the steps completed: no partition of
\* the work into quanta loses or repeats a charge (accounting.py:611-675).
THEOREM ServiceConserved == Spec => []ServiceIsCompletedWork
<1>1. Init => ServiceIsCompletedWork
  <2> SUFFICES ASSUME Init, NEW t \in Tenants
               PROVE  service[t] = SumOver(WorkDone, OwnedBy(t), NRequests)
    BY DEF ServiceIsCompletedWork, WorkDone, OwnedBy
  <2>1. \A r \in 1 .. NRequests : r \in OwnedBy(t) => WorkDone[r] = 0
    BY CoreInit, WorkDoneType DEF Init, Requests
  <2>2. service[t] = 0
    BY DEF Init
  <2> QED
    BY <2>1, <2>2, SizeAssumption, SumOverZero
<1> QED
  BY <1>1, CoreInit, CoreStep, ServiceStep, PTL DEF Spec

-----------------------------------------------------------------------------
\* A tenant not yet registered was never charged.
UnregisteredIsUncharged == \A t \in Tenants \ registered : service[t] = 0

\* Every step charges registered tenants only, and keeps every charge in the
\* fair coordinate.
LEMMA LedgerStep ==
  ASSUME Core, Core', ActiveIsBacklog, ChargesAreKept, UnregisteredIsUncharged, [Next]_vars
  PROVE  ChargesAreKept' /\ UnregisteredIsUncharged'
<1>1. ASSUME NEW t \in Tenants
      PROVE  /\ coord[t] \in Nat /\ service[t] \in Nat /\ Scale \in Nat
             /\ coord[t] >= service[t] * Scale
  BY ScaleAssumption DEF Core, TypeOK, ChargesAreKept
<1>2. ASSUME NEW t \in Tenants, RegisterTenant(t)
      PROVE  ChargesAreKept' /\ UnregisteredIsUncharged'
  <2>1. service[t] = 0 /\ coord'[t] = ZeroLag(t) /\ coord' \in [Tenants -> Nat]
    BY <1>2 DEF RegisterTenant, UnregisteredIsUncharged, Core, TypeOK
  <2>2. service'[t] * Scale = 0
    BY <1>1, <1>2, <2>1 DEF RegisterTenant
  <2>3. \A u \in Tenants \ {t} : coord'[u] = coord[u] /\ service'[u] = service[u]
    BY <1>2 DEF RegisterTenant, Core, TypeOK
  <2>4. \A u \in Tenants \ {t} : coord'[u] >= service'[u] * Scale
    BY <1>1, <2>3
  <2>5. coord'[t] >= service'[t] * Scale
    BY <2>1, <2>2
  <2> QED
    BY <1>2, <2>4, <2>5 DEF ChargesAreKept, UnregisteredIsUncharged, RegisterTenant
<1>3. ASSUME NEW r \in Requests, NEW s \in NonTerminal \cup {"rejected"},
             NEW at \in Instants, RegisterRequest(r, s, at)
      PROVE  ChargesAreKept' /\ UnregisteredIsUncharged'
  <2>1. \A u \in Tenants : coord[u] <= coord'[u] /\ coord'[u] \in Nat
    BY <1>3, <1>1, WakeCoordinateGrows, PolicyAssumption
    DEF RegisterRequest, WakeTenant, Core, TypeOK
  <2>2. service' = service /\ registered' = registered
    BY <1>3 DEF RegisterRequest
  <2>3. \A u \in Tenants : coord'[u] >= service[u] * Scale
    <3>1. \A u \in Tenants : service[u] * Scale \in Int
      BY <1>1
    <3> QED
      BY <1>1, <2>1, <3>1
  <2> QED
    BY <2>2, <2>3 DEF ChargesAreKept, UnregisteredIsUncharged
<1>4. ASSUME NEW n \in Progress, NEW at \in Instants, AccountQuantum(n, at)
      PROVE  ChargesAreKept' /\ UnregisteredIsUncharged'
  <2>1. \A r \in Requests : n[r] > 0 => MayComplete(r, n[r], at)
    BY <1>4 DEF AccountQuantum
  <2>2. ASSUME NEW t \in Tenants
        PROVE  /\ ChargeOf(n, t) \in Nat
               /\ service'[t] = service[t] + ChargeOf(n, t)
               /\ coord'[t] = coord[t] + ChargeOf(n, t) * Scale
               /\ ChargeOf(n, t) > 0 => t \in registered
    <3>1. active \subseteq registered
      BY DEF Core, ActiveIsBacklog, Backlogged, LifecycleAgrees, NonTerminal
    <3> QED
      BY <1>4, <2>1, <3>1, QuantumCharges DEF AccountQuantum
  <2>3. ASSUME NEW t \in Tenants PROVE coord'[t] >= service'[t] * Scale
    <3>1. \A a, b, c \in Nat : (a + b) * c = a * c + b * c /\ a * c \in Nat
      OBVIOUS
    <3>2. /\ service'[t] * Scale = service[t] * Scale + ChargeOf(n, t) * Scale
          /\ service[t] * Scale \in Nat /\ ChargeOf(n, t) * Scale \in Nat
      BY <1>1, <2>2, <3>1
    <3> QED
      BY <1>1, <2>2, <3>2
  <2>4. UnregisteredIsUncharged'
    BY <1>4, <2>2 DEF UnregisteredIsUncharged, AccountQuantum
  <2> QED
    BY <2>3, <2>4 DEF ChargesAreKept
<1>5. ASSUME UNCHANGED <<service, coord, registered>>
      PROVE  ChargesAreKept' /\ UnregisteredIsUncharged'
  BY <1>5 DEF ChargesAreKept, UnregisteredIsUncharged
<1> QED
  BY <1>2, <1>3, <1>4, <1>5 DEF Next, RejectRequest, Reschedule, vars, fairVars

\* Waking forgives credit, never a charge: a tenant cannot shed what it was
\* charged by sleeping (accounting.py:126-137 and 656-675).
THEOREM ChargesKept == Spec => []ChargesAreKept
<1>1. Init => ChargesAreKept /\ UnregisteredIsUncharged
  <2>1. 0 * Scale = 0
    BY ScaleAssumption
  <2> QED
    BY <2>1 DEF Init, ChargesAreKept, UnregisteredIsUncharged
<1> QED
  BY <1>1, CoreInit, CoreStep, LedgerStep, ActiveInvariant, PTL DEF Spec

-----------------------------------------------------------------------------
\* In a quantum the charges of the tenants active at its start add up to the
\* total: nothing is charged to a tenant outside the active set.
LEMMA ActiveBearTheCharge ==
  ASSUME Core, NEW n \in Progress, NEW at \in Instants, AccountQuantum(n, at)
  PROVE  SumOver([t \in Tenants |-> ChargeOf(n, t)], active, NTenants) = TotalCharge(n)
<1>1. \A r \in Requests : n[r] > 0 => MayComplete(r, n[r], at)
  BY DEF AccountQuantum
<1>2. \A r \in Requests : Charges(n)[r] \in Nat /\ (Charges(n)[r] > 0 <=> n[r] > 0)
  BY <1>1, QuantumCharges
<1>3. \A r \in 1 .. NRequests : /\ Charges(n)[r] \in Int
                                /\ Charges(n)[r] # 0 => Owner[r] \in active
  BY <1>1, <1>2 DEF Requests, MayComplete
<1>4. /\ NRequests \in Nat /\ NTenants \in Nat
      /\ Owner \in [1 .. NRequests -> 1 .. NTenants]
  BY SizeAssumption, PolicyAssumption DEF Requests, Tenants
<1>5. SumOver(Parts(Charges(n), Owner, NRequests, NTenants), active, NTenants)
        = SumTo(Charges(n), NRequests)
  BY <1>3, <1>4, SumByOwner
<1>6. [t \in Tenants |-> ChargeOf(n, t)] = Parts(Charges(n), Owner, NRequests, NTenants)
  BY Zenon DEF Parts, Tenants, Requests, ChargeOf
<1> QED
  BY <1>5, <1>6 DEF TotalCharge

\* _account_quantum_completed_steps (accounting.py:656-684): a quantum moves lag
\* between the tenants active at its start and creates none.
THEOREM QuantumZeroSum == Spec => QuantumIsZeroSum
<1> DEFINE lag      == [t \in Tenants |-> Lag(t)]
           lagAfter == [t \in Tenants |-> Lag(t)']
<1>1. ASSUME Core, NEW n \in Progress, NEW at \in Instants, AccountQuantum(n, at)
      PROVE  SumOver(lagAfter, active, NTenants) = SumOver(lag, active, NTenants)
  <2> DEFINE unit   == Scale \div WeightOf(active)
             share  == [t \in Tenants |-> Weight[t] * (vtime' - vtime)]
             charge == [t \in Tenants |-> ChargeOf(n, t)]
             cost   == [t \in Tenants |-> charge[t] * (-Scale)]
             shift  == [t \in Tenants |-> share[t] + cost[t]]
  <2>1. \A r \in Requests : n[r] > 0 => MayComplete(r, n[r], at)
    BY <1>1 DEF AccountQuantum
  <2>2. /\ TotalCharge(n) \in Nat /\ (TotalCharge(n) > 0 => active # {})
        /\ vtime \in Nat /\ vtime' \in Nat
        /\ vtime' = VirtualTimeAfter(n)
    BY <1>1, <2>1, QuantumCharges, VirtualTimeGrows DEF AccountQuantum, Core, TypeOK
  <2>3. ASSUME NEW t \in Tenants
        PROVE  /\ Weight[t] \in Nat /\ coord[t] \in Nat /\ ChargeOf(n, t) \in Nat
               /\ coord'[t] = coord[t] + ChargeOf(n, t) * Scale
               /\ Scale \in Nat
    BY <1>1, <2>1, QuantumCharges, PolicyAssumption, ScaleAssumption
    DEF AccountQuantum, Core, TypeOK
  <2>4. ASSUME NEW t \in Tenants
        PROVE  /\ lag[t] \in Int /\ share[t] \in Int /\ cost[t] \in Int
               /\ shift[t] = share[t] + cost[t]
               /\ charge[t] \in Int /\ cost[t] = charge[t] * (-Scale)
               /\ share[t] = Weight[t] * (vtime' - vtime)
               /\ Weight[t] \in Int /\ shift[t] \in Int
               /\ lagAfter[t] = lag[t] + shift[t]
    <3>1. \A w, v, x, c, d, k \in Int :
             w * x - (c + d * k) = (w * v - c) + (w * (x - v) + d * (-k))
      OBVIOUS
    <3>2. \A a, b \in Int : a * b \in Int /\ a - b \in Int
      OBVIOUS
    <3>3. /\ lag[t] = Weight[t] * vtime - coord[t]
          /\ lagAfter[t] = Weight[t] * vtime' - coord'[t]
      BY DEF Lag, ZeroLag
    <3>4. /\ share[t] = Weight[t] * (vtime' - vtime)
          /\ charge[t] = ChargeOf(n, t)
          /\ cost[t] = charge[t] * (-Scale)
          /\ shift[t] = share[t] + cost[t]
      OBVIOUS
    <3> HIDE DEF lag, lagAfter, share, charge, cost, shift
    <3>5. share[t] \in Int /\ cost[t] \in Int /\ lag[t] \in Int
      BY <2>2, <2>3, <3>2, <3>3, <3>4
    <3>6. lagAfter[t] = lag[t] + shift[t]
      <4>1. lagAfter[t] = Weight[t] * vtime' - (coord[t] + ChargeOf(n, t) * Scale)
        BY <2>3, <3>3
      <4>2. lag[t] + shift[t] = (Weight[t] * vtime - coord[t])
               + (Weight[t] * (vtime' - vtime) + ChargeOf(n, t) * (-Scale))
        BY <3>3, <3>4
      <4>3. /\ Weight[t] \in Int /\ vtime \in Int /\ vtime' \in Int
            /\ coord[t] \in Int /\ ChargeOf(n, t) \in Int /\ Scale \in Int
        BY <2>2, <2>3
      <4>4. Weight[t] * vtime' - (coord[t] + ChargeOf(n, t) * Scale)
              = (Weight[t] * vtime - coord[t])
               + (Weight[t] * (vtime' - vtime) + ChargeOf(n, t) * (-Scale))
        BY <3>1, <4>3
      <4> QED
        BY <4>1, <4>2, <4>4
    <3> QED
      BY <2>3, <3>4, <3>5, <3>6
  <2>5. NTenants \in Nat /\ Tenants = 1 .. NTenants /\ Scale \in Nat
    BY SizeAssumption, ScaleAssumption DEF Tenants
  <2>6. SumOver(charge, active, NTenants) = TotalCharge(n)
    BY <1>1, ActiveBearTheCharge
  <2> HIDE DEF lag, lagAfter, share, charge, cost, shift
  <2>7. SumOver(cost, active, NTenants) = TotalCharge(n) * (-Scale)
    <3>1. -Scale \in Int
      BY <2>5
    <3>2. \A t \in 1 .. NTenants : charge[t] \in Int
      BY <2>4, <2>5
    <3>3. \A t \in 1 .. NTenants : t \in active => cost[t] = charge[t] * (-Scale)
      BY <2>4, <2>5
    <3>4. SumOver(cost, active, NTenants) = SumOver(charge, active, NTenants) * (-Scale)
      BY <2>5, <3>1, <3>2, <3>3, SumOverScale
    <3> QED
      BY <2>6, <3>4
  <2>8. SumOver(share, active, NTenants) = TotalCharge(n) * Scale
    <3>1. SumOver(share, active, NTenants) = WeightOf(active) * (vtime' - vtime)
      <4>1. vtime' - vtime \in Int
        BY <2>2
      <4>2. \A t \in 1 .. NTenants : Weight[t] \in Int
        BY <2>4, <2>5
      <4>3. \A t \in 1 .. NTenants :
               t \in active => share[t] = Weight[t] * (vtime' - vtime)
        BY <2>4, <2>5
      <4> QED
        BY <2>5, <4>1, <4>2, <4>3, SumOverScale DEF WeightOf
    <3>2. CASE TotalCharge(n) = 0
      <4>1. vtime' = vtime
        BY <2>2, <3>2 DEF VirtualTimeAfter
      <4>2. WeightOf(active) \in Int
        <5>1. \A t \in 1 .. NTenants : Weight[t] \in Int
          BY <2>4, <2>5
        <5> QED
          BY <2>5, <5>1, SumOverInt DEF WeightOf
      <4>3. \A w \in Int : w * 0 = 0 /\ 0 * w = 0
        OBVIOUS
      <4>4. vtime' - vtime = 0
        BY <2>2, <4>1
      <4> QED
        BY <3>1, <3>2, <4>2, <4>3, <4>4, <2>5
    <3>3. CASE TotalCharge(n) > 0
      <4>1. active \in SUBSET Tenants /\ active # {}
        BY <1>1, <2>2, <3>3 DEF Core, TypeOK
      <4>2. /\ unit \in Nat /\ unit * WeightOf(active) = Scale
            /\ WeightOf(active) \in Nat
        BY <4>1, ScaleDivides, WeightPositive
      <4>3. vtime' = vtime + TotalCharge(n) * unit
        BY <2>2, <3>3 DEF VirtualTimeAfter
      <4> HIDE DEF unit
      <4>4. vtime' - vtime = TotalCharge(n) * unit
        <5>1. \A a, b \in Nat : a * b \in Nat
          OBVIOUS
        <5>2. TotalCharge(n) * unit \in Nat
          BY <2>2, <4>2, <5>1
        <5> QED
          BY <2>2, <4>3, <5>2
      <4>5. \A w, a, u \in Nat : w * (a * u) = a * (u * w)
        OBVIOUS
      <4>6. WeightOf(active) * (TotalCharge(n) * unit) = TotalCharge(n) * Scale
        BY <2>2, <4>2, <4>5
      <4> QED
        BY <3>1, <4>4, <4>6
    <3> QED
      BY <2>2, <3>2, <3>3
  <2>9. SumOver(shift, active, NTenants) = 0
    <3>1. SumOver(shift, active, NTenants)
            = SumOver(share, active, NTenants) + SumOver(cost, active, NTenants)
      BY <2>4, <2>5, SumOverAdd
    <3>2. \A a, b \in Nat : a * b + a * (-b) = 0
      OBVIOUS
    <3> QED
      BY <2>2, <2>5, <2>7, <2>8, <3>1, <3>2
  <2>10. SumOver(lagAfter, active, NTenants)
           = SumOver(lag, active, NTenants) + SumOver(shift, active, NTenants)
    <3>1. \A t \in 1 .. NTenants : lag[t] \in Int /\ shift[t] \in Int
      BY <2>4, <2>5
    <3>2. \A t \in 1 .. NTenants : t \in active => lagAfter[t] = lag[t] + shift[t]
      BY <2>4, <2>5
    <3> QED
      BY <2>5, <3>1, <3>2, SumOverAdd
  <2>11. SumOver(lag, active, NTenants) \in Int
    BY <2>4, <2>5, SumOverInt
  <2> QED
    BY <2>9, <2>10, <2>11
<1>2. ASSUME Core, [Next]_vars
      PROVE  [service' # service =>
                SumOver(lagAfter, active, NTenants) = SumOver(lag, active, NTenants)]_vars
  <2> SUFFICES ASSUME service' # service, Next
               PROVE  SumOver(lagAfter, active, NTenants) = SumOver(lag, active, NTenants)
    BY <1>2
  <2>1. PICK n \in Progress, at \in Instants : AccountQuantum(n, at)
    BY DEF Next, RegisterTenant, RegisterRequest, RejectRequest, Reschedule, fairVars
  <2> HIDE DEF lag, lagAfter
  <2> QED
    BY <1>1, <1>2, <2>1
<1> QED
  BY <1>2, CoreInit, CoreStep, PTL DEF Spec, QuantumIsZeroSum

-----------------------------------------------------------------------------
\* A quantum stamps the requests that progressed and the tenants it charged,
\* and no others.
LEMMA QuantumStamps ==
  ASSUME Core, NEW n \in Progress, NEW at \in Instants, AccountQuantum(n, at)
  PROVE  /\ \A r \in Requests :
               n[r] > 0 => lastProgress'[r] = at /\ lastActive'[Owner[r]] = at
         /\ \A r \in Requests : ~(n[r] > 0) => lastProgress'[r] = lastProgress[r]
         /\ \A t \in Tenants : \/ lastActive'[t] = lastActive[t]
                                  /\ \A r \in Requests : Owner[r] = t => ~(n[r] > 0)
                               \/ lastActive'[t] = at
                                  /\ \E r \in Requests : Owner[r] = t /\ n[r] > 0
<1>1. \A r \in Requests : n[r] > 0 => MayComplete(r, n[r], at)
  BY DEF AccountQuantum
<1>2. \A r \in Requests : lastProgress'[r] = IF n[r] > 0 THEN at ELSE lastProgress[r]
  BY DEF AccountQuantum
<1>3. \A t \in Tenants :
         lastActive'[t] = IF ChargeOf(n, t) > 0 THEN at ELSE lastActive[t]
  BY DEF AccountQuantum
<1>4. ASSUME NEW r \in Requests, n[r] > 0 PROVE ChargeOf(n, Owner[r]) > 0
  BY <1>1, <1>4, QuantumCharges, PolicyAssumption
<1>5. \A t \in Tenants : ChargeOf(n, t) > 0 => \E r \in Requests : Owner[r] = t /\ n[r] > 0
  BY <1>1, QuantumCharges
<1> QED
  BY <1>2, <1>3, <1>4, <1>5, PolicyAssumption

\* Every step keeps the timestamps of a tenant and of its requests together.
LEMMA ClocksStep ==
  ASSUME Core, Core', ClocksAgree, [Next]_vars
  PROVE  ClocksAgree'
<1>1. ASSUME NEW at \in Instants PROVE at \in Nat /\ now <= at /\ at # Never
  BY InstantsAreLater DEF Core
<1>2. /\ \A r \in Requests : /\ lastProgress[r] \in Nat \cup {Never}
                             /\ arrival[r] \in Nat \cup {Never}
                             /\ Owner[r] \in Tenants
      /\ \A t \in Tenants : lastActive[t] \in Nat \cup {Never}
      /\ now \in Nat
  BY PolicyAssumption DEF Core, TypeOK
<1>3. Never \in Int /\ Never < 0
  BY DEF Never
<1>4. ASSUME NEW r \in Requests, NEW s \in NonTerminal \cup {"rejected"},
             NEW at \in Instants, RegisterRequest(r, s, at)
      PROVE  ClocksAgree'
  <2>1. /\ lastProgress' = lastProgress /\ lastActive' = lastActive /\ now' = at
        /\ \A q \in Requests : arrival'[q] = IF q = r THEN at ELSE arrival[q]
    BY <1>4 DEF RegisterRequest, Core, TypeOK
  <2>2. lastProgress[r] = Never
    BY <1>4, <1>2 DEF RegisterRequest, Core, LifecycleAgrees, ClocksAgree, Never
  <2> QED
    BY <1>1, <1>2, <1>3, <2>1, <2>2 DEF ClocksAgree
<1>5. ASSUME NEW at \in Instants, now' = at,
             UNCHANGED <<lastProgress, arrival, lastActive>>
      PROVE  ClocksAgree'
  BY <1>1, <1>2, <1>3, <1>5 DEF ClocksAgree
<1>6. ASSUME UNCHANGED <<lastProgress, arrival, lastActive, now>>
      PROVE  ClocksAgree'
  BY <1>6 DEF ClocksAgree
<1>7. ASSUME NEW n \in Progress, NEW at \in Instants, AccountQuantum(n, at)
      PROVE  ClocksAgree'
  <2>1. at \in Nat /\ now <= at /\ at # Never
    BY <1>1
  <2>2. /\ \A r \in Requests :
              n[r] > 0 => lastProgress'[r] = at /\ lastActive'[Owner[r]] = at
        /\ \A r \in Requests : ~(n[r] > 0) => lastProgress'[r] = lastProgress[r]
        /\ \A t \in Tenants : \/ lastActive'[t] = lastActive[t]
                                 /\ \A r \in Requests : Owner[r] = t => ~(n[r] > 0)
                              \/ lastActive'[t] = at
                                 /\ \E r \in Requests : Owner[r] = t /\ n[r] > 0
    BY <1>7, QuantumStamps
  <2>3. /\ arrival' = arrival /\ now' = at
        /\ \A r \in Requests : n[r] > 0 => arrival[r] \in 0 .. at
    <3>1. \A r \in Requests : status[r] = "runnable" => arrival[r] # Never
      BY DEF Core, LifecycleAgrees
    <3> QED
      BY <1>7, <1>2, <2>1, <3>1 DEF AccountQuantum, MayComplete
  <2>4. \A r \in Requests : lastProgress'[r] <= now' /\ arrival'[r] <= now'
    BY <1>2, <1>3, <2>1, <2>2, <2>3 DEF ClocksAgree
  <2>5. \A r \in Requests : lastProgress'[r] # Never => arrival'[r] \in 0 .. lastProgress'[r]
    BY <1>2, <2>1, <2>2, <2>3 DEF ClocksAgree
  <2>6. \A t \in Tenants : lastActive'[t] <= now'
    BY <1>2, <1>3, <2>1, <2>2, <2>3 DEF ClocksAgree
  <2>7. ASSUME NEW r \in Requests PROVE lastProgress'[r] <= lastActive'[Owner[r]]
    BY <1>2, <1>3, <2>1, <2>2 DEF ClocksAgree
  <2>8. ASSUME NEW t \in Tenants, lastActive'[t] # Never
        PROVE  \E r \in Requests : Owner[r] = t /\ lastProgress'[r] = lastActive'[t]
    BY <2>2, <2>8 DEF ClocksAgree
  <2> QED
    BY <2>4, <2>5, <2>6, <2>7, <2>8 DEF ClocksAgree
<1> QED
  BY <1>4, <1>5, <1>6, <1>7
  DEF Next, RegisterTenant, RejectRequest, Reschedule, vars, fairVars, requestVars

\* The completion-time checks (accounting.py:594-610) keep the two clocks of a
\* tenant in step: its last activity is the last progress of one of its requests.
THEOREM ClocksInvariant == Spec => []ClocksAgree
<1>1. Init => ClocksAgree
  BY PolicyAssumption DEF Init, ClocksAgree, Never
<1> QED
  BY <1>1, CoreInit, CoreStep, ClocksStep, PTL DEF Spec
=============================================================================
