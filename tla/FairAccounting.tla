--------------------------- MODULE FairAccounting ---------------------------
(***************************************************************************)
(* The scheduler state of burstserve.sim and the pure transitions of       *)
(* sim/accounting.py that charge canonical service: tenants register,      *)
(* wake on a new backlogged request, are charged for the steps their       *)
(* requests complete, and sleep when their last request is terminal.       *)
(*                                                                         *)
(* The code computes with exact rationals.  Here every fair quantity is an *)
(* integer number of 1/Scale units, where Scale is a common multiple of    *)
(* the total weights of all sets of tenants, so total / active_weights is  *)
(* exact too.  Weights are integers: a common factor of all weights only   *)
(* changes the unit of the virtual time.                                   *)
(*                                                                         *)
(* Tenants and requests are their positions in the identifier order that   *)
(* SchedulerState keeps them in.                                           *)
(***************************************************************************)
EXTENDS FiniteSums, FiniteSets

CONSTANTS
    NTenants,       \* number of tenants
    NRequests,      \* number of requests
    Weight,         \* Weight[t]: TenantPolicy.weight
    Owner,          \* Owner[r]: RequestSpec.tenant_id
    Steps,          \* Steps[r]: RequestSpec.signature.total_steps
    CumCost,        \* CumCost[r][k]: canonical cost of the first k steps of r
    MaximumCredit,  \* maximum_credit_ns of a waking tenant
    Scale,          \* fair units per nanosecond
    MaxTime,        \* bound on the clock
    MaxQuantum      \* bound on the steps one request completes in a quantum

Tenants  == 1 .. NTenants
Requests == 1 .. NRequests

\* The weight of a set of tenants.
WeightOf(A) == SumOver(Weight, A, NTenants)

ASSUME SizeAssumption ==
    /\ NTenants \in Nat \ {0} /\ NRequests \in Nat \ {0}
    /\ MaximumCredit \in Nat /\ MaxTime \in Nat /\ MaxQuantum \in Nat \ {0}

ASSUME PolicyAssumption ==
    /\ Weight \in [Tenants -> Nat \ {0}]
    /\ Owner \in [Requests -> Tenants]
    /\ Steps \in [Requests -> Nat \ {0}]

\* Every step costs at least one nanosecond (profile.canonical_step_ns).
ASSUME ProfileAssumption ==
    \A r \in Requests :
        /\ CumCost[r][0] = 0
        /\ \A i \in 0 .. Steps[r] :
              /\ CumCost[r][i] \in Nat
              /\ \A j \in 0 .. Steps[r] : i < j => CumCost[r][i] < CumCost[r][j]

ASSUME ScaleAssumption ==
    /\ Scale \in Nat \ {0}
    /\ \A A \in SUBSET Tenants :
          A # {} => \E k \in 1 .. Scale : Scale = k * WeightOf(A)

VARIABLES
    registered,   \* the tenants of SchedulerState.tenants
    active,       \* the tenants whose TenantState.active is set
    vtime,        \* GlobalFairState.virtual_time, in fair units
    coord,        \* TenantLedger.fair_service_coordinate, in fair units
    service,      \* TenantLedger.canonical_service_ns
    status,       \* RequestState.status, or "absent" before registration
    done,         \* RequestState.completed_steps
    arrival,      \* RequestSpec.arrival_ns
    lastProgress, \* RequestState.last_progress_ns
    lastActive,   \* TenantLedger.last_active_ns
    now           \* SchedulerState.current_time_ns

fairVars == <<vtime, coord, service, lastActive>>
requestVars == <<status, done, arrival, lastProgress>>
vars == <<registered, active, fairVars, requestVars, now>>

\* None for a timestamp that was never set: before every instant.
Never == -1

\* A "queued" request may not run (queued, suspended); a "runnable" one may
\* (runnable, running).  "absent" is no status of the code.
NonTerminal == {"queued", "runnable"}
Terminal    == {"completed", "rejected"}
Statuses    == {"absent"} \cup NonTerminal \cup Terminal

\* Mutant of Instants: the check against a regressing clock is dropped.
AnyInstant == 0 .. MaxTime

\* Instants an operation may carry: never before the scheduler's clock.
Instants == now .. MaxTime

Init ==
    /\ registered = {}
    /\ active = {}
    /\ vtime = 0
    /\ coord = [t \in Tenants |-> 0]
    /\ service = [t \in Tenants |-> 0]
    /\ status = [r \in Requests |-> "absent"]
    /\ done = [r \in Requests |-> 0]
    /\ arrival = [r \in Requests |-> Never]
    /\ lastProgress = [r \in Requests |-> Never]
    /\ lastActive = [t \in Tenants |-> Never]
    /\ now = 0

-----------------------------------------------------------------------------
\* The coordinate at which a tenant has neither credit nor debt.
ZeroLag(t) == Weight[t] * vtime

\* service_lag: what the tenant is owed (positive) or has overdrawn.
Lag(t) == ZeroLag(t) - coord[t]

\* Mutants of WakeCoordinate: no cap on the credit; the coordinate may move back;
\* no floor at all.
WakeUncapped(t)  == coord[t]
WakeForgetful(t) == MaxOf(0, ZeroLag(t) - MaximumCredit * Scale)
WakeUnfloored(t) == ZeroLag(t) - MaximumCredit * Scale

\* The coordinate of a tenant that wakes: its lag is cut to the credit cap,
\* and it never moves back.
WakeCoordinate(t) ==
    MaxOf(coord[t], MaxOf(0, ZeroLag(t) - MaximumCredit * Scale))

\* The tenants that own a non-terminal request under the statuses st.
Backlogged(st) == {Owner[r] : r \in {q \in Requests : st[q] \in NonTerminal}}

\* Mutant of ActiveAfter: the active set is not recomputed.
ActiveUnchanged(st) == active

\* The active set a transition leaves behind, from the whole backlog.
ActiveAfter(st) == registered \cap Backlogged(st)

\* register_tenant: a sleeping tenant at zero lag.
RegisterTenant(t) ==
    /\ t \notin registered
    /\ registered' = registered \cup {t}
    /\ coord' = [coord EXCEPT ![t] = ZeroLag(t)]
    /\ UNCHANGED <<active, vtime, service, lastActive, requestVars, now>>

\* wake_tenant: the ledger and the active flag of a tenant whose first
\* backlogged request arrives.
WakeTenant(t) ==
    /\ active' = active \cup {t}
    /\ coord' = [coord EXCEPT ![t] = WakeCoordinate(t)]

\* register_request: an arrival in status s at instant at. It is a request on
\* which nothing was done yet, which the code expects but does not check.
RegisterRequest(r, s, at) ==
    /\ status[r] = "absent"
    /\ Owner[r] \in registered
    /\ status' = [status EXCEPT ![r] = s]
    /\ arrival' = [arrival EXCEPT ![r] = at]
    /\ now' = at
    /\ IF s \in NonTerminal /\ Owner[r] \notin active
       THEN WakeTenant(Owner[r])
       ELSE UNCHANGED <<active, coord>>
    /\ UNCHANGED <<registered, vtime, service, lastActive, done, lastProgress>>

\* reject_request: the active set is recomputed from the whole backlog.
RejectRequest(r, at) ==
    /\ status[r] \in NonTerminal
    /\ status' = [status EXCEPT ![r] = "rejected"]
    /\ active' = ActiveAfter(status')
    /\ now' = at
    /\ UNCHANGED <<registered, fairVars, done, arrival, lastProgress>>

\* External: the caller rebuilds the state with a request made (un)runnable.
Reschedule(r, s) ==
    /\ status[r] \in NonTerminal \ {s}
    /\ status' = [status EXCEPT ![r] = s]
    /\ UNCHANGED <<registered, active, fairVars, done, arrival, lastProgress, now>>

-----------------------------------------------------------------------------
\* Mutant of Charges: the steps are counted from the start of the request.
ChargesFromStart(n) == [r \in Requests |-> CumCost[r][n[r]] - CumCost[r][0]]

\* The canonical charge of n[r] further steps of r.
Charges(n) == [r \in Requests |-> CumCost[r][done[r] + n[r]] - CumCost[r][done[r]]]

\* The charges that fall on one tenant.
ChargeOf(n, t) == SumOver(Charges(n), {r \in Requests : Owner[r] = t}, NRequests)

TotalCharge(n) == SumTo(Charges(n), NRequests)

\* _account_quantum_completed_steps' checks on request r of a quantum that
\* ends at instant at.
MayComplete(r, k, at) ==
    /\ status[r] = "runnable"
    /\ Owner[r] \in active
    /\ k <= Steps[r] - done[r]
    /\ at >= arrival[r]
    /\ at >= lastProgress[r]
    /\ at >= lastActive[Owner[r]]

\* Mutant of VirtualTimeAfter: the weight of all registered tenants.
VirtualTimeOverAll(n) ==
    IF TotalCharge(n) = 0 THEN vtime
    ELSE vtime + TotalCharge(n) * (Scale \div WeightOf(registered))

\* Where the virtual time stands after the charges of n: it moves by the total
\* charge over the weight of the tenants active at the START of the quantum.
VirtualTimeAfter(n) ==
    IF TotalCharge(n) = 0 THEN vtime
    ELSE vtime + TotalCharge(n) * (Scale \div WeightOf(active))

\* Mutant of StatusAfter: the last step is not recognised.
StatusNeverCompleted(r, n) == IF n[r] = 0 THEN status[r] ELSE "runnable"

\* The status of r once n[r] further steps are done.
StatusAfter(r, n) ==
    IF n[r] = 0 THEN status[r]
    ELSE IF done[r] + n[r] = Steps[r] THEN "completed" ELSE "runnable"

\* _account_quantum_completed_steps: n[r] steps of each request complete at
\* instant at.  With no completion at all only the clock moves.
AccountQuantum(n, at) ==
    /\ \A r \in Requests : n[r] > 0 => MayComplete(r, n[r], at)
    /\ done' = [r \in Requests |-> done[r] + n[r]]
    /\ status' = [r \in Requests |-> StatusAfter(r, n)]
    /\ lastProgress' = [r \in Requests |-> IF n[r] > 0 THEN at ELSE lastProgress[r]]
    /\ service' = [t \in Tenants |-> service[t] + ChargeOf(n, t)]
    /\ coord' = [t \in Tenants |-> coord[t] + ChargeOf(n, t) * Scale]
    /\ lastActive' = [t \in Tenants |-> IF ChargeOf(n, t) > 0 THEN at ELSE lastActive[t]]
    /\ vtime' = VirtualTimeAfter(n)
    /\ active' = ActiveAfter(status')
    /\ now' = at
    /\ UNCHANGED <<registered, arrival>>

\* The progress reports a quantum may carry.
Progress == [Requests -> 0 .. MaxQuantum]

Next ==
    \/ \E t \in Tenants : RegisterTenant(t)
    \/ \E r \in Requests, s \in NonTerminal \cup {"rejected"}, at \in Instants :
          RegisterRequest(r, s, at)
    \/ \E r \in Requests, at \in Instants : RejectRequest(r, at)
    \/ \E r \in Requests, s \in NonTerminal : Reschedule(r, s)
    \/ \E n \in Progress, at \in Instants : AccountQuantum(n, at)

Spec == Init /\ [][Next]_vars

-----------------------------------------------------------------------------
TypeOK ==
    /\ registered \subseteq Tenants
    /\ active \subseteq Tenants
    /\ vtime \in Nat
    /\ coord \in [Tenants -> Nat]
    /\ service \in [Tenants -> Nat]
    /\ status \in [Requests -> Statuses]
    /\ done \in [Requests -> Nat]
    /\ arrival \in [Requests -> Nat \cup {Never}]
    /\ lastProgress \in [Requests -> Nat \cup {Never}]
    /\ lastActive \in [Tenants -> Nat \cup {Never}]
    /\ now \in Nat

\* SchedulerState.__post_init__ (model.py:1562): the active set is exactly the
\* set of tenants with a non-terminal request, after every transition.
ActiveIsBacklog == active = Backlogged(status)

\* The lifecycle of a request agrees with its progress: "completed" exactly
\* when all steps are done, and progress only after arrival.
LifecycleAgrees ==
    \A r \in Requests :
        /\ done[r] <= Steps[r]
        /\ status[r] = "completed" <=> done[r] = Steps[r]
        /\ done[r] > 0 <=> lastProgress[r] # Never
        /\ status[r] = "absent" <=> arrival[r] = Never
        /\ status[r] # "absent" => Owner[r] \in registered

\* Every timestamp is in the past of the clock, and a tenant was last active
\* exactly when one of its requests last progressed: no quantum is dated before
\* an earlier one of the same tenant.
ClocksAgree ==
    /\ \A r \in Requests : lastProgress[r] <= now /\ arrival[r] <= now
    /\ \A r \in Requests : lastProgress[r] # Never => arrival[r] \in 0 .. lastProgress[r]
    /\ \A t \in Tenants : lastActive[t] <= now
    /\ \A r \in Requests : lastProgress[r] <= lastActive[Owner[r]]
    /\ \A t \in Tenants : lastActive[t] # Never =>
          \E r \in Requests : Owner[r] = t /\ lastProgress[r] = lastActive[t]

\* Canonical service is the cost of exactly the completed steps: however the
\* steps are cut into quanta, each is charged once, to its owner.
ServiceIsCompletedWork ==
    \A t \in Tenants :
        service[t] = SumOver([r \in Requests |-> CumCost[r][done[r]]],
                             {r \in Requests : Owner[r] = t}, NRequests)

\* A tenant's fair coordinate never understates what it was charged: waking may
\* forgive credit, never a charge.
ChargesAreKept == \A t \in Tenants : coord[t] >= service[t] * Scale

\* A quantum redistributes lag among the tenants active at its start and
\* creates none: what the served gain the others are owed.
QuantumIsZeroSum ==
    [][service' # service =>
         SumOver([t \in Tenants |-> Lag(t)'], active, NTenants)
           = SumOver([t \in Tenants |-> Lag(t)], active, NTenants)]_vars

\* A waking tenant brings back at most the credit cap, and no more than it was
\* owed: sleeping neither banks credit nor launders an overdraft.
WakeCreditIsBounded ==
    [][\A t \in active' \ active :
          Lag(t)' <= MaximumCredit * Scale /\ Lag(t)' <= Lag(t)]_vars
=============================================================================
