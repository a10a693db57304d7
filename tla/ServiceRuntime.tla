--------------------------- MODULE ServiceRuntime ---------------------------
(***************************************************************************)
(* runtime.py: the scheduling loop.  A round (Runtime.tick) asks the       *)
(* policy for a grant over the offered requests, narrows it to a serial    *)
(* one when the co-run cannot be vouched for, advances the step executors  *)
(* (executor.py), charges every step, returns unfinished requests to their *)
(* queues and judges drift.  A step of the round can raise; the callers of *)
(* tick let the exception end the process.                                 *)
(*                                                                         *)
(* The policy is any function that obeys the contract of policies.py: it   *)
(* grants some of the offered requests widths that fit the die.            *)
(*                                                                         *)
(* Times are integers.  StepCost and PairCost are QuotaCostModel and its   *)
(* product with externality(); a pair outside PairCost is unmeasured.      *)
(***************************************************************************)
EXTENDS TenantQueues, FiniteSetsExt, Functions

CONSTANTS
    Units,              \* maskable_units
    Widths,             \* the widths a policy grants
    Steps,              \* Steps[r]: QueuedRequest.steps
    Model,              \* Model[r]: QueuedRequest.model
    StepCost,           \* StepCost[m][w]: a step of m alone on w units
    PairCost,           \* PairCost[m][<<w, p>>]: a step of m on w units beside p
    Believed,           \* the widths with a predicted step cost
    Reports,            \* Reports[m][w]: durations an adapter may measure
    Skew,               \* 100 * (1 + predictor_error)
    Currency,           \* charge_currency
    RequestsPerTenant,  \* requests_per_tenant
    MaxSteps,           \* max_steps_per_round
    DriftTolerance,     \* drift_tolerance, in percent
    Backoff,            \* fallback_backoff_s
    MaxBackoff,         \* max_fallback_backoff_s
    MaxGap,             \* bound on the time between two rounds
    MaxNow              \* where the clock stops

ASSUME RuntimeAssumption ==
    /\ Units \in Widths /\ Widths \subseteq 1 .. Units
    /\ Steps \in [Requests -> Nat \ {0}]
    /\ Currency \in {"quota-seconds", "wall-seconds", "step-count"}
    /\ RequestsPerTenant \in Nat \ {0} /\ MaxSteps \in Nat \ {0}
    /\ Backoff \in Nat \ {0} /\ MaxBackoff \in Nat \ {0}
    /\ MaxGap \in Nat \ {0} /\ MaxNow \in Nat

\* What the tables hold, for the requests there are.
ASSUME TableAssumption ==
    /\ IsFiniteSet(Requests)
    /\ \A r \in Requests :
          /\ StepCost[Model[r]] \in [Widths -> Nat \ {0}]
          /\ \A p \in DOMAIN PairCost[Model[r]] : PairCost[Model[r]][p] \in Nat
          /\ \A w \in Widths : Reports[Model[r]][w] \subseteq Nat
    /\ Backoff <= MaxBackoff

VARIABLES
    executors,  \* the keys of Runtime.executors
    phase,      \* StepExecutor.phase, "none" before the request is submitted
    stepsDone,  \* StepExecutor.steps_done
    seen,       \* last_step_seconds and last_step_units of an executor
    charge,     \* quota_seconds_by_tenant
    holds,      \* Runtime._fallbacks
    now,        \* the now_s of the current or of the last round
    mode,       \* "idle" between rounds, "round", or "aborted" by an exception
    granted,    \* the grant of the current round
    todo,       \* the granted requests the round has still to serve
    stepsRun,   \* RoundRecord.steps_run of the current round
    modelled    \* the requests a step of the round was charged from the model

executorVars == <<executors, phase, stepsDone, seen, charge>>
roundVars    == <<mode, granted, todo, stepsRun, modelled>>
serviceVars  == <<queueVars, executorVars, roundVars, holds, now>>

NoGrant == [r \in {} |-> 0]

ServiceInit ==
    /\ QueueInit
    /\ executors = {}
    /\ phase = [r \in Requests |-> "none"]
    /\ stepsDone = [r \in Requests |-> 0]
    /\ seen = [r \in Requests |-> <<>>]
    /\ charge = [t \in Tenants |-> 0]
    /\ holds = <<>>
    /\ now = 0
    /\ mode = "idle" /\ granted = NoGrant /\ todo = {}
    /\ stepsRun = [r \in Requests |-> 0]
    /\ modelled = {}

-----------------------------------------------------------------------------
\* The grants the policy contract allows over the offered requests.
Grants(offered) ==
    IF offered = {} THEN {NoGrant}
    ELSE {g \in UNION {[S -> Widths] : S \in SUBSET offered \ {{}}} :
             FoldFunction(+, 0, g) <= Units}

Size(g) == Cardinality(DOMAIN g)

\* The key a pairing is held under: the widths, sorted.
Key(g) == [w \in Widths |-> Cardinality({r \in DOMAIN g : g[r] = w})]

\* The width the one other member of a pair is granted.
PeerWidth(g, r) == g[CHOOSE q \in DOMAIN g : q # r]

\* Both members of the pair g have a measured externality.
IsMeasuredPair(g) ==
    \A r \in DOMAIN g : <<g[r], PeerWidth(g, r)>> \in DOMAIN PairCost[Model[r]]

\* The granted request whose tenant has the least charge.
FurthestBehind(g) ==
    CHOOSE r \in DOMAIN g :
        \A q \in DOMAIN g :
            \/ charge[Owner[r]] < charge[Owner[q]]
            \/ charge[Owner[r]] = charge[Owner[q]] /\ r <= q

\* _to_serial: the whole die to the request furthest behind.
ToSerial(g) == [r \in {FurthestBehind(g)} |-> Units]

\* Mutant of IsHeld: a hold is taken for expired.
NeverHeld(g, at) == FALSE

\* A refused pairing that is still within its backoff.
IsHeld(g, at) ==
    /\ Size(g) >= 2
    /\ Key(g) \in DOMAIN holds
    /\ at < holds[Key(g)].until

\* Mutant of IsUnvouched: the profile of the pair is not looked up.
NeverUnvouched(g) == FALSE

\* The profile of a pair is missing.  Only pairs are looked up.
IsUnvouched(g) == Size(g) = 2 /\ ~IsMeasuredPair(g)

\* _hold: the holds after refusing the widths k at an instant.
Hold(k, at) ==
    LET backoff == IF k \in DOMAIN holds
                   THEN Min({MaxBackoff, 2 * holds[k].backoff})
                   ELSE Backoff
    IN  [x \in DOMAIN holds \cup {k} |->
            IF x = k THEN [backoff |-> backoff, until |-> at + backoff]
                     ELSE holds[x]]

\* The believed cost of a step of r on its granted width.
Belief(r) == StepCost[Model[r]][granted[r]]

IsBelieved == \A r \in DOMAIN granted : granted[r] \in Believed
Slowest == Max({Belief(r) : r \in DOMAIN granted})

\* Mutant of Batch: the ratio is rounded up.
BatchRoundedUp(r) == (Slowest + Belief(r) - 1) \div Belief(r)

\* How many steps of r fit in the slowest step of the round.
Batch(r) == Slowest \div Belief(r)

\* _step_budget: the steps r runs in this round.
Budget(r) ==
    IF MaxSteps > 1 /\ Size(granted) >= 2 /\ IsBelieved
    THEN Max({1, Min({MaxSteps, Batch(r)})})
    ELSE 1

\* The accounting currency.
Charge(w, seconds) ==
    CASE Currency = "quota-seconds" -> w * seconds
      [] Currency = "wall-seconds"  -> seconds
      [] Currency = "step-count"    -> 1

\* What a step costs when no measurement can be used: the cost model, with
\* the externality of a measured pair and with no factor otherwise.
ModelCost(r) ==
    LET pairCost == PairCost[Model[r]]
    IN  IF Size(granted) = 2 /\ <<granted[r], PeerWidth(granted, r)>> \in DOMAIN pairCost
        THEN pairCost[<<granted[r], PeerWidth(granted, r)>>]
        ELSE Belief(r)

-----------------------------------------------------------------------------
\* Runtime.submit.  The drivers submit in arrival order, and number the
\* requests in that order.
Submit(r) ==
    /\ mode = "idle"
    /\ \A q \in Requests : q < r => q \in admitted
    /\ Admit(r)
    /\ executors' = executors \cup {r}
    /\ phase' = [phase EXCEPT ![r] = "created"]
    /\ UNCHANGED <<stepsDone, seen, charge, holds, now, roundVars>>

\* The instants a next round can start at: time moves on until the bound.
Instants == IF now >= MaxNow THEN {now} ELSE {now + d : d \in 1 .. MaxGap}

\* The first half of tick: prepare what is offered, take the policy's grant g
\* and narrow it when it is a co-run that is held or has no profile.
Decide(g, at) ==
    LET offered == Offered(at, RequestsPerTenant)
    IN  /\ mode = "idle"
        /\ g \in Grants(offered)
        /\ now' = at
        /\ phase' = [r \in Requests |->
               IF r \in offered /\ phase[r] = "created" THEN "prepared" ELSE phase[r]]
        /\ \/ /\ IsHeld(g, at)
              /\ granted' = ToSerial(g)
              /\ UNCHANGED holds
           \/ /\ ~IsHeld(g, at) /\ IsUnvouched(g)
              /\ granted' = ToSerial(g)
              /\ holds' = Hold(Key(g), at)
           \/ /\ ~IsHeld(g, at) /\ ~IsUnvouched(g)
              /\ granted' = g
              /\ UNCHANGED holds
        /\ todo' = DOMAIN granted'
        /\ mode' = "round"
        /\ UNCHANGED <<queueVars, executors, stepsDone, seen, charge, stepsRun, modelled>>

\* initial_state raises on an offered request, or does not start at step 0.
AbortPreparing(at) ==
    LET fresh == {r \in Offered(at, RequestsPerTenant) : phase[r] = "created"}
    IN  /\ mode = "idle"
        /\ now' = at
        /\ \E r \in fresh : \E S \in SUBSET (fresh \ {r}) :
              phase' = [q \in Requests |-> IF q \in S THEN "prepared" ELSE phase[q]]
        /\ mode' = "aborted"
        /\ UNCHANGED <<queueVars, executors, stepsDone, seen, charge, holds, granted,
                       todo, stepsRun, modelled>>

\* The grants are served in the order of their identifiers.
IsNext(r) == mode = "round" /\ r \in todo /\ \A q \in todo : r <= q

\* A granted request leaves its queue's waiting list.
StartNext(r) ==
    /\ IsNext(r) /\ r \notin inFlight
    /\ Start(r)
    /\ UNCHANGED <<executorVars, roundVars, holds, now>>

\* What a step of r may be charged as: what the adapter measured at the granted
\* width, or the cost model when it reports nothing or another width.
Charged(r) ==
    {[seconds |-> s, source |-> "measurement"] : s \in Reports[Model[r]][granted[r]]}
        \cup {[seconds |-> ModelCost(r), source |-> "model"]}

\* A step of r that leaves its executor in the phase p, and its accounts.
Step(r, p) ==
    /\ IsNext(r) /\ r \in inFlight
    /\ phase' = [phase EXCEPT ![r] = p]
    /\ stepsDone' = [stepsDone EXCEPT ![r] = @ + 1]
    /\ stepsRun' = [stepsRun EXCEPT ![r] = @ + 1]
    /\ \E c \in Charged(r) :
          /\ seen' = [seen EXCEPT ![r] = <<c.seconds, granted[r]>>]
          /\ charge' = [charge EXCEPT ![Owner[r]] = @ + Charge(granted[r], c.seconds)]
          /\ modelled' = IF c.source = "model" THEN modelled \cup {r} ELSE modelled

\* Mutant of IsLastStep: one step too many.
IsPastLastStep(r) == stepsDone[r] = Steps[r]

IsLastStep(r) == stepsDone[r] + 1 = Steps[r]

\* Mutant of AfterRetiring: a finished request keeps its executor.
NeverRetiring(r) == executors

\* retire: a finished request's executor, with its adapter, is released.
AfterRetiring(r) == executors \ {r}

\* run_step with more steps to go; the batch of r goes on within its budget.
Advance(r) ==
    /\ ~IsLastStep(r)
    /\ Step(r, "running")
    /\ todo' = IF stepsRun'[r] < Budget(r) THEN todo ELSE todo \ {r}
    /\ UNCHANGED <<queueVars, executors, mode, granted, holds, now>>

\* run_step on the last step: finalize, finish and retire, whatever is left of
\* the budget.
Complete(r) ==
    /\ IsLastStep(r)
    /\ Step(r, "finished")
    /\ Finish(r)
    /\ executors' = AfterRetiring(r)
    /\ todo' = todo \ {r}
    /\ UNCHANGED <<mode, granted, holds, now>>

\* An exception out of the round of r: denoise_one raises; the step index is
\* not the one expected; or decode raises once the last step is charged.
Abort(r) ==
    /\ \/ /\ IsNext(r) /\ r \in inFlight
          /\ phase' = [phase EXCEPT ![r] = "running"]
          /\ stepsDone' \in {stepsDone, [stepsDone EXCEPT ![r] = @ + 1]}
          /\ UNCHANGED <<seen, charge, stepsRun, modelled>>
       \/ IsLastStep(r) /\ Step(r, "running")
    /\ mode' = "aborted"
    /\ UNCHANGED <<queueVars, executors, granted, todo, holds, now>>

\* What goes back to waiting at the round boundary: all that is in flight.
Leftover == inFlight

IsServed == mode = "round" /\ todo = {}

SuspendLeftover(r) ==
    /\ IsServed /\ r \in Leftover
    /\ Suspend(r)
    /\ UNCHANGED <<executorVars, roundVars, holds, now>>

\* A granted step ran over its paired expectation by more than the tolerance.
\* The peer of a request is the first other one of the grant; the policy
\* listed a first and b second.
Overran(a, b) ==
    \E r \in DOMAIN granted :
        LET peer == IF r = a THEN b ELSE a
            pair == <<granted[r], granted[peer]>>
        IN  /\ granted[r] \in Believed
            /\ pair \in DOMAIN PairCost[Model[r]]
            /\ 10000 * seen[r][1]
                 > PairCost[Model[r]][pair] * Skew * (100 + DriftTolerance)

\* The end of tick: judge drift, write the record, rotate the tenants.
CloseRound ==
    /\ IsServed /\ Leftover = {}
    /\ IF Size(granted) >= 2
       THEN \E a, b \in DOMAIN granted :
               /\ a # b
               /\ holds' = IF Overran(a, b) THEN Hold(Key(granted), now) ELSE holds
       ELSE UNCHANGED holds
    /\ Rotate
    /\ seen' = [r \in Requests |-> IF r \in executors THEN seen[r] ELSE <<>>]
    /\ mode' = "idle" /\ granted' = NoGrant
    /\ stepsRun' = [r \in Requests |-> 0]
    /\ modelled' = {}
    /\ UNCHANGED <<executors, phase, stepsDone, charge, todo, now>>

\* The process is gone.
Stopped == mode = "aborted" /\ UNCHANGED serviceVars

\* The loop of a driver that calls tick again and again.
Loop ==
    \/ \E at \in Instants : \E g \in Grants(Offered(at, RequestsPerTenant)) :
          Decide(g, at)
    \/ \E at \in Instants : AbortPreparing(at)
    \/ \E r \in Requests :
          StartNext(r) \/ Advance(r) \/ Complete(r) \/ Abort(r) \/ SuspendLeftover(r)
    \/ CloseRound

ServiceNext == Loop \/ Stopped \/ \E r \in Requests : Submit(r)

ServiceSpec == ServiceInit /\ [][ServiceNext]_serviceVars

\* One thread runs the loop: it never stops between two of its steps.
FairServiceSpec == ServiceSpec /\ WF_serviceVars(Loop)

-----------------------------------------------------------------------------
Phases == {"none", "created", "prepared", "running", "finished"}

\* Type invariant.  A hold is never longer than the largest backoff, and what
\* is still to be served was granted.
ServiceTypeOK ==
    /\ executors \subseteq Requests
    /\ phase \in [Requests -> Phases]
    /\ stepsDone \in [Requests -> Nat]
    /\ \A r \in Requests : stepsDone[r] <= Steps[r]
    /\ charge \in [Tenants -> Nat]
    /\ \A k \in DOMAIN holds :
          holds[k].backoff \in 1 .. MaxBackoff /\ holds[k].until \in Nat
    /\ now \in 0 .. MaxNow + MaxGap
    /\ mode \in {"idle", "round", "aborted"}
    /\ DOMAIN granted \subseteq Requests
    /\ \A r \in DOMAIN granted : granted[r] \in Widths
    /\ todo \subseteq DOMAIN granted

\* The queues, the executors and the lifecycles tell one story: a request has
\* an executor exactly while it is owed service, even after an aborted round;
\* it is finished exactly when it has run all its steps and its executor was
\* released; and between rounds nothing is in flight.
NothingStranded ==
    /\ executors = waiting \cup inFlight
    /\ \A r \in Requests :
          /\ r \in finished <=> phase[r] = "finished"
          /\ r \in finished => stepsDone[r] = Steps[r]
          /\ phase[r] \in {"none", "created", "prepared"} => stepsDone[r] = 0
    /\ mode = "idle" => inFlight = {}
    /\ inFlight \subseteq DOMAIN granted

\* adapter_slot of the matrix driver: which of its tenant's adapters serves r.
Slot(r) == r % RequestsPerTenant

\* "One adapter per in-flight slot": two requests of a tenant that are both
\* under way never share an adapter.
SlotsAreExclusive ==
    \A q, r \in executors :
        /\ q # r /\ Owner[q] = Owner[r]
        /\ phase[q] = "running" /\ phase[r] = "running"
        => Slot(q) # Slot(r)

\* No co-run is charged an invented factor: while several requests run
\* together, a step is charged from the cost model only when the model has the
\* measured externality of that co-run.
NoInventedFactor ==
    mode = "round" /\ Size(granted) >= 2 /\ modelled # {} =>
        Size(granted) = 2 /\ IsMeasuredPair(granted)

\* A pairing that drifted, or that has no profile, is not run again before its
\* backoff has passed.
HeldPairingWaits ==
    mode = "round" /\ Size(granted) >= 2 =>
        \/ Key(granted) \notin DOMAIN holds
        \/ holds[Key(granted)].until <= now

\* A batch never overshoots its slowest peer: however many steps a request runs
\* in a round, they are believed to fit in the longest single step of it.
NoOvershoot ==
    mode = "round" /\ Size(granted) >= 2 /\ IsBelieved =>
        \A r \in DOMAIN granted : stepsRun[r] * Belief(r) <= Slowest

\* Every submitted request is eventually served to the end, whatever the policy
\* grants within its contract and whatever is held, unless a round aborts.
EveryRequestServed ==
    \A r \in Requests :
        r \in executors ~> (r \in finished \/ mode = "aborted")
=============================================================================
