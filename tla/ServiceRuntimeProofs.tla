------------------------ MODULE ServiceRuntimeProofs ------------------------
(***************************************************************************)
(* The scheduling loop uses the queues only through their own operations,  *)
(* so what is proved of the queues holds of the loop; and with it, the     *)
(* agreement of queues, executors and lifecycles is proved, as is that a   *)
(* refused pairing stays refused until its backoff has passed.             *)
(*                                                                         *)
(* Then what the loop keeps within bounds, for every policy: the types of  *)
(* its state, the batches of a co-run, and, when each tenant is offered    *)
(* one request at a time, the adapter of a tenant and the factors a co-run *)
(* of two tenants is charged with.                                         *)
(***************************************************************************)
EXTENDS ServiceRuntime, TenantQueuesProofs, ArithmeticTheorems, FiniteSetTheorems

-----------------------------------------------------------------------------
(* The loop implements the queues.                                         *)

\* Every step of the loop is an operation of the queues or leaves them alone.
LEMMA QueueUse ==
    ASSUME [ServiceNext]_serviceVars
    PROVE  [QueueNext]_queueVars
<1>1. ASSUME NEW r \in Requests, Submit(r)
      PROVE  QueueNext
    BY <1>1 DEF Submit, QueueNext
<1>2. ASSUME NEW r \in Requests, StartNext(r)
      PROVE  QueueNext
    BY <1>2 DEF StartNext, QueueNext
<1>3. ASSUME NEW r \in Requests, Complete(r)
      PROVE  QueueNext
    BY <1>3 DEF Complete, QueueNext
<1>4. ASSUME NEW r \in Requests, SuspendLeftover(r)
      PROVE  QueueNext
    BY <1>4 DEF SuspendLeftover, QueueNext
<1>5. ASSUME CloseRound
      PROVE  QueueNext
    BY <1>5 DEF CloseRound, QueueNext
<1>6. ASSUME NEW g, NEW at, Decide(g, at)
      PROVE  UNCHANGED queueVars
    BY <1>6 DEF Decide
<1>7. ASSUME NEW r \in Requests, Advance(r) \/ Abort(r)
      PROVE  UNCHANGED queueVars
    BY <1>7 DEF Advance, Abort
<1>8. ASSUME NEW at, AbortPreparing(at)
      PROVE  UNCHANGED queueVars
    BY <1>8 DEF AbortPreparing
<1>9. CASE Stopped \/ UNCHANGED serviceVars
    BY <1>9 DEF Stopped, serviceVars
<1> QED
    BY <1>1, <1>2, <1>3, <1>4, <1>5, <1>6, <1>7, <1>8, <1>9 DEF ServiceNext, Loop

\* The scheduling loop implements the queues: Runtime never changes a queue
\* or the rotation except by the operations of queues.py, in an order those
\* operations accept.
THEOREM LoopImplementsQueues == ServiceSpec => QueueSpec
<1>1. ServiceInit => QueueInit
    BY DEF ServiceInit
<1> QED
    BY <1>1, QueueUse, PTL DEF ServiceSpec, QueueSpec

\* No request the loop ever submitted is lost or in two places.
THEOREM LoopAccountsRequests == ServiceSpec => [](QueueTypeOK /\ RequestsAccounted)
BY LoopImplementsQueues, QueueTypeInvariant, RequestsNeverLost, PTL

-----------------------------------------------------------------------------
(* Queues, executors and lifecycles agree.                                 *)

\* NothingStranded as an inductive invariant: with the types it needs, and
\* with what a request that was never submitted looks like.
Agreement ==
    /\ phase \in [Requests -> Phases]
    /\ stepsDone \in [Requests -> Nat]
    /\ todo \subseteq DOMAIN granted
    /\ abandoned = {}
    /\ \A r \in Requests : phase[r] = "none" <=> r \notin admitted
    /\ NothingStranded

\* A step of an executor concerns a request in flight and counts one step.
LEMMA StepEffect ==
    ASSUME Agreement, NEW r \in Requests, NEW p \in Phases, Step(r, p)
    PROVE  /\ r \in inFlight
           /\ phase' = [phase EXCEPT ![r] = p] /\ phase' \in [Requests -> Phases]
           /\ stepsDone' = [stepsDone EXCEPT ![r] = @ + 1]
           /\ stepsDone' \in [Requests -> Nat]
    BY DEF Step, Agreement

\* Every step of the loop preserves the agreement.
LEMMA AgreementStep ==
    ASSUME QueueTypeOK, RequestsAccounted, Agreement, [ServiceNext]_serviceVars
    PROVE  Agreement'
<1> USE QueueAssumption, RuntimeAssumption
        DEF Agreement, NothingStranded, RequestsAccounted, queueVars, liveVars
<1>1. ASSUME NEW r \in Requests, Submit(r)
      PROVE  Agreement'
    BY <1>1 DEF Submit, Admit, Knows, Phases, roundVars
<1>2. ASSUME NEW g, NEW at, Decide(g, at)
      PROVE  Agreement'
    BY <1>2 DEF Decide, Phases
<1>3. ASSUME NEW r \in Requests, StartNext(r)
      PROVE  Agreement'
    BY <1>3 DEF StartNext, Start, IsNext, executorVars, roundVars
<1>4. ASSUME NEW r \in Requests, Advance(r)
      PROVE  Agreement'
    BY <1>4, StepEffect DEF Advance, Phases
<1>5. ASSUME NEW r \in Requests, Complete(r)
      PROVE  Agreement'
    BY <1>5, StepEffect DEF Complete, Phases, Finish, AfterRetiring, IsLastStep
<1>6. ASSUME NEW r \in Requests, Abort(r)
      PROVE  Agreement'
    BY <1>6, StepEffect DEF Abort, Phases
<1>7. ASSUME NEW r \in Requests, SuspendLeftover(r)
      PROVE  Agreement'
    BY <1>7 DEF SuspendLeftover, Suspend, WaitingAfterSuspend, IsServed, executorVars, roundVars
<1>8. ASSUME CloseRound
      PROVE  Agreement'
    BY <1>8 DEF CloseRound, Rotate, Leftover, IsServed
<1>9. ASSUME NEW at, AbortPreparing(at)
      PROVE  Agreement'
    BY <1>9 DEF AbortPreparing, Phases
<1>10. CASE Stopped \/ UNCHANGED serviceVars
    BY <1>10 DEF Stopped, serviceVars, executorVars, roundVars
<1> QED
    BY <1>1, <1>2, <1>3, <1>4, <1>5, <1>6, <1>7, <1>8, <1>9, <1>10 DEF ServiceNext, Loop

\* The agreement holds of every state of the loop.
LEMMA AgreementInvariant == ServiceSpec => []Agreement
<1>1. ServiceInit => Agreement
    BY DEF ServiceInit, QueueInit, Agreement, NothingStranded, Phases, NoGrant
<1> QED
    BY <1>1, AgreementStep, LoopAccountsRequests, PTL DEF ServiceSpec

\* A request has an executor exactly while it is owed service, a finished one
\* ran all its steps, and between two rounds nothing is in flight: for every
\* policy that keeps its contract, and also after a round that raised.
THEOREM NothingIsStranded == ServiceSpec => []NothingStranded
<1>1. Agreement => NothingStranded
    BY DEF Agreement
<1> QED
    BY <1>1, AgreementInvariant, PTL
-----------------------------------------------------------------------------
(* A refused pairing waits.                                                *)

\* The smaller of two numbers.
LEMMA MinOfTwo ==
    ASSUME NEW a \in Nat, NEW b \in Nat
    PROVE  Min({a, b}) \in {a, b}
<1>1. PICK m \in {a, b} : \A y \in {a, b} : m <= y
    <2>1. CASE a <= b
        BY <2>1
    <2>2. CASE b <= a
        BY <2>2
    <2> QED
        BY <2>1, <2>2
<1> QED
    BY <1>1 DEF Min

\* A table of holds: backoffs and the instants they end at.
IsHoldTable(h) ==
    \A k \in DOMAIN h : h[k].backoff \in Nat /\ h[k].until \in Nat

\* A further hold keeps the table one.
LEMMA HoldKeepsTable ==
    ASSUME NEW k, NEW at \in Nat, IsHoldTable(holds)
    PROVE  IsHoldTable(Hold(k, at))
<1> DEFINE backoff == IF k \in DOMAIN holds
                      THEN Min({MaxBackoff, 2 * holds[k].backoff})
                      ELSE Backoff
           entry == [backoff |-> backoff, until |-> at + backoff]
<1>1. backoff \in Nat
    <2>1. CASE k \in DOMAIN holds
        <3>1. MaxBackoff \in Nat /\ 2 * holds[k].backoff \in Nat
            BY <2>1, RuntimeAssumption DEF IsHoldTable
        <3> QED
            BY <2>1, <3>1, MinOfTwo
    <2>2. CASE k \notin DOMAIN holds
        BY <2>2, RuntimeAssumption
    <2> QED
        BY <2>1, <2>2
<1>2. entry.backoff \in Nat /\ entry.until \in Nat
    BY <1>1
<1>3. Hold(k, at) = [x \in DOMAIN holds \cup {k} |-> IF x = k THEN entry ELSE holds[x]]
    BY DEF Hold
<1> HIDE DEF entry
<1> QED
    BY <1>2, <1>3 DEF IsHoldTable

\* HeldPairingWaits with the types it needs.
Waiting ==
    /\ now \in Nat
    /\ IsHoldTable(holds)
    /\ HeldPairingWaits

\* Granting the whole die is not a co-run.
LEMMA SerialIsAlone ==
    ASSUME NEW g
    PROVE  Size(ToSerial(g)) = 1
<1>1. DOMAIN ToSerial(g) = {FurthestBehind(g)}
    BY DEF ToSerial
<1> QED
    BY <1>1, FS_Singleton DEF Size

\* The decision grants a co-run only when it is not held.
LEMMA DecisionWaits ==
    ASSUME Waiting, NEW at \in Instants, NEW g, Decide(g, at)
    PROVE  Waiting'
<1>1. at \in Nat /\ now' = at
    BY RuntimeAssumption DEF Waiting, Instants, Decide
<1>2. CASE granted' = ToSerial(g) /\ (holds' = holds \/ holds' = Hold(Key(g), at))
    <2>1. IsHoldTable(holds)'
        BY <1>1, <1>2, HoldKeepsTable DEF Waiting, IsHoldTable
    <2>2. Size(granted)' = 1
        BY <1>2, SerialIsAlone DEF Size
    <2> QED
        BY <1>1, <2>1, <2>2 DEF Waiting, HeldPairingWaits
<1>3. CASE granted' = g /\ holds' = holds /\ ~IsHeld(g, at)
    <2>1. IsHoldTable(holds)'
        BY <1>3 DEF Waiting, IsHoldTable
    <2>2. HeldPairingWaits'
        BY <1>1, <1>3 DEF Waiting, HeldPairingWaits, IsHeld, IsHoldTable, Size, Key
    <2> QED
        BY <1>1, <2>1, <2>2 DEF Waiting
<1> QED
    BY <1>2, <1>3 DEF Decide

\* Every step of the loop keeps the refused pairings waiting.
LEMMA WaitingStep ==
    ASSUME Waiting, [ServiceNext]_serviceVars
    PROVE  Waiting'
<1>1. ASSUME NEW at \in Instants, NEW g, Decide(g, at)
      PROVE  Waiting'
    BY <1>1, DecisionWaits
<1>2. CASE CloseRound
    <2>1. holds' = holds \/ \E k : holds' = Hold(k, now)
        BY <1>2 DEF CloseRound
    <2>2. IsHoldTable(holds)'
        BY <2>1, HoldKeepsTable DEF Waiting, IsHoldTable
    <2> QED
        BY <1>2, <2>2 DEF CloseRound, Waiting, HeldPairingWaits
<1>3. ASSUME NEW r \in Requests,
             Submit(r) \/ StartNext(r) \/ Advance(r) \/ Complete(r) \/ SuspendLeftover(r)
      PROVE  UNCHANGED <<now, holds, mode, granted>>
    BY <1>3 DEF Submit, StartNext, Advance, Complete, SuspendLeftover, roundVars
<1>4. ASSUME NEW r \in Requests, Abort(r)
      PROVE  now' \in Nat /\ UNCHANGED <<holds, granted>> /\ mode' = "aborted"
    BY <1>4 DEF Abort, Waiting
<1>8. ASSUME NEW at \in Instants, AbortPreparing(at)
      PROVE  now' \in Nat /\ UNCHANGED <<holds, granted>> /\ mode' = "aborted"
    BY <1>8, RuntimeAssumption DEF AbortPreparing, Instants, Waiting
<1>5. CASE Stopped \/ UNCHANGED serviceVars
    BY <1>5 DEF Stopped, serviceVars, roundVars, Waiting, IsHoldTable,
                HeldPairingWaits, Size, Key
<1>6. ASSUME UNCHANGED <<now, holds, mode, granted>>
      PROVE  Waiting'
    BY <1>6 DEF Waiting, IsHoldTable, HeldPairingWaits, Size, Key
<1>7. ASSUME now' \in Nat /\ UNCHANGED <<holds, granted>> /\ mode' = "aborted"
      PROVE  Waiting'
    BY <1>7 DEF Waiting, IsHoldTable, HeldPairingWaits
<1> QED
    BY <1>1, <1>2, <1>3, <1>4, <1>5, <1>6, <1>7, <1>8 DEF ServiceNext, Loop

\* A pairing that drifted or has no profile is not run again while it is held.
THEOREM RefusedPairingsWait == ServiceSpec => []HeldPairingWaits
<1>1. ServiceInit => Waiting
    BY DEF ServiceInit, Waiting, IsHoldTable, HeldPairingWaits
<1>2. Waiting => HeldPairingWaits
    BY DEF Waiting
<1> QED
    BY <1>1, <1>2, WaitingStep, PTL DEF ServiceSpec

-----------------------------------------------------------------------------
(* The largest and the furthest behind.                                    *)

\* A family of naturals over 1..n is bounded.
LEMMA FamilyBounded ==
    \A n \in Nat : \A f \in [1 .. n -> Nat] : \E m \in Nat : \A i \in 1 .. n : f[i] <= m
<1> DEFINE Bounded(n) == \A f \in [1 .. n -> Nat] : \E m \in Nat : \A i \in 1 .. n : f[i] <= m
           S == {n \in Nat : Bounded(n)}
<1>1. Bounded(0)
    OBVIOUS
<1>2. ASSUME NEW n \in Nat, Bounded(n)
      PROVE  Bounded(n + 1)
    <2> SUFFICES ASSUME NEW f \in [1 .. n + 1 -> Nat]
                 PROVE  \E m \in Nat : \A i \in 1 .. n + 1 : f[i] <= m
        OBVIOUS
    <2>1. [i \in 1 .. n |-> f[i]] \in [1 .. n -> Nat]
        OBVIOUS
    <2>2. PICK m \in Nat : \A i \in 1 .. n : f[i] <= m
        BY <1>2, <2>1
    <2>3. f[n + 1] \in Nat /\ m + f[n + 1] \in Nat
        OBVIOUS
    <2>4. \A i \in 1 .. n + 1 : f[i] <= m + f[n + 1]
        BY <2>2, <2>3
    <2> QED
        BY <2>3, <2>4
<1> HIDE DEF Bounded
<1>3. S \in SUBSET Nat /\ 0 \in S /\ \A n \in S : n + 1 \in S
    BY <1>1, <1>2
<1> HIDE DEF S
<1>4. \A n \in Nat : n \in S
    BY <1>3, NatSetInduction
<1> QED
    BY <1>4 DEF S, Bounded

\* A finite set of naturals that is not empty has a largest member.
LEMMA MaxOfFinite ==
    ASSUME NEW C \in SUBSET Nat, IsFiniteSet(C), C # {}
    PROVE  Max(C) \in C /\ \A c \in C : c <= Max(C)
<1> DEFINE n == Cardinality(C)
           Bounds == {m \in Nat : \A c \in C : c <= m}
<1>1. n \in Nat /\ ExistsBijection(1 .. n, C)
    BY FS_CardinalityType
<1>2. PICK f \in [1 .. n -> C] : \A c \in C : \E i \in 1 .. n : f[i] = c
    BY <1>1 DEF ExistsBijection, Bijection, Surjection
<1>3. f \in [1 .. n -> Nat]
    BY <1>2
<1>4. PICK m \in Nat : \A i \in 1 .. n : f[i] <= m
    BY <1>1, <1>3, FamilyBounded
<1>5. m \in Bounds
    BY <1>2, <1>4
<1>6. PICK least \in Bounds : \A k \in Bounds : least <= k
    <2>1. Bounds \in SUBSET Nat /\ Bounds # {}
        BY <1>5
    <2> QED
        BY <2>1, LeastNatural
<1>7. least \in C
    <2> SUFFICES ASSUME least \notin C PROVE FALSE
        OBVIOUS
    <2>1. \A c \in C : c < least
        BY <1>6
    <2>2. least - 1 \in Nat
        <3>1. PICK c \in C : c < least
            BY <2>1
        <3> QED
            BY <1>6, <3>1
    <2>3. least - 1 \in Bounds
        BY <1>6, <2>1, <2>2
    <2> QED
        BY <1>6, <2>3
<1>8. \E x \in C : \A y \in C : x >= y
    BY <1>6, <1>7
<1>9. Max(C) \in C /\ \A y \in C : Max(C) >= y
    BY <1>8 DEF Max
<1> QED
    BY <1>9

\* A grant that is not empty has a request furthest behind.
LEMMA FurthestIsGranted ==
    ASSUME NEW g, DOMAIN g \subseteq Requests, DOMAIN g # {}, charge \in [Tenants -> Nat]
    PROVE  FurthestBehind(g) \in DOMAIN g
<1> USE QueueAssumption
<1> DEFINE T == {charge[Owner[r]] : r \in DOMAIN g}
<1>1. T \in SUBSET Nat /\ T # {}
    OBVIOUS
<1>2. PICK c \in T : \A k \in T : c <= k
    BY <1>1, LeastNatural
<1> DEFINE R == {r \in DOMAIN g : charge[Owner[r]] = c}
<1>3. R \in SUBSET Nat /\ R # {}
    OBVIOUS
<1>4. PICK r \in R : \A q \in R : r <= q
    BY <1>3, LeastNatural
<1>5. ASSUME NEW q \in DOMAIN g
      PROVE  \/ charge[Owner[r]] < charge[Owner[q]]
             \/ charge[Owner[r]] = charge[Owner[q]] /\ r <= q
    <2>1. c \in Nat /\ charge[Owner[q]] \in T /\ charge[Owner[q]] \in Nat
        BY <1>1
    <2>2. charge[Owner[r]] = c /\ c <= charge[Owner[q]]
        BY <1>2, <2>1
    <2>3. CASE q \in R
        BY <1>4, <2>2, <2>3
    <2>4. CASE q \notin R
        BY <2>1, <2>2, <2>4
    <2> QED
        BY <2>3, <2>4
<1>6. \E x \in DOMAIN g :
         \A q \in DOMAIN g : \/ charge[Owner[x]] < charge[Owner[q]]
                             \/ charge[Owner[x]] = charge[Owner[q]] /\ x <= q
    BY <1>4, <1>5
<1> QED
    BY <1>6 DEF FurthestBehind

-----------------------------------------------------------------------------
(* Types.                                                                  *)

\* The type invariant made inductive: outside an aborted round a request that
\* is not finished has steps to go.
Types ==
    /\ ServiceTypeOK
    /\ stepsRun \in [Requests -> Nat]
    /\ mode # "aborted" =>
          \A r \in Requests : phase[r] # "finished" => stepsDone[r] < Steps[r]

\* A grant of widths to requests.
IsGrant(g) == DOMAIN g \subseteq Requests /\ \A r \in DOMAIN g : g[r] \in Widths

\* Backoffs within their bound.
IsBounded(h) == \A k \in DOMAIN h : h[k].backoff \in 1 .. MaxBackoff /\ h[k].until \in Nat

\* Only waiting requests are offered, and what a policy may grant is of them.
LEMMA GrantsAreOffered ==
    ASSUME QueueTypeOK, NEW at, NEW k, NEW g \in Grants(Offered(at, k))
    PROVE  IsGrant(g) /\ DOMAIN g \subseteq Offered(at, k) /\ DOMAIN g \subseteq waiting
<1>1. Offered(at, k) \subseteq waiting
    BY DEF Offered, Ready
<1>2. waiting \subseteq Requests
    BY DEF QueueTypeOK
<1>3. g = NoGrant \/ \E S \in SUBSET Offered(at, k) : g \in [S -> Widths]
    BY DEF Grants
<1>4. DOMAIN g \subseteq Offered(at, k) /\ \A r \in DOMAIN g : g[r] \in Widths
    BY <1>3 DEF NoGrant
<1> QED
    BY <1>1, <1>2, <1>4 DEF IsGrant

\* A co-run is a grant to somebody.
LEMMA CoRunIsGranted ==
    ASSUME NEW g, Size(g) >= 2 \/ Size(g) = 2
    PROVE  DOMAIN g # {}
    BY FS_EmptySet DEF Size

\* Granting the whole die to the request furthest behind is a grant.
LEMMA SerialIsGrant ==
    ASSUME NEW g, IsGrant(g), DOMAIN g # {}, charge \in [Tenants -> Nat]
    PROVE  IsGrant(ToSerial(g)) /\ DOMAIN ToSerial(g) \subseteq DOMAIN g
    BY FurthestIsGranted, RuntimeAssumption DEF IsGrant, ToSerial

\* A further hold keeps the backoffs within their bound.
LEMMA HoldIsBounded ==
    ASSUME NEW k, NEW at \in Nat, IsBounded(holds)
    PROVE  IsBounded(Hold(k, at))
<1> DEFINE backoff == IF k \in DOMAIN holds
                      THEN Min({MaxBackoff, 2 * holds[k].backoff})
                      ELSE Backoff
           entry == [backoff |-> backoff, until |-> at + backoff]
<1>1. backoff \in 1 .. MaxBackoff
    <2>1. CASE k \in DOMAIN holds
        <3> DEFINE b == 2 * holds[k].backoff
        <3>1. MaxBackoff \in Nat \ {0} /\ b \in Nat \ {0}
            BY <2>1, RuntimeAssumption DEF IsBounded
        <3>2. Min({MaxBackoff, b}) \in {MaxBackoff, b} /\ Min({MaxBackoff, b}) <= MaxBackoff
            <4>1. PICK m \in {MaxBackoff, b} : \A y \in {MaxBackoff, b} : m <= y
                <5> HIDE DEF b
                <5>1. MaxBackoff <= b \/ b <= MaxBackoff
                    BY <3>1
                <5> QED
                    BY <3>1, <5>1
            <4> HIDE DEF b
            <4> QED
                BY <4>1 DEF Min
        <3> QED
            BY <2>1, <3>1, <3>2
    <2>2. CASE k \notin DOMAIN holds
        BY <2>2, RuntimeAssumption, TableAssumption
    <2> QED
        BY <2>1, <2>2
<1>2. entry.backoff \in 1 .. MaxBackoff /\ entry.until \in Nat
    BY <1>1, RuntimeAssumption
<1>3. Hold(k, at) = [x \in DOMAIN holds \cup {k} |-> IF x = k THEN entry ELSE holds[x]]
    BY DEF Hold
<1> HIDE DEF entry
<1> QED
    BY <1>2, <1>3 DEF IsBounded

\* The next round starts within the bound of the clock.
LEMMA InstantsAreBounded ==
    ASSUME now \in 0 .. MaxNow + MaxGap, NEW at \in Instants
    PROVE  at \in 0 .. MaxNow + MaxGap /\ at \in Nat
    BY RuntimeAssumption DEF Instants

\* What a step is charged is a natural.
LEMMA ChargeIsNatural ==
    ASSUME NEW w \in Widths, NEW seconds \in Nat
    PROVE  Charge(w, seconds) \in Nat
<1>1. w \in Nat
    BY RuntimeAssumption
<1>2. w * seconds \in Nat
    BY <1>1
<1> QED
    BY <1>2, RuntimeAssumption DEF Charge

\* So is what it may be charged for.
LEMMA ChargedIsNatural ==
    ASSUME Types, NEW r \in DOMAIN granted, NEW c \in Charged(r)
    PROVE  c.seconds \in Nat
<1>1. r \in Requests /\ granted[r] \in Widths
    BY DEF Types, ServiceTypeOK
<1>2. Belief(r) \in Nat
    BY <1>1, TableAssumption DEF Belief
<1>3. ModelCost(r) \in Nat
    BY <1>1, <1>2, TableAssumption DEF ModelCost
<1> QED
    BY <1>1, <1>3, TableAssumption DEF Charged

\* A request with steps to go does not pass its last one with the next.
LEMMA OneMoreStep ==
    ASSUME NEW done \in [Requests -> Nat], \A q \in Requests : done[q] <= Steps[q],
           NEW r \in Requests, done[r] < Steps[r],
           NEW after, after = [done EXCEPT ![r] = @ + 1]
    PROVE  /\ after \in [Requests -> Nat] /\ \A q \in Requests : after[q] <= Steps[q]
           /\ done[r] + 1 # Steps[r] => done[r] + 1 < Steps[r]
<1>1. Steps \in [Requests -> Nat]
    BY RuntimeAssumption
<1>2. \A q \in Requests : after[q] = IF q = r THEN done[r] + 1 ELSE done[q]
    OBVIOUS
<1>3. after \in [Requests -> Nat]
    OBVIOUS
<1> QED
    BY <1>1, <1>2, <1>3

\* A step of a request under way keeps the types.
LEMMA StepTypes ==
    ASSUME Types, QueueTypeOK, RequestsAccounted, Agreement,
           NEW r \in Requests, NEW p \in Phases, Step(r, p)
    PROVE  /\ stepsDone[r] < Steps[r]
           /\ phase' = [phase EXCEPT ![r] = p] /\ phase' \in [Requests -> Phases]
           /\ stepsDone' = [stepsDone EXCEPT ![r] = @ + 1]
           /\ stepsDone' \in [Requests -> Nat]
           /\ \A q \in Requests : stepsDone'[q] <= Steps[q]
           /\ stepsRun' \in [Requests -> Nat]
           /\ charge' \in [Tenants -> Nat]
<1>1. r \in inFlight /\ mode = "round" /\ r \in DOMAIN granted
    BY DEF Step, IsNext, Types, ServiceTypeOK
<1>2. phase[r] # "finished"
    BY <1>1 DEF RequestsAccounted, Agreement, NothingStranded
<1>3. stepsDone[r] < Steps[r]
    BY <1>1, <1>2 DEF Types
<1>4. phase' = [phase EXCEPT ![r] = p] /\ stepsDone' = [stepsDone EXCEPT ![r] = @ + 1]
    BY DEF Step
<1>5. stepsDone' \in [Requests -> Nat] /\ \A q \in Requests : stepsDone'[q] <= Steps[q]
    BY <1>3, <1>4, OneMoreStep DEF Types, ServiceTypeOK
<1>6. stepsRun' \in [Requests -> Nat]
    BY DEF Step, Types
<1>7. charge' \in [Tenants -> Nat]
    <2>1. PICK c \in Charged(r) :
              charge' = [charge EXCEPT ![Owner[r]] = @ + Charge(granted[r], c.seconds)]
        BY DEF Step
    <2>2. Charge(granted[r], c.seconds) \in Nat
        BY <1>1, ChargedIsNatural, ChargeIsNatural DEF Types, ServiceTypeOK
    <2> HIDE DEF Charge
    <2> QED
        BY <2>1, <2>2, QueueAssumption DEF Types, ServiceTypeOK
<1> QED
    BY <1>3, <1>4, <1>5, <1>6, <1>7 DEF Types, ServiceTypeOK

\* The decision keeps the types: a policy grants what was offered, and a
\* narrowed grant is a grant.
LEMMA DecideTypes ==
    ASSUME Types, QueueTypeOK, NEW at \in Instants, NEW g, Decide(g, at)
    PROVE  Types'
<1> USE DEF Types, ServiceTypeOK
<1>1. IsGrant(g)
    BY GrantsAreOffered DEF Decide
<1>2. at \in 0 .. MaxNow + MaxGap /\ at \in Nat /\ now' = at
    BY InstantsAreBounded DEF Decide
<1>3. phase' \in [Requests -> Phases]
    BY DEF Decide, Phases
<1>4. mode' = "round"
    BY DEF Decide
<1>5. \A r \in Requests : phase'[r] # "finished" => phase[r] # "finished"
    BY DEF Decide
<1>6. IsGrant(granted') /\ IsBounded(holds')
    <2>1. IsBounded(holds) /\ IsBounded(Hold(Key(g), at))
        BY <1>2, HoldIsBounded DEF IsBounded
    <2>2. CASE IsHeld(g, at) \/ IsUnvouched(g)
        <3>1. DOMAIN g # {}
            BY <2>2, CoRunIsGranted DEF IsHeld, IsUnvouched
        <3>2. IsGrant(ToSerial(g))
            BY <1>1, <3>1, SerialIsGrant
        <3> HIDE DEF Types, ServiceTypeOK
        <3> QED
            BY <1>1, <2>1, <3>2 DEF Decide
    <2>3. CASE ~IsHeld(g, at) /\ ~IsUnvouched(g)
        <3> HIDE DEF Types, ServiceTypeOK
        <3> QED
            BY <1>1, <2>1, <2>3 DEF Decide
    <2> QED
        BY <2>2, <2>3
<1>7. UNCHANGED <<executors, stepsDone, charge, stepsRun>> /\ todo' = DOMAIN granted'
    BY DEF Decide
<1>8. mode # "aborted"
    BY DEF Decide
<1> QED
    BY <1>2, <1>3, <1>4, <1>5, <1>6, <1>7, <1>8 DEF IsGrant, IsBounded

\* A step of the round keeps the types, also the one it ends on or raises in.
LEMMA RoundTypes ==
    ASSUME Types, QueueTypeOK, RequestsAccounted, Agreement, NEW r \in Requests,
           Advance(r) \/ Complete(r) \/ Abort(r)
    PROVE  Types'
<1> USE DEF Types, ServiceTypeOK
<1>1. {"running", "finished"} \subseteq Phases
    BY DEF Phases
<1>2. CASE Advance(r)
    <2>1. Step(r, "running") /\ stepsDone[r] + 1 # Steps[r]
        BY <1>2 DEF Advance, IsLastStep
    <2>2. /\ stepsDone[r] < Steps[r]
          /\ phase' = [phase EXCEPT ![r] = "running"] /\ phase' \in [Requests -> Phases]
          /\ stepsDone' = [stepsDone EXCEPT ![r] = @ + 1]
          /\ stepsDone' \in [Requests -> Nat]
          /\ \A q \in Requests : stepsDone'[q] <= Steps[q]
          /\ stepsRun' \in [Requests -> Nat]
          /\ charge' \in [Tenants -> Nat]
        BY <1>1, <2>1, StepTypes
    <2>3. stepsDone[r] + 1 < Steps[r]
        BY <2>1, <2>2, OneMoreStep
    <2>4. mode # "aborted"
        BY <2>1 DEF Step, IsNext
    <2>5. \A q \in Requests : phase'[q] # "finished" => stepsDone'[q] < Steps[q]
        BY <2>2, <2>3, <2>4
    <2>6. UNCHANGED <<executors, mode, granted, holds, now>> /\ todo' \subseteq todo
        BY <1>2 DEF Advance
    <2> QED
        BY <2>2, <2>5, <2>6
<1>3. CASE Complete(r)
    <2>1. Step(r, "finished")
        BY <1>3 DEF Complete
    <2>2. /\ phase' = [phase EXCEPT ![r] = "finished"] /\ phase' \in [Requests -> Phases]
          /\ stepsDone' = [stepsDone EXCEPT ![r] = @ + 1]
          /\ stepsDone' \in [Requests -> Nat]
          /\ \A q \in Requests : stepsDone'[q] <= Steps[q]
          /\ stepsRun' \in [Requests -> Nat]
          /\ charge' \in [Tenants -> Nat]
        BY <1>1, <2>1, StepTypes
    <2>4. mode # "aborted"
        BY <2>1 DEF Step, IsNext
    <2>5. \A q \in Requests : phase'[q] # "finished" => stepsDone'[q] < Steps[q]
        BY <2>2, <2>4
    <2>6. /\ UNCHANGED <<mode, granted, holds, now>>
          /\ todo' \subseteq todo /\ executors' \subseteq executors
        BY <1>3 DEF Complete, AfterRetiring
    <2> QED
        BY <2>2, <2>5, <2>6
<1>4. CASE Abort(r)
    <2>1. mode' = "aborted" /\ UNCHANGED <<executors, granted, todo, holds, now>>
        BY <1>4 DEF Abort
    <2>2. CASE Step(r, "running")
        <3>1. /\ phase' \in [Requests -> Phases]
              /\ stepsDone' \in [Requests -> Nat]
              /\ \A q \in Requests : stepsDone'[q] <= Steps[q]
              /\ stepsRun' \in [Requests -> Nat]
              /\ charge' \in [Tenants -> Nat]
            BY <1>1, <2>2, StepTypes
        <3> QED
            BY <2>1, <3>1
    <2>3. CASE ~Step(r, "running")
        <3>1. /\ IsNext(r) /\ r \in inFlight
              /\ phase' = [phase EXCEPT ![r] = "running"]
              /\ stepsDone' \in {stepsDone, [stepsDone EXCEPT ![r] = @ + 1]}
              /\ UNCHANGED <<charge, stepsRun>>
            BY <1>4, <2>3 DEF Abort
        <3>2. stepsDone[r] < Steps[r]
            BY <3>1 DEF IsNext, RequestsAccounted, Agreement, NothingStranded
        <3>3. \A q \in Requests : stepsDone'[q] <= Steps[q]
            BY <3>1, <3>2, OneMoreStep
        <3>4. stepsDone' \in [Requests -> Nat]
            BY <3>1
        <3>5. phase' \in [Requests -> Phases]
            BY <1>1, <3>1
        <3> QED
            BY <2>1, <3>1, <3>3, <3>4, <3>5
    <2> QED
        BY <2>2, <2>3
<1> QED
    BY <1>2, <1>3, <1>4

\* Every step of the loop keeps the types.
LEMMA TypesStep ==
    ASSUME Types, QueueTypeOK, RequestsAccounted, Agreement, [ServiceNext]_serviceVars
    PROVE  Types'
<1> USE DEF Types, ServiceTypeOK
<1>1. ASSUME NEW r \in Requests, Submit(r)
      PROVE  Types'
    <2>1. phase[r] = "none"
        BY <1>1 DEF Submit, Admit, Knows, Agreement, RequestsAccounted
    <2>2. phase' = [phase EXCEPT ![r] = "created"] /\ executors' = executors \cup {r}
        BY <1>1 DEF Submit
    <2>3. phase' \in [Requests -> Phases]
        BY <2>2 DEF Phases
    <2>4. \A q \in Requests : phase'[q] # "finished" => phase[q] # "finished"
        BY <2>1, <2>2
    <2>5. UNCHANGED <<stepsDone, charge, holds, now, mode, granted, todo, stepsRun>>
        BY <1>1 DEF Submit, roundVars
    <2> QED
        BY <2>2, <2>3, <2>4, <2>5
<1>2. ASSUME NEW at \in Instants, NEW g, Decide(g, at)
      PROVE  Types'
    BY <1>2, DecideTypes
<1>3. ASSUME NEW r \in Requests, Advance(r) \/ Complete(r) \/ Abort(r)
      PROVE  Types'
    BY <1>3, RoundTypes
<1>4. ASSUME NEW r \in Requests, StartNext(r) \/ SuspendLeftover(r)
      PROVE  Types'
    BY <1>4 DEF StartNext, SuspendLeftover, executorVars, roundVars
<1>5. ASSUME NEW at \in Instants, AbortPreparing(at)
      PROVE  Types'
    <2>1. at \in 0 .. MaxNow + MaxGap /\ now' = at
        BY <1>5, InstantsAreBounded DEF AbortPreparing
    <2>2. phase' \in [Requests -> Phases]
        BY <1>5 DEF AbortPreparing, Phases
    <2> QED
        BY <1>5, <2>1, <2>2 DEF AbortPreparing
<1>6. CASE CloseRound
    <2>1. IsBounded(holds')
        <3>1. holds' = holds \/ \E k : holds' = Hold(k, now)
            BY <1>6 DEF CloseRound
        <3>2. IsBounded(holds) /\ now \in Nat
            BY RuntimeAssumption DEF IsBounded
        <3> QED
            BY <3>1, <3>2, HoldIsBounded
    <2>2. /\ mode' = "idle" /\ mode = "round" /\ granted' = NoGrant /\ todo' = {}
          /\ stepsRun' = [q \in Requests |-> 0]
          /\ UNCHANGED <<executors, phase, stepsDone, charge, now>>
        BY <1>6 DEF CloseRound, IsServed
    <2> QED
        BY <2>1, <2>2 DEF IsBounded, NoGrant
<1>7. CASE Stopped \/ UNCHANGED serviceVars
    BY <1>7 DEF Stopped, serviceVars, executorVars, roundVars
<1> QED
    BY <1>1, <1>2, <1>3, <1>4, <1>5, <1>6, <1>7 DEF ServiceNext, Loop

\* The types hold of every state of the loop.
LEMMA TypesInvariant == ServiceSpec => []Types
<1>1. ServiceInit => Types
    BY RuntimeAssumption DEF ServiceInit, Types, ServiceTypeOK, Phases, NoGrant
<1> QED
    BY <1>1, TypesStep, LoopAccountsRequests, AgreementInvariant, PTL DEF ServiceSpec

\* A request never runs more steps than it asked for, a backoff stays within
\* its bound, and what is still to be served was granted, for every policy.
THEOREM ServiceTypes == ServiceSpec => []ServiceTypeOK
<1>1. Types => ServiceTypeOK
    BY DEF Types
<1> QED
    BY <1>1, TypesInvariant, PTL

-----------------------------------------------------------------------------
(* Batches.                                                                *)

\* Belief, Slowest, IsBelieved and Budget of a grant g, which is granted or the
\* next one.
BeliefIn(g, r) == StepCost[Model[r]][g[r]]
SlowestIn(g) == Max({BeliefIn(g, r) : r \in DOMAIN g})
IsBelievedIn(g) == \A r \in DOMAIN g : g[r] \in Believed
BatchIn(g, r) == SlowestIn(g) \div BeliefIn(g, r)
BudgetIn(g, r) ==
    IF MaxSteps > 1 /\ Size(g) >= 2 /\ IsBelievedIn(g)
    THEN Max({1, Min({MaxSteps, BatchIn(g, r)})})
    ELSE 1

\* The larger and the smaller of two naturals.
LEMMA LargerOfTwo ==
    ASSUME NEW a \in Nat, NEW b \in Nat
    PROVE  Max({a, b}) = IF a >= b THEN a ELSE b
<1>1. PICK m \in {a, b} : \A y \in {a, b} : m >= y
    <2>1. a >= b \/ b >= a
        OBVIOUS
    <2> QED
        BY <2>1
<1>2. Max({a, b}) \in {a, b} /\ \A y \in {a, b} : Max({a, b}) >= y
    BY <1>1 DEF Max
<1> QED
    BY <1>2

LEMMA SmallerOfTwo ==
    ASSUME NEW a \in Nat, NEW b \in Nat
    PROVE  Min({a, b}) = IF a <= b THEN a ELSE b
<1>1. PICK m \in {a, b} : \A y \in {a, b} : m <= y
    <2>1. a <= b \/ b <= a
        OBVIOUS
    <2> QED
        BY <2>1
<1>2. Min({a, b}) \in {a, b} /\ \A y \in {a, b} : Min({a, b}) <= y
    BY <1>1 DEF Min
<1> QED
    BY <1>2

\* As many times as c goes into a, it fits in a.
LEMMA QuotientFits ==
    ASSUME NEW a \in Nat, NEW c \in Nat \ {0}
    PROVE  a \div c \in Nat /\ (a \div c) * c <= a
    OBVIOUS

\* Fewer of the same take no longer.
LEMMA FewerFit ==
    ASSUME NEW k \in Nat, NEW n \in Nat, NEW c \in Nat, k <= n
    PROVE  k * c <= n * c
    OBVIOUS

\* The believed costs of a grant are positive, and none is above the slowest.
LEMMA SlowestIsLargest ==
    ASSUME NEW g, IsGrant(g), NEW r \in DOMAIN g
    PROVE  /\ BeliefIn(g, r) \in Nat \ {0} /\ SlowestIn(g) \in Nat
           /\ BeliefIn(g, r) <= SlowestIn(g)
<1> DEFINE C == {BeliefIn(g, q) : q \in DOMAIN g}
           f == [q \in DOMAIN g |-> BeliefIn(g, q)]
<1>1. \A q \in DOMAIN g : BeliefIn(g, q) \in Nat \ {0}
    BY TableAssumption DEF IsGrant, BeliefIn
<1>2. IsFiniteSet(DOMAIN g)
    BY FS_Subset, TableAssumption DEF IsGrant
<1>3. f \in Surjection(DOMAIN g, C)
    BY DEF Surjection
<1>4. IsFiniteSet(C)
    BY <1>2, <1>3, FS_Surjection
<1>5. C \in SUBSET Nat /\ C # {} /\ BeliefIn(g, r) \in C
    BY <1>1
<1>6. Max(C) \in C /\ \A c \in C : c <= Max(C)
    BY <1>4, <1>5, MaxOfFinite
<1>7. SlowestIn(g) = Max(C)
    BY DEF SlowestIn
<1> HIDE DEF C
<1> QED
    BY <1>1, <1>5, <1>6, <1>7

\* A request may run a step, and what it may run fits in the slowest step.
LEMMA BudgetFits ==
    ASSUME NEW g, IsGrant(g), NEW r \in DOMAIN g
    PROVE  /\ BudgetIn(g, r) \in Nat \ {0}
           /\ BudgetIn(g, r) * BeliefIn(g, r) <= SlowestIn(g)
<1> DEFINE c == BeliefIn(g, r)
           b == BatchIn(g, r)
<1>1. c \in Nat \ {0} /\ SlowestIn(g) \in Nat /\ c <= SlowestIn(g)
    BY SlowestIsLargest
<1>2. b \in Nat /\ b * c <= SlowestIn(g)
    <2> HIDE DEF c
    <2> QED
        BY <1>1, QuotientFits DEF BatchIn, c
<1>3. MaxSteps \in Nat \ {0}
    BY RuntimeAssumption
<1> DEFINE m == Min({MaxSteps, b})
<1>4. m \in Nat /\ m <= b
    <2> HIDE DEF b
    <2> QED
        BY <1>2, <1>3, SmallerOfTwo
<1>5. BudgetIn(g, r) \in {1, m} /\ BudgetIn(g, r) >= 1
    <2> HIDE DEF m
    <2>1. Max({1, m}) \in {1, m} /\ Max({1, m}) >= 1
        BY <1>4, LargerOfTwo
    <2> QED
        BY <2>1 DEF BudgetIn, m
<1> HIDE DEF c, b, m
<1>6. m * c <= SlowestIn(g)
    <2>1. m * c <= b * c
        BY <1>1, <1>2, <1>4, FewerFit
    <2>2. m * c \in Nat /\ b * c \in Nat
        BY <1>1, <1>2, <1>4
    <2> QED
        BY <1>1, <1>2, <2>1, <2>2
<1>7. BudgetIn(g, r) * c <= SlowestIn(g)
    BY <1>1, <1>4, <1>5, <1>6
<1> QED
    BY <1>4, <1>5, <1>7 DEF c

\* NoOvershoot made inductive: nobody is past the budget of the round, and who
\* is still to be served is below it.
Batches ==
    /\ mode = "idle" => \A r \in Requests : stepsRun[r] = 0
    /\ mode = "round" => \A r \in DOMAIN granted :
          /\ stepsRun[r] <= BudgetIn(granted, r)
          /\ r \in todo => stepsRun[r] < BudgetIn(granted, r)

\* A step of a round counts against the budget of its request only.
LEMMA StepWithinBudget ==
    ASSUME Types, Batches, NEW r \in Requests, NEW p, Step(r, p),
           granted' = granted, mode' = mode, todo' \subseteq todo,
           r \in todo' => stepsRun'[r] < Budget(r)
    PROVE  Batches'
<1>1. mode = "round" /\ r \in todo /\ r \in DOMAIN granted
    BY DEF Step, IsNext, Types, ServiceTypeOK
<1>2. stepsRun' = [stepsRun EXCEPT ![r] = @ + 1] /\ stepsRun \in [Requests -> Nat]
    BY DEF Step, Types
<1>3. Budget(r) = BudgetIn(granted, r)
    BY DEF Budget, BudgetIn, BatchIn, Batch, Slowest, SlowestIn, Belief, BeliefIn,
           IsBelieved, IsBelievedIn
<1>4. BudgetIn(granted, r) \in Nat
    BY <1>1, BudgetFits DEF IsGrant, Types, ServiceTypeOK
<1>5. stepsRun'[r] <= BudgetIn(granted, r)
    BY <1>1, <1>2, <1>4 DEF Batches
<1>6. \A q \in DOMAIN granted : q # r => stepsRun'[q] = stepsRun[q]
    BY <1>2 DEF Types, ServiceTypeOK
<1>7. \A q \in DOMAIN granted :
          /\ stepsRun'[q] <= BudgetIn(granted, q)
          /\ q \in todo' => stepsRun'[q] < BudgetIn(granted, q)
    BY <1>1, <1>3, <1>5, <1>6 DEF Batches
<1>8. \A q \in DOMAIN granted : BudgetIn(granted, q)' = BudgetIn(granted, q)
    BY DEF BudgetIn, BatchIn, SlowestIn, BeliefIn, IsBelievedIn, Size
<1> QED
    BY <1>1, <1>7, <1>8 DEF Batches

\* Every step of the loop keeps the requests within their budgets.
LEMMA BatchesStep ==
    ASSUME Types, Types', QueueTypeOK, Batches, [ServiceNext]_serviceVars
    PROVE  Batches'
<1>1. ASSUME NEW g, NEW at, Decide(g, at)
      PROVE  Batches'
    <2>1. IsGrant(granted')
        BY DEF Types, ServiceTypeOK, IsGrant
    <2>2. \A r \in DOMAIN granted' : BudgetIn(granted', r) \in Nat \ {0}
        BY <2>1, BudgetFits
    <2>3. mode = "idle" /\ mode' = "round" /\ stepsRun' = stepsRun
        BY <1>1 DEF Decide
    <2>4. \A r \in DOMAIN granted' : stepsRun'[r] = 0
        BY <2>1, <2>3 DEF Batches, IsGrant
    <2>5. \A r \in DOMAIN granted' :
              /\ stepsRun'[r] <= BudgetIn(granted', r)
              /\ stepsRun'[r] < BudgetIn(granted', r)
        BY <2>2, <2>4
    <2>6. \A r : BudgetIn(granted, r)' = BudgetIn(granted', r)
        BY DEF BudgetIn, BatchIn, SlowestIn, BeliefIn, IsBelievedIn, Size
    <2> QED
        BY <2>3, <2>5, <2>6 DEF Batches
<1>2. ASSUME NEW r \in Requests, Advance(r)
      PROVE  Batches'
    <2>1. /\ Step(r, "running") /\ granted' = granted /\ mode' = mode
          /\ todo' = IF stepsRun'[r] < Budget(r) THEN todo ELSE todo \ {r}
        BY <1>2 DEF Advance
    <2> QED
        BY <2>1, StepWithinBudget
<1>3. ASSUME NEW r \in Requests, Complete(r)
      PROVE  Batches'
    <2>1. /\ Step(r, "finished") /\ granted' = granted /\ mode' = mode
          /\ todo' = todo \ {r}
        BY <1>3 DEF Complete
    <2> QED
        BY <2>1, StepWithinBudget
<1>4. ASSUME NEW r \in Requests, Submit(r) \/ StartNext(r) \/ SuspendLeftover(r)
      PROVE  UNCHANGED <<mode, granted, todo, stepsRun>>
    BY <1>4 DEF Submit, StartNext, SuspendLeftover, roundVars
<1>5. ASSUME Stopped \/ UNCHANGED serviceVars
      PROVE  UNCHANGED <<mode, granted, todo, stepsRun>>
    BY <1>5 DEF Stopped, serviceVars, roundVars
<1>6. ASSUME UNCHANGED <<mode, granted, todo, stepsRun>>
      PROVE  Batches'
    <2>1. \A r : BudgetIn(granted, r)' = BudgetIn(granted', r)
        BY DEF BudgetIn, BatchIn, SlowestIn, BeliefIn, IsBelievedIn, Size
    <2> QED
        BY <1>6, <2>1 DEF Batches
<1>7. ASSUME mode' = "aborted"
      PROVE  Batches'
    BY <1>7 DEF Batches
<1>8. CASE CloseRound
    BY <1>8 DEF CloseRound, Batches
<1>9. ASSUME NEW r \in Requests, Abort(r)
      PROVE  mode' = "aborted"
    BY <1>9 DEF Abort
<1>10. ASSUME NEW at \in Instants, AbortPreparing(at)
       PROVE  mode' = "aborted"
    BY <1>10 DEF AbortPreparing
<1> QED
    BY <1>1, <1>2, <1>3, <1>4, <1>5, <1>6, <1>7, <1>8, <1>9, <1>10
    DEF ServiceNext, Loop

\* A batch never overshoots its slowest peer: whatever is granted together, what
\* a request runs in a round is believed to fit in the longest single step of it.
THEOREM BatchesFit == ServiceSpec => []NoOvershoot
<1>1. ServiceInit => Batches
    BY DEF ServiceInit, Batches
<1>2. ASSUME Types, Batches PROVE NoOvershoot
    <2> SUFFICES ASSUME mode = "round", NEW r \in DOMAIN granted
                 PROVE  stepsRun[r] * Belief(r) <= Slowest
        BY DEF NoOvershoot
    <2>1. IsGrant(granted) /\ stepsRun[r] \in Nat
        BY <1>2 DEF IsGrant, Types, ServiceTypeOK
    <2>2. /\ BudgetIn(granted, r) \in Nat \ {0}
          /\ BudgetIn(granted, r) * BeliefIn(granted, r) <= SlowestIn(granted)
          /\ BeliefIn(granted, r) \in Nat \ {0} /\ SlowestIn(granted) \in Nat
        BY <2>1, BudgetFits, SlowestIsLargest
    <2>3. stepsRun[r] <= BudgetIn(granted, r)
        BY <1>2 DEF Batches
    <2>4. stepsRun[r] * BeliefIn(granted, r) <= BudgetIn(granted, r) * BeliefIn(granted, r)
        BY <2>1, <2>2, <2>3, FewerFit
    <2>5. stepsRun[r] * BeliefIn(granted, r) <= SlowestIn(granted)
        <3>1. /\ stepsRun[r] * BeliefIn(granted, r) \in Nat
              /\ BudgetIn(granted, r) * BeliefIn(granted, r) \in Nat
            BY <2>1, <2>2
        <3> QED
            BY <2>2, <2>4, <3>1
    <2> QED
        BY <2>5 DEF Belief, BeliefIn, Slowest, SlowestIn
<1> QED
    BY <1>1, <1>2, BatchesStep, TypesInvariant, LoopAccountsRequests, PTL DEF ServiceSpec

-----------------------------------------------------------------------------
(* One request offered per tenant.                                         *)

\* Requests are numbered in the order of their arrival.
ArrivesInOrder == \A q, r \in Requests : q < r => Arrival[q] <= Arrival[r]

\* The one request of a tenant that is offered is the first of those ready.
LEMMA OfferedIsFirst ==
    ASSUME RequestsPerTenant = 1, QueueTypeOK, NEW at,
           NEW r \in Offered(at, RequestsPerTenant)
    PROVE  /\ r \in waiting /\ r \in Requests /\ Arrival[r] <= at
           /\ \A q \in Ready(Owner[r], at) : ~Before(q, r)
<1> DEFINE B == {q \in Ready(Owner[r], at) : Before(q, r)}
<1>1. r \in waiting /\ Arrival[r] <= at /\ Cardinality(B) < 1
    BY DEF Offered, Ready
<1>2. waiting \subseteq Requests
    BY DEF QueueTypeOK
<1>3. B \subseteq Requests
    BY <1>2 DEF Ready
<1>4. IsFiniteSet(B) /\ Cardinality(B) \in Nat
    BY <1>3, FS_Subset, FS_CardinalityType, TableAssumption
<1>5. B = {}
    <2> HIDE DEF B
    <2>1. Cardinality(B) = 0
        BY <1>1, <1>4
    <2> QED
        BY <1>4, <2>1, FS_EmptySet
<1> QED
    BY <1>1, <1>2, <1>5

\* The order within a tenant is total.
LEMMA BeforeIsTotal ==
    ASSUME NEW q \in Requests, NEW r \in Requests, q # r
    PROVE  Before(q, r) \/ Before(r, q)
<1>1. q \in Nat /\ r \in Nat /\ Arrival[q] \in Nat /\ Arrival[r] \in Nat
    BY QueueAssumption
<1>2. Earlier(q, r) \/ Earlier(r, q)
    BY <1>1 DEF Earlier
<1>3. MoreUrgent(q, r) \/ MoreUrgent(r, q)
    BY <1>2, QueueAssumption DEF MoreUrgent
<1> QED
    BY <1>2, <1>3 DEF Before

\* So no round is offered two requests of a tenant.
LEMMA OfferedOncePerTenant ==
    ASSUME RequestsPerTenant = 1, QueueTypeOK, NEW at,
           NEW q \in Offered(at, RequestsPerTenant), NEW r \in Offered(at, RequestsPerTenant),
           Owner[q] = Owner[r]
    PROVE  q = r
<1>1. q \in Ready(Owner[r], at) /\ r \in Ready(Owner[q], at)
    BY OfferedIsFirst DEF Ready
<1>2. ~Before(q, r) /\ ~Before(r, q) /\ q \in Requests /\ r \in Requests
    BY <1>1, OfferedIsFirst
<1> QED
    BY <1>2, BeforeIsTotal

\* Of two tenants no more than two requests are granted.
LEMMA TwoTenantsGrantTwo ==
    ASSUME RequestsPerTenant = 1, IsFiniteSet(Tenants), Cardinality(Tenants) <= 2,
           QueueTypeOK, NEW at, NEW g \in Grants(Offered(at, RequestsPerTenant))
    PROVE  Size(g) \in Nat /\ Size(g) <= 2
<1> DEFINE f == [r \in DOMAIN g |-> Owner[r]]
<1>1. IsGrant(g) /\ DOMAIN g \subseteq Offered(at, RequestsPerTenant)
    BY GrantsAreOffered
<1>2. \A q, r \in DOMAIN g : Owner[q] = Owner[r] => q = r
    BY <1>1, OfferedOncePerTenant
<1>3. f \in Injection(DOMAIN g, Tenants)
    BY <1>1, <1>2, QueueAssumption DEF Injection, IsGrant, IsInjective
<1>4. IsFiniteSet(DOMAIN g) /\ Cardinality(DOMAIN g) <= Cardinality(Tenants)
    <2> HIDE DEF f
    <2> QED
        BY <1>3, FS_Injection
<1>5. Cardinality(DOMAIN g) \in Nat /\ Cardinality(Tenants) \in Nat
    BY <1>4, FS_CardinalityType
<1> QED
    BY <1>4, <1>5 DEF Size

\* What runs together in a round is a pair with a measured externality.
Vouched == mode = "round" /\ Size(granted) >= 2 => Size(granted) = 2 /\ IsMeasuredPair(granted)

\* The decision narrows every other co-run of two tenants to one request.
LEMMA VouchedStep ==
    ASSUME RequestsPerTenant = 1, IsFiniteSet(Tenants), Cardinality(Tenants) <= 2,
           QueueTypeOK, Vouched, [ServiceNext]_serviceVars
    PROVE  Vouched'
<1>1. ASSUME NEW at \in Instants, NEW g \in Grants(Offered(at, RequestsPerTenant)),
             Decide(g, at)
      PROVE  Vouched'
    <2>1. Size(g) \in Nat /\ Size(g) <= 2
        BY TwoTenantsGrantTwo
    <2>2. CASE granted' = ToSerial(g)
        <3>1. Size(granted') = 1
            BY <2>2, SerialIsAlone
        <3> QED
            BY <3>1 DEF Vouched, Size
    <2>3. CASE granted' = g /\ ~IsUnvouched(g)
        <3>1. Size(g) >= 2 => Size(g) = 2 /\ IsMeasuredPair(g)
            BY <2>1, <2>3 DEF IsUnvouched
        <3> QED
            BY <2>3, <3>1 DEF Vouched, Size, IsMeasuredPair, PeerWidth
    <2> QED
        BY <1>1, <2>2, <2>3 DEF Decide
<1>2. ASSUME NEW r \in Requests,
             \/ Submit(r) \/ StartNext(r) \/ Advance(r) \/ Complete(r)
             \/ SuspendLeftover(r)
      PROVE  UNCHANGED <<mode, granted>>
    BY <1>2 DEF Submit, StartNext, Advance, Complete, SuspendLeftover, roundVars
<1>3. CASE Stopped \/ UNCHANGED serviceVars
    BY <1>3 DEF Stopped, serviceVars, roundVars, Vouched, Size, IsMeasuredPair, PeerWidth
<1>4. ASSUME UNCHANGED <<mode, granted>>
      PROVE  Vouched'
    BY <1>4 DEF Vouched, Size, IsMeasuredPair, PeerWidth
<1>5. ASSUME NEW r \in Requests, Abort(r)
      PROVE  mode' = "aborted"
    BY <1>5 DEF Abort
<1>6. ASSUME NEW at \in Instants, AbortPreparing(at)
      PROVE  mode' = "aborted"
    BY <1>6 DEF AbortPreparing
<1>7. CASE CloseRound
    BY <1>7 DEF CloseRound, Vouched
<1>8. ASSUME mode' = "aborted"
      PROVE  Vouched'
    BY <1>8 DEF Vouched
<1> QED
    BY <1>1, <1>2, <1>3, <1>4, <1>5, <1>6, <1>7, <1>8 DEF ServiceNext, Loop

\* No co-run of two tenants is charged an invented factor, whatever the policy
\* grants of one request offered per tenant.
THEOREM TwoTenantsAreVouched ==
    ASSUME RequestsPerTenant = 1, IsFiniteSet(Tenants), Cardinality(Tenants) <= 2
    PROVE  ServiceSpec => []NoInventedFactor
<1>1. ServiceInit => Vouched
    BY DEF ServiceInit, Vouched
<1>2. Vouched => NoInventedFactor
    BY DEF Vouched, NoInventedFactor
<1>3. QueueTypeOK /\ Vouched /\ [ServiceNext]_serviceVars => Vouched'
    BY VouchedStep
<1> QED
    BY <1>1, <1>2, <1>3, LoopAccountsRequests, PTL DEF ServiceSpec

\* The first request of its tenant in S.
IsFirstOf(S, r) == \A q \in S : Owner[q] = Owner[r] => r <= q

\* SlotsAreExclusive made inductive: requests are submitted in their order, and
\* what is granted or under way is the first of its tenant that is owed service.
Solo ==
    /\ \A r \in admitted : \A q \in Requests : q < r => q \in admitted
    /\ mode = "round" => \A r \in DOMAIN granted : IsFirstOf(executors, r)
    /\ \A r \in executors : phase[r] = "running" => IsFirstOf(executors, r)

\* A request submitted comes after all there are.
LEMMA SubmitSolo ==
    ASSUME QueueTypeOK, RequestsAccounted, Agreement, Solo, NEW r \in Requests, Submit(r)
    PROVE  Solo'
<1>1. r \notin admitted /\ \A q \in Requests : q < r => q \in admitted
    BY DEF Submit, Admit, Knows, Agreement, RequestsAccounted
<1>2. executors \subseteq admitted /\ executors \subseteq Requests
    BY DEF Agreement, NothingStranded, RequestsAccounted, QueueTypeOK
<1>3. \A q \in executors : q <= r
    BY <1>1, <1>2, QueueAssumption DEF Solo
<1>4. /\ admitted' = admitted \cup {r} /\ executors' = executors \cup {r}
      /\ phase' = [phase EXCEPT ![r] = "created"] /\ mode' = "idle"
    BY DEF Submit, Admit, roundVars
<1>5. \A p \in admitted' : \A q \in Requests : q < p => q \in admitted'
    BY <1>1, <1>4 DEF Solo
<1>6. ASSUME NEW p \in executors', phase'[p] = "running"
      PROVE  IsFirstOf(executors', p)
    <2>1. p \in executors /\ phase[p] = "running"
        BY <1>4, <1>6 DEF Agreement
    <2> QED
        BY <1>3, <1>4, <2>1 DEF Solo, IsFirstOf
<1> QED
    BY <1>4, <1>5, <1>6 DEF Solo, IsFirstOf

\* A request granted is the first of its tenant.
LEMMA DecideSolo ==
    ASSUME RequestsPerTenant = 1, Discipline = "fcfs", ArrivesInOrder,
           QueueTypeOK, Agreement, Types, Solo,
           NEW at \in Instants, NEW g \in Grants(Offered(at, RequestsPerTenant)), Decide(g, at)
    PROVE  Solo'
<1>1. executors = waiting
    BY DEF Decide, Agreement, NothingStranded
<1>2. ASSUME NEW r \in Offered(at, RequestsPerTenant)
      PROVE  IsFirstOf(executors, r)
    <2> SUFFICES ASSUME NEW q \in waiting, Owner[q] = Owner[r], ~(r <= q)
                 PROVE  FALSE
        BY <1>1 DEF IsFirstOf
    <2>1. r \in Requests /\ Arrival[r] <= at /\ \A p \in Ready(Owner[r], at) : ~Before(p, r)
        BY OfferedIsFirst
    <2>2. q \in Requests /\ q \in Nat /\ r \in Nat /\ Arrival[q] \in Nat /\ Arrival[r] \in Nat
        BY <2>1, QueueAssumption DEF QueueTypeOK
    <2>3. q < r /\ Arrival[q] <= Arrival[r]
        BY <2>1, <2>2 DEF ArrivesInOrder
    <2>4. Before(q, r)
        BY <2>2, <2>3 DEF Before, Earlier
    <2>5. at \in Nat
        BY InstantsAreBounded DEF Types, ServiceTypeOK
    <2>6. q \in Ready(Owner[r], at)
        BY <2>1, <2>2, <2>3, <2>5 DEF Ready
    <2> QED
        BY <2>1, <2>4, <2>6
<1>3. DOMAIN granted' \subseteq DOMAIN g
    <2>1. CASE IsHeld(g, at) \/ IsUnvouched(g)
        <3>1. DOMAIN g # {}
            BY <2>1, CoRunIsGranted DEF IsHeld, IsUnvouched
        <3>2. DOMAIN ToSerial(g) \subseteq DOMAIN g
            BY <3>1, GrantsAreOffered, SerialIsGrant DEF Types, ServiceTypeOK
        <3> QED
            BY <3>2 DEF Decide
    <2>2. CASE ~IsHeld(g, at) /\ ~IsUnvouched(g)
        BY <2>2 DEF Decide
    <2> QED
        BY <2>1, <2>2
<1>4. \A r \in DOMAIN granted' : IsFirstOf(executors, r)
    BY <1>2, <1>3, GrantsAreOffered
<1>5. UNCHANGED <<executors, admitted>>
    BY DEF Decide, queueVars, liveVars
<1>6. \A r \in executors : phase'[r] = "running" => phase[r] = "running"
    BY <1>1 DEF Decide, QueueTypeOK
<1> QED
    BY <1>4, <1>5, <1>6 DEF Solo, IsFirstOf

\* Every step of the loop leaves one request of a tenant under way.
LEMMA SoloStep ==
    ASSUME RequestsPerTenant = 1, Discipline = "fcfs", ArrivesInOrder,
           QueueTypeOK, RequestsAccounted, Agreement, Types, Solo,
           [ServiceNext]_serviceVars
    PROVE  Solo'
<1>1. ASSUME NEW r \in Requests, Submit(r)
      PROVE  Solo'
    BY <1>1, SubmitSolo
<1>2. ASSUME NEW at \in Instants, NEW g \in Grants(Offered(at, RequestsPerTenant)),
             Decide(g, at)
      PROVE  Solo'
    BY <1>2, DecideSolo
<1>3. ASSUME NEW r \in Requests, Advance(r) \/ Complete(r) \/ Abort(r)
      PROVE  Solo'
    <2>1. mode = "round" /\ r \in DOMAIN granted
        BY <1>3 DEF Advance, Complete, Abort, Step, IsNext, Types, ServiceTypeOK
    <2>2. \E p : phase' = [phase EXCEPT ![r] = p]
        BY <1>3 DEF Advance, Complete, Abort, Step
    <2>3. executors' \subseteq executors /\ granted' = granted /\ admitted' = admitted
        BY <1>3 DEF Advance, Complete, Abort, AfterRetiring, Finish, queueVars, liveVars
    <2>4. \A q \in executors' : phase'[q] = "running" => q = r \/ phase[q] = "running"
        BY <2>2, <2>3
    <2> QED
        BY <2>1, <2>3, <2>4 DEF Solo, IsFirstOf
<1>4. ASSUME NEW r \in Requests, StartNext(r) \/ SuspendLeftover(r)
      PROVE  UNCHANGED <<admitted, executors, phase, mode, granted>>
    BY <1>4 DEF StartNext, SuspendLeftover, Start, Suspend, executorVars, roundVars
<1>5. CASE Stopped \/ UNCHANGED serviceVars
    BY <1>5 DEF Stopped, serviceVars, queueVars, liveVars, executorVars, roundVars, Solo,
                IsFirstOf
<1>6. ASSUME UNCHANGED <<admitted, executors, phase, mode, granted>>
      PROVE  Solo'
    BY <1>6 DEF Solo, IsFirstOf
<1>7. ASSUME NEW at \in Instants, AbortPreparing(at)
      PROVE  Solo'
    <2>1. /\ UNCHANGED <<admitted, executors>> /\ mode' = "aborted"
          /\ \A q \in Requests : phase'[q] = "running" => phase[q] = "running"
        BY <1>7 DEF AbortPreparing, queueVars, liveVars
    <2>2. executors \subseteq Requests
        BY DEF Types, ServiceTypeOK
    <2> QED
        BY <2>1, <2>2 DEF Solo, IsFirstOf
<1>8. CASE CloseRound
    BY <1>8 DEF CloseRound, Rotate, Solo, IsFirstOf
<1> QED
    BY <1>1, <1>2, <1>3, <1>4, <1>5, <1>6, <1>7, <1>8 DEF ServiceNext, Loop

\* With one request offered per tenant, first come first served, the adapter of a
\* tenant never serves two requests that are both under way.
THEOREM OneOfferOneSlot ==
    ASSUME RequestsPerTenant = 1, Discipline = "fcfs", ArrivesInOrder
    PROVE  ServiceSpec => []SlotsAreExclusive
<1>1. ServiceInit => Solo
    BY DEF ServiceInit, QueueInit, Solo
<1>2. ASSUME QueueTypeOK, Agreement, Solo
      PROVE  SlotsAreExclusive
    <2>1. executors \subseteq Nat
        BY <1>2, QueueAssumption DEF Agreement, NothingStranded, QueueTypeOK
    <2> QED
        BY <1>2, <2>1 DEF Solo, IsFirstOf, SlotsAreExclusive
<1>3. /\ QueueTypeOK /\ RequestsAccounted /\ Agreement /\ Types /\ Solo
      /\ [ServiceNext]_serviceVars
      => Solo'
    BY SoloStep
<1> QED
    BY <1>1, <1>2, <1>3, LoopAccountsRequests, AgreementInvariant, TypesInvariant, PTL
    DEF ServiceSpec
=============================================================================
