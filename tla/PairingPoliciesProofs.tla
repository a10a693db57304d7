------------------------ MODULE PairingPoliciesProofs ------------------------
(***************************************************************************)
(* The rotation on deficit: when no two tenants' steps match, the policy   *)
(* grants the whole die to one request of the tenant furthest behind, and  *)
(* the lag between two tenants never exceeds what it was when they came to *)
(* share the die, or the charge of one round.  For any number of tenants   *)
(* and of requests, every accounting currency and both policies.           *)
(*                                                                         *)
(* A step can only widen the lag of the tenant that runs it, and while it  *)
(* runs that tenant has the least charge of all that have work; so the     *)
(* step closes a lag, or opens one no larger than its own charge.  That    *)
(* the tenant with the least charge is seen at all rests on the queues:    *)
(* every tenant with work is in the rotation, and offers a request.        *)
(***************************************************************************)
EXTENDS PairingPolicies, ServiceRuntimeProofs

-----------------------------------------------------------------------------
(* The policy drives the loop within its contract.                         *)

\* Every step of the loop under the policy is a step of the loop.
LEMMA PairingUsesLoop ==
    ASSUME [PairingNext]_pairingVars
    PROVE  [ServiceNext]_serviceVars
<1>1. ASSUME NEW at \in Instants, PolicyDecide(at)
      PROVE  ServiceNext
    <2>1. PICK g : Decide(g, at)
        BY <1>1 DEF PolicyDecide
    <2>2. g \in Grants(Offered(at, RequestsPerTenant))
        BY <2>1 DEF Decide
    <2> QED
        BY <2>1, <2>2 DEF ServiceNext, Loop
<1>2. ASSUME NEW r \in Requests, SubmitArrived(r)
      PROVE  ServiceNext
    BY <1>2 DEF SubmitArrived, ServiceNext
<1>3. CASE Serve
    BY <1>3 DEF Serve, ServiceNext, Loop
<1>4. CASE Stopped
    BY <1>4 DEF ServiceNext
<1>5. CASE UNCHANGED pairingVars
    BY <1>5 DEF pairingVars
<1> QED
    BY <1>1, <1>2, <1>3, <1>4, <1>5 DEF PairingNext

\* The loop under the policy implements the loop under any policy: what is
\* proved of the loop holds here.
THEOREM PairingImplementsLoop == PairingSpec => ServiceSpec
<1>1. PairingInit => ServiceInit
    BY DEF PairingInit
<1> QED
    BY <1>1, PairingUsesLoop, PTL DEF PairingSpec, ServiceSpec

-----------------------------------------------------------------------------
(* Least requests.                                                         *)

\* The least of some requests by a number, then by their identifiers.
LEMMA LeastOfPairs ==
    ASSUME NEW S \in SUBSET Requests, S # {},
           NEW f, \A r \in S : f[r] \in Nat,
           NEW rank, \A r \in S : rank[r] = <<f[r], r>>
    PROVE  Least(S, rank) \in S /\ \A q \in S : f[Least(S, rank)] <= f[q]
<1> DEFINE C == {f[r] : r \in S}
<1>1. S \in SUBSET Nat
    BY QueueAssumption
<1>2. C \in SUBSET Nat /\ C # {}
    OBVIOUS
<1>3. PICK c \in C : \A d \in C : c <= d
    BY <1>2, LeastNatural
<1> DEFINE R == {r \in S : f[r] = c}
<1>4. R \in SUBSET Nat /\ R # {}
    BY <1>1
<1>5. PICK r \in R : \A q \in R : r <= q
    BY <1>4, LeastNatural
<1>6. ASSUME NEW q \in S \ {r}
      PROVE  TupleLess(<<f[r], r>>, <<f[q], q>>)
    <2>1. f[r] \in Nat /\ f[q] \in Nat /\ f[r] <= f[q] /\ r \in Nat /\ q \in Nat
        BY <1>1, <1>3
    <2>2. CASE f[r] < f[q]
        BY <2>1, <2>2 DEF TupleLess
    <2>3. CASE f[r] = f[q]
        <3>1. r < q
            BY <1>5, <2>1, <2>3
        <3> QED
            BY <2>1, <2>3, <3>1 DEF TupleLess
    <2> QED
        BY <2>1, <2>2, <2>3
<1>7. \E x \in S : \A q \in S \ {x} : TupleLess(rank[x], rank[q])
    BY <1>6
<1>8. PICK x \in S : x = Least(S, rank) /\ \A q \in S \ {x} : TupleLess(rank[x], rank[q])
    BY <1>7 DEF Least
<1>9. ASSUME NEW q \in S \ {x}
      PROVE  f[x] <= f[q]
    <2>1. TupleLess(<<f[x], x>>, <<f[q], q>>)
        BY <1>8
    <2>2. f[x] \in Nat /\ f[q] \in Nat
        OBVIOUS
    <2> QED
        BY <2>1, <2>2 DEF TupleLess
<1> QED
    BY <1>8, <1>9

\* The least of some requests by two numbers, then by their identifiers.
LEMMA LeastOfTriples ==
    ASSUME NEW S \in SUBSET Requests, S # {},
           NEW f, \A r \in S : f[r] \in Nat,
           NEW h, \A r \in S : h[r] \in Nat,
           NEW rank, \A r \in S : rank[r] = <<f[r], h[r], r>>
    PROVE  Least(S, rank) \in S
<1> DEFINE C == {f[r] : r \in S}
<1>1. S \in SUBSET Nat
    BY QueueAssumption
<1>2. C \in SUBSET Nat /\ C # {}
    OBVIOUS
<1>3. PICK c \in C : \A d \in C : c <= d
    BY <1>2, LeastNatural
<1> DEFINE R == {r \in S : f[r] = c}
           pairs == [r \in R |-> <<h[r], r>>]
<1>4. R \in SUBSET Nat /\ R # {}
    BY <1>1
<1> DEFINE D == {h[r] : r \in R}
<1>5. D \in SUBSET Nat /\ D # {}
    BY <1>4
<1>6. PICK d \in D : \A e \in D : d <= e
    BY <1>5, LeastNatural
<1> DEFINE Q == {r \in R : h[r] = d}
<1>7. Q \in SUBSET Nat /\ Q # {}
    BY <1>4
<1>8. PICK r \in Q : \A q \in Q : r <= q
    BY <1>7, LeastNatural
<1>9. ASSUME NEW q \in S \ {r}
      PROVE  TupleLess(<<f[r], h[r], r>>, <<f[q], h[q], q>>)
    <2>1. /\ f[r] \in Nat /\ f[q] \in Nat /\ f[r] <= f[q] /\ r \in Nat /\ q \in Nat
          /\ h[r] \in Nat /\ h[q] \in Nat
        BY <1>1, <1>3
    <2>2. CASE f[r] < f[q]
        BY <2>1, <2>2 DEF TupleLess
    <2>3. CASE f[r] = f[q] /\ h[r] < h[q]
        BY <2>1, <2>3 DEF TupleLess
    <2>4. CASE f[r] = f[q] /\ h[r] = h[q]
        <3>1. r < q
            BY <1>8, <2>1, <2>4
        <3> QED
            BY <2>1, <2>4, <3>1 DEF TupleLess
    <2>5. f[r] = f[q] => h[r] <= h[q]
        BY <1>6
    <2> QED
        BY <2>1, <2>2, <2>3, <2>4, <2>5
<1>10. \E x \in S : \A q \in S \ {x} : TupleLess(rank[x], rank[q])
    BY <1>9
<1> QED
    BY <1>10 DEF Least

-----------------------------------------------------------------------------
(* The grant.                                                              *)

\* The steps of requests of different tenants never match.
NothingMatches == \A q, r \in Requests : Owner[q] # Owner[r] => ~Matches(q, r)

\* A candidate is a request offered, and no tenant has two.
LEMMA CandidatesAreOffered ==
    ASSUME NEW offered \in SUBSET Requests
    PROVE  /\ Candidates(offered) \subseteq offered
           /\ \A q, r \in Candidates(offered) : q # r => Owner[q] # Owner[r]
<1> DEFINE f == [r \in Requests |-> HalfStep(r)]
           rank == [q \in offered |-> <<HalfStep(q), q>>]
           Of(t) == {q \in offered : Owner[q] = t}
<1>1. \A r \in Requests : HalfStep(r) \in Nat
    BY TableAssumption, PairingAssumption DEF HalfStep
<1>2. ASSUME NEW t \in {Owner[q] : q \in offered}
      PROVE  Least(Of(t), rank) \in Of(t)
    <2>1. Of(t) \in SUBSET Requests /\ Of(t) # {}
        OBVIOUS
    <2>2. \A r \in Of(t) : f[r] \in Nat /\ rank[r] = <<f[r], r>>
        BY <1>1
    <2> HIDE DEF f, rank, Of
    <2> QED
        BY <2>1, <2>2, LeastOfPairs
<1>3. Candidates(offered) = {Least(Of(t), rank) : t \in {Owner[q] : q \in offered}}
    BY DEF Candidates
<1>4. \A q \in Candidates(offered) :
          \E t : q = Least(Of(t), rank) /\ q \in Of(t)
    <2> HIDE DEF rank, Of
    <2> QED
        BY <1>2, <1>3
<1>5. ASSUME NEW q \in Candidates(offered)
      PROVE  q \in offered /\ q = Least(Of(Owner[q]), rank)
    <2>1. PICK t : q = Least(Of(t), rank) /\ q \in Of(t)
        BY <1>4
    <2>2. t = Owner[q] /\ q \in offered
        BY <2>1
    <2> HIDE DEF rank, Of
    <2> QED
        BY <2>1, <2>2
<1> HIDE DEF rank, Of
<1> QED
    BY <1>5

\* So the policy pairs nobody, and the request furthest behind has the die.
LEMMA GrantIsExclusive ==
    ASSUME NothingMatches, charge \in [Tenants -> Nat],
           NEW offered \in SUBSET Requests, offered # {}, NEW at
    PROVE  PolicyGrant(offered, at) = [r \in {Behind(offered)} |-> Units]
<1> DEFINE C == Candidates(offered)
           ranks == [r \in offered |-> <<charge[Owner[r]], HalfStep(r), r>>]
           first == Least(C, ranks)
           second == Least(C \ {first}, ranks)
           f == [r \in offered |-> charge[Owner[r]]]
           h == [r \in offered |-> HalfStep(r)]
<1>1. \A r \in offered : f[r] \in Nat /\ h[r] \in Nat /\ ranks[r] = <<f[r], h[r], r>>
    BY QueueAssumption, TableAssumption, PairingAssumption DEF HalfStep
<1>2. C \subseteq offered /\ \A q, r \in C : q # r => Owner[q] # Owner[r]
    BY CandidatesAreOffered
<1>3. \A S \in SUBSET C : S # {} => Least(S, ranks) \in S
    <2> HIDE DEF C, ranks, f, h
    <2> QED
        BY <1>1, <1>2, LeastOfTriples
<1>4. IsFiniteSet(C)
    BY <1>2, FS_Subset, TableAssumption
<1>5. ASSUME Cardinality(C) >= 2
      PROVE  ~Matches(first, second)
    <2>1. C # {}
        BY <1>5, FS_EmptySet
    <2>2. C \ {first} # {}
        <3>1. Cardinality({first}) = 1
            <4> HIDE DEF first
            <4> QED
                BY FS_Singleton
        <3>2. C # {first}
            <4> HIDE DEF C, first
            <4> QED
                BY <1>5, <3>1
        <3> QED
            BY <2>1, <3>2
    <2>3. first \in C
        BY <1>3, <2>1
    <2>4. second \in C \ {first}
        BY <1>3, <2>2
    <2> HIDE DEF C, ranks, first, second
    <2>5. Owner[first] # Owner[second] /\ first \in Requests /\ second \in Requests
        BY <1>2, <2>3, <2>4
    <2> QED
        BY <2>5 DEF NothingMatches
<1>6. StepMatched(offered) = [r \in {Behind(offered)} |-> Units]
    BY <1>5 DEF StepMatched
<1> QED
    BY <1>6 DEF PolicyGrant

\* The request furthest behind is offered, and nobody offered has less charge.
LEMMA BehindHasLeastCharge ==
    ASSUME charge \in [Tenants -> Nat], NEW offered \in SUBSET Requests, offered # {}
    PROVE  /\ Behind(offered) \in offered
           /\ \A q \in offered : charge[Owner[Behind(offered)]] <= charge[Owner[q]]
<1> DEFINE f == [r \in offered |-> charge[Owner[r]]]
           rank == [r \in offered |-> <<charge[Owner[r]], r>>]
<1>1. \A r \in offered : f[r] \in Nat /\ rank[r] = <<f[r], r>>
    BY QueueAssumption
<1>2. Least(offered, rank) \in offered /\ \A q \in offered : f[Least(offered, rank)] <= f[q]
    <2> HIDE DEF f, rank
    <2> QED
        BY <1>1, LeastOfPairs
<1> QED
    BY <1>2 DEF Behind

-----------------------------------------------------------------------------
(* Every tenant with work offers a request.                                *)

\* The order within a tenant is strict.
LEMMA BeforeIsStrict ==
    ASSUME NEW p \in Requests, NEW q \in Requests, NEW r \in Requests
    PROVE  ~Before(r, r) /\ (Before(p, q) /\ Before(q, r) => Before(p, r))
<1>1. /\ p \in Nat /\ q \in Nat /\ r \in Nat
      /\ Arrival[p] \in Nat /\ Arrival[q] \in Nat /\ Arrival[r] \in Nat
    BY QueueAssumption
<1>2. ~Earlier(r, r) /\ (Earlier(p, q) /\ Earlier(q, r) => Earlier(p, r))
    BY <1>1 DEF Earlier
<1>3. ~MoreUrgent(r, r) /\ (MoreUrgent(p, q) /\ MoreUrgent(q, r) => MoreUrgent(p, r))
    <2>1. \A x \in DOMAIN Deadline : Deadline[x] \in Nat
        BY QueueAssumption
    <2> QED
        BY <1>2, <2>1 DEF MoreUrgent
<1> QED
    BY <1>2, <1>3 DEF Before

\* Some ready requests of a tenant have a first.
LEMMA ReadyHasFirst ==
    ASSUME NEW S \in SUBSET Requests, S # {}
    PROVE  \E r \in S : {q \in S : Before(q, r)} = {}
<1> DEFINE Ahead(r) == {q \in S : Before(q, r)}
           Sizes == {Cardinality(Ahead(r)) : r \in S}
<1>1. \A r \in S : IsFiniteSet(Ahead(r)) /\ Cardinality(Ahead(r)) \in Nat
    <2>1. IsFiniteSet(S)
        BY FS_Subset, TableAssumption
    <2>2. ASSUME NEW r \in S
          PROVE  IsFiniteSet(Ahead(r))
        BY <2>1, FS_Subset
    <2> HIDE DEF Ahead
    <2> QED
        BY <2>2, FS_CardinalityType
<1>2. Sizes \in SUBSET Nat /\ Sizes # {}
    BY <1>1
<1>3. PICK n \in Sizes : \A m \in Sizes : n <= m
    BY <1>2, LeastNatural
<1>4. PICK r \in S : Cardinality(Ahead(r)) = n
    BY <1>3
<1>5. ASSUME NEW q \in Ahead(r)
      PROVE  FALSE
    <2>1. q \in S /\ q \in Requests /\ r \in Requests /\ Before(q, r)
        OBVIOUS
    <2>2. Ahead(q) \subseteq Ahead(r)
        BY <2>1, BeforeIsStrict
    <2>3. q \in Ahead(r) /\ q \notin Ahead(q)
        BY <2>1, BeforeIsStrict
    <2> HIDE DEF Ahead
    <2>4. Cardinality(Ahead(q)) <= Cardinality(Ahead(r))
          /\ Cardinality(Ahead(q)) # Cardinality(Ahead(r))
        BY <1>1, <2>2, <2>3, FS_Subset
    <2>5. Cardinality(Ahead(q)) \in Sizes
        BY <2>1
    <2> HIDE DEF Sizes
    <2>6. n <= Cardinality(Ahead(q)) /\ Cardinality(Ahead(q)) \in Nat
        BY <1>1, <1>3, <2>1, <2>5
    <2> QED
        BY <1>4, <1>2, <1>3, <2>4, <2>6
<1> QED
    BY <1>5

\* So a tenant of the rotation with a request that has arrived is offered.
LEMMA BacklogIsOfferedNow ==
    ASSUME QueueTypeOK, NEW at, NEW q \in waiting, Arrival[q] <= at, Owner[q] \in Known
    PROVE  \E r \in Offered(at, RequestsPerTenant) : Owner[r] = Owner[q]
<1> DEFINE S == Ready(Owner[q], at)
<1>1. S \in SUBSET Requests /\ q \in S
    BY DEF Ready, QueueTypeOK
<1>2. PICK r \in S : {p \in S : Before(p, r)} = {}
    <2> HIDE DEF S
    <2> QED
        BY <1>1, ReadyHasFirst
<1>3. Owner[r] = Owner[q]
    BY DEF Ready
<1>4. Cardinality({p \in Ready(Owner[r], at) : Before(p, r)}) = 0
    BY <1>2, <1>3, FS_EmptySet
<1>5. r \in Offered(at, RequestsPerTenant)
    BY <1>3, <1>4, RuntimeAssumption DEF Offered
<1> QED
    BY <1>3, <1>5

-----------------------------------------------------------------------------
(* The charge of one round.                                                *)

\* What a step on the whole die may be charged for, alone.
WholeDie ==
    UNION {Reports[Model[r]][Units] \cup {StepCost[Model[r]][Units]} : r \in Requests}

\* An adapter measures finitely many durations of a step on the whole die.
FiniteReports == \A r \in Requests : IsFiniteSet(Reports[Model[r]][Units])

\* None is longer than the one OneRound is the charge of.
LEMMA LongestOnWholeDie ==
    ASSUME FiniteReports, NEW s \in WholeDie
    PROVE  s \in Nat /\ Max(WholeDie) \in Nat /\ s <= Max(WholeDie)
<1> DEFINE Of(r) == Reports[Model[r]][Units] \cup {StepCost[Model[r]][Units]}
           F == {Of(r) : r \in Requests}
           f == [r \in Requests |-> Of(r)]
<1>1. \A r \in Requests : Of(r) \subseteq Nat
    BY TableAssumption, RuntimeAssumption
<1>2. \A r \in Requests : IsFiniteSet(Of(r))
    BY FS_AddElement DEF FiniteReports
<1>3. IsFiniteSet(F)
    <2>1. f \in Surjection(Requests, F)
        <3> HIDE DEF Of
        <3> QED
            BY DEF Surjection
    <2> HIDE DEF f, F
    <2> QED
        BY <2>1, FS_Surjection, TableAssumption
<1>4. WholeDie = UNION F
    BY DEF WholeDie
<1>5. \A T \in F : IsFiniteSet(T) /\ T \subseteq Nat
    BY <1>1, <1>2
<1> HIDE DEF F
<1>6. IsFiniteSet(WholeDie) /\ WholeDie \in SUBSET Nat
    BY <1>3, <1>4, <1>5, FS_UNION
<1> QED
    BY <1>6, MaxOfFinite

\* A longer step is not charged less.
LEMMA ChargeIsMonotone ==
    ASSUME NEW a \in Nat, NEW b \in Nat, a <= b
    PROVE  /\ Charge(Units, a) \in Nat /\ Charge(Units, b) \in Nat
           /\ Charge(Units, a) <= Charge(Units, b)
<1>1. Units \in Nat
    BY RuntimeAssumption
<1>2. Units * a \in Nat /\ Units * b \in Nat /\ Units * a <= Units * b
    BY <1>1
<1> QED
    BY <1>2, RuntimeAssumption DEF Charge

\* A step on the whole die is charged at most one round.
LEMMA StepIsOneRound ==
    ASSUME FiniteReports, NEW r \in Requests, granted = [q \in {r} |-> Units],
           NEW c \in Charged(r)
    PROVE  /\ Charge(granted[r], c.seconds) \in Nat /\ OneRound \in Nat
           /\ Charge(granted[r], c.seconds) <= OneRound
<1>1. granted[r] = Units /\ Size(granted) = 1
    BY FS_Singleton DEF Size
<1>2. c.seconds \in WholeDie
    BY <1>1 DEF Charged, ModelCost, Belief, WholeDie
<1>3. OneRound = Charge(Units, Max(WholeDie))
    BY DEF OneRound, WholeDie
<1> QED
    BY <1>1, <1>2, <1>3, LongestOnWholeDie, ChargeIsMonotone

-----------------------------------------------------------------------------
(* The lag.                                                                *)

\* Two tenants are within their bound.
IsWithin(t, u) == Lag(t, u) <= joinLag[t][u] \/ Lag(t, u) <= OneRound

\* The round serves one request, alone, and until it has nobody with work has
\* less charge than its tenant.
ServesBehind ==
    \/ granted = NoGrant /\ todo = {}
    \/ \E r \in Requests :
          /\ granted = [q \in {r} |-> Units]
          /\ todo \subseteq {r}
          /\ r \in todo => \A u \in Backlogged : charge[Owner[r]] <= charge[u]

\* LagIsBounded made inductive: whoever has work has arrived, and a round is
\* for the tenant furthest behind.
Rotating ==
    /\ joinLag \in [Tenants -> [Tenants -> Nat]]
    /\ \A r \in waiting \cup inFlight : Arrival[r] <= now
    /\ mode = "round" => ServesBehind
    /\ \A t, u \in Backlogged : IsWithin(t, u)

\* Lags are naturals.
LEMMA LagIsNatural ==
    ASSUME charge \in [Tenants -> Nat], NEW t \in Tenants, NEW u \in Tenants
    PROVE  Lag(t, u) \in Nat
<1>1. charge[t] \in Nat /\ charge[u] \in Nat
    OBVIOUS
<1> QED
    BY <1>1 DEF Lag

\* Those with work are tenants.
LEMMA BackloggedAreTenants ==
    ASSUME QueueTypeOK
    PROVE  Backlogged \subseteq Tenants
BY QueueAssumption DEF QueueTypeOK, Backlogged

\* Nothing changes the lags while nobody is charged and nobody joins.
LEMMA LagsUnchanged ==
    ASSUME Rotating, UNCHANGED <<charge, joinLag>>, Backlogged' \subseteq Backlogged
    PROVE  \A t, u \in Backlogged' : IsWithin(t, u)'
BY DEF Rotating, IsWithin, Lag

\* A charge of the one with the least closes a lag, or opens one no larger.
LEMMA ChargeMovesLag ==
    ASSUME NEW a \in Nat, NEW b \in Nat, NEW c \in Nat, a <= b,
           NEW n \in Nat, NEW m \in Nat, b - a <= n \/ b - a <= m, c <= m
    PROVE  LET lag == IF a + c >= b THEN a + c - b ELSE b - (a + c)
           IN  lag <= n \/ lag <= m
OBVIOUS

\* A step of the round keeps the lags within their bounds.
LEMMA ServedLag ==
    ASSUME FiniteReports, QueueTypeOK, Types, Rotating,
           NEW r \in Requests, NEW p, Step(r, p),
           UNCHANGED joinLag, Backlogged' \subseteq Backlogged
    PROVE  \A t, u \in Backlogged' : IsWithin(t, u)'
<1> DEFINE s == Owner[r]
<1>1. mode = "round" /\ r \in todo /\ r \in inFlight
    BY DEF Step, IsNext
<1>2. granted = [q \in {r} |-> Units] /\ \A u \in Backlogged : charge[s] <= charge[u]
    BY <1>1 DEF Rotating, ServesBehind
<1>3. charge \in [Tenants -> Nat] /\ s \in Tenants /\ s \in Backlogged
    BY <1>1, QueueAssumption DEF Types, ServiceTypeOK, Backlogged
<1>4. PICK c \in Charged(r) :
          charge' = [charge EXCEPT ![s] = @ + Charge(granted[r], c.seconds)]
    BY DEF Step
<1> DEFINE k == Charge(granted[r], c.seconds)
<1>5. k \in Nat /\ OneRound \in Nat /\ k <= OneRound
    BY <1>2, StepIsOneRound
<1> HIDE DEF s, k
<1>6. charge' = [charge EXCEPT ![s] = charge[s] + k]
    BY <1>4 DEF k
<1>7. Backlogged \subseteq Tenants
    BY BackloggedAreTenants
<1>8. ASSUME NEW u \in Backlogged, u # s
      PROVE  IsWithin(s, u)' /\ IsWithin(u, s)'
    <2>1. charge[s] \in Nat /\ charge[u] \in Nat /\ charge[s] <= charge[u]
        BY <1>2, <1>3, <1>7
    <2>2. charge'[s] = charge[s] + k /\ charge'[u] = charge[u]
        BY <1>3, <1>6, <1>7, <1>8
    <2>3. joinLag[s][u] \in Nat /\ joinLag[u][s] \in Nat
        BY <1>3, <1>7 DEF Rotating
    <2>4. IsWithin(s, u) /\ IsWithin(u, s)
        BY <1>3 DEF Rotating
    <2>5. Lag(s, u) = charge[u] - charge[s] /\ Lag(u, s) = charge[u] - charge[s]
        BY <2>1 DEF Lag
    <2> DEFINE lag == IF charge[s] + k >= charge[u] THEN charge[s] + k - charge[u]
                                                    ELSE charge[u] - (charge[s] + k)
    <2>6. Lag(s, u)' = lag /\ Lag(u, s)' = lag
        BY <1>5, <2>1, <2>2 DEF Lag
    <2>7. lag <= joinLag[s][u] \/ lag <= OneRound
        BY <1>5, <2>1, <2>3, <2>4, <2>5, ChargeMovesLag DEF IsWithin
    <2>8. lag <= joinLag[u][s] \/ lag <= OneRound
        BY <1>5, <2>1, <2>3, <2>4, <2>5, ChargeMovesLag DEF IsWithin
    <2> HIDE DEF lag
    <2> QED
        BY <2>6, <2>7, <2>8 DEF IsWithin
<1>9. ASSUME NEW t \in Backlogged, NEW u \in Backlogged, t # s, u # s
      PROVE  IsWithin(t, u)'
    <2>1. charge'[t] = charge[t] /\ charge'[u] = charge[u]
        BY <1>3, <1>6, <1>7, <1>9
    <2> QED
        BY <2>1 DEF Rotating, IsWithin, Lag
<1>10. IsWithin(s, s)'
    <2>1. charge'[s] \in Nat
        BY <1>3, <1>5, <1>6
    <2>2. Lag(s, s)' = 0
        BY <2>1 DEF Lag
    <2> QED
        BY <1>5, <2>2 DEF IsWithin
<1> QED
    BY <1>8, <1>9, <1>10

\* The decision is for the tenant furthest behind of all that have work.
LEMMA DecideRotating ==
    ASSUME NothingMatches, QueueTypeOK, BackloggedAreOffered, Agreement, Types, Rotating,
           NEW at \in Instants, PolicyDecide(at)
    PROVE  Rotating'
<1> DEFINE offered == Offered(at, RequestsPerTenant)
           g == PolicyGrant(offered, at)
<1>1. Decide(g, at) /\ joinLag' = joinLag
    BY DEF PolicyDecide
<1>2. /\ now' = at /\ mode' = "round" /\ todo' = DOMAIN granted'
      /\ UNCHANGED <<waiting, inFlight, charge>>
    BY <1>1 DEF Decide, queueVars, liveVars
<1>3. now \in Nat /\ at \in Nat /\ now <= at
    BY RuntimeAssumption DEF Instants, Types, ServiceTypeOK
<1>4. inFlight = {}
    BY <1>1 DEF Decide, Agreement, NothingStranded
<1>5. \A r \in waiting' \cup inFlight' : Arrival[r] <= now'
    BY <1>2, <1>3, QueueAssumption DEF Rotating, QueueTypeOK
<1>6. Backlogged' = Backlogged
    BY <1>2 DEF Backlogged
<1>7. ServesBehind'
    <2>1. CASE offered = {}
        <3>1. g = NoGrant
            BY <2>1 DEF PolicyGrant
        <3>2. Size(g) = 0
            BY <3>1, FS_EmptySet DEF NoGrant, Size
        <3>3. granted' = NoGrant
            BY <1>1, <3>1, <3>2 DEF Decide, IsHeld, IsUnvouched
        <3> QED
            BY <1>2, <3>3 DEF ServesBehind, NoGrant
    <2>2. CASE offered # {}
        <3> DEFINE r == Behind(offered)
        <3>1. charge \in [Tenants -> Nat]
            BY DEF Types, ServiceTypeOK
        <3>2. offered \in SUBSET Requests
            BY DEF Offered, Ready, QueueTypeOK
        <3> HIDE DEF offered
        <3>3. r \in offered /\ \A q \in offered : charge[Owner[r]] <= charge[Owner[q]]
            BY <2>2, <3>1, <3>2, BehindHasLeastCharge
        <3>4. g = [q \in {r} |-> Units]
            BY <2>2, <3>1, <3>2, GrantIsExclusive
        <3>5. Size(g) = 1
            BY <3>4, FS_Singleton DEF Size
        <3> HIDE DEF g, r
        <3>6. granted' = g
            BY <1>1, <3>5 DEF Decide, IsHeld, IsUnvouched
        <3>7. ASSUME NEW u \in Backlogged
              PROVE  charge[Owner[r]] <= charge[u]
            <4>1. PICK q \in waiting : u = Owner[q]
                BY <1>4 DEF Backlogged
            <4>2. Arrival[q] <= at /\ Owner[q] \in Known
                BY <1>2, <1>5, <4>1 DEF BackloggedAreOffered
            <4>3. PICK p \in offered : Owner[p] = Owner[q]
                BY <4>2, BacklogIsOfferedNow DEF offered
            <4> QED
                BY <3>3, <4>1, <4>3
        <3>8. todo' = {r} /\ r \in Requests
            BY <1>2, <3>2, <3>3, <3>4, <3>6
        <3> QED
            BY <1>2, <1>6, <3>4, <3>6, <3>7, <3>8 DEF ServesBehind
    <2> QED
        BY <2>1, <2>2
<1>8. \A t, u \in Backlogged' : IsWithin(t, u)'
    BY <1>1, <1>2, <1>6, LagsUnchanged
<1> QED
    BY <1>1, <1>5, <1>7, <1>8 DEF Rotating

\* A tenant that joins brings its own bounds.
LEMMA JoinRotating ==
    ASSUME QueueTypeOK, Types, Rotating, NEW r \in Requests, SubmitArrived(r)
    PROVE  Rotating'
<1> DEFINE t == Owner[r]
<1>1. /\ waiting' = waiting \cup {r} /\ mode' = "idle" /\ Arrival[r] <= now
      /\ UNCHANGED <<inFlight, charge, now>>
    BY DEF SubmitArrived, Submit, Admit, roundVars
<1>2. Backlogged' = Backlogged \cup {t}
    BY <1>1 DEF Backlogged
<1>3. charge \in [Tenants -> Nat] /\ t \in Tenants /\ Backlogged \subseteq Tenants
    BY QueueAssumption, BackloggedAreTenants DEF Types, ServiceTypeOK
<1>4. \A x, y \in Tenants : Lag(x, y) \in Nat /\ Lag(x, y)' = Lag(x, y)
    BY <1>1, <1>3, LagIsNatural DEF Lag
<1>5. \A q \in waiting' \cup inFlight' : Arrival[q] <= now'
    BY <1>1 DEF Rotating
<1>6. CASE t \in Backlogged
    <2>1. joinLag' = joinLag /\ Backlogged' = Backlogged
        BY <1>2, <1>6 DEF SubmitArrived
    <2>2. \A x, y \in Backlogged' : IsWithin(x, y)'
        BY <1>1, <2>1, LagsUnchanged
    <2> QED
        BY <1>1, <1>5, <2>1, <2>2 DEF Rotating
<1>7. CASE t \notin Backlogged
    <2>1. joinLag' = [x \in Tenants |-> [y \in Tenants |->
                         IF t \in {x, y} THEN Lag(x, y) ELSE joinLag[x][y]]]
        BY <1>7 DEF SubmitArrived
    <2> HIDE DEF t
    <2>2. joinLag' \in [Tenants -> [Tenants -> Nat]]
        BY <1>4, <2>1 DEF Rotating
    <2>3. ASSUME NEW x \in Backlogged', NEW y \in Backlogged'
          PROVE  IsWithin(x, y)'
        <3>1. x \in Tenants /\ y \in Tenants
            BY <1>2, <1>3
        <3>2. joinLag'[x][y] = IF t \in {x, y} THEN Lag(x, y) ELSE joinLag[x][y]
            BY <2>1, <3>1
        <3>3. CASE t \in {x, y}
            <4>1. joinLag'[x][y] = Lag(x, y)
                BY <3>2, <3>3
            <4>2. Lag(x, y) \in Nat /\ Lag(x, y)' = Lag(x, y)
                BY <1>4, <3>1
            <4>3. Lag(x, y)' <= joinLag'[x][y]
                BY <4>1, <4>2
            <4> QED
                BY <4>3 DEF IsWithin
        <3>4. CASE t \notin {x, y}
            <4>1. IsWithin(x, y)
                BY <1>2, <3>4 DEF Rotating
            <4>2. Lag(x, y)' = Lag(x, y) /\ joinLag'[x][y] = joinLag[x][y]
                BY <1>4, <3>1, <3>2, <3>4
            <4> QED
                BY <4>1, <4>2 DEF IsWithin
        <3> QED
            BY <3>3, <3>4
    <2> QED
        BY <1>1, <1>5, <2>2, <2>3 DEF Rotating
<1> QED
    BY <1>6, <1>7

\* A request granted the whole die runs one step of its round.
LEMMA AloneRunsOne ==
    ASSUME Types, Rotating, NEW r \in Requests, NEW p, Step(r, p)
    PROVE  ~(stepsRun'[r] < Budget(r)) /\ todo = {r}
<1>1. mode = "round" /\ r \in todo
    BY DEF Step, IsNext
<1>2. granted = [q \in {r} |-> Units] /\ todo = {r}
    BY <1>1 DEF Rotating, ServesBehind
<1>3. Size(granted) = 1
    BY <1>2, FS_Singleton DEF Size
<1>4. Budget(r) = 1
    BY <1>3 DEF Budget
<1>5. stepsRun'[r] = stepsRun[r] + 1 /\ stepsRun[r] \in Nat
    BY DEF Step, Types
<1> QED
    BY <1>2, <1>4, <1>5

\* What the round leaves when it is served, or gives up.
LEMMA AfterService ==
    ASSUME Rotating, UNCHANGED <<granted, now, joinLag>>,
           waiting' \cup inFlight' \subseteq waiting \cup inFlight,
           mode' = "aborted" \/ (mode = "round" /\ todo' = {}),
           \A t, u \in Backlogged' : IsWithin(t, u)'
    PROVE  Rotating'
<1>1. \A q \in waiting' \cup inFlight' : Arrival[q] <= now'
    BY DEF Rotating
<1>2. mode' = "round" => ServesBehind'
    BY DEF Rotating, ServesBehind
<1> QED
    BY <1>1, <1>2 DEF Rotating

\* So does every other step of the loop.
LEMMA ServeRotating ==
    ASSUME FiniteReports, QueueTypeOK, Types, Rotating, Serve
    PROVE  Rotating'
<1>1. joinLag' = joinLag
    BY DEF Serve
<1>2. ASSUME NEW r \in Requests, Advance(r) \/ Complete(r) \/ Abort(r)
      PROVE  Rotating'
    <2>1. /\ UNCHANGED <<granted, now>>
          /\ waiting' \cup inFlight' \subseteq waiting \cup inFlight
        BY <1>2 DEF Advance, Complete, Abort, Finish, queueVars, liveVars
    <2>2. Backlogged' \subseteq Backlogged
        BY <2>1 DEF Backlogged
    <2>3. mode' = "aborted" \/ (mode = "round" /\ todo' = {})
        <3>1. CASE Advance(r)
            <4>1. Step(r, "running") /\ mode = "round"
                BY <3>1 DEF Advance, Step, IsNext
            <4>2. ~(stepsRun'[r] < Budget(r)) /\ todo = {r}
                BY <4>1, AloneRunsOne
            <4> QED
                BY <3>1, <4>1, <4>2 DEF Advance
        <3>2. CASE Complete(r)
            <4>1. Step(r, "finished") /\ mode = "round"
                BY <3>2 DEF Complete, Step, IsNext
            <4>2. todo = {r}
                BY <4>1, AloneRunsOne
            <4> QED
                BY <3>2, <4>1, <4>2 DEF Complete
        <3>3. CASE Abort(r)
            BY <3>3 DEF Abort
        <3> QED
            BY <1>2, <3>1, <3>2, <3>3
    <2>4. \A t, u \in Backlogged' : IsWithin(t, u)'
        <3>1. CASE \E p : Step(r, p)
            BY <1>1, <2>2, <3>1, ServedLag
        <3>2. CASE ~\E p : Step(r, p)
            <4>1. charge' = charge
                BY <1>2, <3>2 DEF Advance, Complete, Abort
            <4> QED
                BY <1>1, <2>2, <4>1, LagsUnchanged
        <3> QED
            BY <3>1, <3>2
    <2> QED
        BY <1>1, <2>1, <2>3, <2>4, AfterService
<1>3. ASSUME NEW r \in Requests, StartNext(r) \/ SuspendLeftover(r)
      PROVE  Rotating'
    <2>1. /\ UNCHANGED <<granted, todo, mode, now, charge>>
          /\ waiting' \cup inFlight' = waiting \cup inFlight
        BY <1>3 DEF StartNext, SuspendLeftover, Start, Suspend, WaitingAfterSuspend,
                    executorVars, roundVars
    <2>2. Backlogged' = Backlogged
        BY <2>1 DEF Backlogged
    <2>3. mode' = "round" => ServesBehind'
        BY <2>1, <2>2 DEF Rotating, ServesBehind
    <2>4. \A t, u \in Backlogged' : IsWithin(t, u)'
        BY <1>1, <2>1, <2>2, LagsUnchanged
    <2> QED
        BY <1>1, <2>1, <2>3, <2>4 DEF Rotating
<1>4. ASSUME NEW at \in Instants, AbortPreparing(at)
      PROVE  Rotating'
    <2>1. now' = at /\ mode' = "aborted" /\ UNCHANGED <<waiting, inFlight, charge>>
        BY <1>4 DEF AbortPreparing, queueVars, liveVars
    <2>2. now \in Nat /\ at \in Nat /\ now <= at
        BY RuntimeAssumption DEF Instants, Types, ServiceTypeOK
    <2>3. \A q \in waiting' \cup inFlight' : Arrival[q] <= now'
        BY <2>1, <2>2, QueueAssumption DEF Rotating, QueueTypeOK
    <2>4. Backlogged' = Backlogged
        BY <2>1 DEF Backlogged
    <2>5. \A t, u \in Backlogged' : IsWithin(t, u)'
        BY <1>1, <2>1, <2>4, LagsUnchanged
    <2> QED
        BY <1>1, <2>1, <2>3, <2>5 DEF Rotating
<1>5. CASE CloseRound
    <2>1. mode' = "idle" /\ UNCHANGED <<waiting, inFlight, charge, now>>
        BY <1>5 DEF CloseRound, Rotate
    <2>2. Backlogged' = Backlogged
        BY <2>1 DEF Backlogged
    <2>3. \A t, u \in Backlogged' : IsWithin(t, u)'
        BY <1>1, <2>1, <2>2, LagsUnchanged
    <2> QED
        BY <1>1, <2>1, <2>3 DEF Rotating
<1> QED
    BY <1>2, <1>3, <1>4, <1>5 DEF Serve

\* Every step keeps the lags within their bounds.
LEMMA RotatingStep ==
    ASSUME NothingMatches, FiniteReports, QueueTypeOK, BackloggedAreOffered, Agreement,
           Types, Rotating, [PairingNext]_pairingVars
    PROVE  Rotating'
<1>1. ASSUME NEW at \in Instants, PolicyDecide(at)
      PROVE  Rotating'
    BY <1>1, DecideRotating
<1>2. ASSUME NEW r \in Requests, SubmitArrived(r)
      PROVE  Rotating'
    BY <1>2, JoinRotating
<1>3. CASE Serve
    BY <1>3, ServeRotating
<1>4. ASSUME UNCHANGED pairingVars \/ (Stopped /\ UNCHANGED <<memory, probed, joinLag>>)
      PROVE  Rotating'
    <2>1. UNCHANGED <<waiting, inFlight, charge, now, mode, granted, todo, joinLag>>
        BY <1>4 DEF pairingVars, Stopped, serviceVars, queueVars, liveVars, executorVars,
                    roundVars
    <2>2. Backlogged' = Backlogged
        BY <2>1 DEF Backlogged
    <2>3. \A t, u \in Backlogged' : IsWithin(t, u)'
        BY <2>1, <2>2, LagsUnchanged
    <2>4. mode' = "round" => ServesBehind'
        BY <2>1, <2>2 DEF Rotating, ServesBehind
    <2> QED
        BY <2>1, <2>3, <2>4 DEF Rotating
<1> QED
    BY <1>1, <1>2, <1>3, <1>4 DEF PairingNext

\* When no two tenants' steps match, rotating on deficit keeps the lag between
\* any two tenants with work within one round, or within what it was when they
\* came to share the die.
THEOREM RotationBoundsLag ==
    ASSUME NothingMatches, FiniteReports
    PROVE  PairingSpec => []LagIsBounded
<1>1. PairingInit => Rotating
    BY DEF PairingInit, ServiceInit, QueueInit, Rotating, Backlogged
<1>2. ASSUME QueueTypeOK, Types, Rotating
      PROVE  LagIsBounded
    <2> SUFFICES ASSUME NEW t \in Backlogged, NEW u \in Backlogged
                 PROVE  Lag(t, u) <= Max({joinLag[t][u], OneRound})
        BY DEF LagIsBounded
    <2>1. t \in Tenants /\ u \in Tenants /\ charge \in [Tenants -> Nat]
        BY <1>2, BackloggedAreTenants DEF Types, ServiceTypeOK
    <2>2. Lag(t, u) \in Nat /\ joinLag[t][u] \in Nat
        BY <1>2, <2>1, LagIsNatural DEF Rotating
    <2>3. OneRound \in Nat
        <3>1. PICK r \in Requests : TRUE
            BY <1>2 DEF Backlogged, QueueTypeOK
        <3>2. StepCost[Model[r]][Units] \in WholeDie
            BY DEF WholeDie
        <3>3. OneRound = Charge(Units, Max(WholeDie))
            BY DEF OneRound, WholeDie
        <3> QED
            BY <3>2, <3>3, LongestOnWholeDie, ChargeIsMonotone
    <2>4. IsWithin(t, u)
        BY <1>2 DEF Rotating
    <2> QED
        BY <2>2, <2>3, <2>4, LargerOfTwo DEF IsWithin
<1>3. /\ QueueTypeOK /\ BackloggedAreOffered /\ Agreement /\ Types /\ Rotating
      /\ [PairingNext]_pairingVars
      => Rotating'
    BY RotatingStep
<1>4. QueueTypeOK /\ Types /\ Rotating => LagIsBounded
    BY <1>2
<1> QED
    BY <1>1, <1>3, <1>4, PairingImplementsLoop, LoopImplementsQueues, QueueTypeInvariant,
       BacklogIsOffered, AgreementInvariant, TypesInvariant, PTL DEF PairingSpec
==============================================================================
