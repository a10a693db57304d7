-------------------------- MODULE PairingPolicies ---------------------------
(***************************************************************************)
(* policies.py driving the runtime: step_matched_pairing, and the sticky   *)
(* probing policy built on it, over traffic without deadlines.  For such   *)
(* traffic deadline_aware rescues nothing, so slo_aware_partitioning is    *)
(* step_matched_pairing.                                                   *)
(*                                                                         *)
(* The predictor skews every prediction alike, so it cancels where two     *)
(* predictions are compared.                                               *)
(***************************************************************************)
EXTENDS ServiceRuntime

CONSTANTS
    Sticky,             \* the sticky probing policy, or step_matched_pairing
    Tolerance,          \* tolerance between two paired steps, in percent
    SlowReading,        \* FAST_PAIRING_EXTERNALITY * slow_factor, in percent
    BaseBackoff,        \* base_backoff_s of the sticky policy
    MaxPairingBackoff   \* max_backoff_s of the sticky policy

VARIABLES
    memory,   \* the sticky policy's verdicts, by pair of widths
    probed,   \* history: the pairs of widths co-run since their last verdict
    joinLag   \* history: the lag between two tenants when they came to share

pairingVars == <<serviceVars, memory, probed, joinLag>>

Lag(t, u) == IF charge[t] >= charge[u] THEN charge[t] - charge[u]
                                       ELSE charge[u] - charge[t]

Backlogged == {Owner[r] : r \in waiting \cup inFlight}

PairingInit ==
    /\ ServiceInit
    /\ memory = <<>>
    /\ probed = {}
    /\ joinLag = [t \in Tenants |-> [u \in Tenants |-> 0]]

-----------------------------------------------------------------------------
Half == Units \div 2

\* The policy grants no width but the halves of the die and the whole.
ASSUME PairingAssumption == {Half, Units - Half} \subseteq Widths

\* Python's order of tuples, for tuples of one length.
TupleLess(x, y) ==
    \E i \in DOMAIN x : x[i] < y[i] /\ \A j \in 1 .. i - 1 : x[j] = y[j]

\* The request of S with the least rank.
Least(S, rank) == CHOOSE r \in S : \A q \in S \ {r} : TupleLess(rank[r], rank[q])

\* The predicted step of r on half the die.
HalfStep(r) == StepCost[Model[r]][Half]

\* Mutant of Behind: the request that came first, whoever is behind.
FirstCome(offered) == Least(offered, [r \in offered |-> <<r>>])

\* The request whose tenant is furthest behind on charge.
Behind(offered) == Least(offered, [r \in offered |-> <<charge[Owner[r]], r>>])

\* The requests that may be paired: the cheapest of each tenant.
Candidates(offered) ==
    {Least({q \in offered : Owner[q] = t}, [q \in offered |-> <<HalfStep(q), q>>]) :
        t \in {Owner[q] : q \in offered}}

\* Two steps are close enough to share a round.
Matches(q, r) ==
    100 * Max({HalfStep(q), HalfStep(r)}) <= Tolerance * Min({HalfStep(q), HalfStep(r)})

\* step_matched_pairing.
StepMatched(offered) ==
    LET ranks  == [r \in offered |-> <<charge[Owner[r]], HalfStep(r), r>>]
        first  == Least(Candidates(offered), ranks)
        second == Least(Candidates(offered) \ {first}, ranks)
    IN  IF Cardinality(Candidates(offered)) >= 2 /\ Matches(first, second)
        THEN [r \in {first, second} |-> IF r = first THEN Half ELSE Units - Half]
        ELSE [r \in {Behind(offered)} |-> Units]

\* _pairing_reads_slow: the last step some member ran at the width it is
\* granted again was slower than the paired expectation allows.
ReadsSlow(g) ==
    \E r \in DOMAIN g :
        /\ seen[r] # <<>>
        /\ seen[r][2] = g[r]
        /\ g[r] \in Believed
        /\ 10000 * seen[r][1] > StepCost[Model[r]][g[r]] * Skew * SlowReading

\* A remembered verdict within its backoff.
IsRemembered(g, at) == Key(g) \in DOMAIN memory /\ at < memory[Key(g)].until

\* The policy judges the pair g slow, and not from memory.
IsVerdict(g, at) ==
    Sticky /\ Size(g) >= 2 /\ ~IsRemembered(g, at) /\ ReadsSlow(g)

\* The grant of the policy over the offered requests.
PolicyGrant(offered, at) ==
    IF offered = {} THEN NoGrant
    ELSE LET pair == StepMatched(offered)
         IN  IF Sticky /\ Size(pair) >= 2 /\ (IsRemembered(pair, at) \/ ReadsSlow(pair))
             THEN [r \in {Behind(offered)} |-> Units]
             ELSE pair

\* The sticky policy's memory after a verdict on the widths k.
Remember(k, at) ==
    LET backoff == IF k \in DOMAIN memory
                   THEN Min({MaxPairingBackoff, 2 * memory[k].backoff})
                   ELSE BaseBackoff
    IN  [x \in DOMAIN memory \cup {k} |->
            IF x = k THEN [backoff |-> backoff, until |-> at + backoff]
                     ELSE memory[x]]

-----------------------------------------------------------------------------
\* A round is decided by the policy.
PolicyDecide(at) ==
    LET offered == Offered(at, RequestsPerTenant)
    IN  /\ Decide(PolicyGrant(offered, at), at)
        /\ IF offered # {} /\ IsVerdict(StepMatched(offered), at)
           THEN LET k == Key(StepMatched(offered))
                IN  memory' = Remember(k, at) /\ probed' = probed \ {k}
           ELSE UNCHANGED <<memory, probed>>
        /\ UNCHANGED joinLag

\* The matrix driver submits a request once it has arrived.
SubmitArrived(r) ==
    LET t == Owner[r]
    IN  /\ Arrival[r] <= now
        /\ Submit(r)
        /\ joinLag' = IF t \in Backlogged THEN joinLag
                      ELSE [x \in Tenants |-> [y \in Tenants |->
                              IF t \in {x, y} THEN Lag(x, y) ELSE joinLag[x][y]]]
        /\ UNCHANGED <<memory, probed>>

\* The rest of the round; closing it makes its pairing a probe.
Serve ==
    /\ \/ /\ \E r \in Requests :
                StartNext(r) \/ Advance(r) \/ Complete(r) \/ Abort(r) \/ SuspendLeftover(r)
          /\ UNCHANGED probed
       \/ /\ \E at \in Instants : AbortPreparing(at)
          /\ UNCHANGED probed
       \/ /\ CloseRound
          /\ probed' = IF Size(granted) >= 2 THEN probed \cup {Key(granted)} ELSE probed
    /\ UNCHANGED <<memory, joinLag>>

PairingNext ==
    \/ \E at \in Instants : PolicyDecide(at)
    \/ \E r \in Requests : SubmitArrived(r)
    \/ Serve
    \/ Stopped /\ UNCHANGED <<memory, probed, joinLag>>

PairingSpec == PairingInit /\ [][PairingNext]_pairingVars

-----------------------------------------------------------------------------
\* The largest charge of one step on the whole die.
OneRound ==
    Charge(Units, Max(UNION {Reports[Model[r]][Units] \cup {StepCost[Model[r]][Units]} :
                                r \in Requests}))

\* "Rotating on deficit keeps the lag bounded by one round": while two tenants
\* whose steps do not match both have work, the lag between their charges never
\* exceeds what it was when they came to share the die, or one round.
LagIsBounded ==
    \A t, u \in Backlogged : Lag(t, u) <= Max({joinLag[t][u], OneRound})

\* "One degraded round per doubling": the sticky policy lengthens its refusal
\* of a pair of widths only after it has run that pairing again.
VerdictsAreProbed ==
    [][\A k \in DOMAIN memory' :
          k \notin DOMAIN memory \/ memory'[k] # memory[k] => k \in probed]_pairingVars
=============================================================================
