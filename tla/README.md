# BurstServe in TLA+

Models, model-checking runs and machine-checked proofs for the two stateful halves of
`src/burstserve`: the scheduling core (the ledgers it accounts with, the queues requests
wait in, the loop that serves them, the policies that divide the die) and the runner of
formal probes, which leases a GPU, poisons it before a masked probe exists, supervises
the probe and decides whether the GPU may be leased again. Source paths are those of the
repository (`queues.py` is `src/burstserve/queues.py`).

    tlc -workers 2 -config MCServiceRuntime.cfg MCServiceRuntime.tla     # a run
    tlapm ServiceRuntimeProofs.tla                                       # a proof

`PROJECT.json` lists the components, the runs, the mutants, the source lines every
definition translates, the hazards and the theorems.

## 1. Inventory

| Component | State it keeps | Operations | Hard behaviour | Correct when |
|---|---|---|---|---|
| Canonical accounting (`sim/accounting.py` 41-920, `sim/model.py`) | an immutable `SchedulerState`: clock, virtual time, per tenant service, fair coordinate, active flag, per request status and progress | `register_tenant`, `wake_tenant`, `register_request`, `reject_request`, `_account_quantum_completed_steps` | sleep and wake with a capped credit, requests cut into many quanta, results out of clock order, the active set cached as flags | every completed step is charged once, a quantum is zero-sum in lag, sleeping neither banks credit nor forgives a charge |
| Resource debt ledger (`sim/accounting.py` 921-2056) | per tenant debt vector, decay remainder, update epoch | `account_dual_ledger_quantum`, which runs the canonical accounting too | lazy decay over sleeps, sub-tick remainders, chains of upward roundings | no time is lost or counted twice, rounding never forgives |
| Tenant queues (`queues.py`) | per tenant waiting, in flight, finished, dropped; the rotation | admit, ready, start, suspend, finish, drop, rotate, checkpoint, restore | preemption, restart between start and finish, a rotation beside the queues it lists | no request lost or doubled, every backlogged tenant offered once |
| Runtime (`runtime.py`) | executors, charges, held pairings, the round | submit, tick, retire, warm | a round of many steps that may raise anywhere, three records of one lifecycle, backoffs, batches | queues, executors and phases agree; held pairings wait; no invented charge; everything is served |
| Step executors (`executor.py`) | phase, steps done, latent state | prepare, run_step, finalize (suspend, resume and fail have no caller) | partial steps, adapters that lie about the step index | a request finishes after exactly its steps |
| Policies (`policies.py`) | a memory of slow pairings (sticky policy); the others none | a function from the offered requests to widths | stale observations, deficits and ties | the lag of two tenants is bounded; a verdict comes from a probe |
| Cost tables (`trace_sim.py` 1-770, `quota_model.py`) | constants | step cost, externality, fit | unmeasured pairs and widths | an unmeasured pair raises |
| Trace simulator (`trace_sim.py` 770-1494) | a simulated runtime, pairing states | simulate | the same policies under a second clock | agrees with the runtime on charges |
| Trace replay (`sim/trace.py`) | the event list, the rebuilt state | validate, replay | event order at equal instants | replay is a behaviour of the accounting |
| I/O model (`sim/io_model.py`) | none | calculate_transition | residency after evictions | bytes moved match the residency change |
| Workload (`workload.py`, `deadline_feasibility.py`) | none | build_trace, feasibility | renumbering across tenants | numbers follow arrivals |
| Masked streams (`masked_streams.py`) | a pool of streams by mask | acquire, for_quota | offsets that wrap | masks of one round are disjoint |
| Drivers (`scripts/run_amd_matrix_cell.py`, `run_amd_soak.py`, `run_amd_runtime_loop.py`) | pending requests, adapter slots | submit, the loop around tick | adapters shared by slot | no two requests under way on one adapter |
| Masked execution runner (`smctrl_runner.py`) | per GPU, in the runtime directory of the user: the lock file (flock and payload) and the quarantine marker; per run: its process, its locals, its signals, `outcome.json` | lease, arm, launch, supervise, judge, record, downgrade, quarantine, clear, release | killed or interrupted between any two writes, storage that fails in combination, a child whose session is unknown or that cannot be killed | an exposed GPU is never leased, a record that says passed is earned |
| Native probe and guards (`native/smctrl_probe`) | process state | `guard_launcher`, `parent_guard`, the exec of the probe | a parent that dies between fork and prctl | no masked probe outlives its runner |
| XID monitor (`nvml_events.py`) | the event set, sticky failure | open, drain, final poll, close | Xids posted after the probe has ended | accepted only when nothing was missed |
| Validation, provenance, environment, analysis | none | pure checks of recorded files | - | - |

The drivers submit requests to the runtime in the order of their arrival. `tick` asks
the registry what is ready, shows the policy a view of it built from the executors and
the charges, narrows the grant, advances executors through their adapters, charges the
steps and writes them to the queues. One thread does all of this: what interleaves is the arrival
of requests, the time between rounds, what an adapter measures, and where a round
raises. `sim/accounting.py` is a library of pure transitions with no caller in the
runtime yet; its clients are the replay and the tests.

The runner is a program of its own: every formal run is one process, and what two runs
share is the GPU and two files beside it. A run takes the flock, refuses a GPU whose
lock file has a byte in it or that has a marker, arms the poison (its own record in the
lock file), starts the launcher, and waits. When the probe has ended it drains the Xid
monitor, judges, quarantines the GPU if anything is held against the run, writes the
terminal record, and clears the poison only after a pass. What interleaves is the run,
its child and what the child leaves behind, the driver that posts an Xid, signals,
kills, failing storage, and a person who looks at a refused GPU.

## 2. Modules

    FiniteSums --- FairAccounting --- DualLedger          TenantQueues --- ServiceRuntime --- PairingPolicies
         |               |          /     |                    |                |                    |
         |       MCFairAccounting  /   MCDualLedger      MCTenantQueues   MCServiceRuntime    MCPairingPolicies
       Decay -------------------- '
         |
     DecayTicks          GpuLease --- ProbeChild --- XidMonitor --- ProbeRun ...> GpuCustody
                                                                        |
                                                                  ProbeRunProofs

    other proofs: ArithmeticTheorems --- FairAccountingProofs --- DualLedgerProofs
                  ArithmeticTheorems --- DecayTicksProofs
                  ArithmeticTheorems --- ServiceRuntimeProofs --- PairingPoliciesProofs
                  TenantQueuesProofs --- ServiceRuntimeProofs

A line is EXTENDS, the dotted one `INSTANCE ... WITH`: ProbeRun implements GpuCustody.

- **FairAccounting** has a variable per field of `SchedulerState` that the transitions
  read, and an action per transition. The exact rationals of the code are integers in
  units of 1/Scale, where `ScaleAssumption` makes every quotient the code takes exact.
  The statuses the transitions do not tell apart are one ("queued" stands for queued and
  suspended, "runnable" for runnable and running). `Reschedule` is the caller's, since
  no function of `accounting.py` makes a queued request runnable.
- **Decay** and **DecayTicks** are the fixed-point power and the rounding of
  `DebtDecayPolicy`, as functions; `DecayTicks` lets the elapsed ticks grow one by one.
- **DualLedger** adds the debts: `AccountDualQuantum` conjoins the validation of the
  result, the resource accounting and FairAccounting's `AccountQuantum`, as the code
  calls the one on the state the other leaves. `born`, `agedTicks` and `exactDebt` are
  histories the code does not keep; the properties are about them.
- **TenantQueues** keeps the waiting lists as sets, since the code sorts them on every
  read by a total order (`Before`). The checkpoint is a variable, so that a restore may
  come at any time after it. `admitted` and `abandoned` are histories.
- **ServiceRuntime** cuts `tick` where it can raise and where a property looks: the
  decision, the start of a granted request, each step, the last step with its finish and
  retirement, each suspension at the boundary, and the close. The policy is any grant
  that its contract allows. An adapter may report nothing (the step is then charged
  from the cost model) or any duration of `Reports`.
- **PairingPolicies** replaces the arbitrary grant by `step_matched_pairing`, or by the sticky
  probing policy, and the arbitrary submission by the matrix driver's.
- **GpuCustody** is the abstract specification of the lease, in four variables: who holds
  the GPU, whether a masked probe was started and not vouched for, which probes are
  alive, and whether the GPU raised an Xid. A lease is of a GPU that is not exposed, and
  a run vouches only for a GPU that no masked probe uses and that raised no Xid.
- **GpuLease** is what outlives a run: `owner` is the flock, `payload` what the lock file
  holds (nothing, the armed poison of a run, or a quarantine record, whole or torn) and
  `marker` the quarantine marker. Each storage operation of the code is an operator, in
  a form that succeeds and one that fails and leaves any of the bytes the code can leave.
- **ProbeChild** is the child: the launcher ties it to its parent (`prctl`), looks at
  `getppid`, and executes the probe, which may leave one descendant behind, in its
  process group or only in its session, and may make the GPU raise an Xid.
- **XidMonitor** is the event set with its quiet interval and final poll; the driver posts
  an Xid any time after it was raised.
- **ProbeRun** is `_execute_under_leases` with what it calls. `pc` names the stretch of
  the function a run is in: one action each for a write, a wait or a decision that
  something can happen before or after. `mem` holds the locals that decide something,
  `sig` the signal, `record` what `outcome.json` says. What a check of the attestation,
  the sources, the GPU or the output says is a nondeterministic verdict. `exposed` and
  `investigated` are histories. `MarkGpu` is somebody else who writes the quarantine marker
  while a run has the GPU. `RunStep` groups the actions into phases (`Prepares`,
  `Starts`, `Supervises`, `Judges`, `Concludes`, `Unwinds`); the proofs follow them.

## 3. Runs

| Run | Instance | Shows |
|---|---|---|
| `fair_accounting` | 2 tenants of weights 1 and 2, 3 requests of at most 2 steps with unequal costs, clock up to 2, quanta of up to 2 steps of each request | the eight properties of the canonical ledger |
| `debt_decay` | every factor with a denominator up to 10, up to 8 ticks, debts up to 8 | the power stays above the exact factor, within one unit a tick, and falls |
| `dual_ledger` | 2 equal tenants, 3 one-step requests, a tick of 2 ns, a factor of 2/3, a debt unit of 3/4 ns, clock up to 5 | no time lost, no debt forgiven |
| `tenant_queues` | 2 tenants, 3 requests, every operation at any time, one checkpoint kept | requests accounted, backlog offered |
| `service_runtime` | 2 tenants with different models, 3 requests of 3, 2 and 1 steps, a die of 4 in widths 1, 2, 4, one measured pair, batches of up to 3 | the seven properties of the loop, for every policy |
| `pairing_rotation` | 2 tenants whose half-die steps differ 3.5-fold, 4 requests, 8 rounds | the lag bound of `step_matched_pairing` |
| `formal_probe` | one masked and one baseline run on one GPU, two storage faults, two troubles | seven properties of the custody of the GPU and the refinement of `GpuCustody` |
| `probe_progress` | one masked run, one storage fault, two troubles, `FairSpec` | the lease ends, and the probe with its runner |
| `shared_slot`, `three_way`, `sticky_probe` | as above with two requests offered per tenant; the sticky policy | section 6 |
| `unpersisted_quarantine` | one baseline run, three storage faults, no trouble | section 6 |

**Bounds.** `MaxTime`, `MaxNow` and `MaxGap` bound the clocks, `MaxQuantum` the steps a
quantum completes, `MaxTicks` and `MaxDenominator` the decay table. Two tenants are
enough for one to be served while the other waits, sleeps or wakes; three requests give
one of them two, so that a tenant can stay active past a finished request and two
requests of a tenant can be under way. The step costs differ from step to step, which
tells a charge by position from a charge by count. A clock of 5 with ticks of 2 leaves a
remainder, crosses a tick within a quantum and over a sleep, and lets a tenant wake with
a debt. In the service run only the pair 2+2 is measured, so 1+1, 1+2 and any three are
unmeasured, width 1 has no predicted cost, and a paired image step is always measured
past the tolerance, so that holds are made, expire and double to their cap. The clock
of a run stops at `MaxNow`, but rounds go on: the liveness property is about behaviours
that never end. `MCFocus`, a state constraint of `dual_ledger` only, leaves out what
`fair_accounting` explores (late registration, unrunnable and rejected requests), orders
the arrivals of the first tenant and lets only it run into debt.

In the probe runs `MaxFaults` bounds the storage operations that fail: two let the marker
and its fallback fail for one quarantine, or the record and a marker. `MaxTroubles`
bounds signals, kills, descendants, power losses and marks by others together: two let a
run be interrupted and then killed, leave a descendant and be interrupted while it is
looked for, or find its GPU marked and be interrupted before it clears the poison. The masked and the baseline run may come in either order, each finding what the
other left. By the shape of the model there is one descendant per probe, one signal at a
time per run (none while it is noted) and one Xid per probe; `unpersisted_quarantine`
needs the three faults of its record, its marker and its fallback.

**Deadlock.** The three ledger runs and the decay table switch it off: their clocks or
requests run out, as they may. So do the probe runs: a run that is over stays over. The
queue and runtime runs check it; `Stopped` is the
process that an exception ended.

**Fairness.** Two specifications have any. `FairServiceSpec` has weak fairness of
`Loop`, the disjunction of what the thread that calls `tick` does. The drivers call it in a `while` loop and one
thread runs it through, so it never stays between two steps of its own. Submissions,
measurements and exceptions are not fair, nor is any choice of the policy:
`EveryRequestServed` says that the loop serves a submitted request whatever the policy
grants, unless a round aborts. (A grant over a nonempty offer is never empty, and in
this instance a run of grants to one tenant ends when its requests do: `Steps` is finite. What a
policy must do to bound the wait is `LagIsBounded`.)

`FairSpec` of ProbeRun has weak fairness of each run's own step, since everything a run
waits for has a deadline, and of the child where it runs the guard or is about to die of
a SIGKILL. A probe that runs may run for ever; nobody has to lease, to post an Xid, to
kill or to investigate. A step that needs a trouble is never fair.

## 4. Properties

The canonical ledger: `ActiveIsBacklog`, `LifecycleAgrees` and `ClocksAgree` relate the
cached flags, the statuses and the timestamps; `ServiceIsCompletedWork` and
`ChargesAreKept` relate what was charged to what was done; `QuantumIsZeroSum` and
`WakeCreditIsBounded` are about steps. The debts: `NoDecayTimeLost` and
`RoundingNeverForgives` relate the ledger to exact histories. The queues:
`RequestsAccounted` and `BackloggedAreOffered`. The loop: `NothingStranded`,
`SlotsAreExclusive`, `NoInventedFactor`, `HeldPairingWaits`, `NoOvershoot`,
`EveryRequestServed`. The policies: `LagIsBounded`, `VerdictsAreProbed`.

The formal probe: `ExposedIsRefused` relates the files to what was done to the GPU, at
every step of a run and after any end of it; `ReapedMeansGone` and `PassedMeansProved`
relate what the runner believes and records to the processes and the Xids there are;
`RecordedQuarantineHolds` is about the step that releases the lease.
`InterruptedIsDistrusted` says that a signal the run has received, pending or noted, and
however late it came, keeps the poison where it is and the record from saying passed.
`RecordAgreesWithPoison` says that the poison is cleared only when the record on disk
already says passed and the GPU has no marker, somebody else's included, and conversely
that a masked run does not return with a record that says passed and a poison in place.
Both allow that a failing disk keeps a record from being taken back (`faults = 0`), since
the downgrade is itself a write; what they say of clearing has no such exception. `ImplementsCustody`
maps `holder` to the flock, `live` to the masked runs whose child or descendant is
alive, and `faulted` to any Xid, and says that nothing a run, a kill or a failing disk
does takes the GPU out of that custody. `LeaseEnds` and `MaskedProbeEnds` are liveness.
Each property
of a passing run has a mutant of the code that breaks it, beside the definition it
mutates.

## 5. Proofs

What is proved holds for every number of tenants and requests, every weight, owner,
cost and bound, and every set of runs, masked or not, that the named assumptions allow.

- **ArithmeticTheorems**: what the sums and the decay arithmetic compute, for every
  input. The recursions are functions whose tables are proved to exist and to be unique,
  so that they unfold. The provers cannot instantiate an induction scheme, so an induction
  is a statement about the *set* of the naturals, or of the loop states, that a formula
  holds for (`NatSetInduction`, `StrongSetInduction`, `LoopInduction`), from the
  well-foundedness of `<` on `Nat`. Sums are integers, add, scale and split by owner. The
  fixed-point power is followed pass by pass: after each, result and base together still
  cover the exact power (`PowerCeilIsConservative`), and exceed it by at most one unit for
  each tick they stand for (`PowerCeilIsTight`). That it falls as the exponent grows
  (`PowerCeilFalls`) cannot be seen bit by bit, since `k` and `k + 1` may differ in all of
  theirs: `LoopShifts` shows that the loop over one tick more is the loop over `k` ticks
  started from one more factor.
- **DecayTicksProofs**: with these, the four properties of ageing, for every factor up to
  one and any denominator (the code's default is 2^64).
- **FairAccountingProofs**: `Core`, the types together with `LifecycleAgrees`, is
  inductive. Neither half is alone: that a charge is a natural needs the steps it is for
  to exist, and that they exist needs `done <= Steps`. `ActiveIsBacklog`,
  `ServiceIsCompletedWork`, `ChargesAreKept` and `ClocksAgree` are inductive relative to
  `Core`; the two action properties follow from `Core` and `ActiveIsBacklog`.
  `QuantumIsZeroSum` needs that all charges fall on tenants active at the start
  (`ActiveBearTheCharge`) and that the scale divides. Assumptions: `SizeAssumption`,
  `PolicyAssumption`, `ProfileAssumption`, `ScaleAssumption`.
- **DualLedgerProofs**: `DualImplementsFair`, every behaviour of the dual ledger is one
  of FairAccounting (the refinement mapping is the identity on its variables), so all of
  the above holds of it too; and `AgeingIsExact`, by the division of each window into
  ticks and remainder. `DualTypes` and `NothingForgiven` are one induction: a debt that
  covers the exact one still covers it after ageing, rounding up, and the charge less the
  share (`DebtCovers`), for which the ageing lemmas above are needed. `exactDebt` counts in
  units of 1/`ExactScale`, which the denominator divides once for every tick of the
  horizon; `HistoryIsNeverRounded` proves that this is enough, so that the comparison is
  with exact rationals. Its invariant, `WholeUnits`, says that an exact debt is a multiple
  of the denominator to the power of the ticks that may still come; that those are no
  fewer than the next ageing takes is where `AgeingIsExact` is used again. Assumptions
  beside those of FairAccounting: `DecayAssumption`.
- **TenantQueuesProofs**: the type invariant with the rotation free of duplicates,
  `RequestsAccounted` and `BackloggedAreOffered`. The last two are not inductive: a
  restore may bring back any saved checkpoint, so the invariant says of the checkpoint
  what it says of the live state (`Accounting`, `Offering`).
- **ServiceRuntimeProofs**: `LoopImplementsQueues`, every step of the loop is one
  operation of the queues or leaves them alone, which gives `RequestsAccounted` of the
  loop. With it `Agreement` is inductive (`NothingStranded`, what a request that was
  never submitted looks like, and that nothing is dropped), and so is `Waiting`
  (`HeldPairingWaits` with the types of the holds). The policy is arbitrary in both.
  Then the bounds: `ServiceTypeOK` (that a request has steps to go outside an
  aborted round is what makes its step count inductive) and `NoOvershoot` (nobody is past
  the budget of the round, and what is still to be served is below it) for every policy.
  `NoInventedFactor` for one request offered of each of at most two tenants, and
  `SlotsAreExclusive` for one request offered per tenant, first come first served and
  numbered by arrival: what is under way is then the first of its tenant that is owed
  service (`Solo`). Sections 3 and 6 show what two offers do. Assumptions:
  `QueueAssumption`, `RuntimeAssumption`, `TableAssumption` (finitely many requests,
  positive step costs, an initial backoff within its cap).
- **PairingPoliciesProofs**: `PairingImplementsLoop`, so that all that is proved of the
  loop holds of it under the pairing policies; and `RotationBoundsLag`, that `LagIsBounded`
  holds for any number of tenants, of requests and of requests offered per tenant, either
  accounting currency and both policies. Assumptions: no steps of two tenants match
  (`NothingMatches`, as in `pairing_rotation`: the policy can then only rotate), an adapter
  reports one of finitely many durations (`FiniteReports`, without which a round has no
  longest charge), and the half die and its complement are widths of the die
  (`PairingAssumption`). The lag alone is not inductive. `Rotating` adds that what is
  still to be served in a round is one request, of a tenant with the least charge of all
  that have work (`ServesBehind`): its step then closes a lag, or opens one no larger than
  its own charge. That the policy sees the tenant with the least charge at all is
  `BackloggedAreOffered`, and that this tenant has a first ready request is the strict
  order of the queues (`BeforeIsStrict`, `ReadyHasFirst`).
- **ProbeRunProofs**: `IInv` is inductive for any set of runs and any bound. Its parts, each needed by another: the types; `Leased` (only the owner of the
  flock is inside the function, the poison is armed when Popen is reached, nobody is
  inside while a person investigates); per run `Supervised` (the leader is a zombie while
  its session is looked through, and what was reaped uses no GPU), `Watched` (an Xid of a
  probe that is listened to is on its way or posted, so that after the quiet interval
  there is none) and `Judgement` (what a pass rests on); `DirtyIsExposed` and
  `OthersAreClean` (what a probe may have left on the GPU is under poison, and is never
  that of a run other than the owner). `ExposedIsRefused` alone is not inductive: the
  poison may be cleared only because the probe is proved clean, which is what all of
  `Sound` is for. A step of one run leaves the predicates of the others alone
  (`ElsewhereStep`), so that each predicate needs one lemma per action of its own run.
  From `IInv`: `ProbeTypeOK`, `ExposedIsRefused`,
  `ReapedMeansGone`, `PassedMeansProved`, and `CustodyIsImplemented`: every step is one of
  GpuCustody or a stutter. `RecordedQuarantineHolds` needs a second invariant,
  `Persisted`: where a record asks for quarantine the run knows it, and from the decision
  on the GPU refuses unless two storage operations have failed.
  `InterruptedIsDistrusted` and `RecordAgreesWithPoison` need a third, `Trusted`, in five
  parts: a record says passed only once it has been written (`Said`); a signal waits in
  the kernel only in the stretches that block it, and one the handler noted is known to
  the run from the record on (`Heeded`); what is held against a run keeps its verdict
  from being a pass (`Weighed`); while signals and clearance are weighed the record says
  what the run believes, up to a failed write (`Believed`); and what is left of a run
  whose record says passed was not signalled and has cleared its poison (`Vouched`). That the poison is
  cleared last, after every look at the signals, is what this argument rests on.
  Assumptions: `LeaseAssumption`, `MaskedAssumption`, `TroubleAssumption`.

**Only model-checked.** `EveryRequestServed`, `LeaseEnds` and `MaskedProbeEnds`: liveness
under fairness, and the ENABLED it rests on, are out of the prover's reach. Every other
property of a passing run is stated by a theorem. What the four runs of section 6 refute
is no theorem, of course; where a hypothesis restores it (one request offered per tenant,
two tenants) the theorem says so.

## 6. Findings

- `shared_slot`: with `--requests-per-tenant 2` the matrix driver may give two requests
  of one tenant that are both under way the same adapter, since it picks the slot by the
  number of the request and the numbers run over all tenants
  (`scripts/run_amd_matrix_cell.py:601`).
- `three_way`: a grant of three or more requests is never checked for a measured profile
  and may be charged with a factor of one (`runtime.py:286`).
- `sticky_probe`: the sticky policy renews a verdict from the observation that made it
  (`policies.py:660`).
- `unpersisted_quarantine`: when the record of a run cannot be written, the downgrade
  tries the quarantine and only collects its failure; if the downgraded record is then
  written, the lease counts as ended in order and the flock is released with neither
  marker nor fallback in place (`smctrl_runner.py:8524`). A masked run still leaves its
  armed poison, a baseline run leaves nothing.

Met while modelling and covered by no property: a dropped request is forgotten over a
checkpoint (`queues.py:184`); an arrival within a quantum cannot be registered before
its result (`sim/accounting.py:215`); only the last step of a batch is judged for drift
(`runtime.py:520`); the files of a quarantined GPU are in the runtime directory of the
user and go with the user's last session (`smctrl_runner.py:6505`); a rejected run
records that quarantine is required before the marker is written
(`smctrl_runner.py:7300`); a baseline probe outlives a killed runner
(`smctrl_runner.py:7545`); a descendant in a session of its own is not seen
(`smctrl_runner.py:1849`). `PROJECT.json` says why under "hazards".

**Assumed of the environment.** An Xid is posted within one quiet interval of the time
it was raised, or the monitor cannot know of it. The runtime directory is there between
two power losses, and a power loss resets the GPU. The number of a process group is not
reused while its leader is a zombie. While a run has the flock others may write the
quarantine marker, but nobody else writes the lock file or removes the marker. A person who clears a refused GPU has ended what is
left of the runs and reset it first.

## 7. Not modelled, and why

- Left out of modelled components: `warm`, the residency and byte counters, the decision
  timer, the round records and the ablation switch `externality_blind` of the runtime;
  the deadline branches of the policies; the capacity bounds on a usage; a call of the
  resource accounting or of the canonical one alone on a state with debts; the EDF
  discipline in the runs of the loop (the definition is there, the drivers use FCFS).
- Narrowed: `RegisterRequest` admits requests on which nothing was done, in a status
  other than completed. `register_request` and `wake_tenant` take any `RequestState`,
  also one with completed steps or a completed one, and check neither; their docstrings
  speak of an arrival and a new request, and no caller and no test passes one with
  progress. `LifecycleAgrees`, `ServiceIsCompletedWork` and the theorems about them are about requests registered before any progress. Of a request
  that brings completed steps along, `ServiceIsCompletedWork` would not hold: those
  steps were charged to nobody.
- Left out of the runner: the build lock, the launcher descriptor and the captured logs;
  failures of `sigpending` and `pthread_sigmask`; the native build; a drain without
  fail-fast. What the attestation, source, manifest, health and output checks compute is
  a verdict here, any of the two: they are pure functions of files and device queries,
  and no property depends on why they say no.
- The trace simulator (`trace_sim.py` 770-1494): a second client of the policies over a
  floating-point clock, sequential and deterministic. The loop it imitates is modelled.
- Trace replay (`sim/trace.py`): it replays a recorded document, charges nobody and has no
  caller in the runtime; an error in it is an exception at the reader's desk.
- Planned: the I/O model and the stream pool, two pure functions.
- Not planned: the correctness, ASLE and AMD runners (calls of a device), the gate and
  result validation (pure checks of a JSON schema), provenance and environment capture
  (hashing of files), the analysis scripts (statistics), the vendored ASLE.

Most of the repository's lines are in the last group: record validators, provenance,
campaign scripts. They keep no state and meet no concurrency, which is why the mapped
lines are a small share of the whole.

## 8. Plan

Done, in this order: the canonical ledger and its proofs; the decay arithmetic and the
dual ledger; the queues; the loop; the policies; the proofs of the queues and the loop;
the lease, the child, the monitor and the formal run; the custody of the GPU, its
refinement and the proofs; the bounds of the loop; the decay power and the exact history
of the debts for every factor; the lag bound of the rotation.

Next:

1. Deadline branches in PairingPolicies; the transition bytes of the I/O model; the
   disjointness of the masks of one round.
2. `TraceReplay`: `_ReplayBuilder` as a client of the request lifecycle, with the property
   that a validated document never makes it raise.
3. Proofs: what `LagIsBounded` becomes where steps do match and a co-run charges two
   tenants at once; the disjointness of the masks, once modelled.
