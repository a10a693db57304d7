-------------------------- MODULE ProbeRunProofs --------------------------
(***************************************************************************)
(* Proofs about the formal probe run, for every set of runs, masked or     *)
(* not, and every bound on faults and troubles. The inductive invariant    *)
(* has one predicate a piece of the argument: the types, who may touch the *)
(* lease, what the supervisor knows of its probe, what the monitor heard,  *)
(* and what a pass rests on. Each predicate of a run is preserved by the   *)
(* steps of that run (a lemma each), and the steps of another run leave    *)
(* all it is about alone (Elsewhere). The theorems are at the end: the     *)
(* invariant and the properties that follow from it, that the run          *)
(* implements the custody of the GPU, that a recorded quarantine is held,  *)
(* that an interrupted run is not trusted and that its record agrees with  *)
(* its poison. The last three add a predicate of a run to the invariant.   *)
(***************************************************************************)
EXTENDS ProbeRun, TLAPS

(* What happens to one run, and what happens around the runs. *)
Meets(r) == Interrupt(r) \/ Signal(r) \/ Kill(r) \/ LeavesKin(r)
Acts(r) == RunStep(r) \/ Lease(r) \/ ChildStep(r) \/ Meets(r)
Around == DriverStep \/ Investigate \/ ClearFiles \/ LosesPower \/ MarkGpu
Step(r) == (r \in Runs /\ Acts(r)) \/ Around

(***************************************************************************)
(* The inductive invariant: types.                                         *)
(***************************************************************************)
Arrays == /\ DOMAIN pc = Runs /\ DOMAIN child = Runs /\ DOMAIN kin = Runs
          /\ DOMAIN doomed = Runs /\ DOMAIN xid = Runs /\ DOMAIN monitor = Runs
          /\ DOMAIN posted = Runs /\ DOMAIN sig = Runs /\ DOMAIN mem = Runs
          /\ DOMAIN record = Runs
PcType == pc \in [Runs -> Places]
SigType == sig \in [Runs -> {"none", "pending", "noted"}]
ProbeTypes == /\ child \in [Runs -> LiveStates \cup {"none", "zombie", "gone"}]
              /\ kin \in [Runs -> {"none", "group", "session", "dying"}]
MonitorType == monitor \in [Runs -> {"unused", "open", "quiet", "clean", "failed"}]
LeaseTypes == /\ owner \in Runs \cup {NoRun} /\ payload \in Payloads
              /\ marker \in BOOLEAN /\ inflight \in BOOLEAN
              /\ exposed \in BOOLEAN /\ investigated \in BOOLEAN
FaultType == faults \in 0 .. MaxFaults

(* The locals have their names, and a downgrade has somewhere to return to. *)
Named(r) == DOMAIN mem[r] = DOMAIN Fresh
Returns(r) == mem[r].after \in {"finish", "sample", "restore", "clear"}

(***************************************************************************)
(* The lease: only its owner is inside, the poison is armed before Popen,  *)
(* and nobody is inside while a person investigates.                       *)
(***************************************************************************)
Outside == {"idle", "returned", "over"}
InsideIsOwner == \A r \in Runs : pc[r] \in Outside \/ owner = r
OwnerIsAlive == \A r \in Runs : owner = r => IsAlive(r)
ArmedAtCommit == \A r \in Masked : pc[r] = "commit" => payload = r
InvestigatedIsFree == investigated => owner = NoRun /\ ~exposed

(***************************************************************************)
(* The supervision: the leader is a zombie while its session is looked     *)
(* through, and reaped says that nothing is left only where it is read.    *)
(***************************************************************************)
Judged == Judging \cup {"downgrade", "rewrite", "finish", "unwind"}
Launched(r) == /\ pc[r] \in BeforeLaunch => child[r] = "none"
               /\ child[r] = "none" => kin[r] = "none" /\ ~doomed[r]
               /\ pc[r] \in {"scan", "rescan"} => child[r] = "zombie"
Looked(r) == pc[r] = "reap" => mem[r].untidy \/ (child[r] = "zombie" /\ kin[r] = "none")
Blind(r) == pc[r] = "await blindly" => ~mem[r].reaped
Reaped(r) == pc[r] \in Judged /\ mem[r].reaped => ~UsesGpu(r)

(***************************************************************************)
(* The monitor: an Xid of a probe it listens to is on its way or posted,   *)
(* so that a quiet interval after the end of the probe means there is none. *)
(***************************************************************************)
AfterDrain == Judged \ {"health", "drain"}
Caused(r) == xid[r] => r \in Masked /\ child[r] # "none"
Heard(r) == Listening(r) /\ xid[r] => inflight \/ posted[r]
Drained(r) == /\ monitor[r] \in {"quiet", "clean"} => pc[r] \in AfterDrain
              /\ pc[r] = "close" => ~Listening(r)
Quiet(r) == monitor[r] \in {"quiet", "clean"} /\ mem[r].reaped => ~xid[r]

(***************************************************************************)
(* The judgement: what a pass rests on.                                    *)
(***************************************************************************)
Collected(r) == pc[r] \in {"health", "drain", "poll", "close", "settle"} =>
                    child[r] = "gone" \/ mem[r].flawed \/ ~mem[r].reaped
Proved(r) == child[r] = "gone" /\ ~UsesGpu(r) /\ ~xid[r]
Earned(r) == (mem[r].passed => Proved(r)) /\ (record[r].passed => Proved(r))

(***************************************************************************)
(* The quarantine: a record that asks for it is behind a GPU that refuses, *)
(* unless the storage has failed twice.                                    *)
(***************************************************************************)
Concluding == {"record", "downgrade", "rewrite", "sample", "restore", "clear"}
Recorded(r) == record[r].needs => pc[r] \in Concluding \cup {"rejected", "finish", "unwind",
                                              "guard", "exit lease", "returned", "over"}
Followed(r) == /\ record[r].needs /\ pc[r] \in Concluding => mem[r].needs
               /\ pc[r] = "rewrite" => mem[r].needs
Decided(r) == /\ pc[r] # "guard"
              /\ pc[r] \in Concluding \cup {"block"} => ~mem[r].needs
              /\ pc[r] \in {"finish", "unwind", "exit lease"} => ~record[r].needs
Quarantined(r) == Decided(r) \/ Refused \/ faults >= 2
Persisted(r) == Recorded(r) /\ Followed(r) /\ Quarantined(r)

(***************************************************************************)
(* The trust: what a run that was signalled may say, and what a record that *)
(* says passed means for the poison. A record is Said where it can be read, *)
(* a signal is Heeded (pending only where the run will still look for it,   *)
(* in the locals once the run concludes), the locals are Weighed (nothing   *)
(* is held against a pass), the record is Believed (what is cleared was     *)
(* recorded, and kept unless the storage failed), and a run that leaves     *)
(* with it has Vouched for the GPU.                                         *)
(***************************************************************************)
Weighing == {"sample", "restore", "clear"}
Leaving == {"finish", "unwind", "guard", "exit lease"}
Said(r) == record[r].passed => pc[r] \in (Concluding \ {"record"}) \cup Leaving
                                             \cup {"returned", "over"}
Blocking == {"window", "commit", "identify", "started", "supervise", "await", "scan",
             "rescan", "reap", "cleanup", "await blindly"}
Heeded(r) == /\ sig[r] = "pending" =>
                   /\ pc[r] \in Blocking \cup (Concluding \ {"clear"})
                   /\ pc[r] \in {"downgrade", "rewrite"}
                      => mem[r].after \in {"sample", "restore"}
             /\ sig[r] = "noted" /\ pc[r] \in Concluding => mem[r].interrupted
Weighed(r) == /\ mem[r].unsafe => mem[r].flawed
              /\ mem[r].passed /\ pc[r] \in {"quarantine", "block", "record"} \cup Weighing
                    => ~mem[r].interrupted /\ (r \in Masked => ~mem[r].needs)
              /\ pc[r] = "rewrite" => ~mem[r].passed
              /\ mem[r].final => pc[r] \in {"unwind", "exit lease"}
Believed(r) == pc[r] \in Weighing => /\ mem[r].passed => record[r].passed
                                     /\ record[r].passed => mem[r].passed \/ faults # 0
Done(r) == pc[r] \in {"finish", "exit lease"} \/ (pc[r] = "unwind" /\ mem[r].final)
Vouched(r) == record[r].passed /\ faults = 0 =>
                 /\ pc[r] \in Leaving => sig[r] = "none"
                 /\ r \in Masked /\ Done(r) => ~exposed
Trusted(r) == Said(r) /\ Heeded(r) /\ Weighed(r) /\ Believed(r) /\ Vouched(r)

(***************************************************************************)
(* The GPU: what a masked probe may have left on it is under poison, and a *)
(* lease is only ever given of a GPU that is clean.                        *)
(***************************************************************************)
Dirty(r) == xid[r] \/ (r \in Masked /\ UsesGpu(r))
DirtyIsExposed == \A r \in Runs : Dirty(r) => exposed
OthersAreClean == \A r, s \in Runs : owner = r /\ s # r => ~Dirty(s)

Types == /\ Arrays /\ PcType /\ SigType /\ ProbeTypes /\ MonitorType
         /\ LeaseTypes /\ FaultType
Leased == InsideIsOwner /\ OwnerIsAlive /\ ArmedAtCommit /\ InvestigatedIsFree
Locals(r) == Named(r) /\ Returns(r)
Supervised(r) == Launched(r) /\ Looked(r) /\ Blind(r) /\ Reaped(r)
Watched(r) == Caused(r) /\ Heard(r) /\ Drained(r) /\ Quiet(r)
Judgement(r) == Collected(r) /\ Earned(r)
Sound(r) == Locals(r) /\ Supervised(r) /\ Watched(r) /\ Judgement(r)

IInv == /\ Types /\ Leased /\ ExposedIsRefused
        /\ DirtyIsExposed /\ OthersAreClean
        /\ \A r \in Runs : Sound(r)

(* What the predicates of a run are about is as it was. *)
Same(s) == /\ pc'[s] = pc[s] /\ child'[s] = child[s] /\ kin'[s] = kin[s]
           /\ doomed'[s] = doomed[s] /\ xid'[s] = xid[s]
           /\ mem'[s] = mem[s] /\ monitor'[s] = monitor[s]
           /\ (posted[s] => posted'[s]) /\ record'[s] = record[s]
           /\ (inflight => inflight')

-----------------------------------------------------------------------------
(***************************************************************************)
(* Types.                                                                  *)
(***************************************************************************)

(* The names of locals that the proofs change or keep. *)
LEMMA Fields == {"reaped", "untidy", "passed", "flawed"} \subseteq DOMAIN Fresh
  BY DEF Fresh

(* The locals a run starts with. *)
LEMMA FreshValues == /\ Fresh.reaped = TRUE /\ Fresh.untidy = FALSE /\ Fresh.passed = FALSE
                     /\ Fresh.after = "finish" /\ "after" \in DOMAIN Fresh
  BY DEF Fresh

(* Types: every variable of the runs stays a function on the runs. *)
LEMMA ArraysStep ==
    ASSUME NEW r, Step(r), Arrays
    PROVE  Arrays'
<1> USE DEF Arrays, CreateRunDirectory, At, Goto, Quietly, Keep, NoSignal,
           NoRecordWritten, childVars, monitorVars, Reject, Writes, PassPreflight,
           StartMonitor, OpenMonitor, Monitor, MonitorBecomes, MonitorSetupFails,
           MonitorOpenFails, QuarantineRejected, Quarantine, With, Files,
           FailLaunchCheck, Childless, Unmasked, Raised, ArmPoison, SkipPoison,
           FailCommit, Expired, Launch, Spawn, Becomes, Identify, EnterSupervision,
           FailAfterLaunch, Escape, LeaderEnds, TimeOut, KillGroup, Child, Alive,
           LiveStates, GiveUpLeader, ScanSession, Rescan, FinalReap, Reap, Cleanup,
           KillChild, ReapBlindly, CheckHealth, Drain, WaitQuiet, SeeXid, DrainFails,
           Listening, Poll, FinalPoll, Close, CloseMonitor, Settle, NeedsQuarantine,
           Passes, MonitorPassed, QuarantineSettled, BlockSignals, WriteOutcome,
           RecordFails, Downgrade, Rewrite, SampleSignals, RestoreSignals, ClearPoison,
           IsClean, IsOwnPoison, ClearFails, SkipClear, Finish, Raise, UnwindQuarantine,
           FreeMonitors, GuardRecord, ExitLease, ExitProcess, Leaves, Orphan, Lease,
           ChildStep, TieToParent, CheckParent, IsAlive, StartProbe, EndChild, EndKin,
           RaiseXid, runVars, Ended, Interrupt, Remember, Signal, Blocked, Noting, Kill,
           LeavesKin, LeaveKin, DriverStep, PostXid, Investigate, EndAll, ClearFiles,
           LosesPower, MarkGpu, WriteMarker
<1>1. CASE r \in Runs /\ Prepares(r)
      BY <1>1 DEF Prepares
<1>2. CASE r \in Runs /\ Starts(r)
      BY <1>2 DEF Starts
<1>3. CASE r \in Runs /\ Supervises(r)
      BY <1>3 DEF Supervises
<1>4. CASE r \in Runs /\ Judges(r)
      BY <1>4 DEF Judges
<1>5. CASE r \in Runs /\ Concludes(r)
      BY <1>5 DEF Concludes
<1>6. CASE r \in Runs /\ Unwinds(r)
      BY <1>6 DEF Unwinds
<1>7. CASE r \in Runs /\ Lease(r)
      BY <1>7
<1>8. CASE r \in Runs /\ ChildStep(r)
      BY <1>8
<1>9. CASE r \in Runs /\ Meets(r)
      BY <1>9 DEF Meets
<1>10. CASE DriverStep
      BY <1>10
<1>11. CASE Investigate
      BY <1>11
<1>12. CASE ClearFiles
      BY <1>12
<1>13. CASE LosesPower
      BY <1>13
<1>14. CASE MarkGpu
      BY <1>14
<1> QED BY <1>1, <1>2, <1>3, <1>4, <1>5, <1>6, <1>7, <1>8, <1>9, <1>10, <1>11, <1>12,
          <1>13, <1>14 DEF Step, Acts, RunStep, Around

(* A run goes from one of its places to another; a downgrade returns to
   where it came from. *)
LEMMA PcStep ==
    ASSUME NEW r, Step(r), PcType, DOMAIN mem = Runs, \A s \in Runs : Returns(s)
    PROVE  PcType'
<1> USE DEF PcType, Returns, CreateRunDirectory, Places, At, Goto, Reject,
           PassPreflight, StartMonitor, MonitorSetupFails, QuarantineRejected,
           Quarantine, FailLaunchCheck, Childless, ArmPoison, SkipPoison, FailCommit,
           Expired, Launch, Identify, EnterSupervision, FailAfterLaunch, Escape,
           LeaderEnds, TimeOut, GiveUpLeader, ScanSession, Rescan, FinalReap, Cleanup,
           ReapBlindly, CheckHealth, Drain, Poll, Close, Settle, QuarantineSettled,
           BlockSignals, WriteOutcome, Downgrade, Rewrite, SampleSignals,
           RestoreSignals, ClearPoison, ClearFails, SkipClear, Finish, Raise,
           UnwindQuarantine, GuardRecord, ExitLease, ExitProcess, Leaves, Lease,
           ChildStep, IsAlive, runVars, Interrupt, Remember, Signal, Blocked, Noting,
           Kill, LeavesKin, DriverStep, Investigate, ClearFiles, LosesPower, MarkGpu,
           WriteMarker
<1>1. CASE r \in Runs /\ Prepares(r)
  <2>1. CASE CreateRunDirectory(r)
        BY <1>1, <2>1
  <2>2. CASE Reject(r)
        BY <1>1, <2>2
  <2>3. CASE PassPreflight(r)
        BY <1>1, <2>3
  <2>4. CASE StartMonitor(r)
        BY <1>1, <2>4
  <2>5. CASE MonitorSetupFails(r)
        BY <1>1, <2>5
  <2>6. CASE QuarantineRejected(r)
        BY <1>1, <2>6
  <2> QED BY <1>1, <2>1, <2>2, <2>3, <2>4, <2>5, <2>6 DEF Prepares
<1>2. CASE r \in Runs /\ Starts(r)
  <2>1. CASE FailLaunchCheck(r)
        BY <1>2, <2>1
  <2>2. CASE ArmPoison(r)
        BY <1>2, <2>2
  <2>3. CASE SkipPoison(r)
        BY <1>2, <2>3
  <2>4. CASE FailCommit(r)
        BY <1>2, <2>4
  <2>5. CASE Launch(r)
        BY <1>2, <2>5
  <2>6. CASE Identify(r)
        BY <1>2, <2>6
  <2>7. CASE EnterSupervision(r)
        BY <1>2, <2>7
  <2>8. CASE FailAfterLaunch(r)
        BY <1>2, <2>8
  <2> QED BY <1>2, <2>1, <2>2, <2>3, <2>4, <2>5, <2>6, <2>7, <2>8 DEF Starts
<1>3. CASE r \in Runs /\ Supervises(r)
  <2>1. CASE LeaderEnds(r)
        BY <1>3, <2>1
  <2>2. CASE TimeOut(r)
        BY <1>3, <2>2
  <2>3. CASE GiveUpLeader(r)
        BY <1>3, <2>3
  <2>4. CASE ScanSession(r)
        BY <1>3, <2>4
  <2>5. CASE Rescan(r)
        BY <1>3, <2>5
  <2>6. CASE FinalReap(r)
        BY <1>3, <2>6
  <2>7. CASE Cleanup(r)
        BY <1>3, <2>7
  <2>8. CASE ReapBlindly(r)
        BY <1>3, <2>8
  <2> QED BY <1>3, <2>1, <2>2, <2>3, <2>4, <2>5, <2>6, <2>7, <2>8 DEF Supervises
<1>4. CASE r \in Runs /\ Judges(r)
  <2>1. CASE CheckHealth(r)
        BY <1>4, <2>1
  <2>2. CASE Drain(r)
        BY <1>4, <2>2
  <2>3. CASE Poll(r)
        BY <1>4, <2>3
  <2>4. CASE Close(r)
        BY <1>4, <2>4
  <2>5. CASE Settle(r)
        BY <1>4, <2>5
  <2>6. CASE QuarantineSettled(r)
        BY <1>4, <2>6
  <2>7. CASE BlockSignals(r)
        BY <1>4, <2>7
  <2> QED BY <1>4, <2>1, <2>2, <2>3, <2>4, <2>5, <2>6, <2>7 DEF Judges
<1>5. CASE r \in Runs /\ Concludes(r)
  <2>1. CASE WriteOutcome(r)
        BY <1>5, <2>1
  <2>2. CASE Downgrade(r)
        BY <1>5, <2>2
  <2>3. CASE Rewrite(r)
        BY <1>5, <2>3
  <2>4. CASE SampleSignals(r)
        BY <1>5, <2>4
  <2>5. CASE RestoreSignals(r)
        BY <1>5, <2>5
  <2>6. CASE ClearPoison(r)
        BY <1>5, <2>6
  <2>7. CASE SkipClear(r)
        BY <1>5, <2>7
  <2>8. CASE Finish(r)
        BY <1>5, <2>8
  <2> QED BY <1>5, <2>1, <2>2, <2>3, <2>4, <2>5, <2>6, <2>7, <2>8 DEF Concludes
<1>6. CASE r \in Runs /\ Unwinds(r)
      BY <1>6 DEF Unwinds
<1>7. CASE r \in Runs /\ Lease(r)
      BY <1>7
<1>8. CASE r \in Runs /\ ChildStep(r)
      BY <1>8
<1>9. CASE r \in Runs /\ Meets(r)
      BY <1>9 DEF Meets
<1>10. CASE DriverStep
      BY <1>10
<1>11. CASE Investigate
      BY <1>11
<1>12. CASE ClearFiles
      BY <1>12
<1>13. CASE LosesPower
      BY <1>13
<1>14. CASE MarkGpu
      BY <1>14
<1> QED BY <1>1, <1>2, <1>3, <1>4, <1>5, <1>6, <1>7, <1>8, <1>9, <1>10, <1>11, <1>12,
          <1>13, <1>14 DEF Step, Acts, RunStep, Around

(* A signal is none, pending or noted. *)
LEMMA SigStep ==
    ASSUME NEW r, Step(r), SigType
    PROVE  SigType'
<1> USE DEF SigType, CreateRunDirectory, NoSignal, Reject, PassPreflight, StartMonitor,
           MonitorSetupFails, QuarantineRejected, Quarantine, FailLaunchCheck,
           Childless, Unmasked, Raised, ArmPoison, SkipPoison, FailCommit, Expired,
           Launch, Identify, EnterSupervision, FailAfterLaunch, Escape, LeaderEnds,
           TimeOut, GiveUpLeader, ScanSession, Rescan, FinalReap, Cleanup, ReapBlindly,
           CheckHealth, Drain, Poll, Close, Settle, NeedsQuarantine, Passes,
           QuarantineSettled, BlockSignals, WriteOutcome, Downgrade, Rewrite,
           SampleSignals, RestoreSignals, ClearPoison, SkipClear, Finish, Raise,
           UnwindQuarantine, GuardRecord, ExitLease, ExitProcess, Leaves, Lease,
           ChildStep, runVars, Interrupt, Signal, Kill, LeavesKin, DriverStep,
           Investigate, ClearFiles, LosesPower, MarkGpu, WriteMarker
<1>1. CASE r \in Runs /\ Prepares(r)
      BY <1>1 DEF Prepares
<1>2. CASE r \in Runs /\ Starts(r)
      BY <1>2 DEF Starts
<1>3. CASE r \in Runs /\ Supervises(r)
      BY <1>3 DEF Supervises
<1>4. CASE r \in Runs /\ Judges(r)
      BY <1>4 DEF Judges
<1>5. CASE r \in Runs /\ Concludes(r)
      BY <1>5 DEF Concludes
<1>6. CASE r \in Runs /\ Unwinds(r)
      BY <1>6 DEF Unwinds
<1>7. CASE r \in Runs /\ Lease(r)
      BY <1>7
<1>8. CASE r \in Runs /\ ChildStep(r)
      BY <1>8
<1>9. CASE r \in Runs /\ Meets(r)
      BY <1>9 DEF Meets
<1>10. CASE DriverStep
      BY <1>10
<1>11. CASE Investigate
      BY <1>11
<1>12. CASE ClearFiles
      BY <1>12
<1>13. CASE LosesPower
      BY <1>13
<1>14. CASE MarkGpu
      BY <1>14
<1> QED BY <1>1, <1>2, <1>3, <1>4, <1>5, <1>6, <1>7, <1>8, <1>9, <1>10, <1>11, <1>12,
          <1>13, <1>14 DEF Step, Acts, RunStep, Around

(* The states of a probe and of what it left behind. *)
LEMMA ProbeTypesStep ==
    ASSUME NEW r, Step(r), ProbeTypes
    PROVE  ProbeTypes'
<1> USE DEF ProbeTypes, CreateRunDirectory, LiveStates, Quietly, childVars, Reject,
           PassPreflight, StartMonitor, Monitor, MonitorSetupFails, QuarantineRejected,
           Quarantine, Files, FailLaunchCheck, ArmPoison, SkipPoison, FailCommit,
           Expired, Launch, Spawn, Becomes, Identify, EnterSupervision, FailAfterLaunch,
           LeaderEnds, TimeOut, KillGroup, Alive, GiveUpLeader, ScanSession, Rescan,
           FinalReap, Reap, Cleanup, KillChild, ReapBlindly, CheckHealth, Drain, Poll,
           Close, Settle, QuarantineSettled, BlockSignals, WriteOutcome, Downgrade,
           Rewrite, SampleSignals, RestoreSignals, ClearPoison, SkipClear, Finish,
           Raise, UnwindQuarantine, GuardRecord, ExitLease, ExitProcess, Leaves, Orphan,
           Lease, ChildStep, TieToParent, CheckParent, StartProbe, EndChild, EndKin,
           RaiseXid, Ended, Interrupt, Remember, Signal, Kill, LeavesKin, LeaveKin,
           DriverStep, PostXid, Investigate, EndAll, ClearFiles, LosesPower, MarkGpu,
           WriteMarker
<1>1. CASE r \in Runs /\ Prepares(r)
      BY <1>1 DEF Prepares
<1>2. CASE r \in Runs /\ Starts(r)
      BY <1>2 DEF Starts
<1>3. CASE r \in Runs /\ Supervises(r)
      BY <1>3 DEF Supervises
<1>4. CASE r \in Runs /\ Judges(r)
      BY <1>4 DEF Judges
<1>5. CASE r \in Runs /\ Concludes(r)
      BY <1>5 DEF Concludes
<1>6. CASE r \in Runs /\ Unwinds(r)
      BY <1>6 DEF Unwinds
<1>7. CASE r \in Runs /\ Lease(r)
      BY <1>7
<1>8. CASE r \in Runs /\ ChildStep(r)
      BY <1>8
<1>9. CASE r \in Runs /\ Meets(r)
      BY <1>9 DEF Meets
<1>10. CASE DriverStep
      BY <1>10
<1>11. CASE Investigate
      BY <1>11
<1>12. CASE ClearFiles
      BY <1>12
<1>13. CASE LosesPower
      BY <1>13
<1>14. CASE MarkGpu
      BY <1>14
<1> QED BY <1>1, <1>2, <1>3, <1>4, <1>5, <1>6, <1>7, <1>8, <1>9, <1>10, <1>11, <1>12,
          <1>13, <1>14 DEF Step, Acts, RunStep, Around

(* The states of a monitor. *)
LEMMA MonitorTypeStep ==
    ASSUME NEW r, Step(r), MonitorType
    PROVE  MonitorType'
<1> USE DEF MonitorType, CreateRunDirectory, Quietly, monitorVars, Reject,
           PassPreflight, StartMonitor, OpenMonitor, MonitorBecomes, MonitorSetupFails,
           MonitorOpenFails, QuarantineRejected, Quarantine, Files, FailLaunchCheck,
           ArmPoison, SkipPoison, FailCommit, Expired, Launch, Identify,
           EnterSupervision, FailAfterLaunch, LeaderEnds, TimeOut, Child, GiveUpLeader,
           ScanSession, Rescan, FinalReap, Cleanup, ReapBlindly, CheckHealth, Drain,
           WaitQuiet, SeeXid, DrainFails, Listening, Poll, FinalPoll, Close,
           CloseMonitor, Settle, NeedsQuarantine, Passes, MonitorPassed,
           QuarantineSettled, BlockSignals, WriteOutcome, Downgrade, Rewrite,
           SampleSignals, RestoreSignals, ClearPoison, SkipClear, Finish, Raise,
           UnwindQuarantine, FreeMonitors, GuardRecord, ExitLease, ExitProcess, Leaves,
           Lease, ChildStep, Interrupt, Signal, Kill, LeavesKin, DriverStep, PostXid,
           Investigate, ClearFiles, LosesPower, MarkGpu, WriteMarker
<1>1. CASE r \in Runs /\ Prepares(r)
      BY <1>1 DEF Prepares
<1>2. CASE r \in Runs /\ Starts(r)
      BY <1>2 DEF Starts
<1>3. CASE r \in Runs /\ Supervises(r)
      BY <1>3 DEF Supervises
<1>4. CASE r \in Runs /\ Judges(r)
      BY <1>4 DEF Judges
<1>5. CASE r \in Runs /\ Concludes(r)
      BY <1>5 DEF Concludes
<1>6. CASE r \in Runs /\ Unwinds(r)
      BY <1>6 DEF Unwinds
<1>7. CASE r \in Runs /\ Lease(r)
      BY <1>7
<1>8. CASE r \in Runs /\ ChildStep(r)
      BY <1>8
<1>9. CASE r \in Runs /\ Meets(r)
      BY <1>9 DEF Meets
<1>10. CASE DriverStep
      BY <1>10
<1>11. CASE Investigate
      BY <1>11
<1>12. CASE ClearFiles
      BY <1>12
<1>13. CASE LosesPower
      BY <1>13
<1>14. CASE MarkGpu
      BY <1>14
<1> QED BY <1>1, <1>2, <1>3, <1>4, <1>5, <1>6, <1>7, <1>8, <1>9, <1>10, <1>11, <1>12,
          <1>13, <1>14 DEF Step, Acts, RunStep, Around

(* The lock file, the marker and the flock. *)
LEMMA LeaseTypesStep ==
    ASSUME NEW r, Step(r), LeaseTypes
    PROVE  LeaseTypes'
<1> USE DEF LeaseTypes, CreateRunDirectory, Payloads, Quietly, leaseVars, childVars,
           historyVars, Reject, PassPreflight, StartMonitor, Monitor, MonitorSetupFails,
           QuarantineRejected, Quarantine, WriteMarker, WriteFallback, FallbackFails,
           Files, MarkerLost, FailLaunchCheck, ArmPoison, WritePayload, PayloadFails,
           SkipPoison, FailCommit, Expired, Launch, Spawn, Becomes, Identify,
           EnterSupervision, FailAfterLaunch, LeaderEnds, TimeOut, KillGroup, Child,
           GiveUpLeader, ScanSession, Rescan, FinalReap, Reap, Cleanup, KillChild,
           ReapBlindly, CheckHealth, Drain, WaitQuiet, Poll, Close, Settle,
           QuarantineSettled, BlockSignals, WriteOutcome, LeaseFilesKept, RecordFails,
           WriteFails, Downgrade, Rewrite, SampleSignals, RestoreSignals, ClearPoison,
           IsOwnPoison, SkipClear, Finish, Raise, UnwindQuarantine, GuardRecord,
           ExitLease, Release, ExitProcess, Leaves, Orphan, Lease, Acquire, Refused,
           ChildStep, TieToParent, CheckParent, StartProbe, EndChild, EndKin, RaiseXid,
           Ended, Interrupt, Remember, Signal, Kill, LeavesKin, LeaveKin, DriverStep,
           PostXid, Investigate, EndAll, ClearFiles, RemoveMarker, TruncatePayload,
           LosesPower, MarkGpu, WriteMarker
<1>1. CASE r \in Runs /\ Prepares(r)
      BY <1>1, LeaseAssumption, MaskedAssumption DEF Prepares
<1>2. CASE r \in Runs /\ Starts(r)
      BY <1>2, LeaseAssumption, MaskedAssumption DEF Starts
<1>3. CASE r \in Runs /\ Supervises(r)
      BY <1>3, LeaseAssumption, MaskedAssumption DEF Supervises
<1>4. CASE r \in Runs /\ Judges(r)
      BY <1>4, LeaseAssumption, MaskedAssumption DEF Judges
<1>5. CASE r \in Runs /\ Concludes(r)
      BY <1>5, LeaseAssumption, MaskedAssumption DEF Concludes
<1>6. CASE r \in Runs /\ Unwinds(r)
      BY <1>6, LeaseAssumption, MaskedAssumption DEF Unwinds
<1>7. CASE r \in Runs /\ Lease(r)
      BY <1>7, LeaseAssumption, MaskedAssumption
<1>8. CASE r \in Runs /\ ChildStep(r)
      BY <1>8, LeaseAssumption, MaskedAssumption
<1>9. CASE r \in Runs /\ Meets(r)
      BY <1>9, LeaseAssumption, MaskedAssumption DEF Meets
<1>10. CASE DriverStep
      BY <1>10, LeaseAssumption, MaskedAssumption
<1>11. CASE Investigate
      BY <1>11, LeaseAssumption, MaskedAssumption
<1>12. CASE ClearFiles
      BY <1>12, LeaseAssumption, MaskedAssumption
<1>13. CASE LosesPower
      BY <1>13, LeaseAssumption, MaskedAssumption
<1>14. CASE MarkGpu
      BY <1>14, LeaseAssumption, MaskedAssumption
<1> QED BY <1>1, <1>2, <1>3, <1>4, <1>5, <1>6, <1>7, <1>8, <1>9, <1>10, <1>11, <1>12,
          <1>13, <1>14 DEF Step, Acts, RunStep, Around

(* The locals of a run keep their names. *)
LEMMA NamedStep ==
    ASSUME NEW r \in Runs, Acts(r), DOMAIN mem = Runs, Named(r)
    PROVE  Named(r)'
<1> USE DEF Named, CreateRunDirectory, Keep, Reject, PassPreflight, StartMonitor,
           MonitorSetupFails, QuarantineRejected, Quarantine, With, FailLaunchCheck,
           Childless, Raised, ArmPoison, SkipPoison, FailCommit, Expired, Launch,
           Identify, EnterSupervision, FailAfterLaunch, Escape, LeaderEnds, TimeOut,
           GiveUpLeader, ScanSession, Rescan, FinalReap, Cleanup, ReapBlindly,
           CheckHealth, Drain, Poll, Close, Settle, NeedsQuarantine, Passes,
           MonitorPassed, QuarantineSettled, BlockSignals, WriteOutcome, Downgrade,
           Rewrite, SampleSignals, RestoreSignals, ClearPoison, IsClean, IsOwnPoison,
           ClearFails, SkipClear, Finish, Raise, UnwindQuarantine, GuardRecord,
           ExitLease, ExitProcess, Leaves, Lease, ChildStep, runVars, Interrupt,
           Remember, Signal, Blocked, Kill, LeavesKin
<1>1. CASE Prepares(r)
  <2>1. CASE CreateRunDirectory(r)
        BY <2>1
  <2>2. CASE Reject(r)
        BY <2>2
  <2>3. CASE PassPreflight(r)
        BY <2>3
  <2>4. CASE StartMonitor(r)
        BY <2>4
  <2>5. CASE MonitorSetupFails(r)
        BY <2>5
  <2>6. CASE QuarantineRejected(r)
        BY <2>6
  <2> QED BY <1>1, <2>1, <2>2, <2>3, <2>4, <2>5, <2>6 DEF Prepares
<1>2. CASE Starts(r)
  <2>1. CASE FailLaunchCheck(r)
        BY <2>1
  <2>2. CASE ArmPoison(r)
        BY <2>2
  <2>3. CASE SkipPoison(r)
        BY <2>3
  <2>4. CASE FailCommit(r)
        BY <2>4
  <2>5. CASE Launch(r)
        BY <2>5
  <2>6. CASE Identify(r)
        BY <2>6
  <2>7. CASE EnterSupervision(r)
        BY <2>7
  <2>8. CASE FailAfterLaunch(r)
        BY <2>8
  <2> QED BY <1>2, <2>1, <2>2, <2>3, <2>4, <2>5, <2>6, <2>7, <2>8 DEF Starts
<1>3. CASE Supervises(r)
  <2>1. CASE LeaderEnds(r)
        BY <2>1
  <2>2. CASE TimeOut(r)
        BY <2>2
  <2>3. CASE GiveUpLeader(r)
        BY <2>3
  <2>4. CASE ScanSession(r)
        BY <2>4
  <2>5. CASE Rescan(r)
        BY <2>5
  <2>6. CASE FinalReap(r)
        BY <2>6
  <2>7. CASE Cleanup(r)
        BY <2>7
  <2>8. CASE ReapBlindly(r)
        BY <2>8
  <2> QED BY <1>3, <2>1, <2>2, <2>3, <2>4, <2>5, <2>6, <2>7, <2>8 DEF Supervises
<1>4. CASE Judges(r)
  <2>1. CASE CheckHealth(r)
        BY <2>1
  <2>2. CASE Drain(r)
        BY <2>2
  <2>3. CASE Poll(r)
        BY <2>3
  <2>4. CASE Close(r)
        BY <2>4
  <2>5. CASE Settle(r)
        BY <2>5
  <2>6. CASE QuarantineSettled(r)
        BY <2>6
  <2>7. CASE BlockSignals(r)
        BY <2>7
  <2> QED BY <1>4, <2>1, <2>2, <2>3, <2>4, <2>5, <2>6, <2>7 DEF Judges
<1>5. CASE Concludes(r)
  <2>1. CASE WriteOutcome(r)
        BY <2>1
  <2>2. CASE Downgrade(r)
        BY <2>2
  <2>3. CASE Rewrite(r)
        BY <2>3
  <2>4. CASE SampleSignals(r)
        BY <2>4
  <2>5. CASE RestoreSignals(r)
        BY <2>5
  <2>6. CASE ClearPoison(r)
        BY <2>6
  <2>7. CASE SkipClear(r)
        BY <2>7
  <2>8. CASE Finish(r)
        BY <2>8
  <2> QED BY <1>5, <2>1, <2>2, <2>3, <2>4, <2>5, <2>6, <2>7, <2>8 DEF Concludes
<1>6. CASE Unwinds(r)
      BY <1>6 DEF Unwinds
<1>7. CASE Lease(r)
      BY <1>7
<1>8. CASE ChildStep(r)
      BY <1>8
<1>9. CASE Meets(r)
      BY <1>9 DEF Meets
<1> QED BY <1>1, <1>2, <1>3, <1>4, <1>5, <1>6, <1>7, <1>8, <1>9 DEF Acts, RunStep

(* A downgrade is only entered with a place to return to. *)
LEMMA ReturnsStep ==
    ASSUME NEW r \in Runs, Acts(r), DOMAIN mem = Runs, Named(r), Returns(r)
    PROVE  Returns(r)'
<1> USE DEF Named, Returns, CreateRunDirectory, Keep, Reject, PassPreflight,
           StartMonitor, MonitorSetupFails, QuarantineRejected, Quarantine, With,
           FailLaunchCheck, Childless, Raised, ArmPoison, SkipPoison, FailCommit,
           Expired, Launch, Identify, EnterSupervision, FailAfterLaunch, Escape,
           LeaderEnds, TimeOut, GiveUpLeader, ScanSession, Rescan, FinalReap, Cleanup,
           ReapBlindly, CheckHealth, Drain, Poll, Close, Settle, NeedsQuarantine,
           Passes, MonitorPassed, QuarantineSettled, BlockSignals, WriteOutcome,
           Downgrade, Rewrite, SampleSignals, RestoreSignals, ClearPoison, IsClean,
           IsOwnPoison, ClearFails, SkipClear, Finish, Raise, UnwindQuarantine,
           GuardRecord, ExitLease, ExitProcess, Leaves, Lease, ChildStep, runVars,
           Interrupt, Remember, Signal, Blocked, Kill, LeavesKin
<1>1. CASE Prepares(r)
      BY <1>1, FreshValues DEF Prepares
<1>2. CASE Starts(r)
  <2>1. CASE FailLaunchCheck(r)
        BY <2>1, FreshValues
  <2>2. CASE ArmPoison(r)
        BY <2>2, FreshValues
  <2>3. CASE SkipPoison(r)
        BY <2>3, FreshValues
  <2>4. CASE FailCommit(r)
        BY <2>4, FreshValues
  <2>5. CASE Launch(r)
        BY <2>5, FreshValues
  <2>6. CASE Identify(r)
        BY <2>6, FreshValues
  <2>7. CASE EnterSupervision(r)
        BY <2>7, FreshValues
  <2>8. CASE FailAfterLaunch(r)
        BY <2>8, FreshValues
  <2> QED BY <1>2, <2>1, <2>2, <2>3, <2>4, <2>5, <2>6, <2>7, <2>8 DEF Starts
<1>3. CASE Supervises(r)
      BY <1>3, FreshValues DEF Supervises
<1>4. CASE Judges(r)
  <2>1. CASE CheckHealth(r)
        BY <2>1, FreshValues
  <2>2. CASE Drain(r)
        BY <2>2, FreshValues
  <2>3. CASE Poll(r)
        BY <2>3, FreshValues
  <2>4. CASE Close(r)
        BY <2>4, FreshValues
  <2>5. CASE Settle(r)
        BY <2>5, FreshValues
  <2>6. CASE QuarantineSettled(r)
        BY <2>6, FreshValues
  <2>7. CASE BlockSignals(r)
        BY <2>7, FreshValues
  <2> QED BY <1>4, <2>1, <2>2, <2>3, <2>4, <2>5, <2>6, <2>7 DEF Judges
<1>5. CASE Concludes(r)
      BY <1>5, FreshValues DEF Concludes
<1>6. CASE Unwinds(r)
      BY <1>6, FreshValues DEF Unwinds
<1>7. CASE Lease(r)
      BY <1>7, FreshValues
<1>8. CASE ChildStep(r)
      BY <1>8, FreshValues
<1>9. CASE Meets(r)
  <2>1. CASE Interrupt(r)
        BY <2>1, FreshValues
  <2>2. CASE Signal(r)
        BY <2>2, FreshValues
  <2>3. CASE Kill(r)
        BY <2>3, FreshValues
  <2>4. CASE LeavesKin(r)
        BY <2>4, FreshValues
  <2> QED BY <1>9, <2>1, <2>2, <2>3, <2>4 DEF Meets
<1> QED BY <1>1, <1>2, <1>3, <1>4, <1>5, <1>6, <1>7, <1>8, <1>9 DEF Acts, RunStep

(***************************************************************************)
(* The lease.                                                              *)
(***************************************************************************)

(* A run that is inside owns the flock: it leases it first and releases it
   last. *)
LEMMA InsideStep ==
    ASSUME NEW r, Step(r), DOMAIN pc = Runs, InsideIsOwner
    PROVE  InsideIsOwner'
<1> USE DEF InsideIsOwner, CreateRunDirectory, Outside, At, Goto, Quietly, leaseVars,
           Reject, PassPreflight, StartMonitor, Monitor, MonitorSetupFails,
           QuarantineRejected, Quarantine, Files, FailLaunchCheck, Childless, ArmPoison,
           SkipPoison, FailCommit, Expired, Launch, Identify, EnterSupervision,
           FailAfterLaunch, Escape, LeaderEnds, TimeOut, Child, GiveUpLeader,
           ScanSession, Rescan, FinalReap, Cleanup, ReapBlindly, CheckHealth, Drain,
           Poll, Close, Settle, QuarantineSettled, BlockSignals, WriteOutcome,
           Downgrade, Rewrite, SampleSignals, RestoreSignals, ClearPoison, ClearFails,
           SkipClear, Finish, Raise, UnwindQuarantine, GuardRecord, ExitLease, Release,
           ExitProcess, Leaves, Lease, Acquire, ChildStep, IsAlive, runVars, Interrupt,
           Remember, Signal, Blocked, Noting, Kill, LeavesKin, DriverStep, Investigate,
           ClearFiles, RemoveMarker, TruncatePayload, LosesPower, MarkGpu, WriteMarker
<1>1. CASE r \in Runs /\ Prepares(r)
      BY <1>1, LeaseAssumption DEF Prepares
<1>2. CASE r \in Runs /\ Starts(r)
      BY <1>2, LeaseAssumption DEF Starts
<1>3. CASE r \in Runs /\ Supervises(r)
      BY <1>3, LeaseAssumption DEF Supervises
<1>4. CASE r \in Runs /\ Judges(r)
      BY <1>4, LeaseAssumption DEF Judges
<1>5. CASE r \in Runs /\ Concludes(r)
      BY <1>5, LeaseAssumption DEF Concludes
<1>6. CASE r \in Runs /\ Unwinds(r)
      BY <1>6, LeaseAssumption DEF Unwinds
<1>7. CASE r \in Runs /\ Lease(r)
      BY <1>7, LeaseAssumption
<1>8. CASE r \in Runs /\ ChildStep(r)
      BY <1>8, LeaseAssumption
<1>9. CASE r \in Runs /\ Meets(r)
      BY <1>9, LeaseAssumption DEF Meets
<1>10. CASE DriverStep
      BY <1>10, LeaseAssumption
<1>11. CASE Investigate
      BY <1>11, LeaseAssumption
<1>12. CASE ClearFiles
      BY <1>12, LeaseAssumption
<1>13. CASE LosesPower
      BY <1>13, LeaseAssumption
<1>14. CASE MarkGpu
      BY <1>14, LeaseAssumption
<1> QED BY <1>1, <1>2, <1>3, <1>4, <1>5, <1>6, <1>7, <1>8, <1>9, <1>10, <1>11, <1>12,
          <1>13, <1>14 DEF Step, Acts, RunStep, Around

(* The owner is alive: the flock ends with its process. *)
LEMMA OwnerStep ==
    ASSUME NEW r, Step(r), DOMAIN pc = Runs, InsideIsOwner, OwnerIsAlive, \A s \in Runs
           : Returns(s)
    PROVE  OwnerIsAlive'
<1> USE DEF InsideIsOwner, OwnerIsAlive, Returns, CreateRunDirectory, Outside, IsAlive,
           At, Goto, Quietly, leaseVars, Reject, PassPreflight, StartMonitor, Monitor,
           MonitorSetupFails, QuarantineRejected, Quarantine, Files, FailLaunchCheck,
           Childless, ArmPoison, SkipPoison, FailCommit, Expired, Launch, Identify,
           EnterSupervision, FailAfterLaunch, Escape, LeaderEnds, TimeOut, Child,
           GiveUpLeader, ScanSession, Rescan, FinalReap, Cleanup, ReapBlindly,
           CheckHealth, Drain, Poll, Close, Settle, QuarantineSettled, BlockSignals,
           WriteOutcome, Downgrade, Rewrite, SampleSignals, RestoreSignals, ClearPoison,
           ClearFails, SkipClear, Finish, Raise, UnwindQuarantine, GuardRecord,
           ExitLease, Release, ExitProcess, Leaves, Lease, Acquire, ChildStep, runVars,
           Interrupt, Remember, Signal, Blocked, Noting, Kill, LeavesKin, DriverStep,
           Investigate, ClearFiles, RemoveMarker, TruncatePayload, LosesPower, MarkGpu,
           WriteMarker
<1>1. CASE r \in Runs /\ Prepares(r)
      BY <1>1, LeaseAssumption DEF Prepares
<1>2. CASE r \in Runs /\ Starts(r)
      BY <1>2, LeaseAssumption DEF Starts
<1>3. CASE r \in Runs /\ Supervises(r)
      BY <1>3, LeaseAssumption DEF Supervises
<1>4. CASE r \in Runs /\ Judges(r)
      BY <1>4, LeaseAssumption DEF Judges
<1>5. CASE r \in Runs /\ Concludes(r)
      BY <1>5, LeaseAssumption DEF Concludes
<1>6. CASE r \in Runs /\ Unwinds(r)
      BY <1>6, LeaseAssumption DEF Unwinds
<1>7. CASE r \in Runs /\ Lease(r)
      BY <1>7, LeaseAssumption
<1>8. CASE r \in Runs /\ ChildStep(r)
      BY <1>8, LeaseAssumption
<1>9. CASE r \in Runs /\ Meets(r)
      BY <1>9, LeaseAssumption DEF Meets
<1>10. CASE DriverStep
      BY <1>10, LeaseAssumption
<1>11. CASE Investigate
      BY <1>11, LeaseAssumption
<1>12. CASE ClearFiles
      BY <1>12, LeaseAssumption
<1>13. CASE LosesPower
      BY <1>13, LeaseAssumption
<1>14. CASE MarkGpu
      BY <1>14, LeaseAssumption
<1> QED BY <1>1, <1>2, <1>3, <1>4, <1>5, <1>6, <1>7, <1>8, <1>9, <1>10, <1>11, <1>12,
          <1>13, <1>14 DEF Step, Acts, RunStep, Around

(* The poison of a masked run is in the lock file when it is about to start
   its probe. *)
LEMMA ArmedStep ==
    ASSUME NEW r, Step(r), DOMAIN pc = Runs, InsideIsOwner, ArmedAtCommit, \A s \in Runs
           : Returns(s)
    PROVE  ArmedAtCommit'
<1> USE DEF InsideIsOwner, ArmedAtCommit, Returns, CreateRunDirectory, Outside, At,
           Goto, Quietly, leaseVars, Reject, PassPreflight, StartMonitor, Monitor,
           MonitorSetupFails, QuarantineRejected, Quarantine, WriteMarker,
           WriteFallback, FallbackFails, Files, FailLaunchCheck, Childless, ArmPoison,
           WritePayload, PayloadFails, SkipPoison, FailCommit, Expired, Launch,
           Identify, EnterSupervision, FailAfterLaunch, Escape, LeaderEnds, TimeOut,
           Child, GiveUpLeader, ScanSession, Rescan, FinalReap, Cleanup, ReapBlindly,
           CheckHealth, Drain, Poll, Close, Settle, QuarantineSettled, BlockSignals,
           WriteOutcome, LeaseFilesKept, RecordFails, WriteFails, Downgrade, Rewrite,
           SampleSignals, RestoreSignals, ClearPoison, IsOwnPoison, ClearFails,
           SkipClear, Finish, Raise, UnwindQuarantine, GuardRecord, ExitLease, Release,
           ExitProcess, Leaves, Lease, Acquire, Refused, ChildStep, IsAlive, runVars,
           Interrupt, Remember, Signal, Blocked, Noting, Kill, LeavesKin, DriverStep,
           Investigate, ClearFiles, RemoveMarker, TruncatePayload, LosesPower, MarkGpu,
           WriteMarker
<1>1. CASE r \in Runs /\ Prepares(r)
      BY <1>1, LeaseAssumption, MaskedAssumption DEF Prepares
<1>2. CASE r \in Runs /\ Starts(r)
      BY <1>2, LeaseAssumption, MaskedAssumption DEF Starts
<1>3. CASE r \in Runs /\ Supervises(r)
      BY <1>3, LeaseAssumption, MaskedAssumption DEF Supervises
<1>4. CASE r \in Runs /\ Judges(r)
      BY <1>4, LeaseAssumption, MaskedAssumption DEF Judges
<1>5. CASE r \in Runs /\ Concludes(r)
      BY <1>5, LeaseAssumption, MaskedAssumption DEF Concludes
<1>6. CASE r \in Runs /\ Unwinds(r)
      BY <1>6, LeaseAssumption, MaskedAssumption DEF Unwinds
<1>7. CASE r \in Runs /\ Lease(r)
      BY <1>7, LeaseAssumption, MaskedAssumption
<1>8. CASE r \in Runs /\ ChildStep(r)
      BY <1>8, LeaseAssumption, MaskedAssumption
<1>9. CASE r \in Runs /\ Meets(r)
      BY <1>9, LeaseAssumption, MaskedAssumption DEF Meets
<1>10. CASE DriverStep
      BY <1>10, LeaseAssumption, MaskedAssumption
<1>11. CASE Investigate
      BY <1>11, LeaseAssumption, MaskedAssumption
<1>12. CASE ClearFiles
      BY <1>12, LeaseAssumption, MaskedAssumption
<1>13. CASE LosesPower
      BY <1>13, LeaseAssumption, MaskedAssumption
<1>14. CASE MarkGpu
      BY <1>14, LeaseAssumption, MaskedAssumption
<1> QED BY <1>1, <1>2, <1>3, <1>4, <1>5, <1>6, <1>7, <1>8, <1>9, <1>10, <1>11, <1>12,
          <1>13, <1>14 DEF Step, Acts, RunStep, Around

(* Between the look of a person and the next lease nobody is inside and
   nothing is exposed. *)
LEMMA InvestigatedStep ==
    ASSUME NEW r, Step(r), DOMAIN pc = Runs, InsideIsOwner, InvestigatedIsFree
    PROVE  InvestigatedIsFree'
<1> USE DEF InsideIsOwner, InvestigatedIsFree, CreateRunDirectory, Outside, At, Goto,
           Quietly, leaseVars, historyVars, Reject, PassPreflight, StartMonitor,
           Monitor, MonitorSetupFails, QuarantineRejected, Quarantine, Files,
           FailLaunchCheck, Childless, ArmPoison, SkipPoison, FailCommit, Expired,
           Launch, Identify, EnterSupervision, FailAfterLaunch, Escape, LeaderEnds,
           TimeOut, Child, GiveUpLeader, ScanSession, Rescan, FinalReap, Cleanup,
           ReapBlindly, CheckHealth, Drain, Poll, Close, Settle, QuarantineSettled,
           BlockSignals, WriteOutcome, Downgrade, Rewrite, SampleSignals,
           RestoreSignals, ClearPoison, ClearFails, SkipClear, Finish, Raise,
           UnwindQuarantine, GuardRecord, ExitLease, Release, ExitProcess, Leaves,
           Lease, Acquire, ChildStep, IsAlive, runVars, Interrupt, Remember, Signal,
           Blocked, Noting, Kill, LeavesKin, DriverStep, Investigate, ClearFiles,
           RemoveMarker, TruncatePayload, LosesPower, MarkGpu, WriteMarker
<1>1. CASE r \in Runs /\ Prepares(r)
      BY <1>1, LeaseAssumption DEF Prepares
<1>2. CASE r \in Runs /\ Starts(r)
      BY <1>2, LeaseAssumption DEF Starts
<1>3. CASE r \in Runs /\ Supervises(r)
      BY <1>3, LeaseAssumption DEF Supervises
<1>4. CASE r \in Runs /\ Judges(r)
      BY <1>4, LeaseAssumption DEF Judges
<1>5. CASE r \in Runs /\ Concludes(r)
      BY <1>5, LeaseAssumption DEF Concludes
<1>6. CASE r \in Runs /\ Unwinds(r)
      BY <1>6, LeaseAssumption DEF Unwinds
<1>7. CASE r \in Runs /\ Lease(r)
      BY <1>7, LeaseAssumption
<1>8. CASE r \in Runs /\ ChildStep(r)
      BY <1>8, LeaseAssumption
<1>9. CASE r \in Runs /\ Meets(r)
      BY <1>9, LeaseAssumption DEF Meets
<1>10. CASE DriverStep
      BY <1>10, LeaseAssumption
<1>11. CASE Investigate
      BY <1>11, LeaseAssumption
<1>12. CASE ClearFiles
      BY <1>12, LeaseAssumption
<1>13. CASE LosesPower
      BY <1>13, LeaseAssumption
<1>14. CASE MarkGpu
      BY <1>14, LeaseAssumption
<1> QED BY <1>1, <1>2, <1>3, <1>4, <1>5, <1>6, <1>7, <1>8, <1>9, <1>10, <1>11, <1>12,
          <1>13, <1>14 DEF Step, Acts, RunStep, Around

(* A GPU that is exposed refuses: a probe is launched under the poison of
   its run, and no replacement of the poison leaves nothing unless the GPU
   is vouched for. *)
LEMMA ExposedStep ==
    ASSUME NEW r \in Runs, Acts(r), LeaseTypes, InsideIsOwner, ArmedAtCommit,
           InvestigatedIsFree, ExposedIsRefused
    PROVE  ExposedIsRefused'
<1> USE DEF LeaseTypes, InsideIsOwner, ArmedAtCommit, InvestigatedIsFree,
           ExposedIsRefused, CreateRunDirectory, Payloads, Outside, Refused, At, Goto,
           Quietly, leaseVars, historyVars, Reject, PassPreflight, StartMonitor,
           Monitor, MonitorSetupFails, QuarantineRejected, Quarantine, WriteMarker,
           WriteFallback, FallbackFails, Files, MarkerLost, FailLaunchCheck, Childless,
           ArmPoison, WritePayload, PayloadFails, SkipPoison, FailCommit, Expired,
           Launch, Identify, EnterSupervision, FailAfterLaunch, Escape, LeaderEnds,
           TimeOut, Child, GiveUpLeader, ScanSession, Rescan, FinalReap, Cleanup,
           ReapBlindly, CheckHealth, Drain, Poll, Close, Settle, QuarantineSettled,
           BlockSignals, WriteOutcome, LeaseFilesKept, RecordFails, WriteFails,
           Downgrade, Rewrite, SampleSignals, RestoreSignals, ClearPoison, IsOwnPoison,
           ClearFails, SkipClear, Finish, Raise, UnwindQuarantine, GuardRecord,
           ExitLease, Release, ExitProcess, Leaves, Lease, Acquire, ChildStep, IsAlive,
           runVars, Interrupt, Remember, Signal, Blocked, Noting, Kill, LeavesKin
<1>1. CASE Prepares(r)
      BY <1>1, LeaseAssumption DEF Prepares
<1>2. CASE Starts(r)
      BY <1>2, LeaseAssumption DEF Starts
<1>3. CASE Supervises(r)
      BY <1>3, LeaseAssumption DEF Supervises
<1>4. CASE Judges(r)
      BY <1>4, LeaseAssumption DEF Judges
<1>5. CASE Concludes(r)
      BY <1>5, LeaseAssumption DEF Concludes
<1>6. CASE Unwinds(r)
      BY <1>6, LeaseAssumption DEF Unwinds
<1>7. CASE Lease(r)
      BY <1>7, LeaseAssumption
<1>8. CASE ChildStep(r)
      BY <1>8, LeaseAssumption
<1>9. CASE Meets(r)
      BY <1>9, LeaseAssumption DEF Meets
<1> QED BY <1>1, <1>2, <1>3, <1>4, <1>5, <1>6, <1>7, <1>8, <1>9 DEF Acts, RunStep

(* A storage fault or two are counted within their bound. *)
LEMMA Counting ==
    ASSUME FaultType, \/ faults' = faults
                      \/ StorageFault
                      \/ faults + 2 <= MaxFaults /\ faults' = faults + 2
    PROVE  FaultType'
  BY LeaseAssumption DEF FaultType, StorageFault

(* The faults stay within their bound. *)
LEMMA FaultStep ==
    ASSUME NEW r \in Runs, Acts(r), FaultType
    PROVE  FaultType'
<1> USE DEF FaultType, CreateRunDirectory, Quietly, leaseVars, Reject, PassPreflight,
           StartMonitor, Monitor, MonitorSetupFails, QuarantineRejected, Quarantine,
           WriteMarker, WriteFallback, FallbackFails, StorageFault, FailLaunchCheck,
           SkipPoison, FailCommit, Expired, Launch, Identify, EnterSupervision,
           FailAfterLaunch, LeaderEnds, TimeOut, Child, GiveUpLeader, ScanSession,
           Rescan, FinalReap, Cleanup, ReapBlindly, CheckHealth, Drain, Poll, Close,
           Settle, QuarantineSettled, BlockSignals, WriteOutcome, LeaseFilesKept,
           RecordFails, WriteFails, Downgrade, SampleSignals, RestoreSignals,
           ClearPoison, WritePayload, PayloadFails, SkipClear, Finish, Raise,
           ExitProcess, Leaves, Lease, Acquire, ChildStep, Interrupt, Signal, Kill,
           LeavesKin
<1>1. CASE Prepares(r)
  <2>1. CASE CreateRunDirectory(r)
        BY <2>1, LeaseAssumption
  <2>2. CASE Reject(r)
        BY <2>2, LeaseAssumption
  <2>3. CASE PassPreflight(r)
        BY <2>3, LeaseAssumption
  <2>4. CASE StartMonitor(r)
        BY <2>4, LeaseAssumption
  <2>5. CASE MonitorSetupFails(r)
        BY <2>5, LeaseAssumption
  <2>6. CASE QuarantineRejected(r)
        BY <2>6, LeaseAssumption
  <2> QED BY <1>1, <2>1, <2>2, <2>3, <2>4, <2>5, <2>6 DEF Prepares
<1>2. CASE Starts(r)
  <2>1. CASE FailLaunchCheck(r)
        BY <2>1, LeaseAssumption
  <2>2. CASE SkipPoison(r)
        BY <2>2, LeaseAssumption
  <2>3. CASE FailCommit(r)
        BY <2>3, LeaseAssumption
  <2>4. CASE Launch(r)
        BY <2>4, LeaseAssumption
  <2>5. CASE Identify(r)
        BY <2>5, LeaseAssumption
  <2>6. CASE EnterSupervision(r)
        BY <2>6, LeaseAssumption
  <2>7. CASE FailAfterLaunch(r)
        BY <2>7, LeaseAssumption
  <2>8. CASE ArmPoison(r)
        BY <2>8, Counting DEF ArmPoison, WritePayload, PayloadFails
  <2> QED BY <1>2, <2>1, <2>2, <2>3, <2>4, <2>5, <2>6, <2>7, <2>8 DEF Starts
<1>3. CASE Supervises(r)
      BY <1>3, LeaseAssumption DEF Supervises
<1>4. CASE Judges(r)
  <2>1. CASE CheckHealth(r)
        BY <2>1, LeaseAssumption
  <2>2. CASE Drain(r)
        BY <2>2, LeaseAssumption
  <2>3. CASE Poll(r)
        BY <2>3, LeaseAssumption
  <2>4. CASE Close(r)
        BY <2>4, LeaseAssumption
  <2>5. CASE Settle(r)
        BY <2>5, LeaseAssumption
  <2>6. CASE QuarantineSettled(r)
        BY <2>6, LeaseAssumption
  <2>7. CASE BlockSignals(r)
        BY <2>7, LeaseAssumption
  <2> QED BY <1>4, <2>1, <2>2, <2>3, <2>4, <2>5, <2>6, <2>7 DEF Judges
<1>5. CASE Concludes(r)
  <2>1. CASE WriteOutcome(r)
        BY <2>1, LeaseAssumption
  <2>2. CASE Downgrade(r)
        BY <2>2, LeaseAssumption
  <2>3. CASE SampleSignals(r)
        BY <2>3, LeaseAssumption
  <2>4. CASE RestoreSignals(r)
        BY <2>4, LeaseAssumption
  <2>5. CASE ClearPoison(r)
        BY <2>5, LeaseAssumption
  <2>6. CASE SkipClear(r)
        BY <2>6, LeaseAssumption
  <2>7. CASE Finish(r)
        BY <2>7, LeaseAssumption
  <2>8. CASE Rewrite(r)
        BY <2>8, Counting DEF Rewrite, LeaseFilesKept, RecordFails, WriteFails
  <2> QED BY <1>5, <2>1, <2>2, <2>3, <2>4, <2>5, <2>6, <2>7, <2>8 DEF Concludes
<1>6. CASE Unwinds(r)
  <2>1. CASE Raise(r)
        BY <2>1, LeaseAssumption
  <2>2. CASE ExitProcess(r)
        BY <2>2, LeaseAssumption
  <2>3. CASE UnwindQuarantine(r)
        BY <2>3, Counting DEF UnwindQuarantine, LeaseFilesKept, WriteMarker,
           WriteFallback, FallbackFails
  <2>4. CASE GuardRecord(r)
        BY <2>4, Counting DEF GuardRecord, LeaseFilesKept, RecordFails, WriteFails
  <2>5. CASE ExitLease(r)
        BY <2>5, Counting DEF ExitLease, LeaseFilesKept, WriteMarker, WriteFallback,
           FallbackFails
  <2> QED BY <1>6, <2>1, <2>2, <2>3, <2>4, <2>5 DEF Unwinds
<1>7. CASE Lease(r)
      BY <1>7, LeaseAssumption
<1>8. CASE ChildStep(r)
      BY <1>8, LeaseAssumption
<1>9. CASE Meets(r)
      BY <1>9, LeaseAssumption DEF Meets
<1> QED BY <1>1, <1>2, <1>3, <1>4, <1>5, <1>6, <1>7, <1>8, <1>9 DEF Acts, RunStep

(***************************************************************************)
(* The supervision.                                                        *)
(***************************************************************************)

(* Nothing of the probe is there before its launch, and its leader is a
   zombie while its session is looked through. *)
LEMMA LaunchedStep ==
    ASSUME NEW r \in Runs, Acts(r), Arrays, Returns(r), Launched(r)
    PROVE  Launched(r)'
<1> USE DEF Arrays, Returns, Launched, CreateRunDirectory, BeforeLaunch, At, Goto,
           Quietly, childVars, Reject, PassPreflight, StartMonitor, Monitor,
           MonitorSetupFails, QuarantineRejected, Quarantine, Files, FailLaunchCheck,
           Childless, ArmPoison, SkipPoison, FailCommit, Expired, Launch, Spawn,
           Becomes, Identify, EnterSupervision, FailAfterLaunch, Escape, LeaderEnds,
           TimeOut, KillGroup, Alive, LiveStates, GiveUpLeader, ScanSession, Rescan,
           FinalReap, Reap, Cleanup, KillChild, ReapBlindly, CheckHealth, Drain, Poll,
           Close, Settle, QuarantineSettled, BlockSignals, WriteOutcome, Downgrade,
           Rewrite, SampleSignals, RestoreSignals, ClearPoison, ClearFails, SkipClear,
           Finish, Raise, UnwindQuarantine, GuardRecord, ExitLease, ExitProcess, Leaves,
           Orphan, Lease, ChildStep, TieToParent, CheckParent, IsAlive, StartProbe,
           EndChild, EndKin, RaiseXid, runVars, Ended, Interrupt, Remember, Signal,
           Blocked, Noting, Kill, LeavesKin, LeaveKin
<1>1. CASE Prepares(r)
      BY <1>1 DEF Prepares
<1>2. CASE Starts(r)
      BY <1>2 DEF Starts
<1>3. CASE Supervises(r)
      BY <1>3 DEF Supervises
<1>4. CASE Judges(r)
      BY <1>4 DEF Judges
<1>5. CASE Concludes(r)
      BY <1>5 DEF Concludes
<1>6. CASE Unwinds(r)
      BY <1>6 DEF Unwinds
<1>7. CASE Lease(r)
      BY <1>7
<1>8. CASE ChildStep(r)
      BY <1>8
<1>9. CASE Meets(r)
  <2>1. CASE Interrupt(r)
        BY <2>1
  <2>2. CASE Signal(r)
        BY <2>2
  <2>3. CASE Kill(r)
        BY <2>3
  <2>4. CASE LeavesKin(r)
        BY <2>4
  <2> QED BY <1>9, <2>1, <2>2, <2>3, <2>4 DEF Meets
<1> QED BY <1>1, <1>2, <1>3, <1>4, <1>5, <1>6, <1>7, <1>8, <1>9 DEF Acts, RunStep

(* A signal in the supervisor leads to its last wait with an error, to the
   health check with nothing reaped, or to the handler of the window. *)
LEMMA InterruptEffect ==
    ASSUME NEW r \in Runs, DOMAIN pc = Runs, DOMAIN mem = Runs, Named(r), Interrupt(r)
    PROVE  /\ \/ pc'[r] \in {"await", "reap", "cleanup"}
              \/ pc'[r] = "health" /\ ~mem'[r].reaped
           /\ pc'[r] = "reap" => mem'[r].untidy
<1>1. CASE Remember(r)
  <2>1. mem'[r].untidy /\ (At(r, "reap") => ~mem'[r].reaped)
        BY <1>1, Fields DEF Named, Remember, With
  <2>2. pc'[r] \in {"await", "reap"} \/ (At(r, "reap") /\ pc'[r] = "health")
        BY <1>1 DEF Remember, Goto
  <2> QED BY <2>1, <2>2
<1>2. CASE Goto(r, "cleanup")
      BY <1>2 DEF Goto
<1> QED BY <1>1, <1>2 DEF Interrupt

(* The handler of the window supervises once more or says that nothing was
   reaped. *)
LEMMA CleanupEffect ==
    ASSUME NEW r \in Runs, DOMAIN pc = Runs, DOMAIN mem = Runs, Named(r), Cleanup(r)
    PROVE  \/ pc'[r] = "supervise"
           \/ pc'[r] \in {"await blindly", "health"} /\ ~mem'[r].reaped
  BY Fields DEF Named, Cleanup, At, Goto

(* The final wait says reaped only without an error, and has collected the
   leader. *)
LEMMA FinalReapEffect ==
    ASSUME NEW r \in Runs, Arrays, Named(r), FinalReap(r), mem'[r].reaped
    PROVE  ~mem[r].untidy /\ child'[r] = "gone" /\ kin'[r] = kin[r]
  BY Fields DEF Arrays, Named, FinalReap, Reap, Becomes

(* What was reaped is not changed by the record and by the signals after it.
   *)
LEMMA KeepsReaped ==
    ASSUME NEW r \in Runs, DOMAIN mem = Runs, Named(r),
           SampleSignals(r) \/ RestoreSignals(r) \/ Rewrite(r)
    PROVE  mem'[r].reaped = mem[r].reaped
<1>1. CASE SampleSignals(r)
      BY <1>1, Fields DEF Named, SampleSignals, With, Keep
<1>2. CASE RestoreSignals(r)
  <2>1. \/ mem' = [mem EXCEPT ![r] = [mem[r] EXCEPT !.after = "clear",
                              !.interrupted = TRUE, !.unrecorded = FALSE]]
        \/ mem' = mem
        BY <1>2 DEF RestoreSignals, With, Keep
  <2> QED BY <2>1, Fields DEF Named
<1>3. CASE Rewrite(r)
      BY <1>3, Fields DEF Named, Rewrite, With
<1> QED BY <1>1, <1>2, <1>3

(* A poison that could not be written keeps the probe from its launch. *)
LEMMA ArmPoisonEffect ==
    ASSUME NEW r \in Runs, DOMAIN pc = Runs, DOMAIN mem = Runs, Named(r), ArmPoison(r)
    PROVE  pc'[r] = "commit" \/ mem'[r].flawed
  BY Fields DEF Named, ArmPoison, Childless, Goto, With

(* A run comes to its last wait with an error or with an empty session. *)
LEMMA LookedStep ==
    ASSUME NEW r \in Runs, Acts(r), Arrays, Named(r), Returns(r), Launched(r), Looked(r)
    PROVE  Looked(r)'
<1> USE DEF Arrays, Named, Returns, Launched, Looked, CreateRunDirectory, BeforeLaunch,
           At, Goto, Quietly, Keep, NoSignal, NoRecordWritten, childVars, monitorVars,
           Reject, Writes, PassPreflight, StartMonitor, OpenMonitor, Monitor,
           MonitorBecomes, MonitorSetupFails, MonitorOpenFails, QuarantineRejected,
           Quarantine, With, Files, FailLaunchCheck, Childless, Unmasked, Raised,
           ArmPoison, SkipPoison, FailCommit, Expired, Launch, Spawn, Becomes, Identify,
           EnterSupervision, FailAfterLaunch, Escape, LeaderEnds, TimeOut, KillGroup,
           Child, Alive, LiveStates, GiveUpLeader, ScanSession, Rescan, FinalReap, Reap,
           Cleanup, KillChild, ReapBlindly, CheckHealth, Drain, WaitQuiet, SeeXid,
           DrainFails, Listening, Poll, FinalPoll, Close, CloseMonitor, Settle,
           NeedsQuarantine, Passes, MonitorPassed, QuarantineSettled, BlockSignals,
           WriteOutcome, RecordFails, Downgrade, Rewrite, SampleSignals, RestoreSignals,
           ClearPoison, IsClean, IsOwnPoison, ClearFails, SkipClear, Finish, Raise,
           UnwindQuarantine, FreeMonitors, GuardRecord, ExitLease, ExitProcess, Leaves,
           Orphan, Lease, ChildStep, TieToParent, CheckParent, IsAlive, StartProbe,
           EndChild, EndKin, RaiseXid, runVars, Ended, Signal, Blocked, Noting, Kill,
           LeavesKin, LeaveKin
<1>1. CASE Prepares(r)
      BY <1>1, Fields DEF Prepares
<1>2. CASE Starts(r)
      BY <1>2, Fields DEF Starts
<1>3. CASE Supervises(r)
  <2>1. CASE LeaderEnds(r)
        BY <2>1, Fields
  <2>2. CASE TimeOut(r)
        BY <2>2, Fields
  <2>3. CASE GiveUpLeader(r)
        BY <2>3, Fields
  <2>4. CASE ScanSession(r)
        BY <2>4, Fields
  <2>5. CASE Rescan(r)
        BY <2>5, Fields
  <2>6. CASE FinalReap(r)
        BY <2>6, Fields
  <2>7. CASE Cleanup(r)
        BY <2>7, Fields
  <2>8. CASE ReapBlindly(r)
        BY <2>8, Fields
  <2> QED BY <1>3, <2>1, <2>2, <2>3, <2>4, <2>5, <2>6, <2>7, <2>8 DEF Supervises
<1>4. CASE Judges(r)
      BY <1>4, Fields DEF Judges
<1>5. CASE Concludes(r)
      BY <1>5, Fields DEF Concludes
<1>6. CASE Unwinds(r)
      BY <1>6, Fields DEF Unwinds
<1>7. CASE Lease(r)
      BY <1>7, Fields
<1>8. CASE ChildStep(r)
      BY <1>8, Fields
<1>9. CASE Meets(r)
  <2>1. CASE Signal(r) \/ Kill(r) \/ LeavesKin(r)
        BY <2>1, Fields
  <2>2. CASE Interrupt(r)
        BY <2>2, InterruptEffect DEF Looked, Arrays
  <2> QED BY <1>9, <2>1, <2>2 DEF Meets
<1> QED BY <1>1, <1>2, <1>3, <1>4, <1>5, <1>6, <1>7, <1>8, <1>9 DEF Acts, RunStep

(* A child that was killed without its session being known is not called
   reaped. *)
LEMMA BlindStep ==
    ASSUME NEW r \in Runs, Acts(r), Arrays, Named(r), Returns(r), Blind(r)
    PROVE  Blind(r)'
<1> USE DEF Arrays, Named, Returns, Blind, CreateRunDirectory, At, Goto, Quietly, Keep,
           NoSignal, NoRecordWritten, childVars, monitorVars, Reject, Writes,
           PassPreflight, StartMonitor, OpenMonitor, Monitor, MonitorBecomes,
           MonitorSetupFails, MonitorOpenFails, QuarantineRejected, Quarantine, With,
           Files, FailLaunchCheck, Childless, Unmasked, Raised, ArmPoison, SkipPoison,
           FailCommit, Expired, Launch, Spawn, Becomes, Identify, EnterSupervision,
           FailAfterLaunch, Escape, LeaderEnds, TimeOut, KillGroup, Child, Alive,
           LiveStates, GiveUpLeader, ScanSession, Rescan, FinalReap, Reap, ReapBlindly,
           CheckHealth, Drain, WaitQuiet, SeeXid, DrainFails, Listening, Poll,
           FinalPoll, Close, CloseMonitor, Settle, NeedsQuarantine, Passes,
           MonitorPassed, QuarantineSettled, BlockSignals, WriteOutcome, RecordFails,
           Downgrade, Rewrite, SampleSignals, RestoreSignals, ClearPoison, IsClean,
           IsOwnPoison, ClearFails, SkipClear, Finish, Raise, UnwindQuarantine,
           FreeMonitors, GuardRecord, ExitLease, ExitProcess, Leaves, Orphan, Lease,
           ChildStep, TieToParent, CheckParent, IsAlive, StartProbe, EndChild, EndKin,
           RaiseXid, runVars, Ended, Interrupt, Remember, Signal, Blocked, Noting, Kill,
           LeavesKin, LeaveKin
<1>1. CASE Prepares(r)
      BY <1>1, Fields DEF Prepares
<1>2. CASE Starts(r)
      BY <1>2, Fields DEF Starts
<1>3. CASE Supervises(r)
  <2>1. CASE LeaderEnds(r) \/ TimeOut(r) \/ GiveUpLeader(r) \/ ScanSession(r) \/
            Rescan(r) \/ FinalReap(r) \/ ReapBlindly(r)
        BY <2>1, Fields
  <2>2. CASE Cleanup(r)
        BY <2>2, CleanupEffect DEF Blind, Arrays
  <2> QED BY <1>3, <2>1, <2>2 DEF Supervises
<1>4. CASE Judges(r)
      BY <1>4, Fields DEF Judges
<1>5. CASE Concludes(r)
      BY <1>5, Fields DEF Concludes
<1>6. CASE Unwinds(r)
      BY <1>6, Fields DEF Unwinds
<1>7. CASE Lease(r)
      BY <1>7, Fields
<1>8. CASE ChildStep(r)
      BY <1>8, Fields
<1>9. CASE Meets(r)
      BY <1>9, Fields DEF Meets
<1> QED BY <1>1, <1>2, <1>3, <1>4, <1>5, <1>6, <1>7, <1>8, <1>9 DEF Acts, RunStep

(* A run that calls its probe reaped when it judges it has nothing of it on
   the GPU. *)
LEMMA ReapedStep ==
    ASSUME NEW r \in Runs, Acts(r), Arrays, Named(r), Returns(r), Launched(r),
           Looked(r), Blind(r), Reaped(r)
    PROVE  Reaped(r)'
<1> USE DEF Arrays, Named, Returns, Launched, Looked, Blind, Reaped, CreateRunDirectory,
           BeforeLaunch, Judged, UsesGpu, At, Goto, Quietly, Keep, NoSignal,
           NoRecordWritten, Judging, Alive, childVars, monitorVars, LiveStates, Reject,
           Writes, PassPreflight, StartMonitor, OpenMonitor, Monitor, MonitorBecomes,
           MonitorSetupFails, MonitorOpenFails, QuarantineRejected, Quarantine, With,
           Files, FailLaunchCheck, Childless, Unmasked, Raised, ArmPoison, SkipPoison,
           FailCommit, Expired, Launch, Spawn, Becomes, Identify, EnterSupervision,
           FailAfterLaunch, Escape, LeaderEnds, TimeOut, KillGroup, Child, GiveUpLeader,
           ScanSession, Rescan, ReapBlindly, Reap, CheckHealth, Drain, WaitQuiet,
           SeeXid, DrainFails, Listening, Poll, FinalPoll, Close, CloseMonitor, Settle,
           NeedsQuarantine, Passes, MonitorPassed, QuarantineSettled, BlockSignals,
           WriteOutcome, RecordFails, Downgrade, ClearPoison, IsClean, IsOwnPoison,
           ClearFails, SkipClear, Finish, Raise, UnwindQuarantine, FreeMonitors,
           GuardRecord, ExitLease, ExitProcess, Leaves, Orphan, Lease, ChildStep,
           TieToParent, CheckParent, IsAlive, StartProbe, EndChild, EndKin, RaiseXid,
           runVars, Ended, Signal, Blocked, Noting, Kill, LeavesKin, LeaveKin
<1>1. CASE Prepares(r)
      BY <1>1, Fields, FreshValues DEF Prepares
<1>2. CASE Starts(r)
      BY <1>2, Fields, FreshValues DEF Starts
<1>3. CASE Supervises(r)
  <2>1. CASE LeaderEnds(r) \/ TimeOut(r) \/ GiveUpLeader(r) \/ ScanSession(r) \/
            Rescan(r) \/ ReapBlindly(r)
        BY <2>1, Fields, FreshValues
  <2>2. CASE FinalReap(r)
        BY <2>2, FinalReapEffect DEF Looked, Reaped, FinalReap, At, UsesGpu, Alive,
           LiveStates
  <2>3. CASE Cleanup(r)
        BY <2>3, CleanupEffect DEF Reaped, Arrays, Judged, Judging
  <2> QED BY <1>3, <2>1, <2>2, <2>3 DEF Supervises
<1>4. CASE Judges(r)
  <2>1. CASE CheckHealth(r)
        BY <2>1, Fields, FreshValues
  <2>2. CASE Drain(r)
        BY <2>2, Fields, FreshValues
  <2>3. CASE Poll(r)
        BY <2>3, Fields, FreshValues
  <2>4. CASE Close(r)
        BY <2>4, Fields, FreshValues
  <2>5. CASE Settle(r)
        BY <2>5, Fields, FreshValues
  <2>6. CASE QuarantineSettled(r)
        BY <2>6, Fields, FreshValues
  <2>7. CASE BlockSignals(r)
        BY <2>7, Fields, FreshValues
  <2> QED BY <1>4, <2>1, <2>2, <2>3, <2>4, <2>5, <2>6, <2>7 DEF Judges
<1>5. CASE Concludes(r)
  <2>1. CASE WriteOutcome(r)
        BY <2>1, Fields, FreshValues
  <2>2. CASE Downgrade(r)
        BY <2>2, Fields, FreshValues
  <2>3. CASE ClearPoison(r)
        BY <2>3, Fields, FreshValues
  <2>4. CASE SkipClear(r)
        BY <2>4, Fields, FreshValues
  <2>5. CASE Finish(r)
        BY <2>5, Fields, FreshValues
  <2>6. CASE Rewrite(r)
        BY <2>6, KeepsReaped DEF Reaped, Rewrite, Returns, Arrays, At, Goto, Files,
           childVars,
           Judged, Judging, UsesGpu, Alive, LiveStates
  <2>7. CASE SampleSignals(r)
        BY <2>7, KeepsReaped DEF Reaped, SampleSignals, Arrays, At, Goto, Quietly,
           childVars,
           Judged, Judging, UsesGpu, Alive, LiveStates
  <2>8. CASE RestoreSignals(r)
        BY <2>8, KeepsReaped DEF Reaped, RestoreSignals, Arrays, At, Goto, Quietly,
           childVars,
           Judged, Judging, UsesGpu, Alive, LiveStates
  <2> QED BY <1>5, <2>1, <2>2, <2>3, <2>4, <2>5, <2>6, <2>7, <2>8 DEF Concludes
<1>6. CASE Unwinds(r)
  <2>1. CASE Raise(r)
        BY <2>1, Fields, FreshValues
  <2>2. CASE UnwindQuarantine(r)
        BY <2>2, Fields, FreshValues
  <2>3. CASE GuardRecord(r)
        BY <2>3, Fields, FreshValues
  <2>4. CASE ExitLease(r)
        BY <2>4, Fields, FreshValues
  <2>5. CASE ExitProcess(r)
        BY <2>5, Fields, FreshValues
  <2> QED BY <1>6, <2>1, <2>2, <2>3, <2>4, <2>5 DEF Unwinds
<1>7. CASE Lease(r)
      BY <1>7, Fields, FreshValues
<1>8. CASE ChildStep(r)
      BY <1>8, Fields, FreshValues
<1>9. CASE Meets(r)
  <2>1. CASE Signal(r)
        BY <2>1, Fields, FreshValues
  <2>2. CASE Kill(r)
        BY <2>2, Fields, FreshValues
  <2>3. CASE LeavesKin(r)
        BY <2>3, Fields, FreshValues
  <2>4. CASE Interrupt(r)
        BY <2>4, InterruptEffect DEF Reaped, Arrays, Judged, Judging
  <2> QED BY <1>9, <2>1, <2>2, <2>3, <2>4 DEF Meets
<1> QED BY <1>1, <1>2, <1>3, <1>4, <1>5, <1>6, <1>7, <1>8, <1>9 DEF Acts, RunStep

(***************************************************************************)
(* The monitor.                                                            *)
(***************************************************************************)

(* An Xid is caused by a masked probe that was launched. *)
LEMMA CausedStep ==
    ASSUME NEW r \in Runs, Acts(r), Arrays, Launched(r), Caused(r)
    PROVE  Caused(r)'
<1> USE DEF Arrays, Launched, Caused, CreateRunDirectory, BeforeLaunch, At, Goto,
           Quietly, childVars, Reject, PassPreflight, StartMonitor, Monitor,
           MonitorSetupFails, QuarantineRejected, Quarantine, Files, FailLaunchCheck,
           Childless, ArmPoison, SkipPoison, FailCommit, Expired, Launch, Spawn,
           Becomes, Identify, EnterSupervision, FailAfterLaunch, Escape, LeaderEnds,
           TimeOut, KillGroup, Alive, LiveStates, GiveUpLeader, ScanSession, Rescan,
           FinalReap, Reap, Cleanup, KillChild, ReapBlindly, CheckHealth, Drain, Poll,
           Close, Settle, QuarantineSettled, BlockSignals, WriteOutcome, Downgrade,
           Rewrite, SampleSignals, RestoreSignals, ClearPoison, ClearFails, SkipClear,
           Finish, Raise, UnwindQuarantine, GuardRecord, ExitLease, ExitProcess, Leaves,
           Orphan, Lease, ChildStep, TieToParent, CheckParent, IsAlive, StartProbe,
           EndChild, EndKin, RaiseXid, runVars, Ended, Interrupt, Remember, Signal,
           Blocked, Noting, Kill, LeavesKin, LeaveKin
<1>1. CASE Prepares(r)
      BY <1>1 DEF Prepares
<1>2. CASE Starts(r)
      BY <1>2 DEF Starts
<1>3. CASE Supervises(r)
      BY <1>3 DEF Supervises
<1>4. CASE Judges(r)
      BY <1>4 DEF Judges
<1>5. CASE Concludes(r)
      BY <1>5 DEF Concludes
<1>6. CASE Unwinds(r)
  <2>1. CASE Raise(r)
        BY <2>1
  <2>2. CASE UnwindQuarantine(r)
        BY <2>2
  <2>3. CASE GuardRecord(r)
        BY <2>3
  <2>4. CASE ExitLease(r)
        BY <2>4
  <2>5. CASE ExitProcess(r)
        BY <2>5
  <2> QED BY <1>6, <2>1, <2>2, <2>3, <2>4, <2>5 DEF Unwinds
<1>7. CASE Lease(r)
      BY <1>7
<1>8. CASE ChildStep(r)
      BY <1>8
<1>9. CASE Meets(r)
  <2>1. CASE Interrupt(r)
        BY <2>1
  <2>2. CASE Signal(r)
        BY <2>2
  <2>3. CASE Kill(r)
        BY <2>3
  <2>4. CASE LeavesKin(r)
        BY <2>4
  <2> QED BY <1>9, <2>1, <2>2, <2>3, <2>4 DEF Meets
<1> QED BY <1>1, <1>2, <1>3, <1>4, <1>5, <1>6, <1>7, <1>8, <1>9 DEF Acts, RunStep

(* An Xid of a probe that a monitor listens to is on its way or has been
   posted. *)
LEMMA HeardStep ==
    ASSUME NEW r \in Runs, Acts(r), Arrays, Launched(r), Caused(r), Drained(r), Heard(r)
    PROVE  Heard(r)'
<1> USE DEF Arrays, Launched, Caused, Drained, Heard, CreateRunDirectory, BeforeLaunch,
           AfterDrain, Listening, At, Goto, Quietly, Judged, childVars, monitorVars,
           Judging, Reject, PassPreflight, StartMonitor, OpenMonitor, Monitor,
           MonitorBecomes, MonitorSetupFails, MonitorOpenFails, QuarantineRejected,
           Quarantine, Files, FailLaunchCheck, Childless, ArmPoison, SkipPoison,
           FailCommit, Expired, Launch, Spawn, Becomes, Identify, EnterSupervision,
           FailAfterLaunch, Escape, LeaderEnds, TimeOut, KillGroup, Child, Alive,
           LiveStates, GiveUpLeader, ScanSession, Rescan, FinalReap, Reap, Cleanup,
           KillChild, ReapBlindly, CheckHealth, Drain, WaitQuiet, SeeXid, DrainFails,
           Poll, FinalPoll, Close, CloseMonitor, Settle, NeedsQuarantine, Passes,
           MonitorPassed, QuarantineSettled, BlockSignals, WriteOutcome, Downgrade,
           Rewrite, SampleSignals, RestoreSignals, ClearPoison, ClearFails, SkipClear,
           Finish, Raise, UnwindQuarantine, FreeMonitors, GuardRecord, ExitLease,
           ExitProcess, Leaves, Orphan, Lease, ChildStep, TieToParent, CheckParent,
           IsAlive, StartProbe, EndChild, EndKin, RaiseXid, runVars, Ended, Interrupt,
           Remember, Signal, Blocked, Noting, Kill, LeavesKin, LeaveKin
<1>1. CASE Prepares(r)
      BY <1>1 DEF Prepares
<1>2. CASE Starts(r)
      BY <1>2 DEF Starts
<1>3. CASE Supervises(r)
      BY <1>3 DEF Supervises
<1>4. CASE Judges(r)
  <2>1. CASE CheckHealth(r)
        BY <2>1
  <2>2. CASE Drain(r)
        BY <2>2
  <2>3. CASE Poll(r)
        BY <2>3
  <2>4. CASE Close(r)
        BY <2>4
  <2>5. CASE Settle(r)
        BY <2>5
  <2>6. CASE QuarantineSettled(r)
        BY <2>6
  <2>7. CASE BlockSignals(r)
        BY <2>7
  <2> QED BY <1>4, <2>1, <2>2, <2>3, <2>4, <2>5, <2>6, <2>7 DEF Judges
<1>5. CASE Concludes(r)
      BY <1>5 DEF Concludes
<1>6. CASE Unwinds(r)
  <2>1. CASE Raise(r)
        BY <2>1
  <2>2. CASE UnwindQuarantine(r)
        BY <2>2
  <2>3. CASE GuardRecord(r)
        BY <2>3
  <2>4. CASE ExitLease(r)
        BY <2>4
  <2>5. CASE ExitProcess(r)
        BY <2>5
  <2> QED BY <1>6, <2>1, <2>2, <2>3, <2>4, <2>5 DEF Unwinds
<1>7. CASE Lease(r)
      BY <1>7
<1>8. CASE ChildStep(r)
      BY <1>8
<1>9. CASE Meets(r)
  <2>1. CASE Interrupt(r)
        BY <2>1
  <2>2. CASE Signal(r)
        BY <2>2
  <2>3. CASE Kill(r)
        BY <2>3
  <2>4. CASE LeavesKin(r)
        BY <2>4
  <2> QED BY <1>9, <2>1, <2>2, <2>3, <2>4 DEF Meets
<1> QED BY <1>1, <1>2, <1>3, <1>4, <1>5, <1>6, <1>7, <1>8, <1>9 DEF Acts, RunStep

(* A monitor is quiet or clean only after the drain, and is closed after it.
   *)
LEMMA DrainedStep ==
    ASSUME NEW r \in Runs, Acts(r), Arrays, Returns(r), Drained(r)
    PROVE  Drained(r)'
<1> USE DEF Arrays, Returns, Drained, CreateRunDirectory, AfterDrain, Listening, At,
           Goto, Quietly, Judged, monitorVars, Judging, Reject, PassPreflight,
           StartMonitor, OpenMonitor, MonitorBecomes, MonitorSetupFails,
           MonitorOpenFails, QuarantineRejected, Quarantine, Files, FailLaunchCheck,
           Childless, ArmPoison, SkipPoison, FailCommit, Expired, Launch, Identify,
           EnterSupervision, FailAfterLaunch, Escape, LeaderEnds, TimeOut, Child,
           GiveUpLeader, ScanSession, Rescan, FinalReap, Cleanup, ReapBlindly,
           CheckHealth, Drain, WaitQuiet, SeeXid, DrainFails, Poll, FinalPoll, Close,
           CloseMonitor, Settle, NeedsQuarantine, Passes, MonitorPassed,
           QuarantineSettled, BlockSignals, WriteOutcome, Downgrade, Rewrite,
           SampleSignals, RestoreSignals, ClearPoison, ClearFails, SkipClear, Finish,
           Raise, UnwindQuarantine, FreeMonitors, GuardRecord, ExitLease, ExitProcess,
           Leaves, Lease, ChildStep, IsAlive, runVars, Interrupt, Remember, Signal,
           Blocked, Noting, Kill, LeavesKin
<1>1. CASE Prepares(r)
      BY <1>1 DEF Prepares
<1>2. CASE Starts(r)
      BY <1>2 DEF Starts
<1>3. CASE Supervises(r)
      BY <1>3 DEF Supervises
<1>4. CASE Judges(r)
      BY <1>4 DEF Judges
<1>5. CASE Concludes(r)
      BY <1>5 DEF Concludes
<1>6. CASE Unwinds(r)
      BY <1>6 DEF Unwinds
<1>7. CASE Lease(r)
      BY <1>7
<1>8. CASE ChildStep(r)
      BY <1>8
<1>9. CASE Meets(r)
      BY <1>9 DEF Meets
<1> QED BY <1>1, <1>2, <1>3, <1>4, <1>5, <1>6, <1>7, <1>8, <1>9 DEF Acts, RunStep

(* A monitor that waited for the quiet interval after the end of its probe
   has seen all its Xids. *)
LEMMA QuietStep ==
    ASSUME NEW r \in Runs, Acts(r), Arrays, Named(r), Drained(r), Heard(r), Reaped(r),
           Quiet(r)
    PROVE  Quiet(r)'
<1> USE DEF Arrays, Named, Drained, Heard, Reaped, Quiet, CreateRunDirectory,
           AfterDrain, Listening, Judged, UsesGpu, At, Goto, Quietly, Keep, NoSignal,
           NoRecordWritten, Judging, Alive, childVars, monitorVars, LiveStates, Reject,
           Writes, PassPreflight, StartMonitor, OpenMonitor, Monitor, MonitorBecomes,
           MonitorSetupFails, MonitorOpenFails, QuarantineRejected, Quarantine, With,
           Files, FailLaunchCheck, Childless, Unmasked, Raised, ArmPoison, SkipPoison,
           FailCommit, Expired, Launch, Spawn, Becomes, Identify, EnterSupervision,
           FailAfterLaunch, Escape, LeaderEnds, TimeOut, KillGroup, Child, GiveUpLeader,
           ScanSession, Rescan, FinalReap, Reap, Cleanup, KillChild, ReapBlindly,
           CheckHealth, Drain, WaitQuiet, SeeXid, DrainFails, Poll, FinalPoll, Close,
           CloseMonitor, Settle, NeedsQuarantine, Passes, MonitorPassed,
           QuarantineSettled, BlockSignals, WriteOutcome, RecordFails, Downgrade,
           ClearPoison, IsClean, IsOwnPoison, ClearFails, SkipClear, Finish, Raise,
           UnwindQuarantine, FreeMonitors, GuardRecord, ExitLease, ExitProcess, Leaves,
           Orphan, Lease, ChildStep, TieToParent, CheckParent, IsAlive, StartProbe,
           EndChild, EndKin, RaiseXid, runVars, Ended, Interrupt, Remember, Signal,
           Blocked, Noting, Kill, LeavesKin, LeaveKin
<1>1. CASE Prepares(r)
      BY <1>1, Fields, FreshValues DEF Prepares
<1>2. CASE Starts(r)
      BY <1>2, Fields, FreshValues DEF Starts
<1>3. CASE Supervises(r)
      BY <1>3, Fields, FreshValues DEF Supervises
<1>4. CASE Judges(r)
  <2>1. CASE CheckHealth(r)
        BY <2>1, Fields, FreshValues
  <2>2. CASE Drain(r)
        BY <2>2, Fields, FreshValues
  <2>3. CASE Poll(r)
        BY <2>3, Fields, FreshValues
  <2>4. CASE Close(r)
        BY <2>4, Fields, FreshValues
  <2>5. CASE Settle(r)
        BY <2>5, Fields, FreshValues
  <2>6. CASE QuarantineSettled(r)
        BY <2>6, Fields, FreshValues
  <2>7. CASE BlockSignals(r)
        BY <2>7, Fields, FreshValues
  <2> QED BY <1>4, <2>1, <2>2, <2>3, <2>4, <2>5, <2>6, <2>7 DEF Judges
<1>5. CASE Concludes(r)
  <2>1. CASE WriteOutcome(r)
        BY <2>1, Fields, FreshValues
  <2>2. CASE Downgrade(r)
        BY <2>2, Fields, FreshValues
  <2>3. CASE ClearPoison(r)
        BY <2>3, Fields, FreshValues
  <2>4. CASE SkipClear(r)
        BY <2>4, Fields, FreshValues
  <2>5. CASE Finish(r)
        BY <2>5, Fields, FreshValues
  <2>6. CASE Rewrite(r)
        BY <2>6, KeepsReaped DEF Quiet, Rewrite, Arrays, Quietly, Files, childVars,
           monitorVars
  <2>7. CASE SampleSignals(r)
        BY <2>7, KeepsReaped DEF Quiet, SampleSignals, Arrays, Quietly, Files,
           childVars, monitorVars
  <2>8. CASE RestoreSignals(r)
        BY <2>8, KeepsReaped DEF Quiet, RestoreSignals, Arrays, Quietly, Files,
           childVars, monitorVars
  <2> QED BY <1>5, <2>1, <2>2, <2>3, <2>4, <2>5, <2>6, <2>7, <2>8 DEF Concludes
<1>6. CASE Unwinds(r)
      BY <1>6, Fields, FreshValues DEF Unwinds
<1>7. CASE Lease(r)
      BY <1>7, Fields, FreshValues
<1>8. CASE ChildStep(r)
      BY <1>8, Fields, FreshValues
<1>9. CASE Meets(r)
      BY <1>9, Fields, FreshValues DEF Meets
<1> QED BY <1>1, <1>2, <1>3, <1>4, <1>5, <1>6, <1>7, <1>8, <1>9 DEF Acts, RunStep

(***************************************************************************)
(* The judgement.                                                          *)
(***************************************************************************)

(* A run that judges has collected its leader, or is flawed, or reaped
   nothing. *)
LEMMA CollectedStep ==
    ASSUME NEW r \in Runs, Acts(r), Arrays, Named(r), Returns(r), Launched(r), Blind(r),
           Collected(r)
    PROVE  Collected(r)'
<1> USE DEF Arrays, Named, Returns, Launched, Blind, Collected, CreateRunDirectory,
           BeforeLaunch, At, Goto, Quietly, Keep, NoSignal, NoRecordWritten, childVars,
           monitorVars, Reject, Writes, PassPreflight, StartMonitor, OpenMonitor,
           Monitor, MonitorBecomes, MonitorSetupFails, MonitorOpenFails,
           QuarantineRejected, Quarantine, With, Files, FailLaunchCheck, Childless,
           Unmasked, Raised, SkipPoison, FailCommit, Expired, Launch, Spawn, Becomes,
           Identify, EnterSupervision, FailAfterLaunch, Escape, LeaderEnds, TimeOut,
           KillGroup, Child, Alive, LiveStates, GiveUpLeader, ScanSession, Rescan,
           FinalReap, Reap, Cleanup, KillChild, ReapBlindly, CheckHealth, Drain,
           WaitQuiet, SeeXid, DrainFails, Listening, Poll, FinalPoll, Close,
           CloseMonitor, Settle, NeedsQuarantine, Passes, MonitorPassed,
           QuarantineSettled, BlockSignals, WriteOutcome, RecordFails, Downgrade,
           Rewrite, SampleSignals, RestoreSignals, ClearPoison, IsClean, IsOwnPoison,
           ClearFails, SkipClear, Finish, Raise, UnwindQuarantine, FreeMonitors,
           GuardRecord, ExitLease, ExitProcess, Leaves, Orphan, Lease, ChildStep,
           TieToParent, CheckParent, IsAlive, StartProbe, EndChild, EndKin, RaiseXid,
           runVars, Ended, Signal, Blocked, Noting, Kill, LeavesKin, LeaveKin
<1>1. CASE Prepares(r)
      BY <1>1, Fields, FreshValues DEF Prepares
<1>2. CASE Starts(r)
  <2>1. CASE FailLaunchCheck(r)
        BY <2>1, Fields, FreshValues
  <2>2. CASE SkipPoison(r)
        BY <2>2, Fields, FreshValues
  <2>3. CASE FailCommit(r)
        BY <2>3, Fields, FreshValues
  <2>4. CASE Launch(r)
        BY <2>4, Fields, FreshValues
  <2>5. CASE Identify(r)
        BY <2>5, Fields, FreshValues
  <2>6. CASE EnterSupervision(r)
        BY <2>6, Fields, FreshValues
  <2>7. CASE FailAfterLaunch(r)
        BY <2>7, Fields, FreshValues
  <2>8. CASE ArmPoison(r)
        BY <2>8, ArmPoisonEffect DEF Collected
  <2> QED BY <1>2, <2>1, <2>2, <2>3, <2>4, <2>5, <2>6, <2>7, <2>8 DEF Starts
<1>3. CASE Supervises(r)
  <2>1. CASE LeaderEnds(r)
        BY <2>1, Fields, FreshValues
  <2>2. CASE TimeOut(r)
        BY <2>2, Fields, FreshValues
  <2>3. CASE GiveUpLeader(r)
        BY <2>3, Fields, FreshValues
  <2>4. CASE ScanSession(r)
        BY <2>4, Fields, FreshValues
  <2>5. CASE Rescan(r)
        BY <2>5, Fields, FreshValues
  <2>6. CASE FinalReap(r)
        BY <2>6, Fields, FreshValues
  <2>7. CASE Cleanup(r)
        BY <2>7, Fields, FreshValues
  <2>8. CASE ReapBlindly(r)
        BY <2>8, Fields, FreshValues
  <2> QED BY <1>3, <2>1, <2>2, <2>3, <2>4, <2>5, <2>6, <2>7, <2>8 DEF Supervises
<1>4. CASE Judges(r)
  <2>1. CASE CheckHealth(r)
        BY <2>1, Fields, FreshValues
  <2>2. CASE Drain(r)
        BY <2>2, Fields, FreshValues
  <2>3. CASE Poll(r)
        BY <2>3, Fields, FreshValues
  <2>4. CASE Close(r)
        BY <2>4, Fields, FreshValues
  <2>5. CASE Settle(r)
        BY <2>5, Fields, FreshValues
  <2>6. CASE QuarantineSettled(r)
        BY <2>6, Fields, FreshValues
  <2>7. CASE BlockSignals(r)
        BY <2>7, Fields, FreshValues
  <2> QED BY <1>4, <2>1, <2>2, <2>3, <2>4, <2>5, <2>6, <2>7 DEF Judges
<1>5. CASE Concludes(r)
      BY <1>5, Fields, FreshValues DEF Concludes
<1>6. CASE Unwinds(r)
      BY <1>6, Fields, FreshValues DEF Unwinds
<1>7. CASE Lease(r)
      BY <1>7, Fields, FreshValues
<1>8. CASE ChildStep(r)
      BY <1>8, Fields, FreshValues
<1>9. CASE Meets(r)
  <2>1. CASE Signal(r) \/ Kill(r) \/ LeavesKin(r)
        BY <2>1, Fields, FreshValues
  <2>2. CASE Interrupt(r)
        BY <2>2, InterruptEffect DEF Collected
  <2> QED BY <1>9, <2>1, <2>2 DEF Meets
<1> QED BY <1>1, <1>2, <1>3, <1>4, <1>5, <1>6, <1>7, <1>8, <1>9 DEF Acts, RunStep

(* A probe that is gone with all it left stays so, whatever its run does. *)
LEMMA ProvedStep ==
    ASSUME NEW r \in Runs, Acts(r), Arrays, Proved(r)
    PROVE  Proved(r)'
<1> USE DEF Arrays, Proved, CreateRunDirectory, UsesGpu, At, Goto, Quietly, Keep,
           NoSignal, NoRecordWritten, Alive, childVars, monitorVars, LiveStates, Reject,
           Writes, PassPreflight, StartMonitor, OpenMonitor, Monitor, MonitorBecomes,
           MonitorSetupFails, MonitorOpenFails, QuarantineRejected, Quarantine, With,
           Files, FailLaunchCheck, Childless, Unmasked, Raised, ArmPoison, SkipPoison,
           FailCommit, Expired, Launch, Spawn, Becomes, Identify, EnterSupervision,
           FailAfterLaunch, Escape, LeaderEnds, TimeOut, KillGroup, Child, GiveUpLeader,
           ScanSession, Rescan, FinalReap, Reap, Cleanup, KillChild, ReapBlindly,
           CheckHealth, Drain, WaitQuiet, SeeXid, DrainFails, Listening, Poll,
           FinalPoll, Close, CloseMonitor, Settle, NeedsQuarantine, Passes,
           MonitorPassed, QuarantineSettled, BlockSignals, WriteOutcome, RecordFails,
           Downgrade, Rewrite, SampleSignals, RestoreSignals, ClearPoison, IsClean,
           IsOwnPoison, ClearFails, SkipClear, Finish, Raise, UnwindQuarantine,
           FreeMonitors, GuardRecord, ExitLease, ExitProcess, Leaves, Orphan, Lease,
           ChildStep, TieToParent, CheckParent, IsAlive, StartProbe, EndChild, EndKin,
           RaiseXid, runVars, Ended, Interrupt, Remember, Signal, Blocked, Noting, Kill,
           LeavesKin, LeaveKin
<1>1. CASE Prepares(r)
      BY <1>1 DEF Prepares
<1>2. CASE Starts(r)
      BY <1>2 DEF Starts
<1>3. CASE Supervises(r)
      BY <1>3 DEF Supervises
<1>4. CASE Judges(r)
      BY <1>4 DEF Judges
<1>5. CASE Concludes(r)
      BY <1>5 DEF Concludes
<1>6. CASE Unwinds(r)
      BY <1>6 DEF Unwinds
<1>7. CASE Lease(r)
      BY <1>7
<1>8. CASE ChildStep(r)
      BY <1>8
<1>9. CASE Meets(r)
      BY <1>9 DEF Meets
<1> QED BY <1>1, <1>2, <1>3, <1>4, <1>5, <1>6, <1>7, <1>8, <1>9 DEF Acts, RunStep

(* Only the settlement says passed. *)
LEMMA PassedStep ==
    ASSUME NEW r \in Runs, Acts(r), DOMAIN mem = Runs, Named(r), ~Settle(r)
    PROVE  mem'[r].passed => mem[r].passed
<1> USE DEF Named, CreateRunDirectory, Keep, Reject, PassPreflight, StartMonitor,
           MonitorSetupFails, QuarantineRejected, Quarantine, With, FailLaunchCheck,
           Childless, Raised, ArmPoison, SkipPoison, FailCommit, Expired, Launch,
           Identify, EnterSupervision, FailAfterLaunch, Escape, LeaderEnds, TimeOut,
           GiveUpLeader, ScanSession, Rescan, FinalReap, Cleanup, ReapBlindly,
           CheckHealth, Drain, Poll, Close, QuarantineSettled, BlockSignals,
           WriteOutcome, Downgrade, Rewrite, SampleSignals, RestoreSignals, ClearPoison,
           IsClean, IsOwnPoison, ClearFails, SkipClear, Finish, Raise, UnwindQuarantine,
           GuardRecord, ExitLease, ExitProcess, Leaves, Lease, ChildStep, runVars,
           Interrupt, Remember, Signal, Blocked, Kill, LeavesKin
<1>1. CASE Prepares(r)
      BY <1>1, Fields, FreshValues DEF Prepares
<1>2. CASE Starts(r)
      BY <1>2, Fields, FreshValues DEF Starts
<1>3. CASE Supervises(r)
      BY <1>3, Fields, FreshValues DEF Supervises
<1>4. CASE Judges(r)
  <2>1. CASE CheckHealth(r)
        BY <2>1, Fields, FreshValues
  <2>2. CASE Drain(r)
        BY <2>2, Fields, FreshValues
  <2>3. CASE Poll(r)
        BY <2>3, Fields, FreshValues
  <2>4. CASE Close(r)
        BY <2>4, Fields, FreshValues
  <2>5. CASE QuarantineSettled(r)
        BY <2>5, Fields, FreshValues
  <2>6. CASE BlockSignals(r)
        BY <2>6, Fields, FreshValues
  <2> QED BY <1>4, <2>1, <2>2, <2>3, <2>4, <2>5, <2>6 DEF Judges
<1>5. CASE Concludes(r)
      BY <1>5, Fields, FreshValues DEF Concludes
<1>6. CASE Unwinds(r)
      BY <1>6, Fields, FreshValues DEF Unwinds
<1>7. CASE Lease(r)
      BY <1>7, Fields, FreshValues
<1>8. CASE ChildStep(r)
      BY <1>8, Fields, FreshValues
<1>9. CASE Meets(r)
      BY <1>9, Fields, FreshValues DEF Meets
<1> QED BY <1>1, <1>2, <1>3, <1>4, <1>5, <1>6, <1>7, <1>8, <1>9 DEF Acts, RunStep

(* The settlement says passed of a probe that is gone with all it left and
   raised no Xid. *)
LEMMA SettleStep ==
    ASSUME NEW r \in Runs, Arrays, Named(r), Settle(r), mem'[r].passed,
           Collected(r), Reaped(r), Quiet(r), Caused(r)
    PROVE  Proved(r)
  BY Fields, FreshValues DEF Settle, At, With, Passes, MonitorPassed, Collected, Reaped,
     Quiet, Caused, Proved, Named, Arrays, Judged, Judging

(* The record says passed only when its run did. *)
LEMMA RecordedStep ==
    ASSUME NEW r \in Runs, Acts(r), DOMAIN record = Runs
    PROVE  record'[r].passed => record[r].passed \/ mem[r].passed
<1> USE DEF CreateRunDirectory, NoRecordWritten, Reject, Writes, PassPreflight,
           StartMonitor, MonitorSetupFails, QuarantineRejected, Quarantine,
           FailLaunchCheck, Childless, ArmPoison, SkipPoison, FailCommit, Expired,
           Launch, Identify, EnterSupervision, FailAfterLaunch, Escape, LeaderEnds,
           TimeOut, GiveUpLeader, ScanSession, Rescan, FinalReap, Cleanup, ReapBlindly,
           CheckHealth, Drain, Poll, Close, Settle, QuarantineSettled, BlockSignals,
           WriteOutcome, RecordFails, Downgrade, Rewrite, SampleSignals, RestoreSignals,
           ClearPoison, SkipClear, Finish, Raise, UnwindQuarantine, ExitLease,
           ExitProcess, Leaves, Lease, ChildStep, runVars, Interrupt, Signal, Kill,
           LeavesKin
<1>1. CASE Prepares(r)
      BY <1>1 DEF Prepares
<1>2. CASE Starts(r)
      BY <1>2 DEF Starts
<1>3. CASE Supervises(r)
      BY <1>3 DEF Supervises
<1>4. CASE Judges(r)
      BY <1>4 DEF Judges
<1>5. CASE Concludes(r)
      BY <1>5 DEF Concludes
<1>6. CASE Unwinds(r)
  <2>1. CASE Raise(r)
        BY <2>1
  <2>2. CASE UnwindQuarantine(r)
        BY <2>2
  <2>3. CASE ExitLease(r)
        BY <2>3
  <2>4. CASE ExitProcess(r)
        BY <2>4
  <2>5. CASE GuardRecord(r)
    <3>1. record' = record \/ Writes(r, FALSE, TRUE)
          BY <2>5 DEF GuardRecord, RecordFails, NoRecordWritten, Writes, LeaseFilesKept,
             WriteFails, StorageFault
    <3> QED BY <3>1 DEF Writes
  <2> QED BY <1>6, <2>1, <2>2, <2>3, <2>4, <2>5 DEF Unwinds
<1>7. CASE Lease(r)
      BY <1>7
<1>8. CASE ChildStep(r)
      BY <1>8
<1>9. CASE Meets(r)
      BY <1>9 DEF Meets
<1> QED BY <1>1, <1>2, <1>3, <1>4, <1>5, <1>6, <1>7, <1>8, <1>9 DEF Acts, RunStep

(***************************************************************************)
(* The other runs, and the GPU.                                            *)
(***************************************************************************)

(* A step of a run leaves all that the predicates of another run are about
   alone. *)
LEMMA ElsewhereStep ==
    ASSUME NEW r \in Runs, Acts(r), NEW s \in Runs, s # r, Arrays
    PROVE  Same(s)
<1> USE DEF Arrays, Same, CreateRunDirectory, At, Goto, Quietly, Keep, NoSignal,
           NoRecordWritten, childVars, monitorVars, Reject, Writes, PassPreflight,
           StartMonitor, OpenMonitor, Monitor, MonitorBecomes, MonitorSetupFails,
           MonitorOpenFails, QuarantineRejected, Quarantine, With, Files,
           FailLaunchCheck, Childless, Unmasked, Raised, ArmPoison, SkipPoison,
           FailCommit, Expired, Launch, Spawn, Becomes, Identify, EnterSupervision,
           FailAfterLaunch, Escape, LeaderEnds, TimeOut, KillGroup, Child, Alive,
           LiveStates, GiveUpLeader, ScanSession, Rescan, FinalReap, Reap, CheckHealth,
           Drain, WaitQuiet, SeeXid, DrainFails, Listening, Poll, FinalPoll, Close,
           CloseMonitor, Settle, NeedsQuarantine, Passes, MonitorPassed,
           QuarantineSettled, BlockSignals, WriteOutcome, RecordFails, Downgrade,
           Rewrite, SampleSignals, RestoreSignals, ClearPoison, IsClean, IsOwnPoison,
           ClearFails, SkipClear, Finish, Raise, UnwindQuarantine, FreeMonitors,
           GuardRecord, ExitLease, ExitProcess, Leaves, Orphan, Lease, ChildStep,
           TieToParent, CheckParent, IsAlive, StartProbe, EndChild, EndKin, RaiseXid,
           runVars, Ended, Interrupt, Remember, Signal, Blocked, Noting, Kill,
           LeavesKin, LeaveKin
<1>1. CASE Prepares(r)
      BY <1>1 DEF Prepares
<1>2. CASE Starts(r)
  <2>1. CASE FailLaunchCheck(r)
        BY <2>1
  <2>2. CASE ArmPoison(r)
        BY <2>2
  <2>3. CASE SkipPoison(r)
        BY <2>3
  <2>4. CASE FailCommit(r)
        BY <2>4
  <2>5. CASE Launch(r)
        BY <2>5
  <2>6. CASE Identify(r)
        BY <2>6
  <2>7. CASE EnterSupervision(r)
        BY <2>7
  <2>8. CASE FailAfterLaunch(r)
        BY <2>8
  <2> QED BY <1>2, <2>1, <2>2, <2>3, <2>4, <2>5, <2>6, <2>7, <2>8 DEF Starts
<1>3. CASE Supervises(r)
  <2>1. CASE LeaderEnds(r) \/ TimeOut(r) \/ GiveUpLeader(r) \/ ScanSession(r) \/
            Rescan(r) \/ FinalReap(r)
        BY <2>1
  <2>2. CASE Cleanup(r)
    <3>1. /\ child'[s] = child[s] /\ kin'[s] = kin[s] /\ doomed'[s] = doomed[s]
          /\ xid'[s] = xid[s] /\ inflight' = inflight
          BY <2>2 DEF Cleanup, Arrays, childVars, KillChild
    <3>2. pc'[s] = pc[s] /\ mem'[s] = mem[s] /\ record' = record
          BY <2>2 DEF Cleanup, Arrays, Goto, NoRecordWritten
    <3>3. monitor' = monitor /\ posted' = posted
          BY <2>2 DEF Cleanup, Child, monitorVars
    <3> QED BY <3>1, <3>2, <3>3 DEF Same
  <2>3. CASE ReapBlindly(r)
    <3>1. /\ child'[s] = child[s] /\ kin'[s] = kin[s] /\ doomed'[s] = doomed[s]
          /\ xid'[s] = xid[s] /\ inflight' = inflight
          BY <2>3 DEF ReapBlindly, Arrays, childVars, Reap, Becomes
    <3>2. pc'[s] = pc[s] /\ mem'[s] = mem[s] /\ record' = record
          BY <2>3 DEF ReapBlindly, Arrays, Goto, NoRecordWritten, Keep
    <3>3. monitor' = monitor /\ posted' = posted
          BY <2>3 DEF ReapBlindly, Child, monitorVars
    <3> QED BY <3>1, <3>2, <3>3 DEF Same
  <2> QED BY <1>3, <2>1, <2>2, <2>3 DEF Supervises
<1>4. CASE Judges(r)
  <2>1. CASE CheckHealth(r)
        BY <2>1
  <2>2. CASE Drain(r)
        BY <2>2
  <2>3. CASE Poll(r)
        BY <2>3
  <2>4. CASE Close(r)
        BY <2>4
  <2>5. CASE Settle(r)
        BY <2>5
  <2>6. CASE QuarantineSettled(r)
        BY <2>6
  <2>7. CASE BlockSignals(r)
        BY <2>7
  <2> QED BY <1>4, <2>1, <2>2, <2>3, <2>4, <2>5, <2>6, <2>7 DEF Judges
<1>5. CASE Concludes(r)
      BY <1>5 DEF Concludes
<1>6. CASE Unwinds(r)
  <2>1. CASE Raise(r)
        BY <2>1
  <2>2. CASE UnwindQuarantine(r)
        BY <2>2
  <2>3. CASE GuardRecord(r)
        BY <2>3
  <2>4. CASE ExitLease(r)
        BY <2>4
  <2>5. CASE ExitProcess(r)
        BY <2>5
  <2> QED BY <1>6, <2>1, <2>2, <2>3, <2>4, <2>5 DEF Unwinds
<1>7. CASE Lease(r)
      BY <1>7
<1>8. CASE ChildStep(r)
      BY <1>8
<1>9. CASE Meets(r)
  <2>1. CASE Interrupt(r)
        BY <2>1
  <2>2. CASE Signal(r)
        BY <2>2
  <2>3. CASE Kill(r)
        BY <2>3
  <2>4. CASE LeavesKin(r)
        BY <2>4
  <2> QED BY <1>9, <2>1, <2>2, <2>3, <2>4 DEF Meets
<1> QED BY <1>1, <1>2, <1>3, <1>4, <1>5, <1>6, <1>7, <1>8, <1>9 DEF Acts, RunStep

(* Only a launch brings something to the GPU. *)
LEMMA DirtyStep ==
    ASSUME NEW r \in Runs, Acts(r), Arrays, Dirty(r)', ~Launch(r)
    PROVE  Dirty(r)
<1> USE DEF Arrays, Dirty, CreateRunDirectory, UsesGpu, Quietly, Alive, childVars,
           LiveStates, Reject, PassPreflight, StartMonitor, Monitor, MonitorSetupFails,
           QuarantineRejected, Quarantine, Files, FailLaunchCheck, ArmPoison,
           SkipPoison, FailCommit, Expired, Identify, EnterSupervision, FailAfterLaunch,
           LeaderEnds, TimeOut, KillGroup, GiveUpLeader, ScanSession, Rescan, FinalReap,
           Reap, Becomes, Cleanup, KillChild, ReapBlindly, CheckHealth, Drain, Poll,
           Close, Settle, QuarantineSettled, BlockSignals, WriteOutcome, Downgrade,
           Rewrite, SampleSignals, RestoreSignals, ClearPoison, SkipClear, Finish,
           Raise, UnwindQuarantine, GuardRecord, ExitLease, ExitProcess, Leaves, Orphan,
           Lease, ChildStep, TieToParent, CheckParent, StartProbe, EndChild, EndKin,
           RaiseXid, Ended, Interrupt, Remember, Signal, Kill, LeavesKin, LeaveKin
<1>1. CASE Prepares(r)
      BY <1>1 DEF Prepares
<1>2. CASE Starts(r)
      BY <1>2 DEF Starts
<1>3. CASE Supervises(r)
      BY <1>3 DEF Supervises
<1>4. CASE Judges(r)
      BY <1>4 DEF Judges
<1>5. CASE Concludes(r)
      BY <1>5 DEF Concludes
<1>6. CASE Unwinds(r)
      BY <1>6 DEF Unwinds
<1>7. CASE Lease(r)
      BY <1>7
<1>8. CASE ChildStep(r)
      BY <1>8
<1>9. CASE Meets(r)
      BY <1>9 DEF Meets
<1> QED BY <1>1, <1>2, <1>3, <1>4, <1>5, <1>6, <1>7, <1>8, <1>9 DEF Acts, RunStep

(* Only a launch and a clearing of the poison change what is exposed. *)
LEMMA ExposureStep ==
    ASSUME NEW r \in Runs, Acts(r), exposed \in BOOLEAN, ~Launch(r), ~ClearPoison(r)
    PROVE  exposed' = exposed
<1> USE DEF CreateRunDirectory, Quietly, historyVars, Reject, PassPreflight,
           StartMonitor, Monitor, MonitorSetupFails, QuarantineRejected, Quarantine,
           Files, FailLaunchCheck, ArmPoison, SkipPoison, FailCommit, Expired, Identify,
           EnterSupervision, FailAfterLaunch, LeaderEnds, TimeOut, Child, GiveUpLeader,
           ScanSession, Rescan, FinalReap, Cleanup, ReapBlindly, CheckHealth, Drain,
           Poll, Close, Settle, QuarantineSettled, BlockSignals, WriteOutcome,
           Downgrade, Rewrite, SampleSignals, RestoreSignals, SkipClear, Finish, Raise,
           UnwindQuarantine, GuardRecord, ExitLease, ExitProcess, Leaves, Lease,
           ChildStep, Interrupt, Signal, Kill, LeavesKin
<1>1. CASE Prepares(r)
      BY <1>1 DEF Prepares
<1>2. CASE Starts(r)
      BY <1>2 DEF Starts
<1>3. CASE Supervises(r)
      BY <1>3 DEF Supervises
<1>4. CASE Judges(r)
      BY <1>4 DEF Judges
<1>5. CASE Concludes(r)
      BY <1>5 DEF Concludes
<1>6. CASE Unwinds(r)
      BY <1>6 DEF Unwinds
<1>7. CASE Lease(r)
      BY <1>7
<1>8. CASE ChildStep(r)
      BY <1>8
<1>9. CASE Meets(r)
      BY <1>9 DEF Meets
<1> QED BY <1>1, <1>2, <1>3, <1>4, <1>5, <1>6, <1>7, <1>8, <1>9 DEF Acts, RunStep

(* Only a lease gives the GPU to a run. *)
LEMMA OwnershipStep ==
    ASSUME NEW r \in Runs, Acts(r), LeaseTypes, ~Lease(r)
    PROVE  owner' = owner \/ owner' = NoRun
<1> USE DEF LeaseTypes, CreateRunDirectory, Payloads, Quietly, leaseVars, Reject,
           PassPreflight, StartMonitor, Monitor, MonitorSetupFails, QuarantineRejected,
           Quarantine, Files, FailLaunchCheck, ArmPoison, SkipPoison, FailCommit,
           Expired, Launch, Identify, EnterSupervision, FailAfterLaunch, LeaderEnds,
           TimeOut, Child, GiveUpLeader, ScanSession, Rescan, FinalReap, Cleanup,
           ReapBlindly, CheckHealth, Drain, Poll, Close, Settle, QuarantineSettled,
           BlockSignals, WriteOutcome, Downgrade, Rewrite, SampleSignals,
           RestoreSignals, ClearPoison, SkipClear, Finish, Raise, UnwindQuarantine,
           GuardRecord, ExitLease, Release, ExitProcess, Leaves, Lease, Acquire,
           ChildStep, Interrupt, Signal, Kill, LeavesKin
<1>1. CASE Prepares(r)
      BY <1>1 DEF Prepares
<1>2. CASE Starts(r)
      BY <1>2 DEF Starts
<1>3. CASE Supervises(r)
      BY <1>3 DEF Supervises
<1>4. CASE Judges(r)
      BY <1>4 DEF Judges
<1>5. CASE Concludes(r)
      BY <1>5 DEF Concludes
<1>6. CASE Unwinds(r)
      BY <1>6 DEF Unwinds
<1>7. CASE Lease(r)
      BY <1>7
<1>8. CASE ChildStep(r)
      BY <1>8
<1>9. CASE Meets(r)
      BY <1>9 DEF Meets
<1> QED BY <1>1, <1>2, <1>3, <1>4, <1>5, <1>6, <1>7, <1>8, <1>9 DEF Acts, RunStep

(***************************************************************************)
(* What happens around the runs.                                           *)
(***************************************************************************)

(* Nothing around the runs brings something to the GPU. *)
LEMMA DirtyAround ==
    ASSUME NEW r \in Runs, Around, Arrays, Dirty(r)'
    PROVE  Dirty(r)
<1> USE DEF Arrays, Dirty, DriverStep, UsesGpu, PostXid, Alive, LiveStates, Investigate,
           EndAll, ClearFiles, childVars, LosesPower, MarkGpu, WriteMarker
<1>1. CASE DriverStep
      BY <1>1
<1>2. CASE Investigate
      BY <1>2
<1>3. CASE ClearFiles
      BY <1>3
<1>4. CASE LosesPower
      BY <1>4
<1>5. CASE MarkGpu
      BY <1>5
<1> QED BY <1>1, <1>2, <1>3, <1>4, <1>5 DEF Around

(* What happens around a run: its locals, *)
LEMMA LocalsAround ==
    ASSUME NEW r \in Runs, Around, Arrays, Locals(r)
    PROVE  Locals(r)'
<1> USE DEF Arrays, Locals, DriverStep, Named, Returns, PostXid, runVars, Listening,
           Investigate, EndAll, monitorVars, ClearFiles, childVars, LosesPower,
           MarkGpu, WriteMarker, IsAlive, FreeMonitors
<1>1. CASE DriverStep
      BY <1>1, FreshValues
<1>2. CASE Investigate
      BY <1>2, FreshValues
<1>3. CASE ClearFiles
      BY <1>3, FreshValues
<1>4. CASE LosesPower
      BY <1>4, FreshValues
<1>5. CASE MarkGpu
      BY <1>5, FreshValues
<1> QED BY <1>1, <1>2, <1>3, <1>4, <1>5 DEF Around

(* its supervision, *)
LEMMA SupervisedAround ==
    ASSUME NEW r \in Runs, Around, Arrays, InsideIsOwner, Supervised(r)
    PROVE  Supervised(r)'
<1> USE DEF Arrays, InsideIsOwner, Supervised, DriverStep, Outside, Launched, Looked,
           Blind, Reaped, PostXid, leaseVars, runVars, BeforeLaunch, Judged, UsesGpu,
           Listening, Judging, Alive, LiveStates, Investigate, EndAll, monitorVars,
           ClearFiles, RemoveMarker, TruncatePayload, childVars, LosesPower, MarkGpu,
           WriteMarker, IsAlive, FreeMonitors
<1>1. CASE DriverStep
      BY <1>1, LeaseAssumption, FreshValues
<1>2. CASE Investigate
      BY <1>2, LeaseAssumption, FreshValues
<1>3. CASE ClearFiles
      BY <1>3, LeaseAssumption, FreshValues
<1>4. CASE LosesPower
      BY <1>4, LeaseAssumption, FreshValues
<1>5. CASE MarkGpu
      BY <1>5, LeaseAssumption, FreshValues
<1> QED BY <1>1, <1>2, <1>3, <1>4, <1>5 DEF Around

(* its monitor, *)
LEMMA WatchedAround ==
    ASSUME NEW r \in Runs, Around, Arrays, InsideIsOwner, Supervised(r), Watched(r)
    PROVE  Watched(r)'
<1> USE DEF Arrays, InsideIsOwner, Supervised, Watched, DriverStep, Outside, Launched,
           Looked, Blind, Reaped, Caused, Heard, Drained, Quiet, PostXid, leaseVars,
           runVars, BeforeLaunch, Judged, UsesGpu, Listening, AfterDrain, Judging,
           Alive, LiveStates, Investigate, EndAll, monitorVars, ClearFiles,
           RemoveMarker, TruncatePayload, childVars, LosesPower, MarkGpu, WriteMarker,
           IsAlive, FreeMonitors
<1>1. CASE DriverStep
      BY <1>1, LeaseAssumption, FreshValues
<1>2. CASE Investigate
      BY <1>2, LeaseAssumption, FreshValues
<1>3. CASE ClearFiles
      BY <1>3, LeaseAssumption, FreshValues
<1>4. CASE LosesPower
      BY <1>4, LeaseAssumption, FreshValues
<1>5. CASE MarkGpu
      BY <1>5, LeaseAssumption, FreshValues
<1> QED BY <1>1, <1>2, <1>3, <1>4, <1>5 DEF Around

(* and its judgement. *)
LEMMA JudgementAround ==
    ASSUME NEW r \in Runs, Around, Arrays, InsideIsOwner, Judgement(r)
    PROVE  Judgement(r)'
<1> USE DEF Arrays, InsideIsOwner, Judgement, DriverStep, Outside, Collected, Earned,
           PostXid, leaseVars, runVars, Proved, Listening, UsesGpu, Alive, LiveStates,
           Investigate, EndAll, monitorVars, ClearFiles, RemoveMarker, TruncatePayload,
           childVars, LosesPower, MarkGpu, WriteMarker, IsAlive, FreeMonitors
<1>1. CASE DriverStep
      BY <1>1, LeaseAssumption, FreshValues
<1>2. CASE Investigate
      BY <1>2, LeaseAssumption, FreshValues
<1>3. CASE ClearFiles
      BY <1>3, LeaseAssumption, FreshValues
<1>4. CASE LosesPower
      BY <1>4, LeaseAssumption, FreshValues
<1>5. CASE MarkGpu
      BY <1>5, LeaseAssumption, FreshValues
<1> QED BY <1>1, <1>2, <1>3, <1>4, <1>5 DEF Around

(* The use of the GPU changes with a launch and with the steps of the probe
   only. *)
LEMMA UseStep ==
    ASSUME NEW r \in Runs, Acts(r), NEW s \in Runs, Arrays, ~Launch(r), ~ChildStep(r)
    PROVE  (UsesGpu(s)' <=> UsesGpu(s)) /\ xid'[s] = xid[s]
<1> USE DEF Arrays, UsesGpu, CreateRunDirectory, Alive, Quietly, LiveStates, childVars,
           Reject, PassPreflight, StartMonitor, Monitor, MonitorSetupFails,
           QuarantineRejected, Quarantine, Files, FailLaunchCheck, ArmPoison,
           SkipPoison, FailCommit, Expired, Identify, EnterSupervision, FailAfterLaunch,
           LeaderEnds, TimeOut, KillGroup, GiveUpLeader, ScanSession, Rescan, FinalReap,
           Reap, Becomes, Cleanup, KillChild, ReapBlindly, CheckHealth, Drain, Poll,
           Close, Settle, QuarantineSettled, BlockSignals, WriteOutcome, Downgrade,
           Rewrite, SampleSignals, RestoreSignals, ClearPoison, SkipClear, Finish,
           Raise, UnwindQuarantine, GuardRecord, ExitLease, ExitProcess, Leaves, Orphan,
           Lease, ChildStep, TieToParent, CheckParent, StartProbe, EndChild, EndKin,
           RaiseXid, Ended, Interrupt, Remember, Signal, Kill, LeavesKin, LeaveKin
<1>1. CASE Prepares(r)
      BY <1>1 DEF Prepares
<1>2. CASE Starts(r)
      BY <1>2 DEF Starts
<1>3. CASE Supervises(r)
      BY <1>3 DEF Supervises
<1>4. CASE Judges(r)
      BY <1>4 DEF Judges
<1>5. CASE Concludes(r)
      BY <1>5 DEF Concludes
<1>6. CASE Unwinds(r)
      BY <1>6 DEF Unwinds
<1>7. CASE Lease(r)
      BY <1>7
<1>8. CASE ChildStep(r)
      BY <1>8
<1>9. CASE Meets(r)
      BY <1>9 DEF Meets
<1> QED BY <1>1, <1>2, <1>3, <1>4, <1>5, <1>6, <1>7, <1>8, <1>9 DEF Acts, RunStep

(***************************************************************************)
(* The quarantine.                                                         *)
(***************************************************************************)

(* The local that says that a run needs quarantine. *)
LEMMA NeedsField == /\ "needs" \in DOMAIN Fresh
                    /\ Fresh.needs = FALSE /\ NoRecord.needs = FALSE
  BY DEF Fresh, NoRecord

(* A storage fault or two are more faults. *)
LEMMA Growing ==
    ASSUME FaultType, \/ faults' = faults
                      \/ StorageFault
                      \/ faults + 2 <= MaxFaults /\ faults' = faults + 2
    PROVE  faults <= faults'
  BY LeaseAssumption DEF FaultType, StorageFault

(* A quarantine that was tried has left the GPU refused, or two operations
   have failed. *)
LEMMA Tried ==
    ASSUME FaultType, WriteMarker \/ WriteFallback \/ FallbackFails
    PROVE  Refused' \/ faults' >= 2
  BY LeaseAssumption DEF FaultType, WriteMarker, WriteFallback, FallbackFails, Refused

(* A downgrade asks for quarantine and tries it. *)
LEMMA DowngradeEffect ==
    ASSUME NEW r \in Runs, DOMAIN pc = Runs, DOMAIN mem = Runs, Named(r), Downgrade(r)
    PROVE  /\ pc'[r] = "rewrite" /\ mem'[r].needs /\ record' = record
           /\ WriteMarker \/ WriteFallback \/ FallbackFails
  BY NeedsField DEF Named, Downgrade, Goto, With, NoRecordWritten

(* The signals and the rewritten record do not change the need of
   quarantine, *)
LEMMA KeepsNeeds ==
    ASSUME NEW r \in Runs, DOMAIN mem = Runs, Named(r),
           SampleSignals(r) \/ RestoreSignals(r) \/ Rewrite(r)
    PROVE  mem'[r].needs = mem[r].needs
<1>1. CASE SampleSignals(r)
      BY <1>1, NeedsField DEF Named, SampleSignals, With, Keep
<1>2. CASE RestoreSignals(r)
  <2>1. \/ mem' = [mem EXCEPT ![r] = [mem[r] EXCEPT !.after = "clear",
                              !.interrupted = TRUE, !.unrecorded = FALSE]]
        \/ mem' = mem
        BY <1>2 DEF RestoreSignals, With, Keep
  <2> QED BY <2>1, NeedsField DEF Named
<1>3. CASE Rewrite(r)
      BY <1>3, NeedsField DEF Named, Rewrite, With
<1> QED BY <1>1, <1>2, <1>3

(* nor does the clearing of the poison, *)
LEMMA ClearNeeds ==
    ASSUME NEW r \in Runs, DOMAIN mem = Runs, Named(r), ClearPoison(r)
    PROVE  mem'[r].needs = mem[r].needs
<1>1. CASE mem' = [mem EXCEPT ![r].armed = FALSE]
      BY <1>1, NeedsField DEF Named
<1>2. CASE ClearFails(r)
      BY <1>2, NeedsField DEF Named, ClearFails, With
<1> QED BY <1>1, <1>2 DEF ClearPoison

(* nor the terminal record. *)
LEMMA OutcomeNeeds ==
    ASSUME NEW r \in Runs, DOMAIN mem = Runs, Named(r), WriteOutcome(r)
    PROVE  mem'[r].needs = mem[r].needs
<1>1. CASE mem' = [mem EXCEPT ![r].durable = TRUE]
      BY <1>1, NeedsField DEF Named
<1>2. CASE With(r, [mem[r] EXCEPT !.after = "sample"])
      BY <1>2, NeedsField DEF Named, With
<1> QED BY <1>1, <1>2 DEF WriteOutcome

(* Faults are never taken back. *)
LEMMA FaultsGrow ==
    ASSUME NEW r \in Runs, Acts(r), FaultType
    PROVE  faults <= faults'
<1> USE DEF FaultType, CreateRunDirectory, Quietly, leaseVars, Reject, PassPreflight,
           StartMonitor, Monitor, MonitorSetupFails, QuarantineRejected, Quarantine,
           WriteMarker, WriteFallback, FallbackFails, StorageFault, FailLaunchCheck,
           SkipPoison, FailCommit, Expired, Launch, Identify, EnterSupervision,
           FailAfterLaunch, LeaderEnds, TimeOut, Child, GiveUpLeader, ScanSession,
           Rescan, FinalReap, CheckHealth, Drain, Poll, Close, Settle,
           QuarantineSettled, BlockSignals, WriteOutcome, LeaseFilesKept, RecordFails,
           WriteFails, Downgrade, SampleSignals, RestoreSignals, ClearPoison,
           WritePayload, PayloadFails, SkipClear, Finish, ExitProcess, Leaves, Lease,
           Acquire, ChildStep, Interrupt, Signal, Kill, LeavesKin
<1>1. CASE Prepares(r)
  <2>1. CASE CreateRunDirectory(r)
        BY <2>1, LeaseAssumption
  <2>2. CASE Reject(r)
        BY <2>2, LeaseAssumption
  <2>3. CASE PassPreflight(r)
        BY <2>3, LeaseAssumption
  <2>4. CASE StartMonitor(r)
        BY <2>4, LeaseAssumption
  <2>5. CASE MonitorSetupFails(r)
        BY <2>5, LeaseAssumption
  <2>6. CASE QuarantineRejected(r)
        BY <2>6, LeaseAssumption
  <2> QED BY <1>1, <2>1, <2>2, <2>3, <2>4, <2>5, <2>6 DEF Prepares
<1>2. CASE Starts(r)
  <2>1. CASE FailLaunchCheck(r)
        BY <2>1, LeaseAssumption
  <2>2. CASE SkipPoison(r)
        BY <2>2, LeaseAssumption
  <2>3. CASE FailCommit(r)
        BY <2>3, LeaseAssumption
  <2>4. CASE Launch(r)
        BY <2>4, LeaseAssumption
  <2>5. CASE Identify(r)
        BY <2>5, LeaseAssumption
  <2>6. CASE EnterSupervision(r)
        BY <2>6, LeaseAssumption
  <2>7. CASE FailAfterLaunch(r)
        BY <2>7, LeaseAssumption
  <2>8. CASE ArmPoison(r)
        BY <2>8, Growing DEF ArmPoison, WritePayload, PayloadFails
  <2> QED BY <1>2, <2>1, <2>2, <2>3, <2>4, <2>5, <2>6, <2>7, <2>8 DEF Starts
<1>3. CASE Supervises(r)
  <2>1. CASE LeaderEnds(r) \/ TimeOut(r) \/ GiveUpLeader(r) \/ ScanSession(r) \/
            Rescan(r) \/ FinalReap(r)
        BY <2>1, LeaseAssumption
  <2>2. CASE Cleanup(r)
        BY <2>2, Growing DEF Cleanup, Child, leaseVars
  <2>3. CASE ReapBlindly(r)
        BY <2>3, Growing DEF ReapBlindly, Child, leaseVars
  <2> QED BY <1>3, <2>1, <2>2, <2>3 DEF Supervises
<1>4. CASE Judges(r)
  <2>1. CASE CheckHealth(r)
        BY <2>1, LeaseAssumption
  <2>2. CASE Drain(r)
        BY <2>2, LeaseAssumption
  <2>3. CASE Poll(r)
        BY <2>3, LeaseAssumption
  <2>4. CASE Close(r)
        BY <2>4, LeaseAssumption
  <2>5. CASE Settle(r)
        BY <2>5, LeaseAssumption
  <2>6. CASE QuarantineSettled(r)
        BY <2>6, LeaseAssumption
  <2>7. CASE BlockSignals(r)
        BY <2>7, LeaseAssumption
  <2> QED BY <1>4, <2>1, <2>2, <2>3, <2>4, <2>5, <2>6, <2>7 DEF Judges
<1>5. CASE Concludes(r)
  <2>1. CASE WriteOutcome(r) \/ Downgrade(r) \/ SampleSignals(r) \/ RestoreSignals(r) \/
            ClearPoison(r) \/ SkipClear(r) \/ Finish(r)
        BY <2>1, LeaseAssumption
  <2>2. CASE Rewrite(r)
        BY <2>2, Growing DEF Rewrite, LeaseFilesKept, RecordFails, WriteFails
  <2> QED BY <1>5, <2>1, <2>2 DEF Concludes
<1>6. CASE Unwinds(r)
  <2>1. CASE ExitProcess(r)
        BY <2>1, LeaseAssumption
  <2>2. CASE Raise(r)
        BY <2>2, Growing DEF Raise, Quietly, leaseVars
  <2>3. CASE UnwindQuarantine(r)
        BY <2>3, Growing DEF UnwindQuarantine, LeaseFilesKept, WriteMarker,
           WriteFallback, FallbackFails
  <2>4. CASE GuardRecord(r)
        BY <2>4, Growing DEF GuardRecord, LeaseFilesKept, RecordFails, WriteFails
  <2>5. CASE ExitLease(r)
        BY <2>5, Growing DEF ExitLease, LeaseFilesKept, WriteMarker, WriteFallback,
           FallbackFails
  <2> QED BY <1>6, <2>1, <2>2, <2>3, <2>4, <2>5 DEF Unwinds
<1>7. CASE Lease(r)
      BY <1>7, LeaseAssumption
<1>8. CASE ChildStep(r)
      BY <1>8, LeaseAssumption
<1>9. CASE Meets(r)
      BY <1>9, LeaseAssumption DEF Meets
<1> QED BY <1>1, <1>2, <1>3, <1>4, <1>5, <1>6, <1>7, <1>8, <1>9 DEF Acts, RunStep

(* A run makes a GPU that refuses lease it again only by clearing its own
   poison. *)
LEMMA RefusalStep ==
    ASSUME NEW r \in Runs, Acts(r), marker \in BOOLEAN, Refused, ~ClearPoison(r)
    PROVE  Refused'
<1> USE DEF Refused, CreateRunDirectory, Quietly, leaseVars, Reject, PassPreflight,
           StartMonitor, Monitor, MonitorSetupFails, QuarantineRejected, Quarantine,
           WriteMarker, WriteFallback, FallbackFails, MarkerLost, FailLaunchCheck,
           ArmPoison, WritePayload, PayloadFails, SkipPoison, FailCommit, Expired,
           Launch, Identify, EnterSupervision, FailAfterLaunch, LeaderEnds, TimeOut,
           Child, GiveUpLeader, ScanSession, Rescan, FinalReap, Cleanup, ReapBlindly,
           CheckHealth, Drain, Poll, Close, Settle, QuarantineSettled, BlockSignals,
           WriteOutcome, LeaseFilesKept, RecordFails, WriteFails, Downgrade, Rewrite,
           SampleSignals, RestoreSignals, SkipClear, Finish, Raise, UnwindQuarantine,
           GuardRecord, ExitLease, ExitProcess, Leaves, Lease, Acquire, ChildStep,
           Interrupt, Signal, Kill, LeavesKin
<1>1. CASE Prepares(r)
      BY <1>1, LeaseAssumption, MaskedAssumption DEF Prepares
<1>2. CASE Starts(r)
      BY <1>2, LeaseAssumption, MaskedAssumption DEF Starts
<1>3. CASE Supervises(r)
      BY <1>3, LeaseAssumption, MaskedAssumption DEF Supervises
<1>4. CASE Judges(r)
      BY <1>4, LeaseAssumption, MaskedAssumption DEF Judges
<1>5. CASE Concludes(r)
      BY <1>5, LeaseAssumption, MaskedAssumption DEF Concludes
<1>6. CASE Unwinds(r)
      BY <1>6, LeaseAssumption, MaskedAssumption DEF Unwinds
<1>7. CASE Lease(r)
      BY <1>7, LeaseAssumption, MaskedAssumption
<1>8. CASE ChildStep(r)
      BY <1>8, LeaseAssumption, MaskedAssumption
<1>9. CASE Meets(r)
      BY <1>9, LeaseAssumption, MaskedAssumption DEF Meets
<1> QED BY <1>1, <1>2, <1>3, <1>4, <1>5, <1>6, <1>7, <1>8, <1>9 DEF Acts, RunStep

(* A record that asks for quarantine is of a run that has concluded. *)
LEMMA RecordedPlaceStep ==
    ASSUME NEW r \in Runs, Acts(r), DOMAIN pc = Runs, DOMAIN record = Runs, Returns(r),
           Recorded(r)
    PROVE  Recorded(r)'
<1> USE DEF Returns, Recorded, CreateRunDirectory, Concluding, At, Goto,
           NoRecordWritten, Reject, Writes, PassPreflight, StartMonitor,
           MonitorSetupFails, QuarantineRejected, Quarantine, FailLaunchCheck,
           Childless, ArmPoison, SkipPoison, FailCommit, Expired, Launch, Identify,
           EnterSupervision, FailAfterLaunch, Escape, LeaderEnds, TimeOut, GiveUpLeader,
           ScanSession, Rescan, FinalReap, Cleanup, ReapBlindly, CheckHealth, Drain,
           Poll, Close, Settle, QuarantineSettled, BlockSignals, WriteOutcome,
           RecordFails, Downgrade, Rewrite, SampleSignals, RestoreSignals, ClearPoison,
           ClearFails, SkipClear, Finish, Raise, UnwindQuarantine, ExitLease,
           ExitProcess, Leaves, Lease, ChildStep, IsAlive, runVars, Interrupt, Remember,
           Signal, Blocked, Noting, Kill, LeavesKin
<1>1. CASE Prepares(r)
      BY <1>1 DEF Prepares
<1>2. CASE Starts(r)
      BY <1>2 DEF Starts
<1>3. CASE Supervises(r)
      BY <1>3 DEF Supervises
<1>4. CASE Judges(r)
      BY <1>4 DEF Judges
<1>5. CASE Concludes(r)
      BY <1>5 DEF Concludes
<1>6. CASE Unwinds(r)
  <2>1. CASE Raise(r) \/ UnwindQuarantine(r) \/ ExitLease(r) \/ ExitProcess(r)
        BY <2>1
  <2>2. CASE GuardRecord(r)
        BY <2>2 DEF Recorded, GuardRecord, Goto
  <2> QED BY <1>6, <2>1, <2>2 DEF Unwinds
<1>7. CASE Lease(r)
      BY <1>7
<1>8. CASE ChildStep(r)
      BY <1>8
<1>9. CASE Meets(r)
      BY <1>9 DEF Meets
<1> QED BY <1>1, <1>2, <1>3, <1>4, <1>5, <1>6, <1>7, <1>8, <1>9 DEF Acts, RunStep

(* What the record asks for is what the run believes until it has finished.
   *)
LEMMA FollowedStep ==
    ASSUME NEW r \in Runs, Acts(r), Arrays, Named(r), Returns(r), Recorded(r),
           Followed(r)
    PROVE  Followed(r)'
<1> USE DEF Arrays, Named, Returns, Recorded, Followed, CreateRunDirectory, Concluding,
           At, Goto, Keep, NoRecordWritten, Reject, Writes, PassPreflight, StartMonitor,
           MonitorSetupFails, QuarantineRejected, Quarantine, With, FailLaunchCheck,
           Childless, Raised, ArmPoison, SkipPoison, FailCommit, Expired, Launch,
           Identify, EnterSupervision, FailAfterLaunch, Escape, LeaderEnds, TimeOut,
           GiveUpLeader, ScanSession, Rescan, FinalReap, Cleanup, ReapBlindly,
           CheckHealth, Drain, Poll, Close, Settle, NeedsQuarantine, Passes,
           MonitorPassed, QuarantineSettled, BlockSignals, WriteOutcome, RecordFails,
           ClearPoison, IsClean, IsOwnPoison, ClearFails, SkipClear, Finish, Raise,
           UnwindQuarantine, ExitLease, ExitProcess, Leaves, Lease, ChildStep, IsAlive,
           runVars, Interrupt, Remember, Signal, Blocked, Noting, Kill, LeavesKin
<1>1. CASE Prepares(r)
      BY <1>1, NeedsField, FreshValues DEF Prepares
<1>2. CASE Starts(r)
      BY <1>2, NeedsField, FreshValues DEF Starts
<1>3. CASE Supervises(r)
      BY <1>3, NeedsField, FreshValues DEF Supervises
<1>4. CASE Judges(r)
      BY <1>4, NeedsField, FreshValues DEF Judges
<1>5. CASE Concludes(r)
  <2>1. CASE WriteOutcome(r)
        BY <2>1, NeedsField, FreshValues
  <2>2. CASE ClearPoison(r)
        BY <2>2, NeedsField, FreshValues
  <2>3. CASE SkipClear(r)
        BY <2>3, NeedsField, FreshValues
  <2>4. CASE Finish(r)
        BY <2>4, NeedsField, FreshValues
  <2>5. CASE Downgrade(r)
        BY <2>5, DowngradeEffect DEF Followed, Arrays
  <2>6. CASE Rewrite(r)
        BY <2>6, KeepsNeeds DEF Followed, Rewrite, At, Goto, Returns, Arrays,
           Concluding
  <2>7. CASE SampleSignals(r)
        BY <2>7, KeepsNeeds DEF Followed, SampleSignals, At, Goto, NoRecordWritten,
           Arrays, Concluding
  <2>8. CASE RestoreSignals(r)
        BY <2>8, KeepsNeeds DEF Followed, RestoreSignals, At, Goto, NoRecordWritten,
           Arrays, Concluding
  <2> QED BY <1>5, <2>1, <2>2, <2>3, <2>4, <2>5, <2>6, <2>7, <2>8 DEF Concludes
<1>6. CASE Unwinds(r)
  <2>1. CASE Raise(r) \/ UnwindQuarantine(r) \/ ExitLease(r) \/ ExitProcess(r)
        BY <2>1, NeedsField, FreshValues
  <2>2. CASE GuardRecord(r)
        BY <2>2 DEF Followed, GuardRecord, Goto, Arrays, Concluding
  <2> QED BY <1>6, <2>1, <2>2 DEF Unwinds
<1>7. CASE Lease(r)
      BY <1>7, NeedsField, FreshValues
<1>8. CASE ChildStep(r)
      BY <1>8, NeedsField, FreshValues
<1>9. CASE Meets(r)
      BY <1>9, NeedsField, FreshValues DEF Meets
<1> QED BY <1>1, <1>2, <1>3, <1>4, <1>5, <1>6, <1>7, <1>8, <1>9 DEF Acts, RunStep

(* A run that has not tried a quarantine does not need one. *)
LEMMA DecidedStep ==
    ASSUME NEW r \in Runs, Acts(r), Arrays, Named(r), Returns(r), Recorded(r),
           Followed(r), Decided(r), ~QuarantineRejected(r), ~QuarantineSettled(r),
           ~Downgrade(r), ~UnwindQuarantine(r)
    PROVE  Decided(r)'
<1>1. CASE Prepares(r)
  <2>1. CASE CreateRunDirectory(r)
        BY <2>1, NeedsField, FreshValues DEF Arrays, Named, Returns, Recorded, Followed,
           Decided, CreateRunDirectory, Concluding, At, Goto, Keep, NoRecordWritten
  <2>2. CASE Reject(r)
        BY <2>2, NeedsField, FreshValues DEF Arrays, Named, Returns, Recorded, Followed,
           Decided, Reject, Concluding, At, Writes, Goto
  <2>3. CASE PassPreflight(r)
        BY <2>3, NeedsField, FreshValues DEF Arrays, Named, Returns, Recorded, Followed,
           Decided, PassPreflight, Concluding, At, Goto, Keep, NoRecordWritten
  <2>4. CASE StartMonitor(r)
        BY <2>4, NeedsField, FreshValues DEF Arrays, Named, Returns, Recorded, Followed,
           Decided, StartMonitor, Concluding, At, Goto, Keep, NoRecordWritten
  <2>5. CASE MonitorSetupFails(r)
        BY <2>5, NeedsField, FreshValues DEF Arrays, Named, Returns, Recorded, Followed,
           Decided, MonitorSetupFails, Concluding, At, Writes, Goto
  <2> QED BY <1>1, <2>1, <2>2, <2>3, <2>4, <2>5 DEF Prepares
<1>2. CASE Starts(r)
      BY <1>2, NeedsField, FreshValues DEF Starts, Arrays, Named, Returns, Recorded,
         Followed, Decided, FailLaunchCheck, ArmPoison, SkipPoison, FailCommit, Launch,
         Identify, EnterSupervision, FailAfterLaunch, Concluding, At, Childless, Goto,
         NoRecordWritten, Keep, Expired, Escape, With, Raised
<1>3. CASE Supervises(r)
      BY <1>3, NeedsField, FreshValues DEF Supervises, Arrays, Named, Returns, Recorded,
         Followed, Decided, LeaderEnds, TimeOut, GiveUpLeader, ScanSession, Rescan,
         FinalReap, Cleanup, ReapBlindly, Concluding, Goto, Keep, NoRecordWritten, At
<1>4. CASE Judges(r)
  <2>1. CASE CheckHealth(r)
        BY <2>1, NeedsField, FreshValues DEF Arrays, Named, Returns, Recorded, Followed,
           Decided, CheckHealth, Concluding, At, Goto, NoRecordWritten
  <2>2. CASE Drain(r)
        BY <2>2, NeedsField, FreshValues DEF Arrays, Named, Returns, Recorded, Followed,
           Decided, Drain, Concluding, At, Goto, Keep, NoRecordWritten
  <2>3. CASE Poll(r)
        BY <2>3, NeedsField, FreshValues DEF Arrays, Named, Returns, Recorded, Followed,
           Decided, Poll, Concluding, At, Goto, Keep, NoRecordWritten
  <2>4. CASE Close(r)
        BY <2>4, NeedsField, FreshValues DEF Arrays, Named, Returns, Recorded, Followed,
           Decided, Close, Concluding, At, Goto, Keep, NoRecordWritten
  <2>5. CASE Settle(r)
        BY <2>5, NeedsField, FreshValues DEF Arrays, Named, Returns, Recorded, Followed,
           Decided, Settle, Concluding, At, Expired, NeedsQuarantine, With, Passes,
           Goto, NoRecordWritten, MonitorPassed
  <2>6. CASE BlockSignals(r)
        BY <2>6, NeedsField, FreshValues DEF Arrays, Named, Returns, Recorded, Followed,
           Decided, BlockSignals, Concluding, At, With, Goto, NoRecordWritten
  <2> QED BY <1>4, <2>1, <2>2, <2>3, <2>4, <2>5, <2>6 DEF Judges
<1>5. CASE Concludes(r)
  <2>1. CASE SkipClear(r)
        BY <2>1, NeedsField, FreshValues DEF Arrays, Named, Returns, Recorded, Followed,
           Decided, SkipClear, Concluding, At, IsClean, Goto, Keep, NoRecordWritten
  <2>2. CASE Finish(r)
        BY <2>2, NeedsField, FreshValues DEF Arrays, Named, Returns, Recorded, Followed,
           Decided, Finish, Concluding, At, Goto, NoRecordWritten
  <2>3. CASE WriteOutcome(r)
        BY <2>3, OutcomeNeeds DEF WriteOutcome, At, Goto, Decided, Arrays, Concluding
  <2>4. CASE Rewrite(r)
        BY <2>4, KeepsNeeds DEF Decided, Followed, Rewrite, At, Goto, Returns, Arrays,
           Concluding
  <2>5. CASE SampleSignals(r)
        BY <2>5, KeepsNeeds DEF Decided, Followed, SampleSignals, At, Goto,
           NoRecordWritten,
           Arrays, Concluding
  <2>6. CASE RestoreSignals(r)
        BY <2>6, KeepsNeeds DEF Decided, Followed, RestoreSignals, At, Goto,
           NoRecordWritten,
           Arrays, Concluding
  <2>7. CASE ClearPoison(r)
        BY <2>7, ClearNeeds DEF ClearPoison, ClearFails, IsClean, At, Goto,
           NoRecordWritten,
           Decided, Followed, Arrays, Concluding
  <2> QED BY <1>5, <2>1, <2>2, <2>3, <2>4, <2>5, <2>6, <2>7 DEF Concludes
<1>6. CASE Unwinds(r)
  <2>1. CASE Raise(r) \/ ExitLease(r) \/ ExitProcess(r)
        BY <2>1, NeedsField, FreshValues DEF Arrays, Named, Returns, Recorded, Followed,
           Decided, Raise, ExitLease, ExitProcess, Concluding, Goto, At, Keep,
           NoRecordWritten, With, Leaves
  <2>2. CASE GuardRecord(r)
        BY <2>2 DEF Decided, GuardRecord, At
  <2> QED BY <1>6, <2>1, <2>2 DEF Unwinds
<1>7. CASE Lease(r)
      BY <1>7, NeedsField, FreshValues DEF Arrays, Named, Returns, Recorded, Followed,
         Decided, Lease, Concluding, At, Goto, Keep, NoRecordWritten
<1>8. CASE ChildStep(r)
      BY <1>8, NeedsField, FreshValues DEF Arrays, Named, Returns, Recorded, Followed,
         Decided, ChildStep, Concluding, IsAlive, runVars
<1>9. CASE Meets(r)
  <2>1. CASE Interrupt(r)
        BY <2>1, NeedsField, FreshValues DEF Arrays, Named, Returns, Recorded, Followed,
           Decided, Interrupt, Concluding, Remember, With, Goto, At, NoRecordWritten
  <2>2. CASE Signal(r)
        BY <2>2, NeedsField, FreshValues DEF Arrays, Named, Returns, Recorded, Followed,
           Decided, Signal, Concluding, Blocked, Noting, Keep, NoRecordWritten
  <2>3. CASE Kill(r)
        BY <2>3, NeedsField, FreshValues DEF Arrays, Named, Returns, Recorded, Followed,
           Decided, Kill, Concluding, IsAlive, Leaves, Goto, With, NoRecordWritten
  <2>4. CASE LeavesKin(r)
        BY <2>4, NeedsField, FreshValues DEF Arrays, Named, Returns, Recorded, Followed,
           Decided, LeavesKin, Concluding, runVars
  <2> QED BY <1>9, <2>1, <2>2, <2>3, <2>4 DEF Meets
<1> QED BY <1>1, <1>2, <1>3, <1>4, <1>5, <1>6, <1>7, <1>8, <1>9 DEF Acts, RunStep

(* A run that tries has one. *)
LEMMA TriedStep ==
    ASSUME NEW r \in Runs, Arrays, Named(r), FaultType, Decided(r), Followed(r),
           \/ QuarantineRejected(r) \/ QuarantineSettled(r)
           \/ Downgrade(r) \/ UnwindQuarantine(r)
    PROVE  Quarantined(r)'
<1>1. CASE QuarantineRejected(r) \/ QuarantineSettled(r)
      BY <1>1, Tried DEF QuarantineRejected, QuarantineSettled, Quarantine, Quarantined
<1>2. CASE Downgrade(r)
      BY <1>2, Tried, DowngradeEffect DEF Arrays, Quarantined
<1>3. CASE UnwindQuarantine(r)
  <2>1. CASE WriteMarker \/ WriteFallback \/ FallbackFails
        BY <2>1, Tried DEF Quarantined
  <2>2. CASE ~(WriteMarker \/ WriteFallback \/ FallbackFails)
    <3>1. pc[r] = "unwind" /\ pc'[r] = "exit lease" /\ record' = record
          BY <1>3, <2>2 DEF UnwindQuarantine, At, Goto, NoRecordWritten, Arrays
    <3> QED BY <3>1 DEF Decided, Quarantined, Concluding
  <2> QED BY <2>1, <2>2
<1> QED BY <1>1, <1>2, <1>3

(* Two faults stay two faults. *)
LEMMA StillFailed ==
    ASSUME NEW r \in Runs, Acts(r), FaultType, faults >= 2
    PROVE  faults' \in Nat /\ faults' >= 2
<1>1. faults <= faults' /\ faults \in Nat
      BY FaultsGrow, LeaseAssumption DEF FaultType
<1>2. faults' \in Nat
      BY FaultStep, LeaseAssumption DEF FaultType
<1> QED BY <1>1, <1>2

(* A run that needs quarantine has it, or its storage has failed twice. *)
LEMMA QuarantinedStep ==
    ASSUME NEW r \in Runs, Acts(r), Arrays, Locals(r), FaultType, marker \in BOOLEAN,
           Persisted(r)
    PROVE  Quarantined(r)'
<1> USE DEF Persisted, Locals
<1>1. CASE Decided(r)
  <2>1. CASE \/ QuarantineRejected(r) \/ QuarantineSettled(r)
             \/ Downgrade(r) \/ UnwindQuarantine(r)
        BY <1>1, <2>1, TriedStep
  <2>2. CASE /\ ~QuarantineRejected(r) /\ ~QuarantineSettled(r)
             /\ ~Downgrade(r) /\ ~UnwindQuarantine(r)
        BY <1>1, <2>2, DecidedStep DEF Quarantined
  <2> QED BY <2>1, <2>2
<1>2. CASE ClearPoison(r)
  <2>1. Decided(r)
        BY <1>2 DEF ClearPoison, At, IsClean, Decided
  <2> QED BY <1>1, <2>1
<1>3. CASE Refused /\ ~ClearPoison(r)
      BY <1>3, RefusalStep DEF Quarantined
<1>4. CASE faults >= 2
      BY <1>4, StillFailed DEF Quarantined
<1> QED BY <1>1, <1>2, <1>3, <1>4 DEF Quarantined
-----------------------------------------------------------------------------

(***************************************************************************)
(* The invariant.                                                          *)
(***************************************************************************)

(* A run nothing has happened to stays sound. *)
LEMMA SameSound ==
    ASSUME NEW s \in Runs, Same(s), Sound(s)
    PROVE  Sound(s)' /\ (Dirty(s)' => Dirty(s))
<1> USE DEF Same
<1>1. Locals(s)'
      BY DEF Sound, Locals, Named, Returns
<1>2. Supervised(s)' /\ (UsesGpu(s)' <=> UsesGpu(s))
      BY DEF Sound, Supervised, Launched, Looked, Blind, Reaped, UsesGpu, Alive
<1>3. Watched(s)'
      BY DEF Sound, Watched, Caused, Heard, Drained, Quiet, Listening
<1>4. Judgement(s)'
      BY <1>2 DEF Sound, Judgement, Collected, Earned, Proved
<1> QED BY <1>1, <1>2, <1>3, <1>4 DEF Sound, Dirty

(* A run keeps itself sound. *)
LEMMA SoundStep ==
    ASSUME NEW r \in Runs, Acts(r), Arrays, Sound(r)
    PROVE  Sound(r)'
<1> USE DEF Sound, Locals, Supervised, Watched, Judgement
<1>0. DOMAIN mem = Runs /\ DOMAIN record = Runs
      BY DEF Arrays
<1>1. Locals(r)'
      BY <1>0, NamedStep, ReturnsStep
<1>2. Supervised(r)'
      BY LaunchedStep, LookedStep, BlindStep, ReapedStep
<1>3. Watched(r)'
      BY CausedStep, HeardStep, DrainedStep, QuietStep
<1>4. Collected(r)'
      BY CollectedStep
<1>5. mem'[r].passed => Proved(r)
  <2>1. CASE Settle(r)
        BY <2>1, SettleStep
  <2>2. CASE ~Settle(r)
        BY <2>2, <1>0, PassedStep DEF Earned
  <2> QED BY <2>1, <2>2
<1>6. record'[r].passed => Proved(r)
      BY <1>0, RecordedStep DEF Earned
<1>7. Proved(r) => Proved(r)'
      BY ProvedStep
<1> QED BY <1>1, <1>2, <1>3, <1>4, <1>5, <1>6, <1>7 DEF Earned

(* Nothing around a run makes it unsound. *)
LEMMA SoundAround ==
    ASSUME NEW r \in Runs, Around, Arrays, InsideIsOwner, Sound(r)
    PROVE  Sound(r)'
  BY LocalsAround, SupervisedAround, WatchedAround, JudgementAround DEF Sound

(* The launch of a masked probe is under poison, the launch of a baseline
   leaves nothing. *)
LEMMA LaunchEffect ==
    ASSUME NEW r \in Runs, Arrays, LeaseTypes, InsideIsOwner, Launch(r)
    PROVE  /\ owner = r /\ owner' = owner
           /\ exposed => exposed'
           /\ Dirty(r)' => Dirty(r) \/ exposed'
  BY DEF Launch, Arrays, LeaseTypes, InsideIsOwner, Outside, At, leaseVars, Spawn,
     Becomes,
     Dirty, UsesGpu, Alive, LiveStates

(* A run vouches for the GPU when its own probe is proved clean. *)
LEMMA ClearEffect ==
    ASSUME NEW r \in Runs, InsideIsOwner, Sound(r), ClearPoison(r)
    PROVE  owner = r /\ owner' = owner /\ ~Dirty(r)
  BY DEF ClearPoison, InsideIsOwner, Outside, At, IsClean, Sound, Judgement, Earned,
     Proved,
     Dirty

(* What is on the GPU is under poison and is of the owner alone: the poison
   is cleared when the probe of the owner is proved clean, and a lease is
   given of a GPU that is not exposed. *)
LEMMA GpuStep ==
    ASSUME NEW r \in Runs, Acts(r), Arrays, LeaseTypes, InsideIsOwner, ExposedIsRefused,
           DirtyIsExposed, OthersAreClean, \A s \in Runs : Sound(s)
    PROVE  DirtyIsExposed' /\ OthersAreClean'
<1>1. \A s \in Runs \ {r} : Dirty(s)' => Dirty(s)
      BY ElsewhereStep, SameSound
<1>2. CASE Launch(r)
  <2>1. DirtyIsExposed'
        BY <1>1, <1>2, LaunchEffect DEF DirtyIsExposed
  <2>2. OthersAreClean'
        BY <1>1, <1>2, LaunchEffect DEF OthersAreClean
  <2> QED BY <2>1, <2>2
<1>3. CASE ClearPoison(r)
  <2>1. ~Launch(r)
        BY <1>3 DEF ClearPoison, Launch, At
  <2>2. \A s \in Runs : ~Dirty(s)
        BY <1>3, ClearEffect DEF OthersAreClean
  <2>3. \A s \in Runs : ~Dirty(s)'
        BY <1>1, <2>1, <2>2, DirtyStep
  <2> QED BY <2>3 DEF DirtyIsExposed, OthersAreClean
<1>4. CASE ~Launch(r) /\ ~ClearPoison(r)
  <2>1. \A s \in Runs : Dirty(s)' => Dirty(s)
        BY <1>1, <1>4, DirtyStep
  <2>2. exposed' = exposed
        BY <1>4, ExposureStep DEF LeaseTypes
  <2>3. DirtyIsExposed'
        BY <2>1, <2>2 DEF DirtyIsExposed
  <2>4. OthersAreClean'
    <3>1. CASE Lease(r)
      <4>1. ~exposed
            BY <3>1 DEF Lease, Acquire, ExposedIsRefused
      <4> QED BY <4>1, <2>1 DEF DirtyIsExposed, OthersAreClean
    <3>2. CASE ~Lease(r)
          BY <3>2, <2>1, OwnershipStep, LeaseAssumption DEF OthersAreClean
    <3> QED BY <3>1, <3>2
  <2> QED BY <2>3, <2>4
<1> QED BY <1>2, <1>3, <1>4

(* Nothing around the runs changes that. *)
LEMMA GpuAround ==
    ASSUME Around, Arrays, LeaseTypes, DirtyIsExposed, OthersAreClean
    PROVE  DirtyIsExposed' /\ OthersAreClean'
<1>1. \A s \in Runs : Dirty(s)' => Dirty(s)
      BY DirtyAround
<1>2. owner' = owner \/ owner' = NoRun
      BY DEF Around, DriverStep, Investigate, ClearFiles, LosesPower, MarkGpu,
         WriteMarker, leaseVars, RemoveMarker, TruncatePayload
<1>3. \/ exposed' = exposed
      \/ \A s \in Runs : ~Dirty(s)'
      BY DEF Around, DriverStep, Investigate, ClearFiles, LosesPower, MarkGpu,
         WriteMarker, historyVars, Dirty, UsesGpu, Alive, LiveStates, EndAll
<1> QED BY <1>1, <1>2, <1>3, LeaseAssumption DEF DirtyIsExposed, OthersAreClean

(* A person clears the files only after the look, and a power loss clears
   the GPU with them. *)
LEMMA ExposedAround ==
    ASSUME Around, LeaseTypes, InvestigatedIsFree, ExposedIsRefused
    PROVE  ExposedIsRefused'
  BY DEF Around, DriverStep, Investigate, ClearFiles, LosesPower, MarkGpu, WriteMarker,
     leaseVars, historyVars, RemoveMarker, TruncatePayload, LeaseTypes,
     InvestigatedIsFree, ExposedIsRefused, Refused

(* A step of the system is a step of a run or around the runs. *)
LEMMA NextIsStep ==
    ASSUME Next
    PROVE  Around \/ \E r \in Runs : Acts(r)
  BY DEF Next, Around, Acts, Meets

(* The invariant holds at first, *)
LEMMA InitIInv == Init => IInv
<1> SUFFICES ASSUME Init PROVE IInv
      OBVIOUS
<1> USE DEF Init, LeaseInit, ChildInit, MonitorInit
<1>1. Types
  <2>1. Arrays
        BY DEF Arrays
  <2>2. PcType /\ SigType /\ ProbeTypes /\ MonitorType
        BY DEF PcType, SigType, ProbeTypes, MonitorType, Places
  <2>3. LeaseTypes
        BY DEF LeaseTypes, Payloads
  <2>4. FaultType
        BY LeaseAssumption DEF FaultType
  <2> QED BY <2>1, <2>2, <2>3, <2>4 DEF Types
<1>2. Leased
      BY LeaseAssumption, MaskedAssumption DEF Leased, InsideIsOwner, OwnerIsAlive,
         ArmedAtCommit, InvestigatedIsFree, Outside
<1>3. ExposedIsRefused /\ DirtyIsExposed /\ OthersAreClean
      BY LeaseAssumption DEF ExposedIsRefused, DirtyIsExposed, OthersAreClean, Dirty,
         UsesGpu, Alive, LiveStates
<1>4. ASSUME NEW r \in Runs PROVE Sound(r)
  <2>1. Locals(r)
        BY FreshValues DEF Locals, Named, Returns
  <2>2. Supervised(r)
        BY DEF Supervised, Launched, Looked, Blind, Reaped, Judged, Judging, BeforeLaunch
  <2>3. Watched(r)
        BY DEF Watched, Caused, Heard, Drained, Quiet, Listening
  <2>4. Judgement(r)
        BY FreshValues DEF Judgement, Collected, Earned, NoRecord
  <2> QED BY <2>1, <2>2, <2>3, <2>4 DEF Sound
<1> QED BY <1>1, <1>2, <1>3, <1>4 DEF IInv

(* through a stutter, *)
LEMMA StutterIInv ==
    ASSUME IInv, UNCHANGED vars
    PROVE  IInv'
<1> USE DEF vars, leaseVars, childVars, monitorVars, runVars, historyVars
<1>1. Types'
      BY DEF IInv, Types, Arrays, PcType, SigType, ProbeTypes, MonitorType, LeaseTypes,
         FaultType
<1>2. Leased' /\ ExposedIsRefused'
      BY DEF IInv, Leased, InsideIsOwner, OwnerIsAlive, ArmedAtCommit, InvestigatedIsFree,
         ExposedIsRefused, Refused, IsAlive
<1>3. ASSUME NEW r \in Runs PROVE Sound(r)' /\ (Dirty(r)' => Dirty(r))
  <2>1. Same(r)
        BY DEF Same
  <2> QED BY <2>1, SameSound DEF IInv
<1>4. DirtyIsExposed' /\ OthersAreClean'
      BY <1>3 DEF IInv, DirtyIsExposed, OthersAreClean
<1> QED BY <1>1, <1>2, <1>3, <1>4 DEF IInv

(* and through every step. *)
LEMMA NextIInv ==
    ASSUME IInv, Next
    PROVE  IInv'
<1> USE DEF IInv, Types
<1>1. PICK r : Step(r)
      BY NextIsStep DEF Step
<1>2. DOMAIN pc = Runs /\ DOMAIN mem = Runs /\ \A s \in Runs : Returns(s)
      BY DEF Arrays, Sound, Locals
<1>3. /\ Arrays' /\ PcType' /\ SigType' /\ ProbeTypes' /\ MonitorType' /\ LeaseTypes'
      BY <1>1, <1>2, ArraysStep, PcStep, SigStep, ProbeTypesStep, MonitorTypeStep,
         LeaseTypesStep
<1>4. Leased'
      BY <1>1, <1>2, InsideStep, OwnerStep, ArmedStep, InvestigatedStep DEF Leased
<1>5. CASE Around
  <2>1. FaultType'
        BY <1>5 DEF Around, DriverStep, Investigate, ClearFiles, LosesPower, MarkGpu,
           WriteMarker, FaultType, leaseVars, RemoveMarker, TruncatePayload
  <2>2. ExposedIsRefused' /\ DirtyIsExposed' /\ OthersAreClean'
        BY <1>5, ExposedAround, GpuAround DEF Leased
  <2>3. \A s \in Runs : Sound(s)'
        BY <1>5, SoundAround DEF Leased
  <2> QED BY <1>3, <1>4, <2>1, <2>2, <2>3
<1>6. CASE r \in Runs /\ Acts(r)
  <2>1. FaultType'
        BY <1>6, FaultStep
  <2>2. ExposedIsRefused' /\ DirtyIsExposed' /\ OthersAreClean'
        BY <1>6, ExposedStep, GpuStep DEF Leased
  <2>3. \A s \in Runs : Sound(s)'
        BY <1>6, SoundStep, ElsewhereStep, SameSound
  <2> QED BY <1>3, <1>4, <2>1, <2>2, <2>3
<1> QED BY <1>1, <1>5, <1>6 DEF Step

(* The inductive invariant of the formal probe run, for every set of runs
   and every bound on faults and troubles. *)
THEOREM Invariance == Spec => []IInv
  BY InitIInv, NextIInv, StutterIInv, PTL DEF Spec

(***************************************************************************)
(* What follows from it.                                                   *)
(***************************************************************************)

(* The types of a probe run, and that the stages of the run agree with those
   of its probe. *)
THEOREM TypeCorrectness == Spec => []ProbeTypeOK
<1>1. ASSUME IInv PROVE ProbeTypeOK
  <2> USE <1>1 DEF IInv, Types
  <2>1. /\ owner \in Runs \cup {NoRun} /\ (owner # NoRun => IsAlive(owner))
        /\ payload \in Payloads
        /\ {marker, exposed, investigated, inflight} \subseteq BOOLEAN
        BY DEF LeaseTypes, Leased, OwnerIsAlive
  <2>2. faults \in 0 .. MaxFaults
        BY DEF FaultType
  <2>3. ASSUME NEW r \in Runs
        PROVE  /\ pc[r] \in Places /\ kin[r] \in {"none", "group", "session", "dying"}
               /\ child[r] \in LiveStates \cup {"none", "zombie", "gone"}
               /\ monitor[r] \in {"unused", "open", "quiet", "clean", "failed"}
               /\ sig[r] \in {"none", "pending", "noted"}
        BY DEF PcType, SigType, ProbeTypes, MonitorType
  <2>4. ASSUME NEW r \in Runs
        PROVE  /\ pc[r] \in BeforeLaunch => child[r] = "none"
               /\ doomed[r] => child[r] # "none"
        BY DEF Sound, Supervised, Launched
  <2>5. ASSUME NEW r \in Runs, doomed[r]
        PROVE  Alive(r) \/ child[r] \in {"zombie", "gone"}
        BY <2>3, <2>4, <2>5 DEF Alive
  <2> QED BY <2>1, <2>2, <2>3, <2>4, <2>5 DEF ProbeTypeOK
<1> QED BY <1>1, Invariance, PTL

(* A GPU on which a masked probe was started and not cleared refuses every
   lease, whatever fails and wherever its run is killed. *)
THEOREM ExposedIsAlwaysRefused == Spec => []ExposedIsRefused
<1>1. IInv => ExposedIsRefused
      BY DEF IInv
<1> QED BY <1>1, Invariance, PTL

(* When the supervisor says that the process group was reaped, nothing of
   the probe uses the GPU. *)
THEOREM ReapedIsGone == Spec => []ReapedMeansGone
<1>1. IInv => ReapedMeansGone
      BY DEF IInv, ReapedMeansGone, Sound, Supervised, Reaped, Judged
<1> QED BY <1>1, Invariance, PTL

(* A record that says passed is that of a run whose probe is gone with all
   it started and raised no Xid. *)
THEOREM PassedIsProved == Spec => []PassedMeansProved
<1>1. IInv => PassedMeansProved
      BY DEF IInv, PassedMeansProved, Sound, Judgement, Earned, Proved
<1> QED BY <1>1, Invariance, PTL

(* What the custody calls live and faulted. *)
Live == {s \in Masked : UsesGpu(s)}
Faulted == \E s \in Runs : xid[s]

(***************************************************************************)
(* The custody of the GPU is implemented.                                  *)
(***************************************************************************)

(* What uses the GPU and what has faulted, as the abstract custody sees it.
   *)
LEMMA SameUse ==
    ASSUME \A s \in Runs : (UsesGpu(s)' <=> UsesGpu(s)) /\ xid'[s] = xid[s]
    PROVE  Live' = Live /\ (Faulted' <=> Faulted)
  BY MaskedAssumption DEF Live, Faulted

(* A step of a probe is a fault, an end or a stutter of the custody. *)
LEMMA ChildStepImplements ==
    ASSUME NEW r \in Runs, Arrays, ChildStep(r)
    PROVE  [Custody!Next]_Custody!vars
<1>1. owner' = owner /\ exposed' = exposed
      BY DEF ChildStep, leaseVars, historyVars
<1>2. \A s \in Runs \ {r} : (UsesGpu(s)' <=> UsesGpu(s)) /\ xid'[s] = xid[s]
      BY ElsewhereStep DEF Acts, Same, UsesGpu, Alive
<1>3. CASE RaiseXid(r)
  <2>1. UsesGpu(r)' /\ UsesGpu(r) /\ r \in Masked /\ xid'[r]
        BY <1>3 DEF RaiseXid, UsesGpu, Alive, LiveStates, Arrays
  <2>2. Live' = Live /\ Live # {} /\ Faulted'
        BY <1>2, <2>1, MaskedAssumption DEF Live, Faulted
  <2> QED BY <1>1, <2>2 DEF Live, Faulted, Custody!Next, Custody!Fault
<1>4. CASE ~RaiseXid(r)
  <2>1. (UsesGpu(r)' => UsesGpu(r)) /\ xid'[r] = xid[r]
        BY <1>4 DEF ChildStep, TieToParent, CheckParent, StartProbe, EndChild, EndKin,
           Becomes, Ended, UsesGpu, Alive, LiveStates, Arrays
  <2>2. Live' \in {Live, Live \ {r}} /\ (Faulted' <=> Faulted)
        BY <1>2, <2>1, MaskedAssumption DEF Live, Faulted
  <2> QED BY <1>1, <2>2 DEF Live, Faulted, Custody!Next, Custody!End, Custody!vars
<1> QED BY <1>3, <1>4

(* A launch is one under custody, or a stutter when the run is a baseline.
   *)
LEMMA LaunchImplements ==
    ASSUME NEW r \in Runs, Arrays, LeaseTypes, InsideIsOwner, Launch(r)
    PROVE  [Custody!Next]_Custody!vars
<1>1. owner = r /\ owner' = owner
      BY LaunchEffect
<1>2. \A s \in Runs \ {r} : (UsesGpu(s)' <=> UsesGpu(s)) /\ xid'[s] = xid[s]
      BY ElsewhereStep DEF Acts, RunStep, Starts, Same, UsesGpu, Alive
<1>3. UsesGpu(r)' /\ xid'[r] = xid[r]
      BY DEF Launch, Spawn, Becomes, UsesGpu, Alive, LiveStates, Arrays
<1>4. Faulted' <=> Faulted
      BY <1>2, <1>3 DEF Faulted
<1>5. CASE r \in Masked
  <2>1. Live' = Live \cup {r} /\ exposed'
        BY <1>2, <1>3, <1>5, MaskedAssumption DEF Live, Launch
  <2> QED BY <1>1, <1>4, <2>1 DEF Live, Faulted, Custody!Next, Custody!Launch
<1>6. CASE r \notin Masked
  <2>1. Live' = Live /\ exposed' = exposed
        BY <1>2, <1>6, MaskedAssumption DEF Live, Launch, LeaseTypes
  <2> QED BY <1>1, <1>4, <2>1 DEF Live, Faulted, Custody!vars
<1> QED BY <1>5, <1>6

(* The other steps of a run lease, vouch, leave or stutter. *)
LEMMA ActImplements ==
    ASSUME NEW r \in Runs, Acts(r), IInv, ~Launch(r), ~ChildStep(r)
    PROVE  [Custody!Next]_Custody!vars
<1> USE DEF IInv, Types, Leased
<1>1. Live' = Live /\ (Faulted' <=> Faulted)
      BY UseStep, SameUse
<1>2. CASE Lease(r)
  <2>1. owner = NoRun /\ ~exposed /\ owner' = r /\ exposed' = exposed
        BY <1>2 DEF Lease, Acquire, ExposedIsRefused
  <2> QED BY <1>1, <2>1 DEF Live, Faulted, Custody!Next, Custody!Lease
<1>3. CASE ClearPoison(r)
  <2>1. owner = r /\ owner' = owner /\ ~Dirty(r)
        BY <1>3, ClearEffect
  <2>2. \A s \in Runs : ~Dirty(s)
        BY <2>1 DEF OthersAreClean
  <2>3. Live = {} /\ ~Faulted
        BY <2>2, MaskedAssumption DEF Live, Faulted, Dirty
  <2>4. exposed' = exposed \/ exposed' = FALSE
        BY <1>3 DEF ClearPoison, LeaseTypes
  <2> QED BY <1>1, <2>1, <2>3, <2>4 DEF Live, Faulted, Custody!Next, Custody!Vouch,
     Custody!vars
<1>4. CASE ~Lease(r) /\ ~ClearPoison(r)
  <2>1. exposed' = exposed /\ (owner' = owner \/ owner' = NoRun)
        BY <1>4, ExposureStep, OwnershipStep DEF LeaseTypes
  <2> QED BY <1>1, <2>1 DEF Live, Faulted, Custody!Next, Custody!Leave, Custody!vars
<1> QED BY <1>2, <1>3, <1>4

(* A person and a power loss renew the GPU; a driver and the clearing of the
   files stutter. *)
LEMMA AroundImplements ==
    ASSUME Around, Arrays
    PROVE  [Custody!Next]_Custody!vars
<1>1. CASE DriverStep \/ ClearFiles \/ MarkGpu
  <2>1. owner' = owner /\ exposed' = exposed /\ child' = child /\ kin' = kin /\ xid' = xid
        BY <1>1 DEF DriverStep, ClearFiles, MarkGpu, PostXid, leaseVars, childVars,
           historyVars, RemoveMarker, TruncatePayload
  <2>2. Live' = Live /\ (Faulted' <=> Faulted)
        BY <2>1, SameUse DEF UsesGpu, Alive
  <2> QED BY <2>1, <2>2 DEF Live, Faulted, Custody!vars
<1>2. CASE Investigate \/ LosesPower
  <2>1. owner' = NoRun /\ exposed' = FALSE
        BY <1>2 DEF Investigate, LosesPower, leaseVars
  <2>2. \A s \in Runs : ~UsesGpu(s)' /\ ~xid'[s]
        BY <1>2 DEF Investigate, LosesPower, EndAll, UsesGpu, Alive, LiveStates, Arrays
  <2>3. Live' = {} /\ ~Faulted'
        BY <2>2, MaskedAssumption DEF Live, Faulted
  <2> QED BY <2>1, <2>3 DEF Live, Faulted, Custody!Next, Custody!Renew
<1> QED BY <1>1, <1>2 DEF Around

(* The runs begin in the first state of the custody, *)
LEMMA InitImplements == Init => Custody!Init
<1> SUFFICES ASSUME Init PROVE Custody!Init
      OBVIOUS
<1>1. owner = NoRun /\ exposed = FALSE
      BY DEF Init, LeaseInit
<1>2. Live = {} /\ ~Faulted
      BY MaskedAssumption DEF Init, ChildInit, Live, Faulted, UsesGpu, Alive, LiveStates
<1> QED BY <1>1, <1>2 DEF Live, Faulted, Custody!Init

(* and every step is one of the custody or a stutter. *)
LEMMA StepImplements ==
    ASSUME IInv, [Next]_vars
    PROVE  [Custody!Next]_Custody!vars
<1>1. CASE UNCHANGED vars
  <2>1. owner' = owner /\ exposed' = exposed /\ child' = child /\ kin' = kin /\ xid' = xid
        BY <1>1 DEF vars, leaseVars, childVars, historyVars
  <2>2. Live' = Live /\ (Faulted' <=> Faulted)
        BY <2>1, SameUse DEF UsesGpu, Alive
  <2> QED BY <2>1, <2>2 DEF Live, Faulted, Custody!vars
<1>2. CASE Around
      BY <1>2, AroundImplements DEF IInv, Types
<1>3. ASSUME NEW r \in Runs, Acts(r) PROVE [Custody!Next]_Custody!vars
  <2>1. CASE Launch(r)
        BY <2>1, LaunchImplements DEF IInv, Types, Leased
  <2>2. CASE ChildStep(r)
        BY <2>2, ChildStepImplements DEF IInv, Types
  <2>3. CASE ~Launch(r) /\ ~ChildStep(r)
        BY <1>3, <2>3, ActImplements
  <2> QED BY <2>1, <2>2, <2>3
<1> QED BY <1>1, <1>2, <1>3, NextIsStep

(* The flock, the two files and the order of the run implement the custody
   of the GPU (GpuCustody): a live masked probe is under the exposure its
   holder declared, and a lease is of a clean GPU. *)
THEOREM CustodyIsImplemented == Spec => ImplementsCustody
<1>1. IInv /\ [Next]_vars => [Custody!Next]_Custody!vars
      BY StepImplements
<1> QED BY <1>1, InitImplements, Invariance, PTL DEF Spec, ImplementsCustody, Custody!Spec

(***************************************************************************)
(* A recorded quarantine is held.                                          *)
(***************************************************************************)

(* Nothing around a run takes its quarantine away while it is inside. *)
LEMMA PersistedAround ==
    ASSUME NEW r \in Runs, Around, Arrays, InsideIsOwner, Persisted(r)
    PROVE  Persisted(r)'
<1>1. CASE DriverStep
      BY <1>1 DEF DriverStep, leaseVars, runVars, Persisted, Recorded, Followed,
         Quarantined, Decided, Refused
<1>2. CASE Investigate \/ ClearFiles
  <2>1. pc' = pc /\ mem' = mem /\ record' = record /\ pc[r] \in Outside
        BY <1>2, LeaseAssumption DEF Investigate, ClearFiles, runVars, InsideIsOwner
  <2> QED BY <2>1 DEF Persisted, Recorded, Followed, Quarantined, Decided, Outside,
             Concluding
<1>3. CASE LosesPower
  <2>1. record' = record /\ (pc'[r] = "over" \/ (pc'[r] = pc[r] /\ pc[r] = "idle"))
        BY <1>3 DEF LosesPower, IsAlive, Arrays
  <2> QED BY <2>1 DEF Persisted, Recorded, Followed, Quarantined, Decided, Concluding
<1>4. CASE MarkGpu
      BY <1>4 DEF MarkGpu, WriteMarker, runVars, Persisted, Recorded, Followed,
         Quarantined, Decided, Refused
<1> QED BY <1>1, <1>2, <1>3, <1>4 DEF Around

(* Nor does another run: only the owner clears a poison. *)
LEMMA PersistedElsewhere ==
    ASSUME NEW r \in Runs, NEW s \in Runs, s # r, Acts(r), Arrays, LeaseTypes, FaultType,
           InsideIsOwner, Persisted(s)
    PROVE  Persisted(s)'
<1>1. Same(s)
      BY ElsewhereStep
<1>2. Recorded(s)' /\ Followed(s)' /\ (Decided(s)' <=> Decided(s))
      BY <1>1 DEF Same, Persisted, Recorded, Followed, Decided
<1>3. CASE Decided(s)
      BY <1>2, <1>3 DEF Persisted, Quarantined
<1>4. CASE ClearPoison(r)
  <2>1. owner = r
        BY <1>4 DEF ClearPoison, At, InsideIsOwner, Outside
  <2>2. pc[s] \in Outside
        BY <2>1 DEF InsideIsOwner
  <2> QED BY <1>3, <2>2 DEF Decided, Outside, Concluding
<1>5. CASE Refused /\ ~ClearPoison(r)
      BY <1>2, <1>5, RefusalStep DEF LeaseTypes, Persisted, Quarantined
<1>6. CASE faults >= 2
      BY <1>2, <1>6, StillFailed DEF Persisted, Quarantined
<1> QED BY <1>3, <1>4, <1>5, <1>6 DEF Persisted, Quarantined

(* So the quarantine of every run holds through every step. *)
LEMMA NextPersisted ==
    ASSUME IInv, \A r \in Runs : Persisted(r), [Next]_vars
    PROVE  \A r \in Runs : Persisted(r)'
<1> USE DEF IInv, Types, Leased
<1>1. CASE UNCHANGED vars
      BY <1>1 DEF vars, leaseVars, runVars, Persisted, Recorded, Followed, Quarantined,
         Decided, Refused
<1>2. CASE Around
      BY <1>2, PersistedAround
<1>3. ASSUME NEW r \in Runs, Acts(r) PROVE \A s \in Runs : Persisted(s)'
  <2>1. Recorded(r)'
        BY <1>3, RecordedPlaceStep DEF Arrays, Sound, Locals, Persisted
  <2>2. Followed(r)'
        BY <1>3, FollowedStep DEF Sound, Locals, Persisted
  <2>3. Quarantined(r)'
        BY <1>3, QuarantinedStep DEF Sound, LeaseTypes
  <2>4. \A s \in Runs \ {r} : Persisted(s)'
        BY <1>3, PersistedElsewhere
  <2> QED BY <2>1, <2>2, <2>3, <2>4 DEF Persisted
<1> QED BY <1>1, <1>2, <1>3, NextIsStep

(* Only the exit of the lease leads out of it. *)
LEMMA ExitStep ==
    ASSUME Arrays, Next, NEW r \in Runs, pc[r] = "exit lease", pc'[r] = "returned"
    PROVE  Acts(r) /\ ~ClearPoison(r)
<1>1. ~(DriverStep \/ Investigate \/ ClearFiles)
      BY DEF DriverStep, Investigate, ClearFiles, runVars
<1>2. ~LosesPower /\ ~MarkGpu
      BY DEF LosesPower, MarkGpu, runVars, IsAlive
<1>3. PICK s \in Runs : Acts(s)
      BY <1>1, <1>2, NextIsStep DEF Around
<1>4. s = r
      BY <1>3, ElsewhereStep DEF Same
<1>5. ~ClearPoison(r)
      BY DEF ClearPoison, At
<1> QED BY <1>3, <1>4, <1>5

(* A run that returns with a record that asks for quarantine leaves the GPU
   refused, or its storage has failed twice. *)
LEMMA Returning ==
    ASSUME IInv, NEW r \in Runs, Persisted(r), Next,
           pc[r] = "exit lease", pc'[r] = "returned", record[r].needs
    PROVE  Refused' \/ (faults' \in Nat /\ faults' >= 2)
<1>1. Arrays /\ LeaseTypes /\ FaultType
      BY DEF IInv, Types
<1>2. Acts(r) /\ ~ClearPoison(r)
      BY <1>1, ExitStep
<1>3. Refused \/ faults >= 2
      BY DEF Persisted, Quarantined, Decided
<1>4. CASE Refused
      BY <1>1, <1>2, <1>4, RefusalStep DEF LeaseTypes
<1>5. CASE faults >= 2
      BY <1>1, <1>2, <1>5, StillFailed
<1> QED BY <1>3, <1>4, <1>5

(* The same, of all the runs in one step. *)
LEMMA Held ==
    ASSUME IInv, \A r \in Runs : Persisted(r), Next
    PROVE  \A r \in Runs : /\ pc[r] = "exit lease" /\ pc'[r] = "returned"
                           /\ record[r].needs /\ faults' < 2
                           => Refused'
<1>1. ASSUME NEW r \in Runs, pc[r] = "exit lease", pc'[r] = "returned", record[r].needs
      PROVE  Refused' \/ (faults' \in Nat /\ faults' >= 2)
      BY <1>1, Returning
<1>2. ASSUME faults' \in Nat, faults' >= 2 PROVE ~(faults' < 2)
      BY <1>2
<1> QED BY <1>1, <1>2

(* A run that releases the lease with a record that asks for quarantine has
   left the GPU refused, if no more than one storage operation has failed.
   *)
THEOREM RecordedQuarantineIsHeld == Spec => RecordedQuarantineHolds
<1>1. Init => \A r \in Runs : Persisted(r)
      BY NeedsField DEF Init, Persisted, Recorded, Followed, Quarantined, Decided,
         Concluding
<1>2. IInv /\ (\A r \in Runs : Persisted(r)) /\ [Next]_vars
        => (\A r \in Runs : Persisted(r))'
      BY NextPersisted
<1>3. IInv /\ (\A r \in Runs : Persisted(r)) /\ [Next]_vars =>
        [\A r \in Runs : /\ pc[r] = "exit lease" /\ pc'[r] = "returned"
                         /\ record[r].needs /\ faults' < 2
                         => Refused']_vars
      BY Held
<1> QED BY <1>1, <1>2, <1>3, Invariance, PTL DEF Spec, RecordedQuarantineHolds

(***************************************************************************)
(* A run that was interrupted is not trusted, and its record agrees with   *)
(* its poison.                                                             *)
(***************************************************************************)

(* What a run holds against itself is as it was. *)
KeepsVerdict(r) ==
    /\ mem'[r].passed = mem[r].passed /\ mem'[r].needs = mem[r].needs
    /\ mem'[r].unsafe = mem[r].unsafe /\ mem'[r].flawed = mem[r].flawed
    /\ mem'[r].interrupted = mem[r].interrupted /\ mem'[r].final = mem[r].final

(* The locals the trust is about. *)
LEMMA TrustFields ==
    /\ {"unsafe", "flawed", "interrupted", "final", "unrecorded", "durable", "armed",
        "deferred", "fallback", "quarantined", "untidy", "reaped", "passed", "needs",
        "after"} \subseteq DOMAIN Fresh
    /\ ~Fresh.unsafe /\ ~Fresh.interrupted /\ ~Fresh.final
    /\ ~Fresh.passed /\ Fresh.after = "finish" /\ ~NoRecord.passed
  BY DEF Fresh, NoRecord

(* What a downgrade does to the locals, *)
LEMMA DowngradeMem ==
    ASSUME NEW r \in Runs, Arrays, Named(r), Downgrade(r)
    PROVE  /\ ~mem'[r].passed /\ mem'[r].needs
           /\ mem'[r].after = mem[r].after /\ mem'[r].interrupted = mem[r].interrupted
           /\ mem'[r].unsafe = mem[r].unsafe /\ mem'[r].flawed = mem[r].flawed
           /\ mem'[r].final = mem[r].final
<1> DEFINE m == [mem[r] EXCEPT !.durable = FALSE, !.passed = FALSE, !.needs = TRUE]
<1>1. mem'[r] = m \/ mem'[r] = [m EXCEPT !.fallback = TRUE]
      BY DEF Downgrade, With, Arrays
<1>2. /\ ~m.passed /\ m.needs /\ m.after = mem[r].after /\ m.unsafe = mem[r].unsafe
      /\ m.interrupted = mem[r].interrupted /\ m.flawed = mem[r].flawed
      /\ m.final = mem[r].final /\ DOMAIN m = DOMAIN Fresh
      BY TrustFields DEF Named
<1>3. CASE mem'[r] = [m EXCEPT !.fallback = TRUE]
  <2> HIDE DEF m
  <2> QED BY <1>2, <1>3, TrustFields
<1> QED BY <1>1, <1>2, <1>3

(* a signal found after the record, *)
LEMMA SignalsMem ==
    ASSUME NEW r \in Runs, Arrays, Named(r), SampleSignals(r) \/ RestoreSignals(r)
    PROVE  /\ mem'[r].passed = mem[r].passed /\ mem'[r].needs = mem[r].needs
           /\ mem'[r].unsafe = mem[r].unsafe /\ mem'[r].flawed = mem[r].flawed
           /\ mem'[r].final = mem[r].final
           /\ pc'[r] # "downgrade" => mem' = mem /\ sig' = sig /\ sig[r] # "pending"
           /\ pc'[r] = "downgrade" => mem'[r].interrupted /\ sig'[r] = "noted"
<1>1. CASE SampleSignals(r) /\ sig[r] = "pending"
  <2>1. mem'[r] = [mem[r] EXCEPT !.after = "restore", !.interrupted = TRUE]
        BY <1>1 DEF SampleSignals, With, Arrays
  <2>2. pc'[r] = "downgrade" /\ sig'[r] = "noted"
        BY <1>1 DEF SampleSignals, Goto, Arrays
  <2> QED BY <2>1, <2>2, TrustFields DEF Named
<1>2. CASE RestoreSignals(r) /\ (sig[r] = "pending" \/ mem[r].unrecorded)
  <2>1. mem'[r] = [mem[r] EXCEPT !.after = "clear", !.interrupted = TRUE,
                                 !.unrecorded = FALSE]
        BY <1>2 DEF RestoreSignals, With, Arrays
  <2>2. pc'[r] = "downgrade" /\ sig'[r] = "noted"
        BY <1>2 DEF RestoreSignals, Goto, Arrays
  <2> QED BY <2>1, <2>2, TrustFields DEF Named
<1>3. CASE /\ sig[r] # "pending"
           /\ SampleSignals(r) \/ (RestoreSignals(r) /\ ~mem[r].unrecorded)
      BY <1>3 DEF SampleSignals, RestoreSignals, Goto, Keep, NoSignal, Arrays
<1> QED BY <1>1, <1>2, <1>3 DEF SampleSignals

(* the record, *)
LEMMA OutcomeMem ==
    ASSUME NEW r \in Runs, Arrays, Named(r), WriteOutcome(r)
    PROVE  /\ KeepsVerdict(r)
           /\ pc'[r] = "downgrade" => mem'[r].after = "sample"
<1>1. CASE mem' = [mem EXCEPT ![r].durable = TRUE] /\ pc'[r] = "sample"
      BY <1>1, TrustFields DEF Named, KeepsVerdict, Arrays
<1>2. CASE mem'[r] = [mem[r] EXCEPT !.after = "sample"]
      BY <1>2, TrustFields DEF Named, KeepsVerdict, Arrays
<1> QED BY <1>1, <1>2 DEF WriteOutcome, With, Goto, Arrays

(* the clearing of the poison, *)
LEMMA ClearMem ==
    ASSUME NEW r \in Runs, Arrays, Named(r), ClearPoison(r)
    PROVE  /\ KeepsVerdict(r)
           /\ pc'[r] \in {"downgrade", "finish"}
           /\ pc'[r] = "downgrade" => mem'[r].after = "finish"
<1>1. CASE mem' = [mem EXCEPT ![r].armed = FALSE] /\ pc'[r] = "finish"
      BY <1>1, TrustFields DEF Named, KeepsVerdict, Arrays
<1>2. CASE mem'[r] = [mem[r] EXCEPT !.after = "finish"] /\ pc'[r] = "downgrade"
      BY <1>2, TrustFields DEF Named, KeepsVerdict, Arrays
<1> QED BY <1>1, <1>2 DEF ClearPoison, ClearFails, With, Goto, Arrays

(* the decision, *)
LEMMA SettleMem ==
    ASSUME NEW r \in Runs, Arrays, Named(r), Settle(r), mem[r].unsafe => mem[r].flawed
    PROVE  /\ mem'[r].passed => ~mem'[r].interrupted /\ (r \in Masked => ~mem'[r].needs)
           /\ ~mem'[r].unsafe /\ ~mem'[r].final
<1>1. PICK sound \in BOOLEAN, expired \in Expired(r) :
         mem'[r] = [Fresh EXCEPT !.passed = Passes(r, sound, expired),
                                 !.needs = NeedsQuarantine(r, sound, expired),
                                 !.interrupted = mem[r].interrupted \/ sig[r] = "noted",
                                 !.unrecorded = mem[r].unrecorded,
                                 !.armed = mem[r].armed, !.reaped = mem[r].reaped]
      BY DEF Settle, With, Arrays
<1>2. /\ mem'[r].passed = Passes(r, sound, expired)
      /\ mem'[r].needs = NeedsQuarantine(r, sound, expired)
      /\ mem'[r].interrupted = (mem[r].interrupted \/ sig[r] = "noted")
      /\ mem'[r].unsafe = Fresh.unsafe /\ mem'[r].final = Fresh.final
      BY <1>1, TrustFields
<1> QED BY <1>2, TrustFields DEF Passes, NeedsQuarantine

(* the exit stack, *)
LEMMA UnwindMem ==
    ASSUME NEW r \in Runs, Arrays, UnwindQuarantine(r)
    PROVE  /\ ~mem'[r].unsafe /\ ~mem'[r].passed /\ mem'[r].final = mem[r].final
           /\ pc'[r] = (IF mem[r].final THEN "exit lease" ELSE "guard")
<1> DEFINE m == [Fresh EXCEPT !.final = mem[r].final, !.fallback = mem[r].fallback]
<1>1. \/ mem'[r] = m \/ mem'[r] = [m EXCEPT !.quarantined = TRUE]
      \/ mem'[r] = [m EXCEPT !.fallback = TRUE]
      BY DEF UnwindQuarantine, With, Arrays
<1>2. pc'[r] = (IF mem[r].final THEN "exit lease" ELSE "guard")
      BY DEF UnwindQuarantine, Goto, Arrays
<1>3. /\ m.unsafe = Fresh.unsafe /\ m.passed = Fresh.passed /\ m.final = mem[r].final
      /\ DOMAIN m = DOMAIN Fresh
      BY TrustFields
<1>4. /\ mem'[r].unsafe = m.unsafe /\ mem'[r].passed = m.passed
      /\ mem'[r].final = m.final
  <2> HIDE DEF m
  <2> QED BY <1>1, <1>3, TrustFields
<1> QED BY <1>2, <1>3, <1>4, TrustFields

(* a quarantine, *)
LEMMA QuarantineMem ==
    ASSUME NEW r \in Runs, Arrays, Named(r), QuarantineRejected(r) \/ QuarantineSettled(r)
    PROVE  /\ KeepsVerdict(r)
           /\ pc'[r] \in {"finish", "unwind", "block"}
           /\ pc'[r] = "block" => pc[r] = "quarantine"
           /\ sig' = sig /\ record' = record
<1>1. mem'[r] = mem[r] \/ mem'[r] = [mem[r] EXCEPT !.fallback = TRUE]
      BY DEF QuarantineRejected, QuarantineSettled, Quarantine, With, Keep, Arrays
<1>2. KeepsVerdict(r)
      BY <1>1, TrustFields DEF Named, KeepsVerdict
<1>3. /\ pc'[r] \in {"finish", "unwind", "block"} /\ sig' = sig /\ record' = record
      /\ pc'[r] = "block" => pc[r] = "quarantine"
      BY DEF QuarantineRejected, QuarantineSettled, Quarantine, At, Goto, NoSignal,
         NoRecordWritten, Arrays
<1> QED BY <1>2, <1>3

(* the supervision *)
LEMMA EarlyMem ==
    ASSUME NEW r \in Runs, Arrays, Named(r), mem[r].unsafe => mem[r].flawed,
           ArmPoison(r) \/ ScanSession(r) \/ Cleanup(r) \/ Interrupt(r)
    PROVE  /\ mem'[r].unsafe => mem'[r].flawed
           /\ mem'[r].final = mem[r].final
<1>1. CASE mem'[r] = mem[r]
      BY <1>1
<1>2. CASE mem'[r] = [mem[r] EXCEPT !.armed = TRUE]
      BY <1>2, TrustFields DEF Named
<1>3. CASE mem'[r] = [mem[r] EXCEPT !.untidy = TRUE]
      BY <1>3, TrustFields DEF Named
<1>4. CASE mem'[r] = [mem[r] EXCEPT !.untidy = FALSE]
      BY <1>4, TrustFields DEF Named
<1>5. CASE mem'[r] = [mem[r] EXCEPT !.reaped = FALSE]
      BY <1>5, TrustFields DEF Named
<1>6. CASE mem'[r] = [mem[r] EXCEPT !.flawed = TRUE, !.unsafe = FALSE, !.deferred = TRUE,
                                    !.interrupted = Raised(r)]
      BY <1>6, TrustFields DEF Named
<1>7. CASE mem'[r] = [mem[r] EXCEPT !.flawed = TRUE, !.interrupted = TRUE,
                                    !.deferred = TRUE]
      BY <1>7, TrustFields DEF Named
<1>8. CASE mem'[r] = [mem[r] EXCEPT !.untidy = TRUE, !.interrupted = TRUE,
                                    !.unrecorded = TRUE, !.reaped = @ /\ ~At(r, "reap"),
                                    !.deferred = At(r, "reap")]
      BY <1>8, TrustFields DEF Named
<1> QED BY <1>1, <1>2, <1>3, <1>4, <1>5, <1>6, <1>7, <1>8 DEF ArmPoison, Childless,
          ScanSession, Cleanup, Interrupt, Remember, With, Keep, Arrays

(* and the rewritten record do to them. *)
LEMMA RewriteMem ==
    ASSUME NEW r \in Runs, Arrays, Named(r), Rewrite(r)
    PROVE  KeepsVerdict(r)
<1>1. \/ mem'[r] = [mem[r] EXCEPT !.after = Fresh.after]
      \/ mem'[r] = [mem[r] EXCEPT !.durable = TRUE, !.after = Fresh.after]
      BY DEF Rewrite, With, Arrays
<1> QED BY <1>1, TrustFields DEF Named, KeepsVerdict

(* A record that is still there after it was taken back is a fault, *)
LEMMA RewriteEffect ==
    ASSUME NEW r \in Runs, Arrays, FaultType, Rewrite(r)
    PROVE  record'[r].passed => faults' # 0
<1>1. CASE WriteFails
      BY <1>1, LeaseAssumption DEF WriteFails, StorageFault, FaultType
<1>2. CASE Writes(r, FALSE, TRUE)
      BY <1>2 DEF Writes, Arrays
<1> QED BY <1>1, <1>2 DEF Rewrite, RecordFails

(* for the run and for its guard. *)
LEMMA GuardEffect ==
    ASSUME NEW r \in Runs, Arrays, FaultType, GuardRecord(r)
    PROVE  record'[r].passed => faults' # 0
<1>1. CASE WriteFails
      BY <1>1, LeaseAssumption DEF WriteFails, StorageFault, FaultType
<1>2. CASE Writes(r, FALSE, TRUE)
      BY <1>2 DEF Writes, Arrays
<1> QED BY <1>1, <1>2 DEF GuardRecord, RecordFails

(* Only a run that concludes records a pass. *)
LEMMA SaidStep ==
    ASSUME NEW r \in Runs, Acts(r), Arrays, Named(r), Returns(r), Said(r)
    PROVE  Said(r)'
<1>1. CASE Prepares(r)
  <2>1. CASE CreateRunDirectory(r)
        BY <2>1 DEF CreateRunDirectory, At, Goto, NoRecordWritten, Arrays, Said,
           Concluding, Leaving
  <2>2. CASE Reject(r)
        BY <2>2 DEF Reject, At, Writes, Goto, Arrays, Said, Concluding, Leaving
  <2>3. CASE PassPreflight(r)
        BY <2>3 DEF PassPreflight, At, Goto, NoRecordWritten, Arrays, Said, Concluding,
           Leaving
  <2>4. CASE StartMonitor(r)
        BY <2>4 DEF StartMonitor, At, Goto, NoRecordWritten, Arrays, Said, Concluding,
           Leaving
  <2>5. CASE MonitorSetupFails(r)
        BY <2>5 DEF MonitorSetupFails, At, Writes, Goto, Arrays, Said, Concluding,
           Leaving
  <2>6. CASE QuarantineRejected(r)
        BY <2>6 DEF QuarantineRejected, Quarantine, At, Goto, NoRecordWritten, Said,
           Arrays, Concluding, Leaving
  <2> QED BY <1>1, <2>1, <2>2, <2>3, <2>4, <2>5, <2>6 DEF Prepares
<1>2. CASE Starts(r)
      BY <1>2 DEF Starts, FailLaunchCheck, ArmPoison, SkipPoison, FailCommit, Launch,
         Identify, EnterSupervision, FailAfterLaunch, At, Childless, Goto,
         NoRecordWritten, Escape, Arrays, Said, Concluding, Leaving
<1>3. CASE Supervises(r)
      BY <1>3 DEF Supervises, LeaderEnds, TimeOut, GiveUpLeader, ScanSession, Rescan,
         FinalReap, Cleanup, ReapBlindly, Goto, NoRecordWritten, At, Arrays, Said,
         Concluding, Leaving
<1>4. CASE Judges(r)
      BY <1>4 DEF Judges, CheckHealth, Drain, Poll, Close, Settle, QuarantineSettled,
         BlockSignals, At, Goto, NoRecordWritten, Quarantine, Arrays, Said, Concluding,
         Leaving
<1>5. CASE Concludes(r)
  <2>1. CASE WriteOutcome(r)
        BY <2>1 DEF WriteOutcome, At, Writes, Goto, RecordFails, NoRecordWritten,
           Arrays, Said, Concluding, Leaving
  <2>2. CASE Downgrade(r)
        BY <2>2 DEF Downgrade, At, Goto, NoRecordWritten, Arrays, Said, Concluding,
           Leaving
  <2>3. CASE Rewrite(r)
        BY <2>3 DEF Rewrite, At, Writes, RecordFails, Goto, NoRecordWritten, Arrays,
           Returns, Said, Concluding, Leaving
  <2>4. CASE SampleSignals(r)
        BY <2>4 DEF SampleSignals, At, Goto, NoRecordWritten, Arrays, Said, Concluding,
           Leaving
  <2>5. CASE RestoreSignals(r)
        BY <2>5 DEF RestoreSignals, At, Goto, NoRecordWritten, Arrays, Said, Concluding,
           Leaving
  <2>6. CASE ClearPoison(r)
        BY <2>6 DEF ClearPoison, At, Goto, ClearFails, NoRecordWritten, Arrays, Said,
           Concluding, Leaving
  <2>7. CASE SkipClear(r)
        BY <2>7 DEF SkipClear, At, Goto, NoRecordWritten, Arrays, Said, Concluding,
           Leaving
  <2>8. CASE Finish(r)
        BY <2>8 DEF Finish, At, Goto, NoRecordWritten, Arrays, Said, Concluding, Leaving
  <2> QED BY <1>5, <2>1, <2>2, <2>3, <2>4, <2>5, <2>6, <2>7, <2>8 DEF Concludes
<1>6. CASE Unwinds(r)
  <2>1. CASE Raise(r)
        BY <2>1 DEF Raise, Goto, At, NoRecordWritten, Arrays, Said, Concluding, Leaving
  <2>2. CASE UnwindQuarantine(r)
        BY <2>2 DEF UnwindQuarantine, At, Goto, NoRecordWritten, Arrays, Said,
           Concluding, Leaving
  <2>3. CASE GuardRecord(r)
        BY <2>3 DEF GuardRecord, At, Goto, Writes, RecordFails, NoRecordWritten, Arrays,
           Said, Concluding, Leaving
  <2>4. CASE ExitLease(r)
        BY <2>4 DEF ExitLease, At, Goto, NoRecordWritten, Arrays, Said, Concluding,
           Leaving
  <2>5. CASE ExitProcess(r)
        BY <2>5 DEF ExitProcess, At, Leaves, Goto, NoRecordWritten, Arrays, Said,
           Concluding, Leaving
  <2> QED BY <1>6, <2>1, <2>2, <2>3, <2>4, <2>5 DEF Unwinds
<1>7. CASE Lease(r)
      BY <1>7 DEF Lease, At, Goto, NoRecordWritten, Arrays, Said, Concluding, Leaving
<1>8. CASE ChildStep(r)
      BY <1>8 DEF ChildStep, IsAlive, runVars, Arrays, Said, Concluding, Leaving
<1>9. CASE Meets(r)
      BY <1>9 DEF Meets, Interrupt, Signal, Kill, LeavesKin, Remember, Goto, At,
         NoRecordWritten, Blocked, Noting, IsAlive, Leaves, runVars, Arrays, Said,
         Concluding, Leaving
<1> QED BY <1>1, <1>2, <1>3, <1>4, <1>5, <1>6, <1>7, <1>8, <1>9 DEF Acts, RunStep

(* A signal is pending where the run will look for it, and known once noted. *)
LEMMA HeededStep ==
    ASSUME NEW r \in Runs, Acts(r), Arrays, Named(r), Returns(r),
           Heeded(r), Weighed(r)
    PROVE  Heeded(r)'
<1>1. CASE Prepares(r)
  <2>1. CASE CreateRunDirectory(r)
        BY <2>1 DEF CreateRunDirectory, At, Goto, Keep, NoSignal, Arrays, Heeded,
           Blocking, Concluding
  <2>2. CASE Reject(r)
        BY <2>2 DEF Reject, At, Goto, NoSignal, Arrays, Heeded, Blocking, Concluding
  <2>3. CASE PassPreflight(r)
        BY <2>3 DEF PassPreflight, At, Goto, Keep, NoSignal, Arrays, Heeded, Blocking,
           Concluding
  <2>4. CASE StartMonitor(r)
        BY <2>4 DEF StartMonitor, At, Goto, Keep, NoSignal, Arrays, Heeded, Blocking,
           Concluding
  <2>5. CASE MonitorSetupFails(r)
        BY <2>5 DEF MonitorSetupFails, At, Goto, NoSignal, Arrays, Heeded, Blocking,
           Concluding
  <2>6. CASE QuarantineRejected(r)
        BY <2>6, QuarantineMem DEF QuarantineRejected, At, Heeded, Blocking, Concluding,
           Arrays, KeepsVerdict
  <2> QED BY <1>1, <2>1, <2>2, <2>3, <2>4, <2>5, <2>6 DEF Prepares
<1>2. CASE Starts(r)
  <2>1. CASE FailLaunchCheck(r)
        BY <2>1 DEF FailLaunchCheck, At, Childless, Unmasked, With, Raised, Goto,
           Arrays, Heeded, Blocking, Concluding
  <2>2. CASE ArmPoison(r)
    <3>1. CASE PayloadFails(r) /\ Childless(r, FALSE)
          BY <3>1, <2>2 DEF ArmPoison, Childless, Goto, At, Unmasked, Heeded, Blocking,
             Concluding, Arrays
    <3>2. CASE NoSignal /\ pc'[r] = "commit"
          BY <3>2 DEF NoSignal, Heeded, Blocking, Concluding, Arrays
    <3> QED BY <2>2, <3>1, <3>2 DEF ArmPoison, Goto, Arrays
  <2>3. CASE SkipPoison(r)
        BY <2>3 DEF SkipPoison, At, Goto, Keep, NoSignal, Arrays, Heeded, Blocking,
           Concluding
  <2>4. CASE FailCommit(r)
        BY <2>4 DEF FailCommit, At, Childless, Unmasked, With, Raised, Goto, Arrays,
           Heeded, Blocking, Concluding
  <2>5. CASE Launch(r)
        BY <2>5 DEF Launch, At, Goto, Keep, NoSignal, Arrays, Heeded, Blocking,
           Concluding
  <2>6. CASE Identify(r)
        BY <2>6 DEF Identify, At, Goto, NoSignal, Arrays, Heeded, Blocking, Concluding
  <2>7. CASE EnterSupervision(r)
        BY <2>7 DEF EnterSupervision, At, Goto, Keep, NoSignal, Arrays, Heeded,
           Blocking, Concluding
  <2>8. CASE FailAfterLaunch(r)
        BY <2>8 DEF FailAfterLaunch, Escape, Unmasked, With, Raised, Goto, Arrays,
           Heeded, Blocking, Concluding
  <2> QED BY <1>2, <2>1, <2>2, <2>3, <2>4, <2>5, <2>6, <2>7, <2>8 DEF Starts
<1>3. CASE Supervises(r)
  <2>1. CASE LeaderEnds(r)
        BY <2>1 DEF LeaderEnds, Goto, Keep, NoSignal, Arrays, Heeded, Blocking,
           Concluding
  <2>2. CASE TimeOut(r)
        BY <2>2 DEF TimeOut, At, Goto, NoSignal, Arrays, Heeded, Blocking, Concluding
  <2>3. CASE GiveUpLeader(r)
        BY <2>3 DEF GiveUpLeader, At, Goto, NoSignal, Arrays, Heeded, Blocking,
           Concluding
  <2>4. CASE ScanSession(r)
        BY <2>4 DEF ScanSession, Goto, At, NoSignal, Heeded, Blocking, Concluding,
           Arrays
  <2>5. CASE Rescan(r)
        BY <2>5 DEF Rescan, At, Keep, Goto, NoSignal, Arrays, Heeded, Blocking,
           Concluding
  <2>6. CASE FinalReap(r)
        BY <2>6 DEF FinalReap, At, Unmasked, Goto, Arrays, Heeded, Blocking, Concluding
  <2>7. CASE Cleanup(r)
    <3>1. \/ pc'[r] \in {"supervise", "await blindly"} /\ sig' = sig
          \/ pc'[r] = "health" /\ sig' = [sig EXCEPT ![r] = Unmasked(r)]
          BY <2>7 DEF Cleanup, Goto, NoSignal, Arrays
    <3> QED BY <2>7, <3>1 DEF Cleanup, At, Unmasked, Heeded, Blocking, Concluding, Arrays
  <2>8. CASE ReapBlindly(r)
        BY <2>8 DEF ReapBlindly, At, Unmasked, Goto, Keep, Arrays, Heeded, Blocking,
           Concluding
  <2> QED BY <1>3, <2>1, <2>2, <2>3, <2>4, <2>5, <2>6, <2>7, <2>8 DEF Supervises
<1>4. CASE Judges(r)
  <2>1. CASE CheckHealth(r)
        BY <2>1 DEF CheckHealth, At, Goto, NoSignal, Arrays, Heeded, Blocking,
           Concluding
  <2>2. CASE Drain(r)
        BY <2>2 DEF Drain, At, Goto, Keep, NoSignal, Arrays, Heeded, Blocking,
           Concluding
  <2>3. CASE Poll(r)
        BY <2>3 DEF Poll, At, Goto, Keep, NoSignal, Arrays, Heeded, Blocking, Concluding
  <2>4. CASE Close(r)
        BY <2>4 DEF Close, At, Goto, Keep, NoSignal, Arrays, Heeded, Blocking,
           Concluding
  <2>5. CASE Settle(r)
        BY <2>5 DEF Settle, At, NeedsQuarantine, With, Passes, Goto, NoSignal,
           MonitorPassed, Arrays, Heeded, Blocking, Concluding
  <2>6. CASE QuarantineSettled(r)
        BY <2>6, QuarantineMem DEF QuarantineSettled, At, Heeded, Blocking, Concluding,
           Arrays, KeepsVerdict
  <2>7. CASE BlockSignals(r)
        BY <2>7, TrustFields DEF BlockSignals, At, With, Goto, NoSignal, Arrays, Named,
           Heeded, Blocking, Concluding
  <2> QED BY <1>4, <2>1, <2>2, <2>3, <2>4, <2>5, <2>6, <2>7 DEF Judges
<1>5. CASE Concludes(r)
  <2>1. CASE WriteOutcome(r)
        BY <2>1, OutcomeMem DEF WriteOutcome, At, Goto, NoSignal, Heeded, Blocking,
           Concluding, Arrays, KeepsVerdict
  <2>2. CASE Downgrade(r)
        BY <2>2, DowngradeMem DEF Downgrade, At, Goto, NoSignal, Heeded, Blocking,
           Concluding, Arrays
  <2>3. CASE Rewrite(r)
        BY <2>3, TrustFields DEF Rewrite, At, With, Goto, NoSignal, Arrays, Named,
           Returns, Heeded, Blocking, Concluding
  <2>4. CASE SampleSignals(r)
        BY <2>4, SignalsMem DEF SampleSignals, At, Goto, With, Heeded, Blocking,
           Concluding, Arrays
  <2>5. CASE RestoreSignals(r)
        BY <2>5, SignalsMem DEF RestoreSignals, At, Goto, With, Heeded, Blocking,
           Concluding, Arrays
  <2>6. CASE ClearPoison(r)
        BY <2>6 DEF ClearPoison, At, IsClean, IsOwnPoison, Goto, ClearFails, NoSignal,
           With, Arrays, Heeded, Blocking, Concluding
  <2>7. CASE SkipClear(r)
        BY <2>7 DEF SkipClear, At, IsClean, Goto, Keep, NoSignal, Arrays, Heeded,
           Blocking, Concluding
  <2>8. CASE Finish(r)
        BY <2>8 DEF Finish, At, Goto, NoSignal, Arrays, Heeded, Blocking, Concluding
  <2> QED BY <1>5, <2>1, <2>2, <2>3, <2>4, <2>5, <2>6, <2>7, <2>8 DEF Concludes
<1>6. CASE Unwinds(r)
  <2>1. CASE Raise(r)
        BY <2>1 DEF Raise, Goto, At, Keep, NoSignal, Arrays, Heeded, Blocking,
           Concluding
  <2>2. CASE UnwindQuarantine(r)
        BY <2>2 DEF UnwindQuarantine, At, With, Goto, NoSignal, Arrays, Heeded,
           Blocking, Concluding
  <2>3. CASE GuardRecord(r)
        BY <2>3 DEF GuardRecord, At, Goto, Keep, NoSignal, Arrays, Heeded, Blocking,
           Concluding
  <2>4. CASE ExitLease(r)
        BY <2>4 DEF ExitLease, At, Goto, With, Arrays, Heeded, Blocking, Concluding
  <2>5. CASE ExitProcess(r)
        BY <2>5 DEF ExitProcess, At, Leaves, Goto, With, Arrays, Heeded, Blocking,
           Concluding
  <2> QED BY <1>6, <2>1, <2>2, <2>3, <2>4, <2>5 DEF Unwinds
<1>7. CASE Lease(r)
      BY <1>7 DEF Lease, At, Goto, Keep, NoSignal, Arrays, Heeded, Blocking, Concluding
<1>8. CASE ChildStep(r)
      BY <1>8 DEF ChildStep, IsAlive, runVars, Arrays, Heeded, Blocking, Concluding
<1>9. CASE Meets(r)
  <2>1. CASE Interrupt(r)
    <3>1. sig'[r] = "noted" /\ pc'[r] \notin Concluding
          BY <2>1 DEF Interrupt, Remember, Goto, Arrays, Concluding
    <3> QED BY <3>1 DEF Heeded
  <2>2. CASE Signal(r)
        BY <2>2 DEF Signal, Blocked, Noting, Keep, Arrays, Heeded, Blocking, Concluding
  <2>3. CASE Kill(r)
        BY <2>3 DEF Kill, IsAlive, Leaves, Goto, With, Arrays, Heeded, Blocking,
           Concluding
  <2>4. CASE LeavesKin(r)
        BY <2>4 DEF LeavesKin, runVars, Arrays, Heeded, Blocking, Concluding
  <2> QED BY <1>9, <2>1, <2>2, <2>3, <2>4 DEF Meets
<1> QED BY <1>1, <1>2, <1>3, <1>4, <1>5, <1>6, <1>7, <1>8, <1>9 DEF Acts, RunStep

(* What a run passes with is never held against it. *)
LEMMA WeighedStep ==
    ASSUME NEW r \in Runs, Acts(r), Arrays, Named(r), Returns(r),
           Weighed(r), Heeded(r)
    PROVE  Weighed(r)'
<1>1. CASE Prepares(r)
  <2>1. CASE CreateRunDirectory(r)
        BY <2>1 DEF CreateRunDirectory, At, Goto, Keep, Arrays, Weighed, Weighing
  <2>2. CASE Reject(r)
        BY <2>2 DEF Reject, At, Goto, Arrays, Weighed, Weighing
  <2>3. CASE PassPreflight(r)
        BY <2>3 DEF PassPreflight, At, Goto, Keep, Arrays, Weighed, Weighing
  <2>4. CASE StartMonitor(r)
        BY <2>4 DEF StartMonitor, At, Goto, Keep, Arrays, Weighed, Weighing
  <2>5. CASE MonitorSetupFails(r)
        BY <2>5 DEF MonitorSetupFails, At, Goto, Arrays, Weighed, Weighing
  <2>6. CASE QuarantineRejected(r)
        BY <2>6, QuarantineMem DEF QuarantineRejected, At, Weighed, Weighing, Arrays,
           KeepsVerdict
  <2> QED BY <1>1, <2>1, <2>2, <2>3, <2>4, <2>5, <2>6 DEF Prepares
<1>2. CASE Starts(r)
  <2>1. CASE FailLaunchCheck(r)
        BY <2>1 DEF FailLaunchCheck, At, Childless, With, Raised, Goto, Arrays, Weighed,
           Weighing
  <2>2. CASE ArmPoison(r)
        BY <2>2, EarlyMem DEF ArmPoison, Childless, At, Goto, Weighed, Weighing, Arrays
  <2>3. CASE SkipPoison(r)
        BY <2>3 DEF SkipPoison, At, Goto, Keep, Arrays, Weighed, Weighing
  <2>4. CASE FailCommit(r)
        BY <2>4 DEF FailCommit, At, Childless, With, Raised, Goto, Arrays, Weighed,
           Weighing
  <2>5. CASE Launch(r)
        BY <2>5 DEF Launch, At, Goto, Keep, Arrays, Weighed, Weighing
  <2>6. CASE Identify(r)
        BY <2>6 DEF Identify, At, Goto, Arrays, Weighed, Weighing
  <2>7. CASE EnterSupervision(r)
        BY <2>7 DEF EnterSupervision, At, Goto, Keep, Arrays, Weighed, Weighing
  <2>8. CASE FailAfterLaunch(r)
        BY <2>8, TrustFields DEF FailAfterLaunch, Escape, With, Raised, Goto, Arrays,
           Named, Weighed, Weighing
  <2> QED BY <1>2, <2>1, <2>2, <2>3, <2>4, <2>5, <2>6, <2>7, <2>8 DEF Starts
<1>3. CASE Supervises(r)
  <2>1. CASE LeaderEnds(r)
        BY <2>1 DEF LeaderEnds, Goto, Keep, Arrays, Weighed, Weighing
  <2>2. CASE TimeOut(r)
        BY <2>2, TrustFields DEF TimeOut, At, Goto, Arrays, Named, Weighed, Weighing
  <2>3. CASE GiveUpLeader(r)
        BY <2>3 DEF GiveUpLeader, At, Goto, Arrays, Weighed, Weighing
  <2>4. CASE ScanSession(r)
        BY <2>4, EarlyMem DEF ScanSession, At, Goto, Weighed, Weighing, Arrays
  <2>5. CASE Rescan(r)
        BY <2>5, TrustFields DEF Rescan, At, Keep, Goto, Arrays, Named, Weighed,
           Weighing
  <2>6. CASE FinalReap(r)
        BY <2>6, TrustFields DEF FinalReap, At, Goto, Arrays, Named, Weighed, Weighing
  <2>7. CASE Cleanup(r)
        BY <2>7, EarlyMem DEF Cleanup, At, Goto, Weighed, Weighing, Arrays
  <2>8. CASE ReapBlindly(r)
        BY <2>8 DEF ReapBlindly, At, Goto, Keep, Arrays, Weighed, Weighing
  <2> QED BY <1>3, <2>1, <2>2, <2>3, <2>4, <2>5, <2>6, <2>7, <2>8 DEF Supervises
<1>4. CASE Judges(r)
  <2>1. CASE CheckHealth(r)
        BY <2>1 DEF CheckHealth, At, Goto, Arrays, Weighed, Weighing
  <2>2. CASE Drain(r)
        BY <2>2 DEF Drain, At, Goto, Keep, Arrays, Weighed, Weighing
  <2>3. CASE Poll(r)
        BY <2>3 DEF Poll, At, Goto, Keep, Arrays, Weighed, Weighing
  <2>4. CASE Close(r)
        BY <2>4 DEF Close, At, Goto, Keep, Arrays, Weighed, Weighing
  <2>5. CASE Settle(r)
        BY <2>5, SettleMem DEF Settle, At, Goto, Weighed, Weighing, Arrays
  <2>6. CASE QuarantineSettled(r)
        BY <2>6, QuarantineMem DEF QuarantineSettled, At, Weighed, Weighing, Arrays,
           KeepsVerdict
  <2>7. CASE BlockSignals(r)
        BY <2>7, TrustFields DEF BlockSignals, At, With, Goto, Arrays, Named, Weighed,
           Weighing
  <2> QED BY <1>4, <2>1, <2>2, <2>3, <2>4, <2>5, <2>6, <2>7 DEF Judges
<1>5. CASE Concludes(r)
  <2>1. CASE WriteOutcome(r)
        BY <2>1, OutcomeMem DEF WriteOutcome, At, Goto, Weighed, Weighing, Arrays,
           KeepsVerdict
  <2>2. CASE Downgrade(r)
        BY <2>2, DowngradeMem DEF Downgrade, At, Goto, Weighed, Weighing, Arrays
  <2>3. CASE Rewrite(r)
        BY <2>3, RewriteMem DEF Rewrite, At, Goto, Returns, Weighed, Weighing, Arrays,
           KeepsVerdict
  <2>4. CASE SampleSignals(r)
        BY <2>4, SignalsMem DEF SampleSignals, At, Goto, With, Weighed, Weighing, Arrays
  <2>5. CASE RestoreSignals(r)
        BY <2>5, SignalsMem DEF RestoreSignals, At, Goto, With, Weighed, Weighing,
           Arrays
  <2>6. CASE ClearPoison(r)
        BY <2>6, ClearMem DEF ClearPoison, At, Weighed, Weighing, Arrays, KeepsVerdict
  <2>7. CASE SkipClear(r)
        BY <2>7 DEF SkipClear, At, IsClean, Goto, Keep, Arrays, Weighed, Weighing
  <2>8. CASE Finish(r)
        BY <2>8 DEF Finish, At, Goto, Arrays, Weighed, Weighing
  <2> QED BY <1>5, <2>1, <2>2, <2>3, <2>4, <2>5, <2>6, <2>7, <2>8 DEF Concludes
<1>6. CASE Unwinds(r)
  <2>1. CASE Raise(r)
        BY <2>1 DEF Raise, Goto, At, Keep, Arrays, Weighed, Weighing
  <2>2. CASE UnwindQuarantine(r)
        BY <2>2, UnwindMem DEF UnwindQuarantine, At, Weighed, Weighing, Arrays
  <2>3. CASE GuardRecord(r)
        BY <2>3 DEF GuardRecord, At, Goto, Keep, Arrays, Weighed, Weighing
  <2>4. CASE ExitLease(r)
        BY <2>4, TrustFields DEF ExitLease, At, Goto, With, Arrays, Named, Weighed,
           Weighing
  <2>5. CASE ExitProcess(r)
        BY <2>5, TrustFields DEF ExitProcess, At, Leaves, Goto, With, Arrays, Named,
           Weighed, Weighing
  <2> QED BY <1>6, <2>1, <2>2, <2>3, <2>4, <2>5 DEF Unwinds
<1>7. CASE Lease(r)
      BY <1>7 DEF Lease, At, Goto, Keep, Arrays, Weighed, Weighing
<1>8. CASE ChildStep(r)
      BY <1>8 DEF ChildStep, IsAlive, runVars, Arrays, Weighed, Weighing
<1>9. CASE Meets(r)
  <2>1. CASE Interrupt(r)
        BY <2>1, EarlyMem DEF Interrupt, Remember, At, Goto, Weighed, Weighing, Arrays
  <2>2. CASE Signal(r)
        BY <2>2 DEF Signal, Blocked, Noting, Keep, Arrays, Weighed, Weighing
  <2>3. CASE Kill(r)
        BY <2>3, TrustFields DEF Kill, IsAlive, Leaves, Goto, With, Arrays, Named,
           Weighed, Weighing
  <2>4. CASE LeavesKin(r)
        BY <2>4 DEF LeavesKin, runVars, Arrays, Weighed, Weighing
  <2> QED BY <1>9, <2>1, <2>2, <2>3, <2>4 DEF Meets
<1> QED BY <1>1, <1>2, <1>3, <1>4, <1>5, <1>6, <1>7, <1>8, <1>9 DEF Acts, RunStep

(* What a run believes of its pass is what it has recorded. *)
LEMMA BelievedStep ==
    ASSUME NEW r \in Runs, Acts(r), Arrays, Named(r), Returns(r), FaultType,
           Said(r), Weighed(r), Believed(r)
    PROVE  Believed(r)'
<1>1. CASE Prepares(r)
  <2>1. CASE CreateRunDirectory(r)
        BY <2>1 DEF CreateRunDirectory, At, Goto, Quietly, Keep, NoRecordWritten,
           leaseVars, Arrays, Believed, Weighing
  <2>2. CASE Reject(r)
        BY <2>2 DEF Reject, At, Writes, Goto, Quietly, leaseVars, Arrays, Believed,
           Weighing
  <2>3. CASE PassPreflight(r)
        BY <2>3 DEF PassPreflight, At, Goto, Quietly, Keep, NoRecordWritten, leaseVars,
           Arrays, Believed, Weighing
  <2>4. CASE StartMonitor(r)
        BY <2>4 DEF StartMonitor, At, Goto, Monitor, Keep, NoRecordWritten, leaseVars,
           Arrays, Believed, Weighing
  <2>5. CASE MonitorSetupFails(r)
        BY <2>5 DEF MonitorSetupFails, At, Writes, Goto, Monitor, leaseVars, Arrays,
           Believed, Weighing
  <2>6. CASE QuarantineRejected(r)
        BY <2>6, QuarantineMem DEF Believed, Weighing, Arrays, KeepsVerdict
  <2> QED BY <1>1, <2>1, <2>2, <2>3, <2>4, <2>5, <2>6 DEF Prepares
<1>2. CASE Starts(r)
      BY <1>2 DEF Starts, FailLaunchCheck, ArmPoison, SkipPoison, FailCommit, Launch,
         Identify, EnterSupervision, FailAfterLaunch, At, Childless, Quietly,
         WritePayload, Goto, NoRecordWritten, PayloadFails, Keep, leaseVars, Escape,
         With, Raised, StorageFault, Arrays, Believed, Weighing
<1>3. CASE Supervises(r)
  <2>1. CASE LeaderEnds(r)
        BY <2>1 DEF LeaderEnds, Goto, Quietly, Keep, NoRecordWritten, leaseVars, Arrays,
           Believed, Weighing
  <2>2. CASE TimeOut(r)
        BY <2>2 DEF TimeOut, At, Goto, Child, NoRecordWritten, leaseVars, Arrays,
           Believed, Weighing
  <2>3. CASE GiveUpLeader(r)
        BY <2>3 DEF GiveUpLeader, At, Goto, Quietly, NoRecordWritten, leaseVars, Arrays,
           Believed, Weighing
  <2>4. CASE ScanSession(r)
        BY <2>4 DEF ScanSession, At, Goto, Keep, Child, NoRecordWritten, leaseVars,
           Arrays, Believed, Weighing
  <2>5. CASE Rescan(r)
        BY <2>5 DEF Rescan, At, Keep, Goto, Quietly, NoRecordWritten, leaseVars, Arrays,
           Believed, Weighing
  <2>6. CASE FinalReap(r)
        BY <2>6 DEF FinalReap, At, Goto, Child, NoRecordWritten, leaseVars, Arrays,
           Believed, Weighing
  <2>7. CASE Cleanup(r)
        BY <2>7 DEF Cleanup, At, Goto, Child, NoRecordWritten, leaseVars, Arrays,
           Believed, Weighing
  <2>8. CASE ReapBlindly(r)
        BY <2>8 DEF ReapBlindly, At, Goto, Child, Keep, NoRecordWritten, leaseVars,
           Arrays, Believed, Weighing
  <2> QED BY <1>3, <2>1, <2>2, <2>3, <2>4, <2>5, <2>6, <2>7, <2>8 DEF Supervises
<1>4. CASE Judges(r)
  <2>1. CASE CheckHealth(r)
        BY <2>1 DEF CheckHealth, At, Goto, Quietly, NoRecordWritten, leaseVars, Arrays,
           Believed, Weighing
  <2>2. CASE Drain(r)
        BY <2>2 DEF Drain, At, Goto, Monitor, Keep, NoRecordWritten, leaseVars, Arrays,
           Believed, Weighing
  <2>3. CASE Poll(r)
        BY <2>3 DEF Poll, At, Goto, Monitor, Keep, NoRecordWritten, leaseVars, Arrays,
           Believed, Weighing
  <2>4. CASE Close(r)
        BY <2>4 DEF Close, At, Goto, Monitor, Keep, NoRecordWritten, leaseVars, Arrays,
           Believed, Weighing
  <2>5. CASE Settle(r)
        BY <2>5 DEF Settle, At, NeedsQuarantine, With, Passes, Goto, Quietly,
           NoRecordWritten, MonitorPassed, leaseVars, Arrays, Believed, Weighing
  <2>6. CASE QuarantineSettled(r)
        BY <2>6, QuarantineMem DEF Believed, Weighing, Arrays, KeepsVerdict
  <2>7. CASE BlockSignals(r)
        BY <2>7 DEF BlockSignals, At, With, Goto, Quietly, NoRecordWritten, leaseVars,
           Arrays, Believed, Weighing
  <2> QED BY <1>4, <2>1, <2>2, <2>3, <2>4, <2>5, <2>6, <2>7 DEF Judges
<1>5. CASE Concludes(r)
  <2>1. CASE WriteOutcome(r)
        BY <2>1, OutcomeMem DEF WriteOutcome, Writes, At, Goto, Believed, Weighing,
           Arrays, KeepsVerdict
  <2>2. CASE Downgrade(r)
        BY <2>2 DEF Downgrade, At, WriteMarker, With, WriteFallback, FallbackFails,
           Goto, NoRecordWritten, StorageFault, Arrays, Believed, Weighing
  <2>3. CASE Rewrite(r)
        BY <2>3, RewriteMem, RewriteEffect DEF Rewrite, At, Goto, Weighed, Believed,
           Weighing, Arrays, KeepsVerdict
  <2>4. CASE SampleSignals(r)
        BY <2>4, SignalsMem DEF SampleSignals, At, Goto, LeaseFilesKept, Quietly,
           leaseVars, NoRecordWritten, Believed, Weighing, Arrays
  <2>5. CASE RestoreSignals(r)
        BY <2>5, SignalsMem DEF RestoreSignals, At, Goto, Quietly, leaseVars,
           NoRecordWritten, Believed, Weighing, Arrays
  <2>6. CASE ClearPoison(r)
        BY <2>6, ClearMem DEF Believed, Weighing, Arrays, KeepsVerdict
  <2>7. CASE SkipClear(r)
        BY <2>7 DEF SkipClear, At, IsClean, Goto, Quietly, Keep, NoRecordWritten,
           leaseVars, Arrays, Believed, Weighing
  <2>8. CASE Finish(r)
        BY <2>8 DEF Finish, At, Goto, Quietly, NoRecordWritten, leaseVars, Arrays,
           Believed, Weighing
  <2> QED BY <1>5, <2>1, <2>2, <2>3, <2>4, <2>5, <2>6, <2>7, <2>8 DEF Concludes
<1>6. CASE Unwinds(r)
  <2>1. CASE Raise(r)
        BY <2>1 DEF Raise, Goto, At, Quietly, Keep, NoRecordWritten, leaseVars, Arrays,
           Believed, Weighing
  <2>2. CASE UnwindQuarantine(r)
        BY <2>2 DEF UnwindQuarantine, At, With, Goto, LeaseFilesKept, WriteMarker,
           WriteFallback, FallbackFails, NoRecordWritten, StorageFault, Arrays,
           Believed, Weighing
  <2>3. CASE GuardRecord(r)
        BY <2>3 DEF GuardRecord, At, Goto, Writes, LeaseFilesKept, RecordFails, Keep,
           WriteFails, NoRecordWritten, StorageFault, Arrays, Believed, Weighing
  <2>4. CASE ExitLease(r)
        BY <2>4 DEF ExitLease, At, Goto, LeaseFilesKept, WriteMarker, WriteFallback,
           FallbackFails, With, NoRecordWritten, StorageFault, Arrays, Believed,
           Weighing
  <2>5. CASE ExitProcess(r)
        BY <2>5 DEF ExitProcess, At, Leaves, Goto, With, LeaseFilesKept,
           NoRecordWritten, Arrays, Believed, Weighing
  <2> QED BY <1>6, <2>1, <2>2, <2>3, <2>4, <2>5 DEF Unwinds
<1>7. CASE Lease(r)
      BY <1>7 DEF Lease, At, Acquire, Goto, Keep, NoRecordWritten, Arrays, Believed,
         Weighing
<1>8. CASE ChildStep(r)
      BY <1>8 DEF ChildStep, IsAlive, leaseVars, runVars, Arrays, Believed, Weighing
<1>9. CASE Meets(r)
  <2>1. CASE Interrupt(r)
        BY <2>1 DEF Interrupt, Remember, With, Goto, At, Child, NoRecordWritten,
           leaseVars, Arrays, Believed, Weighing
  <2>2. CASE Signal(r)
        BY <2>2 DEF Signal, Blocked, Noting, Quietly, Keep, NoRecordWritten, leaseVars,
           Arrays, Believed, Weighing
  <2>3. CASE Kill(r)
        BY <2>3 DEF Kill, IsAlive, Leaves, Goto, With, LeaseFilesKept, NoRecordWritten,
           Arrays, Believed, Weighing
  <2>4. CASE LeavesKin(r)
        BY <2>4 DEF LeavesKin, leaseVars, runVars, Arrays, Believed, Weighing
  <2> QED BY <1>9, <2>1, <2>2, <2>3, <2>4 DEF Meets
<1> QED BY <1>1, <1>2, <1>3, <1>4, <1>5, <1>6, <1>7, <1>8, <1>9 DEF Acts, RunStep

(* A run that leaves with a pass was not signalled and has cleared the poison. *)
LEMMA VouchedStep ==
    ASSUME NEW r \in Runs, Acts(r), Arrays, Named(r), Returns(r),
           FaultType, SigType, LeaseTypes, Said(r), Heeded(r), Weighed(r), Believed(r),
           Vouched(r), faults = 0, record'[r].passed, faults' = 0,
           pc'[r] \in Leaving
    PROVE  /\ sig'[r] = "none"
           /\ r \in Masked /\ Done(r)' => ~exposed'
<1>1. CASE Prepares(r)
  <2>1. CASE CreateRunDirectory(r)
        BY <2>1 DEF CreateRunDirectory, At, Goto, Quietly, Keep, NoSignal,
           NoRecordWritten, historyVars, Arrays, Said, Concluding, Vouched, Leaving,
           Done
  <2>2. CASE Reject(r)
        BY <2>2 DEF Reject, At, Writes, Goto, Quietly, NoSignal, historyVars, Arrays,
           Said, Concluding, Vouched, Leaving, Done
  <2>3. CASE PassPreflight(r)
        BY <2>3 DEF PassPreflight, At, Goto, Quietly, Keep, NoSignal, NoRecordWritten,
           historyVars, Arrays, Said, Concluding, Vouched, Leaving, Done
  <2>4. CASE StartMonitor(r)
        BY <2>4 DEF StartMonitor, At, Goto, Monitor, Keep, NoSignal, NoRecordWritten,
           historyVars, Arrays, Said, Concluding, Vouched, Leaving, Done
  <2>5. CASE MonitorSetupFails(r)
        BY <2>5 DEF MonitorSetupFails, At, Writes, Goto, Monitor, NoSignal, historyVars,
           Arrays, Said, Concluding, Vouched, Leaving, Done
  <2>6. CASE QuarantineRejected(r)
        BY <2>6, QuarantineMem DEF QuarantineRejected, At, Vouched, Leaving, Done,
           Arrays, Said, Concluding, KeepsVerdict
  <2> QED BY <1>1, <2>1, <2>2, <2>3, <2>4, <2>5, <2>6 DEF Prepares
<1>2. CASE Starts(r)
  <2>1. CASE FailLaunchCheck(r)
        BY <2>1 DEF FailLaunchCheck, At, Childless, Quietly, Unmasked, With, Raised,
           Goto, NoRecordWritten, historyVars, Arrays, Said, Concluding, Vouched,
           Leaving, Done
  <2>2. CASE ArmPoison(r)
        BY <2>2 DEF ArmPoison, At, Goto, NoSignal, NoRecordWritten, Childless, Files,
           Unmasked, With, Raised, historyVars, Arrays, Said, Concluding, Vouched,
           Leaving, Done
  <2>3. CASE SkipPoison(r)
        BY <2>3 DEF SkipPoison, At, Goto, Quietly, Keep, NoSignal, NoRecordWritten,
           historyVars, Arrays, Said, Concluding, Vouched, Leaving, Done
  <2>4. CASE FailCommit(r)
        BY <2>4 DEF FailCommit, At, Childless, Quietly, Unmasked, With, Raised, Goto,
           NoRecordWritten, historyVars, Arrays, Said, Concluding, Vouched, Leaving,
           Done
  <2>5. CASE Launch(r)
        BY <2>5 DEF Launch, At, Goto, Keep, NoSignal, NoRecordWritten, Arrays, Said,
           Concluding, Vouched, Leaving, Done
  <2>6. CASE Identify(r)
        BY <2>6 DEF Identify, At, Goto, Quietly, NoSignal, NoRecordWritten, historyVars,
           Arrays, Said, Concluding, Vouched, Leaving, Done
  <2>7. CASE EnterSupervision(r)
        BY <2>7 DEF EnterSupervision, At, Goto, Quietly, Keep, NoSignal,
           NoRecordWritten, historyVars, Arrays, Said, Concluding, Vouched, Leaving,
           Done
  <2>8. CASE FailAfterLaunch(r)
        BY <2>8 DEF FailAfterLaunch, Escape, Quietly, Unmasked, With, Raised, Goto,
           NoRecordWritten, historyVars, Arrays, Said, Concluding, Vouched, Leaving,
           Done
  <2> QED BY <1>2, <2>1, <2>2, <2>3, <2>4, <2>5, <2>6, <2>7, <2>8 DEF Starts
<1>3. CASE Supervises(r)
  <2>1. CASE LeaderEnds(r)
        BY <2>1 DEF LeaderEnds, Goto, Quietly, Keep, NoSignal, NoRecordWritten,
           historyVars, Arrays, Said, Concluding, Vouched, Leaving, Done
  <2>2. CASE TimeOut(r)
        BY <2>2 DEF TimeOut, At, Goto, Child, NoSignal, NoRecordWritten, historyVars,
           Arrays, Said, Concluding, Vouched, Leaving, Done
  <2>3. CASE GiveUpLeader(r)
        BY <2>3 DEF GiveUpLeader, At, Goto, Quietly, NoSignal, NoRecordWritten,
           historyVars, Arrays, Said, Concluding, Vouched, Leaving, Done
  <2>4. CASE ScanSession(r)
        BY <2>4 DEF ScanSession, At, Goto, Keep, Child, NoSignal, NoRecordWritten,
           historyVars, Arrays, Said, Concluding, Vouched, Leaving, Done
  <2>5. CASE Rescan(r)
        BY <2>5 DEF Rescan, At, Keep, Goto, Quietly, NoSignal, NoRecordWritten,
           historyVars, Arrays, Said, Concluding, Vouched, Leaving, Done
  <2>6. CASE FinalReap(r)
        BY <2>6 DEF FinalReap, At, Unmasked, Goto, Child, NoRecordWritten, historyVars,
           Arrays, Said, Concluding, Vouched, Leaving, Done
  <2>7. CASE Cleanup(r)
        BY <2>7 DEF Cleanup, At, Goto, NoSignal, Unmasked, Child, NoRecordWritten,
           historyVars, Arrays, Said, Concluding, Vouched, Leaving, Done
  <2>8. CASE ReapBlindly(r)
        BY <2>8 DEF ReapBlindly, At, Unmasked, Goto, Child, Keep, NoRecordWritten,
           historyVars, Arrays, Said, Concluding, Vouched, Leaving, Done
  <2> QED BY <1>3, <2>1, <2>2, <2>3, <2>4, <2>5, <2>6, <2>7, <2>8 DEF Supervises
<1>4. CASE Judges(r)
  <2>1. CASE CheckHealth(r)
        BY <2>1 DEF CheckHealth, At, Goto, Quietly, NoSignal, NoRecordWritten,
           historyVars, Arrays, Said, Concluding, Vouched, Leaving, Done
  <2>2. CASE Drain(r)
        BY <2>2 DEF Drain, At, Goto, Monitor, Keep, NoSignal, NoRecordWritten,
           historyVars, Arrays, Said, Concluding, Vouched, Leaving, Done
  <2>3. CASE Poll(r)
        BY <2>3 DEF Poll, At, Goto, Monitor, Keep, NoSignal, NoRecordWritten,
           historyVars, Arrays, Said, Concluding, Vouched, Leaving, Done
  <2>4. CASE Close(r)
        BY <2>4 DEF Close, At, Goto, Monitor, Keep, NoSignal, NoRecordWritten,
           historyVars, Arrays, Said, Concluding, Vouched, Leaving, Done
  <2>5. CASE Settle(r)
        BY <2>5 DEF Settle, At, NeedsQuarantine, With, Passes, Goto, Quietly, NoSignal,
           NoRecordWritten, MonitorPassed, historyVars, Arrays, Said, Concluding,
           Vouched, Leaving, Done
  <2>6. CASE QuarantineSettled(r)
        BY <2>6, QuarantineMem DEF QuarantineSettled, At, Vouched, Leaving, Done,
           Arrays, Said, Concluding, KeepsVerdict
  <2>7. CASE BlockSignals(r)
        BY <2>7 DEF BlockSignals, At, With, Goto, Quietly, NoSignal, NoRecordWritten,
           historyVars, Arrays, Said, Concluding, Vouched, Leaving, Done
  <2> QED BY <1>4, <2>1, <2>2, <2>3, <2>4, <2>5, <2>6, <2>7 DEF Judges
<1>5. CASE Concludes(r)
  <2>1. CASE WriteOutcome(r)
        BY <2>1 DEF WriteOutcome, Goto, Vouched, Leaving, Done, Arrays
  <2>2. CASE Downgrade(r)
        BY <2>2 DEF Downgrade, Goto, Vouched, Leaving, Done, Arrays
  <2>3. CASE Rewrite(r)
        BY <2>3, RewriteEffect DEF Vouched, Leaving, Done, Arrays
  <2>4. CASE SampleSignals(r)
        BY <2>4 DEF SampleSignals, Goto, Vouched, Leaving, Done, Arrays
  <2>5. CASE RestoreSignals(r)
        BY <2>5 DEF RestoreSignals, Goto, Vouched, Leaving, Done, Arrays
  <2>6. CASE ClearPoison(r)
        BY <2>6, TrustFields DEF ClearPoison, ClearFails, At, Goto, NoSignal,
           NoRecordWritten, IsClean, Heeded, Blocking, SigType, Concluding, Vouched,
           Leaving, Done, Arrays
  <2>7. CASE SkipClear(r)
        BY <2>7, TrustFields DEF SkipClear, At, Goto, Quietly, historyVars, NoSignal,
           NoRecordWritten, Keep, IsClean, Heeded, Blocking, SigType, Concluding,
           Weighed, Believed, Weighing, Vouched, Leaving, Done, Arrays
  <2>8. CASE Finish(r)
        BY <2>8, TrustFields DEF Finish, At, Goto, Quietly, historyVars, NoSignal,
           NoRecordWritten, Vouched, Leaving, Done, Arrays
  <2> QED BY <1>5, <2>1, <2>2, <2>3, <2>4, <2>5, <2>6, <2>7, <2>8 DEF Concludes
<1>6. CASE Unwinds(r)
  <2>1. CASE Raise(r)
        BY <2>1, TrustFields DEF Raise, At, Goto, Quietly, historyVars, NoSignal,
           NoRecordWritten, Keep, Heeded, Blocking, SigType, Concluding, Weighed,
           Believed, Weighing, Said, Vouched, Leaving, Done, Arrays
  <2>2. CASE UnwindQuarantine(r)
        BY <2>2, UnwindMem DEF UnwindQuarantine, At, historyVars, NoSignal,
           NoRecordWritten, Vouched, Leaving, Done, Arrays
  <2>3. CASE GuardRecord(r)
        BY <2>3, GuardEffect DEF Vouched, Leaving, Done, Arrays
  <2>4. CASE ExitLease(r)
        BY <2>4 DEF ExitLease, At, Goto, With, NoRecordWritten, historyVars, Arrays,
           Said, Concluding, Vouched, Leaving, Done
  <2>5. CASE ExitProcess(r)
        BY <2>5 DEF ExitProcess, At, Leaves, Goto, With, NoRecordWritten, historyVars,
           Arrays, Said, Concluding, Vouched, Leaving, Done
  <2> QED BY <1>6, <2>1, <2>2, <2>3, <2>4, <2>5 DEF Unwinds
<1>7. CASE Lease(r)
      BY <1>7 DEF Lease, At, Goto, Keep, NoSignal, NoRecordWritten, Arrays, Said,
         Concluding, Vouched, Leaving, Done
<1>8. CASE ChildStep(r)
      BY <1>8 DEF ChildStep, IsAlive, runVars, historyVars, Arrays, Said, Concluding,
         Vouched, Leaving, Done
<1>9. CASE Meets(r)
  <2>1. CASE Interrupt(r)
        BY <2>1 DEF Interrupt, Remember, With, Goto, At, Child, NoRecordWritten,
           historyVars, Arrays, Said, Concluding, Vouched, Leaving, Done
  <2>2. CASE Signal(r)
        BY <2>2 DEF Signal, Blocked, Noting, Quietly, Keep, NoRecordWritten,
           historyVars, Arrays, Said, Concluding, Vouched, Leaving, Done
  <2>3. CASE Kill(r)
        BY <2>3 DEF Kill, IsAlive, Leaves, Goto, With, NoRecordWritten, historyVars,
           Arrays, Said, Concluding, Vouched, Leaving, Done
  <2>4. CASE LeavesKin(r)
        BY <2>4 DEF LeavesKin, runVars, historyVars, Arrays, Said, Concluding, Vouched,
           Leaving, Done
  <2> QED BY <1>9, <2>1, <2>2, <2>3, <2>4 DEF Meets
<1> QED BY <1>1, <1>2, <1>3, <1>4, <1>5, <1>6, <1>7, <1>8, <1>9 DEF Acts, RunStep

(* Only a run that clears its poison empties the lock file. *)
LEMMA PayloadStep ==
    ASSUME NEW r \in Runs, Acts(r), payload # Empty, ~ClearPoison(r)
    PROVE  payload' # Empty
<1>1. CASE Prepares(r)
      BY <1>1, LeaseAssumption DEF Prepares, CreateRunDirectory, Reject, PassPreflight,
         StartMonitor, MonitorSetupFails, QuarantineRejected, Quietly, Monitor,
         Quarantine, leaseVars, WriteMarker, WriteFallback, FallbackFails
<1>2. CASE Starts(r)
      BY <1>2, LeaseAssumption DEF Starts, FailLaunchCheck, ArmPoison, SkipPoison,
         FailCommit, Launch, Identify, EnterSupervision, FailAfterLaunch, Quietly,
         WritePayload, PayloadFails, leaseVars
<1>3. CASE Supervises(r)
      BY <1>3 DEF Supervises, LeaderEnds, TimeOut, GiveUpLeader, ScanSession, Rescan,
         FinalReap, Cleanup, ReapBlindly, Quietly, Child, leaseVars
<1>4. CASE Judges(r)
      BY <1>4, LeaseAssumption DEF Judges, CheckHealth, Drain, Poll, Close, Settle,
         QuarantineSettled, BlockSignals, Quietly, Monitor, Quarantine, leaseVars,
         WriteMarker, WriteFallback, FallbackFails
<1>5. CASE Concludes(r)
      BY <1>5, LeaseAssumption DEF Concludes, WriteOutcome, Downgrade, Rewrite,
         SampleSignals, RestoreSignals, ClearPoison, SkipClear, Finish, LeaseFilesKept,
         RecordFails, WriteMarker, WriteFallback, FallbackFails, Quietly, IsOwnPoison,
         WritePayload, PayloadFails, WriteFails, leaseVars
<1>6. CASE Unwinds(r)
      BY <1>6, LeaseAssumption DEF Unwinds, Raise, UnwindQuarantine, GuardRecord,
         ExitLease, ExitProcess, Quietly, LeaseFilesKept, WriteMarker, WriteFallback,
         FallbackFails, RecordFails, Leaves, leaseVars, WriteFails
<1>7. CASE Lease(r)
      BY <1>7 DEF Lease, Acquire, Refused
<1>8. CASE ChildStep(r)
      BY <1>8 DEF ChildStep, leaseVars
<1>9. CASE Meets(r)
      BY <1>9 DEF Meets, Interrupt, Signal, Kill, LeavesKin, Child, Quietly, Leaves,
         leaseVars, LeaseFilesKept
<1> QED BY <1>1, <1>2, <1>3, <1>4, <1>5, <1>6, <1>7, <1>8, <1>9 DEF Acts, RunStep

(* A run keeps itself trusted. *)
LEMMA TrustedStep ==
    ASSUME NEW r \in Runs, Acts(r), Types, Sound(r), Trusted(r)
    PROVE  Trusted(r)'
<1> USE DEF Types, Sound, Locals, Trusted
<1>1. Said(r)' /\ Heeded(r)' /\ Weighed(r)' /\ Believed(r)'
      BY SaidStep, HeededStep, WeighedStep, BelievedStep
<1>2. faults' = 0 => faults = 0
      BY FaultsGrow, LeaseAssumption DEF FaultType
<1>3. ASSUME record'[r].passed, faults' = 0, pc'[r] \in Leaving
      PROVE  /\ sig'[r] = "none"
             /\ r \in Masked /\ Done(r)' => ~exposed'
      BY <1>2, <1>3, VouchedStep
<1>4. Vouched(r)'
  <2>1. SUFFICES ASSUME record'[r].passed, faults' = 0
                 PROVE  /\ pc'[r] \in Leaving => sig'[r] = "none"
                        /\ r \in Masked /\ Done(r)' => ~exposed'
        BY DEF Vouched
  <2>2. Done(r)' => pc'[r] \in Leaving
        BY DEF Done, Leaving
  <2> QED BY <1>3, <2>1, <2>2
<1> QED BY <1>1, <1>4

(* The signal of a run is its own, *)
LEMMA SignalElsewhere ==
    ASSUME NEW r \in Runs, Acts(r), NEW s \in Runs, s # r, Arrays
    PROVE  sig'[s] = sig[s]
<1>1. CASE Prepares(r)
      BY <1>1 DEF Prepares, CreateRunDirectory, Reject, PassPreflight, StartMonitor,
         MonitorSetupFails, QuarantineRejected, NoSignal, Quarantine, Arrays
<1>2. CASE Starts(r)
      BY <1>2 DEF Starts, FailLaunchCheck, ArmPoison, SkipPoison, FailCommit, Launch,
         Identify, EnterSupervision, FailAfterLaunch, Childless, NoSignal, Escape,
         Unmasked, Raised, Arrays
<1>3. CASE Supervises(r)
      BY <1>3 DEF Supervises, LeaderEnds, TimeOut, GiveUpLeader, ScanSession, Rescan,
         FinalReap, Cleanup, ReapBlindly, NoSignal, Unmasked, Arrays
<1>4. CASE Judges(r)
      BY <1>4 DEF Judges, CheckHealth, Drain, Poll, Close, Settle, QuarantineSettled,
         BlockSignals, NoSignal, NeedsQuarantine, Passes, Quarantine, Arrays
<1>5. CASE Concludes(r)
      BY <1>5 DEF Concludes, WriteOutcome, Downgrade, Rewrite, SampleSignals,
         RestoreSignals, ClearPoison, SkipClear, Finish, NoSignal, Arrays
<1>6. CASE Unwinds(r)
      BY <1>6 DEF Unwinds, Raise, UnwindQuarantine, GuardRecord, ExitLease,
         ExitProcess, NoSignal, Leaves, Arrays
<1>7. CASE Lease(r)
      BY <1>7 DEF Lease, NoSignal, Arrays
<1>8. CASE ChildStep(r)
      BY <1>8 DEF ChildStep, runVars, Arrays
<1>9. CASE Meets(r)
      BY <1>9 DEF Meets, Interrupt, Signal, Kill, LeavesKin, Leaves, runVars, Arrays
<1> QED BY <1>1, <1>2, <1>3, <1>4, <1>5, <1>6, <1>7, <1>8, <1>9 DEF Acts, RunStep

(* and what it leaves behind is the affair of no other run. *)
LEMMA TrustedElsewhere ==
    ASSUME NEW r \in Runs, NEW s \in Runs, s # r, Acts(r), Types, InsideIsOwner, Trusted(s)
    PROVE  Trusted(s)'
<1> USE DEF Types
<1>1. Same(s) /\ sig'[s] = sig[s]
      BY ElsewhereStep, SignalElsewhere
<1>2. faults' = 0 => faults = 0
      BY FaultsGrow, LeaseAssumption DEF FaultType
<1>3. faults # 0 => faults' # 0
      BY <1>2
<1>4. Said(s)' /\ Heeded(s)' /\ Weighed(s)' /\ Believed(s)'
      BY <1>1, <1>3 DEF Same, Trusted, Said, Heeded, Weighed, Believed
<1>5. pc[s] \in Leaving => exposed' = exposed
  <2>1. SUFFICES ASSUME pc[s] \in Leaving PROVE ~Launch(r) /\ ~ClearPoison(r)
        BY ExposureStep DEF LeaseTypes
  <2>2. owner = s
        BY <2>1 DEF InsideIsOwner, Leaving, Outside
  <2> QED BY <2>2 DEF InsideIsOwner, Launch, ClearPoison, At, Outside
<1>6. Vouched(s)'
      BY <1>1, <1>2, <1>5 DEF Same, Trusted, Vouched, Done, Leaving
<1> QED BY <1>4, <1>6 DEF Trusted

(* Nothing around a run makes it less trusted. *)
LEMMA TrustedAround ==
    ASSUME NEW r \in Runs, Around, Types, Trusted(r)
    PROVE  Trusted(r)'
<1> USE DEF Types
<1>1. CASE LosesPower
  <2>1. /\ record' = record /\ mem'[r] = Fresh /\ sig'[r] = "none"
        /\ pc'[r] = "over" \/ (pc'[r] = pc[r] /\ pc[r] \in {"idle", "over"})
        BY <1>1 DEF LosesPower, IsAlive, Arrays
  <2> QED BY <2>1, TrustFields DEF Trusted, Said, Heeded, Weighed, Believed,
             Vouched, Done, Leaving, Weighing, Concluding
<1>2. CASE ~LosesPower
  <2>1. /\ pc' = pc /\ mem' = mem /\ sig' = sig /\ record' = record
        /\ faults' = faults /\ (exposed' = exposed \/ exposed' = FALSE)
        BY <1>2 DEF Around, DriverStep, Investigate, ClearFiles, MarkGpu, WriteMarker,
           RemoveMarker, TruncatePayload, leaseVars, runVars, historyVars
  <2>2. Said(r)' /\ Heeded(r)' /\ Weighed(r)' /\ Believed(r)'
        BY <2>1 DEF Trusted, Said, Heeded, Weighed, Believed
  <2>3. ~exposed => ~exposed'
        BY <2>1
  <2>4. Vouched(r)'
        BY <2>1, <2>3 DEF Trusted, Vouched, Done
  <2> QED BY <2>2, <2>4 DEF Trusted
<1> QED BY <1>1, <1>2

(* So every run is trusted as far as it says it may be, *)
LEMMA NextTrusted ==
    ASSUME IInv, \A r \in Runs : Trusted(r), [Next]_vars
    PROVE  \A r \in Runs : Trusted(r)'
<1> USE DEF IInv, Leased
<1>1. CASE UNCHANGED vars
      BY <1>1 DEF vars, leaseVars, runVars, historyVars, Trusted, Said, Heeded, Weighed,
         Believed, Vouched, Done
<1>2. CASE Around
      BY <1>2, TrustedAround
<1>3. ASSUME NEW r \in Runs, Acts(r) PROVE \A s \in Runs : Trusted(s)'
      BY <1>3, TrustedStep, TrustedElsewhere
<1> QED BY <1>1, <1>2, <1>3, NextIsStep

(* from the start. *)
LEMMA InitTrusted == Init => \A r \in Runs : Trusted(r)
  BY TrustFields DEF Init, Trusted, Said, Heeded, Weighed, Believed, Vouched,
     Done, Weighing, Leaving, Concluding

(* The inductive invariant of the trust, on top of that of the run. *)
THEOREM AlwaysTrusted == Spec => [](IInv /\ \A r \in Runs : Trusted(r))
<1>1. IInv /\ (\A r \in Runs : Trusted(r)) /\ [Next]_vars
        => (\A r \in Runs : Trusted(r))'
      BY NextTrusted
<1> QED BY <1>1, InitTrusted, Invariance, PTL DEF Spec

(* The poison of a run is cleared by that run alone, with nothing against it. *)
LEMMA ClearsIsClear ==
    ASSUME IInv, Next, NEW r \in Runs, ClearsPoison(r)
    PROVE  ClearPoison(r) /\ IsOwnPoison(r)
<1> USE DEF IInv, Types, Leased, ClearsPoison
<1>1. ~Around
      BY LeaseAssumption DEF Around, DriverStep, Investigate, ClearFiles, LosesPower,
         MarkGpu, WriteMarker, leaseVars
<1>2. PICK s \in Runs : Acts(s)
      BY <1>1, NextIsStep
<1>3. ClearPoison(s)
      BY <1>2, PayloadStep, LeaseAssumption
<1>4. s = r
      BY <1>3 DEF ClearPoison, At, InsideIsOwner, Outside
<1>5. IsOwnPoison(r)
      BY <1>3, <1>4, LeaseAssumption DEF ClearPoison, LeaseFilesKept
<1> QED BY <1>3, <1>4, <1>5

(* A run that was signalled does not clear the poison, and returns with no
   record that says passed, unless the storage has failed. *)
THEOREM InterruptedIsNeverTrusted == Spec => InterruptedIsDistrusted
<1>1. ASSUME IInv, \A r \in Runs : Trusted(r), Next
      PROVE  \A r \in Runs : sig[r] # "none" =>
                 /\ ~ClearsPoison(r)
                 /\ EndsLease(r) /\ faults = 0 => ~record[r].passed
  <2>1. SUFFICES ASSUME NEW r \in Runs, sig[r] # "none"
                 PROVE  /\ ~ClearsPoison(r)
                        /\ EndsLease(r) /\ faults = 0 => ~record[r].passed
        OBVIOUS
  <2>2. ~ClearsPoison(r)
    <3>1. SUFFICES ASSUME ClearsPoison(r) PROVE FALSE
          OBVIOUS
    <3>2. ClearPoison(r)
          BY <1>1, <3>1, ClearsIsClear
    <3>3. Heeded(r) /\ sig[r] \in {"none", "pending", "noted"}
          BY <1>1 DEF Trusted, IInv, Types, SigType
    <3> QED BY <2>1, <3>2, <3>3 DEF ClearPoison, At, IsClean, Heeded, Blocking, Concluding
  <2>3. EndsLease(r) /\ faults = 0 => ~record[r].passed
        BY <1>1, <2>1 DEF EndsLease, Trusted, Vouched, Leaving
  <2> QED BY <2>2, <2>3
<1>2. IInv /\ (\A r \in Runs : Trusted(r)) /\ [Next]_vars
        => [\A r \in Runs : sig[r] # "none" =>
                 /\ ~ClearsPoison(r)
                 /\ EndsLease(r) /\ faults = 0 => ~record[r].passed]_vars
      BY <1>1
<1> QED BY <1>2, AlwaysTrusted, PTL DEF Spec, InterruptedIsDistrusted

(* The poison is cleared behind a record that says passed and on a GPU that
   nobody has marked, and a masked run that returns with such a record has
   cleared it, unless the storage has failed. *)
THEOREM RecordAndPoisonAgree == Spec => RecordAgreesWithPoison
<1>1. ASSUME IInv, \A r \in Runs : Trusted(r), Next
      PROVE  \A r \in Masked :
                 /\ ClearsPoison(r) => record[r].passed /\ ~marker
                 /\ EndsLease(r) /\ faults = 0 /\ record[r].passed => ~exposed
  <2>1. SUFFICES ASSUME NEW r \in Masked
                 PROVE  /\ ClearsPoison(r) => record[r].passed /\ ~marker
                        /\ EndsLease(r) /\ faults = 0 /\ record[r].passed => ~exposed
        OBVIOUS
  <2>2. r \in Runs /\ Believed(r) /\ Vouched(r)
        BY <1>1, MaskedAssumption DEF Trusted
  <2>3. ASSUME ClearsPoison(r) PROVE record[r].passed /\ ~marker
    <3>1. ClearPoison(r) /\ IsOwnPoison(r)
          BY <1>1, <2>2, <2>3, ClearsIsClear
    <3> QED BY <2>2, <3>1 DEF ClearPoison, At, IsClean, IsOwnPoison, Believed, Weighing
  <2>4. EndsLease(r) /\ faults = 0 /\ record[r].passed => ~exposed
        BY <2>2 DEF EndsLease, Vouched, Done
  <2> QED BY <2>3, <2>4
<1>2. IInv /\ (\A r \in Runs : Trusted(r)) /\ [Next]_vars
        => [\A r \in Masked :
                 /\ ClearsPoison(r) => record[r].passed /\ ~marker
                 /\ EndsLease(r) /\ faults = 0 /\ record[r].passed => ~exposed]_vars
      BY <1>1
<1> QED BY <1>2, AlwaysTrusted, PTL DEF Spec, RecordAgreesWithPoison
=============
