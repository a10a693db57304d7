----------------------------- MODULE ProbeRun -----------------------------
(***************************************************************************)
(* A formal probe run, _execute_under_leases of smctrl_runner.py: lease    *)
(* the GPU, poison it before a masked probe exists, supervise the probe,   *)
(* judge what it left, write the terminal record, and clear the poison or  *)
(* leave the GPU quarantined. A run is a process; it may be killed, raise, *)
(* receive a signal or fail to write at any of its steps, and the next run *)
(* finds the files as they are.                                            *)
(*                                                                         *)
(* pc names the stretch of the function a run is in. The signals of the    *)
(* lifecycle (INT, TERM, HUP) are one, and a run gets at most one while    *)
(* its own handlers are installed; before and after, a signal is a raise   *)
(* or a kill.                                                              *)
(***************************************************************************)
EXTENDS XidMonitor

CONSTANT MaxTroubles       \* bound: signals, kills, descendants, power losses, marks by others

ASSUME TroubleAssumption == MaxTroubles \in Nat

VARIABLES pc,
          mem,            \* the local variables of a run
          sig,            \* its signal: "none", "pending" in the kernel, "noted"
          record,         \* what outcome.json says, neither until it is there
          exposed,        \* history: a masked probe was started and not cleared
          investigated,   \* a person has dealt with the GPU that refuses leases
          troubles        \* of MaxTroubles, so far

runVars == <<pc, mem, sig, record>>
historyVars == <<exposed, investigated>>
vars == <<leaseVars, childVars, monitorVars, runVars, historyVars, troubles>>

Fresh == [armed |-> FALSE, fallback |-> FALSE,          \* of the lease object
          final |-> FALSE,         \* lease and terminal guard are marked terminal
          quarantined |-> FALSE,   \* the lease alone is marked terminal
          identified |-> FALSE, deferred |-> FALSE, interrupted |-> FALSE,
          unrecorded |-> FALSE,    \* the interruption is not in outcome yet
          flawed |-> FALSE,        \* child_launch_error, or a failed check
          untidy |-> FALSE,        \* the supervisor recorded an error
          reaped |-> TRUE,         \* process_group_reaped
          unsafe |-> FALSE,        \* a reason for quarantine that is not below
          durable |-> FALSE, passed |-> FALSE, needs |-> FALSE,
          after |-> "finish"]      \* where a downgrade returns to

NoRecord == [passed |-> FALSE, needs |-> FALSE]

Init == /\ LeaseInit /\ ChildInit /\ MonitorInit
        /\ pc = [r \in Runs |-> "idle"]
        /\ mem = [r \in Runs |-> Fresh]
        /\ sig = [r \in Runs |-> "none"]
        /\ record = [r \in Runs |-> NoRecord]
        /\ exposed = FALSE
        /\ investigated = FALSE
        /\ troubles = 0

Trouble == troubles < MaxTroubles /\ troubles' = troubles + 1
NoTrouble == UNCHANGED troubles

IsAlive(r) == pc[r] \notin {"idle", "over"}

At(r, place) == pc[r] = place
Goto(r, place) == pc' = [pc EXCEPT ![r] = place]
Keep == UNCHANGED mem
NoSignal == UNCHANGED sig
NoRecordWritten == UNCHANGED record

(* Most steps of a run touch its own variables only. *)
Quietly == UNCHANGED <<leaseVars, childVars, monitorVars, historyVars>>
Files == UNCHANGED <<owner, childVars, monitorVars, historyVars>>
Child == UNCHANGED <<leaseVars, monitorVars, historyVars>>
Monitor == UNCHANGED <<leaseVars, childVars, historyVars>>

With(r, m) == mem' = [mem EXCEPT ![r] = m]

(* A lock file or a record may be written or not, whatever else happens; no *)
(* step does both.                                                          *)
LeaseFilesKept == UNCHANGED <<payload, marker, faults>>

(***************************************************************************)
(* quarantine() and where the run goes on: after it, or with its raise.    *)
(***************************************************************************)
Quarantine(r, done, next, raised) ==
    /\ \/ WriteMarker /\ With(r, done) /\ Goto(r, next)
       \/ WriteFallback /\ mem' = [mem EXCEPT ![r].fallback = TRUE] /\ Goto(r, raised)
       \/ FallbackFails /\ Keep /\ Goto(r, raised)
    /\ Files /\ NoSignal /\ NoRecordWritten

(* write_json_atomic of outcome.json; a failed one may have renamed it. *)
Writes(r, passed, needs) ==
    record' = [record EXCEPT ![r] = [passed |-> passed, needs |-> needs]]
RecordFails(r, passed, needs) == /\ WriteFails
                                 /\ NoRecordWritten \/ Writes(r, passed, needs)

(***************************************************************************)
(* Before the window of the child. Until the run directory exists no       *)
(* terminal guard is there to write a record.                              *)
(***************************************************************************)
Lease(r) == /\ At(r, "idle") /\ Acquire(r) /\ Goto(r, "leased")
            /\ investigated' = FALSE
            /\ Keep /\ NoSignal /\ NoRecordWritten
            /\ UNCHANGED <<childVars, monitorVars, exposed>>

CreateRunDirectory(r) == /\ At(r, "leased") /\ Goto(r, "open")
                         /\ Quietly /\ Keep /\ NoSignal /\ NoRecordWritten

(* The preflight or the source revalidation says no: a record that asks for *)
(* no quarantine, and then a marker if the UUID of the GPU has changed.     *)
Reject(r) == /\ At(r, "open")
             /\ Writes(r, FALSE, FALSE)
             /\ \E drifted \in BOOLEAN : Goto(r, IF drifted THEN "rejected" ELSE "finish")
             /\ mem' = [mem EXCEPT ![r].durable = TRUE]
             /\ Quietly /\ NoSignal

PassPreflight(r) == /\ At(r, "open")
                    /\ Goto(r, IF r \in Masked THEN "monitor" ELSE "window")
                    /\ Quietly /\ Keep /\ NoSignal /\ NoRecordWritten

StartMonitor(r) == /\ At(r, "monitor") /\ OpenMonitor(r) /\ Goto(r, "window")
                   /\ Monitor /\ Keep /\ NoSignal /\ NoRecordWritten

MonitorSetupFails(r) == /\ At(r, "monitor") /\ MonitorOpenFails(r)
                        /\ Writes(r, FALSE, TRUE)
                        /\ mem' = [mem EXCEPT ![r].durable = TRUE]
                        /\ Goto(r, "rejected")
                        /\ Monitor /\ NoSignal

QuarantineRejected(r) == /\ At(r, "rejected")
                         /\ Quarantine(r, mem[r], "finish", "unwind")

(***************************************************************************)
(* The window of the child, with the signals blocked up to run.started.    *)
(***************************************************************************)

(* pthread_sigmask restores the mask: a pending signal reaches the handler,  *)
(* which raises, or only notes it once interrupts are deferred.              *)
Unmasked(r) == IF sig[r] = "pending" THEN "noted" ELSE sig[r]
Raised(r) == sig[r] = "pending" /\ ~mem[r].deferred

(* A check, a write or Popen raises and no child exists. *)
Childless(r, unsafe) ==
    /\ sig' = [sig EXCEPT ![r] = Unmasked(r)]
    /\ With(r, [mem[r] EXCEPT !.flawed = TRUE, !.unsafe = unsafe, !.deferred = TRUE,
                              !.interrupted = Raised(r)])
    /\ Goto(r, "health")
    /\ NoRecordWritten

FailLaunchCheck(r) == /\ At(r, "window")
                      /\ \E unsafe \in BOOLEAN : Childless(r, unsafe)
                      /\ Quietly

ArmPoison(r) == /\ At(r, "window") /\ r \in Masked
                /\ \/ /\ WritePayload(r) /\ Goto(r, "commit")
                      /\ mem' = [mem EXCEPT ![r].armed = TRUE]
                      /\ NoSignal /\ NoRecordWritten
                   \/ PayloadFails(r) /\ Childless(r, FALSE)
                /\ Files

SkipPoison(r) == /\ At(r, "window") /\ r \notin Masked /\ Goto(r, "commit")
                 /\ Quietly /\ Keep /\ NoSignal /\ NoRecordWritten

(* A masked run needs a reservation of the GPU, and it may have run out. *)
Expired(r) == IF r \in Masked THEN BOOLEAN ELSE {FALSE}

(* It has, or Popen raises. *)
FailCommit(r) == /\ At(r, "commit")
                 /\ \E expired \in Expired(r) : Childless(r, expired)
                 /\ Quietly

Launch(r) == /\ At(r, "commit") /\ Spawn(r) /\ Goto(r, "identify")
             /\ exposed' = (exposed \/ r \in Masked)
             /\ Keep /\ NoSignal /\ NoRecordWritten
             /\ UNCHANGED <<leaseVars, monitorVars, investigated>>

Identify(r) == /\ At(r, "identify") /\ Goto(r, "started")
               /\ mem' = [mem EXCEPT ![r].identified = TRUE]
               /\ Quietly /\ NoSignal /\ NoRecordWritten

(* run.started is written and the signals are let in again. *)
EnterSupervision(r) == /\ At(r, "started") /\ sig[r] = "none"
                       /\ Goto(r, "supervise")
                       /\ Quietly /\ Keep /\ NoSignal /\ NoRecordWritten

(* /proc or a write raises after Popen, or a signal was pending: to the *)
(* handler of the window, which blocks and defers the signals.          *)
Escape(r) == /\ sig' = [sig EXCEPT ![r] = Unmasked(r)]
             /\ With(r, [mem[r] EXCEPT !.flawed = TRUE, !.deferred = TRUE,
                                       !.interrupted = @ \/ Raised(r)])
             /\ Goto(r, "cleanup")
             /\ NoRecordWritten

FailAfterLaunch(r) == pc[r] \in {"identify", "started"} /\ Escape(r) /\ Quietly

(***************************************************************************)
(* _supervise_process. The leader stays a zombie until its session was     *)
(* looked through, so that the number of its group is still its own.       *)
(***************************************************************************)
LeaderEnds(r) == /\ pc[r] \in {"supervise", "await"} /\ child[r] = "zombie"
                 /\ Goto(r, "scan")
                 /\ Quietly /\ Keep /\ NoSignal /\ NoRecordWritten

(* The group is killed, or the kill is refused and the error remembered. *)
TimeOut(r) == /\ At(r, "supervise")
              /\ \/ KillGroup(r) /\ mem' = [mem EXCEPT ![r].flawed = TRUE]
                 \/ /\ UNCHANGED childVars
                    /\ mem' = [mem EXCEPT ![r].flawed = TRUE, ![r].untidy = TRUE]
              /\ Goto(r, "await")
              /\ Child /\ NoSignal /\ NoRecordWritten

WaitForLeader(r) ==        \* mutant: no deadline after the kill
    /\ At(r, "await") /\ child[r] = "zombie" /\ Goto(r, "scan")
    /\ Quietly /\ Keep /\ NoSignal /\ NoRecordWritten
GiveUpLeader(r) == /\ At(r, "await") /\ Alive(r) /\ Goto(r, "reap")
                   /\ mem' = [mem EXCEPT ![r].untidy = TRUE]
                   /\ Quietly /\ NoSignal /\ NoRecordWritten

ScanSession(r) == /\ At(r, "scan")
                  /\ \/ /\ kin[r] = "none"
                        /\ Goto(r, "reap") /\ Keep /\ UNCHANGED childVars
                     \/ /\ kin[r] # "none"
                        /\ Goto(r, "rescan") /\ Keep /\ KillGroup(r)
                     \/ /\ mem' = [mem EXCEPT ![r].untidy = TRUE]   \* /proc fails it
                        /\ Goto(r, "reap") /\ UNCHANGED childVars
                  /\ Child /\ NoSignal /\ NoRecordWritten

RescanForgets(r) ==        \* mutant: what outlives its deadline is no error
    /\ At(r, "rescan") /\ Goto(r, "reap")
    /\ Quietly /\ Keep /\ NoSignal /\ NoRecordWritten
Rescan(r) == /\ At(r, "rescan")
             /\ IF kin[r] = "none" THEN Keep
                ELSE mem' = [mem EXCEPT ![r].untidy = TRUE]    \* its deadline
             /\ Goto(r, "reap")
             /\ Quietly /\ NoSignal /\ NoRecordWritten

(* The final wait, which collects the leader or gives up as well. After the *)
(* cleanup the signals are let in again, and only noted.                    *)
FinalReap(r) == /\ At(r, "reap")
                /\ \/ Reap(r) /\ mem' = [mem EXCEPT ![r].reaped = ~mem[r].untidy,
                                                    ![r].deferred = TRUE]
                   \/ /\ Alive(r) /\ UNCHANGED childVars
                      /\ mem' = [mem EXCEPT ![r].reaped = FALSE, ![r].deferred = TRUE]
                /\ sig' = [sig EXCEPT ![r] = Unmasked(r)]
                /\ Goto(r, "health")
                /\ Child /\ NoRecordWritten

(* A signal while the supervisor works: the handler raises once. A guarded *)
(* call remembers it and gives up what it waited for, or the raise escapes *)
(* to the handler of the window.                                           *)
Remember(r) ==
    /\ \/ At(r, "supervise") /\ KillGroup(r) /\ Goto(r, "await")
       \/ pc[r] \in {"await", "scan", "rescan"} /\ UNCHANGED childVars /\ Goto(r, "reap")
       \/ At(r, "reap") /\ UNCHANGED childVars /\ Goto(r, "health")
    /\ With(r, [mem[r] EXCEPT !.untidy = TRUE, !.interrupted = TRUE, !.unrecorded = TRUE,
                              !.reaped = @ /\ ~At(r, "reap"),
                              !.deferred = At(r, "reap")])

Interrupt(r) == /\ pc[r] \in {"supervise", "await", "scan", "rescan", "reap"}
                /\ ~mem[r].deferred /\ sig[r] = "none"
                /\ sig' = [sig EXCEPT ![r] = "noted"]
                /\ \/ Remember(r)
                   \/ /\ With(r, [mem[r] EXCEPT !.flawed = TRUE, !.interrupted = TRUE,
                                                !.deferred = TRUE])
                      /\ Goto(r, "cleanup")
                      /\ UNCHANGED childVars \/ (At(r, "reap") /\ Reap(r))
                /\ Child /\ NoRecordWritten

(* The handler of the window: supervise once more with no time left, or     *)
(* kill the child alone when its session is unknown.                        *)
Cleanup(r) ==
    /\ At(r, "cleanup")
    /\ \/ /\ mem[r].identified /\ child[r] # "gone"
          /\ mem' = [mem EXCEPT ![r].untidy = FALSE]
          /\ Goto(r, "supervise")
          /\ UNCHANGED childVars /\ NoSignal
       \/ /\ ~mem[r].identified
          /\ mem' = [mem EXCEPT ![r].reaped = FALSE]
          /\ KillChild(r) /\ Goto(r, "await blindly") /\ NoSignal
       \/ /\ child[r] = "gone"
          /\ mem' = [mem EXCEPT ![r].reaped = FALSE]
          /\ Goto(r, "health") /\ UNCHANGED childVars
          /\ sig' = [sig EXCEPT ![r] = Unmasked(r)]
    /\ Child /\ NoRecordWritten

ReapBlindly(r) == /\ At(r, "await blindly")
                  /\ Reap(r) \/ (Alive(r) /\ UNCHANGED childVars)
                  /\ sig' = [sig EXCEPT ![r] = Unmasked(r)]
                  /\ Goto(r, "health")
                  /\ Child /\ Keep /\ NoRecordWritten

(***************************************************************************)
(* What the probe left: the GPU, the events, the sources, the output.      *)
(***************************************************************************)
CheckHealth(r) == /\ At(r, "health")
                  /\ \E unsafe \in BOOLEAN :
                        mem' = [mem EXCEPT ![r].unsafe = @ \/ unsafe,
                                           ![r].flawed = @ \/ unsafe]
                  /\ Goto(r, IF r \in Masked THEN "drain" ELSE "settle")
                  /\ Quietly /\ NoSignal /\ NoRecordWritten

Drain(r) == /\ At(r, "drain")
            /\ \/ WaitQuiet(r) /\ Goto(r, "poll")
               \/ (SeeXid(r) \/ DrainFails(r)) /\ Goto(r, "close")
            /\ Monitor /\ Keep /\ NoSignal /\ NoRecordWritten

Poll(r) == /\ At(r, "poll")
           /\ FinalPoll(r) \/ SeeXid(r) \/ DrainFails(r)
           /\ Goto(r, "close")
           /\ Monitor /\ Keep /\ NoSignal /\ NoRecordWritten

Close(r) == /\ At(r, "close") /\ CloseMonitor(r) /\ Goto(r, "settle")
            /\ Monitor /\ Keep /\ NoSignal /\ NoRecordWritten

(* masked_monitor_passed, after what the runner invalidates itself. *)
MonitorPassed(r) == r \in Masked => monitor[r] = "clean" /\ mem[r].reaped

(* local_probe_passed: sound stands for the last source revalidation and   *)
(* for what the probe printed, expired for the reservation of the GPU.     *)
Passes(r, sound, expired) == /\ sound /\ ~expired
                             /\ ~mem[r].flawed /\ ~mem[r].interrupted /\ sig[r] # "noted"
                             /\ mem[r].reaped /\ MonitorPassed(r)

(* The reasons for quarantine. *)
NeedsQuarantine(r, sound, expired) ==
    \/ mem[r].unsafe \/ ~mem[r].reaped
    \/ r \in Masked /\ ~Passes(r, sound, expired)

Settle(r) ==
    /\ At(r, "settle")
    /\ \E sound \in BOOLEAN, expired \in Expired(r) :
          LET needs == NeedsQuarantine(r, sound, expired)
          IN  /\ With(r, [Fresh EXCEPT !.passed = Passes(r, sound, expired), !.needs = needs,
                                       !.interrupted = mem[r].interrupted \/ sig[r] = "noted",
                                       !.unrecorded = mem[r].unrecorded,
                                       !.armed = mem[r].armed, !.reaped = mem[r].reaped])
              /\ Goto(r, IF needs THEN "quarantine" ELSE "block")
    /\ Quietly /\ NoSignal /\ NoRecordWritten

QuarantineSettled(r) == /\ At(r, "quarantine")
                        /\ Quarantine(r, mem[r], "block", "unwind")

(* The signals are blocked for good; one that came since spoils the pass, *)
(* not the decision about quarantine.                                     *)
BlockSignals(r) == /\ At(r, "block")
                   /\ LET late == sig[r] = "noted" /\ ~mem[r].interrupted
                      IN  With(r, [mem[r] EXCEPT !.passed = @ /\ ~late,
                                                 !.interrupted = @ \/ late])
                   /\ Goto(r, "record")
                   /\ Quietly /\ NoSignal /\ NoRecordWritten

(***************************************************************************)
(* The terminal record, and its downgrade when it or a signal fails it.    *)
(***************************************************************************)
WriteOutcome(r) ==
    /\ At(r, "record")
    /\ \/ /\ Writes(r, mem[r].passed, mem[r].needs)
          /\ mem' = [mem EXCEPT ![r].durable = TRUE]
          /\ Goto(r, "sample")
          /\ LeaseFilesKept
       \/ /\ RecordFails(r, mem[r].passed, mem[r].needs)
          /\ With(r, [mem[r] EXCEPT !.after = "sample"])
          /\ Goto(r, "downgrade")
    /\ Files /\ NoSignal

(* persist_or_guard_downgrade: the record will say failed and quarantine,  *)
(* the quarantine is tried, and a failure of it is only collected.         *)
DowngradeRecord(r) ==      \* mutant: the record alone is downgraded
    /\ At(r, "downgrade") /\ Goto(r, "rewrite")
    /\ mem' = [mem EXCEPT ![r].durable = FALSE, ![r].passed = FALSE, ![r].needs = TRUE]
    /\ Quietly /\ NoSignal /\ NoRecordWritten
Downgrade(r) ==
    LET m == [mem[r] EXCEPT !.durable = FALSE, !.passed = FALSE, !.needs = TRUE]
    IN  /\ At(r, "downgrade")
        /\ \/ WriteMarker /\ With(r, m)
           \/ WriteFallback /\ With(r, [m EXCEPT !.fallback = TRUE])
           \/ FallbackFails /\ With(r, m)
        /\ Goto(r, "rewrite")
        /\ Files /\ NoSignal /\ NoRecordWritten

(* The downgraded record, by the run or by the terminal guard. *)
Rewrite(r) ==
    /\ At(r, "rewrite")
    /\ \/ /\ Writes(r, FALSE, TRUE) /\ LeaseFilesKept
          /\ With(r, [mem[r] EXCEPT !.durable = TRUE, !.after = Fresh.after])
       \/ RecordFails(r, FALSE, TRUE) /\ mem' = [mem EXCEPT ![r].after = Fresh.after]
    /\ Goto(r, mem[r].after)
    /\ Files /\ NoSignal

(* sigpending, with the signals still blocked. *)
SampleSignals(r) ==
    /\ At(r, "sample")
    /\ IF sig[r] = "pending"
       THEN /\ With(r, [mem[r] EXCEPT !.after = "restore", !.interrupted = TRUE])
            /\ sig' = [sig EXCEPT ![r] = "noted"]
            /\ Goto(r, "downgrade")
       ELSE Keep /\ NoSignal /\ Goto(r, "restore")
    /\ Quietly /\ NoRecordWritten

(* The mask and then the handlers of the caller are restored. A signal the  *)
(* handler has noted and the record does not have is recorded now: one that *)
(* came since the sample, or one the supervisor remembered.                 *)
RestoreUnseen(r) ==        \* mutant: a signal since the sample is not looked for
    /\ At(r, "restore") /\ Goto(r, "clear")
    /\ sig' = [sig EXCEPT ![r] = Unmasked(r)]
    /\ Quietly /\ Keep /\ NoRecordWritten
RestoreSignals(r) ==
    /\ At(r, "restore")
    /\ IF sig[r] = "pending" \/ mem[r].unrecorded
       THEN /\ With(r, [mem[r] EXCEPT !.after = "clear", !.interrupted = TRUE,
                                      !.unrecorded = FALSE])
            /\ sig' = [sig EXCEPT ![r] = "noted"]
            /\ Goto(r, "downgrade")
       ELSE Keep /\ NoSignal /\ Goto(r, "clear")
    /\ Quietly /\ NoRecordWritten

(***************************************************************************)
(* clear_masked_poison, when nothing at all is held against the run: every *)
(* failure since the record has downgraded it. It fails when the poison is *)
(* not its own any more, when the storage does, and when the handler of    *)
(* the caller raises in it.                                                *)
(***************************************************************************)
IsClean(r) == r \in Masked /\ mem[r].passed /\ ~mem[r].needs /\ ~mem[r].interrupted

IsOwnPayload(r) ==         \* mutant: the marker is not looked for again
    mem[r].armed /\ ~mem[r].fallback /\ payload = r
IsOwnPoison(r) == /\ mem[r].armed /\ ~marker /\ ~mem[r].fallback
                  /\ payload = r

ClearFails(r) == /\ With(r, [mem[r] EXCEPT !.after = "finish"])
                 /\ Goto(r, "downgrade")

ClearPoison(r) ==
    /\ At(r, "clear") /\ IsClean(r)
    /\ \/ /\ IsOwnPoison(r) /\ WritePayload(Empty)
          /\ exposed' = FALSE
          /\ mem' = [mem EXCEPT ![r].armed = FALSE]
          /\ Goto(r, "finish")
       \/ /\ \/ LeaseFilesKept
             \/ IsOwnPoison(r) /\ (WritePayload(Empty) \/ PayloadFails(Empty))
          /\ exposed' = (exposed /\ payload' = payload)
          /\ ClearFails(r)
    /\ NoSignal /\ NoRecordWritten
    /\ UNCHANGED <<owner, childVars, monitorVars, investigated>>

SkipClear(r) == /\ At(r, "clear") /\ ~IsClean(r) /\ Goto(r, "finish")
                /\ Quietly /\ Keep /\ NoSignal /\ NoRecordWritten

Finish(r) == /\ At(r, "finish") /\ Goto(r, "unwind")
             /\ mem' = [mem EXCEPT ![r].final = mem[r].durable]
             /\ Quietly /\ NoSignal /\ NoRecordWritten

(***************************************************************************)
(* The exit stack, in the reverse order of its entries.                    *)
(***************************************************************************)
Raise(r) == /\ pc[r] \in {"leased", "open", "monitor", "health", "settle",
                          "block", "clear", "finish"}
            /\ Goto(r, IF At(r, "leased") THEN "exit lease" ELSE "unwind")
            /\ Quietly /\ Keep /\ NoSignal /\ NoRecordWritten

(* The monitor is closed, and a lease that is not marked terminal is        *)
(* quarantined while the handlers are still those of the run. What the      *)
(* guards look at is all that is left of the locals.                        *)
UnwindQuarantine(r) ==
    LET m == [Fresh EXCEPT !.final = mem[r].final, !.fallback = mem[r].fallback]
    IN  /\ At(r, "unwind")
        /\ \/ mem[r].final /\ With(r, m) /\ Goto(r, "exit lease") /\ LeaseFilesKept
           \/ /\ ~mem[r].final /\ Goto(r, "guard")
              /\ \/ WriteMarker /\ With(r, [m EXCEPT !.quarantined = TRUE])
                 \/ WriteFallback /\ With(r, [m EXCEPT !.fallback = TRUE])
                 \/ FallbackFails /\ With(r, m)
        /\ FreeMonitors({r})
        /\ NoSignal /\ NoRecordWritten
        /\ UNCHANGED <<owner, childVars, historyVars>>

(* _TerminalArtifactGuard: the record it writes keeps what was there. *)
GuardRecord(r) ==
    /\ At(r, "guard") /\ Goto(r, "exit lease")
    /\ \/ Writes(r, FALSE, TRUE) /\ LeaseFilesKept
       \/ RecordFails(r, FALSE, TRUE)
    /\ Files /\ Keep /\ NoSignal

(* __exit__ of the lease. When no quarantine can be persisted the flock is *)
(* kept, to the end of the process.                                        *)
ExitLease(r) ==
    /\ At(r, "exit lease") /\ Goto(r, "returned")
    /\ \/ /\ mem[r].final \/ mem[r].quarantined
          /\ Release(r)
          /\ LeaseFilesKept
       \/ /\ ~mem[r].final /\ ~mem[r].quarantined
          /\ \/ (WriteMarker \/ WriteFallback) /\ Release(r)
             \/ /\ FallbackFails
                /\ IF mem[r].fallback THEN Release(r) ELSE UNCHANGED owner
    /\ With(r, Fresh)
    /\ sig' = [sig EXCEPT ![r] = "none"]
    /\ NoRecordWritten
    /\ UNCHANGED <<childVars, monitorVars, historyVars>>

Leaves(r) == /\ Release(r) /\ Orphan(r) /\ Goto(r, "over")
             /\ With(r, Fresh)
             /\ sig' = [sig EXCEPT ![r] = "none"]
             /\ FreeMonitors({r})
             /\ LeaseFilesKept /\ NoRecordWritten
             /\ UNCHANGED historyVars

ExitProcess(r) == At(r, "returned") /\ Leaves(r)

(***************************************************************************)
(* What happens to a run.                                                  *)
(***************************************************************************)
Kill(r) == IsAlive(r) /\ Leaves(r)

Blocked(r) == \/ pc[r] \in {"window", "commit", "identify", "started", "cleanup",
                            "await blindly", "record", "sample", "restore"}
              \/ pc[r] \in {"supervise", "await", "scan", "rescan", "reap"}
                 /\ mem[r].deferred
              \/ pc[r] \in {"downgrade", "rewrite"} /\ mem[r].after \in {"sample", "restore"}
Noting(r) == pc[r] \in {"health", "drain", "poll", "close", "settle", "quarantine", "block"}

Signal(r) == /\ sig[r] = "none"
             /\ \/ Blocked(r) /\ sig' = [sig EXCEPT ![r] = "pending"]
                \/ Noting(r) /\ sig' = [sig EXCEPT ![r] = "noted"]
             /\ Quietly /\ Keep /\ NoRecordWritten /\ UNCHANGED pc

(* All processes end, the two files are gone and the GPU starts anew. *)
LosesPower == /\ owner' = NoRun
              /\ payload' = Empty /\ marker' = FALSE
              /\ pc' = [r \in Runs |-> IF IsAlive(r) THEN "over" ELSE pc[r]]
              /\ mem' = [r \in Runs |-> Fresh]
              /\ sig' = [r \in Runs |-> "none"]
              /\ EndAll(Runs) /\ xid' = [r \in Runs |-> FALSE]
              /\ FreeMonitors(Runs)
              /\ exposed' = FALSE /\ investigated' = FALSE
              /\ UNCHANGED <<faults, record>>

(* Somebody marks the GPU while a run has it; no flock is asked for that. *)
MarkGpu == /\ owner # NoRun /\ ~marker
           /\ WriteMarker
           /\ UNCHANGED <<owner, childVars, monitorVars, runVars, historyVars>>

(* A person ends what is left of the runs, resets the GPU, and then clears *)
(* the two files in either order.                                          *)
Investigate == /\ owner = NoRun /\ Refused /\ ~investigated
               /\ investigated' = TRUE
               /\ exposed' = FALSE
               /\ EndAll(Runs)
               /\ xid' = [r \in Runs |-> FALSE]
               /\ UNCHANGED <<leaseVars, monitorVars, runVars>>

ClearFiles == /\ investigated /\ owner = NoRun
              /\ RemoveMarker \/ TruncatePayload
              /\ UNCHANGED <<childVars, monitorVars, runVars, historyVars>>

ChildStep(r) == /\ \/ TieToParent(r) \/ CheckParent(r, IsAlive(r)) \/ StartProbe(r)
                   \/ EndChild(r, IsAlive(r)) \/ EndKin(r) \/ RaiseXid(r)
                /\ UNCHANGED <<leaseVars, monitorVars, runVars, historyVars>>

LeavesKin(r) == LeaveKin(r) /\ UNCHANGED <<leaseVars, monitorVars, runVars, historyVars>>

DriverStep == PostXid /\ UNCHANGED <<leaseVars, runVars, historyVars>>

Prepares(r) == \/ CreateRunDirectory(r) \/ Reject(r) \/ PassPreflight(r)
               \/ StartMonitor(r) \/ MonitorSetupFails(r) \/ QuarantineRejected(r)
Starts(r) == \/ FailLaunchCheck(r) \/ ArmPoison(r) \/ SkipPoison(r) \/ FailCommit(r)
             \/ Launch(r) \/ Identify(r) \/ EnterSupervision(r) \/ FailAfterLaunch(r)
Supervises(r) == \/ LeaderEnds(r) \/ TimeOut(r) \/ GiveUpLeader(r) \/ ScanSession(r)
                 \/ Rescan(r) \/ FinalReap(r) \/ Cleanup(r) \/ ReapBlindly(r)
Judges(r) == \/ CheckHealth(r) \/ Drain(r) \/ Poll(r) \/ Close(r) \/ Settle(r)
             \/ QuarantineSettled(r) \/ BlockSignals(r)
Concludes(r) == \/ WriteOutcome(r) \/ Downgrade(r) \/ Rewrite(r) \/ SampleSignals(r)
                \/ RestoreSignals(r) \/ ClearPoison(r) \/ SkipClear(r) \/ Finish(r)
Unwinds(r) == \/ Raise(r) \/ UnwindQuarantine(r) \/ GuardRecord(r) \/ ExitLease(r)
              \/ ExitProcess(r)

RunStep(r) == \/ Prepares(r) \/ Starts(r) \/ Supervises(r) \/ Judges(r)
              \/ Concludes(r) \/ Unwinds(r)

Next == \/ /\ NoTrouble
           /\ \/ \E r \in Runs : Lease(r) \/ RunStep(r) \/ ChildStep(r)
              \/ DriverStep \/ Investigate \/ ClearFiles
        \/ /\ Trouble
           /\ \/ \E r \in Runs : Interrupt(r) \/ Signal(r) \/ Kill(r) \/ LeavesKin(r)
              \/ LosesPower \/ MarkGpu

Spec == Init /\ [][Next]_vars

(* A run has deadlines on all it waits for, so nothing but a kill keeps it *)
(* from its next step; a launcher runs its guard and a killed process      *)
(* ends. Nobody has to lease, post, kill or look.                          *)
FairSpec == /\ Spec
            /\ \A r \in Runs :
                  /\ WF_vars(RunStep(r) /\ NoTrouble)
                  /\ WF_vars(ChildStep(r) /\ NoTrouble /\ child'[r] # child[r]
                             /\ (doomed[r] \/ (r \in Masked /\ child[r] \in {"forked", "tied"})))

(***************************************************************************)
(* Properties.                                                             *)
(***************************************************************************)

(* The types, and that the stages before and after the probe agree with it: *)
(* a run that has not launched has no child, one that was reaped no leader. *)
Places == {"idle", "leased", "open", "rejected", "monitor", "window", "commit",
           "identify", "started", "supervise", "await", "scan", "rescan", "reap", "cleanup",
           "await blindly", "health", "drain", "poll", "close", "settle", "quarantine",
           "block", "record", "downgrade", "rewrite", "sample", "restore", "clear",
           "finish", "unwind", "guard", "exit lease", "returned", "over"}
BeforeLaunch == {"idle", "leased", "open", "rejected", "monitor", "window", "commit"}
ProbeTypeOK ==
    /\ owner \in Runs \cup {NoRun} /\ (owner # NoRun => IsAlive(owner))
    /\ payload \in Payloads
    /\ {marker, exposed, investigated, inflight} \subseteq BOOLEAN
    /\ faults \in 0 .. MaxFaults
    /\ \A r \in Runs :
          /\ pc[r] \in Places
          /\ child[r] \in LiveStates \cup {"none", "zombie", "gone"}
          /\ kin[r] \in {"none", "group", "session", "dying"}
          /\ monitor[r] \in {"unused", "open", "quiet", "clean", "failed"}
          /\ sig[r] \in {"none", "pending", "noted"}
          /\ pc[r] \in BeforeLaunch => child[r] = "none"
          /\ doomed[r] => Alive(r) \/ child[r] \in {"zombie", "gone"}

(* A GPU on which a masked probe was started and not cleared refuses every *)
(* lease, at every step of its run and after any end of it: the poison is  *)
(* in the lock file before Popen, and no replacement of it leaves nothing. *)
ExposedIsRefused == exposed => Refused

(* The files, the flock and the order of the run implement the custody of   *)
(* the GPU: see GpuCustody.                                                 *)
Custody == INSTANCE GpuCustody WITH holder <- owner,
                                    live <- {r \in Masked : UsesGpu(r)},
                                    faulted <- \E r \in Runs : xid[r]
ImplementsCustody == Custody!Spec

(* When the supervisor says that the process group was reaped, the probe   *)
(* and what it left behind are gone: it looks only when the leader can     *)
(* start nothing any more, and counts what it could not kill as an error.  *)
Judging == {"health", "drain", "poll", "close", "settle", "quarantine", "block", "record",
            "sample", "restore", "clear"}
ReapedMeansGone == \A r \in Runs :
                      pc[r] \in Judging /\ mem[r].reaped => ~UsesGpu(r)

(* A record that says passed is only ever that of a run whose probe is     *)
(* gone, with all its children, and raised no Xid, whenever the reader     *)
(* looks and whatever became of the run after it wrote.                    *)
PassedMeansProved == \A r \in Runs :
                        record[r].passed => child[r] = "gone" /\ ~UsesGpu(r) /\ ~xid[r]

(* A run that releases the lease with a record that asks for quarantine has *)
(* left the GPU refused, if no more than one storage operation has failed.  *)
RecordedQuarantineHolds ==
    [][\A r \in Runs : /\ pc[r] = "exit lease" /\ pc'[r] = "returned"
                       /\ record[r].needs /\ faults' < 2
                       => Refused']_vars

ClearsPoison(r) == owner = r /\ owner' = r /\ payload = r /\ payload' = Empty
EndsLease(r) == pc[r] = "exit lease" /\ pc'[r] = "returned"

(* A run that was signalled while the handlers were its own does not clear *)
(* the poison, however late the signal came and wherever it was noted; and *)
(* it returns with no record that says passed, unless the storage failed   *)
(* when the record was taken back.                                         *)
InterruptedIsDistrusted ==
    [][\A r \in Runs : sig[r] # "none" =>
          /\ ~ClearsPoison(r)
          /\ EndsLease(r) /\ faults = 0 => ~record[r].passed]_vars

(* The record and the poison tell one story: the poison is cleared only when *)
(* the record already says passed, and not on a GPU that somebody has marked *)
(* since; and a masked run that returns with a record that says passed has   *)
(* cleared it, unless the storage failed when the record was taken back.     *)
RecordAgreesWithPoison ==
    [][\A r \in Masked :
          /\ ClearsPoison(r) => record[r].passed /\ ~marker
          /\ EndsLease(r) /\ faults = 0 /\ record[r].passed => ~exposed]_vars

(* __exit__ of the lease, smctrl_runner.py 1370: a quarantine that could   *)
(* not be persisted keeps the lock held instead of admitting another       *)
(* formal owner. Downgrade collects the failure and Finish ends the lease. *)
UnpersistedQuarantineHoldsLock ==
    [][\A r \in Runs : /\ pc[r] = "exit lease" /\ pc'[r] = "returned"
                       /\ record[r].needs
                       => Refused' \/ owner' = r]_vars

(* The GPU is not held for ever: no wait of the supervisor is without end, *)
(* not for a child that cannot be killed, nor for one in another group.    *)
LeaseEnds == \A r \in Runs : owner = r ~> owner # r

(* A masked probe ends with its runner, however that ended: killed before  *)
(* the guard was armed, while it was, or later.                            *)
MaskedProbeEnds == \A r \in Masked : pc[r] = "over" ~> ~Alive(r)
============================================================================
