----------------------------- MODULE GpuLease -----------------------------
(***************************************************************************)
(* The state of one GPU that outlives a run, _GpuLease of smctrl_runner.py: *)
(* the flock on its lock file, the payload of that file and the quarantine *)
(* marker beside it. Every run is a process of its own, so a flock ends    *)
(* with its process and the files stay. Both files are under /run/user, in *)
(* memory: what a process wrote the next one reads, and a power loss takes *)
(* the two with it. The runtime directory of the user is assumed to be     *)
(* there between two power losses.                                         *)
(***************************************************************************)
EXTENDS Naturals

CONSTANTS Runs, NoRun,
          Empty,          \* the payload of an idle lock file
          Fallback,       \* a quarantine record in the lock file, whole or torn
          MaxFaults       \* bound: storage operations that fail

ASSUME LeaseAssumption == /\ NoRun \notin Runs
                          /\ Empty \notin Runs /\ Fallback \notin Runs
                          /\ Empty # Fallback
                          /\ MaxFaults \in Nat

VARIABLES owner,         \* the run whose descriptor holds the exclusive flock
          payload,       \* what the lock file holds: Empty, Fallback or the run
                         \* whose armed poison it is
          marker,        \* a quarantine marker is there
          faults         \* storage operations that have failed

leaseVars == <<owner, payload, marker, faults>>

Payloads == Runs \cup {Empty, Fallback}

LeaseInit == /\ owner = NoRun
             /\ payload = Empty
             /\ marker = FALSE
             /\ faults = 0

(* What __enter__ refuses: any marker, or any byte in the lock file. *)
Refused == marker \/ payload # Empty

StorageFault == faults < MaxFaults /\ faults' = faults + 1

(* __enter__: the flock without waiting, then the two tests. A refused run *)
(* drops the flock again within the call.                                  *)
AcquireByMarker(r) ==      \* mutant: the bytes of the lock file are not looked at
    /\ owner = NoRun /\ ~marker
    /\ owner' = r
    /\ UNCHANGED <<payload, marker, faults>>
Acquire(r) == /\ owner = NoRun /\ ~Refused
              /\ owner' = r
              /\ UNCHANGED <<payload, marker, faults>>

(* Closing the descriptor, or the end of the process that has it open. *)
ReleaseLeaks(r) == owner' = owner      \* mutant: the child inherits the descriptor
Release(r) == owner' = IF owner = r THEN NoRun ELSE owner

(* _replace_lock_payload. A record is written over the old one and cut to  *)
(* its length only when it is synced, so a replacement that stops anywhere  *)
(* leaves bytes: the old, the new or both.                                  *)
WritePayload(p) == payload' = p /\ UNCHANGED <<marker, faults>>
PayloadFails(p) == /\ StorageFault
                   /\ payload' \in {payload, p}
                   /\ UNCHANGED marker

(* A file that is not of the lease cannot be written. *)
WriteFails == StorageFault /\ UNCHANGED <<payload, marker>>

(* write_json_atomic of the marker: a new file renamed over the old one. *)
WriteMarker == marker' = TRUE /\ UNCHANGED <<payload, faults>>

(* The marker cannot be written, or what follows its rename fails; either *)
(* way the record goes into the lock file.                                *)
MarkerLost == marker' \in {marker, TRUE}
WriteFallback == /\ StorageFault /\ MarkerLost
                 /\ payload' = Fallback

(* The record in the lock file fails too, before or after its bytes. *)
FallbackEmptiesFirst ==    \* mutant: the old record is cut before the new one
    /\ faults + 2 <= MaxFaults /\ faults' = faults + 2
    /\ MarkerLost
    /\ payload' \in {Empty, Fallback}
FallbackFails == /\ faults + 2 <= MaxFaults /\ faults' = faults + 2
                 /\ MarkerLost
                 /\ payload' \in {payload, Fallback}

(* The two steps the message of __enter__ asks a person for. *)
RemoveMarker == /\ marker /\ marker' = FALSE
                /\ UNCHANGED <<owner, payload, faults>>
TruncatePayload == /\ payload # Empty /\ payload' = Empty
                   /\ UNCHANGED <<owner, marker, faults>>
============================================================================
