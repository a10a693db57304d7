---------------------------- MODULE XidMonitor ----------------------------
(***************************************************************************)
(* NvmlXidMonitor of nvml_events.py: an NVML event set registered for the  *)
(* Xids of one GPU before the probe exists, drained once after it has      *)
(* ended, and closed. An Xid may be posted late, after its probe has       *)
(* ended, but not later than a whole quiet interval: what is assumed of    *)
(* the driver is that a wait for that long with nothing on its way ends.   *)
(***************************************************************************)
EXTENDS ProbeChild

VARIABLES monitor,    \* "unused", "open", "quiet" after the interval, and then
                      \* "clean", or "failed" by an error or an Xid
          posted      \* the event set holds an Xid

monitorVars == <<monitor, posted>>

MonitorInit == /\ monitor = [r \in Runs |-> "unused"]
               /\ posted = [r \in Runs |-> FALSE]

MonitorBecomes(r, state) == /\ monitor' = [monitor EXCEPT ![r] = state]
                            /\ UNCHANGED posted

OpenMonitor(r) == monitor[r] = "unused" /\ MonitorBecomes(r, "open")
MonitorOpenFails(r) == monitor[r] = "unused" /\ MonitorBecomes(r, "failed")

Listening(r) == monitor[r] \in {"open", "quiet"}

(* The driver posts to the event sets that are registered, to no other. *)
PostXid == /\ inflight
           /\ inflight' = FALSE
           /\ posted' = [r \in Runs |-> posted[r] \/ Listening(r)]
           /\ UNCHANGED <<child, doomed, kin, xid, monitor>>

(* drain: the runner asks for fail-fast, so that one Xid ends it. *)
WaitNot(r) == /\ monitor[r] = "open" /\ ~posted[r]    \* mutant: no quiet interval
              /\ MonitorBecomes(r, "quiet")
WaitQuiet(r) == /\ monitor[r] = "open" /\ ~posted[r] /\ ~inflight
                /\ MonitorBecomes(r, "quiet")
FinalPoll(r) == /\ monitor[r] = "quiet" /\ ~posted[r]
                /\ MonitorBecomes(r, "clean")
SeeXid(r) == /\ Listening(r) /\ posted[r]
             /\ MonitorBecomes(r, "failed")
(* The deadline, an error of NVML or an event of another kind. *)
DrainFails(r) == Listening(r) /\ MonitorBecomes(r, "failed")

(* close frees the event set; what fails in it is recorded, and            *)
(* safe_for_acceptance asks for nothing recorded.                          *)
CloseMonitor(r) == /\ \E failed \in BOOLEAN :
                         monitor' = [monitor EXCEPT ![r] = IF failed THEN "failed" ELSE @]
                   /\ posted' = [posted EXCEPT ![r] = FALSE]

(* An event set ends with its process. *)
FreeMonitors(ended) ==
    /\ monitor' = [r \in Runs |-> IF r \in ended THEN "unused" ELSE monitor[r]]
    /\ posted' = [r \in Runs |-> posted[r] /\ r \notin ended]
============================================================================
