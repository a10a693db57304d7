---------------------------- MODULE MCDualLedger ----------------------------
(***************************************************************************)
(* Two tenants of equal weight with one-step requests: tenant 1 owns two,  *)
(* so that it can sleep with a debt and wake again.  A tick of two         *)
(* nanoseconds, a factor of two thirds, a debt unit of three quarters of a *)
(* nanosecond.                                                             *)
(***************************************************************************)
EXTENDS DualLedger

MCWeight == <<1, 1>>
MCOwner  == <<1, 1, 2>>
MCSteps  == <<1, 1, 1>>
MCCumCost == [r \in 1 .. 3 |-> [k \in 0 .. 1 |-> k]]

\* The bound of the run: tenants register first, only tenant 1 runs into debt,
\* its requests arrive in order, and no request is unrunnable or rejected: the
\* run of FairAccounting explores all of that.
MCFocus ==
    /\ registered # Tenants => \A r \in Requests : status[r] = "absent"
    /\ \A r \in Requests : status[r] \notin {"queued", "rejected"}
    /\ status[1] = "absent" => status[2] = "absent"
    /\ debt[2] = NoDebt
=============================================================================
