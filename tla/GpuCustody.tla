---------------------------- MODULE GpuCustody ----------------------------
(***************************************************************************)
(* What the lease of a GPU promises, whatever crashes: a GPU on which a    *)
(* masked probe was started is in nobody's hands but those of the run that *)
(* started it, until that run has vouched for it or a person has           *)
(* investigated it; and a run vouches only for a GPU that no masked probe  *)
(* uses and that raised no critical error (Xid).                           *)
(***************************************************************************)
CONSTANTS Runs, NoRun

VARIABLES holder,     \* the run that holds the GPU
          exposed,    \* a masked probe was started and nobody has vouched since
          live,       \* the runs whose masked probe, or a child of it, is alive
          faulted     \* the GPU raised an Xid under a masked probe

vars == <<holder, exposed, live, faulted>>

Init == holder = NoRun /\ exposed = FALSE /\ live = {} /\ faulted = FALSE

Lease(r) == /\ holder = NoRun /\ ~exposed
            /\ holder' = r
            /\ UNCHANGED <<exposed, live, faulted>>

Launch(r) == /\ holder = r
             /\ exposed' = TRUE
             /\ live' = live \cup {r}
             /\ UNCHANGED <<holder, faulted>>

End(r) == /\ live' = live \ {r}
          /\ UNCHANGED <<holder, exposed, faulted>>

Fault == /\ live # {}
         /\ faulted' = TRUE
         /\ UNCHANGED <<holder, exposed, live>>

Vouch(r) == /\ holder = r /\ live = {} /\ ~faulted
            /\ exposed' = FALSE
            /\ UNCHANGED <<holder, live, faulted>>

Leave == /\ holder' = NoRun
         /\ UNCHANGED <<exposed, live, faulted>>

(* A person has dealt with a GPU that nobody holds, or it lost its power. *)
Renew == /\ holder' = NoRun /\ live' = {}
         /\ exposed' = FALSE /\ faulted' = FALSE

Next == \/ \E r \in Runs : Lease(r) \/ Launch(r) \/ End(r) \/ Vouch(r)
        \/ Fault \/ Leave \/ Renew

Spec == Init /\ [][Next]_vars
============================================================================
