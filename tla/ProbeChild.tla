---------------------------- MODULE ProbeChild ----------------------------
(***************************************************************************)
(* The probe a run starts: the launcher that arms the parent guard of a    *)
(* masked probe and executes the probe in its place (guard_launcher.c,     *)
(* parent_guard.c), at most one process the probe leaves behind, and the   *)
(* critical errors (Xid) a masked probe makes the GPU raise.               *)
(***************************************************************************)
EXTENDS GpuLease

CONSTANT Masked           \* the runs of a masked mode; the others are baselines

ASSUME MaskedAssumption == Masked \subseteq Runs

VARIABLES child,      \* "none", a live state, "zombie" until it is reaped, "gone"
          doomed,     \* a SIGKILL is pending for the child
          kin,        \* its descendant: "none", "group" if in its process group,
                      \* "session" if only in its session, "dying" once killed
          xid,        \* the probe made the GPU raise an Xid
          inflight    \* an Xid the driver has not posted yet

childVars == <<child, doomed, kin, xid, inflight>>

LiveStates == {"forked", "tied", "guarded", "probing"}
Alive(r) == child[r] \in LiveStates
UsesGpu(r) == Alive(r) \/ kin[r] # "none"

ChildInit == /\ child = [r \in Runs |-> "none"]
             /\ doomed = [r \in Runs |-> FALSE]
             /\ kin = [r \in Runs |-> "none"]
             /\ xid = [r \in Runs |-> FALSE]
             /\ inflight = FALSE

Becomes(r, state) == /\ child' = [child EXCEPT ![r] = state]
                     /\ UNCHANGED <<doomed, kin, xid, inflight>>

(* Popen: the child exists, nothing of it has run. *)
Spawn(r) == child[r] = "none" /\ Becomes(r, "forked")

(* prctl(PR_SET_PDEATHSIG): from here the kernel kills the child with its  *)
(* parent. The signal says nothing of a parent that is dead already.       *)
TieToParent(r) == /\ r \in Masked /\ child[r] = "forked" /\ ~doomed[r]
                  /\ Becomes(r, "tied")

(* A child that ends is a zombie for as long as a parent may reap it. *)
Ended(parentAlive) == IF parentAlive THEN "zombie" ELSE "gone"

(* getppid, straight after the prctl, against the pid the runner gave. *)
TrustParent(r, parentAlive) ==      \* mutant: the guard does not look again
    /\ child[r] = "tied" /\ ~doomed[r]
    /\ Becomes(r, "guarded")
CheckParent(r, parentAlive) ==
    /\ child[r] = "tied" /\ ~doomed[r]
    /\ Becomes(r, IF parentAlive THEN "guarded" ELSE "gone")

StartProbe(r) == /\ child[r] = IF r \in Masked THEN "guarded" ELSE "forked"
                 /\ ~doomed[r]
                 /\ Becomes(r, "probing")

LeaveKin(r) == /\ child[r] = "probing" /\ kin[r] = "none" /\ ~doomed[r]
               /\ \E k \in {"group", "session"} : kin' = [kin EXCEPT ![r] = k]
               /\ UNCHANGED <<child, doomed, xid, inflight>>

EndChild(r, parentAlive) == Alive(r) /\ Becomes(r, Ended(parentAlive))

EndKin(r) == /\ kin[r] # "none"
             /\ kin' = [kin EXCEPT ![r] = "none"]
             /\ UNCHANGED <<child, doomed, xid, inflight>>

(* One Xid per probe is enough to make it unclean. *)
RaiseXid(r) == /\ r \in Masked /\ ~xid[r]
               /\ child[r] = "probing" \/ kin[r] # "none"
               /\ xid' = [xid EXCEPT ![r] = TRUE]
               /\ inflight' = TRUE
               /\ UNCHANGED <<child, doomed, kin>>

(* SIGKILL to the child alone, or to its process group while the leader, *)
(* alive or a zombie, keeps the number of the group from being reused.   *)
KillChild(r) == /\ doomed' = [doomed EXCEPT ![r] = Alive(r)]
                /\ UNCHANGED <<child, kin, xid, inflight>>
KillGroup(r) == /\ doomed' = [doomed EXCEPT ![r] = Alive(r)]
                /\ kin' = [kin EXCEPT ![r] = IF @ = "group" THEN "dying" ELSE @]
                /\ UNCHANGED <<child, xid, inflight>>

Reap(r) == child[r] = "zombie" /\ Becomes(r, "gone")

(* The end of the runner: the guard kills a child it was armed in, a zombie *)
(* has no parent left to wait for.                                          *)
Orphan(r) ==
    /\ doomed' = [doomed EXCEPT ![r] =
                     @ \/ (r \in Masked /\ child[r] \in {"tied", "guarded", "probing"})]
    /\ child' = [child EXCEPT ![r] = IF @ = "zombie" THEN "gone" ELSE @]
    /\ UNCHANGED <<kin, xid, inflight>>

(* All processes of the runs in ended are gone and the GPU was reset or not. *)
EndAll(ended) == /\ child' = [r \in Runs |-> IF r \in ended /\ child[r] # "none"
                                             THEN "gone" ELSE child[r]]
                 /\ doomed' = [r \in Runs |-> FALSE]
                 /\ kin' = [r \in Runs |-> IF r \in ended THEN "none" ELSE kin[r]]
                 /\ inflight' = FALSE
============================================================================
