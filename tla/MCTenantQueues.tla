--------------------------- MODULE MCTenantQueues ---------------------------
(***************************************************************************)
(* Two tenants; one has two requests.  Every interleaving of the queue     *)
(* operations with one checkpoint kept at a time.                          *)
(***************************************************************************)
EXTENDS TenantQueues

MCTenants  == {"t0", "t1"}
MCRequests == 0 .. 2
MCOwner    == [r \in MCRequests |-> IF r = 2 THEN "t1" ELSE "t0"]
MCArrival  == [r \in MCRequests |-> r]
MCDeadline == [r \in {1} |-> 3]
=============================================================================
