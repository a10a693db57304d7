---------------------------- MODULE TenantQueues ----------------------------
(***************************************************************************)
(* queues.py: the request queue of each tenant (TenantQueue) and the       *)
(* rotating order tenants are offered in (TenantRegistry).                 *)
(*                                                                         *)
(* A queue's waiting list is sorted when it is read, by a total order, so  *)
(* the list is a set here; the queues of all tenants are one set, a        *)
(* request belonging to its Owner.                                         *)
(***************************************************************************)
EXTENDS Naturals, Sequences, FiniteSets

CONSTANTS
    Tenants,     \* tenant names
    Requests,    \* request identifiers
    Owner,       \* Owner[r]: QueuedRequest.tenant
    Arrival,     \* Arrival[r]: QueuedRequest.arrival_s
    Deadline,    \* Deadline[r]: QueuedRequest.deadline_s, for r in its domain
    Discipline   \* "fcfs" or "edf", how a tenant orders its own requests

ASSUME QueueAssumption ==
    /\ Requests \subseteq Nat
    /\ Owner \in [Requests -> Tenants]
    /\ Arrival \in [Requests -> Nat]
    /\ DOMAIN Deadline \subseteq Requests
    /\ \A r \in DOMAIN Deadline : Deadline[r] \in Nat
    /\ Discipline \in {"fcfs", "edf"}

VARIABLES
    waiting,    \* the requests of every TenantQueue._waiting
    inFlight,   \* the requests of every TenantQueue._in_flight
    finished,   \* the requests of every TenantQueue._finished
    dropped,    \* the requests of every TenantQueue._dropped
    order,      \* TenantRegistry._order
    saved,      \* {} or {the last checkpoint taken}
    admitted,   \* history: the requests ever admitted
    abandoned   \* history: the requests ever dropped

liveVars == <<waiting, inFlight, finished, dropped, order, admitted, abandoned>>
queueVars == <<liveVars, saved>>

QueueInit ==
    /\ waiting = {} /\ inFlight = {} /\ finished = {} /\ dropped = {}
    /\ order = <<>>
    /\ saved = {}
    /\ admitted = {} /\ abandoned = {}

-----------------------------------------------------------------------------
\* sort_key of the FCFS discipline.
Earlier(q, r) ==
    \/ Arrival[q] < Arrival[r]
    \/ Arrival[q] = Arrival[r] /\ q < r

\* sort_key of the EDF discipline: requests without a deadline go last.
MoreUrgent(q, r) ==
    LET dated == DOMAIN Deadline
    IN  IF q \in dated /\ r \in dated
        THEN \/ Deadline[q] < Deadline[r]
             \/ Deadline[q] = Deadline[r] /\ Earlier(q, r)
        ELSE \/ q \in dated
             \/ r \notin dated /\ Earlier(q, r)

\* Mutant of Before: the newest request first.
NewestFirst(q, r) == Earlier(r, q)

Before(q, r) == IF Discipline = "fcfs" THEN Earlier(q, r) ELSE MoreUrgent(q, r)

\* TenantQueue.ready: the waiting requests of t that have arrived.
Ready(t, now) == {r \in waiting : Owner[r] = t /\ Arrival[r] <= now}

\* The tenants TenantRegistry.ready walks through.
Known == {order[i] : i \in DOMAIN order}

\* TenantRegistry.ready: the first k ready requests of every known tenant.
Offered(now, k) ==
    {r \in UNION {Ready(t, now) : t \in Known} :
        Cardinality({q \in Ready(Owner[r], now) : Before(q, r)}) < k}

\* TenantQueue.knows.
Knows(r) == r \in waiting \cup inFlight \cup finished

\* Mutant of OrderAfter: a new queue is not entered into the rotation.
OrderUnchanged(t) == order

\* queue_for: a tenant seen for the first time joins the end of the rotation.
OrderAfter(t) == IF t \in Known THEN order ELSE Append(order, t)

\* TenantRegistry.admit.
Admit(r) ==
    /\ ~Knows(r)
    /\ order' = OrderAfter(Owner[r])
    /\ waiting' = waiting \cup {r}
    /\ admitted' = admitted \cup {r}
    /\ UNCHANGED <<inFlight, finished, dropped, saved, abandoned>>

\* TenantQueue.start.
Start(r) ==
    /\ r \in waiting
    /\ waiting' = waiting \ {r}
    /\ inFlight' = inFlight \cup {r}
    /\ UNCHANGED <<finished, dropped, order, saved, admitted, abandoned>>

\* TenantQueue.suspend returns the request to the waiting list.
WaitingAfterSuspend(r) == waiting \cup {r}

\* TenantQueue.suspend.
Suspend(r) ==
    /\ r \in inFlight
    /\ inFlight' = inFlight \ {r}
    /\ waiting' = WaitingAfterSuspend(r)
    /\ UNCHANGED <<finished, dropped, order, saved, admitted, abandoned>>

\* TenantQueue.finish.
Finish(r) ==
    /\ r \in inFlight
    /\ inFlight' = inFlight \ {r}
    /\ finished' = finished \cup {r}
    /\ UNCHANGED <<waiting, dropped, order, saved, admitted, abandoned>>

\* TenantQueue.drop: only a waiting request can be dropped.
Drop(r) ==
    /\ r \in waiting
    /\ waiting' = waiting \ {r}
    /\ dropped' = dropped \cup {r}
    /\ abandoned' = abandoned \cup {r}
    /\ UNCHANGED <<inFlight, finished, order, saved, admitted>>

\* Mutant of Rotated: the first tenant is copied to the end, not moved.
RotatedCopy == IF order = <<>> THEN order ELSE Append(order, Head(order))

\* TenantRegistry.rotate.
Rotated == IF order = <<>> THEN order ELSE Append(Tail(order), Head(order))

Rotate ==
    /\ order' = Rotated
    /\ UNCHANGED <<waiting, inFlight, finished, dropped, saved, admitted, abandoned>>

-----------------------------------------------------------------------------
\* Mutant of Payload: the requests in flight are not saved.
PayloadAtRest ==
    [waiting |-> waiting, inFlight |-> {}, finished |-> finished,
     order |-> order, admitted |-> admitted, abandoned |-> abandoned]

\* checkpoint: what the payload holds.  The dropped requests are not in it.
\* The last two fields are the histories at that point.
Payload ==
    [waiting |-> waiting, inFlight |-> inFlight, finished |-> finished,
     order |-> order, admitted |-> admitted, abandoned |-> abandoned]

\* TenantRegistry.checkpoint.
Checkpoint ==
    /\ saved' = {Payload}
    /\ UNCHANGED liveVars

\* TenantRegistry.restore, by the process that takes over after a crash.
Restore ==
    \E p \in saved :
        /\ waiting' = p.waiting
        /\ inFlight' = p.inFlight
        /\ finished' = p.finished
        /\ dropped' = {}
        /\ order' = p.order
        /\ admitted' = p.admitted
        /\ abandoned' = p.abandoned
        /\ UNCHANGED saved

QueueNext ==
    \/ \E r \in Requests :
          Admit(r) \/ Start(r) \/ Suspend(r) \/ Finish(r) \/ Drop(r)
    \/ Rotate
    \/ Checkpoint
    \/ Restore

QueueSpec == QueueInit /\ [][QueueNext]_queueVars

-----------------------------------------------------------------------------
\* A rotation lists a tenant once.
Rotations ==
    {s \in Seq(Tenants) : \A i, j \in DOMAIN s : s[i] = s[j] => i = j}

\* What a checkpoint holds.
Snapshots ==
    [waiting : SUBSET Requests, inFlight : SUBSET Requests,
     finished : SUBSET Requests, order : Rotations,
     admitted : SUBSET Requests, abandoned : SUBSET Requests]

\* Type invariant of the queues, of the last checkpoint and of the histories:
\* among others, no round offers a tenant twice.
QueueTypeOK ==
    /\ waiting \subseteq Requests /\ inFlight \subseteq Requests
    /\ finished \subseteq Requests /\ dropped \subseteq Requests
    /\ admitted \subseteq Requests /\ abandoned \subseteq Requests
    /\ order \in Rotations
    /\ saved \subseteq Snapshots

\* "A request leaves only by completing or by being explicitly dropped": a
\* request is in one place at a time, and every admitted request is waiting,
\* in flight, finished or was dropped, whatever was checkpointed and restored
\* in between.
RequestsAccounted ==
    /\ waiting \cap inFlight = {}
    /\ finished \cap (waiting \cup inFlight) = {}
    /\ admitted = waiting \cup inFlight \cup finished \cup abandoned

\* The between-tenant policy sees every tenant that is owed service: ready()
\* walks the rotation, which never loses a tenant with a backlog, over a
\* restore included.
BackloggedAreOffered == {Owner[r] : r \in waiting \cup inFlight} \subseteq Known
=============================================================================
