------------------------- MODULE TenantQueuesProofs -------------------------
(***************************************************************************)
(* The invariants of TenantQueues, for any tenants, requests, arrivals and *)
(* deadlines.  A restore brings back the state of an earlier checkpoint,   *)
(* so each invariant is strengthened with what it says of the checkpoint.  *)
(***************************************************************************)
EXTENDS TenantQueues, TLAPS

-----------------------------------------------------------------------------
(* The rotation.                                                           *)

\* A new tenant at the end of a rotation leaves a rotation, and is the only
\* tenant it adds.
LEMMA AppendKeepsRotation ==
    ASSUME NEW s \in Rotations, NEW t \in Tenants,
           t \notin {s[i] : i \in DOMAIN s}
    PROVE  /\ Append(s, t) \in Rotations
           /\ {Append(s, t)[i] : i \in DOMAIN Append(s, t)}
                = {s[i] : i \in DOMAIN s} \cup {t}
<1> DEFINE n == Len(s)
           a == Append(s, t)
<1>1. s \in Seq(Tenants) /\ \A i, j \in DOMAIN s : s[i] = s[j] => i = j
    BY DEF Rotations
<1>2. n \in Nat /\ DOMAIN s = 1 .. n
    BY <1>1
<1>3. a \in Seq(Tenants) /\ Len(a) = n + 1 /\ DOMAIN a = 1 .. n + 1
    BY <1>1
<1>4. a[n + 1] = t /\ \A i \in 1 .. n : a[i] = s[i]
    BY <1>1
<1>5. \A i, j \in DOMAIN a : a[i] = a[j] => i = j
    BY <1>1, <1>2, <1>3, <1>4
<1>6. {a[i] : i \in DOMAIN a} = {s[i] : i \in DOMAIN s} \cup {t}
    BY <1>2, <1>3, <1>4
<1> QED
    BY <1>3, <1>5, <1>6 DEF Rotations

\* Rotating keeps the tenants of a rotation.
LEMMA RotatingKeepsTenants ==
    ASSUME order \in Rotations
    PROVE  /\ Rotated \in Rotations
           /\ {Rotated[i] : i \in DOMAIN Rotated} = Known
<1>1. CASE order = <<>>
    BY <1>1 DEF Rotated, Known
<1>2. CASE order # <<>>
    <2> DEFINE n == Len(order)
               a == Append(Tail(order), Head(order))
    <2>1. order \in Seq(Tenants) /\ \A i, j \in DOMAIN order : order[i] = order[j] => i = j
        BY DEF Rotations
    <2>2. n \in Nat \ {0} /\ DOMAIN order = 1 .. n
        BY <2>1, <1>2
    <2>3. Tail(order) \in Seq(Tenants) /\ Len(Tail(order)) = n - 1 /\ Head(order) = order[1]
        BY <2>1, <1>2
    <2>4. \A i \in 1 .. n - 1 : Tail(order)[i] = order[i + 1]
        BY <2>1, <1>2
    <2>5. Head(order) \in Tenants
        BY <2>1, <2>2, <2>3
    <2>6. a \in Seq(Tenants) /\ Len(a) = n /\ DOMAIN a = 1 .. n
        BY <2>2, <2>3, <2>5
    <2>7. a[n] = order[1] /\ \A i \in 1 .. n - 1 : a[i] = order[i + 1]
        BY <2>2, <2>3, <2>4, <2>5
    <2> HIDE DEF a, n
    <2>8. \A i, j \in 1 .. n : a[i] = a[j] => i = j
        <3> SUFFICES ASSUME NEW i \in 1 .. n, NEW j \in 1 .. n, a[i] = a[j]
                     PROVE  i = j
            OBVIOUS
        <3>1. CASE i = n /\ j = n
            BY <3>1
        <3>2. CASE i # n /\ j # n
            <4>1. i \in 1 .. n - 1 /\ j \in 1 .. n - 1
                BY <3>2, <2>2
            <4>2. order[i + 1] = order[j + 1]
                BY <4>1, <2>7
            <4>3. i + 1 \in DOMAIN order /\ j + 1 \in DOMAIN order
                BY <4>1, <2>2
            <4>4. i + 1 = j + 1
                BY <4>2, <4>3, <2>1
            <4> QED
                BY <4>1, <4>4
        <3>3. ASSUME NEW k \in 1 .. n - 1, a[k] = a[n]
              PROVE  FALSE
            <4>1. order[k + 1] = order[1]
                BY <3>3, <2>7
            <4>2. k + 1 \in DOMAIN order /\ 1 \in DOMAIN order
                BY <3>3, <2>2
            <4>3. k + 1 = 1
                BY <4>1, <4>2, <2>1
            <4> QED
                BY <4>3, <3>3
        <3>4. CASE i = n /\ j # n
            <4>1. j \in 1 .. n - 1 /\ a[j] = a[n]
                BY <3>4, <2>2
            <4> QED
                BY <4>1, <3>3
        <3>5. CASE i # n /\ j = n
            <4>1. i \in 1 .. n - 1 /\ a[i] = a[n]
                BY <3>5, <2>2
            <4> QED
                BY <4>1, <3>3
        <3> QED
            BY <3>1, <3>2, <3>4, <3>5
    <2>9. {a[i] : i \in 1 .. n} = {order[i] : i \in 1 .. n}
        <3>1. \A i \in 1 .. n : \E j \in 1 .. n : a[i] = order[j]
            BY <2>2, <2>7
        <3>2. \A j \in 1 .. n : \E i \in 1 .. n : a[i] = order[j]
            <4> SUFFICES ASSUME NEW j \in 1 .. n
                         PROVE  \E i \in 1 .. n : a[i] = order[j]
                OBVIOUS
            <4>1. CASE j = 1
                BY <4>1, <2>2, <2>7
            <4>2. CASE j # 1
                <5> DEFINE k == j - 1
                <5>1. k \in 1 .. n - 1 /\ k \in 1 .. n /\ k + 1 = j
                    BY <4>2, <2>2
                <5> HIDE DEF k
                <5>2. a[k] = order[k + 1]
                    BY <5>1, <2>7
                <5> QED
                    BY <5>1, <5>2
            <4> QED
                BY <4>1, <4>2
        <3> QED
            BY <3>1, <3>2
    <2>10. Rotated = a
        BY <1>2 DEF Rotated, a
    <2>11. Rotated \in Rotations
        BY <2>6, <2>8, <2>10 DEF Rotations
    <2>12. {Rotated[i] : i \in DOMAIN Rotated} = {a[i] : i \in 1 .. n}
        BY <2>6, <2>10
    <2>13. Known = {order[i] : i \in 1 .. n}
        BY <2>2 DEF Known
    <2> QED
        BY <2>9, <2>11, <2>12, <2>13
<1> QED
    BY <1>1, <1>2

\* Entering the tenant of a request into the rotation.
LEMMA EnteringKeepsRotation ==
    ASSUME order \in Rotations, NEW t \in Tenants
    PROVE  /\ OrderAfter(t) \in Rotations
           /\ {OrderAfter(t)[i] : i \in DOMAIN OrderAfter(t)} = Known \cup {t}
<1>1. CASE t \in Known
    BY <1>1 DEF OrderAfter, Known
<1>2. CASE t \notin Known
    <2>1. OrderAfter(t) = Append(order, t)
        BY <1>2 DEF OrderAfter
    <2>2. t \notin {order[i] : i \in DOMAIN order}
        BY <1>2 DEF Known
    <2> QED
        BY <2>1, <2>2, AppendKeepsRotation DEF Known
<1> QED
    BY <1>1, <1>2

-----------------------------------------------------------------------------
(* Type correctness.                                                       *)

\* Every step of the queues keeps their type.
LEMMA QueueTypeStep ==
    ASSUME QueueTypeOK, [QueueNext]_queueVars
    PROVE  QueueTypeOK'
<1> USE QueueAssumption
<1>1. ASSUME NEW r \in Requests, Admit(r)
      PROVE  QueueTypeOK'
    <2>1. order' \in Rotations
        BY <1>1, EnteringKeepsRotation DEF QueueTypeOK, Admit
    <2> QED
        BY <1>1, <2>1 DEF QueueTypeOK, Admit
<1>2. ASSUME NEW r \in Requests, Start(r)
      PROVE  QueueTypeOK'
    BY <1>2 DEF QueueTypeOK, Start
<1>3. ASSUME NEW r \in Requests, Suspend(r)
      PROVE  QueueTypeOK'
    BY <1>3 DEF QueueTypeOK, Suspend, WaitingAfterSuspend
<1>4. ASSUME NEW r \in Requests, Finish(r)
      PROVE  QueueTypeOK'
    BY <1>4 DEF QueueTypeOK, Finish
<1>5. ASSUME NEW r \in Requests, Drop(r)
      PROVE  QueueTypeOK'
    BY <1>5 DEF QueueTypeOK, Drop
<1>6. ASSUME Rotate
      PROVE  QueueTypeOK'
    BY <1>6, RotatingKeepsTenants DEF QueueTypeOK, Rotate
<1>7. ASSUME Checkpoint
      PROVE  QueueTypeOK'
    <2>1. Payload \in Snapshots
        BY DEF QueueTypeOK, Payload, Snapshots
    <2> QED
        BY <1>7, <2>1 DEF QueueTypeOK, Checkpoint, liveVars
<1>8. ASSUME Restore
      PROVE  QueueTypeOK'
    <2>1. PICK p \in saved :
            /\ waiting' = p.waiting /\ inFlight' = p.inFlight
            /\ finished' = p.finished /\ dropped' = {} /\ order' = p.order
            /\ admitted' = p.admitted /\ abandoned' = p.abandoned
            /\ saved' = saved
        BY <1>8 DEF Restore
    <2>2. p \in Snapshots
        BY <2>1 DEF QueueTypeOK
    <2> QED
        BY <2>1, <2>2 DEF QueueTypeOK, Snapshots
<1>9. CASE UNCHANGED queueVars
    BY <1>9 DEF QueueTypeOK, queueVars, liveVars
<1> QED
    BY <1>1, <1>2, <1>3, <1>4, <1>5, <1>6, <1>7, <1>8, <1>9 DEF QueueNext

\* The queues, the rotation and the checkpoint are of their types; above all
\* the rotation never lists a tenant twice, so no round offers it twice.
THEOREM QueueTypeInvariant == QueueSpec => []QueueTypeOK
<1>1. QueueInit => QueueTypeOK
    BY DEF QueueInit, QueueTypeOK, Rotations
<1> QED
    BY <1>1, QueueTypeStep, PTL DEF QueueSpec

-----------------------------------------------------------------------------
(* Requests are never lost or duplicated.                                  *)

\* RequestsAccounted of a checkpoint.
SnapshotAccounted(p) ==
    /\ p.waiting \cap p.inFlight = {}
    /\ p.finished \cap (p.waiting \cup p.inFlight) = {}
    /\ p.admitted = p.waiting \cup p.inFlight \cup p.finished \cup p.abandoned

Accounting == RequestsAccounted /\ \A p \in saved : SnapshotAccounted(p)

\* Every step keeps the requests accounted for, here and in the checkpoint.
LEMMA AccountingStep ==
    ASSUME Accounting, [QueueNext]_queueVars
    PROVE  Accounting'
<1> USE DEF Accounting, RequestsAccounted
<1>1. ASSUME NEW r \in Requests, Admit(r)
      PROVE  Accounting'
    BY <1>1 DEF Admit, Knows, SnapshotAccounted
<1>2. ASSUME NEW r \in Requests, Start(r)
      PROVE  Accounting'
    BY <1>2 DEF Start, SnapshotAccounted
<1>3. ASSUME NEW r \in Requests, Suspend(r)
      PROVE  Accounting'
    BY <1>3 DEF Suspend, WaitingAfterSuspend, SnapshotAccounted
<1>4. ASSUME NEW r \in Requests, Finish(r)
      PROVE  Accounting'
    BY <1>4 DEF Finish, SnapshotAccounted
<1>5. ASSUME NEW r \in Requests, Drop(r)
      PROVE  Accounting'
    BY <1>5 DEF Drop, SnapshotAccounted
<1>6. ASSUME Rotate
      PROVE  Accounting'
    BY <1>6 DEF Rotate, SnapshotAccounted
<1>7. ASSUME Checkpoint
      PROVE  Accounting'
    BY <1>7 DEF Checkpoint, liveVars, Payload, SnapshotAccounted
<1>8. ASSUME Restore
      PROVE  Accounting'
    BY <1>8 DEF Restore, SnapshotAccounted
<1>9. CASE UNCHANGED queueVars
    BY <1>9 DEF queueVars, liveVars, SnapshotAccounted
<1> QED
    BY <1>1, <1>2, <1>3, <1>4, <1>5, <1>6, <1>7, <1>8, <1>9 DEF QueueNext

\* Every admitted request is in exactly one of the places the queue keeps it
\* in, or was dropped, over any number of suspensions and restores.
THEOREM RequestsNeverLost == QueueSpec => []RequestsAccounted
<1>1. QueueInit => Accounting
    BY DEF QueueInit, Accounting, RequestsAccounted
<1>2. Accounting => RequestsAccounted
    BY DEF Accounting
<1> QED
    BY <1>1, <1>2, AccountingStep, PTL DEF QueueSpec

-----------------------------------------------------------------------------
(* Every tenant that is owed service is offered.                           *)

\* BackloggedAreOffered of a checkpoint.
SnapshotOffered(p) ==
    {Owner[r] : r \in p.waiting \cup p.inFlight}
        \subseteq {p.order[i] : i \in DOMAIN p.order}

Offering == BackloggedAreOffered /\ \A p \in saved : SnapshotOffered(p)

\* Every step keeps the backlogged tenants in the rotation.
LEMMA OfferingStep ==
    ASSUME QueueTypeOK, Offering, [QueueNext]_queueVars
    PROVE  Offering'
<1> USE DEF Offering, BackloggedAreOffered, SnapshotOffered
<1>1. ASSUME NEW r \in Requests, Admit(r)
      PROVE  Offering'
    <2>1. Known' = Known \cup {Owner[r]}
        BY <1>1, EnteringKeepsRotation, QueueAssumption DEF QueueTypeOK, Admit, Known
    <2> QED
        BY <1>1, <2>1 DEF Admit
<1>2. ASSUME NEW r \in Requests, Start(r)
      PROVE  Offering'
    BY <1>2 DEF Start, Known
<1>3. ASSUME NEW r \in Requests, Suspend(r)
      PROVE  Offering'
    BY <1>3 DEF Suspend, WaitingAfterSuspend, Known
<1>4. ASSUME NEW r \in Requests, Finish(r)
      PROVE  Offering'
    BY <1>4 DEF Finish, Known
<1>5. ASSUME NEW r \in Requests, Drop(r)
      PROVE  Offering'
    BY <1>5 DEF Drop, Known
<1>6. ASSUME Rotate
      PROVE  Offering'
    <2>1. Known' = Known
        BY <1>6, RotatingKeepsTenants DEF QueueTypeOK, Rotate, Known
    <2> QED
        BY <1>6, <2>1 DEF Rotate
<1>7. ASSUME Checkpoint
      PROVE  Offering'
    <2>1. SnapshotOffered(Payload)
        BY DEF Payload, Known
    <2>2. BackloggedAreOffered'
        BY <1>7 DEF Checkpoint, liveVars, Known
    <2>3. \A p \in saved' : SnapshotOffered(p)
        <3> HIDE DEF SnapshotOffered
        <3> QED
            BY <1>7, <2>1 DEF Checkpoint
    <2> QED
        BY <2>2, <2>3
<1>8. ASSUME Restore
      PROVE  Offering'
    BY <1>8 DEF Restore, Known
<1>9. CASE UNCHANGED queueVars
    BY <1>9 DEF queueVars, liveVars, Known
<1> QED
    BY <1>1, <1>2, <1>3, <1>4, <1>5, <1>6, <1>7, <1>8, <1>9 DEF QueueNext

\* No tenant with a backlog is ever missing from the rotation ready() walks.
THEOREM BacklogIsOffered == QueueSpec => []BackloggedAreOffered
<1>1. QueueInit => Offering
    BY DEF QueueInit, Offering, BackloggedAreOffered
<1>2. Offering => BackloggedAreOffered
    BY DEF Offering
<1> QED
    BY <1>1, <1>2, OfferingStep, QueueTypeInvariant, PTL DEF QueueSpec
=============================================================================
