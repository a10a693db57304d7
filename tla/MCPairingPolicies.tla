------------------------- MODULE MCPairingPolicies --------------------------
(***************************************************************************)
(* Two tenants on a die of four units, halves and the whole die granted.   *)
(* In the rotation run tenant t0 serves images and t1 videos, whose steps  *)
(* differ 3.5-fold.  In the probing run both serve images, t1 comes when t0  *)
(* has been served for a while, a paired step may read slow, and a refusal *)
(* lasts three rounds at first.                                            *)
(***************************************************************************)
EXTENDS PairingPolicies

MCTenants  == {"t0", "t1"}
MCRequests == 0 .. 3
MCOwner    == [r \in MCRequests |-> IF r \in {0, 3} THEN "t0" ELSE "t1"]
MCArrival  == [r \in MCRequests |-> IF r = 3 THEN 4 ELSE 0]
MCDeadline == [r \in {} |-> 0]
MCWidths   == {2, 4}
MCSteps    == [r \in MCRequests |-> IF r = 0 THEN 4 ELSE 2]
Mixed      == [r \in MCRequests |-> IF MCOwner[r] = "t0" THEN "image" ELSE "video"]

TwoRequests == {0, 1}
AllImages   == [r \in TwoRequests |-> "image"]
LateArrival == [r \in TwoRequests |-> IF r = 1 THEN 3 ELSE 0]
SixSteps    == [r \in TwoRequests |-> 6]
TwoOwners   == [r \in TwoRequests |-> IF r = 0 THEN "t0" ELSE "t1"]

MCStepCost ==
    [image |-> [w \in MCWidths |-> IF w = 2 THEN 2 ELSE 1],
     video |-> [w \in MCWidths |-> IF w = 2 THEN 7 ELSE 4]]
MCPairCost ==
    [image |-> [p \in {<<2, 2>>} |-> 3], video |-> [p \in {<<2, 2>>} |-> 8]]
MCReports ==
    [image |-> [w \in MCWidths |-> IF w = 2 THEN {2, 4} ELSE {1, 2}],
     video |-> [w \in MCWidths |-> IF w = 2 THEN {8} ELSE {4, 5}]]
=============================================================================
