-------------------------- MODULE MCServiceRuntime --------------------------
(***************************************************************************)
(* Two tenants with different models, three requests, a die of four units  *)
(* granted in widths 1, 2 and 4.  Only 2+2 has a measured externality; 2   *)
(* and 4 have a predicted cost.  An image step of a pair is measured past  *)
(* the drift tolerance.                                                    *)
(***************************************************************************)
EXTENDS ServiceRuntime

MCTenants  == {"t0", "t1"}
MCRequests == 0 .. 2
MCOwner    == [r \in MCRequests |-> IF r = 1 THEN "t1" ELSE "t0"]
MCArrival  == [r \in MCRequests |-> IF r = 2 THEN 2 ELSE 0]
MCDeadline == [r \in {} |-> 0]
MCWidths   == {1, 2, 4}
MCSteps    == [r \in MCRequests |-> <<3, 2, 1>>[r + 1]]
MCModel    == [r \in MCRequests |-> IF r = 1 THEN "video" ELSE "image"]
MCBelieved == {2, 4}
MCStepCost ==
    [image |-> [w \in MCWidths |-> CASE w = 1 -> 4 [] w = 2 -> 2 [] w = 4 -> 1],
     video |-> [w \in MCWidths |-> CASE w = 1 -> 8 [] w = 2 -> 5 [] w = 4 -> 3]]
MCPairCost ==
    [image |-> [p \in {<<2, 2>>} |-> 3], video |-> [p \in {<<2, 2>>} |-> 6]]
MCReports ==
    [image |-> [w \in MCWidths |-> IF w = 2 THEN {4} ELSE {MCStepCost.image[w]}],
     video |-> [w \in MCWidths |-> IF w = 2 THEN {6} ELSE {MCStepCost.video[w]}]]
=============================================================================
