-------------------------- MODULE MCFairAccounting --------------------------
(***************************************************************************)
(* Two tenants of weights 1 and 2, three requests (tenant 1 owns two), two *)
(* steps each at most, step costs that differ from step to step.           *)
(***************************************************************************)
EXTENDS FairAccounting

MCWeight == <<1, 2>>
MCOwner  == <<1, 1, 2>>
MCSteps  == <<2, 1, 2>>
MCCumCost ==
    << [k \in 0 .. 2 |-> IF k = 0 THEN 0 ELSE IF k = 1 THEN 2 ELSE 3],
       [k \in 0 .. 1 |-> k],
       [k \in 0 .. 2 |-> k * k] >>
=============================================================================
