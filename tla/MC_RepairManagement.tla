------------------------- MODULE MC_RepairManagement -------------------------
(* RepairManagement for TLC.  The nodes differ by what they may do, and the queues *)
(* by their order, so there is no symmetry.  In a cluster, where the queues have   *)
(* no order, one of them is there at first, and may go, or the other may come.     *)
EXTENDS RepairManagement, TLC

MCInit == Init /\ (strategy = "CLUSTER" => active = {1})

MCSpec == MCInit /\ [][Next]_vars /\ Fairness
==============================================================================
