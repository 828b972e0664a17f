--------------------------- MODULE MCTrainerQueue ---------------------------
(* A scanner that loaded two of three possible trainers; two requests. *)
EXTENDS TrainerQueue

CONSTANTS t1, t2, t3

MCInit == buffer = <<t1, t2>> /\ QInit
MCFairSpec == MCInit /\ [][QNext]_qvars /\ QFairness
=============================================================================
