----------------------------- MODULE MCApiServer -----------------------------
(* The api server next to an admin who removes only what has expired          *)
(* (CarefulSpec).                                                            *)
EXTENDS ApiServer, TLC

Symmetry == Permutations(Request) \cup Permutations(ObjectId) \cup Permutations(Key)
=============================================================================
