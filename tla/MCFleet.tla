------------------------------- MODULE MCFleet -------------------------------
(* A fleet that is administered with care (CarefulSpec), and one that is      *)
(* left alone.                                                               *)
EXTENDS Fleet, TLC

Symmetry == Permutations(Trainer) \cup Permutations(Account)

(* No crash of the scanner, no command of the admin tool. *)
SteadyNext == Serve \/ Load \/ LogIn \/ CheckBans
SteadySpec == FreshInit /\ [][SteadyNext]_fvars
=============================================================================
