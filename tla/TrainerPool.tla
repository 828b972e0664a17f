----------------------------- MODULE TrainerPool -----------------------------
(***************************************************************************)
(* What the scanner expects of util.TrainerQueue, whatever its channels    *)
(* and goroutines do: every TrainerSession has one owner.  It waits in the *)
(* pool, or exactly one request uses it, or it is outside (not yet built,  *)
(* or given up).  It changes hands only through the pool, and only the     *)
(* request that uses a trainer may give it up.                             *)
(***************************************************************************)
CONSTANTS
  Trainer,    \* TrainerSession objects
  Caller      \* request goroutines

InPool  == "in pool"
Outside == "outside"

VARIABLE owner

TypeOK == owner \in [Trainer -> Caller \cup {InPool, Outside}]

Init == owner \in [Trainer -> {InPool, Outside}]

EmptyHanded(c) == \A t \in Trainer : owner[t] # c

(* An idle request gets a trainer from the pool, or builds one. *)
Take(c, t) ==
  /\ owner[t] \in {InPool, Outside}
  /\ EmptyHanded(c)
  /\ owner' = [owner EXCEPT ![t] = c]

(* The request is done with its trainer: back to the pool, or given up. *)
Leave(c, t) ==
  /\ owner[t] = c
  /\ \E place \in {InPool, Outside} : owner' = [owner EXCEPT ![t] = place]

Next == \E c \in Caller, t \in Trainer : Take(c, t) \/ Leave(c, t)

Spec == Init /\ [][Next]_owner
=============================================================================
