------------------------------ MODULE MCScanner ------------------------------
(* A scanner whose accounts are all free at the start. *)
EXTENDS Scanner, TLC

Symmetry == Permutations(Trainer) \cup Permutations(Account)
              \cup Permutations(ProxyId) \cup Permutations(Caller)

MCInit ==
  /\ accounts = [a \in Account |->
                  [used |-> FALSE, banned |-> FALSE, captcha |-> FALSE]]
  /\ Init

MCSpec         == MCInit /\ [][Next]_vars
AtomicFairSpec == MCInit /\ [][Next /\ AtomicGets']_vars /\ Fairness
=============================================================================
