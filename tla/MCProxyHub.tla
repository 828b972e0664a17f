----------------------------- MODULE MCProxyHub -----------------------------
(* The hub with any traffic (Spec), and with the traffic it is built for. *)
EXTENDS ProxyHub, TLC

Symmetry == Permutations(Client) \cup Permutations(Request)

(* The proxy that connects first has a name: where liveness is checked, this *)
(* takes the place of the symmetry of clients.                               *)
First == CHOOSE c \in Client : TRUE
InOrder ==
  (\E c \in Client : at[c]["writer"] # "none") => at[First]["writer"] # "none"

CalmFairSpec ==
  Init /\ [][Next /\ CalmTraffic' /\ InOrder']_vars /\ Fairness
=============================================================================
