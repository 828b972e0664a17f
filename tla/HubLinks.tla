------------------------------ MODULE HubLinks ------------------------------
(***************************************************************************)
(* What the proxy hub does to the Proxy collection, whatever its channels  *)
(* and goroutines do: under every id a proxy connects once, disconnects,   *)
(* and is then marked dead by each of the two goroutines of its client.    *)
(* ProxyHub implements it (LinksSpec); Scanner, where others write to the  *)
(* collection between these steps, has it for an environment.              *)
(***************************************************************************)
EXTENDS Proxies

VARIABLE link         \* link[p]: the hub's connection to proxy p

linkvars == <<proxies, link>>

(* "removed" .. "buried": disconnected, 0, 1, 2 goroutines marked it dead. *)
Link == {"new", "connected", "removed", "marked", "buried"}

LinksInit ==
  /\ proxies = [p \in ProxyId |-> NoRecord]       \* after DropProxies
  /\ link = [p \in ProxyId |-> "new"]
-----------------------------------------------------------------------------
Move(p, from, to) == link[p] = from /\ link' = [link EXCEPT ![p] = to]

LinkUp(p)   == Move(p, "new", "connected") /\ AddProxy(p)
LinkDown(p) == Move(p, "connected", "removed")
LinkDead(p) ==
  /\ Move(p, "removed", "marked") \/ Move(p, "marked", "buried")
  /\ UpdateProxy(p)

LinksNext ==
  \E p \in ProxyId :
    \/ LinkUp(p) \/ LinkDead(p)
    \/ LinkDown(p) /\ UNCHANGED proxies

LinksSpec == LinksInit /\ [][LinksNext]_linkvars
=============================================================================
