------------------------------- MODULE Proxies -------------------------------
(***************************************************************************)
(* db/db.go: the Proxy collection, written by the proxy hub and by the     *)
(* scanner.  As in Accounts, an operator is one call to MongoDB, and       *)
(* GetProxy, which finds and then updates, is two.                         *)
(***************************************************************************)
CONSTANTS
  ProxyId,     \* ids the hub hands out
  NoRecord     \* the collection holds no document with this id

VARIABLE proxies      \* the Proxy collection: the document a call by id finds

ProxyDoc == [use : BOOLEAN, dead : BOOLEAN]

ASSUME NoRecordDistinct == NoRecord \notin ProxyDoc

(* GetProxy's Find: any document that matches. *)
FreeProxies == {p \in ProxyId : proxies[p] = [use |-> FALSE, dead |-> FALSE]}

(* Update of the document with this id, if there is one. *)
SaveProxy(p, doc) ==
  proxies' = [proxies EXCEPT ![p] = IF @ = NoRecord THEN @ ELSE doc]

(* GetProxy's Update. *)
LookOnlyProxy(p) == UNCHANGED proxies                  \* mutant: no Update
ReplaceByUse(p)  == SaveProxy(p, [use |-> TRUE])       \* mutant: no $set
MarkInUse(p)     == SaveProxy(p, [use |-> TRUE, dead |-> FALSE])

(* ReturnProxy writes a document of its own, whatever was there before. *)
ReturnProxy(p) == SaveProxy(p, [use |-> FALSE, dead |-> FALSE])

(* The hub's calls.  AddProxy inserts.  DropProxies takes the unique index   *)
(* on id along with the collection, and only the next process that connects  *)
(* makes it again: under an id that has a document an insert is refused, or  *)
(* adds another one.  Calls by id find the older one all the same; ProxyHub, *)
(* the only module with inserts under an id twice, counts the others.        *)
(* UpdateProxy upserts.                                                      *)
Overwrite(p) ==                                        \* mutant: an upsert
  proxies' = [proxies EXCEPT ![p] = [use |-> FALSE, dead |-> FALSE]]

AddProxy(p) ==
  proxies' = [proxies EXCEPT ![p] = IF @ = NoRecord
                                    THEN [use |-> FALSE, dead |-> FALSE] ELSE @]

UpdateProxy(p) == proxies' = [proxies EXCEPT ![p] = [use |-> FALSE, dead |-> TRUE]]

ProxiesTypeOK == proxies \in [ProxyId -> ProxyDoc \cup {NoRecord}]
=============================================================================
