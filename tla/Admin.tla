-------------------------------- MODULE Admin --------------------------------
(***************************************************************************)
(* main.go: the commands of the admin tool that change the Accounts and    *)
(* Proxy collections, and db.go's methods under them.  An UpdateAll is one *)
(* step here; MongoDB applies it document by document, and no property is  *)
(* about two documents at once.                                            *)
(*                                                                         *)
(* -ufs asks a scanner for its status and then makes four UpdateAll calls, *)
(* with the answer as it was when the scanner gave it.                     *)
(***************************************************************************)
EXTENDS Accounts, Proxies

VARIABLE job           \* where Cleanup is, with the entries it was given

NoJob == [at |-> "none"]
Job   == [at : {"useAccounts", "freeAccounts", "useProxies", "freeProxies"},
          names : SUBSET Account, ids : SUBSET ProxyId]

(* $set of one field, for the documents that a condition selects. *)
SetUsed(names, value) ==
  accounts' = [a \in Account |-> IF a \in names
                                 THEN [accounts[a] EXCEPT !.used = value]
                                 ELSE accounts[a]]

SetUse(ids, value) ==
  proxies' = [p \in ProxyId |-> IF p \in ids /\ proxies[p] # NoRecord
                                THEN [proxies[p] EXCEPT !.use = value]
                                ELSE proxies[p]]

RemoveProxies(ids) ==
  proxies' = [p \in ProxyId |-> IF p \in ids THEN NoRecord ELSE proxies[p]]
-----------------------------------------------------------------------------
(* -ufs: the entries of the scanner's status page. *)
ReadStatus(entries) ==
  /\ job = NoJob
  /\ job' = [at |-> "useAccounts", names |-> {e.name : e \in entries},
             ids |-> {e.id : e \in entries}]
  /\ UNCHANGED <<accounts, proxies>>

(* Cleanup's $in and $nin updates. *)
UseListedAccounts ==
  /\ job.at = "useAccounts"
  /\ SetUsed(job.names, TRUE)
  /\ job' = [job EXCEPT !.at = "freeAccounts"]
  /\ UNCHANGED proxies

FreeAllAccounts ==                                     \* mutant: no $nin
  /\ job.at = "freeAccounts"
  /\ SetUsed(Account, FALSE)
  /\ job' = [job EXCEPT !.at = "useProxies"]
  /\ UNCHANGED proxies

FreeOtherAccounts ==
  /\ job.at = "freeAccounts"
  /\ SetUsed(Account \ job.names, FALSE)
  /\ job' = [job EXCEPT !.at = "useProxies"]
  /\ UNCHANGED proxies

UseListedProxies ==
  /\ job.at = "useProxies"
  /\ SetUse(job.ids, TRUE)
  /\ job' = [job EXCEPT !.at = "freeProxies"]
  /\ UNCHANGED accounts

FreeOtherProxies ==
  /\ job.at = "freeProxies"
  /\ SetUse(ProxyId \ job.ids, FALSE)
  /\ job' = NoJob
  /\ UNCHANGED accounts

(* -cleanaccounts, -cleanproxies, -removedeadproxies and -dropproxies. *)
MarkAccountsAsUnused ==
  /\ job = NoJob
  /\ SetUsed(Account, FALSE)
  /\ UNCHANGED <<proxies, job>>

MarkProxiesAsUnused ==
  /\ job = NoJob
  /\ SetUse(ProxyId, FALSE)
  /\ UNCHANGED <<accounts, job>>

RemoveDeadProxies ==
  /\ job = NoJob
  /\ RemoveProxies({p \in ProxyId : proxies[p] = NoRecord \/ proxies[p].dead})
  /\ UNCHANGED <<accounts, job>>

DropProxies ==
  /\ job = NoJob
  /\ RemoveProxies(ProxyId)
  /\ UNCHANGED <<accounts, job>>

Cleanup ==
  UseListedAccounts \/ FreeOtherAccounts \/ UseListedProxies \/ FreeOtherProxies

Command ==
  \/ MarkAccountsAsUnused \/ MarkProxiesAsUnused
  \/ RemoveDeadProxies \/ DropProxies

AdminTypeOK == job \in Job \cup {NoJob}
=============================================================================
