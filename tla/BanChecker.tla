----------------------------- MODULE BanChecker -----------------------------
(***************************************************************************)
(* bancheck/main.go: a process that loads all banned accounts, checks them *)
(* one after the other, through a proxy of its own, and lifts the ban of   *)
(* those that work.  What it writes then is the copy it loaded at the      *)
(* start of the round, minutes before.                                     *)
(***************************************************************************)
EXTENDS Accounts, Proxies

VARIABLES
  round,       \* the accounts of main's inner loop that are still to come
  checker      \* where checkAccount is, with its account and its proxy

checkvars == <<round, checker>>

Copy == [name : Account, doc : AccountDoc]             \* an opm.Account

Between == [at |-> "between"]
Check   == [at : {"markProxy", "login", "returnProxy"}, copy : Copy, proxy : ProxyId]

CheckInit == round = {} /\ checker = Between
-----------------------------------------------------------------------------
AllAccounts    == Account                              \* mutant: no filter
BannedAccounts == {a \in Account : accounts[a].banned}

(* GetBannedAccounts, one query; its result has no particular order. *)
GetBannedAccounts ==
  /\ checker = Between /\ round = {}
  /\ round' = {[name |-> a, doc |-> accounts[a]] : a \in BannedAccounts}
  /\ UNCHANGED <<accounts, proxies, checker>>

(* checkAccount, up to GetProxy's Find; without a proxy, because none is     *)
(* free or because MongoDB fails, it returns.                                *)
StartCheck ==
  /\ checker = Between
  /\ \E c \in round :
       /\ round' = round \ {c}
       /\ \/ \E p \in FreeProxies :
               checker' = [at |-> "markProxy", copy |-> c, proxy |-> p]
          \/ UNCHANGED checker
  /\ UNCHANGED <<accounts, proxies>>

MarkCheckProxy ==
  /\ checker.at = "markProxy"
  /\ MarkInUse(checker.proxy)
  /\ checker' = [checker EXCEPT !.at = "login"]
  /\ UNCHANGED <<accounts, round>>

(* The account works: Banned is cleared in the copy, and the copy is saved. *)
LiftBan ==
  /\ checker.at = "login"
  /\ SaveAccount(checker.copy.name, [checker.copy.doc EXCEPT !.banned = FALSE])
  /\ checker' = [checker EXCEPT !.at = "returnProxy"]
  /\ UNCHANGED <<proxies, round>>

(* GetPlayerMap fails, after all the attempts to log in. *)
KeepBan ==
  /\ checker.at = "login"
  /\ checker' = [checker EXCEPT !.at = "returnProxy"]
  /\ UNCHANGED <<accounts, proxies, round>>

(* The deferred ReturnProxy. *)
EndCheck ==
  /\ checker.at = "returnProxy"
  /\ ReturnProxy(checker.proxy)
  /\ checker' = Between
  /\ UNCHANGED <<accounts, round>>

(* The process dies and is started again. *)
RestartChecker ==
  /\ checker # Between
  /\ round' = {} /\ checker' = Between
  /\ UNCHANGED <<accounts, proxies>>

CheckerStep ==
  \/ GetBannedAccounts \/ StartCheck \/ MarkCheckProxy
  \/ LiftBan \/ KeepBan \/ EndCheck \/ RestartChecker

CheckerTypeOK == round \subseteq Copy /\ checker \in Check \cup {Between}
=============================================================================
