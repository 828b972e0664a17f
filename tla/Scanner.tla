------------------------------- MODULE Scanner -------------------------------
(***************************************************************************)
(* scanner/scanner.go: requestHandler, run by many goroutines at once, on  *)
(* top of the trainer queue (TrainerQueue) and the shared database         *)
(* (Accounts, Proxies).  A request takes a trainer from the queue, or      *)
(* builds one from a free proxy and a free account, scans with it, reports *)
(* what it learnt about the account and the proxy, and hands the trainer   *)
(* back.                                                                   *)
(*                                                                         *)
(* A step is one call to the database, one meeting on a channel or one     *)
(* write to scannerStatus, with the local work around it.  The proxy hub   *)
(* is the environment, in the detail of HubLinks: proxies connect, and     *)
(* after a disconnect each of the two goroutines of their client marks     *)
(* them dead.                                                              *)
(***************************************************************************)
EXTENDS Accounts, HubLinks, TrainerQueue, FiniteSets

CONSTANTS NoAccount, NoProxy

ASSUME NoneDistinct == NoAccount \notin Account /\ NoProxy \notin ProxyId

VARIABLES
  pc,          \* pc[h]: where request h is
  foundProxy,  \* foundProxy[h]: the proxy GetProxy found for h
  foundAcct,   \* foundAcct[h]: the account GetAccount found for h
  acct,        \* acct[t]: the username in t.Account
  proxy,       \* proxy[t]: the id in t.Proxy
  status       \* scannerStatus: account |-> proxy, or NoProxy if no entry

dbvars == <<accounts, proxies>>
svars == <<pc, foundProxy, foundAcct, acct, proxy, status, link>>
vars  == <<qvars, dbvars, svars>>

(* The request has asked for a trainer but has none yet. *)
Building == {"findProxy", "markProxy", "findAccount", "returnProxy",
             "markAccount", "newTrainer"}

(* It found its trainer unusable and has not yet told the database. *)
Unsettled == {"saveAccount", "findReplacement", "markReplacement",
              "useReplacement", "forgetBusy", "returnAccount"}

(* It found its trainer unusable and scannerStatus may still name it. *)
Listed == (Unsettled \ {"returnAccount"}) \cup {"forget"}

(* getMapResult runs: first, with a new proxy, or after a platform error. *)
Scanning == {"scan", "rescan", "again"}

Pc == {"idle", "get", "forget", "done"} \cup Building \cup Unsettled \cup Scanning

(* The sessions the model has; the code has no bound. *)
Room ==
  Cardinality(Live) + Cardinality({h \in Caller : pc[h] \in Building})
    < Cardinality(Trainer)

(* A scanner that starts before a proxy connects: NewTrainerFromDb fails,    *)
(* the queue is empty.  No account is marked as used by a former run.        *)
Init ==
  /\ buffer = <<>> /\ QInit
  /\ accounts \in [Account -> {d \in AccountDoc : d.used => Flagged(d)}]
  /\ pc = [h \in Caller |-> "idle"]
  /\ foundProxy = [h \in Caller |-> NoProxy]
  /\ foundAcct = [h \in Caller |-> NoAccount]
  /\ acct = [t \in Trainer |-> NoAccount]
  /\ proxy = [t \in Trainer |-> NoProxy]
  /\ status = [a \in Account |-> NoProxy]
  /\ LinksInit
-----------------------------------------------------------------------------
Goto(h, from, to) == pc[h] = from /\ pc' = [pc EXCEPT ![h] = to]

MyAcct(h)  == acct[held[h]]
MyFlags(h) == health[held[h]]

(* The opm.Account of h's trainer: GetAccount returned it with Used set. *)
MyAccountDoc(h) == [used    |-> TRUE,
                    banned  |-> "banned" \in MyFlags(h),
                    captcha |-> "captcha" \in MyFlags(h)]

(* A request, past the checks of method and coordinates, asks the queue. *)
Receive(h) ==
  /\ Goto(h, "idle", "get")
  /\ Get(h)
  /\ UNCHANGED <<dbvars, foundProxy, foundAcct, acct, proxy, status, link>>

GetTrainer(h) ==
  /\ Goto(h, "get", "scan")
  /\ Deliver(h)
  /\ UNCHANGED <<dbvars, foundProxy, foundAcct, acct, proxy, status, link>>

GetFails(h) ==
  /\ Room
  /\ Goto(h, "get", "findProxy")
  /\ Timeout(h)
  /\ UNCHANGED <<dbvars, foundProxy, foundAcct, acct, proxy, status, link>>

(* GetProxy, its Find.  Nothing matches, or MongoDB fails, which GetProxy    *)
(* reports in the same way: the client gets ErrBusy.                         *)
FindProxy(h) ==
  /\ \/ \E p \in FreeProxies :
          /\ Goto(h, "findProxy", "markProxy")
          /\ foundProxy' = [foundProxy EXCEPT ![h] = p]
     \/ /\ Goto(h, "findProxy", "idle")
        /\ UNCHANGED foundProxy
  /\ UNCHANGED <<qvars, dbvars, foundAcct, acct, proxy, status, link>>

MarkProxy(h) ==
  /\ Goto(h, "markProxy", "findAccount")
  /\ MarkInUse(foundProxy[h])
  /\ UNCHANGED <<qvars, accounts, foundProxy, foundAcct, acct, proxy, status, link>>

FindAccount(h) ==
  /\ \/ \E a \in FreeAccounts :
          /\ Goto(h, "findAccount", "markAccount")
          /\ foundAcct' = [foundAcct EXCEPT ![h] = a]
     \/ /\ Goto(h, "findAccount", "returnProxy")
        /\ UNCHANGED foundAcct
  /\ UNCHANGED <<qvars, dbvars, foundProxy, acct, proxy, status, link>>

(* No account: the proxy goes back, the client gets ErrBusy. *)
GiveProxyBack(h) ==
  /\ Goto(h, "returnProxy", "idle")
  /\ ReturnProxy(foundProxy[h])
  /\ foundProxy' = [foundProxy EXCEPT ![h] = NoProxy]
  /\ UNCHANGED <<qvars, accounts, foundAcct, acct, proxy, status, link>>

MarkAccount(h) ==
  /\ Goto(h, "markAccount", "newTrainer")
  /\ MarkUsed(foundAcct[h])
  /\ UNCHANGED <<qvars, proxies, foundProxy, foundAcct, acct, proxy, status, link>>

(* NewTrainerSession, SetProxy and the entry in scannerStatus. *)
BuildTrainer(h) ==
  /\ Goto(h, "newTrainer", "scan")
  /\ \E t \in Trainer :
       /\ NewTrainer(h, t)
       /\ acct' = [acct EXCEPT ![t] = foundAcct[h]]
       /\ proxy' = [proxy EXCEPT ![t] = foundProxy[h]]
  /\ status' = [status EXCEPT ![foundAcct[h]] = foundProxy[h]]
  /\ foundProxy' = [foundProxy EXCEPT ![h] = NoProxy]
  /\ foundAcct' = [foundAcct EXCEPT ![h] = NoAccount]
  /\ UNCHANGED <<dbvars, link>>
-----------------------------------------------------------------------------
(* getMapResult has an answer, or an error that says nothing about the       *)
(* account or the proxy: the request's timeout, a network error.             *)
ScanEnds(h) ==
  /\ \E from \in Scanning : Goto(h, from, "done")
  /\ UNCHANGED <<qvars, dbvars, foundProxy, foundAcct, acct, proxy, status, link>>

(* ErrInvalidPlatformRequest: one more try, whose error is not looked at. *)
ScanAgain(h) ==
  /\ \E from \in {"scan", "rescan"} : Goto(h, from, "again")
  /\ UNCHANGED <<qvars, dbvars, foundProxy, foundAcct, acct, proxy, status, link>>

(* ErrProxyDead on the first try: the hub does not know the id, which        *)
(* ProxyHub shows possible for a moment after the connection too, or the     *)
(* connection of the proxy breaks.                                           *)
ProxyDies(h) ==
  /\ Goto(h, "scan", "findReplacement")
  /\ SetHealth(h, MyFlags(h) \cup {"dead"})
  /\ UNCHANGED <<dbvars, foundProxy, foundAcct, acct, proxy, status, link>>

(* The server refuses the account: banned, or flagged for a captcha. *)
AccountRefused(h) ==
  /\ \E from \in {"scan", "rescan"} : Goto(h, from, "saveAccount")
  /\ \E flag \in AccountFlag : SetHealth(h, MyFlags(h) \cup {flag})
  /\ UNCHANGED <<dbvars, foundProxy, foundAcct, acct, proxy, status, link>>

(* GetProxy for a trainer whose proxy died. *)
FindReplacement(h) ==
  /\ \/ \E p \in FreeProxies :
          /\ Goto(h, "findReplacement", "markReplacement")
          /\ foundProxy' = [foundProxy EXCEPT ![h] = p]
     \/ /\ Goto(h, "findReplacement", "forgetBusy")
        /\ UNCHANGED foundProxy
  /\ UNCHANGED <<qvars, dbvars, foundAcct, acct, proxy, status, link>>

MarkReplacement(h) ==
  /\ Goto(h, "markReplacement", "useReplacement")
  /\ MarkInUse(foundProxy[h])
  /\ UNCHANGED <<qvars, accounts, foundProxy, foundAcct, acct, proxy, status, link>>

SilentReplacement(h) ==                                \* mutant: old entry
  /\ Goto(h, "useReplacement", "rescan")
  /\ SetHealth(h, MyFlags(h) \ {"dead"})
  /\ proxy' = [proxy EXCEPT ![held[h]] = foundProxy[h]]
  /\ foundProxy' = [foundProxy EXCEPT ![h] = NoProxy]
  /\ UNCHANGED <<dbvars, foundAcct, acct, status, link>>

(* SetProxy with a proxy that is not dead, and the entry in scannerStatus. *)
UseReplacement(h) ==
  /\ Goto(h, "useReplacement", "rescan")
  /\ SetHealth(h, MyFlags(h) \ {"dead"})
  /\ proxy' = [proxy EXCEPT ![held[h]] = foundProxy[h]]
  /\ status' = [status EXCEPT ![MyAcct(h)] = foundProxy[h]]
  /\ foundProxy' = [foundProxy EXCEPT ![h] = NoProxy]
  /\ UNCHANGED <<dbvars, foundAcct, acct, link>>

(* No proxy left: the account leaves scannerStatus and goes back. *)
KeepEntry(h) ==                                        \* mutant: no delete
  /\ Goto(h, "forgetBusy", "returnAccount")
  /\ UNCHANGED <<qvars, dbvars, foundProxy, foundAcct, acct, proxy, status, link>>

ForgetBusy(h) ==
  /\ Goto(h, "forgetBusy", "returnAccount")
  /\ status' = [status EXCEPT ![MyAcct(h)] = NoProxy]
  /\ UNCHANGED <<qvars, dbvars, foundProxy, foundAcct, acct, proxy, link>>

KeepAccount(h) ==                                      \* mutant: no return
  /\ Goto(h, "returnAccount", "done")
  /\ UNCHANGED <<qvars, dbvars, foundProxy, foundAcct, acct, proxy, status, link>>

ReturnAccount(h) ==
  /\ Goto(h, "returnAccount", "done")
  /\ SaveAccount(MyAcct(h), [MyAccountDoc(h) EXCEPT !.used = FALSE])
  /\ UNCHANGED <<qvars, proxies, foundProxy, foundAcct, acct, proxy, status, link>>

(* UpdateAccount after a refusal. *)
UpdateAccount(h) ==
  /\ Goto(h, "saveAccount", "forget")
  /\ SaveAccount(MyAcct(h), MyAccountDoc(h))
  /\ UNCHANGED <<qvars, proxies, foundProxy, foundAcct, acct, proxy, status, link>>

Forget(h) ==
  /\ Goto(h, "forget", "done")
  /\ status' = [status EXCEPT ![MyAcct(h)] = NoProxy]
  /\ UNCHANGED <<qvars, dbvars, foundProxy, foundAcct, acct, proxy, link>>

(* The answer is written; the deferred trainerQueue.Queue runs. *)
Finish(h) ==
  /\ Goto(h, "done", "idle")
  /\ Queue(h)
  /\ \/ Reusable(held[h]) /\ UNCHANGED <<acct, proxy>>
     \/ /\ ~Reusable(held[h])
        /\ acct' = [acct EXCEPT ![held[h]] = NoAccount]
        /\ proxy' = [proxy EXCEPT ![held[h]] = NoProxy]
  /\ UNCHANGED <<dbvars, foundProxy, foundAcct, status, link>>
-----------------------------------------------------------------------------
(* The goroutines of the queue. *)
QueueStep(t) ==
  /\ Wake(t) \/ Accept(t)
  /\ UNCHANGED <<dbvars, svars>>

(* The hub: wsHandler's AddProxy, Hub.Remove, and UpdateProxy from each of   *)
(* the two goroutines that run handleDisconnect.                             *)
Connect(p) ==
  /\ LinkUp(p)
  /\ UNCHANGED <<qvars, accounts, pc, foundProxy, foundAcct, acct, proxy, status>>

Disconnect(p) ==
  /\ LinkDown(p)
  /\ UNCHANGED <<qvars, dbvars, pc, foundProxy, foundAcct, acct, proxy, status>>

MarkDead(p) ==
  /\ LinkDead(p)
  /\ UNCHANGED <<qvars, accounts, pc, foundProxy, foundAcct, acct, proxy, status>>

(* The steps of a request once it is accepted. *)
HandlerStep(h) ==
  \/ GetTrainer(h) \/ GetFails(h)
  \/ FindProxy(h) \/ MarkProxy(h) \/ FindAccount(h) \/ GiveProxyBack(h)
  \/ MarkAccount(h) \/ BuildTrainer(h)
  \/ ScanEnds(h) \/ ScanAgain(h) \/ ProxyDies(h) \/ AccountRefused(h)
  \/ FindReplacement(h) \/ MarkReplacement(h) \/ UseReplacement(h)
  \/ ForgetBusy(h) \/ ReturnAccount(h) \/ UpdateAccount(h) \/ Forget(h)
  \/ Finish(h)

Next ==
  \/ \E h \in Caller : Receive(h) \/ HandlerStep(h)
  \/ \E t \in Trainer : QueueStep(t)
  \/ \E p \in ProxyId : Connect(p) \/ Disconnect(p) \/ MarkDead(p)

Spec == Init /\ [][Next]_vars

(* The goroutines run, and getMapResult comes to an end: it waits for        *)
(* tickers that go on forever and for calls that have a deadline.  A request *)
(* in Get is served when its turn comes, or its timer fires; strongly fair,  *)
(* since Room, a bound of the model, stops the timer now and then.           *)
Fairness ==
  /\ \A h \in Caller : /\ WF_vars(HandlerStep(h))
                       /\ SF_vars(GetTrainer(h) \/ GetFails(h))
  /\ \A t \in Trainer : WF_vars(QueueStep(t))

FairSpec == Spec /\ Fairness
-----------------------------------------------------------------------------
STypeOK ==
  /\ AccountsTypeOK /\ ProxiesTypeOK
  /\ pc \in [Caller -> Pc]
  /\ foundProxy \in [Caller -> ProxyId \cup {NoProxy}]
  /\ foundAcct \in [Caller -> Account \cup {NoAccount}]
  /\ acct \in [Trainer -> Account \cup {NoAccount}]
  /\ proxy \in [Trainer -> ProxyId \cup {NoProxy}]
  /\ status \in [Account -> ProxyId \cup {NoProxy}]
  /\ link \in [ProxyId -> Link]

(* The request that has trainer t is in one of these places. *)
UserIn(t, places) == \E h \in Caller : held[h] = t /\ pc[h] \in places

(* A session that still stands for its account: it is usable, or the request *)
(* that found it unusable has yet to settle that, in one of these places.    *)
StandsFor(t, a, places) ==
  /\ t \in Live /\ acct[t] = a
  /\ health[t] = {} \/ UserIn(t, places)

(* No account gets lost, whatever requests, proxies and timers do: one that  *)
(* the database calls used, and neither banned nor flagged, is the account   *)
(* of a session that is in use or on its way through the queue.  Otherwise   *)
(* GetAccount would never hand it out again.                                 *)
NoAccountLeak ==
  \A a \in Account :
    accounts[a].used /\ ~Flagged(accounts[a]) =>
      \/ \E t \in Trainer : StandsFor(t, a, Unsettled)
      \/ \E h \in Caller : pc[h] = "newTrainer" /\ foundAcct[h] = a

(* What scannerStatus reports is in use: behind every entry is a session     *)
(* that works, or one whose request is about to delete the entry.            *)
StatusHasTrainer ==
  \A a \in Account :
    status[a] # NoProxy => \E t \in Trainer : StandsFor(t, a, Listed)

(* Every request that is accepted gets its answer.                           *)
RequestsEnd == \A h \in Caller : (pc[h] = "get") ~> (pc[h] = "idle")

(* GetProxy and GetAccount as if each were one call to the database: no      *)
(* request looks for a proxy while another is about to mark the one it       *)
(* found, nor for an account.                                                *)
AtomicGets ==
  \A g, h \in Caller :
    \/ {pc[g], pc[h]} \subseteq {"markProxy", "markReplacement"}
    \/ {pc[g], pc[h]} = {"markAccount"}
    => g = h

AtomicSpec == Init /\ [][Next /\ AtomicGets']_vars

-----------------------------------------------------------------------------
(* The request that uses t gave its account back, and is about to drop t. *)
Returned(t) == health[t] = {"dead"} /\ UserIn(t, {"done"})

(* "GetAccount tries to get an account from the db that is neither in use,   *)
(* nor banned": no two sessions have the same account, unless one of them    *)
(* has given it back.                                                        *)
AccountExclusive ==
  \A t, u \in Live :
    acct[t] = acct[u] => t = u \/ Returned(t) \/ Returned(u)

(* Two sessions never share a proxy, not even a dead one.                    *)
ProxyExclusive == \A t, u \in Live : proxy[t] = proxy[u] => t = u

(* No request scans with an account that the database says is banned or      *)
(* flagged, be it from before or from the report of another request, whose   *)
(* session may have had the account before it; nor with a session whose      *)
(* proxy it, or an earlier request, found dead and has not replaced.         *)
ScansUsable ==
  \A h \in Caller :
    pc[h] \in Scanning =>
      /\ held[h] # NoTrainer
      /\ MyFlags(h) = {} /\ ~Flagged(accounts[MyAcct(h)])

(* opm.StatusEntry "is used by the scanner to report accounts/proxies in     *)
(* use": every session that works has its entry, with its present proxy      *)
(* (StatusHasTrainer is the other direction).                                *)
StatusExact ==
  \A t \in Live :
    (health[t] = {} \/ UserIn(t, {"saveAccount", "findReplacement",
                                  "markReplacement", "useReplacement"}))
      => status[acct[t]] = proxy[t]

(* An account that a request reported as banned or flagged stays so: nothing *)
(* in the scanner writes an older copy of it over the report.                *)
BansStick ==
  [][\A a \in Account : Flagged(accounts[a]) => Flagged(accounts'[a])]_vars

(* ProxyStats returns "the number of currently alive/used proxies", and an   *)
(* opm.Proxy is "a proxy that is connected to the hub": once the hub has     *)
(* marked a lost proxy dead, and does not touch it again, it stays dead.     *)
DeadStaysDead ==
  \A p \in ProxyId : link[p] = "buried" => proxies[p].dead
=============================================================================
