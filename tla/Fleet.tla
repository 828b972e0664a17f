-------------------------------- MODULE Fleet --------------------------------
(***************************************************************************)
(* The processes that share the Accounts and Proxy collections: a scanner  *)
(* (Scanner), the ban checker (BanChecker), the admin tool (Admin) and, as *)
(* in Scanner, the proxy hub.  The scanner can die, which loses all its    *)
(* sessions and nothing of the database; when it is started again, main    *)
(* loads sessions from the database until there are enough or no more,     *)
(* and only then listens.                                                  *)
(*                                                                         *)
(* Meanwhile main's login goroutine works through the loaded sessions,     *)
(* without regard to the requests that use them.  Whether a session is     *)
(* logged in is left out: a request logs in where it has to.               *)
(***************************************************************************)
EXTENDS Scanner, BanChecker, Admin

CONSTANT MaxSessions   \* scannerSettings.Accounts

ASSUME IdsAreNumbers == ProxyId \subseteq Nat \ {0}
ASSUME MaxSessionsPositive == MaxSessions \in Nat \ {0}

VARIABLES
  life,        \* where the scanner's main is
  login        \* where its login goroutine is, with the sessions to come

Serving == [at |-> "serving"]
Down    == [at |-> "down"]
FindAny == [at |-> "findProxy"]
Life == {Serving, Down, FindAny}
          \cup [at : {"markProxy", "findAccount", "returnProxy"}, proxy : ProxyId]
          \cup [at : {"markAccount", "append"}, proxy : ProxyId, acct : Account]

NoLogin == [at |-> "none"]
Login == {NoLogin}
           \cup [at : {"start", "tick", "call", "findProxy"}, todo : Seq(Trainer)]
           \cup [at : {"markProxy"}, todo : Seq(Trainer), proxy : ProxyId]

requests == <<pc, foundProxy, foundAcct>>
sessions == <<acct, proxy, status>>
fvars    == <<vars, checkvars, job, life, login>>

FInit ==
  Init /\ CheckInit /\ job = NoJob /\ life = Down /\ login = NoLogin
-----------------------------------------------------------------------------
(* main, up to listenAndServe, without its database calls. *)
Start ==
  /\ life = Down
  /\ life' = FindAny
  /\ UNCHANGED <<vars, checkvars, job, login>>

(* The list of sessions is complete: the login goroutine starts, and main    *)
(* goes on to listenAndServe.                                                *)
Go(list) ==
  /\ life' = Serving
  /\ login' = IF list = <<>> THEN NoLogin ELSE [at |-> "start", todo |-> list]

(* NewTrainerFromDb.  When it fails, because nothing is free or because      *)
(* MongoDB does, the scanner goes on with what it has.                       *)
LoadFindProxy ==
  /\ life = FindAny
  /\ \/ /\ \E p \in FreeProxies : life' = [at |-> "markProxy", proxy |-> p]
        /\ UNCHANGED login
     \/ Go(buffer)
  /\ UNCHANGED <<vars, checkvars, job>>

LoadMarkProxy ==
  /\ life.at = "markProxy"
  /\ MarkInUse(life.proxy)
  /\ life' = [life EXCEPT !.at = "findAccount"]
  /\ UNCHANGED <<accounts, qvars, svars, checkvars, job, login>>

LoadFindAccount ==
  /\ life.at = "findAccount"
  /\ \/ \E a \in FreeAccounts :
          life' = [at |-> "markAccount", proxy |-> life.proxy, acct |-> a]
     \/ life' = [life EXCEPT !.at = "returnProxy"]
  /\ UNCHANGED <<vars, checkvars, job, login>>

LoadReturnProxy ==
  /\ life.at = "returnProxy"
  /\ ReturnProxy(life.proxy)
  /\ Go(buffer)
  /\ UNCHANGED <<accounts, qvars, svars, checkvars, job>>

LoadMarkAccount ==
  /\ life.at = "markAccount"
  /\ MarkUsed(life.acct)
  /\ life' = [life EXCEPT !.at = "append"]
  /\ UNCHANGED <<proxies, qvars, svars, checkvars, job, login>>

(* The session joins the list that NewTrainerQueue will get, and             *)
(* scannerStatus, until there are enough.                                    *)
SilentLoad ==                                          \* mutant: no entry
  /\ life.at = "append"
  /\ \E t \in Trainer \ Live :
       /\ buffer' = Append(buffer, t)
       /\ acct' = [acct EXCEPT ![t] = life.acct]
       /\ proxy' = [proxy EXCEPT ![t] = life.proxy]
  /\ \/ Len(buffer') >= MaxSessions /\ Go(buffer')
     \/ Len(buffer') < MaxSessions /\ life' = FindAny /\ UNCHANGED login
  /\ UNCHANGED <<dbvars, getting, held, sleeping, sending, health, requests,
                 status, link, checkvars, job>>

LoadAppend ==
  /\ life.at = "append"
  /\ \E t \in Trainer \ Live :
       /\ buffer' = Append(buffer, t)
       /\ acct' = [acct EXCEPT ![t] = life.acct]
       /\ proxy' = [proxy EXCEPT ![t] = life.proxy]
  /\ status' = [status EXCEPT ![life.acct] = life.proxy]
  /\ \/ Len(buffer') >= MaxSessions /\ Go(buffer')
     \/ Len(buffer') < MaxSessions /\ life' = FindAny /\ UNCHANGED login
  /\ UNCHANGED <<dbvars, getting, held, sleeping, sending, health, requests,
                 link, checkvars, job>>

(* The scanner's process dies. *)
Crash ==
  /\ life # Down
  /\ life' = Down /\ login' = NoLogin
  /\ buffer' = <<>> /\ getting' = {} /\ sleeping' = {} /\ sending' = {}
  /\ held' = [h \in Caller |-> NoTrainer]
  /\ health' = [t \in Trainer |-> {}]
  /\ pc' = [h \in Caller |-> "idle"]
  /\ foundProxy' = [h \in Caller |-> NoProxy]
  /\ foundAcct' = [h \in Caller |-> NoAccount]
  /\ acct' = [t \in Trainer |-> NoAccount]
  /\ proxy' = [t \in Trainer |-> NoProxy]
  /\ status' = [a \in Account |-> NoProxy]
  /\ UNCHANGED <<dbvars, link, checkvars, job>>

ForgetIds == link' = [p \in ProxyId |-> "new"]          \* mutant: from 1 again
CountOn ==
  LET recorded == {p \in ProxyId : proxies[p] # NoRecord} IN
  link' = [p \in ProxyId |-> IF \A q \in recorded : p > q THEN "new" ELSE "buried"]

(* The proxy hub dies and is started again: main counts on from the largest  *)
(* id in the collection (MaxProxyId; 0 if it is empty) and drops it.         *)
RestartHub ==
  /\ CountOn
  /\ RemoveProxies(ProxyId)
  /\ UNCHANGED <<accounts, qvars, requests, sessions, checkvars, job, life, login>>
-----------------------------------------------------------------------------
(* The login goroutine.  It may receive from loginTicks before main has      *)
(* assigned that, and then it blocks for ever.                               *)
BlockOnNil ==
  /\ login.at = "start"
  /\ login' = NoLogin
  /\ UNCHANGED <<vars, checkvars, job, life>>

TickComes ==
  /\ login.at \in {"start", "tick"}
  /\ login' = [login EXCEPT !.at = "call"]
  /\ UNCHANGED <<vars, checkvars, job, life>>

NextLogin ==
  login' = IF Len(login.todo) = 1 THEN NoLogin
           ELSE [at |-> "tick", todo |-> Tail(login.todo)]

(* A request has logged the session in, Login succeeds, or it fails with an  *)
(* error that is only logged.                                                *)
LoginDone ==
  /\ login.at \in {"start", "tick", "call"}
  /\ NextLogin
  /\ UNCHANGED <<vars, checkvars, job, life>>

(* ErrProxyDead.  The check after GetProxy is the wrong way round: a proxy   *)
(* it gets is dropped, and without one the session gets the proxy 0.         *)
LoginProxyDead ==
  /\ login.at = "call"
  /\ login' = [login EXCEPT !.at = "findProxy"]
  /\ UNCHANGED <<vars, checkvars, job, life>>

LoginFindProxy ==
  /\ login.at = "findProxy"
  /\ \/ /\ \E p \in FreeProxies :
             login' = [at |-> "markProxy", todo |-> login.todo, proxy |-> p]
        /\ UNCHANGED <<health, proxy>>
     \/ /\ LET t == Head(login.todo) IN
           /\ health' = [health EXCEPT ![t] = @ \ {"dead"}]
           /\ proxy' = [proxy EXCEPT ![t] = NoProxy]
        /\ NextLogin
  /\ UNCHANGED <<dbvars, buffer, getting, held, sleeping, sending, requests,
                 acct, status, link, checkvars, job, life>>

LoginMarkProxy ==
  /\ login.at = "markProxy"
  /\ MarkInUse(login.proxy)
  /\ NextLogin
  /\ UNCHANGED <<accounts, qvars, svars, checkvars, job, life>>

LogIn ==
  \/ BlockOnNil \/ TickComes \/ LoginDone
  \/ LoginProxyDead \/ LoginFindProxy \/ LoginMarkProxy
-----------------------------------------------------------------------------
(* A request, a goroutine of the queue, or the hub.  A session that the      *)
(* login goroutine still has is not another one later.                       *)
Serve ==
  /\ \/ life = Serving /\ \E h \in Caller : Receive(h) \/ HandlerStep(h)
     \/ \E t \in Trainer : QueueStep(t)
     \/ \E p \in ProxyId : Connect(p) \/ Disconnect(p) \/ MarkDead(p)
  /\ login # NoLogin => Live' \subseteq Live \cup (Trainer \ Range(login.todo))
  /\ UNCHANGED <<checkvars, job, life, login>>

CheckBans == CheckerStep /\ UNCHANGED <<qvars, svars, job, life, login>>

(* -ufs gets no answer from a scanner that does not listen. *)
Entries == {[name |-> a, id |-> status[a]] : a \in {b \in Account : status[b] # NoProxy}}

Administer ==
  /\ \/ life = Serving /\ ReadStatus(Entries)
     \/ Cleanup
     \/ Command
  /\ UNCHANGED <<qvars, svars, checkvars, life, login>>

Load ==
  \/ Start \/ LoadFindProxy \/ LoadMarkProxy \/ LoadFindAccount
  \/ LoadReturnProxy \/ LoadMarkAccount \/ LoadAppend

FNext == Serve \/ Load \/ LogIn \/ Crash \/ RestartHub \/ CheckBans \/ Administer

FSpec == FInit /\ [][FNext]_fvars
-----------------------------------------------------------------------------
(* A fleet that is administered with care.                                   *)

(* The scanner has no request and neither loads nor logs in, the checker has *)
(* no proxy.                                                                 *)
Resting ==
  /\ life \in {Serving, Down} /\ login = NoLogin
  /\ \A h \in Caller : pc[h] = "idle"
  /\ checker = Between

(* Proxies get their records in the order of their ids. *)
InOrder ==
  \A p, q \in ProxyId : p < q /\ link[p] = "new" => link[q] = "new"

(* No hub will hand out an id that the scanner reports.                      *)
ReportedRetired ==
  \A a \in Account : status[a] # NoProxy => link[status[a]] # "new"

(* One account at least is neither banned nor flagged: with none left the    *)
(* scanner has nothing to do.                                                *)
SomeoneFit == \E a \in Account : ~Flagged(accounts[a])

(* Nobody asks for a scan while the login goroutine works.  -ufs runs while  *)
(* everybody rests and no proxy can come back under an id that the scanner   *)
(* reports, the other commands when the scanner and the checker are not even *)
(* started.  The hub may be restarted at any other time.                     *)
CarefulNext ==
  \/ /\ Serve \/ Load \/ LogIn \/ Crash \/ CheckBans
     /\ job # NoJob => Resting'
     /\ login # NoLogin => \A h \in Caller : pc'[h] = "idle"
  \/ RestartHub /\ job = NoJob
  \/ /\ Administer
     /\ Resting /\ ReportedRetired
     /\ job = NoJob /\ job' = NoJob => life = Down /\ round = {}

(* No account is banned or flagged, or marked as used by a former scanner. *)
FreshInit ==
  /\ accounts = [a \in Account |->
                  [used |-> FALSE, banned |-> FALSE, captcha |-> FALSE]]
  /\ FInit

CarefulSpec ==
  FreshInit /\ [][CarefulNext /\ InOrder' /\ SomeoneFit' /\ AtomicGets']_fvars
-----------------------------------------------------------------------------
FTypeOK ==
  STypeOK /\ CheckerTypeOK /\ AdminTypeOK /\ life \in Life /\ login \in Login

(* The ban checker never logs in with an account that a session of the       *)
(* scanner works with: a ban is known to the database before the checker     *)
(* sees it, and no session has the account by the time it is lifted.         *)
CheckedNotScanned ==
  checker.at = "login" =>
    \A t \in Live : health[t] = {} => acct[t] # checker.copy.name

(* A report about an account outlives everything but the check that refutes  *)
(* it: no older copy of the account, no clean-up and no restart lifts a ban, *)
(* and the checker's copy lifts no captcha flag.                             *)
RefusalsStick ==
  [][\A a \in Account :
       /\ accounts[a].captcha => accounts'[a].captcha
       /\ accounts[a].banned /\ ~accounts'[a].banned =>
            checker.at = "login" /\ checker.copy.name = a]_fvars

(* A restarted hub has forgotten all proxies and drops their records, and    *)
(* still hands out no id that a session has, unless it finds no record at    *)
(* all: dropped by -dropproxies or, while sessions live on, by a hub that    *)
(* was restarted before and that no proxy has reached since.                 *)
HeldIdsRetired ==
  [][\A t \in Live :
       proxy[t] # NoProxy /\ link[proxy[t]] # "new" /\ link'[proxy[t]] = "new" =>
         \A p \in ProxyId : proxies[p] = NoRecord]_fvars

(* After -ufs the database says of every account and every living proxy      *)
(* exactly whether a session of the running scanner has it: what a crash, a  *)
(* dropped session, a lifted ban or the login goroutine left marked as used  *)
(* is free, nothing in use is, although proxies may disconnect at any moment *)
(* of it.  A session that lost its proxy to the login goroutine counts with  *)
(* the one it had, which scannerStatus still reports.                        *)
CleanupRepairs ==
  [][FreeOtherProxies /\ life = Serving =>
       /\ \A a \in Account : accounts'[a].used <=> \E t \in Live : acct[t] = a
       /\ \A p \in ProxyId : proxies'[p] # NoRecord /\ ~proxies'[p].dead =>
            (proxies'[p].use <=>
              \E t \in Live : \/ proxy[t] = p
                              \/ proxy[t] = NoProxy /\ status[acct[t]] = p)]_fvars

(* AccountStats "returns total, used and banned number of accounts": one     *)
(* that counts as used, and not as banned or flagged, has a session, or is   *)
(* about to get one.                                                         *)
UsedAccountsHaveUser ==
  \A a \in Account :
    accounts[a].used /\ ~Flagged(accounts[a]) =>
      \/ \E t \in Live : acct[t] = a
      \/ \E h \in Caller : foundAcct[h] = a
      \/ life.at = "append" /\ life.acct = a
=============================================================================
