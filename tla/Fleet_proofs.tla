---------------------------- MODULE Fleet_proofs ----------------------------
(***************************************************************************)
(* Proofs about the processes that share the database.  Under FSpec: types *)
(* and the queue.  Under CarefulSpec, a fleet that is administered with    *)
(* care: a hub that finds a record hands out no id of a session (IdsInv),  *)
(* no two sessions share an account, the ban checker keeps off the         *)
(* accounts that are scanned with, no stale copy overwrites a ban or a     *)
(* flag, and -ufs leaves the database as the sessions have it (ScanInv).   *)
(*                                                                         *)
(* The scanner's own invariants carry over where its requests take their   *)
(* steps (Serve); what is proved here is that main, the login goroutine,   *)
(* the checker, the administrator and a crash leave them true too.         *)
(***************************************************************************)
EXTENDS Fleet, AtomicGets_proofs

Idle == \A h \in Caller : pc[h] = "idle"

(* A session that nobody has is healthy. *)
Clean == \A t \in Trainer : t \notin Live => health[t] = {}

(* Before main listens no request runs, and no login goroutine; that ends    *)
(* with its list.                                                            *)
Quiet ==
  /\ life # Serving => Idle /\ login = NoLogin
  /\ life = Down => Live = {}
  /\ login # NoLogin => login.todo # <<>>

FQInv == FTypeOK /\ QInv /\ Clean /\ Quiet
-----------------------------------------------------------------------------
LEMMA LifeFacts ==
  ASSUME life \in Life
  PROVE  /\ life.at \in {"markProxy", "findAccount", "returnProxy"} =>
              life \in [at : {"markProxy", "findAccount", "returnProxy"}, proxy : ProxyId]
         /\ life.at \in {"markAccount", "append"} =>
              life \in [at : {"markAccount", "append"}, proxy : ProxyId, acct : Account]
         /\ life.at = "serving" <=> life = Serving
         /\ life.at = "down" <=> life = Down
         /\ life.at = "findProxy" <=> life = FindAny
BY DEF Life, Serving, Down, FindAny

LEMMA LoginFacts ==
  ASSUME login \in Login
  PROVE  /\ login = NoLogin <=> login.at = "none"
         /\ login.at \in {"start", "tick", "call", "findProxy"} =>
              login \in [at : {"start", "tick", "call", "findProxy"}, todo : Seq(Trainer)]
         /\ login.at = "markProxy" =>
              login \in [at : {"markProxy"}, todo : Seq(Trainer), proxy : ProxyId]
BY DEF Login, NoLogin

LEMMA TodoFacts ==
  ASSUME NEW s \in Seq(Trainer), s # <<>>
  PROVE  /\ Head(s) \in Trainer /\ Head(s) \in Range(s)
         /\ Tail(s) \in Seq(Trainer) /\ Range(Tail(s)) \subseteq Range(s)
         /\ Len(s) # 1 => Tail(s) # <<>>
<1>1. /\ Len(s) \in Nat \ {0} /\ DOMAIN s = 1..Len(s)
      /\ Tail(s) \in Seq(Trainer) /\ Len(Tail(s)) = Len(s) - 1
      /\ Head(s) = s[1]
      /\ \A i \in 1..(Len(s) - 1) : Tail(s)[i] = s[i + 1]
  OBVIOUS
<1>2. DOMAIN Tail(s) = 1..(Len(s) - 1)
  BY <1>1
<1>3. \A i \in 1..(Len(s) - 1) : i + 1 \in 1..Len(s)
  BY <1>1
<1>4. Head(s) \in Range(s) /\ Range(Tail(s)) \subseteq Range(s)
  BY <1>1, <1>2, <1>3 DEF Range
<1>5. Len(s) # 1 => Tail(s) # <<>>
  <2>1. Len(<<>>) = 0
    OBVIOUS
  <2>2. Len(s) # 1 => Len(Tail(s)) # 0
    BY <1>1
  <2> QED
    BY <2>1, <2>2
<1> QED
  BY <1>1, <1>4, <1>5

(* The next session of the login goroutine, or its end. *)
LEMMA NextLoginType ==
  ASSUME login \in Login, login # NoLogin, login.todo # <<>>, NextLogin
  PROVE  login' \in Login /\ (login' # NoLogin => login'.todo # <<>>)
<1>1. login.todo \in Seq(Trainer)
  BY DEF Login, NoLogin
<1>2. CASE Len(login.todo) = 1
  BY <1>2 DEF NextLogin, Login
<1>3. CASE Len(login.todo) # 1
  <2>1. login' = [at |-> "tick", todo |-> Tail(login.todo)]
    BY <1>3 DEF NextLogin
  <2>2. Tail(login.todo) \in Seq(Trainer) /\ Tail(login.todo) # <<>>
    BY <1>1, <1>3, TodoFacts
  <2> QED
    BY <2>1, <2>2 DEF Login
<1> QED
  BY <1>2, <1>3

LEMMA GoType ==
  ASSUME NEW list \in Seq(Trainer), Go(list)
  PROVE  /\ life' = Serving /\ login' \in Login
         /\ login' # NoLogin => login'.todo # <<>>
BY DEF Go, Login, NoLogin
-----------------------------------------------------------------------------
LEMMA FInitInv == FInit => FQInv
<1> SUFFICES ASSUME FInit PROVE FQInv
  OBVIOUS
<1>1. STypeOK /\ QInv
  BY SInitInv DEF FInit, SInv, RInv
<1>2. CheckerTypeOK /\ AdminTypeOK /\ life \in Life /\ login \in Login
  BY DEF FInit, CheckInit, CheckerTypeOK, AdminTypeOK, Life, Login
<1>3. Clean
  BY DEF FInit, Init, QInit, Clean
<1>4. Live = {}
  BY NoTrainerDistinct DEF FInit, Init, QInit, Live, Held, Range
<1>5. Quiet
  BY <1>4 DEF FInit, Init, Quiet, Idle, NoLogin
<1> QED
  BY <1>1, <1>2, <1>3, <1>5 DEF FQInv, FTypeOK

(* What a request drops is clean, and so is what it builds. *)
LEMMA CleanStep == QInv /\ Clean /\ [QNext]_qvars => Clean'
<1> SUFFICES ASSUME QInv, Clean, [QNext]_qvars, NEW t \in Trainer, t \notin Live'
             PROVE  health'[t] = {}
  BY DEF Clean
<1>0. /\ health \in [Trainer -> SUBSET Flag]
      /\ held \in [Caller -> Trainer \cup {NoTrainer}]
      /\ t \notin Live => health[t] = {}
  BY DEF QInv, QTypeOK, Clean
<1>1. ASSUME NEW c \in Caller, Get(c) \/ Timeout(c) \/ Deliver(c)
      PROVE  health'[t] = {}
  BY <1>0, <1>1, CallerLive DEF Get, Timeout, Deliver
<1>2. ASSUME NEW c \in Caller, NEW flags \in SUBSET Flag, SetHealth(c, flags)
      PROVE  health'[t] = {}
  <2>1. t \notin Live
    BY <1>2, CallerLive
  <2>2. held[c] \in Live
    BY <1>0, <1>2 DEF SetHealth, Live, Held
  <2> QED
    BY <1>0, <1>2, <2>1, <2>2 DEF SetHealth
<1>3. ASSUME NEW c \in Caller, NEW u \in Trainer, NewTrainer(c, u)
      PROVE  health'[t] = {}
  BY <1>0, <1>3, CallerLive DEF NewTrainer
<1>4. ASSUME NEW c \in Caller, Queue(c) PROVE health'[t] = {}
  <2>1. CASE t = held[c]
    BY <1>0, <1>4, <2>1 DEF Queue, Reusable
  <2>2. CASE t # held[c]
    BY <1>0, <1>4, <2>2, CallerLive DEF Queue
  <2> QED
    BY <2>1, <2>2
<1>5. ASSUME NEW u \in Trainer, Wake(u) \/ Accept(u) PROVE health'[t] = {}
  BY <1>0, <1>5, GoroutineLive DEF Wake, Accept
<1>6. CASE UNCHANGED qvars
  BY <1>0, <1>6 DEF qvars, Live, Held
<1> QED
  BY <1>1, <1>2, <1>3, <1>4, <1>5, <1>6 DEF QNext

(* The sessions that main loads enter the buffer one by one. *)
LEMMA AppendQueue ==
  ASSUME FQInv, LoadAppend
  PROVE  /\ QInv' /\ Clean'
         /\ \E t \in Trainer \ Live :
              /\ Live' = Live \cup {t}
              /\ acct' = [acct EXCEPT ![t] = life.acct]
              /\ proxy' = [proxy EXCEPT ![t] = life.proxy]
         /\ UNCHANGED <<held, health, pc>>
<1>1. PICK t \in Trainer \ Live :
        /\ buffer' = Append(buffer, t)
        /\ acct' = [acct EXCEPT ![t] = life.acct]
        /\ proxy' = [proxy EXCEPT ![t] = life.proxy]
  BY DEF LoadAppend
<1>2. UNCHANGED <<getting, held, sleeping, sending, health, pc>>
  BY DEF LoadAppend, requests
<1>3. QTypeOK /\ OneUser /\ OnlyUsableQueued /\ t \notin Range(buffer)
      /\ t \notin sleeping /\ t \notin sending /\ t \notin Held
      /\ health[t] = {}
  BY DEF FQInv, QInv, Live, Clean
<1>4. /\ buffer' \in Seq(Trainer) /\ IsInjective(buffer')
      /\ Range(buffer') = Range(buffer) \cup {t}
  BY <1>1, <1>3, AppendFacts DEF QTypeOK, OneUser
<1>5. Held' = Held
  BY <1>2 DEF Held
<1>6. QTypeOK' /\ OneUser' /\ OnlyUsableQueued' /\ EmptyHandedGet'
  BY <1>2, <1>3, <1>4, <1>5
  DEF QTypeOK, OneUser, OnlyUsableQueued, EmptyHandedGet, FQInv, QInv
<1>7. Live' = Live \cup {t}
  BY <1>2, <1>4, <1>5 DEF Live
<1>8. Clean'
  BY <1>2, <1>7 DEF Clean, FQInv
<1> QED
  BY <1>1, <1>2, <1>6, <1>7, <1>8 DEF QInv

(* The login goroutine at most revives a session. *)
LEMMA ReviveQueue ==
  ASSUME FQInv, LogIn
  PROVE  /\ QInv' /\ Clean' /\ Live' = Live
         /\ UNCHANGED <<held, pc, acct, accounts, status, link>>
         /\ login' \in Login /\ (login' # NoLogin => login'.todo # <<>>)
         /\ life' = life /\ login # NoLogin
         /\ \A t \in Trainer : /\ health'[t] \in {health[t], health[t] \ {"dead"}}
                             /\ proxy'[t] \in {proxy[t], NoProxy}
<1>0. /\ login \in Login /\ (login # NoLogin => login.todo # <<>>)
      /\ health \in [Trainer -> SUBSET Flag]
      /\ proxy \in [Trainer -> ProxyId \cup {NoProxy}]
  BY DEF FQInv, FTypeOK, Quiet, QInv, QTypeOK, STypeOK
<1>1. login.at # "none" /\ login # NoLogin /\ login.todo \in Seq(Trainer) /\ life' = life
  BY <1>0, LoginFacts
  DEF LogIn, BlockOnNil, TickComes, LoginDone, LoginProxyDead, LoginFindProxy,
      LoginMarkProxy, NoLogin, Login
<1>2. CASE LoginFindProxy => UNCHANGED <<health, proxy>>
  <2>1. UNCHANGED <<qvars, pc, acct, proxy, accounts, status, link>>
    BY <1>2 DEF LogIn, BlockOnNil, TickComes, LoginDone, LoginProxyDead,
       LoginFindProxy, LoginMarkProxy, vars, svars, dbvars, qvars, requests
  <2>2. login' \in Login /\ (login' # NoLogin => login'.todo # <<>>)
    <3>1. CASE NextLogin
      BY <1>0, <1>1, <3>1, NextLoginType
    <3>2. CASE BlockOnNil
      BY <3>2 DEF BlockOnNil, Login
    <3>3. CASE TickComes \/ LoginProxyDead
      <4>1. login \in [at : {"start", "tick", "call", "findProxy"}, todo : Seq(Trainer)]
        BY <1>0, <3>3, LoginFacts DEF TickComes, LoginProxyDead
      <4>2. login'.todo = login.todo /\ login' \in Login
        BY <3>3, <4>1 DEF TickComes, LoginProxyDead, Login
      <4> QED
        BY <1>0, <1>1, <4>2
    <3>4. CASE LoginFindProxy /\ ~NextLogin
      <4>1. PICK p \in FreeProxies :
               login' = [at |-> "markProxy", todo |-> login.todo, proxy |-> p]
        BY <1>2, <3>4 DEF LoginFindProxy
      <4>2. p \in ProxyId
        BY DEF FreeProxies
      <4> QED
        BY <1>0, <1>1, <4>1, <4>2 DEF Login
    <3> QED
      BY <3>1, <3>2, <3>3, <3>4 DEF LogIn, LoginDone, LoginMarkProxy
  <2> QED
    BY <1>0, <1>1, <2>1, <2>2 DEF FQInv, QInv, QTypeOK, OneUser, OnlyUsableQueued,
       EmptyHandedGet, Clean, Live, Held, qvars
<1>3. CASE LoginFindProxy /\ ~UNCHANGED <<health, proxy>>
  <2> DEFINE t == Head(login.todo)
  <2>1. /\ health' = [health EXCEPT ![t] = @ \ {"dead"}]
        /\ proxy' = [proxy EXCEPT ![t] = NoProxy]
        /\ NextLogin
        /\ UNCHANGED <<buffer, getting, held, sleeping, sending, pc, acct, accounts,
                        status, link>>
    BY <1>3 DEF LoginFindProxy, dbvars, requests
  <2>2. t \in Trainer /\ login' \in Login /\ (login' # NoLogin => login'.todo # <<>>)
    BY <1>0, <1>1, <2>1, NextLoginType, TodoFacts
  <2>3. Live' = Live /\ Held' = Held
    BY <2>1 DEF Live, Held
  <2>4. /\ health' \in [Trainer -> SUBSET Flag]
        /\ \A u \in Trainer : health'[u] \in {health[u], health[u] \ {"dead"}}
        /\ \A u \in Trainer : health[u] = {} => health'[u] = {}
        /\ \A u \in Trainer : proxy'[u] \in {proxy[u], NoProxy}
    BY <1>0, <2>1, <2>2
  <2>5. Range(buffer) \cup sleeping \cup sending \subseteq Trainer
    BY DEF FQInv, QInv, QTypeOK, Range
  <2>6. QInv'
    BY <2>1, <2>3, <2>4, <2>5
    DEF FQInv, QInv, QTypeOK, OneUser, OnlyUsableQueued, EmptyHandedGet
  <2>7. Clean'
    BY <2>3, <2>4 DEF FQInv, Clean
  <2> QED
    BY <1>1, <2>1, <2>2, <2>3, <2>4, <2>6, <2>7
<1> QED
  BY <1>2, <1>3

LEMMA CrashQueue == Crash => QInv' /\ Clean' /\ Live' = {}
<1> SUFFICES ASSUME Crash PROVE QInv' /\ Clean' /\ Live' = {}
  OBVIOUS
<1>1. Range(buffer') = {} /\ Held' = {}
  BY NoTrainerDistinct DEF Crash, Range, Held
<1>2. buffer' \in Seq(Trainer) /\ IsInjective(buffer')
  BY DEF Crash, IsInjective
<1> QED
  BY <1>1, <1>2
  DEF Crash, QInv, QTypeOK, OneUser, OnlyUsableQueued, EmptyHandedGet, Clean, Live
-----------------------------------------------------------------------------
(* The calls to the database keep the types of the collections. *)
LEMMA ProxyCallTypes ==
  ASSUME ProxiesTypeOK,
         \/ \E p \in ProxyId : MarkInUse(p) \/ ReturnProxy(p)
         \/ \E ids : SetUse(ids, TRUE) \/ SetUse(ids, FALSE) \/ RemoveProxies(ids)
         \/ UNCHANGED proxies
  PROVE  ProxiesTypeOK'
<1>1. ASSUME NEW p \in ProxyId, MarkInUse(p) \/ ReturnProxy(p)
      PROVE  ProxiesTypeOK'
  <2>1. /\ [use |-> TRUE, dead |-> FALSE] \in ProxyDoc
        /\ [use |-> FALSE, dead |-> FALSE] \in ProxyDoc
    BY DEF ProxyDoc
  <2> QED
    BY <1>1, <2>1, SaveProxyType DEF MarkInUse, ReturnProxy, ProxiesTypeOK
<1>2. ASSUME NEW ids, NEW value \in BOOLEAN, SetUse(ids, value)
      PROVE  ProxiesTypeOK'
  <2>1. \A doc \in ProxyDoc : [doc EXCEPT !.use = value] \in ProxyDoc
    BY DEF ProxyDoc
  <2> QED
    BY <1>2, <2>1 DEF SetUse, ProxiesTypeOK
<1>3. ASSUME NEW ids, RemoveProxies(ids) PROVE ProxiesTypeOK'
  BY <1>3 DEF RemoveProxies, ProxiesTypeOK
<1> QED
  BY <1>1, <1>2, <1>3 DEF ProxiesTypeOK

LEMMA AccountCallTypes ==
  ASSUME AccountsTypeOK,
         \/ \E a \in Account, doc \in AccountDoc : SaveAccount(a, doc)
         \/ \E a \in Account : MarkUsed(a)
         \/ \E names : SetUsed(names, TRUE) \/ SetUsed(names, FALSE)
         \/ UNCHANGED accounts
  PROVE  AccountsTypeOK'
<1>1. ASSUME NEW names, NEW value \in BOOLEAN, SetUsed(names, value)
      PROVE  AccountsTypeOK'
  <2>1. \A doc \in AccountDoc : [doc EXCEPT !.used = value] \in AccountDoc
    BY DEF AccountDoc
  <2> QED
    BY <1>1, <2>1 DEF SetUsed, AccountsTypeOK
<1>2. [used |-> TRUE, banned |-> FALSE, captcha |-> FALSE] \in AccountDoc
  BY DEF AccountDoc
<1> QED
  BY <1>1, <1>2 DEF SaveAccount, MarkUsed, AccountsTypeOK

(* What main, the checker and the admin tool do to the collections. *)
LEMMA DatabaseTypes ==
  FQInv /\ (Load \/ LogIn \/ CheckBans \/ Administer \/ RestartHub) =>
    AccountsTypeOK' /\ ProxiesTypeOK'
<1> SUFFICES ASSUME FQInv, Load \/ LogIn \/ CheckBans \/ Administer \/ RestartHub
             PROVE  AccountsTypeOK' /\ ProxiesTypeOK'
  OBVIOUS
<1>0. /\ AccountsTypeOK /\ ProxiesTypeOK /\ life \in Life /\ login \in Login
      /\ checker \in Check \cup {Between}
  BY DEF FQInv, FTypeOK, STypeOK, CheckerTypeOK
<1>1. CASE Load
  <2>1. life.at = "markProxy" \/ life.at = "returnProxy" => life.proxy \in ProxyId
    BY <1>0, LifeFacts
  <2>2. life.at = "markAccount" => life.acct \in Account
    BY <1>0, LifeFacts
  <2>3. \/ UNCHANGED dbvars
        \/ LoadMarkProxy \/ LoadReturnProxy \/ LoadMarkAccount
    BY <1>1 DEF Load, Start, LoadFindProxy, LoadFindAccount, LoadAppend, vars
  <2> QED
    BY <1>0, <2>1, <2>2, <2>3, ProxyCallTypes, AccountCallTypes
    DEF LoadMarkProxy, LoadReturnProxy, LoadMarkAccount, dbvars
<1>2. CASE LogIn
  <2>1. UNCHANGED accounts
    BY <1>2, ReviveQueue
  <2>2. login.at = "markProxy" => login.proxy \in ProxyId
    BY <1>0, LoginFacts
  <2>3. UNCHANGED proxies \/ LoginMarkProxy
    BY <1>2 DEF LogIn, BlockOnNil, TickComes, LoginDone, LoginProxyDead,
       LoginFindProxy, vars, dbvars
  <2> QED
    BY <1>0, <2>1, <2>2, <2>3, ProxyCallTypes, AccountCallTypes DEF LoginMarkProxy
<1>3. CASE CheckBans
  <2>1. checker.at \in {"markProxy", "login", "returnProxy"} =>
          /\ checker.proxy \in ProxyId /\ checker.copy.name \in Account
          /\ checker.copy.doc \in AccountDoc
    BY <1>0 DEF Check, Copy, Between
  <2>2. checker.at = "login" =>
          [checker.copy.doc EXCEPT !.banned = FALSE] \in AccountDoc
    BY <2>1 DEF AccountDoc
  <2> QED
    BY <1>0, <1>3, <2>1, <2>2, ProxyCallTypes, AccountCallTypes
    DEF CheckBans, CheckerStep, GetBannedAccounts, StartCheck, MarkCheckProxy,
        LiftBan, KeepBan, EndCheck, RestartChecker
<1>4. CASE Administer
  BY <1>0, <1>4, ProxyCallTypes, AccountCallTypes
  DEF Administer, ReadStatus, Cleanup, Command, UseListedAccounts,
      FreeOtherAccounts, UseListedProxies, FreeOtherProxies,
      MarkAccountsAsUnused, MarkProxiesAsUnused, RemoveDeadProxies, DropProxies
<1>5. CASE RestartHub
  BY <1>0, <1>5, ProxyCallTypes, AccountCallTypes DEF RestartHub
<1> QED
  BY <1>1, <1>2, <1>3, <1>4, <1>5

LEMMA CheckerTypes ==
  FQInv /\ CheckBans => CheckerTypeOK'
<1> SUFFICES ASSUME FQInv, CheckBans PROVE CheckerTypeOK'
  OBVIOUS
<1>0. /\ accounts \in [Account -> AccountDoc] /\ round \subseteq Copy
      /\ checker \in Check \cup {Between}
      /\ FreeProxies \subseteq ProxyId /\ BannedAccounts \subseteq Account
  BY DEF FQInv, FTypeOK, STypeOK, AccountsTypeOK, CheckerTypeOK, FreeProxies,
         BannedAccounts
<1>1. CASE GetBannedAccounts
  BY <1>0, <1>1 DEF GetBannedAccounts, CheckerTypeOK, Copy
<1>2. CASE StartCheck
  <2>1. PICK c \in round :
          /\ round' = round \ {c}
          /\ \/ \E p \in FreeProxies :
                  checker' = [at |-> "markProxy", copy |-> c, proxy |-> p]
             \/ UNCHANGED checker
    BY <1>2 DEF StartCheck
  <2> QED
    BY <1>0, <2>1 DEF CheckerTypeOK, Check
<1>3. CASE MarkCheckProxy \/ LiftBan \/ KeepBan
  <2>1. checker \in Check
    BY <1>0, <1>3 DEF MarkCheckProxy, LiftBan, KeepBan, Between
  <2>2. /\ [checker EXCEPT !.at = "login"] \in Check
        /\ [checker EXCEPT !.at = "returnProxy"] \in Check
    BY <2>1 DEF Check
  <2> QED
    BY <1>0, <1>3, <2>2 DEF MarkCheckProxy, LiftBan, KeepBan, CheckerTypeOK
<1>4. CASE EndCheck \/ RestartChecker
  BY <1>0, <1>4 DEF EndCheck, RestartChecker, CheckerTypeOK
<1> QED
  BY <1>1, <1>2, <1>3, <1>4 DEF CheckBans, CheckerStep

LEMMA AdminTypes == FQInv /\ Administer => AdminTypeOK'
<1> SUFFICES ASSUME FQInv, Administer PROVE AdminTypeOK'
  OBVIOUS
<1>0. /\ job \in Job \cup {NoJob} /\ status \in [Account -> ProxyId \cup {NoProxy}]
  BY DEF FQInv, FTypeOK, AdminTypeOK, STypeOK
<1>1. CASE ReadStatus(Entries)
  <2>1. /\ {e.name : e \in Entries} \subseteq Account
        /\ {e.id : e \in Entries} \subseteq ProxyId
    BY <1>0 DEF Entries
  <2> QED
    BY <1>1, <2>1 DEF ReadStatus, AdminTypeOK, Job
<1>2. CASE Cleanup
  <2>1. job.at \in {"useAccounts", "freeAccounts", "useProxies", "freeProxies"} =>
          job \in Job
    BY <1>0 DEF NoJob
  <2>2. \A at \in {"freeAccounts", "useProxies", "freeProxies"} :
          job \in Job => [job EXCEPT !.at = at] \in Job
    BY DEF Job
  <2> QED
    BY <1>2, <2>1, <2>2 DEF Cleanup, UseListedAccounts, FreeOtherAccounts,
       UseListedProxies, FreeOtherProxies, AdminTypeOK
<1>3. CASE Command
  BY <1>0, <1>3 DEF Command, MarkAccountsAsUnused, MarkProxiesAsUnused,
     RemoveDeadProxies, DropProxies, AdminTypeOK
<1> QED
  BY <1>1, <1>2, <1>3 DEF Administer
-----------------------------------------------------------------------------
LEMMA ServeIsNext == Serve => [Next]_vars /\ UNCHANGED <<checkvars, job, life, login>>
BY DEF Serve, Next

LEMMA ServeInv == FQInv /\ Serve => FQInv'
<1> SUFFICES ASSUME FQInv, Serve PROVE FQInv'
  OBVIOUS
<1>0. STypeOK /\ QInv /\ Clean /\ Quiet /\ [Next]_vars
      /\ UNCHANGED <<checkvars, job, life, login>>
  BY ServeIsNext DEF FQInv, FTypeOK
<1>1. STypeOK' /\ QInv' /\ Clean'
  BY <1>0, TypeStep, UsesQueue, QNextInv, CleanStep
<1>2. FTypeOK'
  BY <1>0, <1>1 DEF FQInv, FTypeOK, CheckerTypeOK, AdminTypeOK, checkvars
<1>3. ASSUME life # Serving PROVE Live' = Live /\ pc' = pc
  <2>1. \/ \E t \in Trainer : QueueStep(t)
        \/ \E p \in ProxyId : Connect(p) \/ Disconnect(p) \/ MarkDead(p)
    BY <1>3 DEF Serve
  <2> QED
    BY <1>0, <2>1, EnvironmentSessions
<1>4. Serving # Down
  BY DEF Serving, Down
<1>5. Quiet'
  BY <1>0, <1>3, <1>4 DEF Quiet, Idle
<1> QED
  BY <1>1, <1>2, <1>5 DEF FQInv

LEMMA LoadInv == FQInv /\ Load => FQInv'
<1> SUFFICES ASSUME FQInv, Load PROVE FQInv'
  OBVIOUS
<1>0. /\ STypeOK /\ QInv /\ Clean /\ Idle /\ login = NoLogin
      /\ life \in Life /\ buffer \in Seq(Trainer)
      /\ AccountsTypeOK' /\ ProxiesTypeOK'
      /\ login' \in Login => TRUE
  <2>1. life # Serving
    BY DEF Load, Start, LoadFindProxy, LoadMarkProxy, LoadFindAccount,
       LoadReturnProxy, LoadMarkAccount, LoadAppend, Serving, Down, FindAny
  <2> QED
    BY <2>1, DatabaseTypes DEF FQInv, FTypeOK, Quiet, QInv, QTypeOK
<1>1. /\ life' \in Life /\ life' # Down
      /\ life' # Serving => login' = NoLogin
      /\ login' \in Login
      /\ login' # NoLogin => login'.todo # <<>>
  <2>1. CASE Start \/ LoadMarkProxy \/ LoadFindAccount \/ LoadMarkAccount
    <3>1. CASE Start
      BY <1>0, <3>1 DEF Start, Life, FindAny, Down, Login
    <3>2. CASE LoadMarkProxy
      <4>1. life \in [at : {"markProxy", "findAccount", "returnProxy"}, proxy : ProxyId]
        BY <1>0, <3>2, LifeFacts DEF LoadMarkProxy
      <4>2. life' \in [at : {"markProxy", "findAccount", "returnProxy"}, proxy : ProxyId]
        BY <3>2, <4>1 DEF LoadMarkProxy
      <4> QED
        BY <1>0, <3>2, <4>2 DEF LoadMarkProxy, Life, Down, Login
    <3>3. CASE LoadFindAccount
      <4>1. life \in [at : {"markProxy", "findAccount", "returnProxy"}, proxy : ProxyId]
        BY <1>0, <3>3, LifeFacts DEF LoadFindAccount
      <4>2. CASE life' = [life EXCEPT !.at = "returnProxy"]
        <5>1. life' \in [at : {"markProxy", "findAccount", "returnProxy"}, proxy : ProxyId]
          BY <4>1, <4>2
        <5> QED
          BY <1>0, <3>3, <5>1 DEF LoadFindAccount, Life, Down, Login
      <4>3. CASE \E a \in FreeAccounts :
                   life' = [at |-> "markAccount", proxy |-> life.proxy, acct |-> a]
        <5>1. FreeAccounts \subseteq Account
          BY DEF FreeAccounts
        <5>2. life' \in [at : {"markAccount", "append"}, proxy : ProxyId, acct : Account]
          BY <4>1, <4>3, <5>1
        <5> QED
          BY <1>0, <3>3, <5>2 DEF LoadFindAccount, Life, Down, Login
      <4> QED
        BY <3>3, <4>2, <4>3 DEF LoadFindAccount
    <3>4. CASE LoadMarkAccount
      <4>1. life \in [at : {"markAccount", "append"}, proxy : ProxyId, acct : Account]
        BY <1>0, <3>4, LifeFacts DEF LoadMarkAccount
      <4>2. life' \in [at : {"markAccount", "append"}, proxy : ProxyId, acct : Account]
        BY <3>4, <4>1 DEF LoadMarkAccount
      <4> QED
        BY <1>0, <3>4, <4>2 DEF LoadMarkAccount, Life, Down, Login
    <3> QED
      BY <2>1, <3>1, <3>2, <3>3, <3>4
  <2>2. CASE \/ LoadFindProxy \/ LoadReturnProxy \/ LoadAppend
    <3>1. CASE \E list \in Seq(Trainer) : Go(list)
      BY <3>1, GoType DEF Life, Serving, Down
    <3>2. CASE UNCHANGED login /\ life' = FindAny
      BY <1>0, <3>2 DEF Life, FindAny, Down, Login
    <3>3. CASE \E p \in FreeProxies :
                 life' = [at |-> "markProxy", proxy |-> p] /\ UNCHANGED login
      BY <1>0, <3>3 DEF Life, Down, FreeProxies, Login
    <3>4. buffer' \in Seq(Trainer)
      BY <1>0, <2>2, AppendQueue
      DEF LoadFindProxy, LoadReturnProxy, vars, qvars, QInv, QTypeOK
    <3> QED
      BY <1>0, <2>2, <3>1, <3>2, <3>3, <3>4
      DEF LoadFindProxy, LoadReturnProxy, LoadAppend
  <2> QED
    BY <2>1, <2>2 DEF Load
<1>2. CASE ~LoadAppend
  <2>1. UNCHANGED <<qvars, svars, checkvars, job>>
    BY <1>2 DEF Load, Start, LoadFindProxy, LoadMarkProxy, LoadFindAccount,
       LoadReturnProxy, LoadMarkAccount, vars
  <2>2. QInv' /\ Clean' /\ Idle'
    BY <1>0, <2>1 DEF QInv, QTypeOK, OneUser, OnlyUsableQueued, EmptyHandedGet,
       Clean, Live, Held, qvars, svars, Idle
  <2>3. FTypeOK'
    BY <1>0, <1>1, <2>1
    DEF FQInv, FTypeOK, STypeOK, svars, CheckerTypeOK, AdminTypeOK, checkvars
  <2> QED
    BY <1>1, <2>2, <2>3 DEF FQInv, Quiet
<1>3. CASE LoadAppend
  <2>1. /\ QInv' /\ Clean' /\ UNCHANGED pc
        /\ \E t \in Trainer : /\ acct' = [acct EXCEPT ![t] = life.acct]
                             /\ proxy' = [proxy EXCEPT ![t] = life.proxy]
    BY <1>3, AppendQueue
  <2>2. life.acct \in Account /\ life.proxy \in ProxyId
    BY <1>0, <1>3, LifeFacts DEF LoadAppend
  <2>3. STypeOK'
    BY <1>0, <1>3, <2>1, <2>2 DEF LoadAppend, STypeOK, requests
  <2>4. FTypeOK'
    BY <1>1, <1>3, <2>3
    DEF LoadAppend, FQInv, FTypeOK, CheckerTypeOK, AdminTypeOK, checkvars
  <2> QED
    BY <1>0, <1>1, <2>1, <2>4 DEF FQInv, Quiet, Idle
<1> QED
  BY <1>2, <1>3

LEMMA LogInInv == FQInv /\ LogIn => FQInv'
<1> SUFFICES ASSUME FQInv, LogIn PROVE FQInv'
  OBVIOUS
<1>1. /\ QInv' /\ Clean' /\ Live' = Live
      /\ UNCHANGED <<held, pc, acct, accounts, status, link>>
      /\ login' \in Login /\ (login' # NoLogin => login'.todo # <<>>)
      /\ life' = life /\ login # NoLogin
      /\ AccountsTypeOK' /\ ProxiesTypeOK'
  BY ReviveQueue, DatabaseTypes
<1>2. UNCHANGED <<foundProxy, foundAcct, checkvars, job>>
  BY DEF LogIn, BlockOnNil, TickComes, LoginDone, LoginProxyDead,
       LoginFindProxy, LoginMarkProxy, vars, svars, requests
<1>3. proxy' \in [Trainer -> ProxyId \cup {NoProxy}]
  <2>1. proxy' = proxy \/ \E t : proxy' = [proxy EXCEPT ![t] = NoProxy]
    BY DEF LogIn, BlockOnNil, TickComes, LoginDone, LoginProxyDead,
       LoginFindProxy, LoginMarkProxy, vars, svars
  <2> QED
    BY <2>1 DEF FQInv, FTypeOK, STypeOK
<1>4. FTypeOK'
  BY <1>1, <1>2, <1>3
  DEF FQInv, FTypeOK, STypeOK, CheckerTypeOK, AdminTypeOK, checkvars
<1>5. Quiet'
  BY <1>1, <1>2 DEF FQInv, Quiet, Idle
<1> QED
  BY <1>1, <1>4, <1>5 DEF FQInv

LEMMA CrashInv == FQInv /\ Crash => FQInv'
<1> SUFFICES ASSUME FQInv, Crash PROVE FQInv'
  OBVIOUS
<1>1. QInv' /\ Clean' /\ Live' = {}
  BY CrashQueue
<1>2. FTypeOK'
  BY DEF Crash, FQInv, FTypeOK, STypeOK, AccountsTypeOK, ProxiesTypeOK, Pc,
         CheckerTypeOK, AdminTypeOK, checkvars, dbvars, Life, Login
<1>3. Quiet'
  BY <1>1 DEF Crash, Quiet, Idle
<1> QED
  BY <1>1, <1>2, <1>3 DEF FQInv

LEMMA OutsideInv ==
  FQInv /\ (RestartHub \/ CheckBans \/ Administer \/ UNCHANGED fvars) => FQInv'
<1> SUFFICES ASSUME FQInv, RestartHub \/ CheckBans \/ Administer \/ UNCHANGED fvars
             PROVE  FQInv'
  OBVIOUS
<1>1. UNCHANGED <<qvars, requests, sessions, life, login>>
  BY DEF RestartHub, CheckBans, Administer, fvars, vars, svars, requests, sessions
<1>2. AccountsTypeOK' /\ ProxiesTypeOK'
  BY DatabaseTypes DEF fvars, vars, dbvars, FQInv, FTypeOK, STypeOK,
                       AccountsTypeOK, ProxiesTypeOK
<1>3. link' \in [ProxyId -> Link]
  <2>1. CASE RestartHub
    BY <2>1 DEF RestartHub, CountOn, Link
  <2>2. CASE CheckBans \/ Administer \/ UNCHANGED fvars
    BY <2>2 DEF CheckBans, Administer, fvars, vars, svars, FQInv, FTypeOK, STypeOK
  <2> QED
    BY <2>1, <2>2
<1>4. CheckerTypeOK'
  BY CheckerTypes DEF RestartHub, Administer, fvars, FQInv, FTypeOK, CheckerTypeOK,
                      checkvars
<1>5. AdminTypeOK'
  BY AdminTypes DEF RestartHub, CheckBans, fvars, FQInv, FTypeOK, AdminTypeOK
<1>6. FTypeOK'
  BY <1>1, <1>2, <1>3, <1>4, <1>5
  DEF FQInv, FTypeOK, STypeOK, requests, sessions
<1>7. QInv' /\ Clean' /\ Quiet'
  BY <1>1 DEF FQInv, QInv, QTypeOK, OneUser, OnlyUsableQueued, EmptyHandedGet,
     Clean, Quiet, Live, Held, qvars, requests, Idle
<1> QED
  BY <1>6, <1>7 DEF FQInv

LEMMA FQNextInv == FQInv /\ [FNext]_fvars => FQInv'
BY ServeInv, LoadInv, LogInInv, CrashInv, OutsideInv DEF FNext

LEMMA FQInvariance == FSpec => []FQInv
BY FInitInv, FQNextInv, PTL DEF FSpec

(* Every variable of the fleet keeps its type, however the processes and     *)
(* their deaths interleave.                                                  *)
THEOREM FTypeCorrect == FSpec => []FTypeOK
<1>1. FQInv => FTypeOK
  BY DEF FQInv
<1> QED
  BY FQInvariance, <1>1, PTL

(* Two requests never use the same session, although main fills the buffer   *)
(* and the login goroutine works on the sessions that requests use.          *)
THEOREM FleetOneUser == FSpec => []OneUser
<1>1. FQInv => OneUser
  BY DEF FQInv, QInv
<1> QED
  BY FQInvariance, <1>1, PTL
-----------------------------------------------------------------------------
Recorded == {p \in ProxyId : proxies[p] # NoRecord}

(* The ids that the scanner has in its hands, and the one main loads with. *)
Carried(p) ==
  \/ \E t \in Trainer : proxy[t] = p
  \/ \E h \in Caller : foundProxy[h] = p
  \/ \E a \in Account : status[a] = p

Loads(p) ==
  \/ life.at \in {"markProxy", "findAccount", "returnProxy"} /\ life.proxy = p
  \/ life.at \in {"markAccount", "append"} /\ life.proxy = p

IdsHeld == {p \in ProxyId : Carried(p) \/ Loads(p)}

(* An id in the scanner's hands is one that the hub may hand out again, or   *)
(* the largest id in the database is as large, or the hub has just dropped   *)
(* the records.                                                              *)
IdsInv ==
  /\ InOrder
  /\ \A p \in Recorded : link[p] # "new"
  /\ \A p \in IdsHeld :
       \/ link[p] = "new"
       \/ \E q \in Recorded : p <= q
       \/ Recorded = {} /\ \A q \in ProxyId : link[q] \in {"new", "buried"}
  /\ life = Down => IdsHeld = {}

LEMMA FreeRecorded == FreeProxies \subseteq Recorded
<1>1. [use |-> FALSE, dead |-> FALSE] \in ProxyDoc
  BY DEF ProxyDoc
<1> QED
  BY <1>1, NoRecordDistinct DEF FreeProxies, Recorded

LEMMA OwnCarried ==
  ASSUME STypeOK, NEW h \in Caller, Receive(h) \/ HandlerStep(h),
         NEW p \in ProxyId, Carried(p)'
  PROVE  Carried(p) \/ p \in FreeProxies
<1> USE NoneDistinct
<1>0. /\ proxy \in [Trainer -> ProxyId \cup {NoProxy}]
      /\ foundProxy \in [Caller -> ProxyId \cup {NoProxy}]
      /\ status \in [Account -> ProxyId \cup {NoProxy}]
  BY DEF STypeOK
<1>1. CASE FindProxy(h) \/ FindReplacement(h)
  BY <1>0, <1>1 DEF FindProxy, FindReplacement, Carried
<1>2. CASE BuildTrainer(h)
  <2>1. PICK u \in Trainer : proxy' = [proxy EXCEPT ![u] = foundProxy[h]]
    BY <1>2 DEF BuildTrainer
  <2> QED
    BY <1>0, <1>2, <2>1 DEF BuildTrainer, Carried
<1>3. CASE UseReplacement(h)
  BY <1>0, <1>3 DEF UseReplacement, Carried
<1>4. CASE GiveProxyBack(h) \/ ForgetBusy(h) \/ Forget(h) \/ Finish(h)
  BY <1>0, <1>4 DEF GiveProxyBack, ForgetBusy, Forget, Finish, Carried
<1>5. CASE UNCHANGED <<proxy, foundProxy, status>>
  BY <1>5 DEF Carried
<1> QED
  BY <1>1, <1>2, <1>3, <1>4, <1>5
  DEF HandlerStep, Receive, GetTrainer, GetFails, MarkProxy, FindAccount,
      MarkAccount, ScanEnds, ScanAgain, ProxyDies, AccountRefused,
      MarkReplacement, ReturnAccount, UpdateAccount

(* An id gets into the scanner's hands from the database only. *)
LEMMA HeldStep ==
  ASSUME FQInv, [FNext]_fvars
  PROVE  /\ IdsHeld' \subseteq IdsHeld \cup FreeProxies
         /\ life' = Down => IdsHeld' \subseteq IdsHeld /\ (life # Down => IdsHeld' = {})
<1> USE NoneDistinct
<1>0. /\ STypeOK /\ QInv /\ life \in Life /\ life' \in Life
      /\ proxy \in [Trainer -> ProxyId \cup {NoProxy}]
      /\ foundProxy \in [Caller -> ProxyId \cup {NoProxy}]
      /\ status \in [Account -> ProxyId \cup {NoProxy}]
      /\ FreeProxies \subseteq ProxyId
  BY FQNextInv DEF FQInv, FTypeOK, STypeOK, FreeProxies
<1>1. CASE Serve
  <2>1. life' = life
    BY <1>1, ServeIsNext
  <2>2. ASSUME NEW h \in Caller, Receive(h) \/ HandlerStep(h), life = Serving
        PROVE  IdsHeld' \subseteq IdsHeld \cup FreeProxies /\ life' # Down
    BY <1>0, <2>1, <2>2, OwnCarried DEF IdsHeld, Loads, Serving, Down
  <2>3. CASE \/ \E t \in Trainer : QueueStep(t)
             \/ \E p \in ProxyId : Connect(p) \/ Disconnect(p) \/ MarkDead(p)
    <3>1. UNCHANGED <<proxy, foundProxy, status>>
      BY <1>0, <2>3, EnvironmentSessions
    <3> QED
      BY <2>1, <3>1 DEF IdsHeld, Carried, Loads
  <2> QED
    BY <1>1, <2>2, <2>3, <2>1 DEF Serve
<1>2. CASE Load
  <2>1. CASE LoadFindProxy
    BY <2>1 DEF LoadFindProxy, IdsHeld, Carried, Loads, Go, vars, svars, Down,
       FindAny, Serving
  <2>2. CASE \/ Start \/ LoadMarkProxy \/ LoadFindAccount \/ LoadReturnProxy
             \/ LoadMarkAccount
    <3>1. UNCHANGED <<proxy, foundProxy, status>>
      BY <2>2 DEF Start, LoadMarkProxy, LoadFindAccount, LoadReturnProxy,
         LoadMarkAccount, vars, svars
    <3>2. \A p \in ProxyId : Loads(p)' => Loads(p)
      BY <1>0, <2>2, LifeFacts
      DEF Start, LoadMarkProxy, LoadFindAccount, LoadReturnProxy,
          LoadMarkAccount, Loads, Go, FindAny, Serving
    <3>3. life' # Down
      BY <1>0, <2>2, LifeFacts
      DEF Start, LoadMarkProxy, LoadFindAccount, LoadReturnProxy,
          LoadMarkAccount, Go, FindAny, Serving, Down
    <3> QED
      BY <3>1, <3>2, <3>3 DEF IdsHeld, Carried
  <2>3. CASE LoadAppend
    <3>1. PICK t \in Trainer : proxy' = [proxy EXCEPT ![t] = life.proxy]
      BY <2>3 DEF LoadAppend
    <3>2. /\ status' = [status EXCEPT ![life.acct] = life.proxy] /\ UNCHANGED foundProxy
          /\ life' \in {Serving, FindAny} /\ life.at = "append"
      BY <2>3 DEF LoadAppend, requests, Go
    <3> QED
      BY <1>0, <3>1, <3>2 DEF IdsHeld, Carried, Loads, Serving, FindAny, Down
  <2> QED
    BY <1>2, <2>1, <2>2, <2>3 DEF Load
<1>3. CASE LogIn
  <2>1. /\ life' = life /\ UNCHANGED <<foundProxy, status>>
        /\ \A t \in Trainer : proxy'[t] \in {proxy[t], NoProxy}
        /\ life = Serving
    <3>1. UNCHANGED foundProxy
      BY <1>3 DEF LogIn, BlockOnNil, TickComes, LoginDone, LoginProxyDead,
         LoginFindProxy, LoginMarkProxy, vars, svars, requests
    <3> QED
      BY <1>3, <3>1, ReviveQueue DEF FQInv, Quiet
  <2> QED
    BY <2>1 DEF IdsHeld, Carried, Loads, Serving, Down
<1>4. CASE Crash
  BY <1>4 DEF Crash, IdsHeld, Carried, Loads, Down
<1>5. CASE RestartHub \/ CheckBans \/ Administer \/ UNCHANGED fvars
  <2>1. UNCHANGED <<proxy, foundProxy, status, life>>
    BY <1>5 DEF RestartHub, CheckBans, Administer, fvars, vars, svars, requests, sessions
  <2> QED
    BY <2>1 DEF IdsHeld, Carried, Loads
<1> QED
  BY <1>1, <1>2, <1>3, <1>4, <1>5 DEF FNext

(* No call of the scanner, the checker or Cleanup adds or removes a record. *)
LEMMA SameRecords ==
  ASSUME ProxiesTypeOK,
         \/ \E p \in ProxyId : MarkInUse(p) \/ ReturnProxy(p)
         \/ \E ids : SetUse(ids, TRUE) \/ SetUse(ids, FALSE)
         \/ UNCHANGED proxies
  PROVE  Recorded' = Recorded
<1>1. /\ [use |-> TRUE, dead |-> FALSE] \in ProxyDoc
      /\ [use |-> FALSE, dead |-> FALSE] \in ProxyDoc
      /\ \A doc \in ProxyDoc, value \in BOOLEAN : [doc EXCEPT !.use = value] \in ProxyDoc
  BY DEF ProxyDoc
<1>2. ASSUME NEW p \in ProxyId, MarkInUse(p) \/ ReturnProxy(p)
      PROVE  Recorded' = Recorded
  BY <1>1, <1>2, NoRecordDistinct DEF MarkInUse, ReturnProxy, SaveProxy, Recorded,
     ProxiesTypeOK
<1>3. ASSUME NEW ids, SetUse(ids, TRUE) \/ SetUse(ids, FALSE)
      PROVE  Recorded' = Recorded
  BY <1>1, <1>3, NoRecordDistinct DEF SetUse, Recorded, ProxiesTypeOK
<1> QED
  BY <1>2, <1>3 DEF Recorded

(* What a step of the fleet does to the connections and the records. *)
LEMMA LinkStep ==
  ASSUME FQInv
  PROVE  /\ Serve \/ Load \/ LogIn \/ Crash \/ CheckBans \/ UNCHANGED fvars =>
              \/ Recorded' = Recorded /\ UNCHANGED link
              \/ \E p \in ProxyId :
                   \/ Connect(p) /\ Recorded' = Recorded \cup {p}
                   \/ Disconnect(p) /\ Recorded' = Recorded
                   \/ MarkDead(p) /\ Recorded' = Recorded \cup {p}
         /\ RestartHub => Recorded' = {}
         /\ Administer =>
              /\ UNCHANGED link
              /\ \/ Recorded' = Recorded
                 \/ Command /\ Recorded' \subseteq Recorded
<1>0. /\ ProxiesTypeOK /\ life \in Life /\ login \in Login
      /\ checker \in Check \cup {Between}
  BY DEF FQInv, FTypeOK, STypeOK, CheckerTypeOK
<1>1. ASSUME NEW h \in Caller, Receive(h) \/ HandlerStep(h)
      PROVE  Recorded' = Recorded /\ UNCHANGED link
  <2>1. \/ UNCHANGED proxies
        \/ MarkInUse(foundProxy[h]) \/ ReturnProxy(foundProxy[h])
    BY <1>1 DEF HandlerStep, Receive, GetTrainer, GetFails, FindProxy,
       FindAccount, FindReplacement, MarkProxy, MarkReplacement,
       GiveProxyBack, MarkAccount, ScanEnds, ScanAgain, ForgetBusy, BuildTrainer,
       ReturnAccount, UpdateAccount, Forget, ProxyDies, AccountRefused, Finish,
       UseReplacement, dbvars
  <2>2. UNCHANGED link
    BY <1>1 DEF HandlerStep, Receive, GetTrainer, GetFails, FindProxy,
       FindAccount, FindReplacement, MarkProxy, MarkReplacement,
       GiveProxyBack, MarkAccount, ScanEnds, ScanAgain, ForgetBusy, BuildTrainer,
       ReturnAccount, UpdateAccount, Forget, ProxyDies, AccountRefused, Finish,
       UseReplacement
  <2>3. CASE foundProxy[h] \in ProxyId
    BY <1>0, <2>1, <2>2, <2>3, SameRecords
  <2>4. CASE foundProxy[h] \notin ProxyId
    <3>1. UNCHANGED proxies
      BY <1>0, <2>1, <2>4 DEF MarkInUse, ReturnProxy, SaveProxy, ProxiesTypeOK
    <3> QED
      BY <2>2, <3>1 DEF Recorded
  <2> QED
    BY <2>3, <2>4
<1>2. ASSUME NEW p \in ProxyId, Connect(p) \/ Disconnect(p) \/ MarkDead(p)
      PROVE  \/ Connect(p) /\ Recorded' = Recorded \cup {p}
             \/ Disconnect(p) /\ Recorded' = Recorded
             \/ MarkDead(p) /\ Recorded' = Recorded \cup {p}
  <2>1. /\ [use |-> FALSE, dead |-> TRUE] \in ProxyDoc
        /\ [use |-> FALSE, dead |-> FALSE] \in ProxyDoc
    BY DEF ProxyDoc
  <2> QED
    BY <1>0, <1>2, <2>1, NoRecordDistinct
    DEF Connect, Disconnect, MarkDead, LinkUp, LinkDead, AddProxy, UpdateProxy,
        Recorded, ProxiesTypeOK,
        dbvars
<1>3. ASSUME Serve
      PROVE  \/ Recorded' = Recorded /\ UNCHANGED link
             \/ \E p \in ProxyId :
                  \/ Connect(p) /\ Recorded' = Recorded \cup {p}
                  \/ Disconnect(p) /\ Recorded' = Recorded
                  \/ MarkDead(p) /\ Recorded' = Recorded \cup {p}
  <2>1. (\E t \in Trainer : QueueStep(t)) => Recorded' = Recorded /\ UNCHANGED link
    BY DEF QueueStep, dbvars, svars, Recorded
  <2> QED
    BY <1>1, <1>2, <1>3, <2>1 DEF Serve
<1>4. ASSUME Load PROVE Recorded' = Recorded /\ UNCHANGED link
  <2>1. life.at = "markProxy" \/ life.at = "returnProxy" => life.proxy \in ProxyId
    BY <1>0, LifeFacts
  <2>2. UNCHANGED link /\ (UNCHANGED proxies \/ LoadMarkProxy \/ LoadReturnProxy)
    BY <1>4 DEF Load, Start, LoadFindProxy, LoadMarkProxy, LoadFindAccount,
       LoadReturnProxy, LoadMarkAccount, LoadAppend, vars, svars, dbvars
  <2> QED
    BY <1>0, <2>1, <2>2, SameRecords DEF LoadMarkProxy, LoadReturnProxy
<1>5. ASSUME LogIn PROVE Recorded' = Recorded /\ UNCHANGED link
  <2>1. login.at = "markProxy" => login.proxy \in ProxyId
    BY <1>0, LoginFacts
  <2>2. UNCHANGED link /\ (UNCHANGED proxies \/ LoginMarkProxy)
    BY <1>5 DEF LogIn, BlockOnNil, TickComes, LoginDone, LoginProxyDead,
       LoginFindProxy, LoginMarkProxy, vars, svars, dbvars
  <2> QED
    BY <1>0, <2>1, <2>2, SameRecords DEF LoginMarkProxy
<1>6. ASSUME Crash \/ UNCHANGED fvars PROVE Recorded' = Recorded /\ UNCHANGED link
  BY <1>6 DEF Crash, dbvars, fvars, vars, svars, Recorded
<1>7. ASSUME CheckBans PROVE Recorded' = Recorded /\ UNCHANGED link
  <2>1. checker.at \in {"markProxy", "returnProxy"} => checker.proxy \in ProxyId
    BY <1>0 DEF Check, Between
  <2> QED
    BY <1>0, <1>7, <2>1, SameRecords
    DEF CheckBans, CheckerStep, GetBannedAccounts, StartCheck, MarkCheckProxy,
        LiftBan, KeepBan, EndCheck, RestartChecker, svars
<1>8. RestartHub => Recorded' = {}
  BY DEF RestartHub, RemoveProxies, Recorded
<1>9. ASSUME Administer
      PROVE  /\ UNCHANGED link
             /\ Recorded' = Recorded \/ (Command /\ Recorded' \subseteq Recorded)
  <2>1. UNCHANGED link
    BY <1>9 DEF Administer, svars
  <2>2. CASE RemoveDeadProxies \/ DropProxies
    <3>1. Recorded' \subseteq Recorded
      BY <2>2 DEF RemoveDeadProxies, DropProxies, RemoveProxies, Recorded
    <3> QED
      BY <1>9, <2>1, <2>2, <3>1 DEF Command
  <2>3. CASE ~(RemoveDeadProxies \/ DropProxies)
    BY <1>0, <1>9, <2>1, <2>3, SameRecords
    DEF Administer, ReadStatus, Cleanup, Command, UseListedAccounts,
      FreeOtherAccounts, UseListedProxies, FreeOtherProxies,
      MarkAccountsAsUnused, MarkProxiesAsUnused
  <2> QED
    BY <2>2, <2>3
<1> QED
  BY <1>3, <1>4, <1>5, <1>6, <1>7, <1>8, <1>9

LEMMA CarefulIsFleet == [CarefulNext]_fvars => [FNext]_fvars
BY DEF CarefulNext, FNext

(* An id that is not in the hub's future comes back into it by a restart     *)
(* only.                                                                     *)
LEMMA OldIds ==
  ASSUME FQInv, NEW p \in ProxyId, link[p] # "new",
         Serve \/ Load \/ LogIn \/ Crash \/ CheckBans \/ Administer \/ UNCHANGED fvars
  PROVE  link'[p] # "new"
<1>0. link \in [ProxyId -> Link]
  BY DEF FQInv, FTypeOK, STypeOK
<1>1. CASE UNCHANGED link
  BY <1>1
<1>2. ASSUME NEW q \in ProxyId, Connect(q) \/ Disconnect(q) \/ MarkDead(q)
      PROVE  link'[p] # "new"
  BY <1>0, <1>2 DEF Connect, Disconnect, MarkDead, LinkUp, LinkDown, LinkDead, Move
<1> QED
  BY <1>1, <1>2, LinkStep

(* The careful administrator drops proxies only when no scanner runs.        *)
LEMMA IdsStep ==
  FQInv /\ IdsInv /\ [CarefulNext]_fvars /\ InOrder' => IdsInv'
<1> SUFFICES ASSUME FQInv, IdsInv, [CarefulNext]_fvars, InOrder' PROVE IdsInv'
  OBVIOUS
<1> USE DEF IdsInv
<1>0. /\ ProxyId \subseteq Nat
      /\ link \in [ProxyId -> Link]
      /\ Recorded \subseteq ProxyId /\ IdsHeld \subseteq ProxyId
      /\ \A p \in ProxyId : p \in Recorded <=> proxies[p] # NoRecord
  BY IdsAreNumbers DEF FQInv, FTypeOK, STypeOK, Recorded, IdsHeld
<1>1. /\ IdsHeld' \subseteq IdsHeld \cup Recorded
      /\ life' = Down => IdsHeld' = {}
  BY HeldStep, CarefulIsFleet, FreeRecorded
<1>2. \A p \in ProxyId : p <= p
  BY <1>0
<1>3. CASE UNCHANGED link /\ Recorded' = Recorded
  BY <1>0, <1>1, <1>2, <1>3
<1>4. ASSUME NEW q \in ProxyId, Connect(q), Recorded' = Recorded \cup {q}
      PROVE  IdsInv'
  <2>1. /\ link[q] = "new" /\ link' = [link EXCEPT ![q] = "connected"]
    BY <1>4 DEF Connect, LinkUp, Move
  <2>2. ASSUME NEW p \in IdsHeld'
        PROVE  link'[p] = "new" \/ p <= q \/ \E r \in Recorded : p <= r
    <3>0. p \in ProxyId
      BY <1>0, <1>1
    <3>1. CASE p \in Recorded
      BY <1>0, <1>2, <3>1
    <3>2. CASE link[p] # "new"
      <4>1. ~(q < p)
        BY <1>0, <2>1, <3>0, <3>2 DEF InOrder
      <4> QED
        BY <1>0, <3>0, <4>1
    <3>3. CASE link[p] = "new" /\ p \in IdsHeld
      BY <1>0, <1>2, <2>1, <3>0, <3>3
    <3> QED
      BY <1>1, <3>1, <3>2, <3>3
  <2> QED
    BY <1>0, <1>1, <1>4, <2>1, <2>2
<1>5. ASSUME NEW q \in ProxyId, Disconnect(q), Recorded' = Recorded
      PROVE  IdsInv'
  <2>1. link[q] = "connected" /\ link' = [link EXCEPT ![q] = "removed"]
    BY <1>5 DEF Disconnect, LinkDown, Move
  <2> QED
    BY <1>0, <1>1, <1>2, <1>5, <2>1
<1>6. ASSUME NEW q \in ProxyId, MarkDead(q), Recorded' = Recorded \cup {q}
      PROVE  IdsInv'
  <2>1. /\ link[q] \in {"removed", "marked"}
        /\ link' \in {[link EXCEPT ![q] = "marked"], [link EXCEPT ![q] = "buried"]}
    BY <1>6 DEF MarkDead, LinkDead, Move
  <2> QED
    BY <1>0, <1>1, <1>2, <1>6, <2>1
<1>7. CASE RestartHub
  <2>1. /\ Recorded' = {}
        /\ \A p \in ProxyId : link'[p] \in {"new", "buried"}
    BY <1>0, <1>7, LinkStep DEF RestartHub, CountOn
  <2> QED
    BY <1>0, <1>1, <2>1
<1>8. CASE Administer /\ (job = NoJob /\ job' = NoJob => life = Down)
  <2>1. CASE Recorded' = Recorded
    BY <1>0, <1>1, <1>2, <1>8, <2>1, LinkStep
  <2>2. CASE Command /\ Recorded' \subseteq Recorded
    <3>1. life = Down /\ life' = life
      BY <1>8, <2>2 DEF Command, MarkAccountsAsUnused, MarkProxiesAsUnused,
         RemoveDeadProxies, DropProxies, Administer
    <3>2. IdsHeld' = {}
      BY <1>1, <3>1
    <3> QED
      BY <1>0, <1>8, <2>2, <3>2, LinkStep
  <2> QED
    BY <1>8, <2>1, <2>2, LinkStep
<1>9. CASE Serve \/ Load \/ LogIn \/ Crash \/ CheckBans \/ UNCHANGED fvars
  BY <1>3, <1>4, <1>5, <1>6, <1>9, LinkStep
<1> QED
  BY <1>7, <1>8, <1>9 DEF CarefulNext

LEMMA IdsInit == FInit => IdsInv
<1> SUFFICES ASSUME FInit PROVE IdsInv
  OBVIOUS
<1>1. IdsHeld = {} /\ Recorded = {}
  BY NoneDistinct DEF FInit, Init, LinksInit, IdsHeld, Carried, Loads, Recorded, Down
<1>2. InOrder
  BY DEF FInit, Init, LinksInit, InOrder
<1> QED
  BY <1>1, <1>2 DEF IdsInv

LEMMA CarefulInit == FreshInit => FQInv /\ IdsInv
BY FInitInv, IdsInit DEF FreshInit

LEMMA IdsInvariance == CarefulSpec => [](FQInv /\ IdsInv)
<1>1. ASSUME FQInv, IdsInv, [CarefulNext /\ InOrder' /\ SomeoneFit' /\ AtomicGets']_fvars
      PROVE  FQInv' /\ IdsInv'
  <2>1. [CarefulNext]_fvars
    BY <1>1
  <2>2. InOrder'
    BY <1>1 DEF IdsInv, InOrder, fvars, vars, svars
  <2> QED
    BY <1>1, <2>1, <2>2, CarefulIsFleet, FQNextInv, IdsStep
<1> QED
  BY <1>1, CarefulInit, PTL DEF CarefulSpec

(* However often the hub is restarted, and forgets all proxies, while the    *)
(* sessions live on: the id of a session comes back into its future only by  *)
(* a restart that finds no record in the database.                           *)
THEOREM HeldIdsRetiredAlways == CarefulSpec => HeldIdsRetired
<1> DEFINE Retires ==
      \A t \in Live :
        proxy[t] # NoProxy /\ link[proxy[t]] # "new" /\ link'[proxy[t]] = "new" =>
          \A p \in ProxyId : proxies[p] = NoRecord
<1>1. ASSUME FQInv, IdsInv, [CarefulNext]_fvars PROVE Retires
  <2> SUFFICES ASSUME NEW t \in Live, proxy[t] # NoProxy,
                      link[proxy[t]] # "new", link'[proxy[t]] = "new"
               PROVE  Recorded = {}
    BY DEF Recorded
  <2>1. t \in Trainer /\ proxy[t] \in ProxyId
    BY <1>1, LiveSessions DEF FQInv, FTypeOK, STypeOK
  <2>2. proxy[t] \in IdsHeld
    BY <2>1 DEF IdsHeld, Carried
  <2>3. RestartHub
    BY <1>1, <2>1, OldIds DEF CarefulNext
  <2>4. \A q \in Recorded : proxy[t] > q
    BY <2>1, <2>3 DEF RestartHub, CountOn, Recorded
  <2>5. ~\E q \in Recorded : proxy[t] <= q
    <3>1. proxy[t] \in Nat /\ \A q \in Recorded : q \in Nat
      BY <2>1, IdsAreNumbers DEF Recorded
    <3>2. \A m, n \in Nat : m > n => ~(m <= n)
      OBVIOUS
    <3> QED
      BY <2>4, <3>1, <3>2
  <2> QED
    BY <1>1, <2>2, <2>5 DEF IdsInv
<1>2. FQInv /\ IdsInv /\ [CarefulNext]_fvars => [Retires]_fvars
  BY <1>1
<1>3. [CarefulNext /\ InOrder' /\ SomeoneFit' /\ AtomicGets']_fvars
        => [CarefulNext]_fvars
  OBVIOUS
<1> QED
  BY <1>2, <1>3, IdsInvariance, PTL DEF CarefulSpec, HeldIdsRetired
-----------------------------------------------------------------------------
(* What holds of the sessions, as in the scanner alone, if nobody asks for a *)
(* scan while the login goroutine works.                                     *)
SessionsInv ==
  /\ Places /\ Named
  /\ login # NoLogin => Idle
  /\ StatusNear /\ StatusHasTrainer

(* With no request under way every session is in the queue, and healthy. *)
LEMMA IdleFacts ==
  ASSUME FQInv, Places, Idle
  PROVE  /\ Held = {}
         /\ \A t \in Trainer :
              /\ health[t] = {} /\ ~Returned(t) /\ Unreported(t) /\ Reported(t)
              /\ \A places : "idle" \notin places => ~UserIn(t, places)
         /\ \A h \in Caller, a \in Account : ~Gets(h, a)
<1>1. \A h \in Caller : held[h] = NoTrainer
  BY DEF Places, Place, Idle, HasTrainer, Scanning, Unsettled
<1>2. Held = {}
  BY <1>1, NoTrainerDistinct DEF Held
<1>3. ASSUME NEW t \in Trainer PROVE health[t] = {}
  BY <1>2 DEF FQInv, Clean, QInv, OnlyUsableQueued, Live
<1> QED
  BY <1>2, <1>3 DEF Idle, Returned, Unreported, Reported, UserIn, Gets

LEMMA IdlePlaces ==
  ASSUME Idle', getting' = {}, \A h \in Caller : held'[h] = NoTrainer
  PROVE  Places'
BY DEF Idle, Places, Place, HasProxy, HasAccount, HasTrainer, Scanning, ProxyLost,
       Unsettled

LEMMA ServeSessions ==
  ASSUME FQInv, SessionsInv, AtomicGets, AccountsApart, Serve,
         login # NoLogin => Idle'
  PROVE  SessionsInv' /\ AccountsApart'
<1>1. RInv /\ Named /\ StatusNear /\ StatusHasTrainer
  BY DEF FQInv, FTypeOK, RInv, SessionsInv
<1>2. [Next]_vars /\ UNCHANGED login
  BY ServeIsNext
<1> QED
  BY <1>1, <1>2, PlacesStep, NamedStep, StatusNearStep, StatusStep, AccountsStep
  DEF SessionsInv

(* The login goroutine finds every session in the queue. *)
LEMMA LogInSessions ==
  ASSUME FQInv, SessionsInv, AccountsApart, LogIn
  PROVE  /\ SessionsInv' /\ AccountsApart'
         /\ \A t \in Trainer, a \in Account : Keeps(t, a)' => Keeps(t, a)
<1>1. /\ Live' = Live /\ UNCHANGED <<held, pc, acct, accounts, status>>
      /\ login # NoLogin
      /\ \A t \in Trainer : /\ health'[t] \in {health[t], health[t] \ {"dead"}}
                          /\ proxy'[t] \in {proxy[t], NoProxy}
  BY ReviveQueue
<1>2. UNCHANGED <<foundProxy, foundAcct, getting>>
  BY DEF LogIn, BlockOnNil, TickComes, LoginDone, LoginProxyDead,
       LoginFindProxy, LoginMarkProxy, vars, svars, qvars, requests
<1>3. FQInv' /\ Idle /\ Idle' /\ Live \subseteq Trainer
  BY <1>1, LogInInv, LiveSessions DEF SessionsInv, Idle, FQInv
<1>4. Places'
  BY <1>1, <1>2, <1>3 DEF SessionsInv, Idle, Places, Place, HasProxy, HasAccount,
     HasTrainer, Scanning, ProxyLost, Unsettled
<1>5. /\ \A t \in Trainer : /\ health[t] = {} /\ ~Returned(t) /\ Unreported(t)
                          /\ Reported(t)
                          /\ \A places : "idle" \notin places => ~UserIn(t, places)
      /\ \A h \in Caller, a \in Account : ~Gets(h, a)
  BY <1>3, IdleFacts DEF SessionsInv
<1>6. \A t \in Trainer : health'[t] = {}
  BY <1>1, <1>5
<1>7. Named'
  BY <1>1 DEF SessionsInv, Named
<1>8. StatusNear'
  BY <1>1, <1>3, <1>5 DEF SessionsInv, StatusNear
<1>9. StatusHasTrainer'
  BY <1>1, <1>6 DEF SessionsInv, StatusHasTrainer, StandsFor
<1>10. AccountsQuiet
  BY <1>1, <1>2, <1>3, <1>5, <1>6
  DEF AccountsQuiet, Keeps, Returned, Gets, Idle
<1> QED
  BY <1>1, <1>3, <1>4, <1>7, <1>8, <1>9, <1>10, QuietAccounts
  DEF SessionsInv, AccountsQuiet

LEMMA CrashSessions ==
  ASSUME Crash PROVE SessionsInv' /\ AccountsApart'
<1>1. Live' = {} /\ Idle' /\ getting' = {}
      /\ \A h \in Caller : held'[h] = NoTrainer
  BY CrashQueue DEF Crash, Idle
<1>2. Places'
  BY <1>1, IdlePlaces
<1>3. AccountsApart'
  BY <1>1 DEF AccountsApart, OneKeeper, KeptUsed, SoughtUnused, Keeps, Gets, Idle
<1>4. StatusHasTrainer' /\ StatusNear' /\ Named'
  BY <1>1 DEF Crash, StatusHasTrainer, StatusNear, Named
<1> QED
  BY <1>1, <1>2, <1>3, <1>4 DEF SessionsInv

(* A write to the database by somebody else than a request. *)
LEMMA WriteApart ==
  ASSUME AccountsApart,
         UNCHANGED <<qvars, requests, acct>>,
         \A a \in Account :
           \/ accounts'[a] = accounts[a]
           \/ /\ \A h \in Caller : ~Gets(h, a)
              /\ \A h \in Caller : pc[h] = "markAccount" => foundAcct[h] # a
              /\ \A t \in Trainer : Keeps(t, a) =>
                   /\ accounts'[a].used
                   /\ Unreported(t) => ~Flagged(accounts'[a])
  PROVE  AccountsApart'
<1>1. UNCHANGED <<pc, foundAcct, acct, held, health>> /\ Live' = Live
  BY DEF qvars, requests, Live, Held
<1>2. /\ \A t \in Trainer, a \in Account : Keeps(t, a)' <=> Keeps(t, a)
      /\ \A t \in Trainer : Unreported(t)' <=> Unreported(t)
      /\ \A h \in Caller, a \in Account : Gets(h, a)' <=> Gets(h, a)
  BY <1>1 DEF Keeps, Returned, Unreported, UserIn, Gets
<1>3. OneKeeper'
  BY <1>2 DEF AccountsApart, OneKeeper
<1>4. KeptUsed'
  BY <1>2 DEF AccountsApart, KeptUsed, InUse
<1>5. SoughtUnused'
  BY <1>1 DEF AccountsApart, SoughtUnused, FreeAccounts
<1> QED
  BY <1>3, <1>4, <1>5 DEF AccountsApart

LEMMA SameSessions ==
  ASSUME SessionsInv, UNCHANGED <<qvars, requests, sessions>>,
         login' # NoLogin => Idle \/ login # NoLogin
  PROVE  SessionsInv'
<1>1. UNCHANGED <<getting, held, health, pc, foundProxy, foundAcct, acct, proxy, status>>
      /\ Live' = Live
  BY DEF qvars, requests, sessions, Live, Held
<1>2. Places' /\ Named'
  BY <1>1 DEF SessionsInv, Places, Place, Named
<1>3. StatusNear' /\ StatusHasTrainer'
  BY <1>1 DEF SessionsInv, StatusNear, StatusHasTrainer, StandsFor, UserIn, Reported
<1>4. login' # NoLogin => Idle'
  BY <1>1 DEF SessionsInv, Idle
<1> QED
  BY <1>2, <1>3, <1>4 DEF SessionsInv
-----------------------------------------------------------------------------
(* The account that main builds a session with is free, and then its own. *)
Loader ==
  /\ life.at = "markAccount" => life.acct \in FreeAccounts
  /\ life.at = "append" => /\ InUse(life.acct)
                           /\ \A t \in Trainer : ~Keeps(t, life.acct)

(* The copies that the checker may still write: each account is as banned    *)
(* and flagged as its copy says, and if a session has it, one that is about  *)
(* to be dropped, the copy says used.                                        *)
Pending == round \cup IF checker.at \in {"markProxy", "login"}
                      THEN {checker.copy} ELSE {}
Copies ==
  /\ \A c \in Pending :
       /\ accounts[c.name].banned
       /\ accounts[c.name].captcha = c.doc.captcha
       /\ \A t \in Trainer : Keeps(t, c.name) => c.doc.used
  /\ \A c, d \in Pending : c.name = d.name => c = d
  /\ checker.at \in {"markProxy", "login"} => checker.copy \notin round

LEMMA AppendSessions ==
  ASSUME FQInv, SessionsInv, AccountsApart, Loader, LoadAppend
  PROVE  /\ SessionsInv' /\ AccountsApart'
         /\ \A t \in Trainer, a \in Account :
              Keeps(t, a)' => Keeps(t, a) \/ a = life.acct
<1>1. /\ UNCHANGED <<held, health, pc, getting, foundProxy, foundAcct, accounts>>
      /\ status' = [status EXCEPT ![life.acct] = life.proxy]
      /\ life.at = "append" /\ InUse(life.acct)
      /\ \A t \in Trainer : ~Keeps(t, life.acct)
      /\ login' # NoLogin => Idle
  <2>1. life # Serving
    BY DEF LoadAppend, Serving
  <2> QED
    BY <2>1 DEF LoadAppend, requests, dbvars, Loader, FQInv, Quiet
<1>2. PICK t \in Trainer \ Live :
        /\ Live' = Live \cup {t}
        /\ acct' = [acct EXCEPT ![t] = life.acct]
        /\ proxy' = [proxy EXCEPT ![t] = life.proxy]
  BY AppendQueue
<1>3. /\ life.acct \in Account /\ life.proxy \in ProxyId
      /\ acct \in [Trainer -> Account \cup {NoAccount}]
      /\ proxy \in [Trainer -> ProxyId \cup {NoProxy}]
      /\ status \in [Account -> ProxyId \cup {NoProxy}]
      /\ Live \subseteq Trainer
      /\ Idle
  <2>1. life # Serving
    BY <1>1 DEF Serving
  <2> QED
    BY <1>1, <2>1, LifeFacts, LiveSessions DEF FQInv, FTypeOK, STypeOK, Quiet
<1>4. /\ \A u \in Trainer : /\ health[u] = {} /\ ~Returned(u) /\ Unreported(u)
                          /\ Reported(u)
      /\ \A h \in Caller, a \in Account : ~Gets(h, a)
  BY <1>3, IdleFacts DEF SessionsInv
<1>5. \A u \in Live : u # t /\ acct'[u] = acct[u] /\ proxy'[u] = proxy[u]
  BY <1>2, <1>3
<1>6. acct'[t] = life.acct /\ proxy'[t] = life.proxy
  BY <1>2, <1>3
<1>7. \A u \in Live : acct[u] \in Account /\ acct[u] # life.acct
  BY <1>1, <1>3, <1>4 DEF SessionsInv, Named, Keeps
<1>8. Named'
  BY <1>2, <1>3, <1>5, <1>6, <1>7 DEF Named
<1>9. Places'
  BY <1>1 DEF SessionsInv, Places, Place
<1>10. StatusNear'
  BY <1>1, <1>2, <1>3, <1>4, <1>5, <1>6, <1>7, NoneDistinct DEF SessionsInv, StatusNear
<1>11. StatusHasTrainer'
  <2> SUFFICES ASSUME NEW a \in Account, status'[a] # NoProxy
               PROVE  \E u \in Trainer : StandsFor(u, a, Listed)'
    BY DEF StatusHasTrainer
  <2>1. CASE a = life.acct
    BY <1>1, <1>2, <1>4, <1>6, <2>1 DEF StandsFor
  <2>2. CASE a # life.acct
    <3>1. status[a] # NoProxy
      BY <1>1, <1>3, <2>2
    <3>2. PICK u \in Trainer : StandsFor(u, a, Listed)
      BY <3>1 DEF SessionsInv, StatusHasTrainer
    <3>3. u \in Live' /\ acct'[u] = a /\ health'[u] = {}
      BY <1>1, <1>2, <1>4, <1>5, <3>2 DEF StandsFor
    <3> QED
      BY <3>3 DEF StandsFor
  <2> QED
    BY <2>1, <2>2
<1>12. \A u \in Trainer : ~Returned(u)' /\ health'[u] = {}
  BY <1>1, <1>4 DEF Returned
<1>13. ASSUME NEW u \in Trainer, NEW a \in Account, Keeps(u, a)'
       PROVE  (u # t /\ Keeps(u, a) /\ a # life.acct) \/ (u = t /\ a = life.acct)
  BY <1>2, <1>4, <1>5, <1>6, <1>7, <1>13 DEF Keeps
<1>14. \A h \in Caller, a \in Account : ~Gets(h, a)'
  BY <1>1, <1>4 DEF Gets
<1>15. OneKeeper'
  BY <1>13, <1>14 DEF AccountsApart, OneKeeper
<1>16. KeptUsed'
  <2>1. \A a \in Account : InUse(a)' <=> InUse(a)
    BY <1>1 DEF InUse
  <2> QED
    BY <1>1, <1>4, <1>13, <1>14, <2>1 DEF AccountsApart, KeptUsed, InUse
<1>17. SoughtUnused'
  BY <1>1, <1>3 DEF Idle, SoughtUnused
<1> QED
  BY <1>1, <1>8, <1>9, <1>10, <1>11, <1>13, <1>15, <1>16, <1>17
  DEF SessionsInv, AccountsApart, Idle
-----------------------------------------------------------------------------
(* A session gets an account only from a request that has marked it. *)
LEMMA KeepersStay ==
  ASSUME RInv, Named, [Next]_vars, NEW t \in Trainer, NEW a \in Account,
         Keeps(t, a)', \A h \in Caller : ~Gets(h, a)
  PROVE  Keeps(t, a)
<1> USE NoTrainerDistinct
<1>0. QInv /\ acct \in [Trainer -> Account \cup {NoAccount}]
  BY DEF RInv, STypeOK
<1>1. ASSUME NEW h \in Caller, Receive(h) \/ HandlerStep(h), t \in Live, t = held[h]
      PROVE  Keeps(t, a)
  <2>1. t \in Live' /\ acct'[t] = a
    BY DEF Keeps
  <2>2. ~Receive(h) /\ ~BuildTrainer(h) /\ ~GetTrainer(h) /\ ~GetFails(h)
    <3>1. pc[h] \in HasTrainer
      BY <1>1 DEF RInv, Places, Place
    <3> QED
      BY <3>1 DEF Receive, BuildTrainer, GetTrainer, GetFails, Goto, HasTrainer,
                  Scanning, Unsettled
  <2>3. CASE Finish(h)
    <3>1. health[t] = {}
      BY <1>0, <1>1, <2>1, <2>3, CallerLive DEF Finish
    <3>2. acct' = acct
      BY <1>1, <2>3, <3>1 DEF Finish, Reusable
    <3> QED
      BY <1>1, <2>1, <3>1, <3>2 DEF Keeps, Returned
  <2>4. CASE ~Finish(h)
    <3>1. acct' = acct /\ pc[h] # "done"
      BY <1>1, <2>2, <2>4
      DEF HandlerStep, FindProxy, FindAccount, FindReplacement, MarkProxy,
          MarkReplacement, GiveProxyBack, MarkAccount, ScanEnds, ScanAgain,
          ForgetBusy, ReturnAccount, UpdateAccount, Forget, ProxyDies,
          AccountRefused, UseReplacement, Goto, Scanning
    <3>2. ~Returned(t)
      BY <1>1, <3>1, OwnReturned
    <3> QED
      BY <1>1, <2>1, <3>1, <3>2 DEF Keeps
  <2> QED
    BY <2>3, <2>4
<1>2. ASSUME NEW h \in Caller, Receive(h) \/ HandlerStep(h), t \in Live, t # held[h]
      PROVE  Keeps(t, a)
  BY <1>2, OthersKeep
<1>3. ASSUME NEW h \in Caller, Receive(h) \/ HandlerStep(h), t \notin Live
      PROVE  FALSE
  <2>1. t \in Live' /\ acct'[t] = a
    BY DEF Keeps
  <2>2. BuildTrainer(h)
    BY <1>0, <1>3, <2>1, NewSessions
  <2>3. PICK u \in Trainer : /\ NewTrainer(h, u)
                             /\ acct' = [acct EXCEPT ![u] = foundAcct[h]]
    BY <2>2 DEF BuildTrainer
  <2>4. t = u
    BY <1>0, <1>3, <2>1, <2>3, CallerLive
  <2>5. foundAcct[h] = a
    BY <1>0, <2>1, <2>3, <2>4
  <2> QED
    BY <2>2, <2>5 DEF BuildTrainer, Goto, Gets
<1>4. CASE \/ \E u \in Trainer : QueueStep(u)
           \/ \E p \in ProxyId : Connect(p) \/ Disconnect(p) \/ MarkDead(p)
           \/ UNCHANGED vars
  <2>1. Live' = Live /\ UNCHANGED <<held, health, pc, acct>>
    BY <1>0, <1>4, EnvironmentSessions
  <2> QED
    BY <2>1 DEF Keeps, Returned, UserIn
<1> QED
  BY <1>1, <1>2, <1>3, <1>4 DEF Next

(* Who works with an account and with a proxy, as scannerStatus tells. *)
WorkedWith(a) == \E t \in Live : acct[t] = a
ScannedWith(p) == \E t \in Live : \/ proxy[t] = p
                                  \/ proxy[t] = NoProxy /\ status[acct[t]] = p

LEMMA EntriesExact ==
  ASSUME FQInv, SessionsInv, Idle
  PROVE  /\ \A a \in Account : a \in {e.name : e \in Entries} <=> WorkedWith(a)
         /\ \A p \in ProxyId : p \in {e.id : e \in Entries} <=> ScannedWith(p)
<1>1. /\ \A t \in Live : /\ t \in Trainer /\ acct[t] \in Account
                        /\ status[acct[t]] # NoProxy
                        /\ proxy[t] \in {NoProxy, status[acct[t]]}
      /\ \A a \in Account : status[a] # NoProxy => WorkedWith(a)
  BY IdleFacts, LiveSessions
  DEF FQInv, SessionsInv, Named, StatusNear, StatusHasTrainer, StandsFor, WorkedWith
<1> DEFINE entry(b) == [name |-> b, id |-> status[b]]
<1>2. \A e : e \in Entries <=> \E b \in Account : status[b] # NoProxy /\ e = entry(b)
  BY DEF Entries
<1>3. \A b : entry(b).name = b /\ entry(b).id = status[b]
  OBVIOUS
<1> HIDE DEF entry
<1>4. \A x : x \in {e.name : e \in Entries} <=> x \in Account /\ status[x] # NoProxy
  BY <1>2, <1>3
<1>5. \A x : x \in {e.id : e \in Entries} <=>
               \E b \in Account : status[b] # NoProxy /\ x = status[b]
  <2>1. \A x : x \in {e.id : e \in Entries} <=> \E e \in Entries : x = e.id
    OBVIOUS
  <2> QED
    BY <1>2, <1>3, <2>1
<1>6. ASSUME NEW p \in ProxyId, NEW b \in Account, status[b] # NoProxy, p = status[b]
      PROVE  ScannedWith(p)
  <2>1. PICK t \in Live : acct[t] = b
    BY <1>1, <1>6 DEF WorkedWith
  <2> QED
    BY <1>1, <1>6, <2>1 DEF ScannedWith
<1>7. ASSUME NEW p \in ProxyId, ScannedWith(p)
      PROVE  \E b \in Account : status[b] # NoProxy /\ p = status[b]
  <2>1. PICK t \in Live : proxy[t] = p \/ (proxy[t] = NoProxy /\ status[acct[t]] = p)
    BY <1>7 DEF ScannedWith
  <2>2. p = status[acct[t]]
    BY <1>1, <2>1, NoneDistinct
  <2> QED
    BY <1>1, <2>2
<1> QED
  BY <1>1, <1>4, <1>5, <1>6, <1>7 DEF WorkedWith
-----------------------------------------------------------------------------
(* While -ufs runs nobody works, and its answer says who has what, unless    *)
(* the scanner has died; its updates make the database say the same.         *)
JobInv ==
  job # NoJob =>
    /\ Resting
    /\ life = Serving =>
         /\ \A a \in Account : a \in job.names <=> WorkedWith(a)
         /\ \A p \in ProxyId : p \in job.ids <=> ScannedWith(p)
         /\ \A p \in ProxyId : ScannedWith(p) => link[p] # "new"
         /\ job.at = "freeAccounts" => \A a \in job.names : accounts[a].used
         /\ job.at \in {"useProxies", "freeProxies"} =>
              \A a \in Account : accounts[a].used <=> a \in job.names
         /\ job.at = "freeProxies" =>
              \A p \in job.ids :
                proxies[p] # NoRecord /\ ~proxies[p].dead => proxies[p].use

ScanInv ==
  SessionsInv /\ AtomicGets /\ AccountsApart /\ Loader /\ Copies /\ JobInv

(* Where nobody works, nothing but the hub and the death of the scanner      *)
(* changes what -ufs relies on.                                              *)
LEMMA RestingStep ==
  ASSUME FQInv, Resting, Resting',
         Serve \/ Load \/ LogIn \/ Crash \/ CheckBans \/ UNCHANGED fvars
  PROVE  /\ UNCHANGED job
         /\ \/ life' = Down
            \/ /\ Live' = Live
               /\ UNCHANGED <<accounts, acct, proxy, status, life>>
               /\ \/ UNCHANGED proxies
                  \/ \E p \in ProxyId : Connect(p) \/ MarkDead(p)
<1>0. /\ \A h \in Caller : pc[h] = "idle" /\ pc'[h] = "idle"
      /\ life \in {Serving, Down} /\ life' \in {Serving, Down}
      /\ login = NoLogin /\ checker = Between /\ checker' = Between
      /\ pc \in [Caller -> Pc] /\ QInv
  BY DEF Resting, FQInv, FTypeOK, STypeOK
<1>1. CASE Serve
  <2>1. ASSUME NEW h \in Caller, Receive(h) \/ HandlerStep(h) PROVE FALSE
    BY <1>0, <2>1 DEF HandlerStep, Receive, GetTrainer, GetFails, FindProxy,
       FindAccount, FindReplacement, MarkProxy, MarkReplacement,
       GiveProxyBack, MarkAccount, ScanEnds, ScanAgain, ForgetBusy, BuildTrainer,
       ReturnAccount, UpdateAccount, Forget, ProxyDies, AccountRefused, Finish,
       UseReplacement, Goto, Scanning
  <2>2. \/ \E t \in Trainer : QueueStep(t)
        \/ \E p \in ProxyId : Connect(p) \/ Disconnect(p) \/ MarkDead(p)
    BY <1>1, <2>1 DEF Serve
  <2>3. Live' = Live /\ UNCHANGED <<accounts, acct, proxy, status, life, job>>
    BY <1>0, <1>1, <2>2, EnvironmentSessions, ServeIsNext
  <2>4. UNCHANGED proxies \/ \E p \in ProxyId : Connect(p) \/ MarkDead(p)
    BY <2>2 DEF QueueStep, Disconnect, dbvars
  <2> QED
    BY <2>3, <2>4
<1>2. CASE Load
  BY <1>0, <1>2 DEF Load, Start, LoadFindProxy, LoadMarkProxy, LoadFindAccount,
     LoadReturnProxy, LoadMarkAccount, LoadAppend, Serving, Down, FindAny
<1>3. CASE LogIn
  BY <1>0, <1>3, ReviveQueue
<1>4. CASE Crash
  BY <1>4 DEF Crash
<1>5. CASE CheckBans
  <2>1. GetBannedAccounts \/ StartCheck
    BY <1>0, <1>5 DEF CheckBans, CheckerStep, MarkCheckProxy, LiftBan, KeepBan,
       EndCheck, RestartChecker, Between
  <2> QED
    BY <1>5, <2>1 DEF CheckBans, GetBannedAccounts, StartCheck, qvars, svars, Live, Held
<1>6. CASE UNCHANGED fvars
  BY <1>6 DEF fvars, vars, qvars, dbvars, svars, Live, Held
<1> QED
  BY <1>1, <1>2, <1>3, <1>4, <1>5, <1>6

LEMMA JobStep ==
  ASSUME FQInv, IdsInv, SessionsInv, JobInv, job # NoJob => Resting',
         Serve \/ Load \/ LogIn \/ Crash \/ CheckBans \/ UNCHANGED fvars
  PROVE  JobInv'
<1>0. UNCHANGED job
  BY DEF Serve, Load, LogIn, Crash, CheckBans, Start, LoadFindProxy, LoadMarkProxy,
     LoadFindAccount, LoadReturnProxy, LoadMarkAccount, LoadAppend, BlockOnNil,
     TickComes, LoginDone, LoginProxyDead, LoginFindProxy, LoginMarkProxy, fvars
<1>1. SUFFICES ASSUME job # NoJob PROVE JobInv'
  BY <1>0 DEF JobInv
<1>2. Resting /\ Resting'
  BY <1>1 DEF JobInv
<1>5. \A p \in ProxyId : link[p] # "new" => link'[p] # "new"
  BY OldIds
<1>3. CASE life' = Down
  <2>1. Serving # Down
    BY DEF Serving, Down
  <2> QED
    BY <1>2, <1>3, <2>1 DEF JobInv
<1>4. CASE /\ Live' = Live
           /\ UNCHANGED <<accounts, acct, proxy, status, life>>
           /\ UNCHANGED proxies \/ \E p \in ProxyId : Connect(p) \/ MarkDead(p)
  <2>1. /\ \A a : WorkedWith(a)' <=> WorkedWith(a)
        /\ \A p : ScannedWith(p)' <=> ScannedWith(p)
    BY <1>4 DEF WorkedWith, ScannedWith
  <2>2. ASSUME life = Serving, NEW q \in ProxyId, Connect(q) PROVE ~ScannedWith(q)
    BY <1>1, <2>2 DEF JobInv, Connect, LinkUp, Move
  <2>3. ASSUME life = Serving, job.at = "freeProxies", NEW q \in job.ids,
               proxies'[q] # NoRecord, ~proxies'[q].dead
        PROVE  proxies'[q].use
    <3>1. /\ q \in ProxyId /\ proxies \in [ProxyId -> ProxyDoc \cup {NoRecord}]
          /\ proxies[q] # NoRecord /\ ~proxies[q].dead => proxies[q].use
      <4>1. job \in Job
        BY <1>1 DEF FQInv, FTypeOK, AdminTypeOK
      <4> QED
        BY <1>1, <2>3, <4>1 DEF Job, JobInv, FQInv, FTypeOK, STypeOK, ProxiesTypeOK
    <3>2. ScannedWith(q)
      BY <1>1, <2>3, <3>1 DEF JobInv
    <3>3. CASE UNCHANGED proxies
      BY <2>3, <3>1, <3>3
    <3>4. ASSUME NEW p \in ProxyId, Connect(p) PROVE proxies'[q] = proxies[q]
      BY <2>2, <2>3, <3>1, <3>2, <3>4 DEF Connect, LinkUp, AddProxy
    <3>5. ASSUME NEW p \in ProxyId, MarkDead(p) PROVE proxies'[q] = proxies[q]
      <4>1. proxies' = [proxies EXCEPT ![p] = [use |-> FALSE, dead |-> TRUE]]
        BY <3>5 DEF MarkDead, LinkDead, UpdateProxy
      <4>2. p # q
        BY <2>3, <3>1, <4>1
      <4> QED
        BY <3>1, <4>1, <4>2
    <3> QED
      BY <1>4, <2>3, <3>1, <3>3, <3>4, <3>5
  <2> QED
    BY <1>0, <1>1, <1>2, <1>4, <1>5, <2>1, <2>3 DEF JobInv
<1> QED
  BY <1>2, <1>3, <1>4, RestingStep
-----------------------------------------------------------------------------
(* What each part of the fleet does to the sessions and their accounts. *)
Shared == SessionsInv /\ AccountsApart /\ Loader /\ Copies /\ JobInv

LEMMA PendingCopies ==
  ASSUME FQInv, NEW c \in Pending
  PROVE  c \in Copy /\ c.name \in Account /\ c.doc \in AccountDoc
<1>1. c \in Copy
  BY DEF FQInv, FTypeOK, CheckerTypeOK, Pending, Check, Between
<1> QED
  BY <1>1 DEF Copy

LEMMA SamePending ==
  ASSUME FQInv, Copies, UNCHANGED checkvars,
         \A a \in Account : accounts[a].banned =>
           /\ accounts'[a].banned
           /\ accounts'[a].captcha = accounts[a].captcha
           /\ \A t \in Trainer : Keeps(t, a)' => Keeps(t, a)
  PROVE  Copies'
<1>1. Pending' = Pending /\ UNCHANGED <<round, checker>>
  BY DEF checkvars, Pending
<1> QED
  BY <1>1, PendingCopies DEF Copies

LEMMA SameKeepers ==
  ASSUME UNCHANGED <<qvars, requests, acct>>
  PROVE  \A t \in Trainer, a \in Account : Keeps(t, a)' <=> Keeps(t, a)
BY DEF qvars, requests, Live, Held, Keeps, Returned, UserIn

LEMMA ServeShared ==
  ASSUME FQInv, IdsInv, ScanInv, Serve, job # NoJob => Resting',
         login # NoLogin => Idle'
  PROVE  Shared'
<1>0. /\ SessionsInv /\ AtomicGets /\ AccountsApart /\ Loader /\ Copies /\ JobInv
      /\ RInv /\ Named /\ [Next]_vars /\ QInv
      /\ UNCHANGED <<checkvars, life>>
  BY ServeIsNext DEF ScanInv, FQInv, FTypeOK, RInv, SessionsInv
<1>1. SessionsInv' /\ AccountsApart'
  BY <1>0, ServeSessions
<1>2. JobInv'
  BY <1>0, JobStep
<1>3. Loader'
  <2>1. SUFFICES ASSUME life # Serving PROVE Loader'
    BY <1>0 DEF Loader, Serving
  <2>2. \/ \E t \in Trainer : QueueStep(t)
        \/ \E p \in ProxyId : Connect(p) \/ Disconnect(p) \/ MarkDead(p)
    BY <2>1 DEF Serve
  <2>3. Live' = Live /\ UNCHANGED <<held, health, pc, acct, accounts>>
    BY <1>0, <2>2, EnvironmentSessions
  <2> QED
    BY <1>0, <2>3 DEF Loader, Keeps, Returned, UserIn, FreeAccounts, InUse
<1>4. ASSUME NEW a \in Account, accounts[a].banned
      PROVE  /\ accounts'[a] = accounts[a]
             /\ \A t \in Trainer : Keeps(t, a)' => Keeps(t, a)
  <2>1. accounts'[a] = accounts[a]
    BY <1>0, <1>4, BansStep DEF Flagged
  <2>2. \A h \in Caller : ~Gets(h, a)
    BY <1>0, <1>4 DEF AccountsApart, KeptUsed, InUse, Flagged
  <2> QED
    BY <1>0, <2>1, <2>2, KeepersStay
<1>5. Copies'
  BY <1>0, <1>4, SamePending
<1> QED
  BY <1>1, <1>2, <1>3, <1>5 DEF Shared

LEMMA LoadShared ==
  ASSUME FQInv, IdsInv, ScanInv, Load, job # NoJob => Resting'
  PROVE  Shared'
<1>0. /\ SessionsInv /\ AccountsApart /\ Loader /\ Copies /\ JobInv
      /\ life \in Life /\ accounts \in [Account -> AccountDoc]
      /\ Idle
  <2>1. life # Serving
    BY DEF Load, Start, LoadFindProxy, LoadMarkProxy, LoadFindAccount,
       LoadReturnProxy, LoadMarkAccount, LoadAppend, Serving, Down, FindAny
  <2> QED
    BY <2>1 DEF ScanInv, FQInv, FTypeOK, STypeOK, AccountsTypeOK, Quiet
<1>1. JobInv'
  BY <1>0, JobStep
<1>2. CASE LoadAppend
  <2>1. /\ SessionsInv' /\ AccountsApart'
        /\ \A t \in Trainer, a \in Account :
             Keeps(t, a)' => Keeps(t, a) \/ a = life.acct
    BY <1>0, <1>2, AppendSessions
  <2>2. UNCHANGED <<accounts, checkvars>> /\ InUse(life.acct)
    BY <1>0, <1>2 DEF LoadAppend, dbvars, Loader
  <2>3. Copies'
    BY <1>0, <2>1, <2>2, SamePending DEF InUse, Flagged
  <2>4. Loader'
    BY <1>2 DEF LoadAppend, Go, Serving, FindAny, Loader
  <2> QED
    BY <1>1, <2>1, <2>3, <2>4 DEF Shared
<1>3. CASE ~LoadAppend
  <2>1. UNCHANGED <<qvars, svars, requests, sessions, acct, checkvars>>
    BY <1>3 DEF Load, Start, LoadFindProxy, LoadMarkProxy, LoadFindAccount,
       LoadReturnProxy, LoadMarkAccount, vars, svars, requests, sessions
  <2>2. SessionsInv'
    BY <1>0, <2>1, SameSessions
  <2>3. /\ \A t \in Trainer, a \in Account : Keeps(t, a)' <=> Keeps(t, a)
        /\ \A h \in Caller, a \in Account : ~Gets(h, a)
        /\ \A h \in Caller : pc[h] # "markAccount"
    BY <1>0, <2>1, SameKeepers DEF Idle, Gets
  <2>4. CASE LoadMarkAccount
    <3> DEFINE m == life.acct
    <3>1. /\ life.at = "markAccount" /\ m \in Account /\ m \in FreeAccounts
          /\ accounts' = [accounts EXCEPT ![m] =
                           [used |-> TRUE, banned |-> FALSE, captcha |-> FALSE]]
          /\ life' = [life EXCEPT !.at = "append"]
      BY <1>0, <2>4, LifeFacts DEF LoadMarkAccount, Loader, MarkUsed, SaveAccount
    <3>2. /\ ~accounts[m].used /\ ~accounts[m].banned
          /\ \A a \in Account : a # m => accounts'[a] = accounts[a]
      BY <1>0, <3>1 DEF FreeAccounts, Flagged
    <3>3. \A t \in Trainer : ~Keeps(t, m)
      BY <1>0, <3>1, <3>2 DEF AccountsApart, KeptUsed
    <3>4. AccountsApart'
      BY <1>0, <2>1, <2>3, <3>2, <3>3, WriteApart
    <3>5. Copies'
      BY <1>0, <2>1, <2>3, <3>2, SamePending
    <3>6. life'.at = "append" /\ life'.acct = m
      BY <1>0, <3>1, LifeFacts
    <3>7. Loader'
      BY <1>0, <2>3, <3>1, <3>3, <3>6 DEF Loader, InUse, Flagged
    <3> QED
      BY <1>1, <2>2, <3>4, <3>5, <3>7 DEF Shared
  <2>5. CASE ~LoadMarkAccount
    <3>1. UNCHANGED accounts
      BY <1>3, <2>5 DEF Load, Start, LoadFindProxy, LoadMarkProxy, LoadFindAccount,
         LoadReturnProxy, vars, dbvars
    <3>2. AccountsApart'
      BY <1>0, <2>1, <3>1, WriteApart
    <3>3. Copies'
      BY <1>0, <2>1, <2>3, <3>1, SamePending
    <3>4. /\ life'.at # "append"
          /\ life'.at = "markAccount" => life'.acct \in FreeAccounts
      BY <1>0, <1>3, <2>5, LifeFacts
      DEF Load, Start, LoadFindProxy, LoadMarkProxy, LoadFindAccount,
          LoadReturnProxy, Go, Serving, FindAny
    <3>5. Loader'
      BY <3>1, <3>4 DEF Loader, FreeAccounts
    <3> QED
      BY <1>1, <2>2, <3>2, <3>3, <3>5 DEF Shared
  <2> QED
    BY <2>4, <2>5
<1> QED
  BY <1>2, <1>3

LEMMA LogInShared ==
  ASSUME FQInv, IdsInv, ScanInv, LogIn, job # NoJob => Resting'
  PROVE  Shared'
<1>1. JobInv'
  BY JobStep DEF ScanInv
<1>2. /\ SessionsInv' /\ AccountsApart'
      /\ \A t \in Trainer, a \in Account : Keeps(t, a)' => Keeps(t, a)
  BY LogInSessions DEF ScanInv
<1>3. UNCHANGED <<accounts, checkvars, life>> /\ life = Serving
  <2>1. UNCHANGED checkvars
    BY DEF LogIn, BlockOnNil, TickComes, LoginDone, LoginProxyDead,
       LoginFindProxy, LoginMarkProxy
  <2> QED
    BY <2>1, ReviveQueue DEF FQInv, Quiet
<1>4. Copies'
  BY <1>2, <1>3, SamePending DEF ScanInv
<1>5. Loader'
  BY <1>3 DEF Loader, Serving
<1> QED
  BY <1>1, <1>2, <1>4, <1>5 DEF Shared

LEMMA CrashShared ==
  ASSUME FQInv, IdsInv, ScanInv, Crash, job # NoJob => Resting'
  PROVE  Shared'
<1>1. JobInv'
  BY JobStep DEF ScanInv
<1>2. SessionsInv' /\ AccountsApart' /\ Live' = {}
  BY CrashSessions, CrashQueue
<1>3. UNCHANGED <<accounts, checkvars>> /\ life' = Down
  BY DEF Crash, dbvars
<1>4. \A t \in Trainer, a \in Account : ~Keeps(t, a)'
  BY <1>2 DEF Keeps
<1>5. Copies'
  BY <1>3, <1>4, SamePending DEF ScanInv
<1>6. Loader'
  BY <1>3 DEF Loader, Down
<1> QED
  BY <1>1, <1>2, <1>5, <1>6 DEF Shared

(* The checker writes only what it may: the account of its copy is banned,   *)
(* and no request or session that counts on it has it.                       *)
LEMMA CheckShared ==
  ASSUME FQInv, IdsInv, ScanInv, CheckBans, job # NoJob => Resting'
  PROVE  Shared'
<1>0. /\ SessionsInv /\ AccountsApart /\ Loader /\ Copies
      /\ accounts \in [Account -> AccountDoc]
      /\ UNCHANGED <<qvars, svars, requests, sessions, acct, life, login>>
      /\ checker \in Check \cup {Between} /\ round \subseteq Copy
      /\ life \in Life
  BY DEF ScanInv, CheckBans, svars, requests, sessions, FQInv, FTypeOK, STypeOK,
         AccountsTypeOK, CheckerTypeOK
<1>1. JobInv'
  BY JobStep DEF ScanInv
<1>2. SessionsInv'
  BY <1>0, SameSessions
<1>3. \A t \in Trainer, a \in Account : Keeps(t, a)' <=> Keeps(t, a)
  BY <1>0, SameKeepers
<1>4. CASE LiftBan
  <2> DEFINE c == checker.copy
  <2>1. /\ checker.at = "login" /\ checker \in Check
        /\ c \in Pending /\ c.name \in Account /\ c.doc \in AccountDoc
        /\ accounts' = [accounts EXCEPT ![c.name] = [c.doc EXCEPT !.banned = FALSE]]
        /\ checker' = [checker EXCEPT !.at = "returnProxy"] /\ UNCHANGED round
    BY <1>0, <1>4, PendingCopies DEF LiftBan, SaveAccount, Pending, Between
  <2>2. /\ accounts[c.name].banned
        /\ \A t \in Trainer : Keeps(t, c.name) => c.doc.used
        /\ \A d \in round : d.name # c.name
    BY <1>0, <2>1 DEF Copies, Pending
  <2>3. /\ accounts'[c.name].used = c.doc.used
        /\ \A a \in Account : a # c.name => accounts'[a] = accounts[a]
    BY <1>0, <2>1 DEF AccountDoc
  <2>4. /\ \A h \in Caller : ~Gets(h, c.name)
        /\ \A h \in Caller : pc[h] = "markAccount" => foundAcct[h] # c.name
        /\ \A t \in Trainer : Keeps(t, c.name) => ~Unreported(t)
    BY <2>1, <2>2, <1>0
    DEF AccountsApart, KeptUsed, SoughtUnused, InUse, FreeAccounts, Flagged
  <2>5. AccountsApart'
    BY <1>0, <2>2, <2>3, <2>4, WriteApart
  <2>6. Loader'
    <3>1. life.at \in {"markAccount", "append"} =>
            life.acct \in Account /\ life.acct # c.name
      BY <1>0, <2>2, LifeFacts DEF Loader, FreeAccounts, InUse, Flagged
    <3> QED
      BY <1>0, <1>3, <2>3, <3>1 DEF Loader, FreeAccounts, InUse
  <2>7. checker'.at = "returnProxy"
    BY <2>1 DEF Check
  <2>8. Pending' = round /\ round' = round /\ round \subseteq Pending
    BY <2>1, <2>7 DEF Pending
  <2>9. \A d \in round : d.name \in Account /\ accounts'[d.name] = accounts[d.name]
    BY <2>2, <2>3, <2>8, PendingCopies
  <2>10. Copies'
    BY <1>0, <1>3, <2>7, <2>8, <2>9 DEF Copies
  <2> QED
    BY <1>1, <1>2, <2>5, <2>6, <2>10 DEF Shared
<1>5. CASE ~LiftBan
  <2>1. UNCHANGED accounts
    BY <1>5 DEF CheckBans, CheckerStep, GetBannedAccounts, StartCheck,
       MarkCheckProxy, KeepBan, EndCheck, RestartChecker
  <2>2. AccountsApart'
    BY <1>0, <2>1, WriteApart
  <2>3. Loader'
    BY <1>0, <1>3, <2>1, LifeFacts DEF Loader, FreeAccounts, InUse
  <2>4. CASE GetBannedAccounts
    <3>1. /\ checker = Between /\ checker' = Between
          /\ round' = {[name |-> a, doc |-> accounts[a]] : a \in BannedAccounts}
      BY <2>4 DEF GetBannedAccounts
    <3>2. Pending' = round'
      BY <3>1 DEF Pending, Between
    <3>3. ASSUME NEW d \in round'
          PROVE  d.name \in Account /\ accounts[d.name].banned /\ d.doc = accounts[d.name]
      BY <3>1 DEF BannedAccounts
    <3>4. \A d, e \in round' : d.name = e.name => d = e
      BY <3>1
    <3>5. \A t \in Trainer, a \in Account : Keeps(t, a) => accounts[a].used
      BY <1>0 DEF AccountsApart, KeptUsed
    <3>6. Copies'
      BY <1>3, <2>1, <3>1, <3>2, <3>3, <3>4, <3>5 DEF Copies, Between
    <3> QED
      BY <1>1, <1>2, <2>2, <2>3, <3>6 DEF Shared
  <2>5. CASE ~GetBannedAccounts
    <3>1. /\ Pending' \subseteq Pending
          /\ checker'.at \in {"markProxy", "login"} => checker'.copy \notin round'
      <4>1. CASE StartCheck
        <5>1. PICK d \in round :
                /\ round' = round \ {d}
                /\ \/ \E p \in FreeProxies :
                        checker' = [at |-> "markProxy", copy |-> d, proxy |-> p]
                   \/ checker' = checker
          BY <4>1 DEF StartCheck
        <5>2. checker = Between
          BY <4>1 DEF StartCheck
        <5> QED
          BY <5>1, <5>2 DEF Pending, Between
      <4>2. CASE MarkCheckProxy \/ KeepBan
        <5>1. checker \in Check /\ UNCHANGED round
          BY <1>0, <4>2 DEF MarkCheckProxy, KeepBan, Between
        <5>2. checker'.copy = checker.copy
          BY <4>2, <5>1 DEF MarkCheckProxy, KeepBan, Check
        <5>3. /\ MarkCheckProxy => checker.at = "markProxy"
              /\ KeepBan => checker'.at = "returnProxy"
          BY <5>1 DEF MarkCheckProxy, KeepBan, Check
        <5> QED
          BY <1>0, <4>2, <5>1, <5>2, <5>3 DEF Pending, Copies
      <4>3. CASE EndCheck \/ RestartChecker
        BY <4>3 DEF EndCheck, RestartChecker, Pending, Between
      <4> QED
        BY <1>5, <2>5, <4>1, <4>2, <4>3 DEF CheckBans, CheckerStep
    <3>2. Copies'
      BY <1>0, <1>3, <2>1, <3>1, PendingCopies DEF Copies
    <3> QED
      BY <1>1, <1>2, <2>2, <2>3, <3>2 DEF Shared
  <2> QED
    BY <2>4, <2>5
<1> QED
  BY <1>4, <1>5

LEMMA RestartShared ==
  ASSUME FQInv, ScanInv, RestartHub, job = NoJob
  PROVE  Shared'
<1>1. UNCHANGED <<accounts, qvars, requests, sessions, acct, checkvars, job, life, login>>
  BY DEF RestartHub, sessions
<1>2. SessionsInv'
  BY <1>1, SameSessions DEF ScanInv
<1>3. \A t \in Trainer, a \in Account : Keeps(t, a)' <=> Keeps(t, a)
  BY <1>1, SameKeepers
<1>4. AccountsApart'
  BY <1>1, WriteApart DEF ScanInv
<1>5. Loader'
  BY <1>1, <1>3, LifeFacts DEF ScanInv, Loader, FreeAccounts, InUse, FQInv, FTypeOK
<1>6. Copies'
  BY <1>1, <1>3, SamePending DEF ScanInv
<1>7. JobInv'
  BY <1>1 DEF JobInv
<1> QED
  BY <1>2, <1>4, <1>5, <1>6, <1>7 DEF Shared

(* The careful administrator changes no ban and no flag, and takes the used  *)
(* mark from no account that a session has.                                  *)
LEMMA AdminAccounts ==
  ASSUME FQInv, ScanInv, Administer, Resting,
         job = NoJob /\ job' = NoJob => life = Down,
         NEW a \in Account
  PROVE  /\ accounts'[a].banned = accounts[a].banned
         /\ accounts'[a].captcha = accounts[a].captcha
         /\ \A t \in Trainer : Keeps(t, a) => accounts'[a].used
<1>0. /\ accounts \in [Account -> AccountDoc]
      /\ \A t \in Trainer : Keeps(t, a) => accounts[a].used /\ life = Serving
      /\ \A t \in Trainer : Keeps(t, a) => WorkedWith(a)
      /\ Serving # Down
  <2>1. life \in {Serving, Down} /\ (life = Down => Live = {})
    BY DEF Resting, FQInv, Quiet
  <2> QED
    BY <2>1 DEF ScanInv, AccountsApart, KeptUsed, FQInv, FTypeOK, STypeOK,
       AccountsTypeOK, Keeps, WorkedWith, Serving, Down
<1>1. \A value \in BOOLEAN :
        /\ [accounts[a] EXCEPT !.used = value].used = value
        /\ [accounts[a] EXCEPT !.used = value].banned = accounts[a].banned
        /\ [accounts[a] EXCEPT !.used = value].captcha = accounts[a].captcha
  BY <1>0 DEF AccountDoc
<1>2. CASE UseListedAccounts
  BY <1>0, <1>1, <1>2 DEF UseListedAccounts, SetUsed
<1>3. CASE FreeOtherAccounts
  <2>1. job # NoJob /\ accounts' = [b \in Account |->
          IF b \in Account \ job.names THEN [accounts[b] EXCEPT !.used = FALSE]
          ELSE accounts[b]]
    BY <1>3 DEF FreeOtherAccounts, SetUsed, NoJob
  <2>2. \A t \in Trainer : Keeps(t, a) => a \in job.names
    BY <1>0, <2>1 DEF ScanInv, JobInv
  <2> QED
    BY <1>0, <1>1, <2>1, <2>2
<1>4. CASE MarkAccountsAsUnused
  BY <1>0, <1>1, <1>4 DEF MarkAccountsAsUnused, SetUsed
<1>5. CASE UNCHANGED accounts
  BY <1>0, <1>5
<1> QED
  BY <1>2, <1>3, <1>4, <1>5
  DEF Administer, ReadStatus, Cleanup, Command, UseListedProxies, FreeOtherProxies,
      MarkProxiesAsUnused, RemoveDeadProxies, DropProxies

LEMMA AdminJob ==
  ASSUME FQInv, ScanInv, Administer, Resting, ReportedRetired
  PROVE  JobInv'
<1>0. /\ accounts \in [Account -> AccountDoc]
      /\ proxies \in [ProxyId -> ProxyDoc \cup {NoRecord}]
      /\ job \in Job \cup {NoJob}
      /\ SessionsInv /\ JobInv /\ Idle
  BY DEF FQInv, FTypeOK, STypeOK, AccountsTypeOK, ProxiesTypeOK, AdminTypeOK, ScanInv,
         Resting, Idle
<1>1. /\ UNCHANGED <<life, login, checker, pc, acct, proxy, status, link>>
      /\ Live' = Live
      /\ Resting'
  BY DEF Administer, svars, checkvars, qvars, Live, Held, Resting
<1>2. /\ \A a : WorkedWith(a)' <=> WorkedWith(a)
      /\ \A p : ScannedWith(p)' <=> ScannedWith(p)
  BY <1>1 DEF WorkedWith, ScannedWith
<1>3. CASE life = Serving /\ ReadStatus(Entries)
  <2>1. job'.at = "useAccounts" /\ job'.names = {e.name : e \in Entries}
        /\ job'.ids = {e.id : e \in Entries}
    BY <1>3 DEF ReadStatus
  <2>2. \A p \in ProxyId : ScannedWith(p) => link[p] # "new"
    BY <1>0, EntriesExact DEF Entries, ReportedRetired
  <2> QED
    BY <1>0, <1>1, <1>2, <2>1, <2>2, EntriesExact DEF JobInv
<1>4. CASE UseListedAccounts
  <2>1. /\ job \in Job /\ job # NoJob
        /\ accounts' = [b \in Account |->
             IF b \in job.names THEN [accounts[b] EXCEPT !.used = TRUE] ELSE accounts[b]]
    BY <1>0, <1>4 DEF UseListedAccounts, SetUsed, NoJob
  <2>2. /\ job'.at = "freeAccounts" /\ job'.names = job.names /\ job'.ids = job.ids
        /\ job.names \subseteq Account
    BY <1>4, <2>1 DEF UseListedAccounts, Job
  <2>3. \A b \in job.names : accounts'[b].used
    BY <1>0, <2>1, <2>2 DEF AccountDoc
  <2> QED
    BY <1>0, <1>1, <1>2, <2>1, <2>2, <2>3 DEF JobInv
<1>5. CASE FreeOtherAccounts
  <2>1. /\ job \in Job /\ job # NoJob /\ job.at = "freeAccounts"
        /\ accounts' = [b \in Account |->
             IF b \in Account \ job.names THEN [accounts[b] EXCEPT !.used = FALSE]
             ELSE accounts[b]]
    BY <1>0, <1>5 DEF FreeOtherAccounts, SetUsed, NoJob
  <2>2. job'.at = "useProxies" /\ job'.names = job.names /\ job'.ids = job.ids
    BY <1>5, <2>1 DEF FreeOtherAccounts, Job
  <2>3. \A b \in Account : IF b \in job.names THEN accounts'[b] = accounts[b]
                                              ELSE ~accounts'[b].used
    BY <1>0, <2>1 DEF AccountDoc
  <2> QED
    BY <1>0, <1>1, <1>2, <2>1, <2>2, <2>3 DEF JobInv
<1>6. CASE UseListedProxies
  <2>1. /\ job \in Job /\ job # NoJob /\ job.at = "useProxies" /\ UNCHANGED accounts
        /\ proxies' = [p \in ProxyId |-> IF p \in job.ids /\ proxies[p] # NoRecord
                                         THEN [proxies[p] EXCEPT !.use = TRUE]
                                         ELSE proxies[p]]
    BY <1>0, <1>6 DEF UseListedProxies, SetUse, NoJob
  <2>2. /\ job'.at = "freeProxies" /\ job'.names = job.names /\ job'.ids = job.ids
        /\ job.ids \subseteq ProxyId
    BY <1>6, <2>1 DEF UseListedProxies, Job
  <2>3. \A p \in job.ids : proxies'[p] # NoRecord => proxies'[p].use
    BY <1>0, <2>1, <2>2 DEF ProxyDoc
  <2> QED
    BY <1>0, <1>1, <1>2, <2>1, <2>2, <2>3 DEF JobInv
<1>7. CASE FreeOtherProxies
  BY <1>7 DEF FreeOtherProxies, JobInv
<1>8. CASE Command
  BY <1>8 DEF Command, MarkAccountsAsUnused, MarkProxiesAsUnused, RemoveDeadProxies,
     DropProxies, JobInv
<1> QED
  BY <1>3, <1>4, <1>5, <1>6, <1>7, <1>8 DEF Administer, Cleanup

LEMMA AdminShared ==
  ASSUME FQInv, ScanInv, Administer, Resting, ReportedRetired,
         job = NoJob /\ job' = NoJob => life = Down
  PROVE  Shared'
<1>1. UNCHANGED <<qvars, requests, sessions, acct, checkvars, life, login>>
  BY DEF Administer, svars, requests, sessions
<1>2. SessionsInv' /\ JobInv'
  BY <1>1, SameSessions, AdminJob DEF ScanInv
<1>3. \A t \in Trainer, a \in Account : Keeps(t, a)' <=> Keeps(t, a)
  BY <1>1, SameKeepers
<1>4. ASSUME NEW a \in Account
      PROVE  /\ \A h \in Caller : ~Gets(h, a) /\ pc[h] # "markAccount"
             /\ \A t \in Trainer : Keeps(t, a) =>
                  /\ accounts'[a].used
                  /\ Unreported(t) => ~Flagged(accounts'[a])
  <2>1. \A h \in Caller : pc[h] = "idle"
    BY DEF Resting
  <2> QED
    BY <2>1, AdminAccounts DEF ScanInv, AccountsApart, KeptUsed, InUse, Flagged, Gets
<1>5. AccountsApart'
  BY <1>1, <1>4, WriteApart DEF ScanInv
<1>6. Copies'
  BY <1>1, <1>3, AdminAccounts, SamePending DEF ScanInv
<1>7. Loader'
  BY <1>1 DEF Resting, Loader, Serving, Down
<1> QED
  BY <1>2, <1>5, <1>6, <1>7 DEF Shared
-----------------------------------------------------------------------------
CarefulStep == CarefulNext /\ InOrder' /\ SomeoneFit' /\ AtomicGets'

LEMMA SharedStep ==
  FQInv /\ IdsInv /\ ScanInv /\ CarefulStep => Shared'
<1> SUFFICES ASSUME FQInv, IdsInv, ScanInv, CarefulStep PROVE Shared'
  OBVIOUS
<1>1. CASE /\ Serve \/ Load \/ LogIn \/ Crash \/ CheckBans
           /\ job # NoJob => Resting'
           /\ login # NoLogin => \A h \in Caller : pc'[h] = "idle"
  <2>1. login # NoLogin => Idle'
    BY <1>1 DEF Idle
  <2> QED
    BY <1>1, <2>1, ServeShared, LoadShared, LogInShared, CrashShared, CheckShared
<1>2. CASE RestartHub /\ job = NoJob
  BY <1>2, RestartShared
<1>3. CASE /\ Administer /\ Resting /\ ReportedRetired
           /\ job = NoJob /\ job' = NoJob => life = Down /\ round = {}
  BY <1>3, AdminShared
<1> QED
  BY <1>1, <1>2, <1>3 DEF CarefulStep, CarefulNext

LEMMA ScanNextInv ==
  FQInv /\ IdsInv /\ ScanInv /\ [CarefulStep]_fvars => ScanInv'
<1> SUFFICES ASSUME FQInv, IdsInv, ScanInv, [CarefulStep]_fvars PROVE ScanInv'
  OBVIOUS
<1>1. CASE CarefulStep
  BY <1>1, SharedStep DEF Shared, ScanInv, CarefulStep
<1>2. CASE UNCHANGED fvars
  <2>1. /\ UNCHANGED <<qvars, requests, sessions, acct, pc, accounts, checkvars>>
        /\ UNCHANGED <<life, login>>
    BY <1>2 DEF fvars, vars, dbvars, svars, requests, sessions
  <2>2. SessionsInv' /\ AccountsApart' /\ AtomicGets'
    BY <2>1, SameSessions, WriteApart DEF ScanInv, AtomicGets
  <2>3. \A t \in Trainer, a \in Account : Keeps(t, a)' <=> Keeps(t, a)
    BY <2>1, SameKeepers
  <2>4. Copies'
    BY <2>1, <2>3, SamePending DEF ScanInv
  <2>5. Loader'
    BY <2>1, <2>3, LifeFacts DEF ScanInv, Loader, FreeAccounts, InUse, FQInv, FTypeOK
  <2>6. job # NoJob => Resting'
    BY <1>2 DEF ScanInv, JobInv, Resting, fvars, vars, svars, checkvars
  <2>7. JobInv'
    BY <1>2, <2>6, JobStep DEF ScanInv
  <2> QED
    BY <2>2, <2>4, <2>5, <2>7 DEF ScanInv
<1> QED
  BY <1>1, <1>2

LEMMA ScanInit == FreshInit => ScanInv
<1> SUFFICES ASSUME FreshInit PROVE ScanInv
  OBVIOUS
<1>1. /\ Live = {} /\ Idle /\ getting = {} /\ (\A h \in Caller : held[h] = NoTrainer)
      /\ login = NoLogin /\ life = Down /\ job = NoJob
      /\ round = {} /\ checker = Between
      /\ status = [a \in Account |-> NoProxy]
  BY CarefulInit DEF FreshInit, FInit, FQInv, Quiet, CheckInit, Init, QInit, Idle
<1>2. Places
  BY <1>1 DEF Idle, Places, Place, HasProxy, HasAccount, HasTrainer, Scanning, ProxyLost,
     Unsettled
<1>3. SessionsInv
  BY <1>1, <1>2 DEF SessionsInv, Named, StatusNear, StatusHasTrainer
<1>4. AtomicGets /\ AccountsApart
  BY <1>1 DEF AtomicGets, AccountsApart, OneKeeper, KeptUsed, SoughtUnused, Keeps, Gets,
     Idle
<1>5. Loader /\ Copies /\ JobInv
  BY <1>1 DEF Loader, Copies, JobInv, Pending, Down, Between
<1> QED
  BY <1>3, <1>4, <1>5 DEF ScanInv

CarefulInv == FQInv /\ IdsInv /\ ScanInv

LEMMA CarefulNextInv == CarefulInv /\ [CarefulStep]_fvars => CarefulInv'
<1> SUFFICES ASSUME CarefulInv, [CarefulStep]_fvars PROVE CarefulInv'
  OBVIOUS
<1>1. FQInv /\ IdsInv /\ ScanInv /\ [CarefulNext]_fvars
  BY DEF CarefulInv, CarefulStep
<1>2. InOrder'
  BY <1>1 DEF IdsInv, InOrder, CarefulStep, fvars, vars, svars
<1> QED
  BY <1>1, <1>2, CarefulIsFleet, FQNextInv, IdsStep, ScanNextInv DEF CarefulInv

LEMMA CarefulInvariance == CarefulSpec => []CarefulInv /\ [][CarefulStep]_fvars
<1>1. FreshInit => CarefulInv
  BY CarefulInit, ScanInit DEF CarefulInv
<1>2. [CarefulNext /\ InOrder' /\ SomeoneFit' /\ AtomicGets']_fvars => [CarefulStep]_fvars
  BY DEF CarefulStep
<1> QED
  BY <1>1, <1>2, CarefulNextInv, PTL DEF CarefulSpec
-----------------------------------------------------------------------------
(* No two sessions of the fleet's scanner have the same account, unless one  *)
(* of them has given it back, although main, the ban checker and -ufs write  *)
(* to the same documents as the requests.                                    *)
THEOREM FleetAccountExclusive == CarefulSpec => []AccountExclusive
<1>1. CarefulInv => AccountExclusive
  <2> SUFFICES ASSUME CarefulInv, NEW t \in Live, NEW u \in Live, acct[t] = acct[u],
                      ~Returned(t), ~Returned(u)
               PROVE  t = u
    BY DEF AccountExclusive
  <2>1. t \in Trainer /\ u \in Trainer /\ acct[t] \in Account
    BY LiveSessions DEF CarefulInv, FQInv, ScanInv, SessionsInv, Named
  <2>2. Keeps(t, acct[t]) /\ Keeps(u, acct[t])
    BY DEF Keeps
  <2> QED
    BY <2>1, <2>2 DEF CarefulInv, ScanInv, AccountsApart, OneKeeper
<1> QED
  BY <1>1, CarefulInvariance, PTL

(* The account that the ban checker logs in with is in no working session of *)
(* the scanner.                                                              *)
THEOREM CheckedNotScannedAlways == CarefulSpec => []CheckedNotScanned
<1>1. CarefulInv => CheckedNotScanned
  <2> SUFFICES ASSUME CarefulInv, checker.at = "login", NEW t \in Live,
                      health[t] = {}, acct[t] = checker.copy.name
               PROVE  FALSE
    BY DEF CheckedNotScanned
  <2>1. checker.copy \in Pending
    BY DEF Pending
  <2>2. checker.copy.name \in Account /\ accounts[checker.copy.name].banned
    BY <2>1, PendingCopies DEF CarefulInv, ScanInv, Copies
  <2>3. t \in Trainer /\ Keeps(t, checker.copy.name) /\ Unreported(t)
    BY LiveSessions DEF CarefulInv, FQInv, Keeps, Returned, Unreported
  <2>4. InUse(checker.copy.name)
    BY <2>2, <2>3 DEF CarefulInv, ScanInv, AccountsApart, KeptUsed
  <2> QED
    BY <2>2, <2>4 DEF InUse, Flagged
<1> QED
  BY <1>1, CarefulInvariance, PTL

(* No write of any process lifts a ban, but the check that refutes it, or a  *)
(* captcha flag: every copy that is written is as new as the document in     *)
(* what it says of these.                                                    *)
THEOREM RefusalsStickAlways == CarefulSpec => RefusalsStick
<1> DEFINE Sticks ==
      \A a \in Account :
        /\ accounts[a].captcha => accounts'[a].captcha
        /\ accounts[a].banned /\ ~accounts'[a].banned =>
             checker.at = "login" /\ checker.copy.name = a
<1>1. ASSUME CarefulInv, [CarefulStep]_fvars PROVE [Sticks]_fvars
  <2> SUFFICES ASSUME CarefulStep PROVE Sticks
    BY <1>1
  <2>0. /\ FQInv /\ IdsInv /\ ScanInv /\ accounts \in [Account -> AccountDoc]
        /\ life \in Life
    BY <1>1 DEF CarefulInv, FQInv, FTypeOK, STypeOK, AccountsTypeOK
  <2>1. CASE Serve
    <3>1. RInv /\ Named /\ AtomicGets /\ AccountsApart /\ [Next]_vars
      BY <2>0, <2>1, ServeIsNext DEF FQInv, FTypeOK, RInv, ScanInv, SessionsInv
    <3>2. \A a \in Account : Flagged(accounts[a]) => accounts'[a] = accounts[a]
      BY <3>1, BansStep
    <3> QED
      BY <3>2 DEF Flagged
  <2>2. CASE Load
    <3>1. CASE LoadMarkAccount
      <4>1. /\ life.acct \in FreeAccounts
            /\ accounts' = [accounts EXCEPT ![life.acct] =
                             [used |-> TRUE, banned |-> FALSE, captcha |-> FALSE]]
        BY <2>0, <3>1 DEF LoadMarkAccount, MarkUsed, SaveAccount, ScanInv, Loader
      <4> QED
        BY <2>0, <4>1 DEF FreeAccounts, Flagged
    <3>2. CASE UNCHANGED accounts
      BY <3>2
    <3> QED
      BY <2>2, <3>1, <3>2 DEF Load, Start, LoadFindProxy, LoadMarkProxy, LoadFindAccount,
         LoadReturnProxy, LoadAppend, vars, dbvars
  <2>3. CASE LogIn \/ Crash \/ RestartHub
    BY <2>0, <2>3, ReviveQueue DEF Crash, RestartHub, dbvars
  <2>4. CASE CheckBans
    <3>1. CASE LiftBan
      <4>1. /\ checker.at = "login" /\ checker.copy \in Pending
            /\ accounts' = [accounts EXCEPT ![checker.copy.name] =
                             [checker.copy.doc EXCEPT !.banned = FALSE]]
        BY <3>1 DEF LiftBan, SaveAccount, Pending
      <4>2. /\ checker.copy.name \in Account /\ checker.copy.doc \in AccountDoc
            /\ accounts[checker.copy.name].captcha = checker.copy.doc.captcha
        BY <2>0, <4>1, PendingCopies DEF ScanInv, Copies
      <4> QED
        BY <2>0, <4>1, <4>2 DEF AccountDoc
    <3>2. CASE UNCHANGED accounts
      BY <3>2
    <3> QED
      BY <2>4, <3>1, <3>2 DEF CheckBans, CheckerStep, GetBannedAccounts, StartCheck,
         MarkCheckProxy, KeepBan, EndCheck, RestartChecker
  <2>5. CASE /\ Administer /\ Resting
             /\ job = NoJob /\ job' = NoJob => life = Down /\ round = {}
    BY <2>0, <2>5, AdminAccounts
  <2> QED
    BY <2>1, <2>2, <2>3, <2>4, <2>5 DEF CarefulStep, CarefulNext
<1> QED
  BY <1>1, CarefulInvariance, PTL DEF RefusalsStick

(* The last update of -ufs makes the database say exactly what the sessions  *)
(* of the running scanner use.                                               *)
THEOREM CleanupRepairsAlways == CarefulSpec => CleanupRepairs
<1> DEFINE Repairs ==
      FreeOtherProxies /\ life = Serving =>
        /\ \A a \in Account : accounts'[a].used <=> \E t \in Live : acct[t] = a
        /\ \A p \in ProxyId : proxies'[p] # NoRecord /\ ~proxies'[p].dead =>
             (proxies'[p].use <=>
               \E t \in Live : \/ proxy[t] = p
                               \/ proxy[t] = NoProxy /\ status[acct[t]] = p)
<1>1. CarefulInv => Repairs
  <2> SUFFICES ASSUME CarefulInv, FreeOtherProxies, life = Serving PROVE Repairs
    OBVIOUS
  <2>1. /\ job.at = "freeProxies" /\ job # NoJob /\ UNCHANGED accounts
        /\ proxies' = [p \in ProxyId |->
             IF p \in ProxyId \ job.ids /\ proxies[p] # NoRecord
             THEN [proxies[p] EXCEPT !.use = FALSE] ELSE proxies[p]]
    BY DEF FreeOtherProxies, SetUse, NoJob
  <2>2. /\ \A a \in Account : a \in job.names <=> WorkedWith(a)
        /\ \A p \in ProxyId : p \in job.ids <=> ScannedWith(p)
        /\ \A a \in Account : accounts[a].used <=> a \in job.names
        /\ \A p \in job.ids : proxies[p] # NoRecord /\ ~proxies[p].dead => proxies[p].use
    BY <2>1 DEF CarefulInv, ScanInv, JobInv
  <2>3. proxies \in [ProxyId -> ProxyDoc \cup {NoRecord}]
    BY DEF CarefulInv, FQInv, FTypeOK, STypeOK, ProxiesTypeOK
  <2>4. \A p \in ProxyId : /\ p \in job.ids => proxies'[p] = proxies[p]
                           /\ p \notin job.ids => proxies'[p] = NoRecord \/ ~proxies'[p].use
    BY <2>1, <2>3 DEF ProxyDoc
  <2> QED
    BY <2>1, <2>2, <2>4 DEF WorkedWith, ScannedWith
<1> QED
  BY <1>1, CarefulInvariance, PTL DEF CleanupRepairs
=============================================================================
