--------------------------- MODULE Scanner_proofs ---------------------------
(***************************************************************************)
(* Proofs about the scanner's requests, for any number of requests,        *)
(* sessions, accounts and proxies.  Every step of the scanner is a step of *)
(* the trainer queue or leaves it alone, so what TrainerQueue_proofs shows *)
(* of the queue holds here; the rest follows from SInv, which adds what a  *)
(* request has in its hands at each point of requestHandler.               *)
(***************************************************************************)
EXTENDS Scanner, TrainerQueue_proofs

HasProxy   == {"markProxy", "findAccount", "returnProxy", "markAccount",
               "newTrainer", "markReplacement", "useReplacement"}
HasAccount == {"markAccount", "newTrainer"}
HasTrainer == Scanning \cup Unsettled \cup {"forget", "done"}
ProxyLost  == Unsettled \ {"saveAccount"}

(* What a request has at each point, and what it knows of its trainer. *)
Place(h) ==
  /\ pc[h] \in HasProxy => foundProxy[h] \in ProxyId
  /\ pc[h] \in HasAccount => foundAcct[h] \in Account
  /\ h \in getting <=> pc[h] = "get"
  /\ held[h] # NoTrainer <=> pc[h] \in HasTrainer
  /\ pc[h] \in Scanning => health[held[h]] = {}
  /\ pc[h] \in ProxyLost => health[held[h]] = {"dead"}
  /\ pc[h] \in {"saveAccount", "forget"} =>
       health[held[h]] \cap AccountFlag # {}

Places == \A h \in Caller : Place(h)

(* A session has an account, and a proxy. *)
Named    == \A t \in Live : acct[t] \in Account
Equipped == Named /\ \A t \in Live : proxy[t] \in ProxyId

(* What the steps of the requests rest on, and the whole invariant. *)
RInv == QInv /\ STypeOK /\ Places
SInv == RInv /\ Equipped /\ NoAccountLeak /\ StatusHasTrainer
-----------------------------------------------------------------------------
LEMMA SInitInv == Init => SInv
<1> SUFFICES ASSUME Init PROVE SInv
  OBVIOUS
<1> USE NoTrainerDistinct, NoneDistinct
<1>1. QInv
  BY QInitInv DEF Init
<1>2. Live = {}
  BY DEF Init, QInit, Live, Held, Range
<1>3. STypeOK
  BY DEF Init, LinksInit, STypeOK, AccountsTypeOK, ProxiesTypeOK, Pc, Link
<1>4. Places /\ Equipped
  BY <1>2
  DEF Init, QInit, Places, Place, Equipped, Named, HasProxy, HasAccount, HasTrainer,
              ProxyLost, Scanning, Unsettled
<1>5. NoAccountLeak /\ StatusHasTrainer
  BY DEF Init, NoAccountLeak, StatusHasTrainer
<1> QED
  BY <1>1, <1>3, <1>4, <1>5 DEF SInv, RInv

(* Requests drive the queue through its own actions only. *)
LEMMA UsesQueue == QInv /\ [Next]_vars => [QNext]_qvars
<1> SUFFICES ASSUME QInv, [Next]_vars PROVE [QNext]_qvars
  OBVIOUS
<1>1. ASSUME NEW h \in Caller, Receive(h) \/ HandlerStep(h)
      PROVE  [QNext]_qvars
  <2>1. Receive(h) => Get(h)
    BY DEF Receive
  <2>2. GetTrainer(h) => Deliver(h)
    BY DEF GetTrainer
  <2>3. GetFails(h) => Timeout(h)
    BY DEF GetFails
  <2>4. BuildTrainer(h) => \E t \in Trainer : NewTrainer(h, t)
    BY DEF BuildTrainer
  <2>5. ASSUME ProxyDies(h) \/ AccountRefused(h) \/ UseReplacement(h)
        PROVE  \E flags \in SUBSET Flag : SetHealth(h, flags)
    <3>1. held[h] \in Trainer
      BY <2>5 DEF ProxyDies, AccountRefused, UseReplacement, SetHealth,
                  QInv, QTypeOK
    <3>2. MyFlags(h) \in SUBSET Flag
      BY <3>1 DEF MyFlags, QInv, QTypeOK
    <3>3. PICK flags : SetHealth(h, flags) /\ flags \in SUBSET Flag
      BY <2>5, <3>2
      DEF ProxyDies, AccountRefused, UseReplacement, Flag, AccountFlag
    <3> QED
      BY <3>3
  <2>6. Finish(h) => Queue(h)
    BY DEF Finish
  <2>7. \/ FindProxy(h) \/ MarkProxy(h) \/ FindAccount(h) \/ GiveProxyBack(h)
        \/ MarkAccount(h) \/ ScanEnds(h) \/ ScanAgain(h) \/ FindReplacement(h)
        \/ MarkReplacement(h) \/ ForgetBusy(h) \/ ReturnAccount(h)
        \/ UpdateAccount(h) \/ Forget(h)
        => UNCHANGED qvars
    BY DEF FindProxy, MarkProxy, FindAccount, GiveProxyBack, MarkAccount,
           ScanEnds, ScanAgain, FindReplacement, MarkReplacement, ForgetBusy,
           ReturnAccount, UpdateAccount, Forget
  <2> QED
    BY <1>1, <2>1, <2>2, <2>3, <2>4, <2>5, <2>6, <2>7 DEF HandlerStep, QNext
<1>2. ASSUME NEW t \in Trainer, QueueStep(t) PROVE QNext
  BY <1>2 DEF QueueStep, QNext
<1>3. ASSUME NEW p \in ProxyId, Connect(p) \/ Disconnect(p) \/ MarkDead(p)
      PROVE  UNCHANGED qvars
  BY <1>3 DEF Connect, Disconnect, MarkDead
<1> QED
  BY <1>1, <1>2, <1>3 DEF Next, vars

(* The invariants of the queue hold in the scanner. *)
LEMMA QueueInvariance == Spec => []QInv
<1>1. Init => QInv
  BY QInitInv DEF Init
<1> QED
  BY <1>1, UsesQueue, QNextInv, PTL DEF Spec

(* The scanner uses the queue as TrainerQueue describes it.                  *)
THEOREM ScannerUsesQueue == Spec => QSpec
<1>1. Init => QInit
  BY DEF Init
<1> QED
  BY <1>1, QueueInvariance, UsesQueue, PTL DEF Spec, QSpec

(* Two requests of the scanner never use the same session.                   *)
THEOREM ScannerOneUser == Spec => []OneUser
BY ScannerUsesQueue, OneUserAlways, PTL
-----------------------------------------------------------------------------
LEMMA GotoFacts ==
  ASSUME pc \in [Caller -> Pc], NEW h \in Caller,
         NEW from, NEW to \in Pc, Goto(h, from, to)
  PROVE  /\ pc[h] = from
         /\ pc' \in [Caller -> Pc]
         /\ \A g \in Caller : pc'[g] = IF g = h THEN to ELSE pc[g]
BY DEF Goto

LEMMA SaveProxyType ==
  ASSUME ProxiesTypeOK, NEW p, NEW doc \in ProxyDoc, SaveProxy(p, doc)
  PROVE  proxies' \in [ProxyId -> ProxyDoc \cup {NoRecord}]
BY DEF ProxiesTypeOK, SaveProxy

LEMMA TypeStep == STypeOK /\ [Next]_vars => STypeOK'
<1> SUFFICES ASSUME STypeOK, [Next]_vars PROVE STypeOK'
  OBVIOUS
<1> USE NoneDistinct DEF STypeOK
<1>1. pc' \in [Caller -> Pc]
  <2>1. ASSUME NEW h \in Caller, Receive(h) \/ HandlerStep(h)
        PROVE  pc' \in [Caller -> Pc]
    <3>1. \E from, to \in Pc : Goto(h, from, to)
      BY <2>1 DEF HandlerStep, Receive, GetTrainer, GetFails, FindProxy,
         MarkProxy, FindAccount, GiveProxyBack, MarkAccount, BuildTrainer,
         ScanEnds, ScanAgain, ProxyDies, AccountRefused, FindReplacement,
         MarkReplacement, UseReplacement, ForgetBusy, ReturnAccount,
         UpdateAccount, Forget, Finish, Pc, Building, Unsettled, Scanning
    <3> QED
      BY <3>1 DEF Goto
  <2>2. ASSUME NEW t \in Trainer, QueueStep(t) PROVE UNCHANGED pc
    BY <2>2 DEF QueueStep, svars
  <2>3. ASSUME NEW p \in ProxyId, Connect(p) \/ Disconnect(p) \/ MarkDead(p)
        PROVE  UNCHANGED pc
    BY <2>3 DEF Connect, Disconnect, MarkDead
  <2>4. UNCHANGED vars => UNCHANGED pc
    BY DEF vars, svars
  <2> QED
    BY <2>1, <2>2, <2>3, <2>4 DEF Next
<1>2. ASSUME NEW h \in Caller, Receive(h) \/ HandlerStep(h)
      PROVE  STypeOK'
  <2>2. CASE \/ Receive(h) \/ GetTrainer(h) \/ GetFails(h) \/ ScanEnds(h)
             \/ ScanAgain(h) \/ ProxyDies(h) \/ AccountRefused(h)
    BY <1>1, <2>2 DEF Receive, GetTrainer, GetFails, ScanEnds, ScanAgain,
       ProxyDies, AccountRefused, dbvars, AccountsTypeOK, ProxiesTypeOK
  <2>3. CASE FindProxy(h) \/ FindAccount(h) \/ FindReplacement(h)
    BY <1>1, <2>3
    DEF FindProxy, FindAccount, FindReplacement, dbvars, AccountsTypeOK,
        ProxiesTypeOK,
       FreeProxies, FreeAccounts
  <2>4. CASE MarkProxy(h) \/ MarkReplacement(h)
    <3>1. [use |-> TRUE, dead |-> FALSE] \in ProxyDoc
      BY DEF ProxyDoc
    <3>2. proxies' \in [ProxyId -> ProxyDoc \cup {NoRecord}]
      BY <2>4, <3>1, SaveProxyType DEF MarkProxy, MarkReplacement, MarkInUse
    <3> QED
      BY <1>1, <2>4, <3>2
      DEF MarkProxy, MarkReplacement, AccountsTypeOK, ProxiesTypeOK
  <2>5. CASE GiveProxyBack(h)
    <3>1. [use |-> FALSE, dead |-> FALSE] \in ProxyDoc
      BY DEF ProxyDoc
    <3>2. proxies' \in [ProxyId -> ProxyDoc \cup {NoRecord}]
      BY <2>5, <3>1, SaveProxyType DEF GiveProxyBack, ReturnProxy
    <3> QED
      BY <1>1, <2>5, <3>2 DEF GiveProxyBack, AccountsTypeOK, ProxiesTypeOK
  <2>6. CASE MarkAccount(h)
    BY <1>1, <2>6
    DEF MarkAccount, MarkUsed, SaveAccount, AccountsTypeOK, ProxiesTypeOK,
        AccountDoc
  <2>7. CASE BuildTrainer(h)
    BY <1>1, <2>7 DEF BuildTrainer, dbvars, AccountsTypeOK, ProxiesTypeOK
  <2>8. CASE UseReplacement(h)
    BY <1>1, <2>8 DEF UseReplacement, dbvars, AccountsTypeOK, ProxiesTypeOK
  <2>9. CASE ForgetBusy(h) \/ Forget(h)
    BY <1>1, <2>9 DEF ForgetBusy, Forget, dbvars, AccountsTypeOK, ProxiesTypeOK
  <2>10. CASE ReturnAccount(h) \/ UpdateAccount(h)
    <3>1. MyAccountDoc(h) \in AccountDoc
      BY DEF MyAccountDoc, AccountDoc
    <3>2. ASSUME NEW x \in AccountDoc
          PROVE  [x EXCEPT !.used = FALSE] \in AccountDoc
      BY DEF AccountDoc
    <3>3. PICK doc \in AccountDoc : SaveAccount(MyAcct(h), doc)
      BY <2>10, <3>1, <3>2 DEF ReturnAccount, UpdateAccount
    <3> QED
      BY <1>1, <2>10, <3>3
      DEF ReturnAccount, UpdateAccount, SaveAccount, AccountsTypeOK,
          ProxiesTypeOK
  <2>11. CASE Finish(h)
    BY <1>1, <2>11 DEF Finish, dbvars, AccountsTypeOK, ProxiesTypeOK
  <2> QED
    BY <1>2, <2>2, <2>3, <2>4, <2>5, <2>6, <2>7, <2>8, <2>9, <2>10, <2>11
    DEF HandlerStep
<1>3. ASSUME NEW t \in Trainer, QueueStep(t) PROVE STypeOK'
  BY <1>3 DEF QueueStep, svars, dbvars, AccountsTypeOK, ProxiesTypeOK
<1>4. ASSUME NEW p \in ProxyId, Connect(p) \/ Disconnect(p) \/ MarkDead(p)
      PROVE  STypeOK'
  <2>1. proxies' \in [ProxyId -> ProxyDoc \cup {NoRecord}]
    <3>1. /\ [use |-> FALSE, dead |-> FALSE] \in ProxyDoc
          /\ [use |-> FALSE, dead |-> TRUE] \in ProxyDoc
      BY DEF ProxyDoc
    <3>2. Connect(p) => AddProxy(p)
      BY DEF Connect, LinkUp
    <3>3. Disconnect(p) => UNCHANGED proxies
      BY DEF Disconnect, dbvars
    <3>4. MarkDead(p) => UpdateProxy(p)
      BY DEF MarkDead, LinkDead
    <3>5. CASE AddProxy(p)
      BY <3>1, <3>5 DEF AddProxy, AccountsTypeOK, ProxiesTypeOK
    <3>6. CASE UpdateProxy(p)
      BY <3>1, <3>6 DEF UpdateProxy, AccountsTypeOK, ProxiesTypeOK
    <3> QED
      BY <1>4, <3>2, <3>3, <3>4, <3>5, <3>6 DEF AccountsTypeOK, ProxiesTypeOK
  <2>2. link' \in [ProxyId -> Link]
    BY <1>4 DEF Connect, Disconnect, MarkDead, LinkUp, LinkDown, LinkDead, Move,
                Link
  <2> QED
    BY <1>4, <2>1, <2>2
    DEF Connect, Disconnect, MarkDead, dbvars, AccountsTypeOK, ProxiesTypeOK
<1>5. CASE UNCHANGED vars
  BY <1>5 DEF vars, svars, dbvars, AccountsTypeOK, ProxiesTypeOK
<1> QED
  BY <1>2, <1>3, <1>4, <1>5 DEF Next
-----------------------------------------------------------------------------
(* Nothing that a step of another request, of the queue or of the hub does   *)
(* changes what request g has.                                               *)
Untouched(g) ==
  /\ pc'[g] = pc[g] /\ held'[g] = held[g]
  /\ foundProxy'[g] = foundProxy[g] /\ foundAcct'[g] = foundAcct[g]
  /\ g \in getting' <=> g \in getting
  /\ held[g] # NoTrainer => health'[held[g]] = health[held[g]]

LEMMA UntouchedPlace ==
  ASSUME NEW g \in Caller, Place(g), Untouched(g)
  PROVE  Place(g)'
<1>1. \/ pc[g] \in HasTrainer /\ held[g] # NoTrainer
      \/ pc[g] \notin HasTrainer
  BY DEF Place
<1>2. Scanning \subseteq HasTrainer /\ ProxyLost \subseteq HasTrainer
      /\ {"saveAccount", "forget"} \subseteq HasTrainer
  BY DEF Scanning, ProxyLost, HasTrainer, Unsettled
<1>3. CASE pc[g] \in HasTrainer
  <2>1. held[g] # NoTrainer /\ held'[g] = held[g] /\ health'[held'[g]] = health[held[g]]
    BY <1>1, <1>3 DEF Untouched
  <2> QED
    BY <2>1 DEF Place, Untouched
<1>4. CASE pc[g] \notin HasTrainer
  BY <1>2, <1>4 DEF Place, Untouched
<1> QED
  BY <1>3, <1>4

LEMMA OthersUntouched ==
  ASSUME RInv, NEW h \in Caller, Receive(h) \/ HandlerStep(h),
         NEW g \in Caller, g # h
  PROVE  Untouched(g)
<1> USE NoTrainerDistinct DEF Untouched
<1>0. pc \in [Caller -> Pc] /\ held \in [Caller -> Trainer \cup {NoTrainer}]
      /\ health \in [Trainer -> SUBSET Flag]
      /\ foundProxy \in [Caller -> ProxyId \cup {NoProxy}]
      /\ foundAcct \in [Caller -> Account \cup {NoAccount}]
  BY DEF RInv, STypeOK, QInv, QTypeOK
<1>1. held[h] # NoTrainer => held[g] # held[h]
  BY DEF RInv, QInv, OneUser
<1>2. CASE Receive(h)
  BY <1>0, <1>2 DEF Receive, Goto, Get
<1>3. CASE GetTrainer(h)
  BY <1>0, <1>3 DEF GetTrainer, Goto, Deliver
<1>4. CASE GetFails(h)
  BY <1>0, <1>4 DEF GetFails, Goto, Timeout
<1>5. CASE BuildTrainer(h)
  <2>1. PICK t \in Trainer : NewTrainer(h, t)
    BY <1>5 DEF BuildTrainer
  <2>2. held[g] # t
    BY <1>0, <2>1 DEF NewTrainer, Live, Held
  <2> QED
    BY <1>0, <1>5, <2>1, <2>2 DEF BuildTrainer, Goto, NewTrainer
<1>6. CASE ProxyDies(h) \/ AccountRefused(h) \/ UseReplacement(h)
  <2>1. PICK flags : SetHealth(h, flags)
    BY <1>6 DEF ProxyDies, AccountRefused, UseReplacement
  <2>2. held[g] # NoTrainer => health'[held[g]] = health[held[g]]
    BY <1>0, <1>1, <2>1 DEF SetHealth
  <2> QED
    BY <1>0, <1>6, <2>1, <2>2
    DEF ProxyDies, AccountRefused, UseReplacement, Goto, SetHealth
<1>7. CASE Finish(h)
  <2>1. held[g] # NoTrainer => health'[held[g]] = health[held[g]]
    BY <1>0, <1>1, <1>7 DEF Finish, Queue
  <2> QED
    BY <1>0, <1>7, <2>1 DEF Finish, Queue, Goto
<1>8. CASE \/ FindProxy(h) \/ FindAccount(h) \/ FindReplacement(h)
           \/ MarkProxy(h) \/ MarkReplacement(h) \/ GiveProxyBack(h)
           \/ MarkAccount(h) \/ ScanEnds(h) \/ ScanAgain(h) \/ ForgetBusy(h)
           \/ ReturnAccount(h) \/ UpdateAccount(h) \/ Forget(h)
  <2>1. UNCHANGED qvars /\ \E from, to : Goto(h, from, to)
    BY <1>8 DEF FindProxy, FindAccount, FindReplacement, MarkProxy,
       MarkReplacement, GiveProxyBack, MarkAccount, ScanEnds, ScanAgain,
       ForgetBusy, ReturnAccount, UpdateAccount, Forget
  <2>2. foundProxy'[g] = foundProxy[g] /\ foundAcct'[g] = foundAcct[g]
    BY <1>0, <1>8 DEF FindProxy, FindAccount, FindReplacement, MarkProxy,
       MarkReplacement, GiveProxyBack, MarkAccount, ScanEnds, ScanAgain,
       ForgetBusy, ReturnAccount, UpdateAccount, Forget
  <2>3. pc'[g] = pc[g]
    BY <1>0, <2>1 DEF Goto
  <2> QED
    BY <2>1, <2>2, <2>3 DEF qvars
<1> QED
  BY <1>2, <1>3, <1>4, <1>5, <1>6, <1>7, <1>8 DEF HandlerStep

LEMMA EnvironmentUntouched ==
  ASSUME \/ \E t \in Trainer : QueueStep(t)
         \/ \E p \in ProxyId : Connect(p) \/ Disconnect(p) \/ MarkDead(p)
         \/ UNCHANGED vars,
         NEW g \in Caller
  PROVE  Untouched(g)
BY DEF QueueStep, Wake, Accept, Connect, Disconnect, MarkDead, vars, svars,
       qvars, Untouched

(* What the request that takes the step has after it. *)
LEMMA OwnPlace ==
  ASSUME RInv, NEW h \in Caller, Receive(h) \/ HandlerStep(h)
  PROVE  Place(h)'
<1> USE NoTrainerDistinct DEF HasProxy, HasAccount, HasTrainer, ProxyLost,
        Scanning, Unsettled, Place
<1>0. /\ pc \in [Caller -> Pc] /\ held \in [Caller -> Trainer \cup {NoTrainer}]
      /\ health \in [Trainer -> SUBSET Flag]
      /\ foundProxy \in [Caller -> ProxyId \cup {NoProxy}]
      /\ foundAcct \in [Caller -> Account \cup {NoAccount}]
      /\ Place(h)
  BY DEF RInv, STypeOK, QInv, QTypeOK, Places
<1>1. CASE Receive(h)
  BY <1>0, <1>1 DEF Receive, Goto, Get
<1>2. CASE GetTrainer(h)
  <2> DEFINE x == Head(buffer)
  <2>1. x \in Trainer /\ x \in Range(buffer)
    BY <1>2, TailFacts
    DEF GetTrainer, Deliver, Rest, RInv, QInv, QTypeOK, OneUser
  <2>2. health[x] = {}
    BY <2>1 DEF RInv, QInv, OnlyUsableQueued
  <2>3. pc'[h] = "scan" /\ held'[h] = x /\ h \notin getting' /\ health' = health
    BY <1>0, <1>2 DEF GetTrainer, Goto, Deliver
  <2> QED
    BY <2>1, <2>2, <2>3
<1>3. CASE GetFails(h)
  BY <1>0, <1>3 DEF GetFails, Goto, Timeout
<1>4. CASE FindProxy(h) \/ FindReplacement(h)
  <2>1. FreeProxies \subseteq ProxyId
    BY DEF FreeProxies
  <2> QED
    BY <1>0, <1>4, <2>1 DEF FindProxy, FindReplacement, Goto, qvars
<1>5. CASE FindAccount(h)
  <2>1. FreeAccounts \subseteq Account
    BY DEF FreeAccounts
  <2> QED
    BY <1>0, <1>5, <2>1 DEF FindAccount, Goto, qvars
<1>6. CASE MarkProxy(h) \/ MarkAccount(h) \/ MarkReplacement(h)
  BY <1>0, <1>6 DEF MarkProxy, MarkAccount, MarkReplacement, Goto, qvars
<1>7. CASE GiveProxyBack(h)
  BY <1>0, <1>7 DEF GiveProxyBack, Goto, qvars
<1>8. CASE BuildTrainer(h)
  <2>1. PICK t \in Trainer : NewTrainer(h, t)
    BY <1>8 DEF BuildTrainer
  <2>2. held'[h] = t /\ health'[t] = {} /\ h \notin getting' /\ pc'[h] = "scan"
    BY <1>0, <1>8, <2>1 DEF BuildTrainer, Goto, NewTrainer
  <2> QED
    BY <2>1, <2>2
<1>9. CASE ScanEnds(h) \/ ScanAgain(h)
  BY <1>0, <1>9 DEF ScanEnds, ScanAgain, Goto, qvars
<1>10. CASE ProxyDies(h) \/ AccountRefused(h) \/ UseReplacement(h)
  <2>1. held[h] \in Trainer /\ UNCHANGED <<held, getting>>
    BY <1>0, <1>10 DEF ProxyDies, AccountRefused, UseReplacement, SetHealth
  <2>2. CASE ProxyDies(h)
    <3>1. pc[h] = "scan" /\ pc'[h] = "findReplacement" /\ health[held[h]] = {}
      BY <1>0, <2>2 DEF ProxyDies, Goto
    <3>2. health'[held'[h]] = {"dead"}
      BY <1>0, <2>1, <2>2, <3>1 DEF ProxyDies, SetHealth, MyFlags
    <3> QED
      BY <1>0, <2>1, <3>1, <3>2
  <2>3. CASE AccountRefused(h)
    <3>1. pc[h] \in Scanning /\ pc'[h] = "saveAccount"
      BY <1>0, <2>3 DEF AccountRefused, Goto
    <3>2. PICK flag \in AccountFlag : SetHealth(h, MyFlags(h) \cup {flag})
      BY <2>3 DEF AccountRefused
    <3>3. flag \in health'[held'[h]]
      BY <1>0, <2>1, <3>2 DEF SetHealth
    <3>4. health'[held'[h]] \cap AccountFlag # {}
      BY <3>2, <3>3
    <3> QED
      BY <1>0, <2>1, <3>1, <3>4
  <2>4. CASE UseReplacement(h)
    <3>1. pc[h] = "useReplacement" /\ pc'[h] = "rescan" /\ health[held[h]] = {"dead"}
      BY <1>0, <2>4 DEF UseReplacement, Goto
    <3>2. health'[held'[h]] = {}
      BY <1>0, <2>1, <2>4, <3>1 DEF UseReplacement, SetHealth, MyFlags
    <3> QED
      BY <1>0, <2>1, <3>1, <3>2
  <2> QED
    BY <1>10, <2>2, <2>3, <2>4
<1>11. CASE ForgetBusy(h) \/ ReturnAccount(h) \/ UpdateAccount(h) \/ Forget(h)
  BY <1>0, <1>11
  DEF ForgetBusy, ReturnAccount, UpdateAccount, Forget, Goto, qvars
<1>12. CASE Finish(h)
  BY <1>0, <1>12 DEF Finish, Goto, Queue
<1> QED
  BY <1>1, <1>2, <1>3, <1>4, <1>5, <1>6, <1>7, <1>8, <1>9, <1>10, <1>11, <1>12
  DEF HandlerStep

LEMMA PlacesStep == RInv /\ [Next]_vars => Places'
<1> SUFFICES ASSUME RInv, [Next]_vars, NEW g \in Caller PROVE Place(g)'
  BY DEF Places
<1>1. Place(g)
  BY DEF RInv, Places
<1>2. ASSUME NEW h \in Caller, Receive(h) \/ HandlerStep(h) PROVE Place(g)'
  BY <1>1, <1>2, OwnPlace, OthersUntouched, UntouchedPlace
<1>3. CASE \/ \E t \in Trainer : QueueStep(t)
           \/ \E p \in ProxyId : Connect(p) \/ Disconnect(p) \/ MarkDead(p)
           \/ UNCHANGED vars
  BY <1>1, <1>3, EnvironmentUntouched, UntouchedPlace
<1> QED
  BY <1>2, <1>3 DEF Next
-----------------------------------------------------------------------------
(* The sessions that a step of request h does not use stay as they are.      *)
LEMMA OtherSessions ==
  ASSUME RInv, NEW h \in Caller, Receive(h) \/ HandlerStep(h),
         NEW t \in Live, t # held[h]
  PROVE  /\ t \in Live'
         /\ acct'[t] = acct[t] /\ proxy'[t] = proxy[t] /\ health'[t] = health[t]
<1> USE NoTrainerDistinct
<1>0. QInv /\ acct \in [Trainer -> Account \cup {NoAccount}]
      /\ proxy \in [Trainer -> ProxyId \cup {NoProxy}]
      /\ health \in [Trainer -> SUBSET Flag]
  BY DEF RInv, STypeOK, QInv, QTypeOK
<1>1. t \in Trainer
  BY <1>0 DEF Live, Held, Range, QInv, QTypeOK
<1>2. CASE Receive(h) \/ GetTrainer(h) \/ GetFails(h)
  <2>1. Get(h) \/ Deliver(h) \/ Timeout(h)
    BY <1>2 DEF Receive, GetTrainer, GetFails
  <2>2. Live' = Live
    BY <1>0, <2>1, CallerLive
  <2>3. health' = health
    BY <2>1 DEF Get, Deliver, Timeout
  <2> QED
    BY <1>2, <2>2, <2>3 DEF Receive, GetTrainer, GetFails
<1>3. CASE BuildTrainer(h)
  <2>1. PICK u \in Trainer : /\ NewTrainer(h, u)
                             /\ acct' = [acct EXCEPT ![u] = foundAcct[h]]
                             /\ proxy' = [proxy EXCEPT ![u] = foundProxy[h]]
    BY <1>3 DEF BuildTrainer
  <2>2. u \notin Live /\ Live' = Live \cup {u}
    BY <1>0, <2>1, CallerLive
  <2>3. health' = [health EXCEPT ![u] = {}]
    BY <2>1 DEF NewTrainer
  <2> QED
    BY <1>0, <1>1, <2>1, <2>2, <2>3
<1>4. CASE ProxyDies(h) \/ AccountRefused(h) \/ UseReplacement(h)
  <2>1. PICK flags : SetHealth(h, flags)
    BY <1>4 DEF ProxyDies, AccountRefused, UseReplacement
  <2>2. Live' = Live
    BY <1>0, <2>1, CallerLive
  <2>3. health'[t] = health[t]
    BY <1>0, <1>1, <2>1 DEF SetHealth
  <2>4. acct'[t] = acct[t] /\ proxy'[t] = proxy[t]
    BY <1>0, <1>1, <1>4 DEF ProxyDies, AccountRefused, UseReplacement
  <2> QED
    BY <2>2, <2>3, <2>4
<1>5. CASE Finish(h)
  <2>1. Queue(h)
    BY <1>5 DEF Finish
  <2>2. t \in Live'
    BY <1>0, <2>1, CallerLive
  <2>3. health'[t] = health[t]
    BY <1>0, <1>1, <2>1 DEF Queue
  <2>4. acct'[t] = acct[t] /\ proxy'[t] = proxy[t]
    BY <1>0, <1>1, <1>5 DEF Finish
  <2> QED
    BY <2>2, <2>3, <2>4
<1>6. CASE \/ FindProxy(h) \/ FindAccount(h) \/ FindReplacement(h)
           \/ MarkProxy(h) \/ MarkReplacement(h) \/ GiveProxyBack(h)
           \/ MarkAccount(h) \/ ScanEnds(h) \/ ScanAgain(h) \/ ForgetBusy(h)
           \/ ReturnAccount(h) \/ UpdateAccount(h) \/ Forget(h)
  <2>1. UNCHANGED qvars /\ UNCHANGED <<acct, proxy>>
    BY <1>6 DEF FindProxy, FindAccount, FindReplacement, MarkProxy,
       MarkReplacement, GiveProxyBack, MarkAccount, ScanEnds, ScanAgain,
       ForgetBusy, ReturnAccount, UpdateAccount, Forget
  <2> QED
    BY <2>1 DEF qvars, Live, Held
<1> QED
  BY <1>2, <1>3, <1>4, <1>5, <1>6 DEF HandlerStep

LEMMA OthersStand ==
  ASSUME RInv, NEW h \in Caller, Receive(h) \/ HandlerStep(h),
         NEW t \in Trainer, NEW a, NEW places,
         StandsFor(t, a, places), t # held[h]
  PROVE  StandsFor(t, a, places)'
<1>1. t \in Live' /\ acct'[t] = a /\ health'[t] = health[t]
  BY OtherSessions DEF StandsFor
<1>2. UserIn(t, places) => UserIn(t, places)'
  <2>1. SUFFICES ASSUME NEW g \in Caller, held[g] = t, pc[g] \in places
                 PROVE  held'[g] = t /\ pc'[g] \in places
    BY DEF UserIn
  <2>2. Untouched(g)
    BY <2>1, OthersUntouched
  <2> QED
    BY <2>1, <2>2 DEF Untouched
<1> QED
  BY <1>1, <1>2 DEF StandsFor

(* The steps outside the requests touch no session. *)
LEMMA EnvironmentSessions ==
  ASSUME QInv,
         \/ \E t \in Trainer : QueueStep(t)
         \/ \E p \in ProxyId : Connect(p) \/ Disconnect(p) \/ MarkDead(p)
         \/ UNCHANGED vars
  PROVE  Live' = Live /\ UNCHANGED <<held, health, pc, foundProxy, foundAcct,
                                     acct, proxy, accounts, status>>
<1>1. ASSUME NEW t \in Trainer, QueueStep(t)
      PROVE  Live' = Live /\ UNCHANGED <<held, health>>
  BY <1>1, GoroutineLive DEF QueueStep, Wake, Accept
<1>2. UNCHANGED qvars => Live' = Live /\ UNCHANGED <<held, health>>
  BY DEF qvars, Live, Held
<1>3. ASSUME NEW p \in ProxyId, Connect(p) \/ Disconnect(p) \/ MarkDead(p)
      PROVE  UNCHANGED <<qvars, accounts, pc, foundProxy, foundAcct, acct, proxy, status>>
  BY <1>3 DEF Connect, Disconnect, MarkDead, dbvars
<1> QED
  BY <1>1, <1>2, <1>3 DEF QueueStep, vars, svars, dbvars

(* The one step of a request that adds a session.                            *)
LEMMA NewSessions ==
  ASSUME QInv, NEW h \in Caller, Receive(h) \/ HandlerStep(h)
  PROVE  /\ BuildTrainer(h) => \E u \in Trainer : NewTrainer(h, u)
         /\ ~BuildTrainer(h) => Live' \subseteq Live
<1> SUFFICES ASSUME ~BuildTrainer(h) PROVE Live' \subseteq Live
  BY DEF BuildTrainer
<1>1. CASE Receive(h) \/ GetTrainer(h) \/ GetFails(h)
  BY <1>1, CallerLive DEF Receive, GetTrainer, GetFails
<1>2. CASE ProxyDies(h) \/ AccountRefused(h) \/ UseReplacement(h)
  BY <1>2, CallerLive DEF ProxyDies, AccountRefused, UseReplacement
<1>3. CASE Finish(h)
  BY <1>3, CallerLive DEF Finish
<1>4. CASE UNCHANGED qvars
  BY <1>4 DEF qvars, Live, Held
<1> QED
  BY <1>1, <1>2, <1>3, <1>4
  DEF HandlerStep, FindProxy, FindAccount, FindReplacement, MarkProxy,
      MarkReplacement, GiveProxyBack, MarkAccount, ScanEnds, ScanAgain,
      ForgetBusy, ReturnAccount, UpdateAccount, Forget

(* What a step of a request leaves of a session, or makes of a new one.      *)
LEMMA SessionsAfter ==
  ASSUME RInv, NEW h \in Caller, Receive(h) \/ HandlerStep(h), NEW t \in Live'
  PROVE  \/ /\ t \in Live /\ acct'[t] = acct[t]
            /\ proxy'[t] = proxy[t] \/ proxy'[t] \in ProxyId
         \/ acct'[t] \in Account /\ proxy'[t] \in ProxyId
<1> USE NoTrainerDistinct
<1>0. QInv /\ STypeOK /\ Place(h)
  BY DEF RInv, Places
<1>1. CASE t \in Live /\ t # held[h]
  BY <1>1, OtherSessions
<1>2. CASE t = held[h]
  <2>1. t \in Trainer /\ t \in Live
    <3>1. t \in Trainer
      BY <1>0, UsesQueue, QNextInv DEF Next, Live, Held, Range, QInv, QTypeOK
    <3> QED
      BY <1>2, <3>1 DEF Live, Held
  <2>2. ~Receive(h) /\ ~BuildTrainer(h)
    BY <1>2, <2>1 DEF Receive, BuildTrainer, Get, NewTrainer
  <2>3. CASE UseReplacement(h)
    BY <1>0, <1>2, <2>1, <2>3
    DEF UseReplacement, Goto, Place, HasProxy, STypeOK
  <2>4. CASE Finish(h)
    <3>1. Reusable(held[h])
      BY <1>0, <1>2, <2>4, CallerLive DEF Finish, Reusable
    <3> QED
      BY <2>1, <2>4, <3>1 DEF Finish
  <2>5. CASE ~UseReplacement(h) /\ ~Finish(h)
    <3>1. UNCHANGED <<acct, proxy>>
      BY <2>2, <2>5 DEF HandlerStep, GetTrainer, GetFails, FindProxy,
         FindAccount, FindReplacement, MarkProxy, MarkReplacement,
         GiveProxyBack, MarkAccount, ScanEnds, ScanAgain, ForgetBusy,
         ReturnAccount, UpdateAccount, Forget, ProxyDies, AccountRefused
    <3> QED
      BY <2>1, <3>1
  <2> QED
    BY <2>3, <2>4, <2>5
<1>3. CASE t \notin Live
  <2>1. BuildTrainer(h)
    BY <1>0, <1>3, NewSessions
  <2>2. foundAcct[h] \in Account /\ foundProxy[h] \in ProxyId
    BY <1>0, <2>1 DEF BuildTrainer, Goto, Place, HasProxy, HasAccount
  <2>3. PICK u \in Trainer : /\ NewTrainer(h, u)
                             /\ acct' = [acct EXCEPT ![u] = foundAcct[h]]
                             /\ proxy' = [proxy EXCEPT ![u] = foundProxy[h]]
    BY <2>1 DEF BuildTrainer
  <2>4. t = u
    BY <1>0, <1>3, <2>3, CallerLive
  <2> QED
    BY <1>0, <2>2, <2>3, <2>4 DEF STypeOK
<1> QED
  BY <1>1, <1>2, <1>3

(* Every session keeps its account ...                                       *)
LEMMA NamedStep == RInv /\ Named /\ [Next]_vars => Named'
<1> SUFFICES ASSUME RInv, Named, [Next]_vars PROVE Named'
  OBVIOUS
<1>1. ASSUME NEW h \in Caller, Receive(h) \/ HandlerStep(h) PROVE Named'
  BY <1>1, SessionsAfter DEF Named
<1>2. CASE \/ \E t \in Trainer : QueueStep(t)
           \/ \E p \in ProxyId : Connect(p) \/ Disconnect(p) \/ MarkDead(p)
           \/ UNCHANGED vars
  BY <1>2, EnvironmentSessions DEF Named, RInv
<1> QED
  BY <1>1, <1>2 DEF Next

(* ... and a proxy.                                                          *)
LEMMA EquippedStep == RInv /\ Equipped /\ [Next]_vars => Equipped'
<1> SUFFICES ASSUME RInv, Equipped, [Next]_vars PROVE Equipped'
  OBVIOUS
<1>1. ASSUME NEW h \in Caller, Receive(h) \/ HandlerStep(h),
             NEW t \in Live'
      PROVE  proxy'[t] \in ProxyId
  BY <1>1, SessionsAfter DEF Equipped
<1>2. CASE \/ \E t \in Trainer : QueueStep(t)
           \/ \E p \in ProxyId : Connect(p) \/ Disconnect(p) \/ MarkDead(p)
           \/ UNCHANGED vars
  BY <1>2, EnvironmentSessions, NamedStep DEF Equipped, RInv
<1> QED
  BY <1>1, <1>2, NamedStep DEF Next, Equipped

(* The request's own session goes on to stand for its account, unless the    *)
(* request settles what it found.                                            *)
LEMMA OwnStands ==
  ASSUME RInv, NEW h \in Caller, HandlerStep(h), NEW t \in Trainer, t = held[h], NEW a,
         NEW places, places \in {Unsettled, Listed},
         StandsFor(t, a, places),
         places = Unsettled => ~ReturnAccount(h) /\ ~UpdateAccount(h),
         places = Listed => ~ForgetBusy(h) /\ ~Forget(h)
  PROVE  StandsFor(t, a, places)'
<1> USE NoTrainerDistinct
<1>0. /\ QInv /\ Place(h) /\ pc[h] \in HasTrainer
      /\ pc \in [Caller -> Pc] /\ acct \in [Trainer -> Account \cup {NoAccount}]
      /\ health \in [Trainer -> SUBSET Flag]
  BY DEF RInv, STypeOK, Places, Place, QInv, QTypeOK
<1>1. t \in Live /\ acct[t] = a
  BY DEF StandsFor
<1>2. health[t] = {} \/ pc[h] \in places
  <2>1. ASSUME NEW g \in Caller, held[g] = t PROVE g = h
    BY <1>0, <2>1 DEF QInv, OneUser
  <2> QED
    BY <2>1 DEF StandsFor, UserIn
<1>3. ASSUME Live' = Live, acct'[t] = a, health'[t] = {} PROVE StandsFor(t, a, places)'
  <2>1. t \in Live'
    BY <1>1, <1>3
  <2> QED
    BY <1>3, <2>1 DEF StandsFor
<1>4. ASSUME Live' = Live, acct'[t] = a, held'[h] = t, pc'[h] \in places
      PROVE  StandsFor(t, a, places)'
  <2>1. t \in Live'
    BY <1>1, <1>4
  <2>2. UserIn(t, places)'
    BY <1>4 DEF UserIn
  <2> QED
    BY <1>4, <2>1, <2>2 DEF StandsFor
<1>5. CASE Finish(h)
  <2>1. pc[h] = "done" /\ Queue(h)
    BY <1>5 DEF Finish, Goto
  <2>2. health[t] = {}
    BY <1>2, <2>1 DEF Unsettled, Listed
  <2>3. Live' = Live /\ health' = health
    BY <1>0, <2>1, <2>2, CallerLive DEF Queue, Reusable
  <2>4. acct' = acct
    BY <1>5, <2>2 DEF Finish, Reusable
  <2> QED
    BY <1>1, <1>3, <2>2, <2>3, <2>4
<1>6. CASE UseReplacement(h)
  <2>1. PICK flags : SetHealth(h, flags) /\ flags = MyFlags(h) \ {"dead"}
    BY <1>6 DEF UseReplacement
  <2>2. MyFlags(h) = {"dead"}
    BY <1>0, <1>6 DEF UseReplacement, Goto, Place, ProxyLost, Unsettled, MyFlags
  <2>3. Live' = Live /\ health'[t] = {}
    BY <1>0, <2>1, <2>2, CallerLive DEF SetHealth
  <2> QED
    BY <1>1, <1>3, <1>6, <2>3 DEF UseReplacement
<1>7. CASE ProxyDies(h) \/ AccountRefused(h)
  <2>1. PICK flags : SetHealth(h, flags)
    BY <1>7 DEF ProxyDies, AccountRefused
  <2>2. Live' = Live /\ held' = held
    BY <1>0, <2>1, CallerLive DEF SetHealth
  <2>3. pc'[h] \in {"findReplacement", "saveAccount"} /\ acct' = acct
    BY <1>0, <1>7 DEF ProxyDies, AccountRefused, Goto
  <2> QED
    BY <1>1, <1>4, <2>2, <2>3 DEF Unsettled, Listed
<1>8. CASE \/ ScanEnds(h) \/ ScanAgain(h) \/ FindReplacement(h)
           \/ MarkReplacement(h) \/ ForgetBusy(h) \/ ReturnAccount(h)
           \/ UpdateAccount(h) \/ Forget(h)
  <2>1. UNCHANGED <<qvars, acct>>
    BY <1>8 DEF ScanEnds, ScanAgain, FindReplacement, MarkReplacement,
       ForgetBusy, ReturnAccount, UpdateAccount, Forget
  <2>2. Live' = Live /\ acct'[t] = a /\ held'[h] = t /\ health'[t] = health[t]
    BY <1>1, <2>1 DEF qvars, Live, Held
  <2>3. CASE health[t] = {}
    BY <1>3, <2>2, <2>3
  <2>4. CASE health[t] # {} /\ pc[h] \in places
    <3>1. pc'[h] \in places
      BY <1>0, <1>8, <2>4
      DEF ScanEnds, ScanAgain, FindReplacement, MarkReplacement,
         ForgetBusy, ReturnAccount, UpdateAccount, Forget, Goto, Unsettled,
         Listed, Scanning
    <3> QED
      BY <1>4, <2>2, <3>1
  <2> QED
    BY <1>2, <2>3, <2>4
<1>9. CASE \/ GetTrainer(h) \/ GetFails(h) \/ FindProxy(h) \/ MarkProxy(h)
           \/ FindAccount(h) \/ GiveProxyBack(h) \/ MarkAccount(h)
           \/ BuildTrainer(h)
  BY <1>0, <1>9 DEF GetTrainer, GetFails, FindProxy, MarkProxy, FindAccount,
     GiveProxyBack, MarkAccount, BuildTrainer, Goto, HasTrainer, Scanning, Unsettled
<1> QED
  BY <1>5, <1>6, <1>7, <1>8, <1>9 DEF HandlerStep

(* Who uses an account that the database calls used. *)
Kept(a) == \/ \E t \in Trainer : StandsFor(t, a, Unsettled)
           \/ \E g \in Caller : pc[g] = "newTrainer" /\ foundAcct[g] = a

LEMMA KeptStep ==
  ASSUME RInv, NEW h \in Caller, Receive(h) \/ HandlerStep(h), NEW a \in Account,
         Kept(a), accounts'[a].used, ~Flagged(accounts'[a])
  PROVE  Kept(a)'
<1> USE NoTrainerDistinct
<1>0. QInv /\ STypeOK /\ Place(h)
  BY DEF RInv, Places
<1>1. ASSUME NEW t \in Trainer, StandsFor(t, a, Unsettled)
      PROVE  Kept(a)'
  <2>1. CASE t # held[h]
    BY <1>1, <2>1, OthersStand DEF Kept
  <2>2. CASE t = held[h]
    <3>1. HandlerStep(h)
      BY <2>2 DEF Receive, Get
    <3>2. MyAcct(h) = a /\ accounts \in [Account -> AccountDoc]
      BY <1>0, <1>1, <2>2
      DEF StandsFor, MyAcct, STypeOK, AccountsTypeOK, ProxiesTypeOK
    <3>3. ~ReturnAccount(h)
      <4> SUFFICES ASSUME ReturnAccount(h) PROVE FALSE
        OBVIOUS
      <4>1. accounts'[a] = [MyAccountDoc(h) EXCEPT !.used = FALSE]
        BY <3>2 DEF ReturnAccount, SaveAccount
      <4>2. accounts'[a].used = FALSE
        BY <4>1 DEF MyAccountDoc
      <4> QED
        BY <4>2
    <3>4. ~UpdateAccount(h)
      <4> SUFFICES ASSUME UpdateAccount(h) PROVE FALSE
        OBVIOUS
      <4>1. accounts'[a] = MyAccountDoc(h) /\ pc[h] = "saveAccount"
        BY <3>2 DEF UpdateAccount, SaveAccount, Goto
      <4>2. MyFlags(h) \cap AccountFlag # {}
        BY <1>0, <4>1 DEF Place, MyFlags
      <4>3. "banned" \in MyFlags(h) \/ "captcha" \in MyFlags(h)
        BY <4>2 DEF AccountFlag
      <4>4. MyAccountDoc(h).banned = ("banned" \in MyFlags(h))
            /\ MyAccountDoc(h).captcha = ("captcha" \in MyFlags(h))
        BY DEF MyAccountDoc
      <4>5. Flagged(accounts'[a])
        BY <4>1, <4>3, <4>4 DEF Flagged
      <4> QED
        BY <4>5
    <3>5. Unsettled # Listed
      BY DEF Unsettled, Listed
    <3>6. StandsFor(t, a, Unsettled)'
      BY <1>1, <2>2, <3>1, <3>3, <3>4, <3>5, OwnStands
    <3> QED
      BY <3>6 DEF Kept
  <2> QED
    BY <2>1, <2>2
<1>2. ASSUME NEW g \in Caller, pc[g] = "newTrainer", foundAcct[g] = a
      PROVE  Kept(a)'
  <2>1. CASE g # h
    BY <1>2, <2>1, OthersUntouched DEF Untouched, Kept
  <2>2. CASE g = h
    <3>1. BuildTrainer(h)
      BY <1>2, <2>2 DEF HandlerStep, Receive, GetTrainer, GetFails, FindProxy,
         FindAccount, FindReplacement, MarkProxy, MarkReplacement,
         GiveProxyBack, MarkAccount, ScanEnds, ScanAgain, ForgetBusy,
         ReturnAccount, UpdateAccount, Forget, ProxyDies, AccountRefused,
         UseReplacement, Finish, Goto, Scanning
    <3>2. PICK u \in Trainer : /\ NewTrainer(h, u)
                               /\ acct' = [acct EXCEPT ![u] = foundAcct[h]]
      BY <3>1 DEF BuildTrainer
    <3>3. u \in Live'
      BY <1>0, <3>2, CallerLive
    <3>4. acct'[u] = a /\ health'[u] = {}
      BY <1>0, <1>2, <2>2, <3>2 DEF NewTrainer, STypeOK, QInv, QTypeOK
    <3>5. StandsFor(u, a, Unsettled)'
      BY <3>3, <3>4 DEF StandsFor
    <3> QED
      BY <3>5 DEF Kept
  <2> QED
    BY <2>1, <2>2
<1> QED
  BY <1>1, <1>2 DEF Kept

LEMMA LeakStep == RInv /\ NoAccountLeak /\ [Next]_vars => NoAccountLeak'
<1> SUFFICES ASSUME RInv, NoAccountLeak, [Next]_vars,
                    NEW a \in Account,
                    accounts'[a].used, ~Flagged(accounts'[a])
             PROVE  Kept(a)'
  BY DEF NoAccountLeak, Kept
<1>0. /\ QInv /\ STypeOK
      /\ accounts[a].used /\ ~Flagged(accounts[a]) => Kept(a)
  BY DEF RInv, NoAccountLeak, Kept
<1>1. ASSUME NEW h \in Caller, Receive(h) \/ HandlerStep(h) PROVE Kept(a)'
  <2>1. CASE accounts'[a] = accounts[a]
    BY <1>0, <1>1, <2>1, KeptStep
  <2>2. CASE MarkAccount(h) /\ accounts'[a] # accounts[a]
    <3>1. a = foundAcct[h]
      BY <1>0, <2>2
      DEF MarkAccount, MarkUsed, SaveAccount, STypeOK, AccountsTypeOK,
          ProxiesTypeOK
    <3>2. pc'[h] = "newTrainer" /\ foundAcct' = foundAcct
      BY <1>0, <2>2 DEF MarkAccount, Goto, STypeOK
    <3> QED
      BY <3>1, <3>2 DEF Kept
  <2>3. CASE (ReturnAccount(h) \/ UpdateAccount(h)) /\ accounts'[a] # accounts[a]
    <3>1. accounts' = [accounts EXCEPT ![MyAcct(h)] = accounts'[MyAcct(h)]]
          /\ a = MyAcct(h)
      BY <1>0, <2>3
      DEF ReturnAccount, UpdateAccount, SaveAccount, STypeOK, AccountsTypeOK,
          ProxiesTypeOK
    <3>2. Place(h) /\ held[h] # NoTrainer
      BY <2>3 DEF RInv, Places, Place, HasTrainer, Unsettled, ReturnAccount,
         UpdateAccount, Goto
    <3>3. held[h] \in Live /\ held[h] \in Trainer
      BY <1>0, <3>2 DEF Live, Held, QInv, QTypeOK
    <3>4. StandsFor(held[h], a, Unsettled)
      <4>1. pc[h] \in Unsettled
        BY <2>3 DEF ReturnAccount, UpdateAccount, Goto, Unsettled
      <4> QED
        BY <3>1, <3>3, <4>1 DEF StandsFor, UserIn, MyAcct
    <3> QED
      BY <1>1, <3>3, <3>4, KeptStep DEF Kept
  <2>4. \/ accounts' = accounts
        \/ MarkAccount(h) \/ ReturnAccount(h) \/ UpdateAccount(h)
    BY <1>1 DEF HandlerStep, Receive, GetTrainer, GetFails, FindProxy,
       FindAccount, FindReplacement, MarkProxy, MarkReplacement, GiveProxyBack,
       BuildTrainer, ScanEnds, ScanAgain, ForgetBusy, Forget, ProxyDies,
       AccountRefused, UseReplacement, Finish, dbvars
  <2> QED
    BY <2>1, <2>2, <2>3, <2>4
<1>2. CASE \/ \E t \in Trainer : QueueStep(t)
           \/ \E p \in ProxyId : Connect(p) \/ Disconnect(p) \/ MarkDead(p)
           \/ UNCHANGED vars
  <2>1. Live' = Live /\ UNCHANGED <<held, health, pc, foundAcct, acct, accounts>>
    BY <1>0, <1>2, EnvironmentSessions
  <2> QED
    BY <1>0, <2>1 DEF Kept, StandsFor, UserIn
<1> QED
  BY <1>1, <1>2 DEF Next

LEMMA StatusStep ==
  RInv /\ StatusHasTrainer /\ [Next]_vars => StatusHasTrainer'
<1> USE NoTrainerDistinct, NoneDistinct
<1> SUFFICES ASSUME RInv, StatusHasTrainer, [Next]_vars,
                    NEW a \in Account, status'[a] # NoProxy
             PROVE  \E t \in Trainer : StandsFor(t, a, Listed)'
  BY DEF StatusHasTrainer
<1>0. /\ QInv /\ STypeOK
      /\ status[a] # NoProxy => \E t \in Trainer : StandsFor(t, a, Listed)
  BY DEF RInv, StatusHasTrainer
<1>1. ASSUME NEW h \in Caller, Receive(h) \/ HandlerStep(h)
      PROVE  \E t \in Trainer : StandsFor(t, a, Listed)'
  <2>1. CASE BuildTrainer(h) /\ foundAcct[h] = a
    <3>1. PICK u \in Trainer : /\ NewTrainer(h, u)
                               /\ acct' = [acct EXCEPT ![u] = foundAcct[h]]
      BY <2>1 DEF BuildTrainer
    <3>2. u \in Live'
      BY <1>0, <3>1, CallerLive
    <3>3. acct'[u] = a /\ health'[u] = {}
      BY <1>0, <2>1, <3>1 DEF NewTrainer, STypeOK, QInv, QTypeOK
    <3> QED
      BY <3>2, <3>3 DEF StandsFor
  <2>2. CASE UseReplacement(h) /\ MyAcct(h) = a
    <3>1. held[h] \in Trainer /\ held[h] \in Live /\ pc[h] \in Listed
      BY <1>0, <2>2
      DEF UseReplacement, SetHealth, Goto, QInv, QTypeOK, Live, Held,
         Listed, Unsettled
    <3>2. StandsFor(held[h], a, Listed)
      BY <2>2, <3>1 DEF StandsFor, UserIn, MyAcct
    <3>3. Listed # Unsettled /\ ~ForgetBusy(h) /\ ~Forget(h)
      BY <2>2 DEF Listed, Unsettled, UseReplacement, ForgetBusy, Forget, Goto
    <3>4. HandlerStep(h)
      BY <2>2 DEF HandlerStep
    <3> QED
      BY <3>1, <3>2, <3>3, <3>4, OwnStands
  <2>3. CASE /\ ~(BuildTrainer(h) /\ foundAcct[h] = a)
             /\ ~(UseReplacement(h) /\ MyAcct(h) = a)
    <3>1. /\ status'[a] = status[a]
          /\ ForgetBusy(h) \/ Forget(h) => MyAcct(h) # a
      <4>1. CASE ForgetBusy(h) \/ Forget(h)
        BY <1>0, <4>1 DEF ForgetBusy, Forget, STypeOK
      <4>2. CASE BuildTrainer(h) \/ UseReplacement(h)
        BY <1>0, <2>3, <4>2 DEF BuildTrainer, UseReplacement, STypeOK,
           ForgetBusy, Forget, Goto
      <4>3. CASE ~(ForgetBusy(h) \/ Forget(h) \/ BuildTrainer(h) \/ UseReplacement(h))
        BY <1>1, <4>3 DEF HandlerStep, Receive, GetTrainer, GetFails, FindProxy,
           FindAccount, FindReplacement, MarkProxy, MarkReplacement,
           GiveProxyBack, MarkAccount, ScanEnds, ScanAgain, ReturnAccount,
           UpdateAccount, ProxyDies, AccountRefused, Finish
      <4> QED
        BY <4>1, <4>2, <4>3
    <3>2. PICK t \in Trainer : StandsFor(t, a, Listed)
      BY <1>0, <3>1
    <3>3. CASE t # held[h]
      BY <1>1, <3>2, <3>3, OthersStand
    <3>4. CASE t = held[h]
      <4>1. ~ForgetBusy(h) /\ ~Forget(h)
        BY <3>1, <3>2, <3>4 DEF StandsFor, MyAcct
      <4>2. Listed # Unsettled
        BY DEF Listed, Unsettled
      <4>3. HandlerStep(h)
        BY <1>1, <3>4 DEF Receive, Get
      <4> QED
        BY <3>2, <3>4, <4>1, <4>2, <4>3, OwnStands
    <3> QED
      BY <3>3, <3>4
  <2> QED
    BY <2>1, <2>2, <2>3
<1>2. CASE \/ \E t \in Trainer : QueueStep(t)
           \/ \E p \in ProxyId : Connect(p) \/ Disconnect(p) \/ MarkDead(p)
           \/ UNCHANGED vars
  <2>1. Live' = Live /\ UNCHANGED <<held, health, pc, acct, status>>
    BY <1>0, <1>2, EnvironmentSessions
  <2> QED
    BY <1>0, <2>1 DEF StandsFor, UserIn
<1> QED
  BY <1>1, <1>2 DEF Next
-----------------------------------------------------------------------------
LEMMA SNextInv == SInv /\ [Next]_vars => SInv'
<1>1. SInv /\ [Next]_vars => QInv'
  BY UsesQueue, QNextInv DEF SInv, RInv
<1> QED
  BY <1>1, TypeStep, PlacesStep, EquippedStep, LeakStep, StatusStep DEF SInv, RInv

(* The inductive invariant holds in every state. *)
THEOREM SInvariance == Spec => []SInv
BY SInitInv, SNextInv, PTL DEF Spec

(* Every variable of the scanner keeps its type. *)
THEOREM STypeCorrect == Spec => []STypeOK
<1>1. SInv => STypeOK
  BY DEF SInv, RInv
<1> QED
  BY SInvariance, <1>1, PTL

(* No account gets lost: behind every account the database calls used and    *)
(* healthy is a session, or a request that is about to build it.             *)
THEOREM NoAccountLeakAlways == Spec => []NoAccountLeak
<1>1. SInv => NoAccountLeak
  BY DEF SInv, RInv
<1> QED
  BY SInvariance, <1>1, PTL

(* Every entry of scannerStatus has a session behind it.                     *)
THEOREM StatusHasTrainerAlways == Spec => []StatusHasTrainer
<1>1. SInv => StatusHasTrainer
  BY DEF SInv, RInv
<1> QED
  BY SInvariance, <1>1, PTL
=============================================================================
