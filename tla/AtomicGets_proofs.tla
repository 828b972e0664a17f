-------------------------- MODULE AtomicGets_proofs --------------------------
(***************************************************************************)
(* Proofs about the scanner whose GetProxy and GetAccount are atomic       *)
(* (AtomicSpec), however its requests interleave otherwise and whatever    *)
(* the hub does: no two sessions share an account or a proxy,              *)
(* scannerStatus is exact and no report about an account is overwritten.   *)
(* What is missing for these in Spec is therefore one thing, and it is not *)
(* in requestHandler: a way to find and mark a document in one call.       *)
(***************************************************************************)
EXTENDS Scanner_proofs

Seeking == {"markProxy", "markReplacement"}

(* Request h has proxy p to itself: it marked it and no session has it yet.  *)
Has(h, p) == pc[h] \in HasProxy \ Seeking /\ foundProxy[h] = p

Taken(p) == proxies[p] # NoRecord /\ (proxies[p].use \/ proxies[p].dead)

(* A proxy has one owner, a session or a request, and while it has one the   *)
(* database does not offer it; what a request is about to mark has none.     *)
OneOwner ==
  /\ \A t, u \in Live : proxy[t] = proxy[u] => t = u
  /\ \A t \in Live, h \in Caller : ~Has(h, proxy[t])
  /\ \A g, h \in Caller, p \in ProxyId : Has(g, p) /\ Has(h, p) => g = h

OwnedTaken ==
  /\ \A t \in Live : Taken(proxy[t])
  /\ \A h \in Caller, p \in ProxyId : Has(h, p) => Taken(p)

SoughtFree ==
  \A h \in Caller : pc[h] \in Seeking =>
    /\ proxies[foundProxy[h]] # NoRecord
    /\ \A t \in Live : proxy[t] # foundProxy[h]
    /\ \A g \in Caller : ~Has(g, foundProxy[h])

ProxiesApart == OneOwner /\ OwnedTaken /\ SoughtFree

(* Session t has account a, and has not given it back. *)
Keeps(t, a) == t \in Live /\ acct[t] = a /\ ~Returned(t)

(* Request h has marked account a and is about to build a session with it. *)
Gets(h, a)  == pc[h] = "newTrainer" /\ foundAcct[h] = a

InUse(a) == accounts[a].used /\ ~Flagged(accounts[a])

(* The database knows of no refusal of t's account, as nobody reported one.  *)
Unreported(t) == health[t] \cap AccountFlag = {} \/ UserIn(t, {"saveAccount"})

(* The same for accounts: one session or request has it, and the database    *)
(* does not offer it.                                                        *)
OneKeeper ==
  \A a \in Account :
    /\ \A t, u \in Trainer : Keeps(t, a) /\ Keeps(u, a) => t = u
    /\ \A t \in Trainer, h \in Caller : ~(Keeps(t, a) /\ Gets(h, a))
    /\ \A g, h \in Caller : Gets(g, a) /\ Gets(h, a) => g = h

KeptUsed ==
  \A a \in Account :
    /\ \A t \in Trainer : Keeps(t, a) =>
         /\ accounts[a].used
         /\ Unreported(t) => InUse(a)
    /\ \A h \in Caller : Gets(h, a) => InUse(a)

SoughtUnused ==
  \A h \in Caller : pc[h] = "markAccount" => foundAcct[h] \in FreeAccounts

AccountsApart == OneKeeper /\ KeptUsed /\ SoughtUnused

AInv == SInv /\ AtomicGets /\ ProxiesApart /\ AccountsApart /\ StatusExact
-----------------------------------------------------------------------------
LEMMA LiveSessions == QInv => Live \subseteq Trainer
BY DEF QInv, QTypeOK, Live, Held, Range

(* Who has which proxy does not change, or somebody gives one up. *)
ProxiesQuiet ==
  /\ Live' \subseteq Live
  /\ \A t \in Live' : proxy'[t] = proxy[t]
  /\ \A g \in Caller, p \in ProxyId : Has(g, p)' => Has(g, p)
  /\ \A g \in Caller : pc'[g] \in Seeking =>
       pc[g] \in Seeking /\ foundProxy'[g] = foundProxy[g]

LEMMA QuietProxies ==
  ASSUME RInv, Equipped, ProxiesApart, ProxiesQuiet,
         \A p \in ProxyId : /\ proxies[p] # NoRecord => proxies'[p] # NoRecord
                            /\ Taken(p) => Taken(p)'
  PROVE  ProxiesApart'
<1>0. /\ \A t \in Live : proxy[t] \in ProxyId
      /\ \A h \in Caller : pc[h] \in Seeking => foundProxy[h] \in ProxyId
  BY DEF RInv, Equipped, Places, Place, Seeking, HasProxy
<1>1. OneOwner'
  BY <1>0 DEF ProxiesApart, OneOwner, ProxiesQuiet
<1>2. OwnedTaken'
  BY <1>0 DEF ProxiesApart, OwnedTaken, ProxiesQuiet
<1>3. SoughtFree'
  BY <1>0 DEF ProxiesApart, SoughtFree, ProxiesQuiet
<1> QED
  BY <1>1, <1>2, <1>3 DEF ProxiesApart

(* Request h leaves the places of the others alone. *)
LEMMA OthersHave ==
  ASSUME RInv, NEW h \in Caller, Receive(h) \/ HandlerStep(h),
         NEW g \in Caller, g # h
  PROVE  /\ \A p : Has(g, p)' <=> Has(g, p)
         /\ pc'[g] = pc[g] /\ foundProxy'[g] = foundProxy[g]
         /\ \A a : Gets(g, a)' <=> Gets(g, a)
         /\ foundAcct'[g] = foundAcct[g]
BY OthersUntouched DEF Untouched, Has, Gets

LEMMA QuietStep ==
  ASSUME RInv, Equipped, ProxiesApart, NEW h \in Caller,
         \/ Receive(h) \/ GetTrainer(h) \/ GetFails(h) \/ FindAccount(h)
         \/ MarkAccount(h) \/ ScanEnds(h) \/ ScanAgain(h) \/ ProxyDies(h)
         \/ AccountRefused(h) \/ ForgetBusy(h) \/ ReturnAccount(h)
         \/ UpdateAccount(h) \/ Forget(h) \/ Finish(h)
  PROVE  ProxiesApart'
<1>0. /\ pc \in [Caller -> Pc] /\ QInv
      /\ proxy \in [Trainer -> ProxyId \cup {NoProxy}]
      /\ Receive(h) \/ HandlerStep(h)
  BY DEF RInv, STypeOK, HandlerStep
<1>1. proxies' = proxies
  BY DEF Receive, GetTrainer, GetFails, FindAccount, MarkAccount, ScanEnds,
     ScanAgain, ProxyDies, AccountRefused, ForgetBusy, ReturnAccount,
     UpdateAccount, Forget, Finish, dbvars
<1>2. foundProxy' = foundProxy
  BY DEF Receive, GetTrainer, GetFails, FindAccount, MarkAccount, ScanEnds,
     ScanAgain, ProxyDies, AccountRefused, ForgetBusy, ReturnAccount,
     UpdateAccount, Forget, Finish
<1>3. /\ pc'[h] \in HasProxy \ Seeking => pc[h] \in HasProxy \ Seeking
      /\ pc'[h] \notin Seeking /\ ~BuildTrainer(h)
  BY <1>0 DEF Receive, GetTrainer, GetFails, FindAccount, MarkAccount, ScanEnds,
     ScanAgain, ProxyDies, AccountRefused, ForgetBusy, ReturnAccount,
     UpdateAccount, Forget, Finish, Goto, HasProxy, Seeking, Scanning,
     BuildTrainer
<1>4. Live' \subseteq Live
  BY <1>0, <1>3, NewSessions
<1>5. ASSUME NEW t \in Live' PROVE proxy'[t] = proxy[t]
  <2>1. CASE Finish(h) /\ ~Reusable(held[h])
    <3>1. Live' = Live \ {held[h]} /\ t \in Trainer
      BY <1>0, <1>4, <1>5, <2>1, CallerLive, LiveSessions DEF Finish, Reusable
    <3> QED
      BY <1>0, <1>5, <2>1, <3>1 DEF Finish
  <2>2. CASE ~(Finish(h) /\ ~Reusable(held[h]))
    BY <2>2 DEF Receive, GetTrainer, GetFails, FindAccount, MarkAccount, ScanEnds,
     ScanAgain, ProxyDies, AccountRefused, ForgetBusy, ReturnAccount,
     UpdateAccount, Forget, Finish
  <2> QED
    BY <2>1, <2>2
<1>6. ProxiesQuiet
  <2>1. ASSUME NEW g \in Caller
        PROVE  /\ \A p \in ProxyId : Has(g, p)' => Has(g, p)
               /\ pc'[g] \in Seeking =>
                    pc[g] \in Seeking /\ foundProxy'[g] = foundProxy[g]
    BY <1>0, <1>2, <1>3, OthersHave DEF Has
  <2> QED
    BY <1>4, <1>5, <2>1 DEF ProxiesQuiet
<1> QED
  BY <1>1, <1>6, QuietProxies DEF Taken

LEMMA SeekStep ==
  ASSUME RInv, Equipped, ProxiesApart, NEW h \in Caller, FindProxy(h) \/ FindReplacement(h)
  PROVE  ProxiesApart'
<1>0. /\ pc \in [Caller -> Pc] /\ foundProxy \in [Caller -> ProxyId \cup {NoProxy}]
      /\ \A t \in Live : proxy[t] \in ProxyId
      /\ \A g \in Caller : pc[g] \in Seeking => foundProxy[g] \in ProxyId
      /\ Receive(h) \/ HandlerStep(h)
  BY DEF RInv, STypeOK, Equipped, Places, Place, Seeking, HasProxy,
         HandlerStep
<1>1. Live' = Live /\ UNCHANGED <<proxies, proxy>>
  BY DEF FindProxy, FindReplacement, qvars, dbvars, Live, Held
<1>2. /\ pc[h] \in {"findProxy", "findReplacement"}
      /\ pc'[h] \in Seeking => foundProxy'[h] \in FreeProxies
      /\ pc'[h] \notin HasProxy \ Seeking
  BY <1>0 DEF FindProxy, FindReplacement, Goto, Seeking, HasProxy, FreeProxies
<1>3. \A g \in Caller, p \in ProxyId : Has(g, p)' <=> Has(g, p)
  BY <1>2, <1>0, OthersHave DEF Has, HasProxy
<1>4. ASSUME NEW p \in FreeProxies
      PROVE  /\ p \in ProxyId /\ ~Taken(p) /\ proxies[p] # NoRecord
             /\ \A t \in Live : proxy[t] # p
             /\ \A g \in Caller : ~Has(g, p)
  <2>1. p \in ProxyId /\ ~Taken(p) /\ proxies[p] # NoRecord
    <3>1. p \in ProxyId /\ proxies[p] = [use |-> FALSE, dead |-> FALSE]
      BY DEF FreeProxies
    <3>2. [use |-> FALSE, dead |-> FALSE] \in ProxyDoc
      BY DEF ProxyDoc
    <3>3. ~proxies[p].use /\ ~proxies[p].dead
      BY <3>1
    <3>4. proxies[p] # NoRecord
      BY <3>1, <3>2, NoRecordDistinct
    <3> QED
      BY <3>1, <3>3, <3>4 DEF Taken
  <2> QED
    BY <2>1 DEF ProxiesApart, OwnedTaken
<1>5. OneOwner'
  BY <1>0, <1>1, <1>3 DEF ProxiesApart, OneOwner
<1>6. OwnedTaken'
  BY <1>0, <1>1, <1>3 DEF ProxiesApart, OwnedTaken, Taken
<1>7. SoughtFree'
  <2> SUFFICES ASSUME NEW g \in Caller, pc'[g] \in Seeking
               PROVE  /\ proxies[foundProxy'[g]] # NoRecord
                      /\ \A t \in Live : proxy[t] # foundProxy'[g]
                      /\ \A f \in Caller : ~Has(f, foundProxy[g])'
    BY <1>1 DEF SoughtFree
  <2>1. CASE g = h
    BY <1>2, <1>3, <1>4, <2>1
  <2>2. CASE g # h
    <3>1. pc[g] \in Seeking /\ foundProxy'[g] = foundProxy[g]
      BY <1>0, <2>2, OthersHave
    <3> QED
      BY <1>0, <1>3, <3>1 DEF ProxiesApart, SoughtFree
  <2> QED
    BY <2>1, <2>2
<1> QED
  BY <1>5, <1>6, <1>7 DEF ProxiesApart

(* No other request seeks a proxy while h marks the one it found. *)
LEMMA MarkStep ==
  ASSUME RInv, Equipped, AtomicGets, ProxiesApart, NEW h \in Caller,
         MarkProxy(h) \/ MarkReplacement(h)
  PROVE  ProxiesApart'
<1> DEFINE m == foundProxy[h]
<1>0. /\ pc \in [Caller -> Pc] /\ foundProxy \in [Caller -> ProxyId \cup {NoProxy}]
      /\ \A t \in Live : proxy[t] \in ProxyId
      /\ proxies \in [ProxyId -> ProxyDoc \cup {NoRecord}]
      /\ Receive(h) \/ HandlerStep(h)
  BY DEF RInv, STypeOK, ProxiesTypeOK, Equipped, HandlerStep
<1>1. Live' = Live /\ UNCHANGED <<foundProxy, proxy>>
  BY DEF MarkProxy, MarkReplacement, qvars, Live, Held
<1>2. pc[h] \in Seeking /\ pc'[h] \in HasProxy \ Seeking
  BY <1>0 DEF MarkProxy, MarkReplacement, Goto, Seeking, HasProxy
<1>3. /\ m \in ProxyId /\ proxies[m] # NoRecord
      /\ \A t \in Live : proxy[t] # m
      /\ \A g \in Caller : ~Has(g, m)
  BY <1>2 DEF ProxiesApart, SoughtFree, RInv, Places, Place, Seeking,
              HasProxy
<1>4. proxies' = [proxies EXCEPT ![m] = [use |-> TRUE, dead |-> FALSE]]
  BY <1>0, <1>3 DEF MarkProxy, MarkReplacement, MarkInUse, SaveProxy
<1>5. \A p \in ProxyId : Taken(p) \/ p = m => Taken(p)'
  <2>1. [use |-> TRUE, dead |-> FALSE] \in ProxyDoc
    BY DEF ProxyDoc
  <2> QED
    BY <1>0, <1>3, <1>4, <2>1, NoRecordDistinct DEF Taken
<1>6. ASSUME NEW g \in Caller, NEW p \in ProxyId, Has(g, p)'
      PROVE  Has(g, p) \/ (g = h /\ p = m)
  <2>1. CASE g = h
    BY <1>1, <1>6, <2>1 DEF Has
  <2>2. CASE g # h
    BY <1>0, <1>6, <2>2, OthersHave
  <2> QED
    BY <2>1, <2>2
<1>7. OneOwner'
  BY <1>0, <1>1, <1>3, <1>6 DEF ProxiesApart, OneOwner
<1>8. OwnedTaken'
  BY <1>0, <1>1, <1>5, <1>6 DEF ProxiesApart, OwnedTaken
<1>9. SoughtFree'
  <2>1. ASSUME NEW g \in Caller, pc'[g] \in Seeking PROVE FALSE
    <3>1. g # h /\ pc[g] \in Seeking
      BY <1>0, <1>2, <2>1, OthersHave
    <3> QED
      BY <1>2, <3>1 DEF AtomicGets, Seeking
  <2> QED
    BY <2>1 DEF SoughtFree
<1> QED
  BY <1>7, <1>8, <1>9 DEF ProxiesApart

LEMMA GiveBackStep ==
  ASSUME RInv, Equipped, ProxiesApart, NEW h \in Caller, GiveProxyBack(h)
  PROVE  ProxiesApart'
<1> DEFINE m == foundProxy[h]
<1>0. /\ pc \in [Caller -> Pc] /\ foundProxy \in [Caller -> ProxyId \cup {NoProxy}]
      /\ \A t \in Live : proxy[t] \in ProxyId
      /\ \A g \in Caller : pc[g] \in Seeking => foundProxy[g] \in ProxyId
      /\ proxies \in [ProxyId -> ProxyDoc \cup {NoRecord}]
      /\ Receive(h) \/ HandlerStep(h)
  BY DEF RInv, STypeOK, ProxiesTypeOK, Equipped, Places, Place, Seeking,
         HasProxy, HandlerStep
<1>1. Live' = Live /\ UNCHANGED proxy
  BY DEF GiveProxyBack, qvars, Live, Held
<1>2. Has(h, m) /\ m \in ProxyId /\ pc'[h] \notin HasProxy
  BY <1>0 DEF GiveProxyBack, Goto, Has, Seeking, HasProxy, RInv, Places,
              Place
<1>3. \A g \in Caller, p \in ProxyId : Has(g, p)' => Has(g, p) /\ g # h
  BY <1>0, <1>2, OthersHave DEF Has
<1>4. /\ \A p \in ProxyId : proxies[p] # NoRecord => proxies'[p] # NoRecord
      /\ \A p \in ProxyId : p # m /\ Taken(p) => Taken(p)'
  <2>1. [use |-> FALSE, dead |-> FALSE] \in ProxyDoc
    BY DEF ProxyDoc
  <2> QED
    BY <1>0, <2>1, NoRecordDistinct
    DEF GiveProxyBack, ReturnProxy, SaveProxy, Taken
<1>5. OneOwner'
  BY <1>0, <1>1, <1>3 DEF ProxiesApart, OneOwner
<1>6. OwnedTaken'
  <2>1. \A t \in Live : proxy[t] # m
    BY <1>2 DEF ProxiesApart, OneOwner
  <2>2. \A g \in Caller, p \in ProxyId : Has(g, p)' => p # m
    BY <1>2, <1>3 DEF ProxiesApart, OneOwner
  <2> QED
    BY <1>0, <1>1, <1>3, <1>4, <2>1, <2>2 DEF ProxiesApart, OwnedTaken
<1>7. SoughtFree'
  <2>1. ASSUME NEW g \in Caller, pc'[g] \in Seeking
        PROVE  pc[g] \in Seeking /\ foundProxy'[g] = foundProxy[g]
    BY <1>0, <1>2, <2>1, OthersHave DEF Seeking, HasProxy
  <2> QED
    BY <1>0, <1>1, <1>3, <1>4, <2>1 DEF ProxiesApart, SoughtFree
<1> QED
  BY <1>5, <1>6, <1>7 DEF ProxiesApart

(* The proxy of request h becomes the proxy of a session. *)
LEMMA HandOverStep ==
  ASSUME RInv, Equipped, ProxiesApart, NEW h \in Caller, BuildTrainer(h) \/ UseReplacement(h)
  PROVE  ProxiesApart'
<1> DEFINE m == foundProxy[h]
<1>0. /\ pc \in [Caller -> Pc] /\ foundProxy \in [Caller -> ProxyId \cup {NoProxy}]
      /\ \A t \in Live : proxy[t] \in ProxyId
      /\ \A g \in Caller : pc[g] \in Seeking => foundProxy[g] \in ProxyId
      /\ proxy \in [Trainer -> ProxyId \cup {NoProxy}]
      /\ Receive(h) \/ HandlerStep(h)
      /\ QInv
  BY DEF RInv, STypeOK, ProxiesTypeOK, Equipped, Places, Place, Seeking,
         HasProxy, HandlerStep
<1>1. PICK t \in Trainer : /\ Live' \subseteq Live \cup {t}
                           /\ proxy' = [proxy EXCEPT ![t] = m]
  <2>1. CASE BuildTrainer(h)
    BY <1>0, <2>1, CallerLive DEF BuildTrainer
  <2>2. CASE UseReplacement(h)
    <3>1. held[h] \in Trainer
      BY <1>0, <2>2 DEF UseReplacement, SetHealth, QInv, QTypeOK
    <3>2. Live' = Live
      BY <1>0, <2>2, CallerLive DEF UseReplacement
    <3> QED
      BY <2>2, <3>1, <3>2 DEF UseReplacement
  <2> QED
    BY <2>1, <2>2
<1>2. Has(h, m) /\ m \in ProxyId /\ pc'[h] \notin HasProxy
  BY <1>0 DEF BuildTrainer, UseReplacement, Goto, Has, Seeking, HasProxy, 
              RInv, Places, Place
<1>3. \A g \in Caller, p \in ProxyId : Has(g, p)' => Has(g, p) /\ g # h /\ p # m
  BY <1>0, <1>2, OthersHave DEF Has, ProxiesApart, OneOwner
<1>4. proxies' = proxies
  BY DEF BuildTrainer, UseReplacement, dbvars
<1>5. ASSUME NEW u \in Live'
      PROVE  \/ u = t /\ proxy'[u] = m
             \/ u # t /\ u \in Live /\ proxy'[u] = proxy[u] /\ proxy[u] # m
  BY <1>0, <1>1, <1>2, LiveSessions DEF ProxiesApart, OneOwner
<1>6. OneOwner'
  <2>1. \A u, v \in Live' : proxy'[u] = proxy'[v] => u = v
    BY <1>5 DEF ProxiesApart, OneOwner
  <2>2. \A u \in Live', g \in Caller : ~Has(g, proxy[u])'
    BY <1>0, <1>2, <1>3, <1>5 DEF ProxiesApart, OneOwner
  <2>3. \A f, g \in Caller, p \in ProxyId : Has(f, p)' /\ Has(g, p)' => f = g
    BY <1>3 DEF ProxiesApart, OneOwner
  <2> QED
    BY <2>1, <2>2, <2>3 DEF OneOwner, Has
<1>7. OwnedTaken'
  BY <1>0, <1>2, <1>3, <1>4, <1>5 DEF ProxiesApart, OwnedTaken, Taken
<1>8. SoughtFree'
  <2> SUFFICES ASSUME NEW g \in Caller, pc'[g] \in Seeking
               PROVE  /\ proxies[foundProxy'[g]] # NoRecord
                      /\ \A u \in Live' : proxy'[u] # foundProxy'[g]
                      /\ \A f \in Caller : ~Has(f, foundProxy[g])'
    BY <1>4 DEF SoughtFree
  <2>1. pc[g] \in Seeking /\ foundProxy'[g] = foundProxy[g]
    BY <1>0, <1>2, OthersHave DEF Seeking, HasProxy
  <2>2. foundProxy[g] # m
    BY <1>2, <2>1 DEF ProxiesApart, SoughtFree
  <2> QED
    BY <1>0, <1>3, <1>5, <2>1, <2>2 DEF ProxiesApart, SoughtFree
<1> QED
  BY <1>6, <1>7, <1>8 DEF ProxiesApart

LEMMA HubProxies ==
  ASSUME RInv, Equipped, ProxiesApart,
         \/ \E t \in Trainer : QueueStep(t)
         \/ \E p \in ProxyId : Connect(p) \/ Disconnect(p) \/ MarkDead(p)
         \/ UNCHANGED vars
  PROVE  ProxiesApart'
<1>1. ProxiesQuiet
  BY EnvironmentSessions DEF RInv, ProxiesQuiet, Has
<1>2. ASSUME NEW q \in ProxyId
      PROVE  /\ proxies[q] # NoRecord => proxies'[q] # NoRecord
             /\ Taken(q) => Taken(q)'
  <2>0. proxies \in [ProxyId -> ProxyDoc \cup {NoRecord}]
    BY DEF RInv, STypeOK, ProxiesTypeOK
  <2>1. ASSUME NEW p \in ProxyId, Connect(p)
        PROVE  proxies[q] # NoRecord => proxies'[q] = proxies[q]
    BY <2>0, <2>1 DEF Connect, LinkUp, AddProxy
  <2>2. ASSUME NEW p \in ProxyId, MarkDead(p)
        PROVE  proxies'[q] = IF q = p THEN [use |-> FALSE, dead |-> TRUE]
                             ELSE proxies[q]
    BY <2>0, <2>2 DEF MarkDead, LinkDead, UpdateProxy
  <2>3. [use |-> FALSE, dead |-> TRUE] # NoRecord
    <3>1. [use |-> FALSE, dead |-> TRUE] \in ProxyDoc
      BY DEF ProxyDoc
    <3> QED
      BY <3>1, NoRecordDistinct
  <2>4. ASSUME \/ \E t \in Trainer : QueueStep(t)
               \/ \E p \in ProxyId : Disconnect(p)
               \/ UNCHANGED vars
        PROVE  proxies' = proxies
    BY <2>4 DEF QueueStep, Disconnect, vars, dbvars
  <2> QED
    BY <2>1, <2>2, <2>3, <2>4 DEF Taken
<1> QED
  BY <1>1, <1>2, QuietProxies

LEMMA ProxiesStep ==
  RInv /\ Equipped /\ AtomicGets /\ ProxiesApart /\ [Next]_vars => ProxiesApart'
BY QuietStep, SeekStep, MarkStep, GiveBackStep, HandOverStep, HubProxies
DEF Next, HandlerStep
-----------------------------------------------------------------------------
(* Who has which account does not change, or somebody gives one up. *)
AccountsQuiet ==
  /\ accounts' = accounts
  /\ \A t \in Trainer, a \in Account : Keeps(t, a)' =>
       /\ Keeps(t, a)
       /\ Unreported(t)' => Unreported(t)
  /\ \A g \in Caller, a \in Account : Gets(g, a)' => Gets(g, a)
  /\ \A g \in Caller : pc'[g] = "markAccount" =>
       pc[g] = "markAccount" /\ foundAcct'[g] = foundAcct[g]

LEMMA QuietAccounts ==
  ASSUME AccountsApart, AccountsQuiet
  PROVE  AccountsApart'
<1>1. OneKeeper'
  BY DEF AccountsApart, OneKeeper, AccountsQuiet
<1>2. KeptUsed'
  BY DEF AccountsApart, KeptUsed, AccountsQuiet, InUse
<1>3. SoughtUnused'
  BY DEF AccountsApart, SoughtUnused, AccountsQuiet, FreeAccounts
<1> QED
  BY <1>1, <1>2, <1>3 DEF AccountsApart

(* Nor does a step of request h change who uses another session. *)
LEMMA SameUser ==
  ASSUME RInv, NEW h \in Caller, Receive(h) \/ HandlerStep(h),
         NEW t \in Live, t # held[h], NEW places, {"scan", "idle"} \cap places = {}
  PROVE  UserIn(t, places)' <=> UserIn(t, places)
<1>0. pc \in [Caller -> Pc]
  BY DEF RInv, STypeOK
<1>1. ASSUME NEW g \in Caller, g # h
      PROVE  held'[g] = held[g] /\ pc'[g] = pc[g]
  BY <1>1, OthersUntouched DEF Untouched
<1>2. held'[h] = t => pc'[h] \in {"scan", "idle"}
  <2> SUFFICES ASSUME held'[h] = t PROVE pc'[h] \in {"scan", "idle"}
    OBVIOUS
  <2>1. held' # held
    OBVIOUS
  <2>2. GetTrainer(h) \/ BuildTrainer(h) \/ Finish(h)
    BY <2>1 DEF HandlerStep, Receive, Get, GetFails, Timeout, FindProxy,
       MarkProxy, FindAccount, GiveProxyBack, MarkAccount, ScanEnds,
       ScanAgain, ProxyDies, AccountRefused, FindReplacement, SetHealth,
       MarkReplacement, UseReplacement, ForgetBusy, ReturnAccount,
       UpdateAccount, Forget, qvars
  <2> QED
    BY <1>0, <2>2 DEF GetTrainer, BuildTrainer, Finish, Goto
<1> QED
  BY <1>1, <1>2 DEF UserIn

LEMMA OthersKeep ==
  ASSUME RInv, NEW h \in Caller, Receive(h) \/ HandlerStep(h),
         NEW t \in Live, t # held[h]
  PROVE  /\ \A a : Keeps(t, a)' <=> Keeps(t, a)
         /\ Unreported(t)' <=> Unreported(t)
<1>1. t \in Live' /\ acct'[t] = acct[t] /\ health'[t] = health[t]
  BY OtherSessions
<1>2. UserIn(t, {"done"})' <=> UserIn(t, {"done"})
  BY SameUser
<1>3. UserIn(t, {"saveAccount"})' <=> UserIn(t, {"saveAccount"})
  BY SameUser
<1> QED
  BY <1>1, <1>2, <1>3 DEF Keeps, Returned, Unreported

(* No other request has h's session, so h alone can give its account back.   *)
LEMMA OwnReturned ==
  ASSUME RInv, NEW h \in Caller, held[h] # NoTrainer
  PROVE  /\ held[h] \in Trainer /\ held[h] \in Live
         /\ Returned(held[h]) <=> health[held[h]] = {"dead"} /\ pc[h] = "done"
<1>1. \A g \in Caller : held[g] = held[h] => g = h
  BY DEF RInv, QInv, OneUser
<1> QED
  BY <1>1 DEF RInv, QInv, QTypeOK, Live, Held, Returned, UserIn

(* A request that neither gets an account nor writes to one. *)
LEMMA QuietKeeping ==
  ASSUME RInv, Named, AccountsApart, NEW h \in Caller,
         \/ Receive(h) \/ GetTrainer(h) \/ GetFails(h) \/ FindProxy(h)
         \/ MarkProxy(h) \/ GiveProxyBack(h) \/ ScanEnds(h) \/ ScanAgain(h)
         \/ ProxyDies(h) \/ AccountRefused(h) \/ FindReplacement(h)
         \/ MarkReplacement(h) \/ UseReplacement(h) \/ ForgetBusy(h)
         \/ Forget(h) \/ Finish(h)
  PROVE  AccountsApart'
<1>0. /\ pc \in [Caller -> Pc] /\ QInv
      /\ acct \in [Trainer -> Account \cup {NoAccount}]
      /\ Receive(h) \/ HandlerStep(h)
  BY DEF RInv, STypeOK, HandlerStep
<1>1. accounts' = accounts
  BY DEF Receive, GetTrainer, GetFails, FindProxy, MarkProxy, GiveProxyBack,
     ScanEnds, ScanAgain, ProxyDies, AccountRefused, FindReplacement,
     MarkReplacement, UseReplacement, ForgetBusy, Forget, Finish, dbvars
<1>2. foundAcct' = foundAcct
  BY DEF Receive, GetTrainer, GetFails, FindProxy, MarkProxy, GiveProxyBack,
     ScanEnds, ScanAgain, ProxyDies, AccountRefused, FindReplacement,
     MarkReplacement, UseReplacement, ForgetBusy, Forget, Finish
<1>3. /\ pc'[h] \notin {"markAccount", "newTrainer"} /\ ~BuildTrainer(h)
      /\ pc[h] = "done" => Finish(h)
  BY <1>0 DEF Receive, GetTrainer, GetFails, FindProxy, MarkProxy, GiveProxyBack,
     ScanEnds, ScanAgain, ProxyDies, AccountRefused, FindReplacement,
     MarkReplacement, UseReplacement, ForgetBusy, Forget, Finish, Goto,
     Scanning, BuildTrainer
<1>4. Live' \subseteq Live
  BY <1>0, <1>3, NewSessions
<1>5. ASSUME NEW a \in Account, NEW t \in Trainer, t = held[h], Keeps(t, a)'
      PROVE  /\ Keeps(t, a)
             /\ Unreported(t)' => Unreported(t)
  <2>1. t \in Trainer /\ t \in Live /\ t \in Live'
    BY <1>5, OwnReturned, NoTrainerDistinct DEF Keeps
  <2>2. CASE Finish(h)
    <3>1. health[t] = {}
      BY <1>0, <1>5, <2>1, <2>2, CallerLive DEF Finish
    <3>2. acct' = acct
      BY <1>5, <2>2, <3>1 DEF Finish, Reusable
    <3>3. acct'[t] = a
      BY <1>5 DEF Keeps
    <3> QED
      BY <1>5, <2>1, <3>1, <3>2, <3>3, OwnReturned, NoTrainerDistinct
      DEF Keeps, Unreported
  <2>3. CASE ~Finish(h)
    <3>1. acct' = acct
      BY <2>3 DEF Receive, GetTrainer, GetFails, FindProxy, MarkProxy,
         GiveProxyBack, ScanEnds, ScanAgain, ProxyDies, AccountRefused,
         FindReplacement, MarkReplacement, UseReplacement, ForgetBusy, Forget
    <3>2. pc[h] # "done"
      BY <1>3, <2>3
    <3>3. health[t] \cap AccountFlag \subseteq health'[t]
      <4>1. UNCHANGED health \/ \E flags : SetHealth(h, flags)
        BY <2>3 DEF Receive, GetTrainer, GetFails, FindProxy, MarkProxy,
           GiveProxyBack, ScanEnds, ScanAgain, ProxyDies, AccountRefused,
           FindReplacement, MarkReplacement, UseReplacement, ForgetBusy,
           Forget, Get, Deliver, Timeout, qvars
      <4> QED
        BY <1>0, <2>1, <4>1 DEF SetHealth, QInv, QTypeOK
    <3>4. acct[t] = a /\ ~Returned(t)
      BY <1>5, <3>1, <3>2, OwnReturned, NoTrainerDistinct DEF Keeps
    <3>5. ASSUME UserIn(t, {"saveAccount"})' PROVE health[t] = {}
      <4>1. PICK g \in Caller : held'[g] = t /\ pc'[g] = "saveAccount"
        BY <3>5 DEF UserIn
      <4>2. g = h
        <5>1. ASSUME g # h PROVE held[g] = t
          BY <1>0, <4>1, <5>1, OthersUntouched DEF Untouched
        <5> QED
          BY <1>0, <1>5, <5>1, NoTrainerDistinct DEF QInv, OneUser
      <4>3. pc[h] \in Scanning
        BY <1>0, <4>1, <4>2 DEF Receive, GetTrainer, GetFails, FindProxy,
           MarkProxy, GiveProxyBack, ScanEnds, ScanAgain, ProxyDies,
           AccountRefused, FindReplacement, MarkReplacement, UseReplacement,
           ForgetBusy, Forget, Finish, Goto, Scanning
      <4> QED
        BY <1>5, <4>3 DEF RInv, Places, Place
    <3> QED
      BY <2>1, <3>3, <3>4, <3>5 DEF Keeps, Unreported
  <2> QED
    BY <2>2, <2>3
<1>6. AccountsQuiet
  <2>1. ASSUME NEW t \in Trainer, NEW a \in Account, Keeps(t, a)'
        PROVE  /\ Keeps(t, a)
               /\ Unreported(t)' => Unreported(t)
    <3>1. t \in Live
      BY <1>4, <2>1 DEF Keeps
    <3>2. CASE t = held[h]
      BY <1>5, <2>1, <3>2
    <3>3. CASE t # held[h]
      BY <1>0, <2>1, <3>1, <3>3, OthersKeep
    <3> QED
      BY <3>2, <3>3
  <2>2. ASSUME NEW g \in Caller
        PROVE  /\ \A a \in Account : Gets(g, a)' => Gets(g, a)
               /\ pc'[g] = "markAccount" =>
                    pc[g] = "markAccount" /\ foundAcct'[g] = foundAcct[g]
    BY <1>0, <1>2, <1>3, OthersHave DEF Gets
  <2> QED
    BY <1>1, <2>1, <2>2 DEF AccountsQuiet
<1> QED
  BY <1>6, QuietAccounts

LEMMA SeekAccount ==
  ASSUME RInv, Named, AccountsApart, NEW h \in Caller, FindAccount(h)
  PROVE  AccountsApart'
<1>0. /\ pc \in [Caller -> Pc] /\ foundAcct \in [Caller -> Account \cup {NoAccount}]
      /\ Receive(h) \/ HandlerStep(h)
  BY DEF RInv, STypeOK, HandlerStep
<1>1. UNCHANGED <<accounts, health, acct>> /\ Live' = Live /\ held' = held
  BY DEF FindAccount, dbvars, qvars, Live, Held
<1>2. /\ pc[h] = "findAccount"
      /\ \/ pc'[h] = "markAccount" /\ foundAcct'[h] \in FreeAccounts
         \/ pc'[h] = "returnProxy"
  BY <1>0 DEF FindAccount, Goto, FreeAccounts
<1>3. ASSUME NEW t \in Trainer, NEW a \in Account
      PROVE  /\ Keeps(t, a)' <=> Keeps(t, a)
             /\ Unreported(t)' <=> Unreported(t)
  <2>1. \A g \in Caller : \A x \in {"done", "saveAccount"} : pc'[g] = x <=> pc[g] = x
    BY <1>0, <1>2, OthersHave
  <2> QED
    BY <1>1, <2>1 DEF Keeps, Returned, Unreported, UserIn
<1>4. \A g \in Caller, a \in Account : Gets(g, a)' <=> Gets(g, a)
  <2>1. \A a \in Account : ~Gets(h, a)' /\ ~Gets(h, a)
    BY <1>2 DEF Gets
  <2> QED
    BY <1>0, <2>1, OthersHave
<1>5. OneKeeper'
  BY <1>3, <1>4 DEF AccountsApart, OneKeeper
<1>6. KeptUsed'
  BY <1>1, <1>3, <1>4 DEF AccountsApart, KeptUsed, FreeAccounts, InUse
<1>7. SoughtUnused'
  BY <1>0, <1>1, <1>2, OthersHave
  DEF AccountsApart, SoughtUnused, FreeAccounts
<1> QED
  BY <1>5, <1>6, <1>7 DEF AccountsApart

(* No other request seeks an account while h marks the one it found. *)
LEMMA MarkAccountStep ==
  ASSUME RInv, Named, AtomicGets, AccountsApart, NEW h \in Caller, MarkAccount(h)
  PROVE  /\ AccountsApart'
         /\ \A a \in Account : Flagged(accounts[a]) => accounts'[a] = accounts[a]
<1>0. /\ pc \in [Caller -> Pc] /\ accounts \in [Account -> AccountDoc]
      /\ Receive(h) \/ HandlerStep(h)
  BY DEF RInv, STypeOK, AccountsTypeOK, HandlerStep
<1>1. UNCHANGED <<foundAcct, health, acct>> /\ Live' = Live /\ held' = held
  BY DEF MarkAccount, qvars, Live, Held
<1>2. /\ pc[h] = "markAccount" /\ pc'[h] = "newTrainer"
      /\ \E m \in Account : m = foundAcct[h] /\ m \in FreeAccounts
  BY <1>0 DEF MarkAccount, Goto, AccountsApart, SoughtUnused, FreeAccounts
<1> PICK m \in Account : m = foundAcct[h] /\ m \in FreeAccounts
  BY <1>2
<1>3. \A a \in Account : a # m => accounts'[a] = accounts[a]
  BY <1>0 DEF MarkAccount, MarkUsed, SaveAccount
<1>4. accounts'[m].used /\ ~Flagged(accounts'[m])
  BY <1>0, <1>2 DEF MarkAccount, MarkUsed, SaveAccount, Flagged
<1>5. ASSUME NEW t \in Trainer, NEW a \in Account
      PROVE  /\ Keeps(t, a)' <=> Keeps(t, a)
             /\ Unreported(t)' <=> Unreported(t)
  <2>1. \A g \in Caller : \A x \in {"done", "saveAccount"} : pc'[g] = x <=> pc[g] = x
    BY <1>0, <1>2, OthersHave
  <2> QED
    BY <1>1, <2>1 DEF Keeps, Returned, Unreported, UserIn
<1>6. ASSUME NEW g \in Caller, NEW a \in Account, Gets(g, a)'
      PROVE  Gets(g, a) \/ (g = h /\ a = m)
  <2>1. CASE g = h
    BY <1>1, <1>6, <2>1 DEF Gets
  <2>2. CASE g # h
    BY <1>0, <1>6, <2>2, OthersHave
  <2> QED
    BY <2>1, <2>2
<1>7. /\ \A t \in Trainer : ~Keeps(t, m)
      /\ \A g \in Caller : ~Gets(g, m)
  BY <1>2 DEF AccountsApart, KeptUsed, InUse, FreeAccounts
<1>8. OneKeeper'
  BY <1>5, <1>6, <1>7 DEF AccountsApart, OneKeeper
<1>9. KeptUsed'
  <2>1. ASSUME NEW a \in Account, a # m
        PROVE  /\ a \in FreeAccounts' <=> a \in FreeAccounts
               /\ InUse(a)' <=> InUse(a)
    BY <1>3, <2>1 DEF FreeAccounts, InUse
  <2>2. m \notin FreeAccounts' /\ InUse(m)'
    BY <1>1, <1>4 DEF FreeAccounts, InUse
  <2>3. ASSUME NEW a \in Account, NEW t \in Trainer, Keeps(t, a)'
        PROVE  /\ accounts'[a].used
               /\ Unreported(t)' => InUse(a)'
    <3>1. a # m
      BY <1>5, <1>7, <2>3
    <3> QED
      BY <1>3, <1>5, <2>1, <2>3, <3>1 DEF AccountsApart, KeptUsed
  <2>4. ASSUME NEW a \in Account, NEW g \in Caller, Gets(g, a)'
        PROVE  InUse(a)'
    BY <1>6, <2>1, <2>2, <2>4 DEF AccountsApart, KeptUsed
  <2> QED
    BY <2>3, <2>4 DEF KeptUsed
<1>10. SoughtUnused'
  <2>1. ASSUME NEW g \in Caller, pc'[g] = "markAccount" PROVE FALSE
    <3>1. g # h /\ pc[g] = "markAccount"
      BY <1>0, <1>2, <2>1, OthersHave
    <3> QED
      BY <1>2, <3>1 DEF AtomicGets
  <2> QED
    BY <2>1 DEF SoughtUnused
<1>11. ~Flagged(accounts[m])
  BY <1>2 DEF FreeAccounts
<1> QED
  BY <1>3, <1>8, <1>9, <1>10, <1>11 DEF AccountsApart

LEMMA BuildStep ==
  ASSUME RInv, Named, AccountsApart, NEW h \in Caller, BuildTrainer(h)
  PROVE  AccountsApart'
<1> DEFINE m == foundAcct[h]
<1>0. /\ pc \in [Caller -> Pc] /\ acct \in [Trainer -> Account \cup {NoAccount}]
      /\ health \in [Trainer -> SUBSET Flag] /\ QInv
      /\ Receive(h) \/ HandlerStep(h)
  BY DEF RInv, STypeOK, AccountsTypeOK, QInv, QTypeOK, HandlerStep
<1>1. PICK u \in Trainer : NewTrainer(h, u) /\ acct' = [acct EXCEPT ![u] = m]
  BY DEF BuildTrainer
<1>2. u \notin Live /\ Live' = Live \cup {u} /\ health'[u] = {} /\ acct'[u] = m
  BY <1>0, <1>1, CallerLive DEF NewTrainer
<1>3. /\ pc[h] = "newTrainer" /\ pc'[h] = "scan"
      /\ Gets(h, m) /\ m \in Account /\ InUse(m)
  <2>1. pc[h] = "newTrainer" /\ pc'[h] = "scan"
    BY <1>0 DEF BuildTrainer, Goto
  <2>2. m \in Account
    BY <2>1 DEF RInv, Places, Place, HasAccount
  <2> QED
    BY <2>1, <2>2 DEF Gets, AccountsApart, KeptUsed
<1>4. accounts' = accounts
  BY DEF BuildTrainer, dbvars
<1>5. ASSUME NEW t \in Trainer, NEW a \in Account, Keeps(t, a)'
      PROVE  \/ t = u /\ a = m
             \/ t # u /\ a # m /\ Keeps(t, a) /\ (Unreported(t)' <=> Unreported(t))
  <2>1. CASE t = u
    BY <1>2, <1>5, <2>1 DEF Keeps
  <2>2. CASE t # u
    <3>1. t \in Live /\ t # held[h]
      BY <1>1, <1>2, <1>5, <2>2, NoTrainerDistinct DEF Keeps, NewTrainer
    <3>2. Keeps(t, a) /\ (Unreported(t)' <=> Unreported(t))
      BY <1>0, <1>5, <3>1, OthersKeep
    <3> QED
      BY <1>3, <2>2, <3>2 DEF AccountsApart, OneKeeper
  <2> QED
    BY <2>1, <2>2
<1>6. ASSUME NEW g \in Caller, NEW a \in Account, Gets(g, a)'
      PROVE  Gets(g, a) /\ g # h /\ a # m
  <2>1. g # h
    BY <1>3, <1>6 DEF Gets
  <2>2. Gets(g, a)
    BY <1>0, <1>6, <2>1, OthersHave
  <2> QED
    BY <1>3, <2>1, <2>2 DEF AccountsApart, OneKeeper
<1>7. OneKeeper'
  <2>1. \A a \in Account : \A t, v \in Trainer : Keeps(t, a)' /\ Keeps(v, a)' => t = v
    BY <1>5 DEF AccountsApart, OneKeeper
  <2>2. \A a \in Account : \A t \in Trainer, g \in Caller : ~(Keeps(t, a)' /\ Gets(g, a)')
    BY <1>5, <1>6 DEF AccountsApart, OneKeeper
  <2>3. \A a \in Account : \A f, g \in Caller : Gets(f, a)' /\ Gets(g, a)' => f = g
    BY <1>6 DEF AccountsApart, OneKeeper
  <2> QED
    BY <2>1, <2>2, <2>3 DEF OneKeeper
<1>8. KeptUsed'
  <2>1. \A a \in Account : InUse(a)' <=> InUse(a)
    BY <1>4 DEF InUse
  <2>2. ASSUME NEW a \in Account, NEW t \in Trainer, Keeps(t, a)'
        PROVE  /\ accounts[a].used
               /\ Unreported(t)' => InUse(a)
    BY <1>3, <1>5, <2>2 DEF AccountsApart, KeptUsed, InUse
  <2>3. ASSUME NEW a \in Account, NEW g \in Caller, Gets(g, a)'
        PROVE  InUse(a)
    BY <1>6, <2>3 DEF AccountsApart, KeptUsed
  <2> QED
    BY <1>4, <2>1, <2>2, <2>3 DEF KeptUsed
<1>9. SoughtUnused'
  <2>1. \A g \in Caller : pc'[g] = "markAccount" =>
          pc[g] = "markAccount" /\ foundAcct'[g] = foundAcct[g]
    BY <1>0, <1>3, OthersHave
  <2> QED
    BY <1>4, <2>1 DEF AccountsApart, SoughtUnused, FreeAccounts
<1> QED
  BY <1>7, <1>8, <1>9 DEF AccountsApart

(* The report of a request about its account, which nobody else has. *)
LEMMA ReportStep ==
  ASSUME RInv, Named, AccountsApart, NEW h \in Caller, ReturnAccount(h) \/ UpdateAccount(h)
  PROVE  /\ AccountsApart'
         /\ \A a \in Account : Flagged(accounts[a]) => accounts'[a] = accounts[a]
<1>0. /\ pc \in [Caller -> Pc] /\ accounts \in [Account -> AccountDoc]
      /\ Receive(h) \/ HandlerStep(h)
  BY DEF RInv, STypeOK, AccountsTypeOK, HandlerStep
<1>1. /\ UNCHANGED <<foundAcct, health, acct, held>> /\ Live' = Live
      /\ pc[h] \in {"returnAccount", "saveAccount"}
      /\ pc'[h] \in {"done", "forget"}
  BY <1>0 DEF ReturnAccount, UpdateAccount, Goto, qvars, Live, Held
<1>2. PICK t \in Trainer : t = held[h] /\ t \in Live /\ ~Returned(t)
  <2>1. held[h] # NoTrainer
    BY <1>1 DEF RInv, Places, Place, HasTrainer, Unsettled
  <2>2. held[h] \in Trainer /\ held[h] \in Live /\ ~Returned(held[h])
    BY <1>1, <2>1, OwnReturned
  <2> QED
    BY <2>2
<1>3. PICK m \in Account : m = MyAcct(h) /\ Keeps(t, m)
  BY <1>2 DEF Named, MyAcct, Keeps
<1>4. \A a \in Account : a # m => accounts'[a] = accounts[a]
  BY <1>0, <1>3 DEF ReturnAccount, UpdateAccount, SaveAccount
<1>5. /\ \A u \in Trainer : Keeps(u, m) => u = t
      /\ \A g \in Caller : ~Gets(g, m)
      /\ m \notin FreeAccounts
      /\ Unreported(t) => InUse(m)
  BY <1>3 DEF AccountsApart, OneKeeper, KeptUsed, FreeAccounts
<1>6. ASSUME ReturnAccount(h)
      PROVE  ~Keeps(t, m)' /\ ~Flagged(accounts[m])
  <2>1. health[t] = {"dead"}
    BY <1>2, <1>6 DEF ReturnAccount, Goto, RInv, Places, Place, ProxyLost,
                      Unsettled
  <2>2. ~Keeps(t, m)'
    BY <1>0, <1>1, <1>2, <1>6, <2>1
    DEF ReturnAccount, Goto, Returned, UserIn, Keeps
  <2>3. ~Flagged(accounts[m])
    BY <1>5, <2>1 DEF Unreported, AccountFlag, InUse
  <2> QED
    BY <2>2, <2>3
<1>7. ASSUME UpdateAccount(h)
      PROVE  ~Unreported(t)' /\ accounts'[m].used /\ ~Flagged(accounts[m])
  <2>1. health[t] \cap AccountFlag # {}
    BY <1>2, <1>7 DEF UpdateAccount, Goto, RInv, Places, Place
  <2>3. accounts'[m] = MyAccountDoc(h)
    BY <1>0, <1>3, <1>7 DEF UpdateAccount, SaveAccount
  <2>4. ~Flagged(accounts[m])
    <3>1. UserIn(t, {"saveAccount"})
      BY <1>2, <1>7 DEF UpdateAccount, Goto, UserIn
    <3> QED
      BY <1>5, <3>1 DEF Unreported, InUse
  <2>5. ~UserIn(t, {"saveAccount"})'
    <3>1. \A g \in Caller : held[g] = t => g = h
      BY <1>2, NoTrainerDistinct DEF RInv, QInv, OneUser
    <3>2. pc'[h] = "forget"
      BY <1>0, <1>7 DEF UpdateAccount, Goto
    <3> QED
      BY <1>1, <3>1, <3>2 DEF UserIn
  <2>6. accounts'[m].used
    BY <2>3 DEF MyAccountDoc
  <2> QED
    BY <1>1, <2>1, <2>4, <2>5, <2>6 DEF Unreported
<1>8. ASSUME NEW u \in Trainer, NEW a \in Account, Keeps(u, a)'
      PROVE  Keeps(u, a) /\ (a # m \/ (UpdateAccount(h) /\ u = t))
  <2>1. CASE u = t
    <3>1. a = m
      BY <1>1, <1>3, <1>8, <2>1 DEF Keeps
    <3> QED
      BY <1>3, <1>6, <1>8, <2>1, <3>1
  <2>2. CASE u # t
    <3>1. Keeps(u, a)
      BY <1>0, <1>1, <1>2, <1>8, <2>2, OthersKeep DEF Keeps
    <3>2. ~Keeps(u, m)
      BY <1>5, <2>2
    <3>3. a # m
      BY <3>1, <3>2
    <3> QED
      BY <3>1, <3>3
  <2> QED
    BY <2>1, <2>2
<1>9. ASSUME NEW g \in Caller, NEW a \in Account, Gets(g, a)'
      PROVE  Gets(g, a) /\ a # m
  <2>1. g # h
    BY <1>1, <1>9 DEF Gets
  <2> QED
    BY <1>0, <1>5, <1>9, <2>1, OthersHave
<1>10. OneKeeper'
  BY <1>8, <1>9 DEF AccountsApart, OneKeeper
<1>11. ASSUME NEW a \in Account, a # m
       PROVE  /\ a \in FreeAccounts' <=> a \in FreeAccounts
              /\ InUse(a)' <=> InUse(a)
  BY <1>4, <1>11 DEF FreeAccounts, InUse
<1>12. KeptUsed'
  <2>1. ASSUME NEW a \in Account, NEW u \in Trainer, Keeps(u, a)'
        PROVE  /\ accounts'[a].used
               /\ Unreported(u)' => InUse(a)'
    <3>1. CASE a # m
      <4>1. Keeps(u, a) /\ u \in Live /\ u # held[h]
        BY <1>2, <1>3, <1>8, <2>1, <3>1 DEF Keeps
      <4>2. Unreported(u)' <=> Unreported(u)
        BY <1>0, <4>1, OthersKeep
      <4> QED
        BY <1>4, <1>11, <3>1, <4>1, <4>2 DEF AccountsApart, KeptUsed
    <3>2. CASE a = m
      <4>1. UpdateAccount(h) /\ u = t
        BY <1>8, <2>1, <3>2
      <4> QED
        BY <1>7, <3>2, <4>1
    <3> QED
      BY <3>1, <3>2
  <2>2. ASSUME NEW a \in Account, NEW g \in Caller, Gets(g, a)'
        PROVE  InUse(a)'
    BY <1>9, <1>11, <2>2 DEF AccountsApart, KeptUsed
  <2> QED
    BY <2>1, <2>2 DEF KeptUsed
<1>13. SoughtUnused'
  <2>1. \A g \in Caller : pc'[g] = "markAccount" =>
          pc[g] = "markAccount" /\ foundAcct'[g] = foundAcct[g]
    BY <1>0, <1>1, OthersHave
  <2> QED
    BY <1>5, <1>11, <2>1 DEF AccountsApart, SoughtUnused, FreeAccounts
<1> QED
  BY <1>4, <1>6, <1>7, <1>10, <1>12, <1>13 DEF AccountsApart

LEMMA HubAccounts ==
  ASSUME RInv, Named, AccountsApart,
         \/ \E t \in Trainer : QueueStep(t)
         \/ \E p \in ProxyId : Connect(p) \/ Disconnect(p) \/ MarkDead(p)
         \/ UNCHANGED vars
  PROVE  AccountsApart' /\ accounts' = accounts
<1>1. Live' = Live /\ UNCHANGED <<held, health, pc, foundAcct, acct, accounts>>
  BY EnvironmentSessions DEF RInv
<1>2. AccountsQuiet
  BY <1>1 DEF AccountsQuiet, Keeps, Returned, Unreported, UserIn, Gets
<1> QED
  BY <1>1, <1>2, QuietAccounts

LEMMA AccountsStep ==
  RInv /\ Named /\ AtomicGets /\ AccountsApart /\ [Next]_vars => AccountsApart'
BY QuietKeeping, SeekAccount, MarkAccountStep, BuildStep, ReportStep, HubAccounts
DEF Next, HandlerStep

(* No step writes a refused account at all. *)
LEMMA BansStep ==
  ASSUME RInv, Named, AtomicGets, AccountsApart, [Next]_vars, NEW a \in Account,
         Flagged(accounts[a])
  PROVE  accounts'[a] = accounts[a]
<1>1. ASSUME NEW h \in Caller, Receive(h) \/ HandlerStep(h)
      PROVE  accounts'[a] = accounts[a]
  <2>1. CASE MarkAccount(h)
    BY <2>1, MarkAccountStep
  <2>2. CASE ReturnAccount(h) \/ UpdateAccount(h)
    BY <2>2, ReportStep
  <2>3. CASE accounts' = accounts
    BY <2>3
  <2> QED
    BY <1>1, <2>1, <2>2, <2>3
    DEF HandlerStep, Receive, GetTrainer, GetFails, FindProxy, MarkProxy,
        FindAccount, GiveProxyBack, BuildTrainer, ScanEnds, ScanAgain,
        ProxyDies, AccountRefused, FindReplacement, MarkReplacement,
        UseReplacement, ForgetBusy, Forget, Finish, dbvars
<1> QED
  BY <1>1, HubAccounts DEF Next
-----------------------------------------------------------------------------
(* The sessions that StatusExact is about. *)
Entered == {"saveAccount", "findReplacement", "markReplacement", "useReplacement"}
Reported(t) == health[t] = {} \/ UserIn(t, Entered)

(* StatusExact, where a session may have been left without a proxy. *)
StatusNear ==
  \A t \in Live : Reported(t) =>
    /\ status[acct[t]] # NoProxy
    /\ proxy[t] \in {NoProxy, status[acct[t]]}

LEMMA NearIsExact == Equipped => (StatusNear <=> StatusExact)
BY NoneDistinct DEF Equipped, StatusNear, StatusExact, Reported, Entered

(* An entry is written by the request of the session it is about only. *)
LEMMA OthersReported ==
  ASSUME RInv, Named, AccountsApart, NEW h \in Caller, Receive(h) \/ HandlerStep(h),
         NEW t \in Live, t # held[h], Reported(t)'
  PROVE  Reported(t) /\ status'[acct[t]] = status[acct[t]]
<1>0. /\ QInv /\ pc \in [Caller -> Pc] /\ t \in Trainer
      /\ status \in [Account -> ProxyId \cup {NoProxy}]
      /\ acct[t] \in Account
  BY LiveSessions DEF RInv, STypeOK, Named
<1>1. health'[t] = health[t]
  BY OtherSessions
<1>2. Reported(t)
  BY <1>1, SameUser DEF Reported, Entered
<1>3. Keeps(t, acct[t])
  <2>1. ASSUME Returned(t) PROVE FALSE
    <3>1. PICK f \in Caller : held[f] = t /\ pc[f] = "done" /\ health[t] = {"dead"}
      BY <2>1 DEF Returned, UserIn
    <3>2. PICK g \in Caller : held[g] = t /\ pc[g] \in Entered
      BY <1>2, <3>1 DEF Reported, UserIn
    <3>3. f = g
      BY <1>0, <3>1, <3>2, NoTrainerDistinct DEF QInv, OneUser
    <3> QED
      BY <3>1, <3>2, <3>3 DEF Entered
  <2> QED
    BY <2>1 DEF Keeps
<1>4. CASE BuildTrainer(h)
  <2>1. foundAcct[h] # acct[t]
    <3>1. Gets(h, foundAcct[h])
      BY <1>4 DEF BuildTrainer, Goto, Gets
    <3> QED
      BY <1>0, <1>3, <3>1 DEF AccountsApart, OneKeeper
  <2> QED
    BY <1>0, <1>2, <1>4, <2>1 DEF BuildTrainer
<1>5. CASE UseReplacement(h) \/ ForgetBusy(h) \/ Forget(h)
  <2>1. held[h] # NoTrainer /\ pc[h] # "done"
    BY <1>5 DEF UseReplacement, ForgetBusy, Forget, Goto, RInv, Places,
                Place, HasTrainer, Unsettled
  <2>2. held[h] \in Trainer /\ Keeps(held[h], MyAcct(h))
    BY <2>1, OwnReturned DEF Keeps, MyAcct
  <2>3. MyAcct(h) # acct[t]
    BY <1>0, <1>3, <2>2 DEF AccountsApart, OneKeeper
  <2> QED
    BY <1>0, <1>2, <1>5, <2>3 DEF UseReplacement, ForgetBusy, Forget
<1>6. CASE UNCHANGED status
  BY <1>2, <1>6
<1> QED
  BY <1>4, <1>5, <1>6
  DEF HandlerStep, Receive, GetTrainer, GetFails, FindProxy, MarkProxy,
      FindAccount, GiveProxyBack, MarkAccount, ScanEnds, ScanAgain, ProxyDies,
      AccountRefused, FindReplacement, MarkReplacement, ReturnAccount,
      UpdateAccount, Finish

(* The request keeps the entry of its own session right, or deletes it. *)
LEMMA OwnReported ==
  ASSUME RInv, Named, StatusNear, NEW h \in Caller, HandlerStep(h),
         NEW t \in Live, t = held[h], t \in Live', Reported(t)'
  PROVE  /\ status'[acct'[t]] # NoProxy
         /\ proxy'[t] \in {NoProxy, status'[acct'[t]]}
<1> USE NoTrainerDistinct
<1>0. /\ QInv /\ pc \in [Caller -> Pc] /\ t \in Trainer /\ Place(h)
      /\ status \in [Account -> ProxyId \cup {NoProxy}]
      /\ proxy \in [Trainer -> ProxyId \cup {NoProxy}]
      /\ health \in [Trainer -> SUBSET Flag]
      /\ acct[t] \in Account
      /\ pc[h] \in HasTrainer
  BY LiveSessions DEF RInv, STypeOK, Named, Places, Place, QInv, QTypeOK
<1>1. ASSUME UNCHANGED <<status, acct, proxy>>,
             health[t] = {} \/ pc[h] \in Entered
      PROVE  /\ status'[acct'[t]] # NoProxy
             /\ proxy'[t] \in {NoProxy, status'[acct'[t]]}
  BY <1>0, <1>1 DEF StatusNear, Reported, UserIn
<1>2. CASE Finish(h)
  <2>1. health[t] = {}
    BY <1>0, <1>2, CallerLive DEF Finish
  <2> QED
    BY <1>1, <1>2, <2>1 DEF Finish, Reusable
<1>3. CASE UseReplacement(h)
  <2>1. foundProxy[h] \in ProxyId
    BY <1>0, <1>3 DEF UseReplacement, Goto, Place, HasProxy
  <2> QED
    BY <1>0, <1>3, <2>1, NoneDistinct DEF UseReplacement, MyAcct
<1>4. CASE \/ ScanEnds(h) \/ ScanAgain(h) \/ ProxyDies(h) \/ AccountRefused(h)
  BY <1>0, <1>1, <1>4
  DEF ScanEnds, ScanAgain, ProxyDies, AccountRefused, Goto, Place, Scanning
<1>5. CASE FindReplacement(h) \/ MarkReplacement(h) \/ UpdateAccount(h)
  BY <1>0, <1>1, <1>5
  DEF FindReplacement, MarkReplacement, UpdateAccount, Goto, Entered
<1>6. CASE ForgetBusy(h) \/ Forget(h) \/ ReturnAccount(h)
  <2>1. /\ UNCHANGED <<held, health>> /\ pc'[h] \in {"returnAccount", "done"}
        /\ health[t] # {}
    BY <1>0, <1>6
    DEF ForgetBusy, Forget, ReturnAccount, Goto, Place, ProxyLost, Unsettled, qvars
  <2>2. PICK g \in Caller : held[g] = t /\ pc'[g] \in Entered
    BY <2>1 DEF Reported, UserIn
  <2>3. g = h
    BY <1>0, <2>2 DEF QInv, OneUser
  <2> QED
    BY <2>1, <2>2, <2>3 DEF Entered
<1>7. CASE \/ GetTrainer(h) \/ GetFails(h) \/ FindProxy(h) \/ MarkProxy(h)
           \/ FindAccount(h) \/ GiveProxyBack(h) \/ MarkAccount(h)
           \/ BuildTrainer(h)
  BY <1>0, <1>7 DEF GetTrainer, GetFails, FindProxy, MarkProxy, FindAccount,
     GiveProxyBack, MarkAccount, BuildTrainer, Goto, HasTrainer, Scanning, Unsettled
<1> QED
  BY <1>2, <1>3, <1>4, <1>5, <1>6, <1>7 DEF HandlerStep

LEMMA StatusNearStep ==
  RInv /\ Named /\ AccountsApart /\ StatusNear /\ [Next]_vars => StatusNear'
<1> SUFFICES ASSUME RInv, Named, AccountsApart, StatusNear, [Next]_vars,
                    NEW t \in Live', Reported(t)'
             PROVE  /\ status'[acct'[t]] # NoProxy
                    /\ proxy'[t] \in {NoProxy, status'[acct'[t]]}
  BY DEF StatusNear
<1>0. QInv
  BY DEF RInv
<1>1. ASSUME NEW h \in Caller, Receive(h) \/ HandlerStep(h)
      PROVE  /\ status'[acct'[t]] # NoProxy
             /\ proxy'[t] \in {NoProxy, status'[acct'[t]]}
  <2>1. CASE t \in Live /\ t # held[h]
    <3>1. Reported(t) /\ status'[acct[t]] = status[acct[t]]
      BY <1>1, <2>1, OthersReported
    <3>2. acct'[t] = acct[t] /\ proxy'[t] = proxy[t]
      BY <1>1, <2>1, OtherSessions
    <3> QED
      BY <2>1, <3>1, <3>2 DEF StatusNear
  <2>2. CASE t \in Live /\ t = held[h]
    <3>1. HandlerStep(h)
      BY <1>0, <1>1, <2>2, LiveSessions, NoTrainerDistinct DEF Receive, Get
    <3> QED
      BY <2>2, <3>1, OwnReported
  <2>3. CASE t \notin Live
    <3>1. BuildTrainer(h)
      BY <1>0, <1>1, <2>3, NewSessions
    <3>2. PICK u \in Trainer : /\ NewTrainer(h, u)
                               /\ acct' = [acct EXCEPT ![u] = foundAcct[h]]
                               /\ proxy' = [proxy EXCEPT ![u] = foundProxy[h]]
      BY <3>1 DEF BuildTrainer
    <3>3. t = u
      BY <1>0, <2>3, <3>2, CallerLive
    <3>4. foundAcct[h] \in Account /\ foundProxy[h] \in ProxyId
      BY <3>1 DEF BuildTrainer, Goto, RInv, Places, Place, HasAccount, HasProxy
    <3> QED
      BY <3>1, <3>2, <3>3, <3>4, NoneDistinct DEF BuildTrainer, RInv, STypeOK
  <2> QED
    BY <2>1, <2>2, <2>3
<1>2. CASE \/ \E u \in Trainer : QueueStep(u)
           \/ \E p \in ProxyId : Connect(p) \/ Disconnect(p) \/ MarkDead(p)
           \/ UNCHANGED vars
  <2>1. Live' = Live /\ UNCHANGED <<held, health, pc, acct, proxy, status>>
    BY <1>0, <1>2, EnvironmentSessions
  <2> QED
    BY <2>1 DEF StatusNear, Reported, UserIn
<1> QED
  BY <1>1, <1>2 DEF Next
-----------------------------------------------------------------------------
LEMMA AInitInv == Init => AInv
<1> SUFFICES ASSUME Init PROVE AInv
  OBVIOUS
<1>1. Live = {}
  BY NoTrainerDistinct DEF Init, QInit, Live, Held, Range
<1>2. pc = [h \in Caller |-> "idle"]
  BY DEF Init
<1>3. AtomicGets
  BY <1>2 DEF AtomicGets
<1>4. ProxiesApart
  BY <1>1, <1>2 DEF ProxiesApart, OneOwner, OwnedTaken, SoughtFree, Has, HasProxy,
                    Seeking
<1>5. AccountsApart
  BY <1>1, <1>2 DEF AccountsApart, OneKeeper, KeptUsed, SoughtUnused, Keeps, Gets
<1>6. StatusExact
  BY <1>1 DEF StatusExact
<1> QED
  BY <1>3, <1>4, <1>5, <1>6, SInitInv DEF AInv

LEMMA ANextInv == AInv /\ [Next /\ AtomicGets']_vars => AInv'
<1> SUFFICES ASSUME AInv, [Next /\ AtomicGets']_vars PROVE AInv'
  OBVIOUS
<1>1. [Next]_vars
  OBVIOUS
<1>2. AtomicGets'
  BY DEF AInv, AtomicGets, vars, svars
<1>3. SInv' /\ RInv /\ Named /\ Equipped /\ Equipped'
  BY <1>1, SNextInv DEF AInv, SInv, Equipped
<1>4. ProxiesApart' /\ AccountsApart'
  BY <1>1, <1>3, ProxiesStep, AccountsStep DEF AInv
<1>5. StatusExact'
  <2>1. StatusNear'
    BY <1>1, <1>3, StatusNearStep, NearIsExact DEF AInv
  <2> QED
    BY <1>3, <2>1, NoneDistinct DEF Equipped, StatusNear, StatusExact, Reported, Entered
<1> QED
  BY <1>2, <1>3, <1>4, <1>5 DEF AInv

LEMMA AInvariance == AtomicSpec => []AInv
BY AInitInv, ANextInv, PTL DEF AtomicSpec

(* With an atomic GetProxy no two sessions ever have the same proxy, not     *)
(* even a dead one, whatever the hub writes about it.                        *)
THEOREM ProxyExclusiveAtomic == AtomicSpec => []ProxyExclusive
<1>1. AInv => ProxyExclusive
  BY DEF AInv, ProxiesApart, OneOwner, ProxyExclusive
<1> QED
  BY <1>1, AInvariance, PTL

(* With an atomic GetAccount no two sessions have the same account, unless   *)
(* one of them is about to be dropped and its request gave the account back. *)
THEOREM AccountExclusiveAtomic == AtomicSpec => []AccountExclusive
<1>1. AInv => AccountExclusive
  <2> SUFFICES ASSUME AInv, NEW t \in Live, NEW u \in Live, acct[t] = acct[u],
                      ~Returned(t), ~Returned(u)
               PROVE  t = u
    BY DEF AccountExclusive
  <2>1. t \in Trainer /\ u \in Trainer /\ acct[t] \in Account
    BY LiveSessions DEF AInv, SInv, RInv, Equipped, Named
  <2>2. Keeps(t, acct[t]) /\ Keeps(u, acct[t])
    BY DEF Keeps
  <2> QED
    BY <2>1, <2>2 DEF AInv, AccountsApart, OneKeeper
<1> QED
  BY <1>1, AInvariance, PTL

(* scannerStatus then reports of every working session the proxy that it     *)
(* uses, although requests write its entries one at a time and unordered.    *)
THEOREM StatusExactAtomic == AtomicSpec => []StatusExact
<1>1. AInv => StatusExact
  BY DEF AInv
<1> QED
  BY <1>1, AInvariance, PTL

(* No request scans with an account that another one, which may have had its *)
(* own session for it, has reported, nor with a session that is unusable.    *)
THEOREM ScansUsableAtomic == AtomicSpec => []ScansUsable
<1>1. AInv => ScansUsable
  <2> SUFFICES ASSUME AInv, NEW h \in Caller, pc[h] \in Scanning
               PROVE  /\ held[h] # NoTrainer
                      /\ MyFlags(h) = {} /\ ~Flagged(accounts[MyAcct(h)])
    BY DEF ScansUsable
  <2>1. held[h] # NoTrainer /\ health[held[h]] = {}
    BY DEF AInv, SInv, RInv, Places, Place, HasTrainer, MyFlags
  <2>2. held[h] \in Trainer /\ held[h] \in Live
    BY <2>1 DEF Live, Held, AInv, SInv, RInv, QInv, QTypeOK
  <2>3. acct[held[h]] \in Account
    BY <2>2 DEF AInv, SInv, RInv, Equipped, Named
  <2>4. Keeps(held[h], acct[held[h]]) /\ Unreported(held[h])
    BY <2>1, <2>2 DEF Keeps, Returned, Unreported
  <2>5. InUse(acct[held[h]])
    BY <2>2, <2>3, <2>4 DEF AInv, AccountsApart, KeptUsed
  <2> QED
    BY <2>1, <2>5 DEF InUse, MyFlags, MyAcct
<1> QED
  BY <1>1, AInvariance, PTL

(* And no request ever lifts a ban or a flag that another one reported.      *)
THEOREM BansStickAtomic == AtomicSpec => BansStick
<1>1. AInv /\ [Next /\ AtomicGets']_vars =>
        [\A a \in Account : Flagged(accounts[a]) => Flagged(accounts'[a])]_vars
  BY BansStep DEF AInv, SInv, Equipped
<1> QED
  BY <1>1, AInvariance, PTL DEF AtomicSpec, BansStick
=============================================================================
