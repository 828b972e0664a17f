# Verification of opm

opm scans a map through game accounts, each of which reaches the game's servers
through a proxy that somebody lends. This directory holds TLA+ models of the
parts of opm where goroutines, processes and a shared database meet, the TLC
configurations that check them, and theorems about them that TLAPS checks.
`PROJECT.json` ties every definition to the lines it models (`map`), every
property to a mutant of the model that breaks it (`mutants`), and every hazard
to the properties that watch it (`hazards`).

## 1. The system

| component | state | operations | depends on |
|---|---|---|---|
| trainer queue, `util/queue.go` | `buffer`, two unbuffered channels, one goroutine, one sleeping goroutine per returned session | `NewTrainerQueue`, `Get(timeout)`, `Queue(x, delay)` | |
| trainer session, `util/trainer.go` | account, proxy, login | `NewTrainerSession`, `Login`, `SetProxy`, `GetPlayerMap` | game servers, proxy hub |
| scanner requests, `scanner/scanner.go` | `scannerStatus`; the local state of each request | `requestHandler`, `statusHandler` | queue, database, tickers |
| scanner start-up, `scanner/main.go` | the list of sessions, tickers | loader loop, login goroutine | queue, database |
| database, `db/db.go` | collections Accounts, Proxy, Objects, Keys | one to two MongoDB calls per method | MongoDB |
| proxy hub, `proxyhub/` | `maxID`, the map of clients, two goroutines per client | `wsHandler`, `requestHandler`, `Hub.Listen`, `handleDisconnect` | database |
| proxy client, `tools/proxyclient` | one websocket | one request after the other | hub |
| ban checker, `bancheck/` | none | `checkAccount` in a loop | database, hub |
| admin tool, `main.go` | none | clean-up, key management, statistics | database, scanner status |
| map object store, `db/db.go` | collection Objects | `AddMapObject`, `GetMapObjects`, `RemoveOldPokemon` | MongoDB |
| API server, `apiserver/` | `keyMetrics`, `blacklist` | `submitHandler`, `cacheHandler` | database, scanner |
| API keys, `db/db.go`, `main.go` | collection Keys | `AddAPIKey`, `GetAPIKey`, `UpdateAPIKey` behind the admin tool's commands | MongoDB |
| ring buffers, `scanner/util.go`, `apiserver/util.go` | a window of counters | `Add`, which nothing calls | |
| statistics, geometry, settings | | read-only | |

How they interact. Scanners, the hub, the ban checker and the admin tool are
separate processes; the database is all they share. MongoDB applies one call to
one document atomically, and nothing ties two calls together, which matters for
every find-then-update in `db.go`. A scanner reaches a proxy by an HTTP request
to the hub that names the proxy's id. Inside a process, goroutines meet on
unbuffered channels, and share maps and structs with no lock at all.

What is hard:

* **Two-step database calls.** `GetAccount` and `GetProxy` find and then write
  the copy they found; `ReturnAccount`, `UpdateAccount`, `ReturnProxy` and
  `UpdateProxy` replace whole documents. Any other process can write in between.
* **Ownership of sessions.** A session goes from request to queue to sleeping
  goroutine to buffer to request; a timer races each handover.
* **The many ways a request ends.** No proxy, no account, timeout, dead proxy,
  replaced proxy, banned, flagged, odd platform error: on each the account, the
  proxy, the entry in `scannerStatus` and the session must be settled.
* **Disconnects.** Two goroutines notice one, at any time, each removes the client,
  marks it dead and says goodbye on a channel that may have no receiver.
* **Messages without identity.** A request takes whatever answer comes next
  through its proxy.
* **Check, then act, on shared maps and clocks.** A submission is judged against a
  key, a map entry and the clock, each in a step of its own, and stored later.
* **Restarts.** A scanner forgets the sessions whose accounts and proxies the
  database calls used; a hub forgets its ids and drops the collection.

For each component, what makes it correct:

* queue: one owner per session, nothing unusable in it, nothing lost, every
  session comes round;
* scanner: no account lost, no account or proxy with two sessions,
  `scannerStatus` tells the truth, refused accounts are not used or forgotten,
  every request ends;
* database: a report (banned, dead) is not undone by an older copy;
* hub: ids unique, the map and the collection follow the connections, each
  request gets its own answer or learns of the disconnect;
* start-up, ban checker, admin tool: the same promises of the database as above
  with these processes running, and after a crash of the scanner or the hub;
* map object store: the first report of an encounter stands, forts stay and are
  up to date, what is shown has not expired;
* API server: what is submitted is soon gone, only keys that were enabled get
  credit, the counters of a key say what it did;
* API keys: a key can be used once it is generated, and disabled after.

## 2. Modules

| module | models |
|---|---|
| `TrainerPool` | abstract: every session has one owner, and changes hands through the pool |
| `TrainerQueue` | `util/queue.go`; implements `TrainerPool` |
| `Accounts`, `Proxies` | the collections and each call to them, as operators |
| `Scanner` | `requestHandler` by many goroutines, on the three modules above; the hub (`HubLinks`) as its environment |
| `HubLinks` | abstract: what the hub does to the collection, id by id; the hub that `Scanner` sees |
| `ProxyHub` | the hub, on `Proxies`; the proxies and the HTTP requests as its environment; implements `HubLinks` |
| `BanChecker` | the ban checker, on `Accounts` and `Proxies` |
| `Admin` | the admin tool's commands on these collections |
| `Fleet` | a `Scanner` that dies and is started again, its login goroutine, a hub that is restarted, `BanChecker` and `Admin` over one database |
| `MapObjects`, `ApiKeys` | the collections Objects and Keys: the calls of the former, the commands on the latter |
| `ApiServer` | `submitHandler` by many goroutines and `cacheHandler`, on these two; scans and the admin tool as their environment |
| `*_proofs` | the theorems |
| `MC*` | initial states, traffic and symmetry for TLC |

### How state and actions correspond to the code

**TrainerQueue.** `buffer` is the field of that name. A request blocked in the
`select` of `Get` is in `getting`, the session it got is `held[c]`. `Queue` starts
a goroutine: its session is in `sleeping` during `time.Sleep`, then in `sending`
while the goroutine blocks on `t.in <- x`. The goroutine `queue()` evaluates
`t.buffer[0]` when it enters its `select`, and only it changes the buffer, so one
iteration is one action: `Deliver` (a send on `out` meets a `Get`) or `Accept` (a
receive from `in`). `health[t]` stands for `Account.Banned`,
`Account.CaptchaFlagged` and `Proxy.Dead`, the three conditions `Queue` looks at.

**Accounts, Proxies.** One operator per MongoDB call. `GetAccount` is
`FreeAccounts` (the `Find`) and `MarkUsed` (the `Update`), two steps of whoever
calls it; likewise `GetProxy`. A find may come back with nothing although there is
something, as every error of MongoDB ends the find (`GetProxy` calls each of them
`ErrNoProxiesAvailable`); that a write fails is not in the model. `UpdateProxy` upserts.
`AddProxy` inserts, and leaves the document that a call by id finds as it is where there is
one: a
second document is one of `doubles` in `ProxyHub`.

**Scanner.** `pc[h]` is where request `h` is, and each action is one call, or one
write to `scannerStatus`, with the local code around it. `Receive` to `GetFails`
are lines 40-80, `FindProxy` to `BuildTrainer` the building of a session (81-94),
`ScanEnds`, `ScanAgain`, `ProxyDies` and `AccountRefused` the outcomes of
`getMapResult`, `FindReplacement` to `ReturnAccount` the handling of a dead proxy
(108-125), `UpdateAccount` and `Forget` that of a refused account (127-140), and
`Finish` the deferred `Queue`. A session that is dropped is garbage; the model
uses its name again. Parsing, metrics and the map objects are left out.
The hub is `Connect`, `Disconnect` and two `MarkDead`, the steps of `HubLinks`.

**HubLinks.** `link[p]` says how far the proxy with id `p` is: `LinkUp` is the `AddProxy`
of `wsHandler`, `LinkDown` the first `Hub.Remove`, `LinkDead` the `UpdateProxy` of each
of the two goroutines in `handleDisconnect`. `LinksSpec` is the hub alone; in `Scanner` and
`Fleet` others write to the collection between these steps. In `ProxyHub`, `LinkOf(i)` is
the stage of the client with id `i`, read off from where its goroutines are, and
`ImplementsLinks` says that this is a behaviour of `LinksSpec`.

**ProxyHub.** Client `c` has two goroutines, `at[c]["writer"]` (`wsHandler`,
`NewClient`, `Add`, `AddProxy`, `Listen`) and `at[c]["reader"]` (`readHandler`).
`Connect` and `Name` are the two halves of `NewClient`: the atomic increment and
the plain read. `Add` and `Remove` meet `Hub.Listen`, which remembers the
operation in `op` and changes the map in `HubWrites`. A request is `Search`,
`Send` (meets the writer), and then waits for a meeting on `Response`: `Deliver`
with the reader, or `Goodbye` with a goroutine in `handleDisconnect`. `MapRace`
is the Go runtime stopping the process because `Search` reads the map while it is
written; `up` is then FALSE and nothing moves inside the hub. `inbox` and `outbox`
are the two directions of the socket with the proxy in between; a broken
connection loses what was on its way to the proxy, and may lose the answers.
`DropProxies` at the hub's start takes the unique index on `id` with the collection, so
`Insert` under an id that has a document is refused only if some process has connected
to the database since: it may add a document to `doubles`, living and never updated
(`UpdateProxy` changes one document). `EnsureIndex` is such a process; it makes the
index again and drops the duplicates (`DropDups`).

**BanChecker.** `round` holds the accounts of the inner loop that are still to
come, as the copies `GetBannedAccounts` loaded; `checker` is where `checkAccount`
is. `LiftBan` writes the copy back, `KeepBan` does not, `EndCheck` is the deferred
`ReturnProxy`.

**Admin.** `-ufs` is `ReadStatus` and then the four `UpdateAll` calls of `Cleanup`,
one step each (`job` is the next one); the other commands are one step. An
`UpdateAll` is applied to all documents at once in the model and to one after the
other by MongoDB.

**Fleet.** `life` is where the scanner's `main` is: down, in `NewTrainerFromDb`
(`LoadFindProxy` to `LoadAppend`, which fill the buffer and `scannerStatus`), or
serving, when `Scanner`'s requests run. `login` is where the login goroutine is,
with the sessions it has still to do: it blocks for ever if it reads `loginTicks`
before `main` has assigned it (`BlockOnNil`), and when a session's proxy is dead
it asks for another (`LoginFindProxy`, `LoginMarkProxy`), with the error check
the wrong way round. Whether a session is logged in is not in the model, so the
goroutine may find any session logged in. `Crash` forgets all sessions and
requests. `RestartHub` is a hub that dies and its `main` up to `DropProxies`: ids
count on from the largest one in the collection (`CountOn`); its connections are
lost with it, and proxies come back under new ids.

**MapObjects, ApiKeys.** An object is its type (pokemon, pokestop or gym), its expiry,
its source (the key that submitted it) and, for a gym, the team that holds it.
`AddMapObject` upserts forts and inserts pokemon; the unique index refuses the second
insert. The expiry of a lured pokemon is what the game says, which may be 0.
Of a key there is the flag `Enabled` and whether the document has the field
"key" that `GetAPIKey` and `UpdateAPIKey` select by. `KeyInit` has any
documents with that field, put there by hand; the program writes none.

**ApiServer.** `step[r]` is where submission `r` is: `Lookup` (`GetAPIKey` and the
flag), `CheckMetrics` and `FillMetrics` (the two halves of "make an entry if there is
none"), then `Malformed`, `Refuse` or `Approve` (the webhook format, the expiry against the
clock, the counters), `StoreObject`. `MapRace` is the Go runtime stopping the process as two
handlers meet in `keyMetrics`; the server is started again with an empty map.
`SaveScan` is `parseMapObjects` with the calls of `AddMapObject` in the scanner,
`ManageKeys`, `AddPokemon` and `RemovePokemon` are the admin tool, `Cache` is
`cacheHandler`. The counters are rate counters of one minute, from a library: `Incr`
starts a goroutine that takes the count back when the minute is over. `due` counts these
goroutines, which is what a counter should say, and `Fade` is one that wakes up: it takes
back from the counter it was counted in, be that in the present entry or in one that was
replaced. `raced` is history: the keys whose entry two submissions made.

## 3. Runs

Every property of a passing run comes with a mutant that TLC finds it violated by.

| run | question | bounds |
|---|---|---|
| `queue` | ownership, usability, conservation and liveness of the queue; it implements `TrainerPool` | 3 sessions, 2 of them loaded at the start; 2 requests, forever |
| `scanner` | `NoAccountLeak` and `StatusHasTrainer` with concurrent requests | 2 requests, 2 sessions, 2 accounts, 2 proxies |
| `scanner_atomic` | what holds of concurrent requests if `GetAccount` and `GetProxy` are atomic: exclusive accounts and proxies, exact status, no scan with a refused account, lasting bans, every request ends | 2 requests, 2 sessions, 2 accounts, 2 proxies |
| `hub` | a client that left is forgotten, the collection follows the clients, answers and waiting requests agree until a goodbye | 2 connections, 2 ids, 2 requests, any traffic |
| `hub_calm` | unique ids and documents, listening clients known, own answers, a waiting request ends, a lost proxy is marked, the hub implements `HubLinks`, under the traffic the hub is built for | the same |
| `fleet` | accounts stay exclusive, only a check lifts a ban, no check uses a working session's account, ids in use are handed out again only by a hub that finds no record, `-ufs` repairs the database, across crashes and restarts of scanner and hub | 1 request, 2 sessions, 2 accounts, ids 1 and 2, 1 session loaded at the start |
| `api` | what is submitted is soon gone and credited to keys once enabled, the counters of the last minute are exact but for a race, reports and forts stay, answers agree | 2 submissions at once, 1 key, 1 id that a pokemon and a fort may share, a window of 1, times 1 and 2, 1 submission of a kind in a minute |
| `scanner_account_doc`, `scanner_dead_doc`, `hub_ids_doc`, `fleet_used_doc`, `api_key_doc` | violations, see section 6 | |

Why the bounds are enough to meet the interesting cases. Two requests make every
race of two there is on one account, one proxy, one buffer; the third session of
`queue` makes the order of the buffer matter; two proxies make a replacement
possible after a death, and their exhaustion. Two connections with two ids let
two clients share an id, one of them disturbing the other's record and map entry,
or have ids of their own. For the properties that are proved
(section 5) the bounds do not matter. Named bounds: `Room` (in `Scanner`) keeps a
request from building a session when the model has no name left for it, and
`NextId \in ProxyId` (in `Connect` of `ProxyHub`) ends the supply of ids; the code
has neither. A proxy of `Scanner` connects once (its link ends as `buried`), as
every connection of the hub gets an id of its own.

In `api` one id suffices as no operation relates two objects; a window of 1 with the
clock at 1 or 2 has an expiry that is past, now, within the window and beyond
it, and lets one that was beyond it come within it while a submission waits.
`MaxTime` stops the clock and `MaxCount` the submissions: while the counters of a key stand
at it no new one begins, though two at once may go beyond it. One key is enough because
keys meet only in the credit for an object, which two submissions of one key contend for
as well; the theorems are about any number.

One session at the start of `fleet` (`MaxSessions`) leaves the other for a request
that builds one, which is how a wrong clean-up would show. Symmetry is used in
runs of invariants and action properties only. `scanner`, `scanner_atomic` and `fleet` start
from free accounts; the proofs about `Scanner` start from every state of the accounts in
which only flagged ones are marked as used (`Init`).

The runs about restricted traffic do not narrow the code, they narrow its
environment, because the unrestricted property is false: `AccountExclusive`
fails when a request finds an account between another's two calls (`scanner_account_doc`),
`UniqueIds` with two connections at once (`hub_ids_doc`), `ScansUsable` when two sessions
share an account, and
`OwnAnswer` when two requests go through one proxy. That happens when proxies are not
exclusive, and also after a timeout: the scanner gives up (`scanner.go:103`), its HTTP request
stays at the hub, and the session goes to the next request. `AtomicGets`
(in `Scanner`) says: no two requests are between the `Find` and the `Update` of `GetAccount`,
nor of `GetProxy`, at the same time; everything else of the requests is interleaved.
`CalmTraffic` (in `ProxyHub`) says: no two goroutines are between the two halves of
`NewClient`, and no two requests use one client at the same time, so it excludes the requests that
the scanner has given up too. `CarefulNext` (in
`Fleet`) says: `-ufs` runs while no request is in progress, the scanner does not
load or log in and the checker has no proxy, and the other commands run while the scanner is
down and no round of checks is on. It also says that nobody asks for a scan while the login
goroutine works, that the hub is restarted while no clean-up is on, and that a clean-up runs while
no id that the scanner reports is one the hub will hand out (`ReportedRetired`); `InOrder` says
that proxies get their records in the order of their ids, and `SomeoneFit` that
one account at least is neither banned nor flagged, as a scanner with none left has nothing to do.
`CarefulSpec` has `AtomicGets` too, and starts from accounts that are free and not refused
(`FreshInit`). A clean-up during a request frees the account
that the request has marked and not yet listed; the tool does not prevent that.
The queue goes on during a clean-up, and a proxy may disconnect between any
two of its updates. Each of these conditions excludes something that the model shows
to go wrong without it:

* a scan during the logins: a request finds the proxy of its session dead and returns
  the account; the login goroutine then gives the session an empty proxy, which
  clears the flag that the deferred `Queue` looks at, and the session is queued with an
  account that is free in the database;
* a clean-up with ids that are handed out again: a hub that is restarted twice with no
  proxy connected in between finds an empty collection and counts from 1, under ids that
  sessions still have. The restart itself is not excluded, `HeldIdsRetired` says that it is
  the only way; `-ufs` after it takes the new proxy for the session's.

`AnswersAgree` is checked for an admin who removes only what has expired
(`OnlyExpiredRemoved` in `ApiServer`); `-removepokemon` takes any threshold, and the
other properties of `api` are proved without this restriction.

The runs of the hub switch the deadlock check off because the hub really stops:
after `MapRace`, and when all its clients are gone and a goroutine waits in
`Goodbye` for a request that never comes. The other runs check for deadlock.

### Fairness

* Queue and scanner: timers fire, goroutines that can run do, and `getMapResult`
  ends: it waits for tickers that tick for ever and for calls with a deadline.
  `WF` on `Deliver` is not assumed: a `Get` ends because of its timer. `Accept` is
  weakly fair because `in` is received from in both branches of `queue()`, and
  Go's `select` picks at random among the branches that are ready.
* Hub: every goroutine runs (`WF`); a proxy answers or its connection breaks,
  `ProxyAnswers` is the `WF` of the former and nothing forces the latter. A
  connection that hangs is outside of this assumption: `pongWait` is declared and
  never set on the connection. A meeting on `Response` is strongly fair
  (`SF_vars(Meeting(r))`) because receivers of a Go channel are served in the
  order of their arrival. `Add` and `Remove` are weakly fair although they compete
  for `Hub.Listen`: each client calls it three times at most.
* `Connect`, `Break`, `Receive`, `Search` (the environment) have none.
* `Fleet` and `ApiServer` have no fairness and no liveness properties: a process may die
  at any time, and nothing restarts it.

## 4. What the runs show

The queue keeps its promises under all interleavings, including the timer that
fires as a session is handed over. The scanner never loses an account, even
though accounts can end up with two sessions; `scannerStatus` may then lack an entry and a
request scan with an account that another one has reported (`StatusExact` and
`ScansUsable` are properties of atomic gets), but `scannerStatus` never names an account
without a session. The hub never finds a client that has left and never resurrects its record;
a second
document of a lost proxy stays alive only where another client got the same id. The count of
answers on their way agrees with the requests that wait, even where two clients share an id,
until a disconnect has sent a request away with a goodbye: after that an answer may be left
over, with its reader blocked. Across processes, a report about an account survives
everything but the check that refutes it, and `-ufs`, run while the scanner rests,
makes the database agree with the scanner again, whatever a crash of the scanner
or the hub, a dropped session (`scanner.go:129` never returns its proxy), the login
goroutine or the ban checker left behind. One thing it cannot repair: a
session that the login goroutine gave an empty proxy keeps its old one in
`scannerStatus`, and `-ufs` keeps that one marked as used.

The map keeps what it promises about reports: the first report of an encounter
stands against scans, other keys and the time that passes between the check and the
insert; forts survive pokemon with their id and clean-ups, although their expiry of 0 is
before every threshold. In the answers of `/cache` a pokemon stays as it was until it expires,
a pokestop or gym for ever, unless a fort is stored under its id: that one is then in the
answer if its kind was asked for. The counters of a key are wrong only where two submissions
found no entry at once, and then too low.

## 5. Proofs

All theorems hold for any constants that satisfy the named assumptions:
`NoTrainerDistinct`, `CallerDistinct`, `NoRecordDistinct`, `NoneDistinct`,
`NoClientDistinct`, `NoKeyDistinct` (null values differ from the values), `IdsArePositive`
and `IdsAreNumbers` (the atomic counter starts at zero and grows),
`MaxSessionsPositive` (a scanner is started to have sessions), `MapConstants` and
`ApiConstants` (the window is a positive number, keys are sources, `Nobody` is not a key).
No theorem bounds the number of requests, sessions, accounts, ids or proxies.

* **`TrainerQueue_proofs`**. `QInv == QTypeOK /\ OneUser /\ OnlyUsableQueued /\
  EmptyHandedGet` is inductive. `EmptyHandedGet` is the strengthening: without
  it a delivery could overwrite a session that the request already has. From it
  follow `QTypeCorrect`, `OneUserAlways`, `OnlyUsableQueuedAlways`, `NothingLostAlways` and
  `QueueImplementsPool`, which shows each action to be a step or a stutter of
  `TrainerPool` under the mapping `Owner`.
* **`Scanner_proofs`**. `ScannerUsesQueue` shows that a scanner's behaviour is a
  behaviour of `QSpec` on the queue's variables, so that `QInv` comes for free
  (`ScannerOneUser`). On top of it `SInv` relates the program counter of a
  request to its session (who holds one, in which health) and the session to the
  account; `STypeCorrect`, `NoAccountLeakAlways` and `StatusHasTrainerAlways` follow.
* **`ProxyHub_proofs`**. `HInv == HTypeOK /\ Shapes /\ Entries /\ LeftIsForgotten
  /\ RecordsDead /\ Documents`. `Shapes` says which pairs of places the two goroutines
  of a client can be in and since when it has an id; `Entries` says that the map
  and the operation in the hub's hands name clients under their own id and after
  they were added; `RecordsDead` that the record is there and stays dead; `Documents`
  that a document goes back to a client with its id, and a second one to two of them.
  `HTypeCorrect`, `LeftIsForgottenAlways` and `RecordFollowsClientAlways` follow.

* **`HubAnswers_proofs`**. `AnswerForEachAlways`: the answers that are on their way
  through a client (in two queues and in the reader's hand) and the requests that wait
  are as many while it is connected, and no more until a goroutine has said goodbye. `CInv` adds
  to `HInv` what each client's `Line` needs for that: nothing
  is on its way before it connects, the reader has one answer in hand exactly while it
  delivers, a goroutine leaves only when the connection is closed, and the waiting requests
  are a finite set, for they came one by one. Each step is followed by what it does to the
  two numbers.
* **`ApiServer_proofs`**. `AInv` adds four facts to the types and the three
  invariants. `Submissions`: a submission past `Lookup` has a key that was enabled,
  one that is judged has an entry to count in, and what it is about to store was
  checked against a clock that has not gone back. `OneFills`: while a key has not
  raced, one submission at most is about to fill its entry, and the entry is still
  missing, so nothing counted is lost. `EnabledGranted`: enabled keys are in the history.
  `ClockRuns`: the clock is not at 0, so that what has not expired has another expiry than 0.
  `ATypeCorrect`, `SubmittedSoonGoneAlways`, `CreditedWereEnabledAlways` and
  `CountsExactAlways` follow, and the action properties `EncountersStandAlways` and
  `FortsStayAlways`, for any number of submissions, keys, ids and ticks.
  `AnswersAgreeAlways` compares two answers of `cacheHandler` given at different times, under
  `CarefulSpec`. Its invariant `ShownInv` remembers what was shown: an object of the
  last answer that is a fort or has not expired is still in the collection as it was, if it
  is a pokemon, or there is a fort with its id (`ShownStands`), and forts have the expiry 0
  by which every query finds them (`FortsAgeless`).
* **`AtomicGets_proofs`**, about `AtomicSpec`. `AInv == SInv /\ AtomicGets /\ ProxiesApart /\
  AccountsApart /\ StatusExact`. A proxy has an owner, a session or the request that
  marked it. `OneOwner` alone is not inductive: `OwnedTaken` says that the database does
  not offer what has an owner, and `SoughtFree` that what a request found and is
  about to mark has none yet, which is where `AtomicGets` is needed. `AccountsApart` is the
  same for accounts (`OneKeeper`, `KeptUsed`, `SoughtUnused`); it also says that the
  account of a session whose refusal has not been saved has no flag in the database, so
  that writing the session's copy overwrites no report. `ProxyExclusiveAtomic`,
  `AccountExclusiveAtomic`, `StatusExactAtomic`, `ScansUsableAtomic` and the action property
  `BansStickAtomic` follow.
  `StatusNear` is
  what remains of `StatusExact` where a session may have been left without a proxy; it is
  the form that `Fleet_proofs` uses.
* **`HubCalm_proofs`**, about `CalmSpec`. `CalmInv == CInv /\ CalmTraffic /\ Numbered /\ Known
  /\ Belongs`. `Numbered` strengthens `UniqueIds`: the counter is ahead of all ids, and one
  that is about to be read is nobody's. `Known`: who was registered and has
  not left is in the map or in the hub's hands, and the hub deletes only who
  has left. `Belongs`: all that is on its way through a client is for the request that
  waits. `UniqueIdsCalm`, `ListenersKnownCalm` and `OwnAnswerCalm` follow; `NoDoublesCalm`, as
  `Documents` leaves a second document only to a shared id; and the refinement
  `HubImplementsLinks`: `StageSteps` shows that a step of the two goroutines, the
  hub, a request or a proxy leaves every client in its stage or moves one client one stage
  on, together with the write to its record that `HubLinks` has; `LinkFacts`, that with
  unique ids the stage of an id is that of its one client.
* **`Fleet_proofs`**. Under `FSpec`, `FQInv == FTypeOK /\ QInv /\ Clean /\ Quiet`: the queue
  survives the loading, the logins and the crash (`FTypeCorrect`, `FleetOneUser`);
  `Quiet` says when there are requests and logins at all. Under `CarefulSpec`, `CarefulInv ==
  FQInv /\ IdsInv /\ ScanInv`. `IdsInv`: an id in the scanner's hands is one that the hub may hand
  out already, or an id in the database is as large, or the hub has just dropped all
  records and no proxy is connected. `ScanInv` has `SessionsInv` and `AccountsApart` for the
  sessions, as in the scanner alone; `Loader`, that what `main` is about to mark or to put in a
  session is free and then nobody else's; `Copies`, that each account copy the ban
  checker may still write is as banned and flagged as the account, and that a session which
  still has the account is known to the copy; and `JobInv`, that while `-ufs` runs its list
  is what the sessions have, none of it about to be handed out, and the updates done so far
  hold. Each process is one lemma per part (the scanner's requests take their lemmas from the
  modules above).
  `HeldIdsRetiredAlways`, `FleetAccountExclusive` and `CheckedNotScannedAlways` follow, and
  the action properties `RefusalsStickAlways` and `CleanupRepairsAlways`.

Every invariant and action property of the passing runs and the three refinements
(`QueueImplementsPool`, `ScannerUsesQueue`, `HubImplementsLinks`) are proved. Only
model-checked are the liveness properties `BackInBuffer`, `NoStarvation`,
`RequestsEnd`, `WaitersServed` and `LostProxyMarked`: they rest on fairness, and fairness
on ENABLED, which the proof system does not reason about. The runs of section 6 are
counterexamples and need no proof.

## 6. Findings

* `scanner_account_doc`: `GetAccount` (`db.go:349`) finds and marks in two calls;
  two requests get the same account.
* `scanner_dead_doc`: `GetProxy` (`db.go:438`) and `ReturnProxy` write `dead: false`
  over the hub's report of a disconnect.
* `fleet_used_doc`: `checkAccount` (`bancheck/main.go:96`) saves an account whose ban
  it lifts with `Used` still set; no scanner gets it until an admin cleans up.
* `hub_ids_doc`: `NewClient` (`client.go:39-40`) can give two proxies one id.
* `api_key_doc`: `GetAPIKey` and `UpdateAPIKey` (`db.go:459`, `464`) select by a field
  "key" that no document has: a generated key is unknown to `/submit`, and no command
  can disable it.

More things the models show and that no document contradicts: `Get` says it
blocks until a trainer is available and gives up after its timeout, which its
signature also says; and a request that called `Search` before a disconnect and
`Send` after it blocks for ever; the login goroutine and a request disturb each other
over a session's proxy (section 3); a hub that restarts on an empty collection hands out
ids that are in use; two clients that got the same id have two documents, as the hub has
dropped the index, and one of them stays alive when both are lost; a lured pokemon with
expiry 0 is shown for ever, and the clean-up removes it first.

## 7. Plan, and what is not modelled

Done: the modules of section 2 with their runs and theorems. Left:

1. Weaker conditions than `CarefulNext`: each of them excludes something that goes wrong
   (section 3), and more than that.
2. A fleet with `ProxyHub` in the place of `HubLinks`. `HubImplementsLinks` covers the hub
   alone; between two of its steps the scanner writes to the same collection.

Not modelled:

* the ring buffers of `scanner/util.go` and `apiserver/util.go`: nothing calls
  `Add`, so their goroutines move a window over zeroes; the rate counters are a
  library, of which `ApiServer` models what it does (`Count`, `Fade`);
* `stats`, `MapObjectStats`, `ProxyStats`, `AccountStats`: they read and change nothing;
* `blacklist` of the API server: only `addBlacklist` writes it, to which no route leads;
  `apiMetrics` is never assigned;
* in `Scanner` and `Fleet`, second documents for an id: ids are unique there (`HubLinks`), and
  under `CalmTraffic` none arises (`NoDoubles`); in `Fleet` that holds of an id handed out again
  too, as the restart that does so drops the collection;
* writes to MongoDB that fail, and what a process does when it cannot connect;
* `-addaccounts` with `AddAccount` (the accounts are fixed), and `AddPokemon`, `AddPokestop`,
  `AddGym` and `AddMapObjects` of `db.go`, which nothing calls;
* `util/geo.go` (floating-point formulas), `opm/settings.go` and `opm/errors.go`
  (configuration and constants), the text formats of `apiserver/formats.go` except
  for which objects they accept, and the game's protocol, which is a library.
