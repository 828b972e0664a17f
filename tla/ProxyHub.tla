------------------------------ MODULE ProxyHub ------------------------------
(***************************************************************************)
(* proxyhub: proxies connect over a websocket, and HTTP requests name the  *)
(* proxy they want to go through.  A connection (a Client) has two         *)
(* goroutines: the writer is wsHandler, which registers the client and     *)
(* ends up in Client.Listen, and the reader is Client.readHandler; either  *)
(* runs handleDisconnect when it notices that the connection is gone.  One *)
(* more goroutine, Hub.Listen, owns the map of clients, but request        *)
(* handlers read the map directly.                                         *)
(*                                                                         *)
(* All channels are unbuffered: a send meets a receive in one step.  What  *)
(* the receiver does next is a step of its own, so Hub.Add and Hub.Remove  *)
(* return before the map has changed.  A message is the request it belongs *)
(* to.                                                                     *)
(***************************************************************************)
EXTENDS Proxies, Naturals, Sequences, FiniteSets

CONSTANTS
  Client,      \* Client objects, one for each websocket connection
  Request,     \* HTTP request goroutines
  NoClient     \* no client

ASSUME NoClientDistinct == NoClient \notin Client
ASSUME IdsArePositive == ProxyId \subseteq Nat \ {0}

VARIABLES
  doubles,     \* doubles[i]: living documents with id i beside proxies[i]
  maxID,       \* the package variable
  id,          \* id[c]: Client.ID, 0 before NewClient returns
  clients,     \* Hub.proxies: id |-> client, or NoClient
  op,          \* what Hub.Listen has received and not yet done
  conn,        \* conn[c]: the websocket
  at,          \* at[c][s]: where goroutine s of client c is
  inbox,       \* inbox[c]: requests on their way to the proxy, or at it
  outbox,      \* outbox[c]: answers on their way to the reader
  hand,        \* hand[c]: the answer the reader hands over, while it does
  pc,          \* pc[r]: where request r is
  target,      \* target[r]: the client that Search returned
  up           \* FALSE once the runtime has stopped the process

dbvars == <<proxies, doubles>>
hubvars == <<maxID, id, clients, op>>
wirevars == <<conn, inbox, outbox, hand>>
reqvars == <<pc, target>>
vars == <<dbvars, hubvars, wirevars, at, reqvars, up>>

Side == {"writer", "reader"}

(* handleDisconnect, from the call of Hub.Remove on. *)
Leaving == {"remove", "mark", "goodbye", "gone"}
At      == {"none", "name", "add", "insert", "listen", "read", "deliver"}
             \cup Leaving

NoOp == [do |-> "nothing"]
Op   == [do : {"add"}, client : Client] \cup [do : {"remove"}, id : ProxyId]

Init ==
  /\ proxies = [i \in ProxyId |-> NoRecord]       \* after DropProxies
  /\ doubles = [i \in ProxyId |-> 0]
  /\ maxID = 0
  /\ id = [c \in Client |-> 0]
  /\ clients = [i \in ProxyId |-> NoClient]
  /\ op = NoOp
  /\ conn = [c \in Client |-> "new"]
  /\ at = [c \in Client |-> [s \in Side |-> "none"]]
  /\ inbox = [c \in Client |-> <<>>]
  /\ outbox = [c \in Client |-> <<>>]
  /\ hand = [c \in Client |-> {}]
  /\ pc = [r \in Request |-> "idle"]
  /\ target = [r \in Request |-> NoClient]
  /\ up = TRUE
-----------------------------------------------------------------------------
Go(c, s, from, to) ==
  /\ up
  /\ at[c][s] = from
  /\ at' = [at EXCEPT ![c][s] = to]

(* NewClient: atomic.AddInt64, and then a read of maxID. *)
CountId == Cardinality({i \in ProxyId : clients[i] # NoClient}) + 1 \* mutant
NextId  == maxID + 1

AheadId == maxID + 1                                   \* mutant: off by one
LastId  == maxID

(* The bound on ids is that of the model. *)
Connect(c) ==
  /\ Go(c, "writer", "none", "name")
  /\ NextId \in ProxyId
  /\ maxID' = NextId
  /\ conn' = [conn EXCEPT ![c] = "open"]
  /\ UNCHANGED <<dbvars, id, clients, op, inbox, outbox, hand, reqvars, up>>

Name(c) ==
  /\ Go(c, "writer", "name", "add")
  /\ id' = [id EXCEPT ![c] = LastId]
  /\ UNCHANGED <<dbvars, maxID, clients, op, wirevars, reqvars, up>>

(* Hub.Add meets Hub.Listen. *)
Add(c) ==
  /\ Go(c, "writer", "add", "insert")
  /\ op = NoOp
  /\ op' = [do |-> "add", client |-> c]
  /\ UNCHANGED <<dbvars, maxID, id, clients, wirevars, reqvars, up>>

(* database.AddProxy, whose error nobody looks at; Client.Listen starts the  *)
(* reader.  Main has dropped the unique index, so a second document for an   *)
(* id is refused only if another process has connected since.                *)
Insert(c) ==
  /\ up
  /\ at[c]["writer"] = "insert"
  /\ at' = [at EXCEPT ![c] = [s \in Side |-> IF s = "writer" THEN "listen"
                                                          ELSE "read"]]
  /\ AddProxy(id[c])
  /\ \/ UNCHANGED doubles
     \/ /\ proxies[id[c]] # NoRecord
        /\ doubles' = [doubles EXCEPT ![id[c]] = @ + 1]
  /\ UNCHANGED <<hubvars, wirevars, reqvars, up>>

(* Hub.Listen changes the map. *)
ByCounter(c) == [clients EXCEPT ![maxID] = c]          \* mutant: wrong key
With(c)      == [clients EXCEPT ![id[c]] = c]

StillThere(i) == clients                               \* mutant: no delete
Without(i)    == [clients EXCEPT ![i] = NoClient]

HubWrites ==
  /\ up
  /\ \/ op.do = "add" /\ clients' = With(op.client)
     \/ op.do = "remove" /\ clients' = Without(op.id)
  /\ op' = NoOp
  /\ UNCHANGED <<dbvars, maxID, id, wirevars, at, reqvars, up>>
-----------------------------------------------------------------------------
(* requestHandler: the id of a header is looked up; an unknown one gets an   *)
(* error at once.                                                            *)
Search(r) ==
  /\ up
  /\ pc[r] = "idle"
  /\ \E i \in ProxyId :
       /\ clients[i] # NoClient
       /\ target' = [target EXCEPT ![r] = clients[i]]
  /\ pc' = [pc EXCEPT ![r] = "send"]
  /\ UNCHANGED <<dbvars, hubvars, wirevars, at, up>>

(* Search reads the map while Hub.Listen writes it, which the Go runtime may *)
(* notice: "fatal error: concurrent map read and map write".                 *)
MapRace(r) ==
  /\ up
  /\ pc[r] = "idle" /\ op # NoOp
  /\ up' = FALSE
  /\ UNCHANGED <<dbvars, hubvars, wirevars, at, reqvars>>

(* Client.Send meets the writer, which writes to the socket.  Where that     *)
(* fails the writer goes on, and nobody tells the request.                   *)
Twice(c, r)   == inbox[c] \o <<r, r>>                  \* mutant: a retry
Written(c, r) == Append(inbox[c], r)

Send(r) ==
  LET c == target[r] IN
  /\ up
  /\ pc[r] = "send" /\ at[c]["writer"] = "listen"
  /\ pc' = [pc EXCEPT ![r] = "wait"]
  /\ inbox' = IF conn[c] = "open" THEN [inbox EXCEPT ![c] = Written(c, r)]
                                  ELSE inbox
  /\ UNCHANGED <<dbvars, hubvars, conn, outbox, hand, at, target, up>>

(* A meeting on Client.Response: r has its answer and is done. *)
Answered(r) ==
  /\ pc[r] = "wait"
  /\ pc' = [pc EXCEPT ![r] = "idle"]
  /\ target' = [target EXCEPT ![r] = NoClient]

(* The reader receives an answer, and then blocks until a request takes it. *)
Read(c) ==
  /\ Go(c, "reader", "read", "deliver")
  /\ outbox[c] # <<>>
  /\ hand' = [hand EXCEPT ![c] = {Head(outbox[c])}]
  /\ outbox' = [outbox EXCEPT ![c] = Tail(@)]
  /\ UNCHANGED <<dbvars, hubvars, conn, inbox, reqvars, up>>

Deliver(c, r) ==
  /\ Go(c, "reader", "deliver", "read")
  /\ target[r] = c /\ Answered(r)
  /\ hand' = [hand EXCEPT ![c] = {}]
  /\ UNCHANGED <<dbvars, hubvars, conn, inbox, outbox, up>>

(* ReadMessage, or the next ping, fails: handleDisconnect. *)
Notice(c, s) ==
  /\ Go(c, s, IF s = "reader" THEN "read" ELSE "listen", "remove")
  /\ conn[c] = "closed"
  /\ UNCHANGED <<dbvars, hubvars, wirevars, reqvars, up>>

SkipMark(c, s) ==                                      \* mutant: early exit
  /\ Go(c, s, "remove", "goodbye")
  /\ op = NoOp
  /\ op' = [do |-> "remove", id |-> id[c]]
  /\ UNCHANGED <<dbvars, maxID, id, clients, wirevars, reqvars, up>>

(* Hub.Remove meets Hub.Listen. *)
Remove(c, s) ==
  /\ Go(c, s, "remove", "mark")
  /\ op = NoOp
  /\ op' = [do |-> "remove", id |-> id[c]]
  /\ UNCHANGED <<dbvars, maxID, id, clients, wirevars, reqvars, up>>

MarkFree(c, s) ==                                      \* mutant: no Dead
  /\ Go(c, s, "mark", "goodbye")
  /\ ReturnProxy(id[c])
  /\ UNCHANGED <<doubles, hubvars, wirevars, reqvars, up>>

MarkDead(c, s) ==
  /\ Go(c, s, "mark", "goodbye")
  /\ UpdateProxy(id[c])
  /\ UNCHANGED <<doubles, hubvars, wirevars, reqvars, up>>

NoGoodbye(c, s, r) ==                                  \* mutant: no message
  /\ Go(c, s, "goodbye", "gone")
  /\ UNCHANGED <<dbvars, hubvars, wirevars, reqvars, up>>

(* "The client has disconnected", for one request that waits. *)
Goodbye(c, s, r) ==
  /\ Go(c, s, "goodbye", "gone")
  /\ target[r] = c /\ Answered(r)
  /\ UNCHANGED <<dbvars, hubvars, wirevars, up>>
-----------------------------------------------------------------------------
(* proxyclient.py: one thread, one request after the other. *)
ProxyAnswers(c) ==
  /\ conn[c] = "open" /\ inbox[c] # <<>>
  /\ outbox' = [outbox EXCEPT ![c] = Append(@, Head(inbox[c]))]
  /\ inbox' = [inbox EXCEPT ![c] = Tail(@)]
  /\ UNCHANGED <<dbvars, hubvars, conn, hand, at, reqvars, up>>

(* The connection breaks; answers already sent may still arrive. *)
Break(c) ==
  /\ conn[c] = "open"
  /\ conn' = [conn EXCEPT ![c] = "closed"]
  /\ inbox' = [inbox EXCEPT ![c] = <<>>]
  /\ outbox' \in {outbox, [outbox EXCEPT ![c] = <<>>]}
  /\ UNCHANGED <<dbvars, hubvars, hand, at, reqvars, up>>

(* Another process connects to the database: ensureIndex, with DropDups. *)
EnsureIndex ==
  /\ doubles' = [i \in ProxyId |-> 0]
  /\ UNCHANGED <<proxies, hubvars, wirevars, at, reqvars, up>>

ClientStep(c) ==
  \/ Name(c) \/ Add(c) \/ Insert(c) \/ Read(c)
  \/ \E s \in Side : Notice(c, s) \/ Remove(c, s) \/ MarkDead(c, s)

Meeting(r) ==
  \E c \in Client :
    \/ Deliver(c, r)
    \/ \E s \in Side : Goodbye(c, s, r)

Next ==
  \/ \E c \in Client :
       Connect(c) \/ ClientStep(c) \/ ProxyAnswers(c) \/ Break(c)
  \/ \E r \in Request : Search(r) \/ MapRace(r) \/ Send(r) \/ Meeting(r)
  \/ HubWrites \/ EnsureIndex

Spec == Init /\ [][Next]_vars

(* Goroutines run.  A client calls the hub three times at most, so nobody    *)
(* waits for it for ever; the receivers of a channel are served first come,  *)
(* first served.  A proxy answers, or its connection breaks.                 *)
Fairness ==
  /\ \A c \in Client : /\ WF_vars(Name(c)) /\ WF_vars(Add(c)) /\ WF_vars(Insert(c))
                       /\ WF_vars(Read(c)) /\ WF_vars(ProxyAnswers(c))
                       /\ \A s \in Side : /\ WF_vars(Notice(c, s))
                                          /\ WF_vars(Remove(c, s))
                                          /\ WF_vars(MarkDead(c, s))
  /\ \A r \in Request : WF_vars(Send(r)) /\ SF_vars(Meeting(r))
  /\ WF_vars(HubWrites)
-----------------------------------------------------------------------------
HTypeOK ==
  /\ ProxiesTypeOK /\ doubles \in [ProxyId -> Nat]
  /\ maxID \in ProxyId \cup {0}
  /\ id \in [Client -> ProxyId \cup {0}]
  /\ clients \in [ProxyId -> Client \cup {NoClient}]
  /\ op \in Op \cup {NoOp}
  /\ conn \in [Client -> {"new", "open", "closed"}]
  /\ at \in [Client -> [Side -> At]]
  /\ inbox \in [Client -> Seq(Request)]
  /\ outbox \in [Client -> Seq(Request)]
  /\ hand \in [Client -> SUBSET Request]
  /\ pc \in [Request -> {"idle", "send", "wait"}]
  /\ target \in [Request -> Client \cup {NoClient}]
  /\ up \in BOOLEAN

RecordedDead(i) == i \in ProxyId /\ proxies[i] = [use |-> FALSE, dead |-> TRUE]

Waiting(c)  == {r \in Request : target[r] = c /\ pc[r] = "wait"}
Using(c)    == {r \in Request : target[r] = c}
Left(c)     == \E s \in Side : at[c][s] \in Leaving \ {"remove"}
Coming(c)   == Len(inbox[c]) + Len(outbox[c]) + Cardinality(hand[c])
Listening(c) == at[c]["writer"] = "listen" /\ at[c]["reader"] \in {"read", "deliver"}

(* The traffic the hub is built for: proxies connect one after the other, so *)
(* NewClient never runs twice at once, and one request at a time goes        *)
(* through a proxy: no two sessions have it, and no request that the scanner *)
(* gave up after its timeout is still in the hub.                            *)
OneNaming ==
  \A c, d \in Client :
    at[c]["writer"] = "name" /\ at[d]["writer"] = "name" => c = d

OneEach == \A c \in Client : \A q, r \in Using(c) : q = r

CalmTraffic == OneNaming /\ OneEach
CalmSpec    == Init /\ [][Next /\ CalmTraffic']_vars

(* How far a client is, as the scanner sees it: from its record on.          *)
Markers(c) == {s \in Side : at[c][s] \in {"goodbye", "gone"}}
Stage(c) ==
  IF at[c]["reader"] = "none" THEN "new"
  ELSE IF ~Left(c) THEN "connected"
  ELSE IF Markers(c) = {} THEN "removed"
  ELSE IF Markers(c) = Side THEN "buried" ELSE "marked"

LinkOf(i) ==
  IF \E c \in Client : id[c] = i THEN Stage(CHOOSE c \in Client : id[c] = i) ELSE "new"

Links == INSTANCE HubLinks WITH link <- [i \in ProxyId |-> LinkOf(i)]
-----------------------------------------------------------------------------
(* A client that has left is not found again: its entry is gone, or the hub  *)
(* is about to delete it.  Registration and removal come from goroutines     *)
(* that do not wait for each other or for the map.                           *)
LeftIsForgotten ==
  \A c \in Client, i \in ProxyId :
    clients[i] = c /\ Left(c) => op = [do |-> "remove", id |-> i]

(* What the database says of a client: it is known before anybody notices    *)
(* that the connection breaks, and once a goroutine has marked it dead its   *)
(* record stays dead.  A living document is left over for a lost proxy in    *)
(* one way only, which the missing unique index does not stop: another       *)
(* client got the same id.                                                   *)
RecordFollowsClient ==
  \A c \in Client :
    /\ at[c]["reader"] # "none" => proxies[id[c]] # NoRecord
    /\ \A s \in Side :
         at[c][s] \in {"goodbye", "gone"} =>
           /\ RecordedDead(id[c])
           /\ doubles[id[c]] # 0 => \E d \in Client \ {c} : id[d] = id[c]

(* The hub needs no unique index on the Proxy collection as long as proxies  *)
(* connect one after the other: no proxy ever has two documents, of which    *)
(* one would stay alive when the proxy is lost.                              *)
NoDoubles == \A i \in ProxyId : doubles[i] = 0

(* Until a disconnect sends a request away with a goodbye, every answer on   *)
(* its way back has a request of its own that waits for it, and as long as   *)
(* the connection is up no request waits without an answer on its way.       *)
(* After a goodbye an answer may be left over, with its reader blocked.      *)
AnswerForEach ==
  \A c \in Client :
    /\ (\A s \in Side : at[c][s] # "gone") => Coming(c) <= Cardinality(Waiting(c))
    /\ conn[c] = "open" => Coming(c) = Cardinality(Waiting(c))

(* The unique index of the Proxy collection on id: no two clients share one. *)
UniqueIds ==
  \A c, d \in Client : id[c] = id[d] /\ id[c] # 0 => c = d

(* A proxy "that is connected to the hub" is reachable: once the hub is at   *)
(* rest, its map has every client that listens.                              *)
ListenersKnown ==
  op = NoOp => \A c \in Client : Listening(c) => clients[id[c]] = c

(* A request gets the answer to itself, or learns of the disconnect: an      *)
(* answer never reaches the next request through the same proxy.             *)
OwnAnswer ==
  [][\A c \in Client, r \in Request : Deliver(c, r) => hand[c] = {r}]_vars

(* What Scanner takes the hub for: an id is recorded once, goes down once,   *)
(* and is marked dead by two goroutines after that, in whatever order they   *)
(* notice; no record changes in another way.                                 *)
ImplementsLinks == Links!LinksSpec

(* A request whose proxy took it comes to an end, whether the proxy answers  *)
(* or its connection breaks, before or after the request was written.        *)
WaitersServed ==
  \A r \in Request : (pc[r] = "wait") ~> (pc[r] # "wait" \/ ~up)

(* A proxy that disconnects ends up dead in the database, also when one of   *)
(* its goroutines is stuck with an answer or a goodbye.                      *)
LostProxyMarked ==
  \A c \in Client : (conn[c] = "closed") ~> (RecordedDead(id[c]) \/ ~up)
=============================================================================
