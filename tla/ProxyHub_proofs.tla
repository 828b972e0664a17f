--------------------------- MODULE ProxyHub_proofs ---------------------------
(***************************************************************************)
(* Proofs about the proxy hub, for any number of proxies, requests and     *)
(* ids, and whether or not two proxies got the same id.                    *)
(***************************************************************************)
EXTENDS ProxyHub, TLAPS

Starting == {"none", "name", "add", "insert"}

(* Where the goroutines of a client can be, and what it has by then. *)
Shape(c) ==
  /\ at[c]["writer"] \in Starting \cup {"listen"} \cup Leaving
  /\ at[c]["reader"] \in {"none", "read", "deliver"} \cup Leaving
  /\ at[c]["reader"] = "none" <=> at[c]["writer"] \in Starting
  /\ id[c] = 0 <=> at[c]["writer"] \in {"none", "name"}
  /\ at[c]["writer"] = "name" => maxID \in ProxyId

Shapes == \A c \in Client : Shape(c)

(* What the hub has in hand was asked for, and a client is registered under  *)
(* its own id, before it leaves.                                             *)
Entries ==
  /\ \A c \in Client : op = [do |-> "add", client |-> c] =>
       at[c]["writer"] \notin {"none", "name", "add"} /\ ~Left(c)
  /\ \A c \in Client, i \in ProxyId : clients[i] = c => id[c] = i

(* The record of a client is there before it listens, and dead for good once *)
(* one of its goroutines marked it.                                          *)
RecordsDead ==
  \A c \in Client :
    /\ at[c]["reader"] # "none" => proxies[id[c]] # NoRecord
    /\ \A s \in Side : at[c][s] \in {"goodbye", "gone"} => RecordedDead(id[c])

(* A document goes back to a client that inserted it, a second one under the *)
(* same id to a second client.                                               *)
Inserted(i) == \E d \in Client : id[d] = i /\ at[d]["reader"] # "none"
Shared(i)   == \E d, e \in Client : d # e /\ id[d] = i /\ id[e] = i

Documents ==
  \A i \in ProxyId : /\ proxies[i] # NoRecord => Inserted(i)
                     /\ doubles[i] # 0 => Shared(i)

HInv == /\ HTypeOK /\ Shapes /\ Entries /\ LeftIsForgotten
        /\ RecordsDead /\ Documents
-----------------------------------------------------------------------------
LEMMA HInitInv == Init => HInv
<1> SUFFICES ASSUME Init PROVE HInv
  OBVIOUS
<1> USE NoClientDistinct DEF Init
<1>1. HTypeOK
  BY DEF HTypeOK, ProxiesTypeOK, At, Side
<1>2. Shapes
  BY DEF Shapes, Shape, Starting, Side, Leaving
<1>3. Entries /\ LeftIsForgotten /\ RecordsDead /\ Documents
  BY DEF Entries, LeftIsForgotten, RecordsDead, Documents, NoOp, Side
<1> QED
  BY <1>1, <1>2, <1>3 DEF HInv

LEMMA GoFacts ==
  ASSUME HTypeOK, NEW c \in Client, NEW s \in Side, NEW from, NEW to \in At,
         Go(c, s, from, to)
  PROVE  /\ at' \in [Client -> [Side -> At]]
         /\ at[c][s] = from
         /\ \A d \in Client, u \in Side :
              at'[d][u] = IF d = c /\ u = s THEN to ELSE at[d][u]
BY DEF Go, HTypeOK

LEMMA InsertFacts ==
  ASSUME HTypeOK, NEW c \in Client, Insert(c)
  PROVE  /\ at' \in [Client -> [Side -> At]]
         /\ at[c]["writer"] = "insert"
         /\ \A d \in Client, u \in Side :
              at'[d][u] = IF d = c THEN IF u = "writer" THEN "listen" ELSE "read"
                                   ELSE at[d][u]
BY DEF Insert, HTypeOK, At

LEMMA HTypeStep == HInv /\ [Next]_vars => HTypeOK'
<1> SUFFICES ASSUME HInv, [Next]_vars PROVE HTypeOK'
  OBVIOUS
<1> USE NoClientDistinct
    DEF HInv, HTypeOK, dbvars, hubvars, wirevars, reqvars, ProxiesTypeOK
<1>0. "writer" \in Side /\ "reader" \in Side
  BY DEF Side
<1>1. ASSUME NEW c \in Client, Connect(c) PROVE HTypeOK'
  <2>1. at' \in [Client -> [Side -> At]]
    BY <1>0, <1>1, GoFacts DEF Connect, At
  <2> QED
    BY <1>1, <2>1 DEF Connect
<1>2. ASSUME NEW c \in Client, Name(c) PROVE HTypeOK'
  <2>1. at' \in [Client -> [Side -> At]]
    BY <1>0, <1>2, GoFacts DEF Name, At
  <2> QED
    BY <1>2, <2>1 DEF Name, LastId
<1>3. ASSUME NEW c \in Client, Add(c) PROVE HTypeOK'
  <2>1. at' \in [Client -> [Side -> At]]
    BY <1>0, <1>3, GoFacts DEF Add, At
  <2>2. op' \in Op
    BY <1>3 DEF Add, Op
  <2> QED
    BY <1>3, <2>1, <2>2 DEF Add
<1>4. ASSUME NEW c \in Client, Insert(c) PROVE HTypeOK'
  <2>1. at' \in [Client -> [Side -> At]]
    BY <1>4, InsertFacts
  <2>2. proxies' \in [ProxyId -> ProxyDoc \cup {NoRecord}]
    BY <1>4 DEF Insert, AddProxy, ProxyDoc
  <2>3. at[c]["writer"] = "insert"
    BY <1>4, InsertFacts
  <2>4. id[c] \in ProxyId
    BY <1>0, <2>3 DEF Shapes, Shape
  <2>5. doubles' \in [ProxyId -> Nat]
    <3>1. doubles \in [ProxyId -> Nat] /\ doubles[id[c]] + 1 \in Nat
      BY <2>4
    <3>2. [doubles EXCEPT ![id[c]] = @ + 1] \in [ProxyId -> Nat]
      BY <3>1
    <3> QED
      BY <1>4, <3>1, <3>2 DEF Insert
  <2> QED
    BY <1>4, <2>1, <2>2, <2>5 DEF Insert
<1>5. ASSUME NEW c \in Client, Read(c) PROVE HTypeOK'
  <2>1. at' \in [Client -> [Side -> At]]
    BY <1>0, <1>5, GoFacts DEF Read, At
  <2>2. Head(outbox[c]) \in Request /\ Tail(outbox[c]) \in Seq(Request)
    BY <1>5 DEF Read
  <2> QED
    BY <1>5, <2>1, <2>2 DEF Read
<1>6. ASSUME NEW c \in Client, NEW s \in Side, Notice(c, s) PROVE HTypeOK'
  <2>1. at' \in [Client -> [Side -> At]]
    BY <1>6, GoFacts DEF Notice, At, Leaving
  <2> QED
    BY <1>6, <2>1 DEF Notice
<1>7. ASSUME NEW c \in Client, NEW s \in Side, Remove(c, s) PROVE HTypeOK'
  <2>1. at' \in [Client -> [Side -> At]] /\ at[c][s] = "remove"
    BY <1>7, GoFacts DEF Remove, At, Leaving
  <2>2. id[c] \in ProxyId
    BY <1>0, <2>1 DEF Shapes, Shape, Starting, Side
  <2>3. op' \in Op
    BY <1>7, <2>2 DEF Remove, Op
  <2> QED
    BY <1>7, <2>1, <2>3 DEF Remove
<1>8. ASSUME NEW c \in Client, NEW s \in Side, MarkDead(c, s) PROVE HTypeOK'
  <2>1. at' \in [Client -> [Side -> At]]
    BY <1>8, GoFacts DEF MarkDead, At, Leaving
  <2>2. proxies' \in [ProxyId -> ProxyDoc \cup {NoRecord}]
    BY <1>8 DEF MarkDead, UpdateProxy, ProxyDoc
  <2> QED
    BY <1>8, <2>1, <2>2 DEF MarkDead
<1>9. ASSUME NEW c \in Client, ProxyAnswers(c) \/ Break(c) PROVE HTypeOK'
  <2>1. CASE ProxyAnswers(c)
    <3>1. Head(inbox[c]) \in Request /\ Tail(inbox[c]) \in Seq(Request)
      BY <2>1 DEF ProxyAnswers
    <3> QED
      BY <2>1, <3>1 DEF ProxyAnswers
  <2>2. CASE Break(c)
    <3>1. <<>> \in Seq(Request)
      OBVIOUS
    <3>2. /\ inbox' \in [Client -> Seq(Request)]
          /\ outbox' \in [Client -> Seq(Request)]
      <4>1. [inbox EXCEPT ![c] = <<>>] \in [Client -> Seq(Request)]
        BY <3>1
      <4>2. [outbox EXCEPT ![c] = <<>>] \in [Client -> Seq(Request)]
        BY <3>1
      <4> QED
        BY <2>2, <4>1, <4>2 DEF Break
    <3>3. conn' \in [Client -> {"new", "open", "closed"}]
      BY <2>2 DEF Break
    <3>4. UNCHANGED <<dbvars, maxID, id, clients, op, hand, at, pc, target, up>>
      BY <2>2 DEF Break
    <3> QED
      BY <3>2, <3>3, <3>4
  <2> QED
    BY <1>9, <2>1, <2>2
<1>10. ASSUME NEW r \in Request, Search(r) \/ MapRace(r) \/ Send(r)
       PROVE  HTypeOK'
  <2>1. CASE Search(r) \/ MapRace(r)
    BY <2>1 DEF Search, MapRace
  <2>2. CASE Send(r)
    <3>1. ASSUME NEW c \in Client PROVE Append(inbox[c], r) \in Seq(Request)
      OBVIOUS
    <3>2. inbox' \in [Client -> Seq(Request)]
      BY <2>2, <3>1 DEF Send, Written
    <3> QED
      BY <2>2, <3>2 DEF Send
  <2> QED
    BY <1>10, <2>1, <2>2
<1>11. ASSUME NEW r \in Request, Meeting(r) PROVE HTypeOK'
  <2>1. PICK c \in Client : Deliver(c, r) \/ \E s \in Side : Goodbye(c, s, r)
    BY <1>11 DEF Meeting
  <2>2. CASE Deliver(c, r)
    <3>1. at' \in [Client -> [Side -> At]]
      BY <1>0, <2>2, GoFacts DEF Deliver, At
    <3> QED
      BY <2>2, <3>1 DEF Deliver, Answered
  <2>3. ASSUME NEW s \in Side, Goodbye(c, s, r) PROVE HTypeOK'
    <3>1. at' \in [Client -> [Side -> At]]
      BY <2>3, GoFacts DEF Goodbye, At, Leaving
    <3> QED
      BY <2>3, <3>1 DEF Goodbye, Answered
  <2> QED
    BY <2>1, <2>2, <2>3
<1>12. CASE HubWrites
  <2>1. op \in Op
    BY <1>12 DEF HubWrites, NoOp
  <2>2. /\ op.do = "add" => op.client \in Client
        /\ op.do = "remove" => op.id \in ProxyId
    BY <2>1 DEF Op
  <2> QED
    BY <1>12, <2>2 DEF HubWrites, With, Without
<1>13. CASE EnsureIndex \/ UNCHANGED vars
  BY <1>13 DEF EnsureIndex, vars
<1> QED
  BY <1>1, <1>2, <1>3, <1>4, <1>5, <1>6, <1>7, <1>8, <1>9, <1>10, <1>11, <1>12,
     <1>13 DEF Next, ClientStep
-----------------------------------------------------------------------------
(* What a step does to the goroutines of a client: at most one of them       *)
(* moves, or the writer starts the reader.                                   *)
LEMMA OtherStepsStay ==
  ASSUME \/ HubWrites \/ EnsureIndex \/ UNCHANGED vars
         \/ \E c \in Client : ProxyAnswers(c) \/ Break(c)
         \/ \E r \in Request : Search(r) \/ MapRace(r) \/ Send(r)
  PROVE  UNCHANGED <<at, proxies, id, maxID>>
BY DEF HubWrites, EnsureIndex, ProxyAnswers, Break, Search, MapRace, Send, vars,
       dbvars, hubvars

LEMMA ShapeStep == HInv /\ [Next]_vars => Shapes'
<1> SUFFICES ASSUME HInv, [Next]_vars PROVE Shapes'
  OBVIOUS
<1> USE DEF HInv, Shapes, Shape, Starting
<1>0. "writer" \in Side /\ "reader" \in Side
  BY DEF Side
<1>1. ASSUME NEW c \in Client, Connect(c) PROVE Shapes'
  <2>1. maxID' \in ProxyId /\ id' = id
    BY <1>1 DEF Connect
  <2>2. /\ at[c]["writer"] = "none"
        /\ \A d \in Client, u \in Side :
             at'[d][u] = IF d = c /\ u = "writer" THEN "name" ELSE at[d][u]
    BY <1>0, <1>1, GoFacts DEF Connect, At
  <2> QED
    BY <1>0, <2>1, <2>2 DEF Leaving
<1>2. ASSUME NEW c \in Client, Name(c) PROVE Shapes'
  <2>1. /\ at[c]["writer"] = "name"
        /\ \A d \in Client, u \in Side :
             at'[d][u] = IF d = c /\ u = "writer" THEN "add" ELSE at[d][u]
    BY <1>0, <1>2, GoFacts DEF Name, At
  <2>2. maxID' = maxID /\ id' = [id EXCEPT ![c] = maxID] /\ maxID # 0
    BY <1>2, <2>1, IdsArePositive DEF Name, LastId
  <2> QED
    BY <1>0, <2>1, <2>2 DEF Leaving, HTypeOK
<1>3. ASSUME NEW c \in Client, Add(c) PROVE Shapes'
  <2>1. /\ at[c]["writer"] = "add"
        /\ \A d \in Client, u \in Side :
             at'[d][u] = IF d = c /\ u = "writer" THEN "insert" ELSE at[d][u]
    BY <1>0, <1>3, GoFacts DEF Add, At
  <2>2. maxID' = maxID /\ id' = id
    BY <1>3 DEF Add
  <2> QED
    BY <1>0, <2>1, <2>2 DEF Leaving
<1>4. ASSUME NEW c \in Client, Insert(c) PROVE Shapes'
  <2>1. maxID' = maxID /\ id' = id
    BY <1>4 DEF Insert, hubvars
  <2> QED
    BY <1>0, <1>4, <2>1, InsertFacts DEF Leaving
<1>5. ASSUME NEW c \in Client, NEW s \in Side, NEW from, NEW to \in At,
             Go(c, s, from, to), maxID' = maxID, id' = id,
             \/ s = "reader" /\ from = "read" /\ to = "deliver"
             \/ s = "reader" /\ from = "deliver" /\ to = "read"
             \/ /\ from \in {"read", "listen"} \cup Leaving
                /\ to \in Leaving
      PROVE  Shapes'
  <2>1. /\ at[c][s] = from
        /\ \A d \in Client, u \in Side :
             at'[d][u] = IF d = c /\ u = s THEN to ELSE at[d][u]
    BY <1>5, GoFacts
  <2> QED
    BY <1>0, <1>5, <2>1 DEF Leaving, Side
<1>6. ASSUME NEW c \in Client, Read(c) PROVE Shapes'
  BY <1>0, <1>5, <1>6 DEF Read, At, hubvars
<1>7. ASSUME NEW c \in Client, NEW s \in Side,
             Notice(c, s) \/ Remove(c, s) \/ MarkDead(c, s)
      PROVE  Shapes'
  <2>1. PICK from \in {"read", "listen"} \cup Leaving, to \in Leaving :
          Go(c, s, from, to)
    BY <1>7 DEF Notice, Remove, MarkDead, Leaving
  <2>2. maxID' = maxID /\ id' = id /\ to \in At
    BY <1>7 DEF Notice, Remove, MarkDead, hubvars, At
  <2> QED
    BY <1>5, <2>1, <2>2
<1>8. ASSUME NEW r \in Request, Meeting(r) PROVE Shapes'
  <2>1. PICK c \in Client : Deliver(c, r) \/ \E s \in Side : Goodbye(c, s, r)
    BY <1>8 DEF Meeting
  <2> QED
    BY <1>0, <1>5, <2>1 DEF Deliver, Goodbye, hubvars, At, Leaving
<1>9. UNCHANGED <<at, proxies, id, maxID>> => Shapes'
  OBVIOUS
<1> QED
  BY <1>1, <1>2, <1>3, <1>4, <1>6, <1>7, <1>8, <1>9, OtherStepsStay
  DEF Next, ClientStep
-----------------------------------------------------------------------------
Gone == Leaving \ {"remove"}

(* What a step of goroutine s of client c means for who has left. *)
LEMMA LeftGo ==
  ASSUME HTypeOK, NEW c \in Client, NEW s \in Side, NEW from, NEW to \in At,
         Go(c, s, from, to), NEW d \in Client,
         to \in Gone => from \in Gone \/ d # c
  PROVE  Left(d)' => Left(d)
BY GoFacts DEF Left, Gone

LEMMA InsertLeft ==
  ASSUME HInv, NEW c \in Client, Insert(c), NEW d \in Client
  PROVE  Left(d)' => Left(d)
BY InsertFacts DEF HInv, Left, Leaving

(* The steps that neither make a client leave nor touch the hub. *)
QuietStep ==
  /\ UNCHANGED <<op, clients>>
  /\ \A d \in Client :
       /\ Left(d)' => Left(d)
       /\ at[d]["writer"] \notin {"none", "name", "add"} =>
            at'[d]["writer"] \notin {"none", "name", "add"}
       /\ id'[d] = id[d] \/ id[d] = 0

LEMMA MostAreQuiet ==
  ASSUME HInv, [Next]_vars
  PROVE  \/ QuietStep
         \/ \E c \in Client : Add(c) \/ \E s \in Side : Remove(c, s)
         \/ HubWrites
<1> USE DEF HInv, QuietStep, hubvars
<1>0. "writer" \in Side /\ "reader" \in Side
  BY DEF Side
<1>1. ASSUME NEW c \in Client, NEW s \in Side, NEW from, NEW to \in At,
             Go(c, s, from, to), UNCHANGED <<op, clients>>,
             to \in Gone => from \in Gone,
             to \in {"none", "name", "add"} => from \in {"none", "name", "add"},
             \A d \in Client : id'[d] = id[d] \/ id[d] = 0
      PROVE  QuietStep
  <2>1. \A d \in Client : Left(d)' => Left(d)
    BY <1>1, LeftGo
  <2> QED
    BY <1>0, <1>1, <2>1, GoFacts
<1>2. ASSUME NEW c \in Client, Connect(c) PROVE QuietStep
  BY <1>0, <1>1, <1>2 DEF Connect, At, Gone, Leaving
<1>3. ASSUME NEW c \in Client, Name(c) PROVE QuietStep
  <2>1. at[c]["writer"] = "name"
    BY <1>3 DEF Name, Go
  <2>2. \A d \in Client : id'[d] = id[d] \/ id[d] = 0
    BY <1>3, <2>1 DEF Name, Shapes, Shape, HTypeOK
  <2> QED
    BY <1>0, <1>1, <1>3, <2>2 DEF Name, At, Gone, Leaving
<1>4. ASSUME NEW c \in Client, Insert(c) PROVE QuietStep
  BY <1>0, <1>4, InsertFacts, InsertLeft DEF Insert
<1>5. ASSUME NEW c \in Client, Read(c) PROVE QuietStep
  BY <1>0, <1>1, <1>5 DEF Read, At, Gone, Leaving
<1>6. ASSUME NEW c \in Client, NEW s \in Side, Notice(c, s) PROVE QuietStep
  BY <1>1, <1>6 DEF Notice, At, Gone, Leaving
<1>7. ASSUME NEW c \in Client, NEW s \in Side, MarkDead(c, s) PROVE QuietStep
  BY <1>1, <1>7 DEF MarkDead, At, Gone, Leaving
<1>8. ASSUME NEW r \in Request, Meeting(r) PROVE QuietStep
  <2>1. PICK c \in Client : Deliver(c, r) \/ \E s \in Side : Goodbye(c, s, r)
    BY <1>8 DEF Meeting
  <2>2. CASE Deliver(c, r)
    BY <1>0, <1>1, <2>2 DEF Deliver, At, Gone, Leaving
  <2>3. ASSUME NEW s \in Side, Goodbye(c, s, r) PROVE QuietStep
    BY <1>1, <2>3 DEF Goodbye, At, Gone, Leaving
  <2> QED
    BY <2>1, <2>2, <2>3
<1>9. ASSUME \/ EnsureIndex \/ UNCHANGED vars
             \/ \E c \in Client : ProxyAnswers(c) \/ Break(c)
             \/ \E r \in Request : Search(r) \/ MapRace(r) \/ Send(r)
      PROVE  QuietStep
  BY <1>9 DEF vars, EnsureIndex, ProxyAnswers, Break, Search, MapRace, Send, Left
<1> QED
  BY <1>2, <1>3, <1>4, <1>5, <1>6, <1>7, <1>8, <1>9 DEF Next, ClientStep

LEMMA OpKinds ==
  ASSUME NEW c, NEW i, NEW d, NEW j
  PROVE  /\ NoOp # [do |-> "add", client |-> c]
         /\ NoOp # [do |-> "remove", id |-> i]
         /\ [do |-> "add", client |-> c] # [do |-> "remove", id |-> i]
         /\ [do |-> "add", client |-> c] = [do |-> "add", client |-> d] => c = d
         /\ [do |-> "remove", id |-> i] = [do |-> "remove", id |-> j] => i = j
<1>1. /\ NoOp.do = "nothing"
      /\ [do |-> "add", client |-> c].do = "add"
      /\ [do |-> "remove", id |-> i].do = "remove"
  BY DEF NoOp
<1>2. /\ [do |-> "add", client |-> c].client = c
      /\ [do |-> "add", client |-> d].client = d
      /\ [do |-> "remove", id |-> i].id = i
      /\ [do |-> "remove", id |-> j].id = j
  OBVIOUS
<1> QED
  BY <1>1, <1>2

(* Hub.Listen is asked to add a client only before that client can leave,    *)
(* and a client that leaves has its entry, if any, deleted next.             *)
LEMMA EntriesStep == HInv /\ [Next]_vars => Entries' /\ LeftIsForgotten'
<1> SUFFICES ASSUME HInv, [Next]_vars PROVE Entries' /\ LeftIsForgotten'
  OBVIOUS
<1> USE NoClientDistinct DEF HInv, Entries, LeftIsForgotten
<1>0. "writer" \in Side /\ "reader" \in Side /\ 0 \notin ProxyId
  BY IdsArePositive DEF Side
<1>1. CASE QuietStep
  BY <1>0, <1>1 DEF QuietStep
<1>2. ASSUME NEW c \in Client, Add(c) PROVE Entries' /\ LeftIsForgotten'
  <2>1. /\ op = NoOp /\ op' = [do |-> "add", client |-> c]
        /\ UNCHANGED <<clients, id>>
    BY <1>2 DEF Add
  <2>2. /\ at[c]["writer"] = "add" /\ at'[c]["writer"] = "insert"
        /\ \A d \in Client : Left(d)' => Left(d)
    BY <1>0, <1>2, GoFacts, LeftGo DEF Add, At, Gone, Leaving
  <2>3. ~Left(c)
    BY <2>2 DEF Left, Shapes, Shape, Starting, Leaving, Side
  <2> QED
    BY <2>1, <2>2, <2>3, OpKinds
<1>3. ASSUME NEW c \in Client, NEW s \in Side, Remove(c, s)
      PROVE  Entries' /\ LeftIsForgotten'
  <2>1. /\ op = NoOp /\ op' = [do |-> "remove", id |-> id[c]]
        /\ UNCHANGED <<clients, id>>
    BY <1>3 DEF Remove
  <2>2. \A d \in Client : d # c => (Left(d)' => Left(d))
    BY <1>3, LeftGo DEF Remove, At, Leaving
  <2> QED
    BY <2>1, <2>2, OpKinds
<1>4. CASE HubWrites
  <2>1. op' = NoOp /\ UNCHANGED <<id, at>>
    BY <1>4 DEF HubWrites
  <2>2. \A d \in Client : Left(d)' <=> Left(d)
    BY <2>1 DEF Left
  <2>3. \A d \in Client : op' # [do |-> "add", client |-> d]
    BY <2>1, OpKinds
  <2>4. ASSUME NEW c \in Client, op = [do |-> "add", client |-> c],
               clients' = With(c)
        PROVE  Entries' /\ LeftIsForgotten'
    <3>1. \A d \in Client, j \in ProxyId :
            clients'[j] = d => clients[j] = d \/ (j = id[c] /\ d = c)
      BY <2>4 DEF With, HTypeOK
    <3>2. \A d \in Client, j \in ProxyId : ~(clients[j] = d /\ Left(d))
      BY <2>4, OpKinds
    <3>3. LeftIsForgotten'
      BY <2>2, <2>4, <3>1, <3>2
    <3> QED
      BY <2>1, <2>3, <3>1, <3>3
  <2>5. ASSUME NEW i \in ProxyId, op = [do |-> "remove", id |-> i],
               clients' = Without(i)
        PROVE  Entries' /\ LeftIsForgotten'
    <3>1. \A d \in Client, j \in ProxyId :
            clients'[j] = d => clients[j] = d /\ j # i
      BY <2>5 DEF Without, HTypeOK
    <3>2. \A d \in Client, j \in ProxyId : clients[j] = d /\ Left(d) => j = i
      BY <2>5, OpKinds
    <3>3. LeftIsForgotten'
      BY <2>2, <3>1, <3>2
    <3> QED
      BY <2>1, <2>3, <3>1, <3>3
  <2>6. op \in Op
    BY <1>4 DEF HubWrites, NoOp, HTypeOK
  <2>7. CASE op.do = "add"
    <3>1. op.client \in Client /\ op = [do |-> "add", client |-> op.client]
      BY <2>6, <2>7 DEF Op
    <3>2. clients' = With(op.client)
      BY <1>4, <2>7 DEF HubWrites
    <3> QED
      BY <2>4, <3>1, <3>2
  <2>8. CASE op.do = "remove"
    <3>1. op.id \in ProxyId /\ op = [do |-> "remove", id |-> op.id]
      BY <2>6, <2>8 DEF Op
    <3>2. clients' = Without(op.id)
      BY <1>4, <2>8 DEF HubWrites
    <3> QED
      BY <2>5, <3>1, <3>2
  <2> QED
    BY <1>4, <2>7, <2>8 DEF HubWrites
<1> QED
  BY <1>1, <1>2, <1>3, <1>4, MostAreQuiet
-----------------------------------------------------------------------------
(* No late insert and no other client with its id brings a lost proxy back. *)
LEMMA RecordStep == HInv /\ [Next]_vars => RecordsDead'
<1> SUFFICES ASSUME HInv, [Next]_vars PROVE RecordsDead'
  OBVIOUS
<1> USE NoRecordDistinct DEF HInv, RecordsDead, RecordedDead, dbvars
<1>0. "writer" \in Side /\ "reader" \in Side /\ 0 \notin ProxyId
  BY IdsArePositive DEF Side
<1>1. ASSUME UNCHANGED <<proxies, id>>,
             \A d \in Client :
               /\ at[d]["reader"] = "none" => at'[d]["reader"] = "none"
               /\ \A u \in Side : at'[d][u] \in {"goodbye", "gone"} =>
                    \E v \in Side : at[d][v] \in {"goodbye", "gone"}
      PROVE  RecordsDead'
  <2> SUFFICES ASSUME NEW d \in Client
               PROVE  /\ at'[d]["reader"] # "none" => proxies'[id'[d]] # NoRecord
                      /\ \A s \in Side : at'[d][s] \in {"goodbye", "gone"} =>
                           RecordedDead(id[d])'
    OBVIOUS
  <2>1. at'[d]["reader"] # "none" => proxies'[id'[d]] # NoRecord
    BY <1>1
  <2>2. ASSUME NEW s \in Side, at'[d][s] \in {"goodbye", "gone"}
        PROVE  RecordedDead(id[d])'
    BY <1>1, <2>2
  <2> QED
    BY <2>1, <2>2
<1>2. ASSUME NEW c \in Client, NEW s \in Side, NEW from, NEW to \in At,
             Go(c, s, from, to), UNCHANGED <<proxies, id>>,
             s = "reader" => from # "none",
             to \in {"goodbye", "gone"} => from \in {"goodbye", "gone"}
      PROVE  RecordsDead'
  BY <1>0, <1>1, <1>2, GoFacts
<1>3. ASSUME NEW c \in Client, Connect(c) \/ Add(c) \/ Read(c)
      PROVE  RecordsDead'
  BY <1>0, <1>2, <1>3 DEF Connect, Add, Read, At, hubvars
<1>4. ASSUME NEW c \in Client, NEW s \in Side, Notice(c, s) \/ Remove(c, s)
      PROVE  RecordsDead'
  BY <1>0, <1>2, <1>4 DEF Notice, Remove, At, Leaving, hubvars
<1>5. ASSUME NEW r \in Request, Meeting(r) PROVE RecordsDead'
  <2>1. PICK c \in Client : Deliver(c, r) \/ \E s \in Side : Goodbye(c, s, r)
    BY <1>5 DEF Meeting
  <2>2. CASE Deliver(c, r)
    BY <1>0, <1>2, <2>2 DEF Deliver, At, hubvars
  <2>3. ASSUME NEW s \in Side, Goodbye(c, s, r) PROVE RecordsDead'
    BY <1>2, <2>3 DEF Goodbye, At, Leaving, hubvars
  <2> QED
    BY <2>1, <2>2, <2>3
<1>6. ASSUME NEW c \in Client, Name(c) PROVE RecordsDead'
  <2>1. /\ at[c]["writer"] = "name" /\ proxies' = proxies
        /\ \A d \in Client, u \in Side :
             at'[d][u] = IF d = c /\ u = "writer" THEN "add" ELSE at[d][u]
    BY <1>0, <1>6, GoFacts DEF Name, At
  <2>2. at[c]["reader"] = "none"
    BY <2>1 DEF Shapes, Shape, Starting
  <2>3. \A d \in Client : d # c => id'[d] = id[d]
    BY <1>6 DEF Name, HTypeOK
  <2>4. \A u \in Side : at'[c][u] \in {"add", "none"}
    BY <2>1, <2>2 DEF Side
  <2> QED
    BY <1>0, <2>1, <2>2, <2>3, <2>4
<1>7. ASSUME NEW c \in Client, Insert(c) PROVE RecordsDead'
  <2>1. id[c] \in ProxyId /\ id' = id
    <3>1. at[c]["writer"] = "insert"
      BY <1>7 DEF Insert
    <3> QED
      BY <1>7, <3>1 DEF Insert, hubvars, Shapes, Shape, HTypeOK
  <2>2. /\ \A i \in ProxyId : proxies[i] # NoRecord => proxies'[i] = proxies[i]
        /\ proxies'[id[c]] # NoRecord
    <3>1. [use |-> FALSE, dead |-> FALSE] \in ProxyDoc
      BY DEF ProxyDoc
    <3>2. [use |-> FALSE, dead |-> FALSE] # NoRecord
      BY <3>1
    <3> QED
      BY <1>7, <2>1, <3>2 DEF Insert, AddProxy, HTypeOK, ProxiesTypeOK
  <2>3. ASSUME NEW d \in Client, d # c
        PROVE  /\ at'[d]["reader"] # "none" => proxies'[id'[d]] # NoRecord
               /\ \A s \in Side : at'[d][s] \in {"goodbye", "gone"} =>
                    RecordedDead(id[d])'
    <3>1. \A u \in Side : at'[d][u] = at[d][u]
      BY <1>7, <2>3, InsertFacts
    <3>2. at[d]["reader"] # "none" => id[d] \in ProxyId
      BY DEF Shapes, Shape, Starting, HTypeOK
    <3>3. at'[d]["reader"] # "none" => proxies'[id'[d]] # NoRecord
      BY <1>0, <2>1, <2>2, <3>1, <3>2
    <3>4. ASSUME NEW s \in Side, at'[d][s] \in {"goodbye", "gone"}
          PROVE  RecordedDead(id[d])'
      <4>1. RecordedDead(id[d])
        BY <3>1, <3>4
      <4>2. [use |-> FALSE, dead |-> TRUE] \in ProxyDoc
        BY DEF ProxyDoc
      <4> QED
        BY <2>1, <2>2, <4>1, <4>2
    <3> QED
      BY <3>3, <3>4
  <2>4. \A u \in Side : at'[c][u] \in {"listen", "read"}
    BY <1>7, InsertFacts
  <2> QED
    BY <2>1, <2>2, <2>3, <2>4
<1>8. ASSUME NEW c \in Client, NEW s \in Side, MarkDead(c, s)
      PROVE  RecordsDead'
  <2>1. /\ at[c][s] = "mark" /\ id' = id
        /\ \A d \in Client, u \in Side :
             at'[d][u] = IF d = c /\ u = s THEN "goodbye" ELSE at[d][u]
    BY <1>8, GoFacts DEF MarkDead, At, Leaving, hubvars
  <2>2. id[c] \in ProxyId
    BY <2>1 DEF Shapes, Shape, Starting, HTypeOK, Side
  <2>3. \A i \in ProxyId :
          proxies'[i] = IF i = id[c] THEN [use |-> FALSE, dead |-> TRUE]
                                     ELSE proxies[i]
    BY <1>8, <2>2 DEF MarkDead, UpdateProxy, HTypeOK, ProxiesTypeOK
  <2>4. [use |-> FALSE, dead |-> TRUE] # NoRecord
    <3>1. [use |-> FALSE, dead |-> TRUE] \in ProxyDoc
      BY DEF ProxyDoc
    <3> QED
      BY <3>1
  <2>5. ASSUME NEW d \in Client
        PROVE  /\ at'[d]["reader"] # "none" => proxies'[id'[d]] # NoRecord
               /\ \A u \in Side : at'[d][u] \in {"goodbye", "gone"} =>
                    RecordedDead(id[d])'
    <3>1. at'[d]["reader"] # "none" => at[d]["reader"] # "none"
      BY <1>0, <2>1
    <3>2. at[d]["reader"] # "none" => id[d] \in ProxyId
      BY DEF Shapes, Shape, Starting, HTypeOK
    <3>3. CASE d = c
      BY <2>1, <2>2, <2>3, <2>4, <3>3
    <3>4. CASE d # c
      BY <2>1, <2>2, <2>3, <2>4, <3>1, <3>2, <3>4
    <3> QED
      BY <3>3, <3>4
  <2> QED
    BY <2>5
<1>9. ASSUME \/ HubWrites \/ EnsureIndex \/ UNCHANGED vars
             \/ \E c \in Client : ProxyAnswers(c) \/ Break(c)
             \/ \E r \in Request : Search(r) \/ MapRace(r) \/ Send(r)
      PROVE  RecordsDead'
  BY <1>1, <1>9, OtherStepsStay
<1> QED
  BY <1>3, <1>4, <1>5, <1>6, <1>7, <1>8, <1>9 DEF Next, ClientStep
-----------------------------------------------------------------------------
(* Ids and readers stay, and only an insert adds a document. *)
LEMMA DocumentsStep == HInv /\ [Next]_vars => Documents'
<1> SUFFICES ASSUME HInv, [Next]_vars PROVE Documents'
  OBVIOUS
<1> USE DEF HInv, Documents, Inserted, Shared, dbvars, hubvars
<1>0. "writer" \in Side /\ "reader" \in Side /\ 0 \notin ProxyId
  BY IdsArePositive DEF Side
<1>1. ASSUME \A d \in Client : /\ id[d] # 0 => id'[d] = id[d]
                               /\ at[d]["reader"] # "none" => at'[d]["reader"] # "none",
             \A i \in ProxyId : /\ proxies'[i] # NoRecord => proxies[i] # NoRecord
                                /\ doubles'[i] # 0 => doubles[i] # 0
      PROVE  Documents'
  <2> SUFFICES ASSUME NEW i \in ProxyId
               PROVE  /\ proxies'[i] # NoRecord => Inserted(i)'
                      /\ doubles'[i] # 0 => Shared(i)'
    OBVIOUS
  <2>1. Inserted(i) => Inserted(i)'
    BY <1>0, <1>1
  <2>2. Shared(i) => Shared(i)'
    BY <1>0, <1>1
  <2>3. (proxies[i] # NoRecord => Inserted(i)) /\ (doubles[i] # 0 => Shared(i))
    OBVIOUS
  <2>4. /\ proxies'[i] # NoRecord => proxies[i] # NoRecord
        /\ doubles'[i] # 0 => doubles[i] # 0
    BY <1>1
  <2> HIDE DEF HInv, Documents, Inserted, Shared
  <2> QED
    BY <2>1, <2>2, <2>3, <2>4
<1>2. ASSUME NEW c \in Client, NEW s \in Side, NEW from, NEW to \in At,
             Go(c, s, from, to), to # "none",
             \A d \in Client : id[d] # 0 => id'[d] = id[d],
             \A i \in ProxyId : /\ proxies'[i] # NoRecord => proxies[i] # NoRecord
                                /\ doubles'[i] # 0 => doubles[i] # 0
      PROVE  Documents'
  BY <1>0, <1>1, <1>2, GoFacts
<1>3. ASSUME NEW c \in Client, Connect(c) \/ Add(c) \/ Read(c) PROVE Documents'
  BY <1>0, <1>2, <1>3 DEF Connect, Add, Read, At
<1>4. ASSUME NEW c \in Client, NEW s \in Side, Notice(c, s) \/ Remove(c, s)
      PROVE  Documents'
  BY <1>2, <1>4 DEF Notice, Remove, At, Leaving
<1>5. ASSUME NEW r \in Request, Meeting(r) PROVE Documents'
  <2>1. PICK c \in Client : Deliver(c, r) \/ \E s \in Side : Goodbye(c, s, r)
    BY <1>5 DEF Meeting
  <2>2. CASE Deliver(c, r)
    BY <1>0, <1>2, <2>2 DEF Deliver, At
  <2>3. ASSUME NEW s \in Side, Goodbye(c, s, r) PROVE Documents'
    BY <1>2, <2>3 DEF Goodbye, At, Leaving
  <2> QED
    BY <2>1, <2>2, <2>3
<1>6. ASSUME NEW c \in Client, Name(c) PROVE Documents'
  <2>1. id[c] = 0
    BY <1>6 DEF Name, Go, Shapes, Shape
  <2>2. \A d \in Client : id[d] # 0 => id'[d] = id[d]
    BY <1>6, <2>1 DEF Name, HTypeOK
  <2> QED
    BY <1>0, <1>2, <1>6, <2>2 DEF Name, At
<1>7. ASSUME NEW c \in Client, Insert(c) PROVE Documents'
  <2>1. /\ id' = id /\ id[c] \in ProxyId
        /\ at[c]["reader"] = "none" /\ at'[c]["reader"] # "none"
        /\ \A d \in Client : at[d]["reader"] # "none" => at'[d]["reader"] # "none"
    <3>1. at[c]["writer"] = "insert"
      BY <1>7, InsertFacts
    <3>2. Shape(c) /\ id[c] \in ProxyId \cup {0}
      BY DEF Shapes, HTypeOK
    <3>3. id[c] \in ProxyId /\ at[c]["reader"] = "none"
      BY <3>1, <3>2 DEF Shape, Starting
    <3> QED
      BY <1>0, <1>7, <3>3, InsertFacts DEF Insert
  <2>2. \A i \in ProxyId \ {id[c]} : proxies'[i] = proxies[i] /\ doubles'[i] = doubles[i]
    BY <1>7 DEF Insert, AddProxy, HTypeOK, ProxiesTypeOK
  <2>3. doubles'[id[c]] # 0 => doubles[id[c]] # 0 \/ proxies[id[c]] # NoRecord
    BY <1>7 DEF Insert
  <2>4. proxies[id[c]] # NoRecord => Shared(id[c])
    BY <2>1
  <2>5. \A i \in ProxyId : proxies'[i] # NoRecord => Inserted(i)'
    BY <2>1, <2>2
  <2>6. \A i \in ProxyId : doubles'[i] # 0 => Shared(i)'
    BY <2>1, <2>2, <2>3, <2>4
  <2> QED
    BY <2>5, <2>6
<1>8. ASSUME NEW c \in Client, NEW s \in Side, MarkDead(c, s) PROVE Documents'
  <2>1. at[c][s] = "mark" /\ id' = id /\ doubles' = doubles
    BY <1>8 DEF MarkDead, Go
  <2>2. at[c]["reader"] # "none"
    BY <2>1 DEF Shapes, Shape, Starting, Side
  <2>3. proxies[id[c]] # NoRecord
    BY <2>2 DEF RecordsDead
  <2>4. \A i \in ProxyId : i # id[c] => proxies'[i] = proxies[i]
    BY <1>8 DEF MarkDead, UpdateProxy, HTypeOK, ProxiesTypeOK
  <2> QED
    BY <1>2, <1>8, <2>1, <2>3, <2>4 DEF MarkDead, At, Leaving
<1>9. ASSUME \/ HubWrites \/ EnsureIndex \/ UNCHANGED vars
             \/ \E c \in Client : ProxyAnswers(c) \/ Break(c)
             \/ \E r \in Request : Search(r) \/ MapRace(r) \/ Send(r)
      PROVE  Documents'
  <2>1. doubles' = doubles \/ \A i \in ProxyId : doubles'[i] = 0
    BY <1>9 DEF HubWrites, EnsureIndex, ProxyAnswers, Break, Search, MapRace, Send, vars
  <2> QED
    BY <1>1, <1>9, <2>1, OtherStepsStay
<1> QED
  BY <1>3, <1>4, <1>5, <1>6, <1>7, <1>8, <1>9 DEF Next, ClientStep
-----------------------------------------------------------------------------
LEMMA HNextInv == HInv /\ [Next]_vars => HInv'
BY HTypeStep, ShapeStep, EntriesStep, RecordStep, DocumentsStep DEF HInv

(* The inductive invariant of the hub holds in every state. *)
THEOREM HInvariance == Spec => []HInv
BY HInitInv, HNextInv, PTL DEF Spec

(* Every variable of the hub keeps its type: ids, entries and channels.      *)
THEOREM HTypeCorrect == Spec => []HTypeOK
<1>1. HInv => HTypeOK
  BY DEF HInv
<1> QED
  BY HInvariance, <1>1, PTL

(* A client that has left is not found again, although Hub.Add and           *)
(* Hub.Remove return before the map has changed.                             *)
THEOREM LeftIsForgottenAlways == Spec => []LeftIsForgotten
<1>1. HInv => LeftIsForgotten
  BY DEF HInv
<1> QED
  BY HInvariance, <1>1, PTL

(* Every client that listens has a record, and it stays dead once marked; a  *)
(* living document beside it is there only if another client has the id.     *)
THEOREM RecordFollowsClientAlways == Spec => []RecordFollowsClient
<1>1. HInv => RecordFollowsClient
  <2> SUFFICES ASSUME HInv, NEW c \in Client
               PROVE  /\ at[c]["reader"] # "none" => proxies[id[c]] # NoRecord
                      /\ \A s \in Side : at[c][s] \in {"goodbye", "gone"} =>
                           /\ RecordedDead(id[c])
                           /\ doubles[id[c]] # 0 => \E d \in Client \ {c} : id[d] = id[c]
    BY DEF RecordFollowsClient
  <2>1. id[c] \in ProxyId /\ doubles[id[c]] # 0 => \E d \in Client \ {c} : id[d] = id[c]
    BY DEF HInv, Documents, Shared
  <2> QED
    BY <2>1 DEF HInv, RecordsDead, RecordedDead
<1> QED
  BY HInvariance, <1>1, PTL
=============================================================================
