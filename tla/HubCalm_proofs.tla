---------------------------- MODULE HubCalm_proofs ----------------------------
(***************************************************************************)
(* Proofs about the hub under the traffic it is built for (CalmSpec):      *)
(* however many proxies come and go, and however many requests there are,  *)
(* ids are unique, every proxy that listens is found, and every answer     *)
(* reaches its own request.  Without that traffic all three fail.          *)
(***************************************************************************)
EXTENDS HubAnswers_proofs

Early == {"none", "name", "add"}

(* Counting never goes back, and a client that is about to read the counter  *)
(* finds a number that nobody has.                                           *)
Numbered ==
  /\ UniqueIds
  /\ \A c \in Client : id[c] <= maxID
  /\ \A c, d \in Client : at[c]["writer"] = "name" => id[d] # maxID

(* A client that was registered and has not left is in the map or next to    *)
(* be in it, and the hub is told to delete only clients that have left.      *)
Registered(c) == at[c]["writer"] \notin Early /\ ~Left(c)

Known ==
  /\ \A c \in Client :
       Registered(c) => clients[id[c]] = c \/ op = [do |-> "add", client |-> c]
  /\ \A i \in ProxyId :
       op = [do |-> "remove", id |-> i] => \E c \in Client : id[c] = i /\ Left(c)

(* All that is on its way through a client belongs to the request that       *)
(* waits, as long as there is a reader to hand it over.                      *)
MessagesOf(c, r) ==
  /\ inbox[c] \in Seq({r})
  /\ outbox[c] \in Seq({r})
  /\ hand[c] \subseteq {r}

Belongs ==
  \A c \in Client, r \in Request :
    r \in Waiting(c) /\ at[c]["reader"] # "gone" => MessagesOf(c, r)

CalmInv == CInv /\ CalmTraffic /\ Numbered /\ Known /\ Belongs
-----------------------------------------------------------------------------
LEMMA CalmInitInv == Init => CalmInv
<1> SUFFICES ASSUME Init PROVE CalmInv
  OBVIOUS
<1>1. CInv
  BY CInitInv
<1>2. \A c \in Client : Using(c) = {} /\ Waiting(c) = {}
  BY NoClientDistinct DEF Init, Using, Waiting
<1>3. CalmTraffic /\ Belongs
  BY <1>2 DEF Init, CalmTraffic, OneNaming, OneEach, Belongs, Side
<1>4. Numbered
  BY DEF Init, Numbered, UniqueIds, Side
<1>5. Known
  BY OpKinds DEF Init, Known, Registered, Early, Side
<1> QED
  BY <1>1, <1>3, <1>4, <1>5 DEF CalmInv

(* What any step does to the ids of the clients and to how far they are.     *)
Onward(d) ==
  /\ Left(d) => Left(d)'
  /\ at'[d]["writer"] \notin Early => at[d]["writer"] \notin Early \/ Add(d)
  /\ at'[d]["writer"] = "name" => at[d]["writer"] = "name" \/ Connect(d)
  /\ id'[d] = id[d] \/ Name(d)

LEMMA StepOnward ==
  ASSUME HInv, [Next]_vars, NEW d \in Client
  PROVE  Onward(d)
<1> USE DEF Onward, Early
<1>0. "writer" \in Side /\ "reader" \in Side
  BY DEF Side
<1>1. ASSUME NEW c \in Client, NEW s \in Side, NEW from, NEW to \in At,
             Go(c, s, from, to),
             from \in Gone => to \in Gone,
             from \in Early /\ to \notin Early => from = "add" /\ Add(c),
             to = "name" => Connect(c),
             id'[d] = id[d] \/ Name(d)
      PROVE  Onward(d)
  <2>1. /\ at[c][s] = from
        /\ \A u \in Side : at'[d][u] = IF d = c /\ u = s THEN to ELSE at[d][u]
    BY <1>1, GoFacts DEF HInv
  <2>2. Left(d) => Left(d)'
    BY <1>1, <2>1 DEF Left, Gone
  <2> QED
    BY <1>0, <1>1, <2>1, <2>2
<1>2. ASSUME NEW c \in Client, Connect(c) PROVE Onward(d)
  BY <1>0, <1>1, <1>2 DEF Connect, At, Gone, Leaving
<1>3. ASSUME NEW c \in Client, Name(c) PROVE Onward(d)
  <2>1. id'[d] = id[d] \/ Name(d)
    BY <1>3 DEF Name, HInv, HTypeOK
  <2> QED
    BY <1>0, <1>1, <1>3, <2>1 DEF Name, At, Gone, Leaving
<1>4. ASSUME NEW c \in Client, Add(c) PROVE Onward(d)
  BY <1>0, <1>1, <1>4 DEF Add, At, Gone, Leaving
<1>5. ASSUME NEW c \in Client, Insert(c) PROVE Onward(d)
  <2>1. /\ at[c]["writer"] = "insert"
        /\ \A u \in Side :
             at'[d][u] = IF d = c THEN IF u = "writer" THEN "listen" ELSE "read"
                                  ELSE at[d][u]
    BY <1>5, InsertFacts DEF HInv
  <2>2. ~Left(c)
    BY <2>1 DEF HInv, Shapes, Shape, Starting, Left, Leaving, Side
  <2>3. Left(d) => Left(d)'
    BY <2>1, <2>2 DEF Left
  <2> QED
    BY <1>0, <1>5, <2>1, <2>3 DEF Insert, hubvars
<1>6. ASSUME NEW c \in Client, Read(c) PROVE Onward(d)
  BY <1>0, <1>1, <1>6 DEF Read, At, Gone, Leaving, hubvars
<1>7. ASSUME NEW c \in Client, NEW s \in Side, Notice(c, s) PROVE Onward(d)
  BY <1>1, <1>7 DEF Notice, At, Gone, Leaving, hubvars
<1>8. ASSUME NEW c \in Client, NEW s \in Side, Remove(c, s) \/ MarkDead(c, s)
      PROVE  Onward(d)
  BY <1>1, <1>8 DEF Remove, MarkDead, At, Gone, Leaving, hubvars
<1>9. ASSUME NEW r \in Request, Meeting(r) PROVE Onward(d)
  <2>1. PICK c \in Client : Deliver(c, r) \/ \E s \in Side : Goodbye(c, s, r)
    BY <1>9 DEF Meeting
  <2>2. CASE Deliver(c, r)
    BY <1>0, <1>1, <2>2 DEF Deliver, At, Gone, Leaving, hubvars
  <2>3. ASSUME NEW s \in Side, Goodbye(c, s, r) PROVE Onward(d)
    BY <1>1, <2>3 DEF Goodbye, At, Gone, Leaving, hubvars
  <2> QED
    BY <2>1, <2>2, <2>3
<1>10. ASSUME UNCHANGED <<at, proxies, id, maxID>> PROVE Onward(d)
  BY <1>10 DEF Left
<1> QED
  BY <1>2, <1>3, <1>4, <1>5, <1>6, <1>7, <1>8, <1>9, <1>10, OtherStepsStay
  DEF Next, ClientStep

LEMMA CounterStep ==
  ASSUME HInv, [Next]_vars
  PROVE  maxID' = maxID \/ \E c \in Client : Connect(c)
<1>1. ASSUME NEW c \in Client, ClientStep(c) PROVE maxID' = maxID
  BY <1>1 DEF ClientStep, Name, Add, Insert, Read, Notice, Remove, MarkDead, hubvars
<1>2. ASSUME NEW r \in Request, Meeting(r) PROVE maxID' = maxID
  BY <1>2 DEF Meeting, Deliver, Goodbye, hubvars
<1> QED
  BY <1>1, <1>2, OtherStepsStay DEF Next
-----------------------------------------------------------------------------
LEMMA NumbersAreNat ==
  ASSUME HTypeOK
  PROVE  maxID \in Nat /\ \A d \in Client : id[d] \in Nat
<1>1. \A i \in ProxyId \cup {0} : i \in Nat
  BY IdsArePositive
<1>2. maxID \in ProxyId \cup {0} /\ \A d \in Client : id[d] \in ProxyId \cup {0}
  BY DEF HTypeOK
<1> QED
  BY <1>1, <1>2, Zenon

(* One client at a time draws a number, so it is its own.                    *)
LEMMA NumberedStep ==
  ASSUME CalmInv, [Next]_vars, CalmTraffic'
  PROVE  Numbered'
<1> USE IdsArePositive DEF CalmInv, CInv, HInv
<1>1. HTypeOK
  OBVIOUS
<1>2. maxID \in Nat /\ \A d \in Client : id[d] \in Nat
  BY <1>1, NumbersAreNat
<1>3. ASSUME NEW c \in Client, Connect(c) PROVE Numbered'
  <2>1. maxID' = maxID + 1 /\ id' = id
    BY <1>3 DEF Connect, NextId
  <2>2. \A d \in Client : id[d] <= maxID
    BY DEF Numbered
  <2>3. \A d \in Client : id'[d] <= maxID' /\ id'[d] # maxID'
    BY <1>2, <2>1, <2>2
  <2>4. UniqueIds'
    BY <2>1 DEF Numbered, UniqueIds
  <2> QED
    BY <2>3, <2>4 DEF Numbered
<1>4. ASSUME NEW c \in Client, Name(c) PROVE Numbered'
  <2>1. /\ at[c]["writer"] = "name" /\ maxID' = maxID
        /\ \A d \in Client : at'[d]["writer"] = IF d = c THEN "add" ELSE at[d]["writer"]
    BY <1>4, GoFacts DEF Name, Side, At
  <2>2. \A d \in Client : id'[d] = IF d = c THEN maxID ELSE id[d]
    BY <1>1, <1>4 DEF Name, LastId, HTypeOK
  <2>3. \A d \in Client : id[d] # maxID
    BY <2>1 DEF Numbered
  <2>4. UniqueIds'
    BY <2>2, <2>3 DEF Numbered, UniqueIds
  <2>5. \A d \in Client : id'[d] <= maxID'
    BY <1>2, <2>1, <2>2 DEF Numbered
  <2>6. \A d \in Client : at'[d]["writer"] # "name"
    BY <2>1 DEF CalmTraffic, OneNaming
  <2> QED
    BY <2>4, <2>5, <2>6 DEF Numbered
<1>5. ASSUME \A c \in Client : ~Connect(c) /\ ~Name(c) PROVE Numbered'
  <2>1. maxID' = maxID
    BY <1>5, CounterStep
  <2>2. \A d \in Client :
          /\ id'[d] = id[d]
          /\ at'[d]["writer"] = "name" => at[d]["writer"] = "name"
    BY <1>5, StepOnward DEF Onward
  <2> QED
    BY <2>1, <2>2 DEF Numbered, UniqueIds
<1> QED
  BY <1>3, <1>4, <1>5

(* The hub's map follows its clients, one message behind.                    *)
LEMMA KnownStep ==
  ASSUME CalmInv, [Next]_vars
  PROVE  Known'
<1> USE DEF CalmInv, CInv, HInv
<1>0. "writer" \in Side /\ 0 \notin ProxyId
  BY IdsArePositive DEF Side
<1>1. \A d \in Client : Onward(d)
  BY StepOnward
<1>2. \A d \in Client : at[d]["writer"] \notin {"none", "name"} =>
                          id[d] \in ProxyId /\ id'[d] = id[d]
  <2> SUFFICES ASSUME NEW d \in Client, at[d]["writer"] \notin {"none", "name"}
               PROVE  id[d] \in ProxyId /\ id'[d] = id[d]
    OBVIOUS
  <2>1. id[d] \in ProxyId
    BY DEF Shapes, Shape, HTypeOK
  <2>2. ~Name(d)
    BY DEF Name, Go
  <2> QED
    BY <1>1, <2>1, <2>2 DEF Onward
<1>3. \A d \in Client : Left(d) => at[d]["writer"] \notin Early
  BY DEF Left, Shapes, Shape, Starting, Leaving, Side, Early
<1>4. \A d \in Client, i \in ProxyId :
        id[d] = i /\ Left(d) => id'[d] = i /\ Left(d)'
  BY <1>1, <1>2, <1>3 DEF Onward, Early
<1>5. \A d \in Client : ~Add(d) /\ Registered(d)' => Registered(d) /\ id'[d] = id[d]
  BY <1>1, <1>2 DEF Onward, Registered, Early
<1>6. CASE QuietStep
  <2>1. UNCHANGED <<op, clients>>
    BY <1>6 DEF QuietStep
  <2>2. \A d \in Client : ~Add(d) \/ ~Registered(d)'
    <3> SUFFICES ASSUME NEW d \in Client, Add(d) PROVE FALSE
      OBVIOUS
    <3>1. op = NoOp /\ op' = [do |-> "add", client |-> d]
      BY DEF Add
    <3> QED
      BY <2>1, <3>1, OpKinds
  <2> QED
    BY <1>4, <1>5, <2>1, <2>2 DEF Known
<1>7. ASSUME NEW c \in Client, Add(c) PROVE Known'
  <2>1. /\ op = NoOp /\ op' = [do |-> "add", client |-> c]
        /\ UNCHANGED <<clients, id>>
    BY <1>7 DEF Add
  <2>2. \A d \in Client : d # c => ~Add(d)
    BY <2>1, OpKinds DEF Add
  <2> QED
    BY <1>5, <2>1, <2>2, OpKinds DEF Known
<1>8. ASSUME NEW c \in Client, NEW s \in Side, Remove(c, s) PROVE Known'
  <2>1. /\ op = NoOp /\ op' = [do |-> "remove", id |-> id[c]]
        /\ UNCHANGED <<clients, id>>
    BY <1>8 DEF Remove
  <2>2. Left(c)'
    BY <1>8, GoFacts DEF Remove, At, Leaving, Left
  <2>3. \A d \in Client : ~Add(d)
    BY <2>1, OpKinds DEF Add
  <2> QED
    BY <1>5, <2>1, <2>2, <2>3, OpKinds DEF Known
<1>9. CASE HubWrites
  <2>1. op' = NoOp /\ UNCHANGED <<id, at>>
    BY <1>9 DEF HubWrites
  <2>2. \A d \in Client : Registered(d)' => Registered(d) /\ id[d] \in ProxyId
    BY <1>2, <2>1 DEF Registered, Left, Early
  <2>3. op \in Op
    BY <1>9 DEF HubWrites, NoOp, HTypeOK
  <2>4. CASE op.do = "add"
    <3>1. op.client \in Client /\ op = [do |-> "add", client |-> op.client]
      BY <2>3, <2>4 DEF Op
    <3>2. at[op.client]["writer"] \notin {"none", "name", "add"}
      BY <3>1 DEF Entries
    <3>3. id[op.client] \in ProxyId
      BY <1>2, <3>1, <3>2
    <3>4. \A j \in ProxyId : clients'[j] = IF j = id[op.client] THEN op.client ELSE clients[j]
      BY <1>9, <2>4, <3>3 DEF HubWrites, With, HTypeOK
    <3>5. \A d \in Client : d # op.client => op # [do |-> "add", client |-> d]
      BY <3>1, OpKinds
    <3>6. \A d \in Client : Registered(d) /\ d # op.client => id[d] # id[op.client]
      BY <1>0, <3>1, <3>3 DEF Numbered, UniqueIds
    <3>7. \A d \in Client : Registered(d)' => clients'[id'[d]] = d
      BY <2>1, <2>2, <3>4, <3>5, <3>6 DEF Known
    <3> QED
      BY <2>1, <3>7, OpKinds DEF Known
  <2>5. CASE op.do = "remove"
    <3>1. op.id \in ProxyId /\ op = [do |-> "remove", id |-> op.id]
      BY <2>3, <2>5 DEF Op
    <3>2. PICK c \in Client : id[c] = op.id /\ Left(c)
      BY <3>1 DEF Known
    <3>3. \A j \in ProxyId : j # op.id => clients'[j] = clients[j]
      BY <1>9, <2>5, <3>1 DEF HubWrites, Without, HTypeOK
    <3>4. \A d \in Client : Registered(d) => id[d] # op.id
      BY <1>0, <3>1, <3>2 DEF Numbered, UniqueIds, Registered
    <3>5. \A d \in Client : Registered(d) => clients[id[d]] = d
      BY <3>1, OpKinds DEF Known
    <3>6. \A d \in Client : Registered(d)' => clients'[id'[d]] = d
      BY <2>1, <2>2, <3>3, <3>4, <3>5
    <3> QED
      BY <2>1, <3>6, OpKinds DEF Known
  <2> QED
    BY <1>9, <2>4, <2>5 DEF HubWrites
<1> QED
  BY <1>6, <1>7, <1>8, <1>9, MostAreQuiet
-----------------------------------------------------------------------------
(* The messages of a client follow the request that waits: a step moves them *)
(* or takes some away, and only Send brings one.                             *)
LEMMA BelongsStays ==
  ASSUME CalmInv, NEW c \in Client, NEW r \in Request,
         r \in Waiting(c)', at'[c]["reader"] # "gone",
         r \in Waiting(c), at[c]["reader"] # "gone",
         \/ inbox'[c] \in {inbox[c], <<>>}
         \/ inbox[c] # <<>> /\ inbox'[c] = Tail(inbox[c]),
         \/ outbox'[c] \in {outbox[c], <<>>}
         \/ outbox[c] # <<>> /\ outbox'[c] = Tail(outbox[c])
         \/ inbox[c] # <<>> /\ outbox'[c] = Append(outbox[c], Head(inbox[c])),
         \/ hand'[c] \in {hand[c], {}}
         \/ outbox[c] # <<>> /\ hand'[c] = {Head(outbox[c])}
  PROVE  MessagesOf(c, r)'
<1>1. /\ inbox[c] \in Seq({r}) /\ outbox[c] \in Seq({r})
      /\ hand[c] \subseteq {r}
  BY DEF CalmInv, Belongs, MessagesOf
<1>2. \A q \in Seq({r}) : q # <<>> => Head(q) = r /\ Tail(q) \in Seq({r})
  OBVIOUS
<1>3. \A q \in Seq({r}) : Append(q, r) \in Seq({r})
  OBVIOUS
<1>4. <<>> \in Seq({r})
  OBVIOUS
<1>5. inbox'[c] \in Seq({r})
  BY <1>1, <1>2, <1>4
<1>6. outbox'[c] \in Seq({r})
  BY <1>1, <1>2, <1>3, <1>4
<1>7. hand'[c] \subseteq {r}
  BY <1>1, <1>2
<1> QED
  BY <1>5, <1>6, <1>7 DEF MessagesOf

(* A request sends when no other uses the proxy: nobody waits for an answer, *)
(* so none is on its way (Balanced), and its own message is the only one.    *)
LEMMA SendBelongs ==
  ASSUME CalmInv, NEW r \in Request, Send(r), NEW c \in Client, NEW q \in Request,
         q \in Waiting(c)', at'[c]["reader"] # "gone"
  PROVE  MessagesOf(c, q)'
<1> USE DEF CalmInv, CInv, HInv
<1>1. /\ pc[r] = "send" /\ pc' = [pc EXCEPT ![r] = "wait"]
      /\ at[target[r]]["writer"] = "listen"
      /\ UNCHANGED <<conn, outbox, hand, at, target>>
      /\ \/ inbox' = [inbox EXCEPT ![target[r]] = Append(inbox[target[r]], r)]
         \/ inbox' = inbox
  BY DEF Send, Written
<1>2. CASE c # target[r]
  <2>1. inbox'[c] = inbox[c]
    BY <1>1, <1>2 DEF HTypeOK
  <2>2. q \in Waiting(c)
    BY <1>1, <1>2 DEF Waiting, HTypeOK
  <2> QED
    BY <1>1, <2>1, <2>2, BelongsStays
<1>3. CASE c = target[r]
  <2>1. q = r /\ Waiting(c) = {}
    <3>1. q \in Using(c) /\ r \in Using(c)
      BY <1>1, <1>3 DEF Using, Waiting
    <3>2. \A p \in Using(c) : p = r
      BY <3>1 DEF CalmTraffic, OneEach
    <3>3. Waiting(c) \subseteq Using(c) /\ r \notin Waiting(c)
      BY <1>1 DEF Waiting, Using
    <3> QED
      BY <3>1, <3>2, <3>3
  <2>2. Coming(c) <= 0
    <3>1. \A s \in Side : at[c][s] # "gone"
      BY <1>1, <1>3 DEF Side
    <3>2. Coming(c) <= Cardinality(Waiting(c))
      BY <3>1 DEF Orderly, Balanced
    <3> QED
      BY <2>1, <3>2, FS_EmptySet
  <2>3. Len(inbox[c]) = 0 /\ Len(outbox[c]) = 0 /\ at[c]["reader"] # "deliver"
    <3>1. /\ Len(inbox[c]) \in Nat /\ Len(outbox[c]) \in Nat
          /\ Cardinality(hand[c]) = IF at[c]["reader"] = "deliver" THEN 1 ELSE 0
      BY Counts
    <3>2. \A i, o, h \in Nat : i + o + h <= 0 => i = 0 /\ o = 0 /\ h = 0
      OBVIOUS
    <3>3. Cardinality(hand[c]) \in Nat
      BY <3>1
    <3>4. Len(inbox[c]) + Len(outbox[c]) + Cardinality(hand[c]) <= 0
      BY <2>2, Zenon DEF Coming
    <3>5. Len(inbox[c]) = 0 /\ Len(outbox[c]) = 0 /\ Cardinality(hand[c]) = 0
      BY <3>1, <3>2, <3>3, <3>4, Zenon
    <3> QED
      BY <3>1, <3>5
  <2>4. inbox[c] = <<>> /\ outbox[c] = <<>> /\ hand[c] = {}
    BY <2>3 DEF HTypeOK, Orderly, Line
  <2>5. inbox'[c] \in {<<>>, Append(<<>>, r)}
    BY <1>1, <1>3, <2>4 DEF HTypeOK
  <2>6. <<>> \in Seq({r}) /\ Append(<<>>, r) \in Seq({r})
    OBVIOUS
  <2> QED
    BY <1>1, <2>1, <2>4, <2>5, <2>6 DEF MessagesOf
<1> QED
  BY <1>2, <1>3

LEMMA BelongsStep ==
  ASSUME CalmInv, [Next]_vars
  PROVE  Belongs'
<1> SUFFICES ASSUME NEW c \in Client, NEW r \in Request,
                    r \in Waiting(c)', at'[c]["reader"] # "gone"
             PROVE  MessagesOf(c, r)'
  BY DEF Belongs
<1> USE DEF CalmInv, CInv, HInv
<1>0. HTypeOK /\ "reader" \in Side
  BY DEF Side
<1>1. ASSUME UNCHANGED wirevars, Waiting(c)' \subseteq Waiting(c),
             at[c]["reader"] = "gone" => at'[c]["reader"] = "gone"
      PROVE  MessagesOf(c, r)'
  BY <1>1, BelongsStays DEF wirevars
<1>2. UNCHANGED reqvars => Waiting(c)' = Waiting(c)
  BY SameRequests DEF reqvars
<1>3. ASSUME NEW d \in Client, NEW s \in Side, NEW from, NEW to \in At,
             Go(d, s, from, to), from = "gone" => to = "gone"
      PROVE  at[c]["reader"] = "gone" => at'[c]["reader"] = "gone"
  BY <1>0, <1>3, GoFacts
<1>4. ASSUME NEW d \in Client, Connect(d) PROVE MessagesOf(c, r)'
  <2>1. at[c]["reader"] = "gone" => at'[c]["reader"] = "gone"
    BY <1>3, <1>4 DEF Connect, At, Side
  <2> QED
    BY <1>2, <1>4, <2>1, BelongsStays DEF Connect
<1>5. ASSUME NEW d \in Client, NEW s \in Side,
             Name(d) \/ Add(d) \/ Notice(d, s) \/ Remove(d, s) \/ MarkDead(d, s)
      PROVE  MessagesOf(c, r)'
  <2>1. at[c]["reader"] = "gone" => at'[c]["reader"] = "gone"
    BY <1>3, <1>5 DEF Name, Add, Notice, Remove, MarkDead, At, Leaving, Side
  <2>2. UNCHANGED <<wirevars, reqvars>>
    BY <1>5 DEF Name, Add, Notice, Remove, MarkDead
  <2> QED
    BY <1>1, <1>2, <2>1, <2>2
<1>6. ASSUME NEW d \in Client, Insert(d) PROVE MessagesOf(c, r)'
  <2>1. /\ at[d]["writer"] = "insert"
        /\ at'[c]["reader"] = IF c = d THEN "read" ELSE at[c]["reader"]
    BY <1>0, <1>6, InsertFacts
  <2>2. at[d]["reader"] = "none"
    BY <2>1 DEF Shapes, Shape, Starting
  <2>3. at[c]["reader"] = "gone" => at'[c]["reader"] = "gone"
    BY <2>1, <2>2
  <2> QED
    BY <1>1, <1>2, <1>6, <2>3 DEF Insert
<1>7. ASSUME NEW d \in Client, Read(d) PROVE MessagesOf(c, r)'
  <2>1. at[c]["reader"] = "gone" => at'[c]["reader"] = "gone"
    BY <1>3, <1>7 DEF Read, At, Side
  <2>2. /\ inbox'[c] = inbox[c]
        /\ \/ outbox'[c] = outbox[c] /\ hand'[c] = hand[c]
           \/ /\ outbox[c] # <<>>
              /\ outbox'[c] = Tail(outbox[c]) /\ hand'[c] = {Head(outbox[c])}
    BY <1>0, <1>7 DEF Read, HTypeOK
  <2> QED
    BY <1>2, <1>7, <2>1, <2>2, BelongsStays DEF Read
<1>8. ASSUME NEW d \in Client, ProxyAnswers(d) PROVE MessagesOf(c, r)'
  <2>1. /\ UNCHANGED at /\ hand'[c] = hand[c]
        /\ \/ inbox'[c] = inbox[c] /\ outbox'[c] = outbox[c]
           \/ /\ inbox[c] # <<>> /\ inbox'[c] = Tail(inbox[c])
              /\ outbox'[c] = Append(outbox[c], Head(inbox[c]))
    BY <1>8 DEF ProxyAnswers, HTypeOK
  <2> QED
    BY <1>2, <1>8, <2>1, BelongsStays DEF ProxyAnswers
<1>9. ASSUME NEW d \in Client, Break(d) PROVE MessagesOf(c, r)'
  <2>1. /\ UNCHANGED at /\ hand'[c] = hand[c]
        /\ inbox'[c] \in {inbox[c], <<>>} /\ outbox'[c] \in {outbox[c], <<>>}
    BY <1>9 DEF Break, HTypeOK
  <2> QED
    BY <1>2, <1>9, <2>1, BelongsStays DEF Break
<1>10. ASSUME NEW q \in Request, Meeting(q) PROVE MessagesOf(c, r)'
  <2>1. PICK d \in Client : Deliver(d, q) \/ \E s \in Side : Goodbye(d, s, q)
    BY <1>10 DEF Meeting
  <2>2. Answered(q)
    BY <2>1 DEF Deliver, Goodbye
  <2>3. Waiting(c)' \subseteq Waiting(c)
    BY <2>2, AnsweredRequests
  <2>4. at[c]["reader"] = "gone" => at'[c]["reader"] = "gone"
    BY <1>3, <2>1 DEF Deliver, Goodbye, At, Leaving, Side
  <2>5. /\ UNCHANGED <<inbox, outbox>>
        /\ hand'[c] \in {hand[c], {}}
    BY <2>1 DEF Deliver, Goodbye, wirevars, HTypeOK
  <2> QED
    BY <2>3, <2>4, <2>5, BelongsStays
<1>11. ASSUME NEW q \in Request, Search(q) PROVE MessagesOf(c, r)'
  <2>1. Waiting(c)' = Waiting(c)
    BY <1>11 DEF Search, Waiting, HTypeOK
  <2> QED
    BY <1>1, <1>11, <2>1 DEF Search
<1>12. ASSUME \/ \E q \in Request : MapRace(q)
              \/ HubWrites \/ EnsureIndex \/ UNCHANGED vars
       PROVE  MessagesOf(c, r)'
  <2>1. UNCHANGED <<at, wirevars, reqvars>>
    BY <1>12 DEF MapRace, HubWrites, EnsureIndex, wirevars, reqvars, vars
  <2> QED
    BY <1>1, <1>2, <2>1
<1>13. "writer" \in Side
  BY DEF Side
<1> QED
  BY <1>4, <1>5, <1>6, <1>7, <1>8, <1>9, <1>10, <1>11, <1>12, <1>13, SendBelongs
  DEF Next, ClientStep
-----------------------------------------------------------------------------
LEMMA CalmNextInv == CalmInv /\ [Next /\ CalmTraffic']_vars => CalmInv'
<1> SUFFICES ASSUME CalmInv, [Next /\ CalmTraffic']_vars PROVE CalmInv'
  OBVIOUS
<1>1. CInv'
  BY CNextInv DEF CalmInv
<1>2. CalmTraffic'
  BY DEF CalmInv, CalmTraffic, OneNaming, OneEach, Using, vars, reqvars
<1>3. Numbered' /\ Known' /\ Belongs'
  BY <1>2, NumberedStep, KnownStep, BelongsStep
<1> QED
  BY <1>1, <1>2, <1>3 DEF CalmInv

(* As long as NewClient runs for one proxy at a time, no two proxies share   *)
(* an id, although the counter is read after it was added to.                *)
THEOREM UniqueIdsCalm == CalmSpec => []UniqueIds
<1>1. CalmInv => UniqueIds
  BY DEF CalmInv, Numbered
<1> QED
  BY CalmInitInv, CalmNextInv, <1>1, PTL DEF CalmSpec

(* No proxy gets a second document, although main drops the unique index:    *)
(* that takes two clients with one id.                                       *)
THEOREM NoDoublesCalm == CalmSpec => []NoDoubles
<1>1. CalmInv => NoDoubles
  <2> SUFFICES ASSUME CalmInv, NEW i \in ProxyId, Shared(i) PROVE FALSE
    BY DEF NoDoubles, CalmInv, CInv, HInv, Documents
  <2>1. UniqueIds /\ i # 0
    BY IdsArePositive DEF CalmInv, Numbered
  <2> QED
    BY <2>1 DEF Shared, UniqueIds
<1> QED
  BY CalmInitInv, CalmNextInv, <1>1, PTL DEF CalmSpec

(* Whenever the hub is at rest it finds every proxy that listens, although   *)
(* clients do not wait for the map to change, and others leave meanwhile.    *)
THEOREM ListenersKnownCalm == CalmSpec => []ListenersKnown
<1>1. CalmInv => ListenersKnown
  <2> SUFFICES ASSUME CalmInv, op = NoOp, NEW c \in Client, Listening(c)
               PROVE  clients[id[c]] = c
    BY DEF ListenersKnown
  <2>1. Registered(c)
    BY DEF Listening, Registered, Left, Leaving, Early, Side
  <2>2. op # [do |-> "add", client |-> c]
    BY OpKinds
  <2> QED
    BY <2>1, <2>2 DEF CalmInv, Known
<1> QED
  BY CalmInitInv, CalmNextInv, <1>1, PTL DEF CalmSpec

(* With one request at a time through each proxy, the answer that the reader *)
(* hands over is the answer to the request that takes it, whatever           *)
(* connections break with requests and answers on their way.                 *)
THEOREM OwnAnswerCalm == CalmSpec => OwnAnswer
<1>1. ASSUME CalmInv, NEW c \in Client, NEW r \in Request, Deliver(c, r)
      PROVE  hand[c] = {r}
  <2>1. r \in Waiting(c) /\ at[c]["reader"] = "deliver"
    BY <1>1 DEF Deliver, Answered, Waiting, Go
  <2>2. hand[c] \subseteq {r}
    BY <1>1, <2>1 DEF CalmInv, Belongs, MessagesOf
  <2>3. \E q \in Request : hand[c] = {q}
    BY <1>1, <2>1 DEF CalmInv, CInv, Orderly, Line
  <2> QED
    BY <2>2, <2>3
<1>2. CalmInv => [\A c \in Client, r \in Request : Deliver(c, r) => hand[c] = {r}]_vars
  BY <1>1
<1> QED
  BY CalmInitInv, CalmNextInv, <1>2, PTL DEF CalmSpec, OwnAnswer
-----------------------------------------------------------------------------
(* Refinement: what the scanner takes the hub for (HubLinks).  The stage of  *)
(* an id is that of the client it was given to.                              *)
Placed ==
  \A i \in ProxyId :
    /\ \A c \in Client : id[c] = i => LinkOf(i) = Stage(c)
    /\ (\A c \in Client : id[c] # i) => LinkOf(i) = "new"

LEMMA LinkFacts == UniqueIds => Placed
<1> SUFFICES ASSUME UniqueIds, NEW i \in ProxyId
             PROVE  /\ \A c \in Client : id[c] = i => LinkOf(i) = Stage(c)
                    /\ (\A c \in Client : id[c] # i) => LinkOf(i) = "new"
  BY DEF Placed
<1>1. i # 0
  BY IdsArePositive
<1>2. ASSUME NEW c \in Client, id[c] = i PROVE (CHOOSE d \in Client : id[d] = i) = c
  <2>1. \E d \in Client : id[d] = i
    BY <1>2
  <2>2. /\ (CHOOSE d \in Client : id[d] = i) \in Client
        /\ id[CHOOSE d \in Client : id[d] = i] = i
    BY <2>1
  <2> QED
    BY <1>1, <1>2, <2>2 DEF UniqueIds
<1> QED
  BY <1>2, Zenon DEF LinkOf

(* What a step does to the stages of the clients, and to their records.      *)
Stays == UNCHANGED proxies /\ \A d \in Client : Stage(d)' = Stage(d)

Moves(c, from, to) ==
  /\ id[c] \in ProxyId /\ id' = id
  /\ Stage(c) = from /\ Stage(c)' = to
  /\ \A d \in Client \ {c} : Stage(d)' = Stage(d)

Moved ==
  \E c \in Client :
    \/ Moves(c, "new", "connected") /\ AddProxy(id[c])
    \/ Moves(c, "connected", "removed") /\ UNCHANGED proxies
    \/ /\ Moves(c, "removed", "marked") \/ Moves(c, "marked", "buried")
       /\ UpdateProxy(id[c])

LEMMA StageSteps ==
  ASSUME HInv, [Next]_vars
  PROVE  Stays \/ Moved
<1> USE DEF HInv, dbvars
<1>0. "writer" \in Side /\ "reader" \in Side /\ HTypeOK
  BY DEF Side
<1>1. ASSUME NEW c \in Client, NEW s \in Side, NEW from, NEW to \in At,
             Go(c, s, from, to), UNCHANGED proxies,
             from \in Starting <=> to \in Starting,
             from = "none" => s # "reader",
             to = "none" => s # "reader",
             from \in Gone <=> to \in Gone,
             from \in {"goodbye", "gone"} <=> to \in {"goodbye", "gone"}
      PROVE  Stays
  <2>1. /\ at[c][s] = from
        /\ \A d \in Client, u \in Side : at'[d][u] = IF d = c /\ u = s THEN to ELSE at[d][u]
    BY <1>0, <1>1, GoFacts
  <2>2. ASSUME NEW d \in Client PROVE Stage(d)' = Stage(d)
    <3>1. Markers(d)' = Markers(d)
      BY <1>1, <2>1 DEF Markers
    <3>2. Left(d)' <=> Left(d)
      BY <1>1, <2>1 DEF Left, Gone
    <3>3. at'[d]["reader"] = "none" <=> at[d]["reader"] = "none"
      BY <1>0, <1>1, <2>1
    <3> QED
      BY <3>1, <3>2, <3>3 DEF Stage
  <2> QED
    BY <1>1, <2>2 DEF Stays
<1>2. ASSUME NEW c \in Client, Connect(c) \/ Name(c) \/ Add(c) PROVE Stays
  BY <1>0, <1>1, <1>2 DEF Connect, Name, Add, At, Gone, Leaving, Starting
<1>3. ASSUME NEW c \in Client, Insert(c) PROVE Moved
  <2>1. /\ at[c]["writer"] = "insert" /\ id' = id /\ AddProxy(id[c])
        /\ \A d \in Client, u \in Side :
             at'[d][u] = IF d = c THEN IF u = "writer" THEN "listen" ELSE "read"
                                  ELSE at[d][u]
    BY <1>0, <1>3, InsertFacts DEF Insert, hubvars
  <2>2. id[c] \in ProxyId /\ at[c]["reader"] = "none"
    BY <1>0, <2>1 DEF Shapes, Shape, Starting, HTypeOK
  <2>3. at'[c]["reader"] # "none" /\ ~Left(c)'
    BY <1>0, <2>1 DEF Left, Leaving, Side
  <2>4. Stage(c) = "new" /\ Stage(c)' = "connected"
    BY <2>2, <2>3 DEF Stage
  <2>5. ASSUME NEW d \in Client \ {c} PROVE Stage(d)' = Stage(d)
    <3>1. \A u \in Side : at'[d][u] = at[d][u]
      BY <2>1
    <3>2. Markers(d)' = Markers(d) /\ (Left(d)' <=> Left(d))
      BY <3>1 DEF Markers, Left
    <3> QED
      BY <1>0, <3>1, <3>2 DEF Stage
  <2> QED
    BY <2>1, <2>2, <2>4, <2>5 DEF Moved, Moves
<1>4. ASSUME NEW c \in Client, Read(c) PROVE Stays
  BY <1>0, <1>1, <1>4 DEF Read, At, Gone, Leaving, Starting
<1>5. ASSUME NEW c \in Client, NEW s \in Side, Notice(c, s) PROVE Stays
  BY <1>0, <1>1, <1>5 DEF Notice, At, Gone, Leaving, Starting
<1>6. ASSUME NEW c \in Client, NEW s \in Side, NEW from \in Leaving, NEW to \in Leaving,
             Go(c, s, from, to), id' = id
      PROVE  /\ at[c]["reader"] # "none" /\ at'[c]["reader"] # "none"
             /\ id[c] \in ProxyId
             /\ at[c][s] = from /\ at'[c][s] = to
             /\ \A u \in Side \ {s} : at'[c][u] = at[c][u]
             /\ \A d \in Client \ {c} : Stage(d)' = Stage(d)
  <2>1. /\ at[c][s] = from
        /\ \A d \in Client, u \in Side : at'[d][u] = IF d = c /\ u = s THEN to ELSE at[d][u]
    <3>1. to \in At
      BY DEF At
    <3> QED
      BY <1>0, <1>6, <3>1, GoFacts
  <2>2. at[c]["reader"] # "none" /\ id[c] \in ProxyId
    BY <1>6, <2>1 DEF Shapes, Shape, Starting, Leaving, HTypeOK, Side
  <2>3. at'[c]["reader"] # "none"
    BY <1>0, <1>6, <2>1, <2>2 DEF Leaving
  <2>4. ASSUME NEW d \in Client \ {c} PROVE Stage(d)' = Stage(d)
    <3>1. \A u \in Side : at'[d][u] = at[d][u]
      BY <2>1
    <3>2. Markers(d)' = Markers(d) /\ (Left(d)' <=> Left(d))
      BY <3>1 DEF Markers, Left
    <3> QED
      BY <1>0, <3>1, <3>2 DEF Stage
  <2> QED
    BY <2>1, <2>2, <2>3, <2>4
<1>7. ASSUME NEW c \in Client, NEW s \in Side, Remove(c, s) PROVE Stays \/ Moved
  <2>1. Go(c, s, "remove", "mark") /\ UNCHANGED <<id, proxies>>
    BY <1>7 DEF Remove
  <2>2. /\ at[c]["reader"] # "none" /\ at'[c]["reader"] # "none"
        /\ id[c] \in ProxyId
        /\ at[c][s] = "remove" /\ at'[c][s] = "mark"
        /\ \A u \in Side \ {s} : at'[c][u] = at[c][u]
        /\ \A d \in Client \ {c} : Stage(d)' = Stage(d)
    BY <1>6, <2>1 DEF Leaving
  <2>3. Markers(c)' = Markers(c)
    BY <2>2 DEF Markers
  <2>4. Left(c)' /\ (Left(c) \/ Markers(c) = {})
    BY <2>2 DEF Left, Leaving, Markers
  <2>5. CASE Left(c)
    <3>1. Stage(c)' = Stage(c)
      BY <2>2, <2>3, <2>4, <2>5 DEF Stage
    <3> QED
      BY <2>1, <2>2, <3>1 DEF Stays
  <2>6. CASE ~Left(c)
    <3>1. Stage(c) = "connected" /\ Stage(c)' = "removed"
      BY <2>2, <2>3, <2>4, <2>6 DEF Stage
    <3> QED
      BY <2>1, <2>2, <3>1 DEF Moved, Moves
  <2> QED
    BY <2>5, <2>6
<1>8. ASSUME NEW c \in Client, NEW s \in Side, MarkDead(c, s) PROVE Moved
  <2>1. Go(c, s, "mark", "goodbye") /\ id' = id /\ UpdateProxy(id[c])
    BY <1>8 DEF MarkDead, hubvars
  <2>2. /\ at[c]["reader"] # "none" /\ at'[c]["reader"] # "none"
        /\ id[c] \in ProxyId
        /\ at[c][s] = "mark" /\ at'[c][s] = "goodbye"
        /\ \A u \in Side \ {s} : at'[c][u] = at[c][u]
        /\ \A d \in Client \ {c} : Stage(d)' = Stage(d)
    BY <1>6, <2>1 DEF Leaving
  <2>3. Left(c) /\ Left(c)'
    BY <2>2 DEF Left, Leaving
  <2>4. s \notin Markers(c) /\ Markers(c)' = Markers(c) \cup {s}
    BY <2>2 DEF Markers
  <2>5. Markers(c) \subseteq Side /\ Side # {s}
    BY DEF Markers, Side
  <2>6. CASE Markers(c) = {}
    <3>1. Stage(c) = "removed"
      BY <2>2, <2>3, <2>6 DEF Stage
    <3>2. Markers(c)' # {} /\ Markers(c)' # Side
      BY <2>4, <2>5, <2>6
    <3>3. Stage(c)' = "marked"
      BY <2>2, <2>3, <3>2 DEF Stage
    <3> QED
      BY <2>1, <2>2, <3>1, <3>3 DEF Moved, Moves
  <2>7. CASE Markers(c) # {}
    <3>1. Markers(c) # Side
      BY <2>4
    <3>2. Markers(c)' = Side
      BY <2>4, <2>5, <2>7 DEF Side
    <3>3. Stage(c) = "marked" /\ Stage(c)' = "buried"
      BY <2>2, <2>3, <2>5, <2>7, <3>1, <3>2 DEF Stage
    <3> QED
      BY <2>1, <2>2, <3>3 DEF Moved, Moves
  <2> QED
    BY <2>6, <2>7
<1>9. ASSUME NEW r \in Request, Meeting(r) PROVE Stays
  <2>1. PICK c \in Client : Deliver(c, r) \/ \E s \in Side : Goodbye(c, s, r)
    BY <1>9 DEF Meeting
  <2>2. CASE Deliver(c, r)
    BY <1>0, <1>1, <2>2 DEF Deliver, At, Gone, Leaving, Starting
  <2>3. ASSUME NEW s \in Side, Goodbye(c, s, r) PROVE Stays
    BY <1>1, <2>3 DEF Goodbye, At, Gone, Leaving, Starting
  <2> QED
    BY <2>1, <2>2, <2>3
<1>10. ASSUME UNCHANGED <<at, proxies, id, maxID>> PROVE Stays
  BY <1>10 DEF Stays, Stage, Markers, Left
<1> QED
  BY <1>2, <1>3, <1>4, <1>5, <1>7, <1>8, <1>9, <1>10, OtherStepsStay
  DEF Next, ClientStep

LEMMA StepInLinks ==
  ASSUME CalmInv, CalmInv', [Next]_vars
  PROVE  [Links!LinksNext]_(Links!linkvars)
<1> DEFINE link == [i \in ProxyId |-> LinkOf(i)]
<1>0. /\ \A i \in ProxyId : link[i] = LinkOf(i) /\ link'[i] = LinkOf(i)'
      /\ \A i \in ProxyId : \A to :
           (\A j \in ProxyId : LinkOf(j)' = IF j = i THEN to ELSE LinkOf(j)) =>
             link' = [link EXCEPT ![i] = to]
  OBVIOUS
<1>1. \A i \in ProxyId :
        /\ \A c \in Client : id[c] = i => LinkOf(i) = Stage(c)
        /\ (\A c \in Client : id[c] # i) => LinkOf(i) = "new"
  BY LinkFacts DEF CalmInv, Numbered, Placed
<1>2. \A i \in ProxyId :
        /\ \A c \in Client : id'[c] = i => LinkOf(i)' = Stage(c)'
        /\ (\A c \in Client : id'[c] # i) => LinkOf(i)' = "new"
  <2>1. UniqueIds' => Placed'
    BY LinkFacts, PTL
  <2> QED
    BY <2>1 DEF CalmInv, Numbered, Placed
<1>3. CASE Stays
  <2>1. ASSUME NEW c \in Client PROVE id'[c] = id[c] \/ (Stage(c) = "new" /\ id[c] = 0)
    <3>1. id'[c] = id[c] \/ Name(c)
      BY StepOnward DEF Onward, CalmInv, CInv
    <3>2. Name(c) => at[c]["reader"] = "none" /\ id[c] = 0
      BY DEF CalmInv, CInv, HInv, Shapes, Shape, Starting, Name, Go
    <3> QED
      BY <3>1, <3>2 DEF Stage
  <2>2. ASSUME NEW i \in ProxyId PROVE LinkOf(i)' = LinkOf(i)
    <3>1. i # 0
      BY IdsArePositive
    <3>2. CASE \E c \in Client : id[c] = i
      BY <1>1, <1>2, <1>3, <2>1, <3>1, <3>2 DEF Stays
    <3>3. CASE \A c \in Client : id[c] # i
      BY <1>1, <1>2, <1>3, <2>1, <3>1, <3>3 DEF Stays
    <3> QED
      BY <3>2, <3>3
  <2>3. link' = link
    BY <2>2
  <2> QED
    BY <1>3, <2>3 DEF Stays, Links!linkvars
<1>4. CASE Moved
  <2>1. ASSUME NEW c \in Client, NEW from, NEW to, Moves(c, from, to)
        PROVE  id[c] \in ProxyId /\ Links!Move(id[c], from, to)
    <3>1. id[c] \in ProxyId /\ id' = id /\ Stage(c) = from /\ Stage(c)' = to
      BY <2>1 DEF Moves
    <3>2. LinkOf(id[c]) = from
      BY <1>1, <3>1
    <3>3. ASSUME NEW j \in ProxyId
          PROVE  LinkOf(j)' = IF j = id[c] THEN to ELSE LinkOf(j)
      <4>1. CASE j = id[c]
        BY <1>2, <3>1, <4>1
      <4>2. CASE j # id[c]
        <5>1. CASE \E d \in Client : id[d] = j
          BY <1>1, <1>2, <2>1, <3>1, <4>2, <5>1 DEF Moves
        <5>2. CASE \A d \in Client : id[d] # j
          BY <1>1, <1>2, <3>1, <4>2, <5>2
        <5> QED
          BY <5>1, <5>2
      <4> QED
        BY <4>1, <4>2
    <3> QED
      BY <1>0, <3>1, <3>2, <3>3 DEF Links!Move
  <2>2. PICK c \in Client :
          \/ Moves(c, "new", "connected") /\ AddProxy(id[c])
          \/ Moves(c, "connected", "removed") /\ UNCHANGED proxies
          \/ /\ Moves(c, "removed", "marked") \/ Moves(c, "marked", "buried")
             /\ UpdateProxy(id[c])
    BY <1>4 DEF Moved
  <2>3. id[c] \in ProxyId
    BY <2>1, <2>2
  <2>4. CASE Moves(c, "new", "connected") /\ AddProxy(id[c])
    <3>1. Links!LinkUp(id[c])
      BY <2>1, <2>4 DEF Links!LinkUp, Links!AddProxy, AddProxy
    <3> QED
      BY <2>3, <3>1 DEF Links!LinksNext
  <2>5. CASE Moves(c, "connected", "removed") /\ UNCHANGED proxies
    <3>1. Links!LinkDown(id[c]) /\ UNCHANGED proxies
      BY <2>1, <2>5 DEF Links!LinkDown
    <3> QED
      BY <2>3, <3>1 DEF Links!LinksNext
  <2>6. CASE /\ Moves(c, "removed", "marked") \/ Moves(c, "marked", "buried")
             /\ UpdateProxy(id[c])
    <3>1. Links!LinkDead(id[c])
      BY <2>1, <2>6 DEF Links!LinkDead, Links!UpdateProxy, UpdateProxy
    <3> QED
      BY <2>3, <3>1 DEF Links!LinksNext
  <2> QED
    BY <2>2, <2>4, <2>5, <2>6
<1> QED
  BY <1>3, <1>4, StageSteps DEF CalmInv, CInv

(* Under the traffic it is built for the hub is what Scanner takes it for:   *)
(* each id goes up once, down once, and is marked dead twice after that.     *)
THEOREM HubImplementsLinks == CalmSpec => ImplementsLinks
<1>1. Init => Links!LinksInit
  <2> SUFFICES ASSUME Init PROVE Links!LinksInit
    OBVIOUS
  <2>1. \A c \in Client : Stage(c) = "new"
    BY DEF Init, Stage, Side
  <2>2. \A i \in ProxyId : i # 0
    BY IdsArePositive
  <2>3. \A i \in ProxyId : LinkOf(i) = "new"
    BY <2>2 DEF Init, LinkOf
  <2> QED
    BY <2>3 DEF Init, Links!LinksInit
<1>2. [Next /\ CalmTraffic']_vars => [Next]_vars
  OBVIOUS
<1> QED
  BY CalmInitInv, CalmNextInv, StepInLinks, <1>1, <1>2, PTL
  DEF CalmSpec, ImplementsLinks, Links!LinksSpec
=============================================================================
