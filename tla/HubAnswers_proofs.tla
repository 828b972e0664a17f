-------------------------- MODULE HubAnswers_proofs --------------------------
(***************************************************************************)
(* Proof that the hub counts right: however many proxies, requests and     *)
(* disconnects there are, the answers that are on their way through a      *)
(* client are as many as the requests that wait for one.  The answers are  *)
(* spread over two queues and the reader's hand, the requests over a set,  *)
(* so a step is followed by what it does to their numbers.                 *)
(***************************************************************************)
EXTENDS ProxyHub_proofs, FiniteSetTheorems

(* What AnswerForEach says of one client. *)
Balanced(c) ==
  /\ (\A s \in Side : at[c][s] # "gone") => Coming(c) <= Cardinality(Waiting(c))
  /\ conn[c] = "open" => Coming(c) = Cardinality(Waiting(c))

(* Nothing is on its way before a client connects, the reader holds one      *)
(* answer while it delivers and none otherwise, a goroutine leaves only when *)
(* the connection is closed, and requests arrived one by one.                *)
Line(c) ==
  /\ at[c]["writer"] = "none" =>
       /\ conn[c] = "new" /\ inbox[c] = <<>> /\ outbox[c] = <<>>
       /\ Waiting(c) = {}
  /\ at[c]["reader"] # "deliver" => hand[c] = {}
  /\ at[c]["reader"] = "deliver" => \E r \in Request : hand[c] = {r}
  /\ \A s \in Side : at[c][s] \in Leaving => conn[c] = "closed"
  /\ IsFiniteSet(Waiting(c))

Orderly(c) == Line(c) /\ Balanced(c)

CInv == HInv /\ \A c \in Client : Orderly(c)
-----------------------------------------------------------------------------
LEMMA CInitInv == Init => CInv
<1> SUFFICES ASSUME Init, NEW c \in Client PROVE Orderly(c)
  BY HInitInv DEF CInv
<1>1. Waiting(c) = {}
  BY NoClientDistinct DEF Init, Waiting
<1>2. /\ inbox[c] = <<>> /\ outbox[c] = <<>> /\ hand[c] = {}
      /\ conn[c] = "new"
      /\ \A s \in Side : at[c][s] = "none"
  BY DEF Init
<1>3. Line(c)
  BY <1>1, <1>2, FS_EmptySet DEF Line, Side, Leaving
<1>4. Coming(c) = 0
  BY <1>2, FS_EmptySet DEF Coming
<1> QED
  BY <1>1, <1>2, <1>3, <1>4, FS_EmptySet DEF Orderly, Balanced

(* The numbers are numbers. *)
LEMMA Counts ==
  ASSUME CInv, NEW c \in Client
  PROVE  /\ Len(inbox[c]) \in Nat /\ Len(outbox[c]) \in Nat
         /\ Cardinality(hand[c]) = IF at[c]["reader"] = "deliver" THEN 1 ELSE 0
         /\ Cardinality(Waiting(c)) \in Nat
         /\ Coming(c) \in Nat
<1>1. Len(inbox[c]) \in Nat /\ Len(outbox[c]) \in Nat
  BY DEF CInv, HInv, HTypeOK
<1>2. Cardinality(hand[c]) = IF at[c]["reader"] = "deliver" THEN 1 ELSE 0
  BY FS_EmptySet, FS_Singleton DEF CInv, Orderly, Line
<1>3. Cardinality(Waiting(c)) \in Nat
  BY FS_CardinalityType DEF CInv, Orderly, Line
<1>4. Coming(c) \in Nat
  <2>1. Cardinality(hand[c]) \in Nat
    BY <1>2
  <2>2. \A k, m, n \in Nat : k + m + n \in Nat
    OBVIOUS
  <2> QED
    BY <1>1, <2>1, <2>2, Zenon DEF Coming
<1> QED
  BY <1>1, <1>2, <1>3, <1>4

(* What a step does to the requests of a client. *)
LEMMA SameRequests ==
  ASSUME UNCHANGED <<pc, target>>, NEW d \in Client
  PROVE  Waiting(d)' = Waiting(d)
BY DEF Waiting

LEMMA AnsweredRequests ==
  ASSUME CInv, NEW r \in Request, Answered(r), NEW d \in Client
  PROVE  Waiting(d)' = IF target[r] = d THEN Waiting(d) \ {r} ELSE Waiting(d)
BY NoClientDistinct DEF CInv, HInv, HTypeOK, Answered, Waiting

(* A step that moves a goroutine of c, and neither a message nor a request,  *)
(* keeps every client in order.                                              *)
LEMMA MoveKeeps ==
  ASSUME CInv, NEW c \in Client, NEW s \in Side, NEW from, NEW to \in At,
         Go(c, s, from, to), from \notin {"none", "gone"}, to \notin {"none", "gone"},
         s = "reader" => from # "deliver" /\ to # "deliver",
         to \in Leaving => conn[c] = "closed",
         UNCHANGED <<wirevars, reqvars>>, NEW d \in Client
  PROVE  Orderly(d)'
<1>1. Waiting(d)' = Waiting(d)
  BY SameRequests DEF reqvars
<1>2. /\ at[c][s] = from
      /\ \A e \in Client, u \in Side :
           at'[e][u] = IF e = c /\ u = s THEN to ELSE at[e][u]
  BY GoFacts DEF CInv, HInv
<1>3. Coming(d)' = Coming(d)
  BY DEF Coming, wirevars
<1>4. Line(d)'
  BY <1>1, <1>2 DEF CInv, Orderly, Line, Side, wirevars
<1>5. Balanced(d)'
  <2>1. (\A u \in Side : at'[d][u] # "gone") => \A u \in Side : at[d][u] # "gone"
    BY <1>2
  <2> QED
    BY <1>1, <1>3, <2>1 DEF CInv, Orderly, Balanced, wirevars
<1> QED
  BY <1>4, <1>5 DEF Orderly

LEMMA ConnectKeeps ==
  ASSUME CInv, NEW c \in Client, Connect(c), NEW d \in Client
  PROVE  Orderly(d)'
<1>1. Waiting(d)' = Waiting(d)
  BY SameRequests DEF Connect, reqvars
<1>2. /\ at[c]["writer"] = "none"
      /\ \A e \in Client, u \in Side :
           at'[e][u] = IF e = c /\ u = "writer" THEN "name" ELSE at[e][u]
  BY GoFacts DEF Connect, CInv, HInv, Side, At
<1>3. /\ UNCHANGED <<inbox, outbox, hand>>
      /\ conn' = [conn EXCEPT ![c] = "open"]
      /\ conn \in [Client -> {"new", "open", "closed"}]
  BY DEF Connect, CInv, HInv, HTypeOK
<1>4. Coming(d)' = Coming(d)
  BY <1>3 DEF Coming
<1>5. at[c]["reader"] = "none"
  BY <1>2 DEF CInv, HInv, Shapes, Shape, Starting
<1>6. Coming(c) = 0 /\ Cardinality(Waiting(c)) = 0
  <2>1. inbox[c] = <<>> /\ outbox[c] = <<>> /\ hand[c] = {} /\ Waiting(c) = {}
    BY <1>2, <1>5 DEF CInv, Orderly, Line
  <2> QED
    BY <2>1, FS_EmptySet DEF Coming
<1>7. Line(d)'
  BY <1>1, <1>2, <1>3, <1>5 DEF CInv, Orderly, Line, Side, Leaving
<1>8. Balanced(d)'
  <2>1. (\A u \in Side : at'[d][u] # "gone") => \A u \in Side : at[d][u] # "gone"
    BY <1>2
  <2> QED
    BY <1>1, <1>3, <1>4, <1>6, <2>1 DEF CInv, Orderly, Balanced
<1> QED
  BY <1>7, <1>8 DEF Orderly

(* The steps of a client's goroutines that move no message.                  *)
LEMMA MovesKeep ==
  ASSUME CInv, NEW c \in Client, NEW s \in Side,
         \/ Name(c) \/ Add(c)
         \/ Notice(c, s) \/ Remove(c, s) \/ MarkDead(c, s),
         NEW d \in Client
  PROVE  Orderly(d)'
<1>0. "writer" \in Side /\ at \in [Client -> [Side -> At]]
  BY DEF Side, CInv, HInv, HTypeOK
<1>1. CASE Name(c)
  BY <1>0, <1>1, MoveKeeps DEF Name, At, Leaving
<1>2. CASE Add(c)
  BY <1>0, <1>2, MoveKeeps DEF Add, At, Leaving
<1>3. CASE Notice(c, s)
  BY <1>3, MoveKeeps DEF Notice, At, Leaving
<1>4. ASSUME at[c][s] \in Leaving PROVE conn[c] = "closed"
  BY <1>4 DEF CInv, Orderly, Line
<1>5. CASE Remove(c, s)
  <2>1. conn[c] = "closed"
    BY <1>4, <1>5 DEF Remove, Go, Leaving
  <2> QED
    BY <1>5, <2>1, MoveKeeps DEF Remove, At, Leaving
<1>6. CASE MarkDead(c, s)
  <2>1. conn[c] = "closed"
    BY <1>4, <1>6 DEF MarkDead, Go, Leaving
  <2> QED
    BY <1>6, <2>1, MoveKeeps DEF MarkDead, At, Leaving
<1> QED
  BY <1>1, <1>2, <1>3, <1>5, <1>6

LEMMA InsertKeeps ==
  ASSUME CInv, NEW c \in Client, Insert(c), NEW d \in Client
  PROVE  Orderly(d)'
<1>1. Waiting(d)' = Waiting(d)
  BY SameRequests DEF Insert, reqvars
<1>2. /\ at[c]["writer"] = "insert"
      /\ \A e \in Client, u \in Side :
           at'[e][u] = IF e = c THEN IF u = "writer" THEN "listen" ELSE "read"
                                ELSE at[e][u]
  BY InsertFacts DEF CInv, HInv
<1>3. at[c]["reader"] = "none"
  BY <1>2 DEF CInv, HInv, Shapes, Shape, Starting
<1>4. UNCHANGED wirevars
  BY DEF Insert
<1>5. Coming(d)' = Coming(d)
  BY <1>4 DEF Coming, wirevars
<1>6. Line(d)'
  BY <1>1, <1>2, <1>3, <1>4 DEF CInv, Orderly, Line, Side, Leaving, wirevars
<1>7. Balanced(d)'
  <2>1. (\A u \in Side : at'[d][u] # "gone") => \A u \in Side : at[d][u] # "gone"
    BY <1>2, <1>3 DEF Side
  <2> QED
    BY <1>1, <1>4, <1>5, <2>1 DEF CInv, Orderly, Balanced, wirevars
<1> QED
  BY <1>6, <1>7 DEF Orderly

(* The messages of a client that a step does not touch.                      *)
LEMMA OthersKeep ==
  ASSUME CInv, NEW d \in Client, Waiting(d)' = Waiting(d), at'[d] = at[d],
         conn'[d] = conn[d], inbox'[d] = inbox[d], outbox'[d] = outbox[d],
         hand'[d] = hand[d]
  PROVE  Orderly(d)'
<1>1. Coming(d)' = Coming(d)
  BY DEF Coming
<1>2. Line(d)'
  BY DEF CInv, Orderly, Line
<1>3. Balanced(d)'
  BY <1>1 DEF CInv, Orderly, Balanced
<1> QED
  BY <1>2, <1>3 DEF Orderly

LEMMA ReadKeeps ==
  ASSUME CInv, NEW c \in Client, Read(c), NEW d \in Client
  PROVE  Orderly(d)'
<1>0. HTypeOK /\ "reader" \in Side /\ "deliver" \in At
  BY DEF CInv, HInv, Side, At
<1>1. Waiting(d)' = Waiting(d)
  BY SameRequests DEF Read, reqvars
<1>2. /\ at[c]["reader"] = "read"
      /\ \A e \in Client, u \in Side :
           at'[e][u] = IF e = c /\ u = "reader" THEN "deliver" ELSE at[e][u]
  BY <1>0, GoFacts DEF Read
<1>3. /\ UNCHANGED <<conn, inbox>>
      /\ outbox[c] # <<>>
      /\ outbox' = [outbox EXCEPT ![c] = Tail(outbox[c])]
      /\ hand' = [hand EXCEPT ![c] = {Head(outbox[c])}]
  BY DEF Read
<1>4. CASE d # c
  <2>1. at'[d] = at[d] /\ outbox'[d] = outbox[d] /\ hand'[d] = hand[d]
    BY <1>0, <1>3, <1>4 DEF Read, Go, HTypeOK
  <2> QED
    BY <1>1, <1>3, <2>1, OthersKeep
<1>5. CASE d = c
  <2>1. at[c]["writer"] # "none"
    BY <1>2 DEF CInv, HInv, Shapes, Shape, Starting
  <2>2. /\ outbox'[c] = Tail(outbox[c]) /\ hand'[c] = {Head(outbox[c])}
        /\ Head(outbox[c]) \in Request
        /\ Len(Tail(outbox[c])) = Len(outbox[c]) - 1
    BY <1>0, <1>3 DEF HTypeOK
  <2>3. Cardinality(hand[c]) = 0 /\ Cardinality(hand'[c]) = 1
    BY <1>2, <2>2, Counts, FS_Singleton
  <2>4. Coming(c)' = Coming(c)
    <3>1. Len(inbox[c]) \in Nat /\ Len(outbox[c]) \in Nat /\ inbox'[c] = inbox[c]
      BY <1>3, Counts
    <3>2. Coming(c)' = Len(inbox[c]) + (Len(outbox[c]) - 1) + 1
      BY <2>2, <2>3, <3>1, Zenon DEF Coming
    <3>3. \A i, o \in Nat : i + (o - 1) + 1 = i + o + 0
      OBVIOUS
    <3> QED
      BY <2>3, <3>1, <3>2, <3>3, Zenon DEF Coming
  <2>5. Line(c)'
    BY <1>1, <1>2, <1>3, <1>5, <2>1, <2>2 DEF CInv, Orderly, Line, Side, Leaving
  <2>6. (\A u \in Side : at'[c][u] # "gone") => \A u \in Side : at[c][u] # "gone"
    BY <1>2
  <2>7. Balanced(c)'
    BY <1>1, <1>3, <1>5, <2>4, <2>6 DEF CInv, Orderly, Balanced
  <2> QED
    BY <1>5, <2>5, <2>7 DEF Orderly
<1> QED
  BY <1>4, <1>5

LEMMA ProxyAnswersKeeps ==
  ASSUME CInv, NEW c \in Client, ProxyAnswers(c), NEW d \in Client
  PROVE  Orderly(d)'
<1>0. HTypeOK
  BY DEF CInv, HInv
<1>1. Waiting(d)' = Waiting(d)
  BY SameRequests DEF ProxyAnswers, reqvars
<1>2. /\ UNCHANGED <<at, conn, hand>>
      /\ conn[c] = "open" /\ inbox[c] # <<>>
      /\ outbox' = [outbox EXCEPT ![c] = Append(outbox[c], Head(inbox[c]))]
      /\ inbox' = [inbox EXCEPT ![c] = Tail(inbox[c])]
  BY DEF ProxyAnswers
<1>3. CASE d # c
  BY <1>0, <1>1, <1>2, <1>3, OthersKeep DEF HTypeOK
<1>4. CASE d = c
  <2>1. /\ Len(outbox'[c]) = Len(outbox[c]) + 1
        /\ Len(inbox'[c]) = Len(inbox[c]) - 1
    BY <1>0, <1>2 DEF HTypeOK
  <2>2. Coming(c)' = Coming(c)
    <3>1. /\ Cardinality(hand[c]) \in Nat /\ hand'[c] = hand[c]
          /\ Len(inbox[c]) \in Nat /\ Len(outbox[c]) \in Nat
      BY <1>2, Counts
    <3>2. Coming(c)' = (Len(inbox[c]) - 1) + (Len(outbox[c]) + 1) + Cardinality(hand[c])
      BY <2>1, <3>1, Zenon DEF Coming
    <3>3. \A i, o, h \in Nat : (i - 1) + (o + 1) + h = i + o + h
      OBVIOUS
    <3> QED
      BY <3>1, <3>2, <3>3, Zenon DEF Coming
  <2>3. Line(c)'
    BY <1>1, <1>2, <1>4 DEF CInv, Orderly, Line
  <2>4. Balanced(c)'
    BY <1>1, <1>2, <1>4, <2>2 DEF CInv, Orderly, Balanced
  <2> QED
    BY <1>4, <2>3, <2>4 DEF Orderly
<1> QED
  BY <1>3, <1>4

LEMMA BreakKeeps ==
  ASSUME CInv, NEW c \in Client, Break(c), NEW d \in Client
  PROVE  Orderly(d)'
<1>0. HTypeOK
  BY DEF CInv, HInv
<1>1. Waiting(d)' = Waiting(d)
  BY SameRequests DEF Break, reqvars
<1>2. /\ UNCHANGED <<at, hand>>
      /\ conn[c] = "open" /\ conn' = [conn EXCEPT ![c] = "closed"]
      /\ inbox' = [inbox EXCEPT ![c] = <<>>]
      /\ outbox' = outbox \/ outbox' = [outbox EXCEPT ![c] = <<>>]
  BY DEF Break
<1>3. CASE d # c
  BY <1>0, <1>1, <1>2, <1>3, OthersKeep DEF HTypeOK
<1>4. CASE d = c
  <2>1. /\ Len(inbox'[c]) = 0
        /\ Len(outbox'[c]) = Len(outbox[c]) \/ Len(outbox'[c]) = 0
    BY <1>0, <1>2 DEF HTypeOK
  <2>2. Coming(c)' <= Coming(c)
    <3>1. /\ Cardinality(hand[c]) \in Nat /\ hand'[c] = hand[c]
          /\ Len(inbox[c]) \in Nat /\ Len(outbox[c]) \in Nat
      BY <1>2, Counts
    <3>2. \A i, o, h, j, k \in Nat :
            j = 0 /\ (k = o \/ k = 0) => j + k + h <= i + o + h
      OBVIOUS
    <3>3. Len(inbox'[c]) \in Nat /\ Len(outbox'[c]) \in Nat
      BY <2>1, <3>1
    <3> QED
      BY <2>1, <3>1, <3>2, <3>3, Zenon DEF Coming
  <2>3. at[c]["writer"] # "none" /\ conn'[c] = "closed"
    BY <1>0, <1>2 DEF CInv, Orderly, Line, HTypeOK
  <2>4. Line(c)'
    BY <1>1, <1>2, <1>4, <2>3 DEF CInv, Orderly, Line
  <2>5. Coming(c)' \in Nat
    <3>1. Cardinality(hand'[c]) \in Nat /\ Len(inbox'[c]) \in Nat /\ Len(outbox'[c]) \in Nat
      BY <1>2, <2>1, Counts
    <3>2. \A k, m, n \in Nat : k + m + n \in Nat
      OBVIOUS
    <3> QED
      BY <3>1, <3>2, Zenon DEF Coming
  <2>6. Balanced(c)'
    BY <1>1, <1>2, <1>4, <2>2, <2>3, <2>5, Counts DEF CInv, Orderly, Balanced
  <2> QED
    BY <1>4, <2>4, <2>6 DEF Orderly
<1> QED
  BY <1>3, <1>4
-----------------------------------------------------------------------------
(* A request that meets the writer waits, and its message is on its way if   *)
(* the connection is up.                                                     *)
LEMMA SendKeeps ==
  ASSUME CInv, NEW r \in Request, Send(r), NEW d \in Client
  PROVE  Orderly(d)'
<1> DEFINE c == target[r]
<1>0. HTypeOK
  BY DEF CInv, HInv
<1>1. /\ pc[r] = "send" /\ pc' = [pc EXCEPT ![r] = "wait"]
      /\ at[c]["writer"] = "listen"
      /\ UNCHANGED <<conn, outbox, hand, at, target>>
      /\ inbox' = IF conn[c] = "open" THEN [inbox EXCEPT ![c] = Append(inbox[c], r)]
                                      ELSE inbox
  BY DEF Send, Written
<1>2. Waiting(d)' = IF d = c THEN Waiting(d) \cup {r} ELSE Waiting(d)
  BY <1>0, <1>1 DEF Waiting, HTypeOK
<1>3. r \notin Waiting(d)
  BY <1>1 DEF Waiting
<1>4. CASE d # c
  <2>1. inbox'[d] = inbox[d]
    BY <1>0, <1>1, <1>4 DEF HTypeOK
  <2> QED
    BY <1>1, <1>2, <1>4, <2>1, OthersKeep
<1>5. CASE d = c
  <2>1. IsFiniteSet(Waiting(d))
    BY DEF CInv, Orderly, Line
  <2>2. /\ IsFiniteSet(Waiting(d)')
        /\ Cardinality(Waiting(d)') = Cardinality(Waiting(d)) + 1
    BY <1>2, <1>3, <1>5, <2>1, FS_AddElement
  <2>3. Line(d)'
    BY <1>1, <1>5, <2>2 DEF CInv, Orderly, Line
  <2>4. CASE conn[d] = "open"
    <3>1. /\ Len(inbox'[d]) = Len(inbox[d]) + 1
          /\ outbox'[d] = outbox[d] /\ hand'[d] = hand[d]
      BY <1>0, <1>1, <1>5, <2>4 DEF HTypeOK
    <3>2. Coming(d)' = (Len(inbox[d]) + 1) + Len(outbox[d]) + Cardinality(hand[d])
      BY <3>1, Zenon DEF Coming
    <3>3. \A i, o, h \in Nat : (i + 1) + o + h = (i + o + h) + 1
      OBVIOUS
    <3>4. /\ Len(inbox[d]) \in Nat /\ Len(outbox[d]) \in Nat
          /\ Cardinality(hand[d]) \in Nat
      BY Counts
    <3>5. Coming(d)' = Coming(d) + 1
      BY <3>2, <3>3, <3>4, Zenon DEF Coming
    <3>6. Balanced(d)'
      BY <1>1, <2>2, <2>4, <3>5, Counts DEF CInv, Orderly, Balanced
    <3> QED
      BY <2>3, <3>6 DEF Orderly
  <2>5. CASE conn[d] # "open"
    <3>1. Coming(d)' = Coming(d)
      BY <1>1, <1>5, <2>5 DEF Coming
    <3>2. Balanced(d)'
      BY <1>1, <2>2, <2>5, <3>1, Counts DEF CInv, Orderly, Balanced
    <3> QED
      BY <2>3, <3>2 DEF Orderly
  <2> QED
    BY <2>4, <2>5
<1> QED
  BY <1>4, <1>5

LEMMA AnsweredCount ==
  ASSUME CInv, NEW r \in Request, Answered(r), NEW c \in Client, target[r] = c
  PROVE  /\ IsFiniteSet(Waiting(c)')
         /\ Cardinality(Waiting(c)') = Cardinality(Waiting(c)) - 1
<1>1. Waiting(c)' = Waiting(c) \ {r}
  BY AnsweredRequests
<1>2. r \in Waiting(c)
  BY DEF Answered, Waiting
<1>3. IsFiniteSet(Waiting(c))
  BY DEF CInv, Orderly, Line
<1> QED
  BY <1>1, <1>2, <1>3, FS_RemoveElement

(* An answer and the request that takes it leave together.                   *)
LEMMA DeliverKeeps ==
  ASSUME CInv, NEW c \in Client, NEW r \in Request, Deliver(c, r),
         NEW d \in Client
  PROVE  Orderly(d)'
<1>0. HTypeOK /\ "reader" \in Side /\ "read" \in At
  BY DEF CInv, HInv, Side, At
<1>1. /\ at[c]["reader"] = "deliver"
      /\ \A e \in Client, u \in Side :
           at'[e][u] = IF e = c /\ u = "reader" THEN "read" ELSE at[e][u]
  BY <1>0, GoFacts DEF Deliver
<1>2. /\ target[r] = c /\ Answered(r)
      /\ hand' = [hand EXCEPT ![c] = {}]
      /\ UNCHANGED <<conn, inbox, outbox>>
  BY DEF Deliver
<1>3. CASE d # c
  <2>1. at'[d] = at[d] /\ hand'[d] = hand[d]
    BY <1>0, <1>2, <1>3 DEF Deliver, Go, HTypeOK
  <2>2. Waiting(d)' = Waiting(d)
    BY <1>2, <1>3, AnsweredRequests
  <2> QED
    BY <1>2, <2>1, <2>2, OthersKeep
<1>4. CASE d = c
  <2>1. at[c]["writer"] # "none"
    BY <1>1 DEF CInv, HInv, Shapes, Shape, Starting
  <2>2. hand'[c] = {}
    BY <1>0, <1>2 DEF HTypeOK
  <2>3. Cardinality(hand[c]) = 1 /\ Cardinality(hand'[c]) = 0
    BY <1>1, <2>2, Counts, FS_EmptySet
  <2>4. Coming(c)' = Coming(c) - 1
    <3>1. Coming(c)' = Len(inbox[c]) + Len(outbox[c]) + 0
      BY <1>2, <2>3, Zenon DEF Coming
    <3>2. \A i, o \in Nat : i + o + 0 = (i + o + 1) - 1
      OBVIOUS
    <3>3. Len(inbox[c]) \in Nat /\ Len(outbox[c]) \in Nat
      BY Counts
    <3> QED
      BY <2>3, <3>1, <3>2, <3>3, Zenon DEF Coming
  <2>5. /\ IsFiniteSet(Waiting(c)')
        /\ Cardinality(Waiting(c)') = Cardinality(Waiting(c)) - 1
    BY <1>2, AnsweredCount
  <2>6. Line(c)'
    BY <1>1, <1>2, <1>4, <2>1, <2>2, <2>5 DEF CInv, Orderly, Line, Side, Leaving
  <2>7. (\A u \in Side : at'[c][u] # "gone") => \A u \in Side : at[c][u] # "gone"
    BY <1>1
  <2>8. Balanced(c)'
    BY <1>2, <1>4, <2>4, <2>5, <2>7, Counts DEF CInv, Orderly, Balanced
  <2> QED
    BY <1>4, <2>6, <2>8 DEF Orderly
<1> QED
  BY <1>3, <1>4

(* A goodbye takes a request away without an answer, but only when the       *)
(* connection is closed, and the goroutine is gone then.                     *)
LEMMA GoodbyeKeeps ==
  ASSUME CInv, NEW c \in Client, NEW s \in Side, NEW r \in Request,
         Goodbye(c, s, r), NEW d \in Client
  PROVE  Orderly(d)'
<1>0. HTypeOK /\ "gone" \in At
  BY DEF CInv, HInv, At, Leaving
<1>1. /\ at[c][s] = "goodbye"
      /\ \A e \in Client, u \in Side :
           at'[e][u] = IF e = c /\ u = s THEN "gone" ELSE at[e][u]
  BY <1>0, GoFacts DEF Goodbye
<1>2. /\ target[r] = c /\ Answered(r)
      /\ UNCHANGED <<conn, inbox, outbox, hand>>
  BY DEF Goodbye, wirevars
<1>3. CASE d # c
  <2>1. at'[d] = at[d]
    BY <1>0, <1>3 DEF Goodbye, Go, HTypeOK
  <2>2. Waiting(d)' = Waiting(d)
    BY <1>2, <1>3, AnsweredRequests
  <2> QED
    BY <1>2, <2>1, <2>2, OthersKeep
<1>4. CASE d = c
  <2>1. conn'[c] = "closed" /\ at'[c][s] = "gone"
    BY <1>1, <1>2 DEF CInv, Orderly, Line, Leaving
  <2>2. IsFiniteSet(Waiting(c)')
    BY <1>2, AnsweredCount
  <2>3. at[c]["writer"] # "none" /\ at'[c]["writer"] # "none"
    BY <1>1 DEF CInv, HInv, Shapes, Shape, Starting, Side, Leaving
  <2>4. Line(c)'
    BY <1>1, <1>2, <1>4, <2>1, <2>2, <2>3 DEF CInv, Orderly, Line, Side
  <2>5. Balanced(c)'
    BY <2>1 DEF Balanced
  <2> QED
    BY <1>4, <2>4, <2>5 DEF Orderly
<1> QED
  BY <1>3, <1>4

LEMMA CNextInv == CInv /\ [Next]_vars => CInv'
<1> SUFFICES ASSUME CInv, [Next]_vars, NEW d \in Client PROVE Orderly(d)'
  BY HNextInv DEF CInv
<1>1. ASSUME NEW c \in Client, ClientStep(c) PROVE Orderly(d)'
  BY <1>1, MovesKeep, InsertKeeps, ReadKeeps DEF ClientStep, Side
<1>2. ASSUME NEW c \in Client, Connect(c) \/ ProxyAnswers(c) \/ Break(c)
      PROVE  Orderly(d)'
  BY <1>2, ConnectKeeps, ProxyAnswersKeeps, BreakKeeps
<1>3. ASSUME NEW r \in Request, Send(r) \/ Meeting(r) PROVE Orderly(d)'
  BY <1>3, SendKeeps, DeliverKeeps, GoodbyeKeeps DEF Meeting
<1>4. ASSUME NEW r \in Request, Search(r) PROVE Orderly(d)'
  <2>1. Waiting(d)' = Waiting(d)
    BY <1>4 DEF Search, Waiting, CInv, HInv, HTypeOK
  <2> QED
    BY <1>4, <2>1, OthersKeep DEF Search, wirevars
<1>5. ASSUME \/ \E r \in Request : MapRace(r)
             \/ HubWrites \/ EnsureIndex \/ UNCHANGED vars
      PROVE  Orderly(d)'
  <2>1. UNCHANGED <<at, wirevars, reqvars>>
    BY <1>5 DEF MapRace, HubWrites, EnsureIndex, wirevars, reqvars, vars
  <2> QED
    BY <2>1, SameRequests, OthersKeep DEF wirevars, reqvars
<1> QED
  BY <1>1, <1>2, <1>3, <1>4, <1>5 DEF Next

(* Every answer that is on its way through a client has a request that waits *)
(* for it, until a disconnect has sent one of them away; and none waits in   *)
(* vain while the connection is up.  This holds for any number of proxies    *)
(* and requests, whether or not requests share a proxy or proxies an id.     *)
THEOREM AnswerForEachAlways == Spec => []AnswerForEach
<1>1. CInv => AnswerForEach
  BY DEF CInv, Orderly, Balanced, AnswerForEach
<1> QED
  BY CInitInv, CNextInv, <1>1, PTL DEF Spec
=============================================================================
