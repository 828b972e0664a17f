------------------------- MODULE TrainerQueue_proofs -------------------------
(***************************************************************************)
(* Proofs about util/queue.go, for any number of trainers and requests.    *)
(* QInv, the inductive invariant, is the conjunction of the invariants of  *)
(* TrainerQueue and of EmptyHandedGet: a request in Get has no trainer.    *)
(***************************************************************************)
EXTENDS TrainerQueue, TLAPS

QInv == QTypeOK /\ OneUser /\ OnlyUsableQueued /\ EmptyHandedGet
-----------------------------------------------------------------------------
(* What t.buffer[1:] leaves of a buffer without duplicates. *)
LEMMA TailFacts ==
  ASSUME NEW S, NEW s \in Seq(S), s # <<>>, IsInjective(s)
  PROVE  /\ Head(s) \in S
         /\ Tail(s) \in Seq(S)
         /\ IsInjective(Tail(s))
         /\ Range(s) = Range(Tail(s)) \cup {Head(s)}
         /\ Head(s) \notin Range(Tail(s))
<1>1. /\ Len(s) \in Nat \ {0}
      /\ DOMAIN s = 1..Len(s)
      /\ Head(s) = s[1]
      /\ Head(s) \in S
      /\ Tail(s) \in Seq(S)
      /\ DOMAIN Tail(s) = 1..(Len(s) - 1)
      /\ \A i \in 1..(Len(s) - 1) : Tail(s)[i] = s[i + 1]
  OBVIOUS
<1>2. IsInjective(Tail(s))
  BY <1>1 DEF IsInjective
<1>3. Range(s) \subseteq Range(Tail(s)) \cup {Head(s)}
  <2>1. SUFFICES ASSUME NEW i \in 1..Len(s), i # 1
                 PROVE  s[i] \in Range(Tail(s))
    BY <1>1 DEF Range
  <2>2. i - 1 \in 1..(Len(s) - 1) /\ Tail(s)[i - 1] = s[i]
    BY <1>1, <2>1
  <2> QED
    BY <1>1, <2>2 DEF Range
<1>4. Range(Tail(s)) \cup {Head(s)} \subseteq Range(s)
  BY <1>1 DEF Range
<1>5. Head(s) \notin Range(Tail(s))
  BY <1>1 DEF Range, IsInjective
<1> QED
  BY <1>1, <1>2, <1>3, <1>4, <1>5

(* What append(t.buffer, s) makes of a buffer that does not hold s. *)
LEMMA AppendFacts ==
  ASSUME NEW S, NEW s \in Seq(S), NEW x \in S,
         IsInjective(s), x \notin Range(s)
  PROVE  /\ Append(s, x) \in Seq(S)
         /\ IsInjective(Append(s, x))
         /\ Range(Append(s, x)) = Range(s) \cup {x}
<1>1. /\ Len(s) \in Nat
      /\ DOMAIN s = 1..Len(s)
      /\ Append(s, x) \in Seq(S)
      /\ DOMAIN Append(s, x) = 1..(Len(s) + 1)
      /\ \A i \in 1..Len(s) : Append(s, x)[i] = s[i]
      /\ Append(s, x)[Len(s) + 1] = x
  OBVIOUS
<1>2. \A i \in 1..(Len(s) + 1) : i \in 1..Len(s) \/ i = Len(s) + 1
  BY <1>1
<1>3. Range(Append(s, x)) = Range(s) \cup {x}
  <2>1. Range(Append(s, x)) \subseteq Range(s) \cup {x}
    BY <1>1, <1>2 DEF Range
  <2>2. Range(s) \cup {x} \subseteq Range(Append(s, x))
    BY <1>1 DEF Range
  <2> QED
    BY <2>1, <2>2
<1>4. IsInjective(Append(s, x))
  BY <1>1, <1>2 DEF IsInjective, Range
<1> QED
  BY <1>1, <1>3, <1>4
-----------------------------------------------------------------------------
LEMMA QInitInv == QInit => QInv
<1> SUFFICES ASSUME QInit PROVE QInv
  OBVIOUS
<1>1. Range(buffer) \subseteq Trainer
  BY DEF QInit, Range
<1>2. Held = {}
  BY NoTrainerDistinct DEF QInit, Held
<1> QED
  BY <1>1, <1>2, NoTrainerDistinct
  DEF QInit, QInv, QTypeOK, OneUser, OnlyUsableQueued, EmptyHandedGet

(* A step of one action after the other, with what it does to the set Held.  *)
LEMMA QNextInv == QInv /\ [QNext]_qvars => QInv'
<1> SUFFICES ASSUME QInv, [QNext]_qvars PROVE QInv'
  OBVIOUS
<1> USE NoTrainerDistinct
<1>1. Range(buffer) \subseteq Trainer /\ Held \subseteq Trainer
  BY DEF QInv, QTypeOK, Range, Held
<1>2. ASSUME NEW c \in Caller, Get(c) PROVE QInv'
  <2>1. Held' = Held /\ Range(buffer)' = Range(buffer)
    BY <1>2 DEF Get, Held
  <2> QED
    BY <1>2, <2>1
    DEF Get, QInv, QTypeOK, OneUser, OnlyUsableQueued, EmptyHandedGet
<1>3. ASSUME NEW c \in Caller, Deliver(c) PROVE QInv'
  <2> DEFINE x == Head(buffer)
  <2>1. /\ x \in Trainer
        /\ buffer' \in Seq(Trainer) /\ IsInjective(buffer')
        /\ Range(buffer) = Range(buffer') \cup {x}
        /\ x \notin Range(buffer')
    BY <1>3, TailFacts DEF Deliver, Rest, QInv, QTypeOK, OneUser
  <2>2. held[c] = NoTrainer /\ x \notin Held
    BY <1>3, <2>1 DEF Deliver, QInv, EmptyHandedGet, OneUser
  <2>3. \A d \in Caller : held'[d] = IF d = c THEN x ELSE held[d]
    BY <1>3 DEF Deliver, QInv, QTypeOK
  <2>4. Held' = Held \cup {x}
    BY <2>1, <2>2, <2>3 DEF Held
  <2>5. QTypeOK'
    BY <1>3, <2>1 DEF Deliver, QInv, QTypeOK
  <2>6. OneUser'
    <3>1. \A d, e \in Caller :
             held'[d] = held'[e] /\ held'[d] # NoTrainer => d = e
      BY <2>2, <2>3, <2>1 DEF QInv, OneUser, Held
    <3> QED
      BY <1>3, <2>1, <2>4, <3>1 DEF Deliver, QInv, OneUser
  <2>7. OnlyUsableQueued' /\ EmptyHandedGet'
    BY <1>3, <2>1, <2>3
    DEF Deliver, QInv, QTypeOK, OnlyUsableQueued, EmptyHandedGet
  <2> QED
    BY <2>5, <2>6, <2>7 DEF QInv
<1>4. ASSUME NEW c \in Caller, Timeout(c) PROVE QInv'
  <2>1. Held' = Held /\ Range(buffer)' = Range(buffer)
    BY <1>4 DEF Timeout, Held
  <2> QED
    BY <1>4, <2>1
    DEF Timeout, QInv, QTypeOK, OneUser, OnlyUsableQueued, EmptyHandedGet
<1>5. ASSUME NEW c \in Caller, NEW t \in Trainer, NewTrainer(c, t) PROVE QInv'
  <2>1. /\ held[c] = NoTrainer /\ c \notin getting
        /\ t \notin Range(buffer) \cup sleeping \cup sending \cup Held
    BY <1>5 DEF NewTrainer, Live
  <2>2. \A d \in Caller : held'[d] = IF d = c THEN t ELSE held[d]
    BY <1>5 DEF NewTrainer, QInv, QTypeOK
  <2>3. Held' = Held \cup {t}
    BY <2>1, <2>2 DEF Held
  <2>4. \A d, e \in Caller :
           held'[d] = held'[e] /\ held'[d] # NoTrainer => d = e
    BY <2>1, <2>2 DEF QInv, OneUser, Held
  <2>5. QTypeOK' /\ OnlyUsableQueued' /\ EmptyHandedGet'
    BY <1>5, <2>1, <2>2
    DEF NewTrainer, QInv, QTypeOK, OnlyUsableQueued, EmptyHandedGet
  <2> QED
    BY <1>5, <2>1, <2>3, <2>4, <2>5 DEF NewTrainer, QInv, OneUser
<1>6. ASSUME NEW c \in Caller, NEW flags \in SUBSET Flag, SetHealth(c, flags)
      PROVE  QInv'
  <2>1. Held' = Held /\ Range(buffer)' = Range(buffer) /\ held[c] \in Held
    BY <1>6 DEF SetHealth, Held, QInv, QTypeOK
  <2>2. \A t \in Trainer : t # held[c] => health'[t] = health[t]
    BY <1>6 DEF SetHealth, QInv, QTypeOK
  <2>3. QTypeOK' /\ OneUser' /\ EmptyHandedGet'
    BY <1>6, <2>1
    DEF SetHealth, QInv, QTypeOK, OneUser, EmptyHandedGet
  <2>4. OnlyUsableQueued'
    BY <1>1, <1>6, <2>1, <2>2
    DEF SetHealth, QInv, QTypeOK, OneUser, OnlyUsableQueued
  <2> QED
    BY <2>3, <2>4 DEF QInv
<1>7. ASSUME NEW c \in Caller, Queue(c) PROVE QInv'
  <2> DEFINE x == held[c]
  <2>1. x \in Held /\ x \in Trainer
    BY <1>7 DEF Queue, Held, QInv, QTypeOK
  <2>2. \A d \in Caller : held'[d] = IF d = c THEN NoTrainer ELSE held[d]
    BY <1>7 DEF Queue, QInv, QTypeOK
  <2>3. Held' = Held \ {x}
    BY <2>1, <2>2, <1>7 DEF Queue, Held, QInv, OneUser
  <2>4. \/ sleeping' = sleeping /\ health' = [health EXCEPT ![x] = {}]
        \/ sleeping' = sleeping \cup {x} /\ health[x] = {} /\ health' = health
    BY <1>7 DEF Queue, Reusable
  <2>5. QTypeOK' /\ EmptyHandedGet' /\ OnlyUsableQueued'
    <3>1. health' \in [Trainer -> SUBSET Flag] /\ sleeping' \subseteq Trainer
      BY <2>1, <2>4 DEF QInv, QTypeOK
    <3>2. QTypeOK' /\ EmptyHandedGet'
      BY <1>7, <2>2, <3>1 DEF Queue, QInv, QTypeOK, EmptyHandedGet
    <3>3. \A t \in Trainer : health[t] = {} => health'[t] = {}
      BY <2>1, <2>4 DEF QInv, QTypeOK
    <3>4. OnlyUsableQueued'
      BY <1>1, <1>7, <2>1, <2>4, <3>3 DEF Queue, QInv, QTypeOK, OnlyUsableQueued
    <3> QED
      BY <3>2, <3>4
  <2>6. \A d, e \in Caller :
           held'[d] = held'[e] /\ held'[d] # NoTrainer => d = e
    BY <2>2 DEF QInv, OneUser
  <2>7. OneUser'
    BY <1>7, <2>1, <2>3, <2>4, <2>6 DEF Queue, QInv, OneUser
  <2> QED
    BY <2>5, <2>7 DEF QInv
<1>8. ASSUME NEW t \in Trainer, Wake(t) PROVE QInv'
  <2>1. Held' = Held /\ Range(buffer)' = Range(buffer)
    BY <1>8 DEF Wake, Held
  <2> QED
    BY <1>8, <2>1
    DEF Wake, QInv, QTypeOK, OneUser, OnlyUsableQueued, EmptyHandedGet
<1>9. ASSUME NEW t \in Trainer, Accept(t) PROVE QInv'
  <2>1. Held' = Held
    BY <1>9 DEF Accept, Held
  <2>2. /\ buffer' \in Seq(Trainer) /\ IsInjective(buffer')
        /\ Range(buffer') = Range(buffer) \cup {t}
    BY <1>9, AppendFacts DEF Accept, WithLast, QInv, QTypeOK, OneUser
  <2> QED
    BY <1>9, <2>1, <2>2
    DEF Accept, QInv, QTypeOK, OneUser, OnlyUsableQueued, EmptyHandedGet
<1>10. CASE UNCHANGED qvars
  BY <1>10 DEF qvars, QInv, QTypeOK, OneUser, OnlyUsableQueued,
               EmptyHandedGet, Held
<1> QED
  BY <1>2, <1>3, <1>4, <1>5, <1>6, <1>7, <1>8, <1>9, <1>10 DEF QNext
-----------------------------------------------------------------------------
(* The inductive invariant holds in every state. *)
THEOREM QInvariance == QSpec => []QInv
BY QInitInv, QNextInv, PTL DEF QSpec

(* The buffer, the goroutines and the requests hold sessions and nothing     *)
(* else, and the sessions only have the flags that Queue looks at.           *)
THEOREM QTypeCorrect == QSpec => []QTypeOK
<1>1. QInv => QTypeOK
  BY DEF QInv
<1> QED
  BY QInvariance, <1>1, PTL

(* No session is ever in two places: one user, one place in the queue.       *)
THEOREM OneUserAlways == QSpec => []OneUser
<1>1. QInv => OneUser
  BY DEF QInv
<1> QED
  BY QInvariance, <1>1, PTL

(* A banned or flagged account or a dead proxy never gets to a request by    *)
(* way of the queue.                                                         *)
THEOREM OnlyUsableQueuedAlways == QSpec => []OnlyUsableQueued
<1>1. QInv => OnlyUsableQueued
  BY DEF QInv
<1> QED
  BY QInvariance, <1>1, PTL

(* What a caller's actions do to the set of sessions that are not garbage.   *)
LEMMA CallerLive ==
  ASSUME QInv, NEW c \in Caller
  PROVE  /\ Get(c) \/ Timeout(c) \/ Deliver(c) => Live' = Live
         /\ \A flags : SetHealth(c, flags) => Live' = Live
         /\ \A t \in Trainer :
              NewTrainer(c, t) => t \notin Live /\ Live' = Live \cup {t}
         /\ Queue(c) => /\ held[c] \in Held
                        /\ health[held[c]] = {} => Live' = Live
                        /\ health[held[c]] # {} => Live' = Live \ {held[c]}
<1> USE NoTrainerDistinct
<1>1. Get(c) \/ Timeout(c) => Live' = Live
  BY DEF Get, Timeout, Live, Held
<1>2. ASSUME Deliver(c) PROVE Live' = Live
  <2>1. Range(buffer) = Range(buffer') \cup {Head(buffer)} /\ Head(buffer) \in Trainer
    BY <1>2, TailFacts DEF Deliver, Rest, QInv, QTypeOK, OneUser
  <2>2. held[c] = NoTrainer
    BY <1>2 DEF QInv, EmptyHandedGet, Deliver
  <2>3. \A d \in Caller : held'[d] = IF d = c THEN Head(buffer) ELSE held[d]
    BY <1>2 DEF Deliver, QInv, QTypeOK
  <2>4. Held' = Held \cup {Head(buffer)}
    BY <2>1, <2>2, <2>3 DEF Held
  <2> QED
    BY <1>2, <2>1, <2>4 DEF Deliver, Live
<1>3. ASSUME NEW flags, SetHealth(c, flags) PROVE Live' = Live
  BY <1>3 DEF SetHealth, Live, Held
<1>4. ASSUME NEW t \in Trainer, NewTrainer(c, t)
      PROVE  t \notin Live /\ Live' = Live \cup {t}
  <2>1. \A d \in Caller : held'[d] = IF d = c THEN t ELSE held[d]
    BY <1>4 DEF NewTrainer, QInv, QTypeOK
  <2>2. Held' = Held \cup {t}
    BY <1>4, <2>1 DEF NewTrainer, Held
  <2> QED
    BY <1>4, <2>2 DEF NewTrainer, Live
<1>5. ASSUME Queue(c)
      PROVE  /\ held[c] \in Held
             /\ health[held[c]] = {} => Live' = Live
             /\ health[held[c]] # {} => Live' = Live \ {held[c]}
  <2>1. held[c] \in Held
    BY <1>5 DEF Queue, Held, QInv, QTypeOK
  <2>2. \A d \in Caller : held'[d] = IF d = c THEN NoTrainer ELSE held[d]
    BY <1>5 DEF Queue, QInv, QTypeOK
  <2>3. Held' = Held \ {held[c]}
    BY <1>5, <2>2 DEF Queue, Held, QInv, OneUser
  <2>4. CASE health[held[c]] = {}
    BY <1>5, <2>1, <2>3, <2>4 DEF Queue, Reusable, Live
  <2>5. CASE health[held[c]] # {}
    BY <1>5, <2>1, <2>3, <2>5 DEF Queue, Reusable, Live, QInv, OneUser
  <2> QED
    BY <2>1, <2>4, <2>5
<1> QED
  BY <1>1, <1>2, <1>3, <1>4, <1>5

(* The goroutines of the queue neither make nor drop a session.              *)
LEMMA GoroutineLive ==
  ASSUME QInv, NEW t \in Trainer, Wake(t) \/ Accept(t)
  PROVE  Live' = Live
<1>1. Wake(t) => Live' = Live
  BY DEF Wake, Live, Held
<1>2. ASSUME Accept(t) PROVE Live' = Live
  <2>1. Range(buffer') = Range(buffer) \cup {t}
    BY <1>2, AppendFacts DEF Accept, WithLast, QInv, QTypeOK, OneUser
  <2> QED
    BY <1>2, <2>1 DEF Accept, Live, Held
<1> QED
  BY <1>1, <1>2

(* A session disappears only when its user gives it up as unusable.          *)
THEOREM NothingLostAlways == QSpec => NothingLost
<1> DEFINE Lost(t) == t \notin Live' => t \in Held /\ health[t] # {}
<1>1. ASSUME QInv, [QNext]_qvars PROVE [\A t \in Live : Lost(t)]_qvars
  <2> SUFFICES ASSUME NEW t \in Live PROVE Lost(t)
    OBVIOUS
  <2>1. ASSUME NEW c \in Caller,
               \/ Get(c) \/ Timeout(c) \/ Deliver(c)
               \/ \E flags \in SUBSET Flag : SetHealth(c, flags)
               \/ \E u \in Trainer : NewTrainer(c, u)
        PROVE  Lost(t)
    BY <1>1, <2>1, CallerLive
  <2>2. ASSUME NEW c \in Caller, Queue(c) PROVE Lost(t)
    BY <1>1, <2>2, CallerLive
  <2>3. ASSUME NEW u \in Trainer, Wake(u) \/ Accept(u) PROVE Lost(t)
    BY <1>1, <2>3, GoroutineLive
  <2>4. CASE UNCHANGED qvars
    BY <2>4 DEF qvars, Live, Held
  <2> QED
    BY <1>1, <2>1, <2>2, <2>3, <2>4 DEF QNext
<1> QED
  BY <1>1, QInvariance, PTL DEF QSpec, NothingLost
-----------------------------------------------------------------------------
(* What the refinement mapping says of a trainer, place by place. *)
OwnerMap ==
  /\ \A c \in Caller : held[c] # NoTrainer => Owner[held[c]] = c
  /\ \A t \in Trainer :
       /\ t \in Live \ Held => Owner[t] = "in pool"
       /\ t \notin Live => Owner[t] = "outside"
       /\ \A c \in Caller : Owner[t] = c => held[c] = t

LEMMA OwnerFacts == QInv => OwnerMap
<1> SUFFICES ASSUME QInv PROVE OwnerMap
  OBVIOUS
<1>1. ASSUME NEW c \in Caller, held[c] # NoTrainer
      PROVE  Owner[held[c]] = c
  <2>1. held[c] \in Held /\ held[c] \in Trainer
    BY <1>1 DEF Held, QInv, QTypeOK
  <2>2. \A d \in Caller : held[d] = held[c] => d = c
    BY <1>1 DEF QInv, OneUser
  <2>3. (CHOOSE d \in Caller : held[d] = held[c]) = c
    BY <2>2
  <2> QED
    BY <2>1, <2>3 DEF Owner
<1>2. ASSUME NEW t \in Trainer
      PROVE  /\ t \in Live \ Held => Owner[t] = "in pool"
             /\ t \notin Live => Owner[t] = "outside"
  BY DEF Owner, Live
<1>3. ASSUME NEW t \in Trainer, NEW c \in Caller, Owner[t] = c
      PROVE  held[c] = t
  <2>1. t \in Held
    BY <1>3, <1>2, CallerDistinct
  <2>2. PICK d \in Caller : held[d] = t
    BY <2>1 DEF Held
  <2> QED
    BY <1>1, <1>3, <2>2, NoTrainerDistinct
<1> QED
  BY <1>1, <1>2, <1>3 DEF OwnerMap

LEMMA OwnerFunction ==
  /\ Owner = [t \in Trainer |-> Owner[t]]
  /\ Owner' = [t \in Trainer |-> Owner'[t]]
BY DEF Owner

(* The steps that leave every trainer where it is do not change its owner.   *)
LEMMA SameOwner ==
  UNCHANGED held /\ Live' = Live => Owner' = Owner
BY DEF Owner, Held

(* A request gets a trainer that no request had: a Take of the pool.         *)
LEMMA TakeStep ==
  ASSUME QInv, QInv', OwnerMap, OwnerMap', NEW c \in Caller, NEW t \in Trainer,
         held[c] = NoTrainer, t \notin Held,
         held' = [held EXCEPT ![c] = t],
         Live' = Live \cup {t}
  PROVE  Pool!Take(c, t)
<1>1. \A d \in Caller : held'[d] = IF d = c THEN t ELSE held[d]
  BY DEF QInv, QTypeOK
<1>2. \A u \in Trainer : u # t => Owner'[u] = Owner[u]
  <2> SUFFICES ASSUME NEW u \in Trainer, u # t PROVE Owner'[u] = Owner[u]
    OBVIOUS
  <2>1. Held' = Held \cup {t}
    BY <1>1, NoTrainerDistinct DEF Held
  <2>2. CASE u \in Held
    <3>1. PICK d \in Caller : held[d] = u
      BY <2>2 DEF Held
    <3>2. held'[d] = u /\ held[d] # NoTrainer /\ held'[d] # NoTrainer
      BY <1>1, <3>1, NoTrainerDistinct
    <3>3. Owner[held[d]] = d
      BY <3>2 DEF OwnerMap
    <3>4. Owner'[held'[d]] = d
      BY <3>2 DEF OwnerMap
    <3> QED
      BY <3>1, <3>2, <3>3, <3>4
  <2>3. CASE u \notin Held
    <3>1. u \notin Held'
      BY <2>1, <2>3
    <3>2. CASE u \in Live
      <4>1. u \in Live'
        BY <3>2
      <4>2. Owner[u] = "in pool"
        BY <2>3, <3>2 DEF OwnerMap
      <4>3. Owner'[u] = "in pool"
        BY <3>1, <4>1 DEF OwnerMap
      <4> QED
        BY <4>2, <4>3
    <3>3. CASE u \notin Live
      <4>1. u \notin Live'
        BY <3>3
      <4>2. Owner[u] = "outside"
        BY <3>3 DEF OwnerMap
      <4>3. Owner'[u] = "outside"
        BY <4>1 DEF OwnerMap
      <4> QED
        BY <4>2, <4>3
    <3> QED
      BY <3>2, <3>3
  <2> QED
    BY <2>2, <2>3
<1>3. Owner'[t] = c
  <2>1. held'[c] = t /\ held'[c] # NoTrainer
    BY <1>1, NoTrainerDistinct
  <2>2. Owner'[held'[c]] = c
    BY <2>1 DEF OwnerMap
  <2> QED
    BY <2>1, <2>2
<1>4. Owner' = [Owner EXCEPT ![t] = c]
  BY <1>2, <1>3, OwnerFunction
<1>5. ASSUME NEW u \in Trainer, Owner[u] = c PROVE FALSE
  <2>1. held[c] = u
    BY <1>5 DEF OwnerMap
  <2> QED
    BY <2>1, NoTrainerDistinct
<1>6. Owner[t] \in {"in pool", "outside"}
  BY DEF OwnerMap
<1> QED
  BY <1>4, <1>5, <1>6
  DEF Pool!Take, Pool!EmptyHanded, Pool!InPool, Pool!Outside

(* Every step of the queue is a Take, a Leave or a stutter of the pool.      *)
LEMMA StepInPool ==
  QInv /\ QInv' /\ OwnerMap /\ OwnerMap' /\ [QNext]_qvars => [Pool!Next]_Owner
<1> SUFFICES ASSUME QInv, QInv', OwnerMap, OwnerMap', [QNext]_qvars
             PROVE  Pool!Next \/ Owner' = Owner
  OBVIOUS
<1> USE NoTrainerDistinct
<1>1. ASSUME NEW c \in Caller, Deliver(c) PROVE Pool!Next
  <2> DEFINE x == Head(buffer)
  <2>1. x \in Trainer /\ x \in Range(buffer)
    BY <1>1, TailFacts DEF Deliver, Rest, QInv, QTypeOK, OneUser
  <2>2. held[c] = NoTrainer /\ x \notin Held /\ x \in Live
    BY <1>1, <2>1 DEF Deliver, QInv, EmptyHandedGet, OneUser, Live
  <2>3. held' = [held EXCEPT ![c] = x] /\ Live' = Live \cup {x}
    BY <1>1, <2>1, <2>2, CallerLive DEF Deliver
  <2>4. Pool!Take(c, x)
    BY <2>1, <2>2, <2>3, TakeStep
  <2> QED
    BY <2>1, <2>4 DEF Pool!Next
<1>2. ASSUME NEW c \in Caller, NEW t \in Trainer, NewTrainer(c, t)
      PROVE  Pool!Next
  <2>1. held[c] = NoTrainer /\ t \notin Held /\ held' = [held EXCEPT ![c] = t]
    BY <1>2 DEF NewTrainer, Live
  <2>2. Live' = Live \cup {t}
    BY <1>2, CallerLive
  <2>3. Pool!Take(c, t)
    BY <2>1, <2>2, TakeStep
  <2> QED
    BY <2>3 DEF Pool!Next
<1>3. ASSUME NEW c \in Caller, Queue(c) PROVE Pool!Next
  <2> DEFINE x == held[c]
  <2>1. x \in Trainer /\ Owner[x] = c
    BY <1>3 DEF Queue, QInv, QTypeOK, OwnerMap
  <2>2. \A d \in Caller : held'[d] = IF d = c THEN NoTrainer ELSE held[d]
    BY <1>3 DEF Queue, QInv, QTypeOK
  <2>3. Held' = Held \ {x}
    BY <1>3, <2>1, <2>2 DEF Queue, Held, QInv, OneUser
  <2>4. Live \ {x} \subseteq Live' /\ Live' \subseteq Live
    BY <1>3, <2>1, CallerLive
  <2>5. Owner'[x] \in {"in pool", "outside"}
    BY <2>1, <2>3 DEF OwnerMap
  <2>6. \A u \in Trainer : u # x => Owner'[u] = Owner[u]
    <3> SUFFICES ASSUME NEW u \in Trainer, u # x PROVE Owner'[u] = Owner[u]
      OBVIOUS
    <3>1. CASE u \in Held
      <4>1. PICK d \in Caller : held[d] = u
        BY <3>1 DEF Held
      <4>2. held'[d] = u
        BY <2>2, <4>1
      <4>3. Owner[held[d]] = d
        BY <4>1 DEF OwnerMap
      <4>4. Owner'[held'[d]] = d
        BY <4>2 DEF OwnerMap
      <4> QED
        BY <4>1, <4>2, <4>3, <4>4
    <3>2. CASE u \notin Held
      BY <2>3, <2>4, <3>2 DEF OwnerMap
    <3> QED
      BY <3>1, <3>2
  <2>7. Owner' = [Owner EXCEPT ![x] = Owner'[x]]
    BY <2>1, <2>6, OwnerFunction
  <2>8. Pool!Leave(c, x)
    BY <2>1, <2>5, <2>7 DEF Pool!Leave, Pool!InPool, Pool!Outside
  <2> QED
    BY <2>1, <2>8 DEF Pool!Next
<1>4. ASSUME NEW c \in Caller, NEW flags \in SUBSET Flag,
             Get(c) \/ Timeout(c) \/ SetHealth(c, flags)
      PROVE  Owner' = Owner
  <2>1. UNCHANGED held /\ Live' = Live
    BY <1>4 DEF Get, Timeout, SetHealth, Live, Held
  <2> QED
    BY <2>1, SameOwner
<1>5. ASSUME NEW t \in Trainer, Wake(t) \/ Accept(t) PROVE Owner' = Owner
  <2>1. UNCHANGED held /\ Live' = Live
    BY <1>5, GoroutineLive DEF Wake, Accept
  <2> QED
    BY <2>1, SameOwner
<1>6. CASE UNCHANGED qvars
  <2>1. UNCHANGED held /\ Live' = Live
    BY <1>6 DEF qvars, Live, Held
  <2> QED
    BY <2>1, SameOwner
<1> QED
  BY <1>1, <1>2, <1>3, <1>4, <1>5, <1>6 DEF QNext

(* The channels, timers and goroutines of the queue implement the pool: a    *)
(* session changes hands only by way of the pool, one owner at a time.       *)
THEOREM QueueImplementsPool == QSpec => ImplementsPool
<1>1. QInit => Pool!Init
  <2> SUFFICES ASSUME QInit PROVE Pool!Init
    OBVIOUS
  <2>1. Held = {}
    BY NoTrainerDistinct DEF QInit, Held
  <2> QED
    BY <2>1 DEF Owner, Pool!Init, Pool!InPool, Pool!Outside
<1> QED
  BY <1>1, QInvariance, OwnerFacts, StepInPool, PTL
  DEF QSpec, ImplementsPool, Pool!Spec
=============================================================================
