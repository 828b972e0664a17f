---------------------------- MODULE TrainerQueue ----------------------------
(***************************************************************************)
(* util/queue.go: the queue of TrainerSessions the scanner's requests      *)
(* share.  One goroutine, TrainerQueue.queue, owns the buffer and meets    *)
(* its clients on two unbuffered channels: `out` hands over the first      *)
(* trainer of the buffer, `in` takes one back.  A meeting on an unbuffered *)
(* channel is one atomic step of both parties, and the goroutine evaluates *)
(* t.buffer[0] when it enters the select, after which only it changes the  *)
(* buffer: each iteration of its loop is one action here.                  *)
(*                                                                         *)
(* TrainerQueue.Queue starts one goroutine per returned trainer; it sleeps *)
(* (set sleeping) and then blocks on `in` (set sending).  A TrainerSession *)
(* that is in nobody's hands is garbage, and its name may be used again    *)
(* for the next one NewTrainerSession builds.                              *)
(***************************************************************************)
EXTENDS Naturals, Sequences, Functions

CONSTANTS
  Trainer,     \* TrainerSession objects
  Caller,      \* request goroutines
  NoTrainer    \* a caller without a trainer

ASSUME NoTrainerDistinct == NoTrainer \notin Trainer
ASSUME CallerDistinct == Caller \cap {"in pool", "outside"} = {}

VARIABLES
  buffer,      \* TrainerQueue.buffer
  getting,     \* callers blocked in Get
  held,        \* held[c]: the trainer caller c uses
  sleeping,    \* trainers whose Queue goroutine is in time.Sleep(delay)
  sending,     \* trainers whose Queue goroutine is blocked in t.in <- x
  health       \* health[t]: Account.Banned, Account.CaptchaFlagged, Proxy.Dead

qvars == <<buffer, getting, held, sleeping, sending, health>>

AccountFlag == {"banned", "captcha"}
Flag        == AccountFlag \cup {"dead"}

Held == {t \in Trainer : \E c \in Caller : held[c] = t}
Live == Range(buffer) \cup sleeping \cup sending \cup Held

(* NewTrainerQueue: any list of distinct healthy sessions as first buffer. *)
QInit ==
  /\ buffer \in Seq(Trainer) /\ IsInjective(buffer)
  /\ getting = {}
  /\ held = [c \in Caller |-> NoTrainer]
  /\ sleeping = {}
  /\ sending = {}
  /\ health = [t \in Trainer |-> {}]
-----------------------------------------------------------------------------
(* What the goroutine's two channel operations do to the buffer. *)
KeepFirst == buffer                                    \* mutant: not advanced
Rest      == Tail(buffer)                              \* t.buffer[1:]

AppendNil(t)   == Append(buffer, NoTrainer)            \* mutant: wrong value
ReplaceBy(t)   == <<t>>                                \* mutant: append to nil
PushFront(t)   == <<t>> \o buffer                      \* mutant: a stack
WithLast(t)    == Append(buffer, t)                    \* append(t.buffer, s)

OnlyWhenEmpty == buffer = <<>>                         \* mutant: select w/o in
Receptive     == TRUE       \* both branches of queue() have a receive from in

NeverRefused(t) == TRUE                                \* mutant: no check
Reusable(t)     == health[t] = {}                      \* the check in Queue

(* Get enters its select: receive from out, or time.After(timeout). *)
Get(c) ==
  /\ c \notin getting /\ held[c] = NoTrainer
  /\ getting' = getting \cup {c}
  /\ UNCHANGED <<buffer, held, sleeping, sending, health>>

(* t.out <- t.buffer[0] meets a caller's receive. *)
Deliver(c) ==
  /\ c \in getting
  /\ buffer # <<>>
  /\ held' = [held EXCEPT ![c] = Head(buffer)]
  /\ buffer' = Rest
  /\ getting' = getting \ {c}
  /\ UNCHANGED <<sleeping, sending, health>>

Hang(c) == FALSE /\ UNCHANGED qvars                    \* mutant: no time.After

(* The timer fires first: Get returns ErrTimeout and no trainer. *)
Timeout(c) ==
  /\ c \in getting
  /\ getting' = getting \ {c}
  /\ UNCHANGED <<buffer, held, sleeping, sending, health>>

(* A caller without a trainer builds one: NewTrainerSession. *)
NewTrainer(c, t) ==
  /\ c \notin getting /\ held[c] = NoTrainer
  /\ t \in Trainer \ Live
  /\ held' = [held EXCEPT ![c] = t]
  /\ health' = [health EXCEPT ![t] = {}]
  /\ UNCHANGED <<buffer, getting, sleeping, sending>>

(* The user of a trainer learns about its account or its proxy, or gives it  *)
(* another proxy.  It never clears a flag of the account.                    *)
SetHealth(c, flags) ==
  /\ held[c] # NoTrainer
  /\ health[held[c]] \cap AccountFlag \subseteq flags
  /\ health' = [health EXCEPT ![held[c]] = flags]
  /\ UNCHANGED <<buffer, getting, held, sleeping, sending>>

(* Queue: start the goroutine of a usable trainer, otherwise do nothing; the *)
(* session that is dropped then is garbage, and no flag of it remains.       *)
Queue(c) ==
  /\ held[c] # NoTrainer
  /\ held' = [held EXCEPT ![c] = NoTrainer]
  /\ \/ Reusable(held[c]) /\ sleeping' = sleeping \cup {held[c]} /\ UNCHANGED health
     \/ ~Reusable(held[c]) /\ health' = [health EXCEPT ![held[c]] = {}]
                            /\ UNCHANGED sleeping
  /\ UNCHANGED <<buffer, getting, sending>>

(* The goroutine's time.Sleep(delay) ends. *)
Wake(t) ==
  /\ t \in sleeping
  /\ sleeping' = sleeping \ {t}
  /\ sending' = sending \cup {t}
  /\ UNCHANGED <<buffer, getting, held, health>>

(* s := <-t.in meets the goroutine's t.in <- x. *)
Accept(t) ==
  /\ t \in sending
  /\ Receptive
  /\ sending' = sending \ {t}
  /\ buffer' = WithLast(t)
  /\ UNCHANGED <<getting, held, sleeping, health>>

QNext ==
  \/ \E c \in Caller :
       \/ Get(c)
       \/ Deliver(c)
       \/ Timeout(c)
       \/ \E t \in Trainer : NewTrainer(c, t)
       \/ \E flags \in SUBSET Flag : SetHealth(c, flags)
       \/ Queue(c)
  \/ \E t \in Trainer : Wake(t) \/ Accept(t)

QSpec == QInit /\ [][QNext]_qvars

(* Timers fire, and the goroutines run; Go's select picks among its ready    *)
(* branches at random, so neither branch of queue() starves the other.       *)
QFairness ==
  /\ \A c \in Caller : WF_qvars(Timeout(c))
  /\ \A t \in Trainer : WF_qvars(Wake(t)) /\ WF_qvars(Accept(t))
-----------------------------------------------------------------------------
QTypeOK ==
  /\ buffer \in Seq(Trainer)
  /\ getting \subseteq Caller
  /\ held \in [Caller -> Trainer \cup {NoTrainer}]
  /\ sleeping \subseteq Trainer
  /\ sending \subseteq Trainer
  /\ health \in [Trainer -> SUBSET Flag]

(* A trainer is in one place only: two requests never use the same session,  *)
(* no session is queued twice, and none is queued while a request uses it,   *)
(* although Get, Queue's goroutines and the queue goroutine run concurrently.*)
OneUser ==
  /\ IsInjective(buffer)
  /\ \A c, d \in Caller : held[c] = held[d] /\ held[c] # NoTrainer => c = d
  /\ Range(buffer) \cap sleeping = {}
  /\ (Range(buffer) \cup sleeping) \cap sending = {}
  /\ (Range(buffer) \cup sleeping \cup sending) \cap Held = {}

(* A trainer whose account is banned or flagged, or whose proxy died, is in  *)
(* no stage of the way back to the requests, not even while the goroutine of *)
(* Queue sleeps or blocks.                                                   *)
OnlyUsableQueued ==
  \A t \in Range(buffer) \cup sleeping \cup sending : health[t] = {}

(* A request in Get has no trainer that the answer could displace.           *)
EmptyHandedGet == \A c \in getting : held[c] = NoTrainer

(* A trainer gets lost in one way only: the request that uses it hands it    *)
(* to Queue while it is unusable.                                            *)
NothingLost ==
  [][\A t \in Live : t \notin Live' => t \in Held /\ health[t] # {}]_qvars

(* Every returned trainer is eventually offered again: its goroutine ends    *)
(* and never blocks forever on the channel in.                               *)
BackInBuffer ==
  \A t \in Trainer : (t \in sleeping \cup sending) ~> (t \in Range(buffer))

(* If requests keep getting trainers, none waits in the buffer forever: all  *)
(* accounts take their share of the scans.                                   *)
NoStarvation ==
  ([]<><<\E c \in Caller : Deliver(c)>>_qvars) =>
     \A t \in Trainer : (t \in Range(buffer)) ~> (t \notin Range(buffer))
-----------------------------------------------------------------------------
(* The abstract view: who owns which trainer. *)
Owner == [t \in Trainer |->
            IF t \in Held THEN CHOOSE c \in Caller : held[c] = t
            ELSE IF t \in Live THEN "in pool"
            ELSE "outside"]

Pool == INSTANCE TrainerPool WITH owner <- Owner

(* The queue implements TrainerPool: channels, timers and sleeping           *)
(* goroutines never give one trainer two owners or skip the pool.            *)
ImplementsPool == Pool!Spec
=============================================================================
