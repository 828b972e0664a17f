--------------------------- MODULE ApiServer_proofs ---------------------------
(***************************************************************************)
(* Proofs about the api server and the collections it works on, for any    *)
(* number of keys, objects and concurrent submissions, any window and any  *)
(* behaviour of the admin tool.                                            *)
(***************************************************************************)
EXTENDS ApiServer, TLAPS

InHand == {"lookup", "check", "fill", "judge"}

(* A submission past Lookup has a key that was enabled, one that is judged   *)
(* has an entry to count in, and what it stores later was checked.           *)
Submission(r) ==
  /\ step[r].at \in {"check", "fill", "judge", "store"} => step[r].key \in granted
  /\ step[r].at = "judge" => metrics[step[r].key] # NoMetrics
  /\ step[r].at = "store" => /\ step[r].object.type = "pokemon"
                             /\ step[r].object.source = step[r].key
                             /\ step[r].object.expiry # 0
                             /\ step[r].object.expiry <= now + Window

Submissions == \A r \in Request : Submission(r)

(* While a key has not raced, one submission at most fills its entry, and    *)
(* nobody has done so before.                                                *)
OneFills ==
  \A r \in Request :
    step[r].at = "fill" /\ step[r].key \notin raced =>
      /\ metrics[step[r].key] = NoMetrics
      /\ \A s \in Filling(step[r].key) : s = r

EnabledGranted == Enabled \subseteq granted

(* What has not expired is not stored with the expiry 0.                     *)
ClockRuns == now # 0

AInv == /\ ATypeOK /\ Submissions /\ OneFills /\ EnabledGranted /\ ClockRuns
        /\ SubmittedSoonGone /\ CreditedWereEnabled /\ CountsExact

USE MapConstants, ApiConstants, NoKeyDistinct
-----------------------------------------------------------------------------
LEMMA AInitInv == AInit => AInv
<1> SUFFICES ASSUME AInit PROVE AInv
  OBVIOUS
<1> USE DEF AInit, MapInit, KeyInit, AllIdle, NoEntries, NothingDue, Idle
<1>1. MapTypeOK /\ KeyTypeOK
  BY DEF MapTypeOK, KeyTypeOK, Enabled
<1>2. step \in [Request -> Step] /\ shown \in Answer
  BY DEF Step, Answer
<1>3. due \in [Key -> Counts] /\ metrics \in [Key -> Counts \cup {NoMetrics}]
  BY DEF Counts, Zero
<1>4. Submissions /\ OneFills /\ EnabledGranted
  BY DEF Submissions, Submission, OneFills, EnabledGranted
<1>5. SubmittedSoonGone /\ CreditedWereEnabled /\ ClockRuns
  BY DEF SubmittedSoonGone, CreditedWereEnabled, ClockRuns
<1>6. CountsExact
  BY DEF CountsExact, Counted, Zero
<1> QED
  BY <1>1, <1>2, <1>3, <1>4, <1>5, <1>6 DEF AInv, ATypeOK

(* A stored object is a new one, or a fort.                                  *)
LEMMA AddFacts ==
  ASSUME MapTypeOK, NEW i \in ObjectId, NEW o \in Object, AddMapObject(i, o)
  PROVE  /\ objects' \in [ObjectId -> Object \cup {NoObject}]
         /\ \A j \in ObjectId :
              objects'[j] # objects[j] =>
                /\ objects'[j] = o
                /\ objects[j] = NoObject \/ o.type \in FortKind
BY DEF MapTypeOK, AddMapObject, Upsert, Insert, Object, Kind

LEMMA RemoveFacts ==
  ASSUME MapTypeOK, NEW threshold \in Nat, RemoveOldPokemon(threshold)
  PROVE  /\ objects' \in [ObjectId -> Object \cup {NoObject}]
         /\ \A j \in ObjectId :
              objects'[j] # objects[j] => objects'[j] = NoObject /\ IsPokemon(j)
BY DEF MapTypeOK, RemoveOldPokemon, OldPokemon

(* What the scanner and the admin tool add is credited to nobody, and forts  *)
(* have no expiry.                                                           *)
Theirs(o) == o.source = Nobody /\ (o.type \in FortKind => o.expiry = 0)

LEMMA TheirsFacts ==
  ASSUME MapTypeOK, SaveScan \/ AddPokemon
  PROVE  \E i \in ObjectId, o \in Object : Theirs(o) /\ AddMapObject(i, o)
<1>1. \A e \in Nat : Pokemon(e, Nobody) \in Object /\ Theirs(Pokemon(e, Nobody))
  BY DEF Pokemon, Object, Kind, FortKind, Team, Theirs
<1>2. /\ Pokestop \in Object /\ Theirs(Pokestop)
      /\ \A t \in Team : Gym(t) \in Object /\ Theirs(Gym(t))
  BY DEF Pokestop, Gym, Object, Kind, FortKind, Team, Theirs
<1>3. now + Window \in Nat /\ TooFar \in Nat
  BY DEF MapTypeOK, TooFar
<1>4. CASE SaveScan
  <2>1. PICK i \in ObjectId, o \in Wild \cup Lured \cup Forts : AddMapObject(i, o)
    BY <1>4 DEF SaveScan
  <2>2. o \in Object /\ Theirs(o)
    BY <1>1, <1>2, <1>3, <2>1 DEF Wild, Lured, Forts
  <2> QED
    BY <2>1, <2>2
<1>5. CASE AddPokemon
  BY <1>1, <1>3, <1>5 DEF AddPokemon
<1> QED
  BY <1>4, <1>5

LEMMA BeFacts ==
  ASSUME step \in [Request -> Step], NEW r \in Request, NEW s \in Step, Be(r, s)
  PROVE  /\ step' \in [Request -> Step]
         /\ step'[r] = s
         /\ \A q \in Request \ {r} : step'[q] = step[q]
BY DEF Be

LEMMA MoveFacts ==
  ASSUME step \in [Request -> Step], NEW r \in Request, NEW to \in InHand,
         step[r].at \in InHand
  PROVE  /\ step[r].key \in Key
         /\ [step[r] EXCEPT !.at = to] \in Step
         /\ [step[r] EXCEPT !.at = to].at = to
         /\ [step[r] EXCEPT !.at = to].key = step[r].key
<1>1. step[r] \in Step /\ step[r].at # "store" /\ step[r].at # "idle"
  BY DEF InHand
<1>2. step[r] \in [at : InHand, key : Key]
  BY <1>1 DEF Step, Idle, InHand
<1> QED
  BY <1>2 DEF Step, InHand

LEMMA CountFacts ==
  ASSUME ATypeOK, NEW k \in Key, NEW c \in Counter, metrics[k] # NoMetrics,
         Count(k, c)
  PROVE  /\ metrics' \in [Key -> Counts \cup {NoMetrics}]
         /\ due' \in [Key -> Counts]
         /\ metrics'[k] # NoMetrics
         /\ \A j \in Key \ {k} : metrics'[j] = metrics[j] /\ due'[j] = due[j]
         /\ metrics'[k] = [metrics[k] EXCEPT ![c] = @ + 1]
         /\ due'[k] = [due[k] EXCEPT ![c] = @ + 1]
<1>1. metrics[k] \in Counts /\ due[k] \in Counts
  BY DEF ATypeOK
<1>2. /\ [metrics[k] EXCEPT ![c] = @ + 1] \in Counts
      /\ [due[k] EXCEPT ![c] = @ + 1] \in Counts
  BY <1>1 DEF Counts
<1>3. /\ metrics' = [metrics EXCEPT ![k] = [metrics[k] EXCEPT ![c] = @ + 1]]
      /\ due' = [due EXCEPT ![k] = [due[k] EXCEPT ![c] = @ + 1]]
  BY DEF Count, ATypeOK
<1> QED
  BY <1>2, <1>3 DEF ATypeOK

LEMMA FadeFacts ==
  ASSUME ATypeOK, NEW k \in Key, NEW c \in Counter, Fade(k, c)
  PROVE  /\ metrics' \in [Key -> Counts \cup {NoMetrics}]
         /\ due' \in [Key -> Counts]
         /\ metrics'[k] = NoMetrics <=> metrics[k] = NoMetrics
         /\ \A j \in Key \ {k} : metrics'[j] = metrics[j] /\ due'[j] = due[j]
         /\ due'[k] = [due[k] EXCEPT ![c] = @ - 1]
         /\ \/ /\ Counted(k)[c] > 0
               /\ metrics'[k] = [metrics[k] EXCEPT ![c] = @ - 1]
            \/ Counted(k)[c] < due[k][c] /\ metrics'[k] = metrics[k]
<1>1. due[k] \in Counts /\ due[k][c] \in Nat /\ due[k][c] > 0
  BY DEF Fade, ATypeOK, Counts
<1>2. due' \in [Key -> Counts] /\ due'[k] = [due[k] EXCEPT ![c] = @ - 1]
      /\ \A j \in Key \ {k} : due'[j] = due[j]
  <2>1. [due[k] EXCEPT ![c] = @ - 1] \in Counts
    BY <1>1 DEF Counts
  <2>2. due' = [due EXCEPT ![k] = [due[k] EXCEPT ![c] = @ - 1]]
    BY DEF Fade, ATypeOK
  <2> QED
    BY <2>1, <2>2 DEF ATypeOK
<1>3. CASE Counted(k)[c] > 0 /\ metrics' = [metrics EXCEPT ![k][c] = @ - 1]
  <2>1. metrics[k] # NoMetrics
    BY <1>3 DEF Counted, Zero
  <2>2. metrics[k] \in Counts /\ metrics[k][c] > 0
    BY <1>3, <2>1 DEF Counted, ATypeOK
  <2>3. [metrics[k] EXCEPT ![c] = @ - 1] \in Counts
    BY <2>2 DEF Counts
  <2>4. metrics' = [metrics EXCEPT ![k] = [metrics[k] EXCEPT ![c] = @ - 1]]
    BY <1>3 DEF ATypeOK
  <2> QED
    BY <1>2, <1>3, <2>1, <2>3, <2>4 DEF ATypeOK
<1>4. CASE Counted(k)[c] < due[k][c] /\ UNCHANGED metrics
  BY <1>2, <1>4 DEF ATypeOK
<1> QED
  BY <1>3, <1>4 DEF Fade

(* A command enables keys, and no key is enabled otherwise.                  *)
LEMMA KeyFacts ==
  ASSUME KeyTypeOK, EnabledGranted, KeyCommand
  PROVE  KeyTypeOK' /\ granted \subseteq granted' /\ EnabledGranted'
<1> USE DEF KeyTypeOK, EnabledGranted, Enabled, KeyDoc, Command, NoCommand
<1>1. CASE \E k \in Key : GenKey(k)
  BY <1>1 DEF GenKey
<1>2. CASE \E k \in Key : ReadKey(k)
  BY <1>2 DEF ReadKey
<1>3. CASE UpdateKey
  <2>1. command.key \in Key /\ command.enabled \in BOOLEAN
    BY <1>3 DEF UpdateKey
  <2>2. CASE Found(command.key)
    <3>1. [field |-> FALSE, enabled |-> command.enabled] \in KeyDoc
      BY <2>1
    <3>2. /\ keys' = [keys EXCEPT ![command.key] =
                        [field |-> FALSE, enabled |-> command.enabled]]
          /\ granted' = IF command.enabled THEN granted \cup {command.key} ELSE granted
          /\ command' = NoCommand
      BY <1>3, <2>2 DEF UpdateKey
    <3>3. KeyTypeOK' /\ granted \subseteq granted'
      BY <2>1, <3>1, <3>2
    <3>4. ASSUME NEW k \in Key, keys'[k] # NoKey, keys'[k].enabled PROVE k \in granted'
      <4>1. CASE k = command.key
        <5>1. keys'[k].enabled = command.enabled
          BY <3>2, <4>1
        <5> QED
          BY <3>2, <3>4, <4>1, <5>1
      <4>2. CASE k # command.key
        BY <3>2, <3>3, <3>4, <4>2
      <4> QED
        BY <4>1, <4>2
    <3> QED
      BY <3>3, <3>4
  <2>3. CASE ~Found(command.key)
    BY <1>3, <2>3 DEF UpdateKey
  <2> QED
    BY <2>2, <2>3
<1> QED
  BY <1>1, <1>2, <1>3 DEF KeyCommand

LEMMA RejectFacts ==
  ASSUME NEW r \in Request, Malformed(r) \/ Refuse(r)
  PROVE  \E c \in Counter : Reject(r, c)
BY DEF Malformed, Refuse, Counter

(* What the judge approves may be stored.                                    *)
LEMMA ApproveFacts ==
  ASSUME ATypeOK, ClockRuns, NEW r \in Request, Approve(r)
  PROVE  \E s \in Step :
           /\ step[r].at = "judge" /\ step[r].key \in Key
           /\ Be(r, s) /\ Count(step[r].key, "PokemonCounter")
           /\ s.at = "store" /\ s.key = step[r].key
           /\ s.object.type = "pokemon" /\ s.object.source = s.key
           /\ s.object.expiry # 0 /\ s.object.expiry <= now + Window
           /\ UNCHANGED <<mapvars, keyvars, shown, raced>>
<1>1. step[r].at = "judge" /\ step[r].key \in Key
  BY MoveFacts DEF Approve, ATypeOK, InHand
<1>2. PICK i \in ObjectId, expiry \in 0 .. TooFar :
        /\ ~Expired(expiry) /\ ~Future(expiry)
        /\ Be(r, [at |-> "store", key |-> step[r].key, id |-> i,
                  object |-> Pokemon(expiry, step[r].key)])
  BY DEF Approve
<1>3. expiry \in Nat /\ expiry # 0 /\ expiry <= now + Window
  BY <1>2 DEF TooFar, Expired, Future, ClockRuns, ATypeOK, MapTypeOK
<1>4. Pokemon(expiry, step[r].key) \in Object
  BY <1>1, <1>3 DEF Pokemon, Object, Kind, Team
<1> QED
  BY <1>1, <1>2, <1>3, <1>4 DEF Step, Approve, Pokemon
-----------------------------------------------------------------------------
LEMMA ATypeStep == AInv /\ [ANext]_avars => ATypeOK'
<1> SUFFICES ASSUME AInv, [ANext]_avars PROVE ATypeOK'
  OBVIOUS
<1> USE DEF AInv, ATypeOK, mapvars, keyvars, apivars
<1>1. ASSUME NEW r \in Request, Submit(r) PROVE ATypeOK'
  <2>1. PICK k \in Key : Be(r, [at |-> "lookup", key |-> k])
    BY <1>1 DEF Submit
  <2>2. [at |-> "lookup", key |-> k] \in Step
    BY DEF Step
  <2> QED
    BY <1>1, <2>1, <2>2, BeFacts DEF Submit, MapTypeOK, KeyTypeOK
<1>2. ASSUME NEW r \in Request, Lookup(r) PROVE ATypeOK'
  <2>1. Idle \in Step /\ [step[r] EXCEPT !.at = "check"] \in Step
    BY <1>2, MoveFacts DEF Lookup, InHand, Step
  <2> QED
    BY <1>2, <2>1, BeFacts DEF Lookup, MapTypeOK, KeyTypeOK
<1>3. ASSUME NEW r \in Request, CheckMetrics(r) PROVE ATypeOK'
  <2>1. \A to \in {"fill", "judge"} : [step[r] EXCEPT !.at = to] \in Step
    BY <1>3, MoveFacts DEF CheckMetrics, Goto, InHand
  <2>2. step[r].key \in Key
    BY <1>3, MoveFacts DEF CheckMetrics, Goto, InHand
  <2>3. step' \in [Request -> Step] /\ raced' \subseteq Key
    BY <1>3, <2>1, <2>2, BeFacts DEF CheckMetrics, Goto
  <2> QED
    BY <1>3, <2>3 DEF CheckMetrics, MapTypeOK, KeyTypeOK
<1>4. ASSUME NEW r \in Request, FillMetrics(r) PROVE ATypeOK'
  <2>1. [step[r] EXCEPT !.at = "judge"] \in Step /\ step[r].key \in Key
    BY <1>4, MoveFacts DEF FillMetrics, Goto, InHand
  <2>2. step' \in [Request -> Step]
    BY <1>4, <2>1, BeFacts DEF FillMetrics, Goto
  <2> QED
    BY <1>4, <2>1, <2>2 DEF FillMetrics, MapTypeOK, KeyTypeOK, Counts, Zero
<1>5. ASSUME NEW r \in Request, Malformed(r) \/ Refuse(r) PROVE ATypeOK'
  <2>1. PICK c \in Counter : Reject(r, c)
    BY <1>5, RejectFacts
  <2>2. Idle \in Step /\ step[r].key \in Key /\ metrics[step[r].key] # NoMetrics
    BY <2>1, MoveFacts DEF Reject, InHand, Step, Submissions, Submission
  <2> QED
    BY <2>1, <2>2, CountFacts, BeFacts DEF Reject, MapTypeOK, KeyTypeOK
<1>6. ASSUME NEW r \in Request, Approve(r) PROVE ATypeOK'
  <2>1. PICK s \in Step :
          /\ step[r].at = "judge" /\ step[r].key \in Key
          /\ Be(r, s) /\ Count(step[r].key, "PokemonCounter")
          /\ UNCHANGED <<mapvars, keyvars, shown, raced>>
    BY <1>6, ApproveFacts
  <2>2. "PokemonCounter" \in Counter /\ metrics[step[r].key] # NoMetrics
    BY <2>1 DEF Counter, Submissions, Submission
  <2> QED
    BY <2>1, <2>2, CountFacts, BeFacts DEF MapTypeOK, KeyTypeOK
<1>7. ASSUME NEW r \in Request, StoreObject(r) PROVE ATypeOK'
  <2>1. Idle \in Step /\ step[r].id \in ObjectId /\ step[r].object \in Object
    BY <1>7 DEF StoreObject, Step, Idle
  <2> QED
    BY <1>7, <2>1, AddFacts, BeFacts DEF StoreObject, MapTypeOK, KeyTypeOK
<1>8. CASE Cache
  <2>1. PICK types \in SUBSET Kind :
          shown' = [types |-> types, objects |-> GetMapObjects(types)]
    BY <1>8 DEF Cache
  <2>2. GetMapObjects(types)
          \subseteq [id : ObjectId, type : Kind, expiry : Nat, team : Team]
    BY DEF GetMapObjects, MapTypeOK, Object
  <2> QED
    BY <1>8, <2>1, <2>2 DEF Cache, Answer, MapTypeOK, KeyTypeOK
<1>9. CASE MapRace
  BY <1>9 DEF MapRace, AllIdle, NoEntries, NothingDue, Step, Counts, Zero,
              MapTypeOK, KeyTypeOK
<1>10. CASE SaveScan \/ AddPokemon
  <2>1. PICK i \in ObjectId, o \in Object : AddMapObject(i, o)
    BY <1>10, TheirsFacts
  <2> QED
    BY <1>10, <2>1, AddFacts DEF SaveScan, AddPokemon, MapTypeOK, KeyTypeOK
<1>11. CASE RemovePokemon
  <2>1. PICK threshold \in Nat : RemoveOldPokemon(threshold)
    BY <1>11 DEF RemovePokemon, TooFar, MapTypeOK
  <2> QED
    BY <1>11, <2>1, RemoveFacts DEF RemovePokemon, MapTypeOK, KeyTypeOK
<1>12. CASE ManageKeys
  BY <1>12, KeyFacts DEF ManageKeys, MapTypeOK
<1>13. CASE Tick
  BY <1>13 DEF Tick, MapTypeOK, KeyTypeOK
<1>14. CASE UNCHANGED avars
  BY <1>14 DEF avars, MapTypeOK, KeyTypeOK
<1>15. ASSUME NEW k \in Key, NEW c \in Counter, Fade(k, c) PROVE ATypeOK'
  <2>1. UNCHANGED <<mapvars, keyvars, step, shown, raced>>
    BY <1>15 DEF Fade
  <2> QED
    BY <1>15, <2>1, FadeFacts DEF MapTypeOK, KeyTypeOK
<1> QED
  BY <1>1, <1>2, <1>3, <1>4, <1>5, <1>6, <1>7, <1>8, <1>9, <1>10, <1>11, <1>12,
     <1>13, <1>14, <1>15 DEF ANext, SubmitStep
-----------------------------------------------------------------------------
(* What a submission has found out stays so while the server runs: keys that *)
(* were enabled, entries for them, and checks against the clock.             *)
LEMMA LastingFacts ==
  ASSUME AInv, [ANext]_avars, ~MapRace
  PROVE  /\ granted \subseteq granted'
         /\ now <= now' /\ now \in Nat /\ now' \in Nat
         /\ \A k \in Key : metrics[k] # NoMetrics => metrics'[k] # NoMetrics
<1>0. now \in Nat /\ now' \in Nat
  BY ATypeStep DEF AInv, ATypeOK, MapTypeOK
<1> USE DEF AInv, ATypeOK, mapvars, keyvars, apivars
<1>1. ASSUME NEW r \in Request, FillMetrics(r)
      PROVE  \A k \in Key : metrics[k] # NoMetrics => metrics'[k] # NoMetrics
  BY <1>1 DEF FillMetrics, Counts, Zero
<1>2. ASSUME NEW r \in Request, Malformed(r) \/ Refuse(r)
      PROVE  \A k \in Key : metrics[k] # NoMetrics => metrics'[k] # NoMetrics
  <2>1. PICK c \in Counter : Reject(r, c)
    BY <1>2, RejectFacts
  <2>2. step[r].key \in Key /\ metrics[step[r].key] # NoMetrics
    BY <2>1, MoveFacts DEF Reject, InHand, Submissions, Submission
  <2> QED
    BY <2>1, <2>2, CountFacts DEF Reject
<1>3. ASSUME NEW r \in Request, Approve(r)
      PROVE  \A k \in Key : metrics[k] # NoMetrics => metrics'[k] # NoMetrics
  <2>1. /\ step[r].at = "judge" /\ step[r].key \in Key
        /\ Count(step[r].key, "PokemonCounter")
    BY <1>3, ApproveFacts
  <2>2. "PokemonCounter" \in Counter /\ metrics[step[r].key] # NoMetrics
    BY <2>1 DEF Counter, Submissions, Submission
  <2> QED
    BY <2>1, <2>2, CountFacts
<1>4. CASE ManageKeys
  BY <1>0, <1>4, KeyFacts DEF ManageKeys
<1>5. CASE Tick
  BY <1>0, <1>5 DEF Tick
<1>6. CASE Cache \/ SaveScan \/ AddPokemon \/ RemovePokemon \/ UNCHANGED avars
  BY <1>0, <1>6 DEF Cache, SaveScan, AddPokemon, RemovePokemon, avars
<1>7. ASSUME NEW r \in Request, Submit(r) \/ SubmitStep(r)
      PROVE  granted' = granted /\ now' = now
  BY <1>7, RejectFacts DEF SubmitStep, Submit, Lookup, CheckMetrics, FillMetrics, Reject,
                           Approve, StoreObject
<1>8. ASSUME NEW r \in Request, Submit(r) \/ Lookup(r) \/ CheckMetrics(r) \/ StoreObject(r)
      PROVE  metrics' = metrics
  BY <1>8 DEF Submit, Lookup, CheckMetrics, StoreObject
<1>9. CASE \E r \in Request : Submit(r) \/ SubmitStep(r)
  BY <1>0, <1>1, <1>2, <1>3, <1>7, <1>8, <1>9 DEF SubmitStep
<1>10. ASSUME NEW k \in Key, NEW c \in Counter, Fade(k, c)
       PROVE  /\ granted' = granted /\ now' = now
              /\ \A j \in Key : metrics[j] # NoMetrics => metrics'[j] # NoMetrics
  <2>1. granted' = granted /\ now' = now
    BY <1>10 DEF Fade
  <2> QED
    BY <1>10, <2>1, FadeFacts
<1> QED
  BY <1>0, <1>4, <1>5, <1>6, <1>9, <1>10 DEF ANext

LEMMA SubmissionsStep == AInv /\ [ANext]_avars => Submissions'
<1> SUFFICES ASSUME AInv, [ANext]_avars PROVE Submissions'
  OBVIOUS
<1>0. CASE MapRace
  BY <1>0 DEF MapRace, AllIdle, Idle, Submissions, Submission
<1> SUFFICES ASSUME ~MapRace PROVE Submissions'
  BY <1>0
<1>1. ASSUME NEW q \in Request, step'[q] = step[q] PROVE Submission(q)'
  <2>1. Submission(q) /\ step[q] \in Step
    BY DEF AInv, Submissions, ATypeOK
  <2>2. step[q].at = "judge" => step[q].key \in Key
    BY MoveFacts DEF AInv, ATypeOK, InHand
  <2>3. step[q].at = "store" => step[q].object.expiry \in Nat
    BY <2>1 DEF Step, Idle, Object
  <2> QED
    BY <1>1, <2>1, <2>2, <2>3, LastingFacts DEF Submission
<1>2. ASSUME NEW r \in Request, Submission(r)',
             \A q \in Request \ {r} : step'[q] = step[q]
      PROVE  Submissions'
  BY <1>1, <1>2 DEF Submissions
<1>3. ASSUME step' = step PROVE Submissions'
  BY <1>1, <1>3 DEF Submissions
<1> USE DEF AInv, ATypeOK, mapvars, keyvars, apivars
<1>4. ASSUME NEW r \in Request, Submit(r) PROVE Submissions'
  <2>1. PICK k \in Key : Be(r, [at |-> "lookup", key |-> k])
    BY <1>4 DEF Submit
  <2> QED
    BY <1>2, <2>1 DEF Be, Submission
<1>5. ASSUME NEW r \in Request, Lookup(r) PROVE Submissions'
  <2>1. CASE Be(r, Idle)
    BY <1>2, <2>1 DEF Be, Submission, Idle
  <2>2. CASE Accepts(step[r].key) /\ Be(r, [step[r] EXCEPT !.at = "check"])
    <3>1. step[r].key \in Key /\ [step[r] EXCEPT !.at = "check"].key = step[r].key
          /\ [step[r] EXCEPT !.at = "check"].at = "check"
      BY <1>5, MoveFacts DEF Lookup, InHand
    <3>2. step[r].key \in granted /\ granted' = granted
      BY <1>5, <2>2, <3>1 DEF Lookup, Accepts, EnabledGranted
    <3>3. step'[r].at = "check" /\ step'[r].key = step[r].key
      BY <2>2, <3>1 DEF Be
    <3> QED
      BY <1>2, <2>2, <3>2, <3>3 DEF Be, Submission
  <2> QED
    BY <1>5, <2>1, <2>2 DEF Lookup
<1>6. ASSUME NEW r \in Request, CheckMetrics(r) \/ FillMetrics(r) PROVE Submissions'
  <2>1. PICK to \in {"fill", "judge"} :
          /\ step[r].at \in {"check", "fill"} /\ Be(r, [step[r] EXCEPT !.at = to])
          /\ to = "judge" => metrics'[step[r].key] # NoMetrics
    <3>1. step[r].at \in {"check", "fill"} /\ step[r].key \in Key
      BY <1>6, MoveFacts DEF CheckMetrics, FillMetrics, Goto, InHand
    <3>2. CASE CheckMetrics(r)
      BY <3>1, <3>2 DEF CheckMetrics, Goto, Missing
    <3>3. CASE FillMetrics(r)
      <4>1. metrics'[step[r].key] = Zero /\ Zero \in Counts
        BY <3>1, <3>3 DEF FillMetrics, Zero, Counts
      <4> QED
        BY <3>1, <3>3, <4>1 DEF FillMetrics, Goto
    <3> QED
      BY <1>6, <3>2, <3>3
  <2>2. step'[r].at = to /\ step'[r].key = step[r].key /\ step[r].key \in granted
    BY <2>1, MoveFacts DEF Be, InHand, Submissions, Submission
  <2> QED
    BY <1>2, <2>1, <2>2, LastingFacts DEF Be, Submission
<1>7. ASSUME NEW r \in Request, Malformed(r) \/ Refuse(r) \/ StoreObject(r)
      PROVE  Submissions'
  <2>1. Be(r, Idle)
    BY <1>7, RejectFacts DEF Reject, StoreObject
  <2> QED
    BY <1>2, <2>1 DEF Be, Submission, Idle
<1>8. ASSUME NEW r \in Request, Approve(r) PROVE Submissions'
  <2>1. PICK s \in Step :
          /\ step[r].at = "judge" /\ Be(r, s)
          /\ s.at = "store" /\ s.key = step[r].key
          /\ s.object.type = "pokemon" /\ s.object.source = s.key
          /\ s.object.expiry # 0 /\ s.object.expiry <= now + Window
          /\ UNCHANGED <<mapvars, keyvars, shown, raced>>
    BY <1>8, ApproveFacts
  <2>2. step'[r] = s /\ s.key \in granted'
    BY <2>1 DEF Be, Submissions, Submission
  <2> QED
    BY <1>2, <2>1, <2>2 DEF Be, Submission
<1>9. CASE Cache \/ SaveScan \/ AddPokemon \/ RemovePokemon \/ ManageKeys \/ Tick
            \/ UNCHANGED avars
  BY <1>3, <1>9 DEF Cache, SaveScan, AddPokemon, RemovePokemon, ManageKeys, Tick, avars
<1>10. CASE \E k \in Key, c \in Counter : Fade(k, c)
  BY <1>3, <1>10 DEF Fade
<1> QED
  BY <1>4, <1>5, <1>6, <1>7, <1>8, <1>9, <1>10 DEF ANext, SubmitStep
-----------------------------------------------------------------------------
LEMMA FortKindFacts == "pokemon" \notin FortKind
BY DEF FortKind

(* Every change to an object: of what kind it is, and who gets the credit.   *)
LEMMA ObjectFacts ==
  ASSUME AInv, [ANext]_avars, NEW i \in ObjectId, objects'[i] # objects[i]
  PROVE  \/ objects'[i] = NoObject /\ IsPokemon(i)
         \/ /\ objects'[i] \in Object
            /\ objects[i] = NoObject \/ objects'[i].type \in FortKind
            /\ objects'[i].type \in FortKind => objects'[i].expiry = 0
            /\ \/ objects'[i].source = Nobody
               \/ /\ objects'[i].source \in granted
                  /\ objects'[i].expiry # 0
                  /\ objects'[i].expiry <= now + Window
<1> USE DEF AInv, ATypeOK
<1>1. ASSUME NEW r \in Request, StoreObject(r)
      PROVE  /\ objects'[i] \in Object
             /\ objects[i] = NoObject
             /\ objects'[i].type = "pokemon"
             /\ objects'[i].source \in granted
             /\ objects'[i].expiry # 0 /\ objects'[i].expiry <= now + Window
  <2>1. /\ step[r].id \in ObjectId /\ step[r].object \in Object
        /\ AddMapObject(step[r].id, step[r].object)
        /\ step[r].at = "store"
    BY <1>1 DEF StoreObject, Step, Idle
  <2> QED
    BY <2>1, AddFacts DEF Submissions, Submission, FortKind
<1>2. CASE SaveScan \/ AddPokemon
  <2>1. PICK j \in ObjectId, o \in Object : Theirs(o) /\ AddMapObject(j, o)
    BY <1>2, TheirsFacts
  <2> QED
    BY <2>1, AddFacts DEF Theirs
<1>3. CASE RemovePokemon
  <2>1. PICK threshold \in Nat : RemoveOldPokemon(threshold)
    BY <1>3 DEF RemovePokemon, TooFar, MapTypeOK
  <2> QED
    BY <2>1, RemoveFacts
<1>4. ASSUME NEW r \in Request, SubmitStep(r) \/ Submit(r), ~StoreObject(r)
      PROVE  objects' = objects
  BY <1>4, RejectFacts DEF SubmitStep, Submit, Lookup, CheckMetrics, FillMetrics,
                           Reject, Approve, mapvars
<1>5. CASE Cache \/ MapRace \/ ManageKeys \/ Tick \/ UNCHANGED avars
            \/ \E k \in Key, c \in Counter : Fade(k, c)
  BY <1>5 DEF Cache, MapRace, ManageKeys, Tick, Fade, avars, mapvars
<1> QED
  BY FortKindFacts, <1>1, <1>2, <1>3, <1>4, <1>5 DEF ANext

LEMMA ObjectsStep ==
  AInv /\ [ANext]_avars =>
    EnabledGranted' /\ ClockRuns' /\ SubmittedSoonGone' /\ CreditedWereEnabled'
<1> SUFFICES ASSUME AInv, [ANext]_avars
             PROVE  /\ EnabledGranted' /\ ClockRuns'
                    /\ SubmittedSoonGone' /\ CreditedWereEnabled'
  OBVIOUS
<1>1. granted \subseteq granted' /\ now <= now' /\ now \in Nat /\ now' \in Nat
  BY LastingFacts DEF MapRace, mapvars, keyvars, AInv, ATypeOK, MapTypeOK
<1>2. EnabledGranted'
  <2>1. CASE ManageKeys
    BY <2>1, KeyFacts DEF ManageKeys, AInv, ATypeOK
  <2>2. CASE ~ManageKeys
    <3>1. UNCHANGED keyvars
      BY <2>2, RejectFacts
         DEF ANext, SubmitStep, Submit, Lookup, CheckMetrics, FillMetrics, Reject,
             Approve, StoreObject, Cache, MapRace, SaveScan, AddPokemon,
             RemovePokemon, Tick, Fade, avars
    <3> QED
      BY <3>1 DEF keyvars, AInv, EnabledGranted, Enabled
  <2> QED
    BY <2>1, <2>2
<1>3. ASSUME NEW i \in ObjectId, objects'[i] # NoObject
      PROVE  /\ objects'[i].source # Nobody =>
                  objects'[i].expiry # 0 /\ objects'[i].expiry <= now' + Window
             /\ objects'[i].source \in granted' \cup {Nobody}
  <2>0. objects'[i] \in Object
    BY <1>3, ATypeStep DEF ATypeOK, MapTypeOK
  <2>1. objects'[i].expiry \in Nat
    BY <2>0 DEF Object
  <2>2. CASE objects'[i] = objects[i]
    BY <1>1, <1>3, <2>1, <2>2 DEF AInv, SubmittedSoonGone, CreditedWereEnabled
  <2>3. CASE objects'[i] # objects[i]
    BY <1>1, <1>3, <2>1, <2>3, ObjectFacts
  <2> QED
    BY <2>2, <2>3
<1> QED
  BY <1>1, <1>2, <1>3 DEF SubmittedSoonGone, CreditedWereEnabled, ClockRuns, AInv

LEMMA CountsStep == AInv /\ [ANext]_avars => OneFills' /\ CountsExact'
<1> SUFFICES ASSUME AInv, [ANext]_avars PROVE OneFills' /\ CountsExact'
  OBVIOUS
<1> USE DEF AInv, ATypeOK
<1>0. CASE MapRace
  BY <1>0 DEF MapRace, AllIdle, NoEntries, NothingDue, Idle, OneFills, CountsExact,
              Counted, Zero
<1>1. ASSUME NEW r \in Request, Submit(r) \/ Lookup(r) \/ StoreObject(r)
      PROVE  OneFills' /\ CountsExact'
  <2>1. /\ metrics' = metrics /\ due' = due /\ raced' = raced
        /\ \A q \in Request \ {r} : step'[q] = step[q]
    BY <1>1 DEF Submit, Lookup, StoreObject, Be
  <2>2. step'[r].at # "fill"
    <3>1. CASE Submit(r)
      BY <3>1 DEF Submit, Be
    <3>2. CASE Lookup(r)
      <4>1. [step[r] EXCEPT !.at = "check"].at = "check"
        BY <3>2, MoveFacts DEF Lookup, InHand
      <4>2. CASE Be(r, Idle)
        BY <4>2 DEF Be, Idle
      <4>3. CASE Be(r, [step[r] EXCEPT !.at = "check"])
        BY <4>1, <4>3 DEF Be
      <4> QED
        BY <3>2, <4>2, <4>3 DEF Lookup
    <3>3. CASE StoreObject(r)
      BY <3>3 DEF StoreObject, Be, Idle
    <3> QED
      BY <1>1, <3>1, <3>2, <3>3
  <2> QED
    BY <2>1, <2>2 DEF OneFills, CountsExact, Counted, Filling
<1>2. ASSUME NEW r \in Request, CheckMetrics(r) PROVE OneFills' /\ CountsExact'
  <2> DEFINE k == step[r].key
  <2>1. /\ metrics' = metrics /\ due' = due /\ raced \subseteq raced'
        /\ raced' = IF Missing(k) /\ Filling(k) # {} THEN raced \cup {k} ELSE raced
        /\ \A q \in Request \ {r} : step'[q] = step[q]
    BY <1>2 DEF CheckMetrics, Goto, Be
  <2>2. /\ step[r].at = "check" /\ k \in Key /\ step'[r].key = k
        /\ step'[r].at = IF Missing(k) THEN "fill" ELSE "judge"
    BY <1>2, MoveFacts DEF CheckMetrics, Goto, Be, InHand
  <2>3. CountsExact'
    BY <2>1 DEF CountsExact, Counted
  <2>4. CASE Missing(k)
    <3>1. \A j : Filling(j)' = IF j = k THEN Filling(j) \cup {r} ELSE Filling(j)
      BY <2>1, <2>2, <2>4 DEF Filling
    <3>2. k \notin raced' => Filling(k) = {}
      BY <2>1, <2>4
    <3> QED
      BY <2>1, <2>2, <2>3, <2>4, <3>1, <3>2 DEF OneFills, Missing, Filling
  <2>5. CASE ~Missing(k)
    BY <2>1, <2>2, <2>3, <2>5 DEF OneFills, Filling
  <2> QED
    BY <2>4, <2>5
<1>3. ASSUME NEW r \in Request, FillMetrics(r) PROVE OneFills' /\ CountsExact'
  <2> DEFINE k == step[r].key
  <2>1. /\ due' = due /\ raced' = raced
        /\ metrics' = [metrics EXCEPT ![k] = Zero]
        /\ \A q \in Request \ {r} : step'[q] = step[q]
    BY <1>3 DEF FillMetrics, Goto, Be
  <2>2. step[r].at = "fill" /\ k \in Key /\ step'[r].key = k /\ step'[r].at = "judge"
    BY <1>3, MoveFacts DEF FillMetrics, Goto, Be, InHand
  <2>3. k \notin raced => metrics[k] = NoMetrics /\ Filling(k) = {r}
    BY <2>2 DEF OneFills, Filling
  <2>4. k \notin raced => due[k] = Zero
    BY <2>2, <2>3 DEF CountsExact, Counted
  <2>5. CountsExact'
    <3>1. Counted(k)' = Zero /\ \A j \in Key \ {k} : Counted(j)' = Counted(j)
      BY <2>1, <2>2 DEF Counted
    <3>2. \A c \in Counter : Zero[c] \in 0 .. due[k][c]
      BY <2>2 DEF Zero, Counts
    <3> QED
      BY <2>1, <2>2, <2>4, <3>1, <3>2 DEF CountsExact
  <2>6. \A j : Filling(j)' = IF j = k THEN Filling(j) \ {r} ELSE Filling(j)
    BY <2>1, <2>2 DEF Filling
  <2> QED
    BY <2>1, <2>2, <2>3, <2>5, <2>6 DEF OneFills, Filling
<1>4. ASSUME NEW r \in Request, NEW c \in Counter, NEW k \in Key,
             step[r].at = "judge", step[r].key = k,
             Count(k, c), raced' = raced, step'[r].at # "fill",
             \A q \in Request \ {r} : step'[q] = step[q]
      PROVE  OneFills' /\ CountsExact'
  <2>1. metrics[k] # NoMetrics
    BY <1>4 DEF Submissions, Submission
  <2>2. /\ metrics'[k] # NoMetrics
        /\ \A j \in Key \ {k} : metrics'[j] = metrics[j] /\ due'[j] = due[j]
        /\ metrics'[k] = [metrics[k] EXCEPT ![c] = @ + 1]
        /\ due'[k] = [due[k] EXCEPT ![c] = @ + 1]
    BY <1>4, <2>1, CountFacts
  <2>3. CountsExact'
    <3>1. Counted(k) = metrics[k] /\ Counted(k)' = metrics'[k]
      BY <2>1, <2>2 DEF Counted
    <3>2. \A j \in Key \ {k} : Counted(j)' = Counted(j) /\ due'[j] = due[j]
      BY <2>2 DEF Counted
    <3>3. metrics[k] \in Counts /\ due[k] \in Counts
      BY <2>1
    <3>4. k \notin raced => metrics[k] = due[k]
      BY <2>1, <3>1 DEF CountsExact
    <3>5. \A d \in Counter : metrics[k][d] \in 0 .. due[k][d]
      BY <2>1, <3>1 DEF CountsExact
    <3>6. ASSUME NEW d \in Counter PROVE metrics'[k][d] \in 0 .. due'[k][d]
      <4>1. metrics[k][d] \in 0 .. due[k][d] /\ due[k][d] \in Nat
        BY <3>3, <3>5 DEF Counts
      <4> QED
        BY <2>2, <3>3, <4>1 DEF Counts
    <3>7. k \notin raced => metrics'[k] = due'[k]
      BY <2>2, <3>4
    <3> QED
      BY <1>4, <3>1, <3>2, <3>6, <3>7 DEF CountsExact
  <2>4. ASSUME NEW q \in Request, step'[q].at = "fill", step'[q].key \notin raced
        PROVE  /\ metrics'[step'[q].key] = NoMetrics
               /\ \A s \in Filling(step[q].key)' : s = q
    <3>1. q # r /\ step[q].at = "fill" /\ step[q].key = step'[q].key
      BY <1>4, <2>4
    <3>2. metrics[step[q].key] = NoMetrics /\ \A s \in Filling(step[q].key) : s = q
      BY <1>4, <2>4, <3>1 DEF OneFills
    <3>3. step[q].key \in Key /\ step[q].key # k
      BY <2>1, <3>1, <3>2, MoveFacts DEF InHand
    <3>4. Filling(step[q].key)' \subseteq Filling(step[q].key)
      BY <1>4, <3>1 DEF Filling
    <3> QED
      BY <2>2, <3>1, <3>2, <3>3, <3>4
  <2> QED
    BY <1>4, <2>3, <2>4 DEF OneFills
<1>5. ASSUME NEW r \in Request, Malformed(r) \/ Refuse(r) PROVE OneFills' /\ CountsExact'
  <2>1. PICK c \in Counter : Reject(r, c)
    BY <1>5, RejectFacts
  <2> QED
    BY <1>4, <2>1, MoveFacts DEF Reject, Be, Idle, InHand
<1>6. ASSUME NEW r \in Request, Approve(r) PROVE OneFills' /\ CountsExact'
  <2>1. "PokemonCounter" \in Counter
    BY DEF Counter
  <2> QED
    BY <1>4, <1>6, <2>1, ApproveFacts DEF Be
<1>7. CASE Cache \/ SaveScan \/ AddPokemon \/ RemovePokemon \/ ManageKeys \/ Tick
            \/ UNCHANGED avars
  BY <1>7 DEF Cache, SaveScan, AddPokemon, RemovePokemon, ManageKeys, Tick, avars,
              apivars, OneFills, CountsExact, Counted, Filling
<1>8. ASSUME NEW k \in Key, NEW c \in Counter, Fade(k, c)
      PROVE  OneFills' /\ CountsExact'
  <2>1. step' = step /\ raced' = raced
    BY <1>8 DEF Fade
  <2>2. /\ \A j \in Key : metrics[j] = NoMetrics => metrics'[j] = NoMetrics
        /\ \A j \in Key \ {k} : Counted(j)' = Counted(j) /\ due'[j] = due[j]
        /\ due'[k] = [due[k] EXCEPT ![c] = @ - 1]
    BY <1>8, FadeFacts DEF Counted
  <2>3. \/ /\ Counted(k)[c] > 0
           /\ Counted(k)' = [Counted(k) EXCEPT ![c] = @ - 1]
        \/ Counted(k)[c] < due[k][c] /\ Counted(k)' = Counted(k)
    <3>1. CASE Counted(k)[c] > 0 /\ metrics'[k] = [metrics[k] EXCEPT ![c] = @ - 1]
      <4>1. metrics[k] # NoMetrics
        BY <3>1 DEF Counted, Zero
      <4> QED
        BY <1>8, <3>1, <4>1, FadeFacts DEF Counted
    <3>2. CASE Counted(k)[c] < due[k][c] /\ metrics'[k] = metrics[k]
      BY <3>2 DEF Counted
    <3> QED
      BY <1>8, <3>1, <3>2, FadeFacts
  <2>4. Counted(k) \in Counts /\ due[k] \in Counts
    BY DEF Counted, Zero, Counts
  <2>5. /\ k \notin raced => Counted(k) = due[k]
        /\ \A d \in Counter : Counted(k)[d] \in 0 .. due[k][d]
    BY DEF CountsExact
  <2>6. k \notin raced' => Counted(k)' = due'[k]
    BY <2>1, <2>2, <2>3, <2>4, <2>5 DEF Counts
  <2>7. ASSUME NEW d \in Counter PROVE Counted(k)'[d] \in 0 .. due'[k][d]
    <3>1. Counted(k)[d] \in 0 .. due[k][d] /\ due[k][d] \in Nat
      BY <2>4, <2>5 DEF Counts
    <3> QED
      BY <2>2, <2>3, <2>4, <3>1 DEF Counts
  <2>8. CountsExact'
    BY <2>1, <2>2, <2>6, <2>7 DEF CountsExact
  <2>9. \A r \in Request : step[r].at = "fill" => step[r].key \in Key
    BY MoveFacts DEF InHand
  <2> QED
    BY <2>1, <2>2, <2>8, <2>9 DEF OneFills, Filling
<1> QED
  BY <1>0, <1>1, <1>2, <1>3, <1>5, <1>6, <1>7, <1>8 DEF ANext, SubmitStep

LEMMA AInvStep == AInv /\ [ANext]_avars => AInv'
BY ATypeStep, SubmissionsStep, ObjectsStep, CountsStep DEF AInv

LEMMA AInvAlways == ASpec => []AInv
<1> QED
  BY AInitInv, AInvStep, PTL DEF ASpec
-----------------------------------------------------------------------------
(* Type correctness of the api server and its collections (http.go, db.go).  *)
THEOREM ATypeCorrect == ASpec => []ATypeOK
<1>1. AInv => ATypeOK
  BY DEF AInv
<1> QED
  BY <1>1, AInvAlways, PTL

(* A submitted pokemon is gone from the map within the window, however long  *)
(* submitHandler takes between its check and the database.                   *)
THEOREM SubmittedSoonGoneAlways == ASpec => []SubmittedSoonGone
<1>1. AInv => SubmittedSoonGone
  BY DEF AInv
<1> QED
  BY <1>1, AInvAlways, PTL

(* A key that was never enabled is credited with nothing, whatever commands  *)
(* of the admin tool run while its submissions do.                           *)
THEOREM CreditedWereEnabledAlways == ASpec => []CreditedWereEnabled
<1>1. AInv => CreditedWereEnabled
  BY DEF AInv
<1> QED
  BY <1>1, AInvAlways, PTL

(* The counters in keyMetrics say what was counted in the last minute for    *)
(* every key whose entry was made by one submission, although the map has no *)
(* lock, and never more than that for any key.                               *)
THEOREM CountsExactAlways == ASpec => []CountsExact
<1>1. AInv => CountsExact
  BY DEF AInv
<1> QED
  BY <1>1, AInvAlways, PTL

(* Once stored, an encounter keeps its expiry and its source until a fort    *)
(* has its id or -removepokemon deletes it.                                  *)
THEOREM EncountersStandAlways == ASpec => EncountersStand
<1>1. ASSUME AInv, [ANext]_avars, NEW i \in ObjectId, IsPokemon(i)
      PROVE  objects'[i] \in {objects[i], NoObject} \/ IsFort(i)'
  <2>1. NoObject \notin Object
    OBVIOUS
  <2> QED
    BY <1>1, <2>1, ObjectFacts DEF IsPokemon, IsFort
<1>2. AInv /\ [ANext]_avars =>
        [\A i \in ObjectId :
           IsPokemon(i) =>
             objects'[i] \in {objects[i], NoObject} \/ IsFort(i)']_avars
  BY <1>1
<1> QED
  BY <1>2, AInvAlways, PTL DEF ASpec, EncountersStand

(* No operation on the Objects collection loses a fort.                      *)
THEOREM FortsStayAlways == ASpec => FortsStay
<1>1. ASSUME AInv, [ANext]_avars, NEW i \in ObjectId, IsFort(i)
      PROVE  IsFort(i)'
  <2>1. NoObject \notin Object
    OBVIOUS
  <2> QED
    BY <1>1, <2>1, ObjectFacts, FortKindFacts DEF IsPokemon, IsFort
<1>2. AInv /\ [ANext]_avars =>
        [\A i \in ObjectId : IsFort(i) => IsFort(i)']_avars
  BY <1>1
<1> QED
  BY <1>2, AInvAlways, PTL DEF ASpec, FortsStay
-----------------------------------------------------------------------------
(* Under an admin who removes only what has expired, what the last answer    *)
(* of /cache says of an encounter stays true until it expires, unless a fort *)
(* has its id; forts, which never expire, stay anyway.                       *)
Same(o) ==
  o = [id |-> o.id, type |-> objects[o.id].type, expiry |-> objects[o.id].expiry,
       team |-> objects[o.id].team]

Lasting(o) == o.type \in FortKind \/ o.expiry > now

Stands(o) == IsFort(o.id) \/ (IsPokemon(o.id) /\ Same(o))

ShownStands == \A o \in shown.objects : Lasting(o) => Stands(o)

FortsAgeless == \A i \in ObjectId : IsFort(i) => objects[i].expiry = 0

ShownInv == AInv /\ ShownStands /\ FortsAgeless

LEMMA ShownFacts ==
  ASSUME ATypeOK, NEW o \in shown.objects
  PROVE  /\ o \in [id : ObjectId, type : Kind, expiry : Nat, team : Team]
         /\ o.id \in ObjectId /\ o.type \in Kind /\ o.expiry \in Nat
<1>1. shown.objects \subseteq [id : ObjectId, type : Kind, expiry : Nat, team : Team]
  BY DEF ATypeOK, Answer
<1> QED
  BY <1>1

(* What /cache answers is what the collection has.                           *)
LEMMA CacheFacts ==
  ASSUME ATypeOK, Cache
  PROVE  /\ \A o \in shown'.objects :
              o.id \in ObjectId /\ objects[o.id] # NoObject /\ Same(o)
         /\ \A i \in ObjectId :
              objects[i] # NoObject /\ Showable(i) /\ objects[i].type \in shown'.types =>
                [id |-> i, type |-> objects[i].type, expiry |-> objects[i].expiry,
                 team |-> objects[i].team] \in shown'.objects
         /\ UNCHANGED mapvars
<1>1. PICK types : shown' = [types |-> types, objects |-> GetMapObjects(types)]
  BY DEF Cache
<1>2. shown'.types = types /\ shown'.objects = GetMapObjects(types)
  BY <1>1
<1> QED
  BY <1>2 DEF Cache, GetMapObjects, Same

LEMMA ShownInvStep ==
  ShownInv /\ [ANext /\ OnlyExpiredRemoved]_avars => ShownInv'
<1> SUFFICES ASSUME ShownInv, [ANext /\ OnlyExpiredRemoved]_avars PROVE ShownInv'
  OBVIOUS
<1>1. AInv /\ [ANext]_avars /\ AInv' /\ ATypeOK /\ ATypeOK'
  BY AInvStep DEF ShownInv, AInv
<1>2. now <= now' /\ now \in Nat /\ now' \in Nat
  BY <1>1, LastingFacts DEF MapRace, mapvars, ATypeOK, MapTypeOK
<1>3. FortsAgeless'
  <2>1. ASSUME NEW i \in ObjectId, IsFort(i)' PROVE objects'[i].expiry = 0
    <3>1. CASE objects'[i] = objects[i]
      BY <2>1, <3>1 DEF ShownInv, FortsAgeless, IsFort
    <3>2. CASE objects'[i] # objects[i]
      BY <1>1, <2>1, <3>2, ObjectFacts DEF IsFort
    <3> QED
      BY <3>1, <3>2
  <2> QED
    BY <2>1 DEF FortsAgeless
<1>4. CASE Cache
  <2>1. ASSUME NEW o \in shown'.objects PROVE Stands(o)'
    <3>1. o.id \in ObjectId /\ objects[o.id] # NoObject /\ Same(o) /\ objects' = objects
      BY <1>1, <1>4, CacheFacts DEF mapvars
    <3>2. objects[o.id].type \in Kind
      BY <1>1, <3>1 DEF ATypeOK, MapTypeOK, Object
    <3> QED
      BY <3>1, <3>2 DEF Stands, IsPokemon, IsFort, Same, Kind
  <2> QED
    BY <1>1, <1>3, <2>1 DEF ShownInv, ShownStands
<1>5. CASE ~Cache
  <2>1. shown' = shown
    BY <1>1, <1>5, RejectFacts
       DEF ANext, SubmitStep, Submit, Lookup, CheckMetrics, FillMetrics, Reject,
           Approve, StoreObject, MapRace, SaveScan, AddPokemon, RemovePokemon,
           ManageKeys, Tick, Fade, avars, apivars
  <2>2. ASSUME NEW o \in shown.objects, Lasting(o)' PROVE Stands(o)'
    <3>1. o.id \in ObjectId /\ o.type \in Kind /\ o.expiry \in Nat
      BY <1>1, ShownFacts
    <3>2. Lasting(o) /\ Stands(o)
      BY <1>2, <2>2, <3>1 DEF Lasting, ShownInv, ShownStands
    <3>3. CASE objects'[o.id] = objects[o.id]
      BY <3>2, <3>3 DEF Stands, IsPokemon, IsFort, Same
    <3>4. CASE objects'[o.id] # objects[o.id]
      <4>1. objects[o.id] # NoObject
        BY <3>2 DEF Stands, IsPokemon, IsFort
      <4>2. ASSUME objects'[o.id] = NoObject, IsPokemon(o.id) PROVE FALSE
        <5>1. Same(o)
          BY <3>2, <4>2, FortKindFacts DEF Stands, IsPokemon, IsFort
        <5>2. o.type = "pokemon" /\ objects[o.id].expiry = o.expiry
          BY <4>2, <5>1 DEF Same, IsPokemon
        <5>3. objects[o.id].expiry > now
          BY <3>2, <5>2, FortKindFacts DEF Lasting
        <5>4. OnlyExpiredRemoved
          BY <3>4 DEF avars, mapvars
        <5> QED
          BY <3>1, <4>2, <5>3, <5>4 DEF OnlyExpiredRemoved
      <4>3. objects'[o.id] \in Object /\ objects'[o.id].type \in FortKind
        BY <1>1, <3>1, <3>4, <4>1, <4>2, ObjectFacts
      <4>4. NoObject \notin Object
        OBVIOUS
      <4> QED
        BY <4>3, <4>4 DEF Stands, IsFort
    <3> QED
      BY <3>3, <3>4
  <2> QED
    BY <1>1, <1>3, <2>1, <2>2 DEF ShownInv, ShownStands
<1> QED
  BY <1>4, <1>5

(* cacheHandler's answers agree with one another, whatever is submitted and  *)
(* scanned between them: what an answer says of an encounter until it        *)
(* expires, and of a pokestop or a gym for ever, is in every later one about *)
(* its type, or else its id is a fort's by then, which is in it if asked for.*)
THEOREM AnswersAgreeAlways == CarefulSpec => AnswersAgree
<1> DEFINE Later(o) ==
      o.type \in shown'.types /\ (o.type \in FortKind \/ o.expiry > now) =>
        \/ o \in shown'.objects
        \/ /\ IsFort(o.id)
           /\ objects[o.id].type \in shown'.types =>
                \E p \in shown'.objects :
                  p.id = o.id /\ p.type = objects[o.id].type
<1>1. AInit => ShownInv
  <2>1. AInit => AInv
    BY AInitInv
  <2> QED
    BY <2>1 DEF ShownInv, ShownStands, FortsAgeless, AInit, MapInit, IsFort
<1>2. ASSUME ShownInv, [ANext /\ OnlyExpiredRemoved]_avars, shown' # shown,
             NEW o \in shown.objects, o.type \in shown'.types, Lasting(o)
      PROVE  Later(o)
  <2>1. ATypeOK /\ o.id \in ObjectId /\ o.type \in Kind /\ o.expiry \in Nat
    BY <1>2, ShownFacts DEF ShownInv, AInv
  <2>2. Cache
    BY <1>2, RejectFacts
       DEF ANext, SubmitStep, Submit, Lookup, CheckMetrics, FillMetrics, Reject,
           Approve, StoreObject, MapRace, SaveScan, AddPokemon, RemovePokemon,
           ManageKeys, Tick, Fade, avars, apivars
  <2>3. Stands(o)
    BY <1>2 DEF ShownInv, ShownStands
  <2>4. \A i \in ObjectId :
          objects[i] # NoObject /\ Showable(i) /\ objects[i].type \in shown'.types =>
            [id |-> i, type |-> objects[i].type, expiry |-> objects[i].expiry,
             team |-> objects[i].team] \in shown'.objects
    BY <2>1, <2>2, CacheFacts
  <2>5. CASE IsFort(o.id)
    <3>1. Showable(o.id) /\ objects[o.id] # NoObject
      BY <1>2, <2>1, <2>5 DEF ShownInv, FortsAgeless, Showable, IsFort
    <3>2. ASSUME objects[o.id].type \in shown'.types
          PROVE  \E p \in shown'.objects : p.id = o.id /\ p.type = objects[o.id].type
      BY <2>1, <2>4, <3>1, <3>2
    <3> QED
      BY <2>5, <3>2
  <2>6. CASE IsPokemon(o.id) /\ Same(o)
    <3>1. o.type = "pokemon" /\ o.expiry = objects[o.id].expiry
          /\ o.type = objects[o.id].type /\ objects[o.id] # NoObject
      BY <2>6 DEF Same, IsPokemon
    <3>2. Showable(o.id)
      BY <1>2, <3>1, FortKindFacts DEF Showable, Lasting
    <3>3. o \in shown'.objects
      BY <1>2, <2>1, <2>4, <2>6, <3>1, <3>2 DEF Same
    <3> QED
      BY <3>3
  <2> QED
    BY <2>3, <2>5, <2>6 DEF Stands
<1>3. ShownInv /\ [ANext /\ OnlyExpiredRemoved]_avars =>
        [shown' # shown => \A o \in shown.objects : Later(o)]_avars
  BY <1>2 DEF Lasting
<1> QED
  BY <1>1, <1>3, ShownInvStep, PTL DEF CarefulSpec, AnswersAgree
=============================================================================
