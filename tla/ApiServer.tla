------------------------------ MODULE ApiServer ------------------------------
(***************************************************************************)
(* apiserver/http.go: submitHandler and cacheHandler, run by many          *)
(* goroutines at once, over the Objects collection (MapObjects) and the    *)
(* Keys collection (ApiKeys).  Beside them the scanner stores what its     *)
(* scans found and the admin tool works on both collections.               *)
(*                                                                         *)
(* keyMetrics is a map without a lock.  A submission that finds no entry   *)
(* for its key makes one, with new counters, in a second step.  The Go     *)
(* runtime may stop the process when it notices such accesses; the server  *)
(* is then started again, with no metrics.                                 *)
(***************************************************************************)
EXTENDS MapObjects, ApiKeys

CONSTANTS
  Request,     \* goroutines that serve /submit
  NoMetrics,   \* keyMetrics has no entry
  MaxCount     \* submissions of a kind after which the model takes no more

VARIABLES
  step,        \* step[r]: where submission r is, with its key and object
  metrics,     \* keyMetrics
  shown,       \* the last answer of /cache, and the types it was asked for
  due,         \* the goroutines of a key's counters that sleep: what they
               \* should say
  raced        \* history: the keys whose entry two submissions made

apivars == <<step, metrics, shown, due, raced>>
avars   == <<mapvars, keyvars, apivars>>

Counter == {"InvalidCounter", "ExpiredCounter", "PokemonCounter"}
Counts  == [Counter -> Nat]
Zero    == [c \in Counter |-> 0]

ASSUME ApiConstants ==
  /\ Source = Key \cup {Nobody} /\ Nobody \notin Key
  /\ NoMetrics \notin Counts
  /\ MaxCount \in Nat \ {0}

Idle == [at |-> "idle"]
Step == [at : {"lookup", "check", "fill", "judge"}, key : Key]
          \cup [at : {"store"}, key : Key, id : ObjectId, object : Object]
          \cup {Idle}

Answer == [types : SUBSET Kind,
           objects : SUBSET [id : ObjectId, type : Kind, expiry : Nat, team : Team]]

(* keyMetrics = make(map[string]APIKeyMetrics), and no request yet. *)
AllIdle    == [r \in Request |-> Idle]
NoEntries  == [k \in Key |-> NoMetrics]
NothingDue == [k \in Key |-> Zero]

AInit ==
  /\ MapInit /\ KeyInit
  /\ step = AllIdle /\ metrics = NoEntries /\ due = NothingDue /\ raced = {}
  /\ shown = [types |-> {}, objects |-> {}]
-----------------------------------------------------------------------------
Be(r, s) == step' = [step EXCEPT ![r] = s]
Goto(r, from, to) == step[r].at = from /\ Be(r, [step[r] EXCEPT !.at = to])

(* keyMetrics[key].<counter>.Incr(1), whatever entry the map has by then; a  *)
(* goroutine will take it back.                                              *)
Count(k, c) ==
  /\ metrics' = [metrics EXCEPT ![k][c] = @ + 1]
  /\ due' = [due EXCEPT ![k][c] = @ + 1]

(* What the entry that the map has for k says. *)
Counted(k) == IF metrics[k] = NoMetrics THEN Zero ELSE metrics[k]

(* A minute after its Incr a goroutine takes it back, from the counter that  *)
(* it was counted in: that of the present entry, or of one that was replaced.*)
Fade(k, c) ==
  /\ due[k][c] > 0
  /\ due' = [due EXCEPT ![k][c] = @ - 1]
  /\ \/ /\ Counted(k)[c] > 0
        /\ metrics' = [metrics EXCEPT ![k][c] = @ - 1]
     \/ Counted(k)[c] < due[k][c] /\ UNCHANGED metrics
  /\ UNCHANGED <<mapvars, keyvars, step, shown, raced>>

(* A request with a key and a format. *)
Submit(r) ==
  /\ step[r] = Idle
  /\ \A k \in Key, c \in Counter : due[k][c] < MaxCount
  /\ \E k \in Key : Be(r, [at |-> "lookup", key |-> k])
  /\ UNCHANGED <<mapvars, keyvars, metrics, shown, due, raced>>

(* Unknown keys are refused as a bad request, disabled ones as forbidden. *)
AcceptsAny(k) == Found(k)                              \* mutant: flag unread
Accepts(k)    == Found(k) /\ k \in Enabled

Lookup(r) ==
  /\ step[r].at = "lookup"
  /\ \/ Accepts(step[r].key) /\ Be(r, [step[r] EXCEPT !.at = "check"])
     \/ ~Accepts(step[r].key) /\ Be(r, Idle)
  /\ UNCHANGED <<mapvars, keyvars, metrics, shown, due, raced>>

Filling(k) == {r \in Request : step[r].at = "fill" /\ step[r].key = k}

NeverThere(k) == TRUE                                  \* mutant: no check
Missing(k) == metrics[k] = NoMetrics

CheckMetrics(r) ==
  LET k == step[r].key IN
  /\ Goto(r, "check", IF Missing(k) THEN "fill" ELSE "judge")
  /\ raced' = IF Missing(k) /\ Filling(k) # {} THEN raced \cup {k} ELSE raced
  /\ UNCHANGED <<mapvars, keyvars, metrics, shown, due>>

FillMetrics(r) ==
  /\ Goto(r, "fill", "judge")
  /\ metrics' = [metrics EXCEPT ![step[r].key] = Zero]
  /\ UNCHANGED <<mapvars, keyvars, shown, due, raced>>

(* objectFromWebhook, and validateMapObject on what it made. *)
Reject(r, c) ==
  /\ step[r].at = "judge"
  /\ Count(step[r].key, c)
  /\ Be(r, Idle)
  /\ UNCHANGED <<mapvars, keyvars, shown, raced>>

Malformed(r) == Reject(r, "InvalidCounter")

Expired(expiry)   == expiry < now
AnyFuture(expiry) == FALSE                             \* mutant: no limit
Future(expiry)    == expiry > now + Window

Refuse(r) ==
  \E expiry \in 0 .. TooFar :
    \/ Expired(expiry) /\ Reject(r, "ExpiredCounter")
    \/ ~Expired(expiry) /\ Future(expiry) /\ Reject(r, "InvalidCounter")

Approve(r) ==
  /\ step[r].at = "judge"
  /\ \E i \in ObjectId, expiry \in 0 .. TooFar :
       /\ ~Expired(expiry) /\ ~Future(expiry)
       /\ Be(r, [at |-> "store", key |-> step[r].key, id |-> i,
                 object |-> Pokemon(expiry, step[r].key)])
  /\ Count(step[r].key, "PokemonCounter")
  /\ UNCHANGED <<mapvars, keyvars, shown, raced>>

StoreObject(r) ==
  /\ step[r].at = "store"
  /\ AddMapObject(step[r].id, step[r].object)
  /\ Be(r, Idle)
  /\ UNCHANGED <<now, keyvars, metrics, shown, due, raced>>

(* cacheHandler; no filter means all types. *)
Cache ==
  \E filter \in SUBSET Kind :
    LET types == IF filter = {} THEN Kind ELSE filter IN
    /\ shown' = [types |-> types, objects |-> GetMapObjects(types)]
    /\ UNCHANGED <<mapvars, keyvars, step, metrics, due, raced>>

(* "fatal error: concurrent map read and map write". *)
MapRace ==
  /\ \E r, s \in Request :
       /\ r # s /\ step[r].at = "fill"
       /\ step[s].at \in {"check", "fill", "judge"}
  /\ step' = AllIdle /\ metrics' = NoEntries /\ due' = NothingDue /\ raced' = {}
  /\ UNCHANGED <<mapvars, keyvars, shown>>
-----------------------------------------------------------------------------
(* scanner.go, one round of the loop after a scan: parseMapObjects skips     *)
(* wild pokemon that are too far ahead, and takes over what the game says    *)
(* of a lure's expiry, be it 0.                                              *)
Wild  == {Pokemon(expiry, Nobody) : expiry \in 1 .. now + Window}
Lured == {Pokemon(expiry, Nobody) : expiry \in 0 .. TooFar}
Forts == {Pokestop} \cup {Gym(team) : team \in Team}

SaveScan ==
  /\ \E i \in ObjectId, o \in Wild \cup Lured \cup Forts : AddMapObject(i, o)
  /\ UNCHANGED <<now, keyvars, apivars>>

(* The admin tool: -addpokemon and -removepokemon. *)
AddPokemon ==
  /\ \E i \in ObjectId : AddMapObject(i, Pokemon(now + Window, Nobody))
  /\ UNCHANGED <<now, keyvars, apivars>>

RemovePokemon ==
  /\ \E threshold \in 1 .. TooFar + 1 : RemoveOldPokemon(threshold)
  /\ UNCHANGED <<now, keyvars, apivars>>

ManageKeys == KeyCommand /\ UNCHANGED <<mapvars, apivars>>

Tick ==
  /\ now < MaxTime
  /\ now' = now + 1
  /\ UNCHANGED <<objects, keyvars, apivars>>

SubmitStep(r) ==
  \/ Lookup(r) \/ CheckMetrics(r) \/ FillMetrics(r)
  \/ Malformed(r) \/ Refuse(r) \/ Approve(r) \/ StoreObject(r)

ANext ==
  \/ \E r \in Request : Submit(r) \/ SubmitStep(r)
  \/ \E k \in Key, c \in Counter : Fade(k, c)
  \/ Cache \/ MapRace \/ SaveScan \/ AddPokemon \/ RemovePokemon
  \/ ManageKeys \/ Tick

ASpec == AInit /\ [][ANext]_avars

(* An admin who removes with -removepokemon only what has expired.           *)
OnlyExpiredRemoved ==
  \A i \in ObjectId :
    IsPokemon(i) /\ objects[i].expiry > now => objects'[i] # NoObject

CarefulSpec == AInit /\ [][ANext /\ OnlyExpiredRemoved]_avars
-----------------------------------------------------------------------------
ATypeOK ==
  /\ MapTypeOK /\ KeyTypeOK
  /\ step \in [Request -> Step]
  /\ metrics \in [Key -> Counts \cup {NoMetrics}]
  /\ shown \in Answer
  /\ due \in [Key -> Counts]
  /\ raced \subseteq Key

(* What the map says of an encounter stands: no later report, of a scan or   *)
(* of another key, moves its expiry or takes the credit for it, though it    *)
(* be approved before and stored after.  Only a fort with its id displaces   *)
(* it, and only -removepokemon deletes it.                                   *)
EncountersStand ==
  [][\A i \in ObjectId :
       IsPokemon(i) =>
         objects'[i] \in {objects[i], NoObject} \/ IsFort(i)']_avars

(* A fort is never lost: not to a pokemon with its id, and not to a clean-up *)
(* of old pokemon, although its expiry, 0, is before every threshold.        *)
FortsStay == [][\A i \in ObjectId : IsFort(i) => IsFort(i)']_avars

(* Nobody with a key puts a pokemon on the map for longer than 15 minutes,   *)
(* however long the submission takes from its check to the database; nor for *)
(* ever, with the expiry 0 that a scan may report and queries always show.   *)
SubmittedSoonGone ==
  \A i \in ObjectId :
    objects[i] # NoObject /\ objects[i].source # Nobody =>
      objects[i].expiry # 0 /\ objects[i].expiry <= now + Window

(* The credit for an object goes to a key that was enabled at some time:     *)
(* keys that never were do not get on the map.                               *)
CreditedWereEnabled ==
  \A i \in ObjectId :
    objects[i] # NoObject => objects[i].source \in granted \cup {Nobody}

(* The counters of a key say how many of its submissions of each kind there  *)
(* were in the last minute, unless two of them found no entry for the key at *)
(* once: then those counted in the entry that is replaced are missing, but   *)
(* none is ever counted twice or taken back twice.                           *)
CountsExact ==
  \A k \in Key :
    /\ k \notin raced => Counted(k) = due[k]
    /\ \A c \in Counter : Counted(k)[c] \in 0 .. due[k][c]

(* The answers of /cache agree while the admin removes only what has         *)
(* expired: a pokemon until it expires, a pokestop and a gym for ever are in *)
(* every later answer about their type as they were, or a fort has their id  *)
(* now, maybe of the other kind or another team, and that one is in the      *)
(* answer if its kind was asked for.                                         *)
AnswersAgree ==
  [][shown' # shown =>
       \A o \in shown.objects :
         o.type \in shown'.types /\ (o.type \in FortKind \/ o.expiry > now) =>
           \/ o \in shown'.objects
           \/ /\ IsFort(o.id)
              /\ objects[o.id].type \in shown'.types =>
                   \E p \in shown'.objects :
                     p.id = o.id /\ p.type = objects[o.id].type]_avars

(* "The key is enabled", the admin tool says of a key it generates, and      *)
(* -enablekey "Enables an API key": an enabled key is found by GetAPIKey.    *)
EnabledKeysFound == \A k \in Enabled : Found(k)
=============================================================================
