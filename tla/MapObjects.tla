------------------------------ MODULE MapObjects ------------------------------
(***************************************************************************)
(* db/db.go: the Objects collection, in which the scanner, the api server  *)
(* and the admin tool put what they know of the map, and the clock they    *)
(* all read.  One call to MongoDB is one operator.  The collection has a   *)
(* unique index on id, and nobody looks at the error of an insert that it  *)
(* refuses.                                                                *)
(*                                                                         *)
(* Pokestops and gyms are forts: they have no expiry (0).  A gym has       *)
(* something that changes, its team; of a pokestop nothing that changes is *)
(* stored.  Where things are is left out, all objects are in the radius of *)
(* every query.                                                            *)
(***************************************************************************)
EXTENDS Naturals

CONSTANTS
  ObjectId,    \* ids, of encounters and of forts
  Source,      \* who submitted an object: a public key
  Nobody,      \* or nobody
  NoObject,    \* the collection holds no document with this id
  Window,      \* 15 minutes
  MaxTime      \* where the clock of the model stops

VARIABLES
  objects,     \* the Objects collection
  now          \* time.Now().Unix()

mapvars == <<objects, now>>

FortKind == {"pokestop", "gym"}
Kind     == FortKind \cup {"pokemon"}
Team == {0, 1}

Object == [type : Kind, expiry : Nat, source : Source, team : Team]

ASSUME MapConstants ==
  /\ Window \in Nat \ {0} /\ MaxTime \in Nat
  /\ Nobody \in Source
  /\ NoObject \notin Object

Pokemon(expiry, source) ==
  [type |-> "pokemon", expiry |-> expiry, source |-> source, team |-> 0]
Pokestop  == [type |-> "pokestop", expiry |-> 0, source |-> Nobody, team |-> 0]
Gym(team) == [type |-> "gym", expiry |-> 0, source |-> Nobody, team |-> team]

(* An expiry further ahead than all that a check of the code tells apart. *)
TooFar == now + Window + 1

MapInit == objects = [i \in ObjectId |-> NoObject] /\ now = 1
-----------------------------------------------------------------------------
IsPokemon(i) == objects[i] # NoObject /\ objects[i].type = "pokemon"
IsFort(i)    == objects[i] # NoObject /\ objects[i].type \in FortKind

WithoutTeam(i, o) ==                                   \* mutant: lost field
  objects' = [objects EXCEPT ![i] = [type |-> o.type, expiry |-> o.expiry,
                                     source |-> o.source]]
Upsert(i, o) == objects' = [objects EXCEPT ![i] = o]

Refresh(i, o) ==                                       \* mutant: a later report
  objects' = [objects EXCEPT ![i] = IF @ = NoObject \/ IsPokemon(i)
                                    THEN o ELSE @]

Insert(i, o) ==
  objects' = [objects EXCEPT ![i] = IF @ = NoObject THEN o ELSE @]

AddMapObject(i, o) == IF o.type # "pokemon" THEN Upsert(i, o) ELSE Insert(i, o)

(* GetMapObjects, for types; it answers without the source. *)
Unexpired(i) == objects[i].expiry > now                \* mutant: no $or
Showable(i)  == objects[i].expiry > now \/ objects[i].expiry = 0

GetMapObjects(types) ==
  {[id |-> i, type |-> objects[i].type, expiry |-> objects[i].expiry,
    team |-> objects[i].team] :
     i \in {j \in ObjectId : /\ objects[j] # NoObject
                             /\ Showable(j) /\ objects[j].type \in types}}

Older(threshold) ==                                    \* mutant: no type
  {i \in ObjectId : objects[i] # NoObject /\ objects[i].expiry < threshold}
OldPokemon(threshold) ==
  {i \in ObjectId : IsPokemon(i) /\ objects[i].expiry < threshold}

RemoveOldPokemon(threshold) ==
  objects' = [i \in ObjectId |-> IF i \in OldPokemon(threshold)
                                 THEN NoObject ELSE objects[i]]

MapTypeOK == objects \in [ObjectId -> Object \cup {NoObject}] /\ now \in Nat
=============================================================================
