------------------------------- MODULE ApiKeys -------------------------------
(***************************************************************************)
(* db/db.go and main.go: the Keys collection and the commands of the admin *)
(* tool that change it.  GetAPIKey and UpdateAPIKey select documents by a  *)
(* field "key".  An opm.APIKey has no such field, so neither a document    *)
(* that AddAPIKey inserts nor one that UpdateAPIKey wrote has it; only one *)
(* that was put there in another way can have it.                          *)
(***************************************************************************)
CONSTANTS
  Key,         \* public keys
  NoKey        \* the collection holds no document with this public key

VARIABLES
  keys,        \* the Keys collection
  command,     \* the key and the Enabled flag a command is about to save
  granted      \* history: the keys that were enabled at some time

keyvars == <<keys, command, granted>>

KeyDoc == [field : BOOLEAN, enabled : BOOLEAN]   \* field: has a field "key"

NoCommand == [at |-> "none"]
Command   == [at : {"save"}, key : Key, enabled : BOOLEAN]

ASSUME NoKeyDistinct == NoKey \notin KeyDoc

Enabled == {k \in Key : keys[k] # NoKey /\ keys[k].enabled}

KeyInit ==
  /\ keys \in [Key -> {NoKey} \cup {d \in KeyDoc : d.field}]
  /\ command = NoCommand
  /\ granted = Enabled
-----------------------------------------------------------------------------
(* GetAPIKey. *)
Found(k) == keys[k] # NoKey /\ keys[k].field

(* -genkey: AddAPIKey, which the unique indexes may refuse. *)
GenKey(k) ==
  /\ command = NoCommand
  /\ keys[k] = NoKey
  /\ keys' = [keys EXCEPT ![k] = [field |-> FALSE, enabled |-> TRUE]]
  /\ granted' = granted \cup {k}
  /\ UNCHANGED command

(* -enablekey and -disablekey, unless the flag is as wanted already, and     *)
(* -verifykey, -unverifykey, -setname, -seturl, which leave it as it is.     *)
ReadKey(k) ==
  /\ command = NoCommand
  /\ Found(k)
  /\ \E e \in BOOLEAN : command' = [at |-> "save", key |-> k, enabled |-> e]
  /\ UNCHANGED <<keys, granted>>

(* UpdateAPIKey replaces the document, if it finds it. *)
UpdateKey ==
  /\ command # NoCommand
  /\ IF Found(command.key)
     THEN /\ keys' = [keys EXCEPT ![command.key] =
                        [field |-> FALSE, enabled |-> command.enabled]]
          /\ granted' = IF command.enabled THEN granted \cup {command.key} ELSE granted
     ELSE UNCHANGED <<keys, granted>>
  /\ command' = NoCommand

KeyCommand == (\E k \in Key : GenKey(k) \/ ReadKey(k)) \/ UpdateKey

KeyTypeOK ==
  /\ keys \in [Key -> KeyDoc \cup {NoKey}]
  /\ command \in Command \cup {NoCommand}
  /\ granted \subseteq Key
=============================================================================
