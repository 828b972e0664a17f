------------------------------ MODULE Accounts ------------------------------
(***************************************************************************)
(* db/db.go: the Accounts collection, shared by the scanner, the ban       *)
(* checker and the admin tool.  MongoDB applies one call to one document   *)
(* atomically and promises nothing across two calls, so each call is an    *)
(* operator here and GetAccount, which finds and then updates, is two: the *)
(* module of the caller decides what may happen in between.  An Update     *)
(* replaces the whole document by the caller's copy.                       *)
(***************************************************************************)
CONSTANT Account      \* usernames

VARIABLE accounts     \* the Accounts collection

AccountDoc == [used : BOOLEAN, banned : BOOLEAN, captcha : BOOLEAN]

Flagged(doc) == doc.banned \/ doc.captcha

(* GetAccount's Find: any document that matches. *)
UnusedAccounts == {a \in Account : ~accounts[a].used}  \* mutant: filter

FreeAccounts ==
  {a \in Account : ~accounts[a].used /\ ~Flagged(accounts[a])}

(* Update of the document with this username. *)
SaveAccount(a, doc) == accounts' = [accounts EXCEPT ![a] = doc]

(* GetAccount's Update, with the copy that Find returned. *)
LookOnly(a) == UNCHANGED accounts                      \* mutant: no Update
MarkUsed(a) ==
  SaveAccount(a, [used |-> TRUE, banned |-> FALSE, captcha |-> FALSE])

AccountsTypeOK == accounts \in [Account -> AccountDoc]
=============================================================================
