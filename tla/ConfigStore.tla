----------------------------- MODULE ConfigStore -----------------------------
(***************************************************************************)
(* The tables that say which device may send through which mailbox, as     *)
(* internal/store writes them: OAuth credentials, mailboxes, accounts, the *)
(* mailboxes an account is linked to and the senders it may use.           *)
(*                                                                         *)
(* Rows have identifiers that are never used twice, so a row that was      *)
(* deleted and made again is another row.  Names are unique.  What the     *)
(* remaining columns hold is one value: Declared, what the bootstrap file  *)
(* says, or Edited, what an operator made of it (the object is disabled).  *)
(***************************************************************************)
EXTENDS Naturals, FiniteSets, Sequences, Functions

CONSTANTS
    Credentials, Mailboxes, Accounts    \* names, of three kinds

ASSUME NamesAssumption ==
    /\ Credentials \cap Mailboxes = {}
    /\ (Credentials \cup Mailboxes) \cap Accounts = {}

VARIABLES
    rows,       \* oauth_credentials, mailboxes and smtp_accounts
    links,      \* smtp_account_mailboxes: <<account id, mailbox id>>
    senders,    \* allowed_senders: <<account id, list of patterns>>
    nextId

tables == <<rows, links, senders, nextId>>

Names == Credentials \cup Mailboxes \cup Accounts
Ids == Nat \ {0}
NoId == 0
Values == {"declared", "edited"}
Owners == {"ui", "bootstrap"}

(* ref is the credential of a mailbox or the default mailbox of an account. *)
Row == [id : Ids, name : Names, ref : Ids \cup {NoId}, value : Values,
        password : Values, managed : Owners]

IsAccount(row) == row.name \in Accounts
IsMailbox(row) == row.name \in Mailboxes

Named(n) == {row \in rows : row.name = n}
WithId(id) == {row \in rows : row.id = id}
Has(id) == WithId(id) # {}

-----------------------------------------------------------------------------
(* Statements.  The operators that end in -able say when one succeeds. *)

(* Foreign keys of the references of a row. *)
RefExists(row) == row.ref = NoId \/ Has(row.ref)

Insertable(row) ==
    /\ Named(row.name) = {}
    /\ RefExists(row)

Inserted(row) ==
    /\ rows' = rows \cup {[row EXCEPT !.id = nextId]}
    /\ nextId' = nextId + 1

(* Update addresses the row by its identifier and writes every column; the
   statement has to change one row. *)
Updatable(row) ==
    /\ Has(row.id)
    /\ \A other \in Named(row.name) : other.id = row.id
    /\ RefExists(row)

Updated(row) ==
    /\ rows' = (rows \ WithId(row.id)) \cup {row}
    /\ UNCHANGED nextId

(* A credential that a mailbox uses is not deleted. *)
Deletable(id) ==
    /\ Has(id)
    /\ \A row \in rows : IsMailbox(row) => row.ref # id

(* Accounts lose a default mailbox that is deleted, and links and senders go
   with either end. *)
Deleted(id) ==
    /\ rows' = {[row EXCEPT !.ref = IF @ = id THEN NoId ELSE @] : row \in rows \ WithId(id)}
    /\ links' = {l \in links : id \notin {l[1], l[2]}}
    /\ senders' = {s \in senders : s[1] # id}
    /\ UNCHANGED nextId

(* SetMailboxes, one transaction. *)
Linkable(account, ids) == ids = {} \/ \A id \in ids \cup {account} : Has(id)

Linked(account, ids) ==
    links' = {l \in links : l[1] # account} \cup ({account} \X ids)

(* SetAllowedSenders, one transaction. *)
Allowable(account) == Has(account)

Allowed(account, list) ==
    senders' = {s \in senders : s[1] # account} \cup {<<account, list>>}
=============================================================================
