------------------------------- MODULE Policy --------------------------------
(***************************************************************************)
(* The sender policy of internal/policy/resolve.go: which mailbox a        *)
(* submission goes out through, and with which From header.  A mailbox is  *)
(* known by its address; an account's allow-list is the set of addresses   *)
(* its patterns match.                                                     *)
(***************************************************************************)
EXTENDS Naturals, Sequences

CONSTANTS
    Mailboxes,      \* mailbox addresses
    Others,         \* addresses that are no mailbox of the proxy
    NoAddress       \* a missing From header, or no default mailbox

Addresses == Mailboxes \cup Others
ASSUME AddressAssumption == NoAddress \notin Addresses /\ Mailboxes \cap Others = {}

Policies == {"rewrite", "passthrough", "reject", "unknown"}

(* Account, as AccountFromStore builds it. *)
Account == [enabled : BOOLEAN, policy : Policies,
            default : Mailboxes \cup {NoAddress}, allowed : SUBSET Addresses]

(* A mailbox as ListForAccount returned it. *)
Granted == [address : Mailboxes, enabled : BOOLEAN]

Rejected == [action |-> "reject", mailbox |-> NoAddress, from |-> NoAddress]

Decision == [action : {"accept", "rewrite", "reject"},
             mailbox : Mailboxes \cup {NoAddress}, from : Addresses \cup {NoAddress}]

IsListed(mbs, a) == \E i \in DOMAIN mbs : mbs[i].address = a
Listed(mbs, a) == mbs[CHOOSE i \in DOMAIN mbs : mbs[i].address = a]

DefaultMailbox(mbs, default) == IF IsListed(mbs, default) THEN Listed(mbs, default) ELSE mbs[1]

(* Every branch that sends refuses a disabled mailbox first. *)
SendThrough(mb, action, from) ==
    IF mb.enabled
    THEN [action |-> action, mailbox |-> mb.address, from |-> from]
    ELSE Rejected

(* Mutant: a policy this version does not know lets everything through. *)
ApplyFromPolicyOpen(acct, mbs, from) ==
    LET mb == DefaultMailbox(mbs, acct.default) IN
    CASE acct.policy = "rewrite" -> SendThrough(mb, "rewrite", mb.address)
      [] acct.policy = "reject"  -> Rejected
      [] OTHER                   -> SendThrough(mb, "accept", from)

ApplyFromPolicy(acct, mbs, from) ==
    LET mb == DefaultMailbox(mbs, acct.default) IN
    CASE acct.policy = "rewrite"     -> SendThrough(mb, "rewrite", mb.address)
      [] acct.policy = "passthrough" -> SendThrough(mb, "accept", from)
      [] OTHER                       -> Rejected

Resolve(acct, mbs, from) ==
    IF ~acct.enabled \/ mbs = << >> \/ from = NoAddress THEN Rejected
    ELSE IF IsListed(mbs, from) THEN SendThrough(Listed(mbs, from), "accept", from)
    ELSE IF from \in acct.allowed
         THEN SendThrough(DefaultMailbox(mbs, acct.default), "accept", from)
    ELSE ApplyFromPolicy(acct, mbs, from)
=============================================================================
