----------------------------- MODULE SmtpSession ------------------------------
(***************************************************************************)
(* One client connection: the session of internal/smtpsrv/session.go, the  *)
(* authenticator of internal/app/auth.go behind AUTH and the submitter of  *)
(* internal/app/submit.go behind DATA, while operators change the account, *)
(* its mailbox links and the mailboxes.                                    *)
(*                                                                         *)
(* go-smtp is external.  It calls the session from one goroutine, lets     *)
(* RCPT follow MAIL and DATA follow RCPT, calls Reset after DATA, refuses  *)
(* AUTH once it succeeded, and replaces the session after STARTTLS.        *)
(***************************************************************************)
EXTENDS Policy, FiniteSets

CONSTANTS
    AccountRows,        \* rows an operator may write for the account
    LinkSets,           \* mailbox links an operator may write
    AllowLists,         \* allowed senders an operator may write
    MailboxOrder,       \* the mailboxes ordered by address
    Configs,            \* settings of the server and of the client's listener
    MaxAuthFailures,    \* 0 for no limit
    MaxRecipients,
    MaxChanges,         \* bound: changes by operators and faults
    MaxMails,           \* bound: MAIL commands on one connection
    MaxMessages         \* bound: messages in the queue

Passwords == {"old", "new"}
AccountRow == [enabled : BOOLEAN, policy : Policies, default : Mailboxes \cup {NoAddress},
               source : BOOLEAN,    \* allow_cidrs admits the client's address
               password : Passwords,
               weak : BOOLEAN]      \* hashed with outdated parameters
Deleted == [deleted |-> TRUE]

ASSUME RowsAssumption ==
    /\ AccountRows \subseteq AccountRow
    /\ LinkSets \subseteq SUBSET Mailboxes /\ AllowLists \subseteq SUBSET Addresses
    /\ MailboxOrder \in Seq(Mailboxes)
    /\ {MailboxOrder[i] : i \in DOMAIN MailboxOrder} = Mailboxes

Before(a, b) ==
    \E i, j \in DOMAIN MailboxOrder : i < j /\ MailboxOrder[i] = a /\ MailboxOrder[j] = b

(* require_tls of one listener is ORed over all of them; validate refuses it on a
   listener that can never be encrypted. *)
Config == {c \in [tls : {"none", "starttls", "implicit"}, requireHere : BOOLEAN,
                  requireElsewhere : BOOLEAN, allowInsecureAuth : BOOLEAN] :
             c.requireHere => c.tls # "none"}
ASSUME ConfigAssumption == Configs \subseteq Config
ASSUME SessionBounds ==
    {MaxAuthFailures, MaxRecipients, MaxChanges, MaxMails, MaxMessages} \subseteq Nat

VARIABLES
    config,     \* the settings, fixed at start
    account,    \* the smtp_accounts row
    allowed,    \* what its allowed_senders match
    links,      \* its smtp_account_mailboxes
    mailbox,    \* the mailboxes table
    sess,       \* the connection and its session
    queued,     \* messages in the queue, in order
    replies,    \* submissions answered with 250
    changes,    \* changes and faults so far
    guesses     \* history: passwords checked on the connection

vars == <<config, account, allowed, links, mailbox, sess, queued, replies, changes, guesses>>
tables == <<config, account, allowed, links, mailbox>>

NoIdentity == [none |-> TRUE]
NoDraft == [none |-> TRUE]

(* A new session.  tx numbers the MAIL commands; every recipient carries the
   number it was named under, for the properties. *)
NewSession(tls) ==
    [pc |-> "command", tls |-> tls, identity |-> NoIdentity, authFailures |-> 0,
     row |-> Deleted, senders |-> {}, mail |-> FALSE, tx |-> 0, recipients |-> << >>,
     draft |-> NoDraft]

Closed == [NewSession(FALSE) EXCEPT !.pc = "closed"]

RequireTLS == config.requireHere \/ config.requireElsewhere

Init ==
    /\ config \in Configs
    /\ account \in AccountRows
    /\ allowed \in AllowLists
    /\ links \in LinkSets
    /\ mailbox = [b \in Mailboxes |-> "enabled"]
    /\ sess = Closed
    /\ queued = << >>
    /\ replies = 0
    /\ changes = 0
    /\ guesses = 0

At(pc) == sess.pc = pc
Change == changes < MaxChanges /\ changes' = changes + 1

-----------------------------------------------------------------------------
(* Operators *)

ChangeAccount(row) ==
    /\ account # Deleted
    /\ row.default # NoAddress => mailbox[row.default] # "deleted"
    /\ account' = row
    /\ Change
    /\ UNCHANGED <<config, allowed, links, mailbox, sess, queued, replies, guesses>>

(* The links and the allowed senders go with the account. *)
DeleteAccount ==
    /\ account # Deleted
    /\ account' = Deleted
    /\ links' = {}
    /\ allowed' = {}
    /\ Change
    /\ UNCHANGED <<config, mailbox, sess, queued, replies, guesses>>

(* SetMailboxes or SetAllowedSenders: one transaction each. *)
ChangeGrants ==
    /\ account # Deleted
    /\ links' \in LinkSets
    /\ allowed' \in AllowLists
    /\ links' = links \/ allowed' = allowed
    /\ \A b \in links' : mailbox[b] # "deleted"
    /\ Change
    /\ UNCHANGED <<config, account, mailbox, sess, queued, replies, guesses>>

(* Deleting a mailbox removes its links and clears it as default. *)
ChangeMailbox(b) ==
    /\ mailbox[b] # "deleted"
    /\ \E to \in {"enabled", "disabled", "deleted"} \ {mailbox[b]} :
          /\ mailbox' = [mailbox EXCEPT ![b] = to]
          /\ links' = IF to = "deleted" THEN links \ {b} ELSE links
          /\ account' = IF to = "deleted" /\ account # Deleted /\ account.default = b
                        THEN [account EXCEPT !.default = NoAddress] ELSE account
    /\ Change
    /\ UNCHANGED <<config, allowed, sess, queued, replies, guesses>>

-----------------------------------------------------------------------------
(* The connection *)

Connect ==
    /\ At("closed")
    /\ sess' = NewSession(config.tls = "implicit")
    /\ guesses' = 0
    /\ UNCHANGED <<tables, queued, replies, changes>>

(* go-smtp upgrades the connection and starts over with a new session. *)
StartTLS ==
    /\ At("command")
    /\ config.tls = "starttls"
    /\ ~sess.tls
    /\ sess' = NewSession(TRUE)
    /\ UNCHANGED <<tables, queued, replies, changes, guesses>>

Disconnect ==
    /\ At("command")
    /\ sess' = Closed
    /\ guesses' = 0
    /\ UNCHANGED <<tables, queued, replies, changes>>

-----------------------------------------------------------------------------
(* AUTH *)

Becomes(s) == sess' = s /\ UNCHANGED <<tables, queued, replies>>

(* recordAuthFailure: the attempt is counted, and the limit closes the
   connection. *)
Failed ==
    IF MaxAuthFailures > 0 /\ sess.authFailures + 1 >= MaxAuthFailures
    THEN Closed
    ELSE [sess EXCEPT !.pc = "command", !.row = Deleted, !.senders = {},
                      !.authFailures = IF MaxAuthFailures > 0 THEN @ + 1 ELSE @]

(* Mutant: AUTH is offered in the clear. *)
MayAuthAnyway == sess.identity = NoIdentity

(* Auth refuses mechanisms that send the password in the clear. *)
MayAuth == (sess.tls \/ config.allowInsecureAuth) /\ sess.identity = NoIdentity

(* Authenticate reads the row once; everything is checked on that copy, the
   source address after the second query. *)
Authenticate(password) ==
    /\ At("command")
    /\ MayAuth
    /\ Becomes(IF /\ account # Deleted
                  /\ account.password = password /\ account.enabled
               THEN [sess EXCEPT !.pc = "senders", !.row = account]
               ELSE Failed)
    /\ guesses' = guesses + 1
    /\ UNCHANGED changes

ReadAllowedSenders ==
    /\ At("senders")
    /\ Becomes(IF sess.row.source
               THEN [sess EXCEPT !.pc = "mailboxes", !.senders = allowed]
               ELSE Failed)
    /\ UNCHANGED <<changes, guesses>>

(* ListForAccount, as of now: the linked mailboxes and the default one, ordered by
   address. *)
ForAccount == links \cup IF account = Deleted THEN {} ELSE {account.default}
ListForAccount(listed) ==
    /\ {listed[i] : i \in DOMAIN listed}
          = {b \in Mailboxes : b \in ForAccount /\ mailbox[b] # "deleted"}
    /\ \A i, j \in DOMAIN listed : i < j => Before(listed[i], listed[j])

MailboxRow(b) == [address |-> b, enabled |-> mailbox[b] = "enabled"]

IdentityWith(listed) ==
    [account |-> [enabled |-> sess.row.enabled, policy |-> sess.row.policy,
                  default |-> sess.row.default, allowed |-> sess.senders],
     mailboxes |-> [i \in DOMAIN listed |-> MailboxRow(listed[i])]]

(* The mailboxes complete the identity; a weak hash is replaced on the way. *)
ReadMailboxes ==
    /\ At("mailboxes")
    /\ \E n \in 0 .. Len(MailboxOrder) : \E listed \in [1 .. n -> Mailboxes] :
          /\ ListForAccount(listed)
          /\ Becomes([sess EXCEPT
                !.pc = IF sess.row.weak THEN "rehash" ELSE "command",
                !.identity = IdentityWith(listed),
                !.row = IF sess.row.weak THEN @ ELSE Deleted,
                !.senders = {}])
    /\ UNCHANGED <<changes, guesses>>

(* rehash: Update writes every column of the copy read at the start.  It
   matches no row if the account is gone, and its foreign key refuses a default
   mailbox that is; either is only logged. *)
Rehash ==
    /\ At("rehash")
    /\ account' = IF \/ account = Deleted
                     \/ sess.row.default # NoAddress /\ mailbox[sess.row.default] = "deleted"
                  THEN account ELSE [sess.row EXCEPT !.weak = FALSE]
    /\ sess' = [sess EXCEPT !.pc = "command", !.row = Deleted]
    /\ UNCHANGED <<config, allowed, links, mailbox, queued, replies, changes, guesses>>

(* Mutant: a failed query is no failure of the client's. *)
AuthQueryUncounted ==
    /\ sess.pc \in {"senders", "mailboxes"}
    /\ Becomes([sess EXCEPT !.pc = "command", !.row = Deleted, !.senders = {}])
    /\ Change
    /\ UNCHANGED guesses

(* A query fails, or the context is done: an authentication failure as well. *)
AuthQueryFails ==
    /\ sess.pc \in {"senders", "mailboxes"}
    /\ Becomes(Failed)
    /\ Change
    /\ UNCHANGED guesses

-----------------------------------------------------------------------------
(* The message *)

Authenticated == sess.identity # NoIdentity

(* Mutant: a new MAIL keeps the recipients. *)
MailKeepingRecipients ==
    /\ At("command")
    /\ Authenticated
    /\ ~RequireTLS \/ sess.tls
    /\ sess.tx < MaxMails
    /\ Becomes([sess EXCEPT !.mail = TRUE, !.tx = @ + 1])
    /\ UNCHANGED <<changes, guesses>>

Mail ==
    /\ At("command")
    /\ Authenticated
    /\ ~RequireTLS \/ sess.tls
    /\ sess.tx < MaxMails
    /\ Becomes([sess EXCEPT !.mail = TRUE, !.tx = @ + 1, !.recipients = << >>])
    /\ UNCHANGED <<changes, guesses>>

Rcpt ==
    /\ At("command")
    /\ Authenticated
    /\ sess.mail
    /\ Len(sess.recipients) < MaxRecipients
    /\ Becomes([sess EXCEPT !.recipients = Append(@, sess.tx)])
    /\ UNCHANGED <<changes, guesses>>

AfterReset(s) == [s EXCEPT !.mail = FALSE, !.recipients = << >>]

Reset ==
    /\ At("command")
    /\ sess.mail
    /\ Becomes(AfterReset(sess))
    /\ UNCHANGED <<changes, guesses>>

(* Data up to the decision.  A message that the policy rejects ends here, as does
   one that cannot be read or parsed or has no usable From (NoAddress); go-smtp
   resets the session. *)
Data(from) ==
    LET d == Resolve(sess.identity.account, sess.identity.mailboxes, from) IN
    /\ At("command")
    /\ Authenticated
    /\ sess.recipients # << >>
    /\ Len(queued) < MaxMessages
    /\ Becomes(IF d.action = "reject" THEN AfterReset(sess)
               ELSE [sess EXCEPT !.pc = "submit",
                       !.draft = [mailbox |-> d.mailbox, from |-> d.from, tls |-> sess.tls,
                                  tx |-> sess.tx, recipients |-> sess.recipients]])
    /\ UNCHANGED <<changes, guesses>>

Answered == [AfterReset(sess) EXCEPT !.pc = "command", !.draft = NoDraft]

(* The foreign keys of the messages row. *)
Enqueueable == account # Deleted /\ mailbox[sess.draft.mailbox] # "deleted"

(* Mutant: the client is told to go on although nothing was stored. *)
SubmitRepliesAnyway ==
    /\ At("submit")
    /\ queued' = IF Enqueueable THEN Append(queued, sess.draft) ELSE queued
    /\ replies' = replies + 1
    /\ sess' = Answered
    /\ UNCHANGED <<tables, changes, guesses>>

(* Submit succeeds: the row is committed and the client gets its 250; if a
   foreign key refuses the row the client is told to retry. *)
Submit ==
    /\ At("submit")
    /\ queued' = IF Enqueueable THEN Append(queued, sess.draft) ELSE queued
    /\ replies' = IF Enqueueable THEN replies + 1 ELSE replies
    /\ sess' = Answered
    /\ UNCHANGED <<tables, changes, guesses>>

(* Submit fails or times out: a 451, although the commit may have happened. *)
SubmitFails ==
    /\ At("submit")
    /\ \/ UNCHANGED queued
       \/ Enqueueable /\ queued' = Append(queued, sess.draft)
    /\ sess' = Answered
    /\ Change
    /\ UNCHANGED <<tables, replies, guesses>>

Next ==
    \/ (\E row \in AccountRows : ChangeAccount(row)) \/ DeleteAccount \/ ChangeGrants
    \/ \E b \in Mailboxes : ChangeMailbox(b)
    \/ Connect \/ StartTLS \/ Disconnect
    \/ \E p \in Passwords : Authenticate(p)
    \/ ReadAllowedSenders \/ ReadMailboxes \/ Rehash \/ AuthQueryFails
    \/ Mail \/ Rcpt \/ Reset \/ (\E a \in Addresses \cup {NoAddress} : Data(a))
    \/ Submit \/ SubmitFails

Spec == Init /\ [][Next]_vars

-----------------------------------------------------------------------------
(* No password and no message crosses an unencrypted connection unless the
   operator opted out: not after a STARTTLS in mid-session, and not by MAIL on a
   listener without TLS when another one requires it. *)
NothingInTheClear ==
    /\ Authenticated /\ ~sess.tls => config.allowInsecureAuth
    /\ \A i \in DOMAIN queued :
          ~queued[i].tls => config.allowInsecureAuth /\ ~RequireTLS

(* A message reaches exactly the recipients named for it: nothing of an earlier
   MAIL, of a reset or of a rejected message leaks into the next one. *)
OwnRecipientsOnly ==
    \A i \in DOMAIN queued :
        /\ queued[i].recipients # << >>
        /\ \A k \in DOMAIN queued[i].recipients : queued[i].recipients[k] = queued[i].tx

(* A client cannot go on guessing: on one connection no more passwords are checked
   than the limit allows, whether an attempt ends at the password, at the source
   address or at a failed query, and counting the one that succeeds.  Where AUTH is
   offered before STARTTLS the new session counts from nothing, so that there may be
   twice as many. *)
GuessesBounded ==
    MaxAuthFailures > 0 =>
        guesses <= IF config.tls = "starttls" /\ config.allowInsecureAuth
                   THEN 2 * MaxAuthFailures ELSE MaxAuthFailures

(* The client gets a 250 only for a message that is in the queue, and apart from
   those the queue holds at most one message for every fault or change so far: where
   there was none, a message the client was told to retry is not in the queue. *)
AcceptedIsQueued == replies <= Len(queued) /\ Len(queued) <= replies + changes

(* Whatever operators change between the three queries of AUTH, a message goes
   out only through a mailbox that the account could use, and that was enabled,
   when the identity was put together; and with a From of its own choice only if
   the policy or the allow-list lets it. *)
SentAsGranted ==
    At("submit") =>
        LET id == sess.identity  d == sess.draft IN
        /\ \E i \in DOMAIN id.mailboxes :
              id.mailboxes[i] = [address |-> d.mailbox, enabled |-> TRUE]
        /\ \/ d.from = d.mailbox
           \/ d.from \in id.account.allowed
           \/ id.account.policy = "passthrough"
=============================================================================
