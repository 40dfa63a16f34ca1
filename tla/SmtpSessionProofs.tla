-------------------------- MODULE SmtpSessionProofs --------------------------
(***************************************************************************)
(* The safety of a session for any addresses, grants, settings and limits, *)
(* and any number of commands and changes by operators.  The invariant     *)
(* says of the session what the properties say of the queued messages,     *)
(* with what has to be true before AUTH, MAIL, RCPT and DATA are through.  *)
(***************************************************************************)
EXTENDS SmtpSession, TLAPS

USE AddressAssumption, RowsAssumption, ConfigAssumption, SessionBounds

-----------------------------------------------------------------------------
(* The policy *)

(* What a decision to send gives: an enabled mailbox of the list, and a From of
   the sender's choice only where the account may choose. *)
Permitted(acct, mbs, mailboxAddress, from) ==
    /\ \E i \in DOMAIN mbs : mbs[i] = [address |-> mailboxAddress, enabled |-> TRUE]
    /\ \/ from = mailboxAddress
       \/ from \in acct.allowed
       \/ acct.policy = "passthrough"

LEMMA ListedIsListed ==
    ASSUME NEW mbs, NEW a, IsListed(mbs, a)
    PROVE  \E i \in DOMAIN mbs : Listed(mbs, a) = mbs[i] /\ mbs[i].address = a
BY Zenon DEF IsListed, Listed

LEMMA DefaultIsListed ==
    ASSUME NEW mbs \in Seq(Granted), mbs # << >>, NEW default
    PROVE  \E i \in DOMAIN mbs : DefaultMailbox(mbs, default) = mbs[i]
<1>1. 1 \in DOMAIN mbs
  OBVIOUS
<1> QED BY <1>1, ListedIsListed DEF DefaultMailbox

LEMMA SendThroughIsEnabled ==
    ASSUME NEW mbs \in Seq(Granted), NEW i \in DOMAIN mbs, NEW action, NEW from,
           SendThrough(mbs[i], action, from).action # "reject"
    PROVE  /\ SendThrough(mbs[i], action, from).from = from
           /\ SendThrough(mbs[i], action, from).mailbox = mbs[i].address
           /\ mbs[i] = [address |-> mbs[i].address, enabled |-> TRUE]
           /\ mbs[i].address \in Mailboxes
<1>1. mbs[i] \in Granted
  OBVIOUS
<1>2. mbs[i].enabled
  BY DEF SendThrough, Rejected
<1>3. mbs[i] = [address |-> mbs[i].address, enabled |-> TRUE]
  BY <1>1, <1>2 DEF Granted
<1> QED BY <1>1, <1>2, <1>3 DEF SendThrough, Granted

(* Resolve never sends through a mailbox that is disabled or not in the list, and
   never under an address that neither the list, nor the allow-list, nor the
   policy "passthrough" lets the account use (resolve.go). *)
THEOREM PolicyCorrect ==
    ASSUME NEW acct \in Account, NEW mbs \in Seq(Granted), NEW from,
           Resolve(acct, mbs, from).action # "reject"
    PROVE  LET d == Resolve(acct, mbs, from) IN
           /\ Permitted(acct, mbs, d.mailbox, d.from)
           /\ d.mailbox \in Mailboxes /\ d.from \in {from, d.mailbox}
<1> DEFINE d == Resolve(acct, mbs, from)
<1>1. mbs # << >> /\ Rejected.action = "reject"
  BY DEF Resolve, Rejected
<1>2. ASSUME NEW i \in DOMAIN mbs, NEW action, NEW sender,
             d = SendThrough(mbs[i], action, sender),
             sender \in {from, mbs[i].address},
             \/ sender = mbs[i].address
             \/ sender \in acct.allowed
             \/ acct.policy = "passthrough"
      PROVE  /\ Permitted(acct, mbs, d.mailbox, d.from)
             /\ d.mailbox \in Mailboxes /\ d.from \in {from, d.mailbox}
  <2>1. d.from = sender /\ d.mailbox = mbs[i].address /\ d.mailbox \in Mailboxes
        /\ mbs[i] = [address |-> mbs[i].address, enabled |-> TRUE]
    BY <1>2, SendThroughIsEnabled
  <2> QED BY <1>2, <2>1 DEF Permitted
<1>3. CASE IsListed(mbs, from)
  <2>1. PICK i \in DOMAIN mbs : Listed(mbs, from) = mbs[i] /\ mbs[i].address = from
    BY <1>3, ListedIsListed
  <2>2. d = SendThrough(mbs[i], "accept", from)
    BY <1>1, <1>3, <2>1 DEF Resolve
  <2> QED BY <1>2, <2>1, <2>2
<1>4. CASE ~IsListed(mbs, from)
  <2>1. PICK i \in DOMAIN mbs : DefaultMailbox(mbs, acct.default) = mbs[i]
    BY <1>1, DefaultIsListed
  <2>2. CASE from \in acct.allowed
    <3>1. d = SendThrough(mbs[i], "accept", from)
      BY <1>1, <1>4, <2>1, <2>2 DEF Resolve
    <3> QED BY <1>2, <2>2, <3>1
  <2>3. CASE from \notin acct.allowed
    <3>1. d = ApplyFromPolicy(acct, mbs, from)
      BY <1>1, <1>4, <2>3 DEF Resolve
    <3>2. CASE acct.policy = "rewrite"
      <4>1. d = SendThrough(mbs[i], "rewrite", mbs[i].address)
        BY <2>1, <3>1, <3>2 DEF ApplyFromPolicy
      <4> QED BY <1>2, <4>1
    <3>3. CASE acct.policy = "passthrough"
      <4>1. d = SendThrough(mbs[i], "accept", from)
        BY <2>1, <3>1, <3>3 DEF ApplyFromPolicy
      <4> QED BY <1>2, <3>3, <4>1
    <3> QED BY <1>1, <3>1, <3>2, <3>3 DEF ApplyFromPolicy
  <2> QED BY <2>2, <2>3
<1> QED BY <1>3, <1>4

-----------------------------------------------------------------------------
(* The invariant *)

Identity == [account : Account, mailboxes : Seq(Granted)]
Draft == [mailbox : Mailboxes, from : Addresses \cup {NoAddress}, tls : BOOLEAN, tx : Nat,
          recipients : Seq(Nat)]
SessionType ==
    [pc : {"closed", "command", "senders", "mailboxes", "rehash", "submit"},
     tls : BOOLEAN, identity : Identity \cup {NoIdentity}, authFailures : Nat,
     row : AccountRow \cup {Deleted}, senders : SUBSET Addresses, mail : BOOLEAN, tx : Nat,
     recipients : Seq(Nat), draft : Draft \cup {NoDraft}]

MayShowPassword(tls) == tls \/ config.allowInsecureAuth
MaySend(tls) == tls \/ ~RequireTLS

Own(recipients, tx) == \A k \in DOMAIN recipients : recipients[k] = tx

SafeMessage(m) ==
    /\ MayShowPassword(m.tls) /\ MaySend(m.tls)
    /\ m.recipients # << >> /\ Own(m.recipients, m.tx)

SafeSession(s) ==
    /\ s.pc \in {"senders", "mailboxes"} \/ s.identity # NoIdentity => MayShowPassword(s.tls)
    /\ s.pc \in {"senders", "mailboxes", "rehash"} => s.row \in AccountRow
    /\ s.mail => s.identity # NoIdentity /\ MaySend(s.tls)
    /\ s.recipients # << >> => s.mail
    /\ Own(s.recipients, s.tx)
    /\ MaxAuthFailures > 0 => s.authFailures < MaxAuthFailures
    /\ s.authFailures > 0 => MayShowPassword(s.tls)
    /\ s.pc = "submit" =>
          /\ s.identity \in Identity /\ s.draft \in Draft
          /\ SafeMessage(s.draft)
          /\ Permitted(s.identity.account, s.identity.mailboxes, s.draft.mailbox, s.draft.from)

(* The attempt that is under way, or that succeeded; what a session before STARTTLS
   may have used up; and how many guesses a session, or the connection it closed,
   may have seen. *)
Pending(s) == IF s.pc \in {"senders", "mailboxes"} \/ s.identity # NoIdentity THEN 1 ELSE 0
Twice == config.tls = "starttls" /\ config.allowInsecureAuth
Earlier(tls) == IF tls /\ Twice THEN MaxAuthFailures ELSE 0
Limit == IF Twice THEN 2 * MaxAuthFailures ELSE MaxAuthFailures
Room(s) == IF s.pc = "closed" THEN Limit ELSE Earlier(s.tls) + s.authFailures + Pending(s)

Guessed(s, n) == n \in Nat /\ (MaxAuthFailures > 0 => n <= Room(s))

TablesType ==
    /\ config \in Config
    /\ account \in AccountRow \cup {Deleted}
    /\ allowed \subseteq Addresses

QueueInv ==
    /\ queued \in Seq(Draft)
    /\ \A i \in DOMAIN queued : SafeMessage(queued[i])
    /\ replies \in Nat /\ changes \in Nat
    /\ replies <= Len(queued) /\ Len(queued) <= replies + changes

Inv ==
    /\ TablesType /\ QueueInv
    /\ sess \in SessionType /\ SafeSession(sess) /\ Guessed(sess, guesses)

LEMMA NewSessionSafe ==
    ASSUME NEW tls \in BOOLEAN
    PROVE  /\ NewSession(tls) \in SessionType /\ SafeSession(NewSession(tls))
           /\ Closed \in SessionType /\ SafeSession(Closed)
<1>1. ASSUME NEW t \in BOOLEAN
      PROVE  NewSession(t) \in SessionType
  <2>1. Deleted \in AccountRow \cup {Deleted} /\ NoDraft \in Draft \cup {NoDraft}
        /\ NoIdentity \in Identity \cup {NoIdentity} /\ << >> \in Seq(Nat)
    OBVIOUS
  <2> QED BY <2>1 DEF NewSession, SessionType
<1>2. ASSUME NEW t \in BOOLEAN
      PROVE  SafeSession(NewSession(t))
  BY DEF NewSession, SafeSession, Own
<1>3. Closed \in SessionType
  BY Zenon, <1>1 DEF Closed, SessionType
<1>4. SafeSession(Closed)
  BY DEF Closed, NewSession, SafeSession, Own
<1> QED BY <1>1, <1>2, <1>3, <1>4

LEMMA SessionInit == Init => Inv
<1> SUFFICES ASSUME Init PROVE Inv
  OBVIOUS
<1>1. sess \in SessionType /\ SafeSession(sess)
  BY Zenon, NewSessionSafe DEF Init
<1>2. TablesType
  BY DEF Init, TablesType
<1>3. QueueInv
  BY DEF Init, QueueInv
<1>4. Guessed(sess, guesses)
  BY DEF Init, Closed, NewSession, Guessed, Room, Limit
<1> QED BY <1>1, <1>2, <1>3, <1>4 DEF Inv

-----------------------------------------------------------------------------
(* Each step of the session *)

(* A step that changes nothing but the session, the account row and the counter of
   changes keeps the invariant if the new session is safe. *)
LEMMA SessionStep ==
    ASSUME Inv, NEW s \in SessionType, SafeSession(s), sess' = s, Guessed(s, guesses'),
           UNCHANGED <<config, allowed, queued, replies>>,
           account' \in AccountRow \cup {Deleted},
           changes' \in {changes, changes + 1}
    PROVE  Inv'
<1>1. TablesType'
  BY DEF Inv, TablesType
<1>2. SafeSession(sess)'
  BY Zenon DEF SafeSession, SafeMessage, MayShowPassword, MaySend, RequireTLS, Own, Permitted
<1>3. QueueInv'
  BY DEF Inv, QueueInv, SafeMessage, MayShowPassword, MaySend, RequireTLS, Own
<1>4. Guessed(sess, guesses)'
  BY Zenon DEF Guessed, Room, Limit, Earlier, Twice, Pending
<1> QED BY <1>1, <1>2, <1>3, <1>4 DEF Inv

(* A session that goes on has room for the guesses so far. *)
LEMMA SameRoom ==
    ASSUME Inv, NEW s, sess.pc # "closed", s.pc # "closed",
           s.tls = sess.tls, s.authFailures = sess.authFailures, Pending(s) = 1 \/ Pending(sess) = 0
    PROVE  Guessed(s, guesses)
<1>1. Pending(sess) \in {0, 1} /\ Pending(s) \in {0, 1} /\ sess.authFailures \in Nat
      /\ Earlier(sess.tls) \in Nat
  BY DEF Pending, Inv, SessionType, Earlier
<1>2. Room(sess) <= Room(s) /\ Room(s) \in Nat /\ Room(sess) \in Nat
  BY <1>1 DEF Room
<1> QED BY <1>2 DEF Inv, Guessed

(* A session has never seen more guesses than the limit. *)
LEMMA RoomLimited ==
    ASSUME Inv
    PROVE  Guessed(Closed, guesses)
<1>1. Closed.pc = "closed"
  BY DEF Closed, NewSession
<1>2. Pending(sess) \in {0, 1} /\ sess.authFailures \in Nat /\ Limit \in Nat
      /\ Earlier(sess.tls) \in Nat /\ Earlier(sess.tls) + MaxAuthFailures <= Limit
  BY DEF Pending, Inv, SessionType, Earlier, Limit
<1>3. MaxAuthFailures > 0 => sess.authFailures < MaxAuthFailures
  BY DEF Inv, SafeSession
<1>4. MaxAuthFailures > 0 => Room(sess) <= Limit /\ Room(sess) \in Nat
  BY <1>2, <1>3 DEF Room
<1> QED BY <1>1, <1>2, <1>4 DEF Inv, Guessed, Room

LEMMA OperatorsKeep ==
    ASSUME Inv,
           \/ \E row \in AccountRows : ChangeAccount(row)
           \/ DeleteAccount \/ ChangeGrants
           \/ \E b \in Mailboxes : ChangeMailbox(b)
    PROVE  Inv'
<1>1. UNCHANGED <<config, sess, queued, replies, guesses>> /\ changes' = changes + 1
  BY DEF ChangeAccount, DeleteAccount, ChangeGrants, ChangeMailbox, Change
<1>2. TablesType'
  <2>1. ASSUME NEW row \in AccountRows, ChangeAccount(row) PROVE TablesType'
    BY <2>1 DEF Inv, TablesType, ChangeAccount
  <2>2. CASE DeleteAccount
    BY <2>2 DEF Inv, TablesType, DeleteAccount
  <2>3. CASE ChangeGrants
    BY <2>3 DEF Inv, TablesType, ChangeGrants
  <2>4. ASSUME NEW b \in Mailboxes, ChangeMailbox(b) PROVE TablesType'
    <3>1. \/ account' = account
          \/ account # Deleted /\ account' = [account EXCEPT !.default = NoAddress]
      BY <2>4 DEF ChangeMailbox
    <3>2. account' \in AccountRow \cup {Deleted}
      BY SMTT(20), <3>1 DEF Inv, TablesType, AccountRow
    <3> QED BY <2>4, <3>2 DEF Inv, TablesType, ChangeMailbox
  <2> QED BY <2>1, <2>2, <2>3, <2>4
<1>3. SafeSession(sess)'
  BY Zenon, <1>1 DEF Inv, SafeSession, SafeMessage, MayShowPassword, MaySend, RequireTLS, Own, Permitted
<1>4. QueueInv'
  BY <1>1 DEF Inv, QueueInv, SafeMessage, MayShowPassword, MaySend, RequireTLS, Own
<1>5. Guessed(sess, guesses)'
  BY Zenon, <1>1 DEF Inv, Guessed, Room, Limit, Earlier, Twice, Pending
<1> QED BY <1>1, <1>2, <1>3, <1>4, <1>5 DEF Inv

LEMMA FailedSafe ==
    ASSUME Inv, sess.pc \in {"command", "senders", "mailboxes"}, MayShowPassword(sess.tls)
    PROVE  Failed \in SessionType /\ SafeSession(Failed)
<1>1. CASE Failed = Closed
  BY Zenon, <1>1, NewSessionSafe
<1>2. CASE Failed # Closed
  <2> DEFINE n == IF MaxAuthFailures > 0 THEN sess.authFailures + 1 ELSE sess.authFailures
             s == [sess EXCEPT !.pc = "command", !.row = Deleted, !.senders = {},
                               !.authFailures = n]
  <2>1. Failed = s /\ n \in Nat /\ (MaxAuthFailures > 0 => n < MaxAuthFailures)
    BY <1>2 DEF Failed, Inv, SessionType, SafeSession
  <2> HIDE DEF n
  <2>2. s \in SessionType
    BY Zenon, <2>1 DEF Inv, SessionType
  <2>3. SafeSession(s)
    BY <2>1 DEF Inv, SessionType, SafeSession, Own
  <2> QED BY <2>1, <2>2, <2>3
<1> QED BY <1>1, <1>2

(* A failure makes room for one guess more, or closes the connection. *)
LEMMA FailedCounts ==
    ASSUME Inv, NEW n \in Nat, sess.pc \in {"command", "senders", "mailboxes"},
           \/ sess.pc = "command" /\ sess.identity = NoIdentity /\ n = guesses + 1
           \/ sess.pc # "command" /\ n = guesses
    PROVE  Guessed(Failed, n)
<1> DEFINE before == Earlier(sess.tls) + sess.authFailures
<1>1. /\ sess.authFailures \in Nat /\ Earlier(sess.tls) \in Nat /\ Limit \in Nat
      /\ Earlier(sess.tls) + MaxAuthFailures <= Limit
      /\ MaxAuthFailures > 0 => sess.authFailures < MaxAuthFailures
  BY DEF Inv, SessionType, SafeSession, Earlier, Limit
<1>2. MaxAuthFailures > 0 => n <= before + 1
  <2>1. guesses \in Nat /\ (MaxAuthFailures > 0 => guesses <= before + Pending(sess))
    BY DEF Inv, Guessed, Room
  <2>2. CASE sess.pc = "command"
    <3>1. Pending(sess) = 0 /\ n = guesses + 1
      BY <2>2 DEF Pending
    <3> QED BY <1>1, <2>1, <3>1
  <2>3. CASE sess.pc # "command"
    <3>1. Pending(sess) = 1 /\ n = guesses
      BY <2>3 DEF Pending
    <3> QED BY <1>1, <2>1, <3>1
  <2> QED BY <2>2, <2>3
<1>3. CASE MaxAuthFailures > 0 /\ sess.authFailures + 1 >= MaxAuthFailures
  <2>1. Failed = Closed /\ Closed.pc = "closed"
    BY <1>3 DEF Failed, Closed, NewSession
  <2>2. n <= Limit
    BY <1>1, <1>2, <1>3
  <2> QED BY <2>1, <2>2 DEF Guessed, Room
<1>4. CASE MaxAuthFailures > 0 /\ ~(sess.authFailures + 1 >= MaxAuthFailures)
  <2>1. Failed.pc = "command" /\ Failed.tls = sess.tls
        /\ Failed.authFailures = sess.authFailures + 1
    BY <1>4 DEF Failed, Inv, SessionType
  <2>2. Pending(Failed) \in {0, 1}
    BY DEF Pending
  <2>3. n <= Room(Failed)
    BY <1>1, <1>2, <1>4, <2>1, <2>2 DEF Room
  <2> QED BY <2>3 DEF Guessed
<1> QED BY <1>3, <1>4 DEF Guessed

(* The queries that follow the password may fail too. *)
LEMMA SafelyFailed ==
    ASSUME Inv, sess.pc \in {"senders", "mailboxes"}
    PROVE  Failed \in SessionType /\ SafeSession(Failed) /\ Guessed(Failed, guesses)
<1>1. MayShowPassword(sess.tls) /\ guesses \in Nat
  BY DEF Inv, SafeSession, Guessed
<1> QED BY <1>1, FailedSafe, FailedCounts

LEMMA ConnectionKeeps ==
    ASSUME Inv, Connect \/ StartTLS \/ Disconnect
    PROVE  Inv'
<1>1. UNCHANGED <<tables, queued, replies, changes>>
      /\ \/ \E tls \in BOOLEAN : sess' = NewSession(tls)
         \/ sess' = Closed
  BY Zenon DEF Connect, StartTLS, Disconnect
<1>2. account' \in AccountRow \cup {Deleted} /\ changes' \in {changes, changes + 1}
  BY <1>1 DEF Inv, TablesType, tables
<1>3. CASE Connect \/ Disconnect
  <2>1. guesses' = 0
    BY <1>3 DEF Connect, Disconnect
  <2>2. ASSUME NEW s, s.authFailures = 0 PROVE Guessed(s, guesses')
    <3>1. Room(s) \in Nat
      BY <2>2 DEF Room, Limit, Earlier, Pending
    <3> QED BY <2>1, <3>1 DEF Guessed
  <2>3. Closed.authFailures = 0 /\ \A tls \in BOOLEAN : NewSession(tls).authFailures = 0
    BY DEF NewSession, Closed
  <2>4. PICK s : sess' = s /\ s \in SessionType /\ SafeSession(s) /\ s.authFailures = 0
    BY Zenon, <1>1, <2>3, NewSessionSafe
  <2>5. Guessed(s, guesses')
    BY <2>2, <2>4
  <2> QED BY <1>1, <1>2, <2>4, <2>5, SessionStep DEF tables
<1>4. CASE StartTLS
  <2> DEFINE s == NewSession(TRUE)
  <2>1. /\ sess' = s /\ guesses' = guesses /\ sess.pc = "command" /\ ~sess.tls
        /\ config.tls = "starttls"
    BY <1>4 DEF StartTLS, At
  <2>2. s.pc = "command" /\ s.tls = TRUE /\ s.authFailures = 0 /\ s.identity = NoIdentity
    BY DEF NewSession
  <2> HIDE DEF s
  <2>3. Room(s) = IF config.allowInsecureAuth THEN MaxAuthFailures ELSE 0
    BY <2>1, <2>2 DEF Room, Earlier, Twice, Pending
  <2>4. Room(sess) = sess.authFailures + Pending(sess) /\ Pending(sess) \in {0, 1}
        /\ sess.authFailures \in Nat
    BY <2>1 DEF Room, Earlier, Pending, Inv, SessionType
  <2>5. ~config.allowInsecureAuth => sess.authFailures = 0 /\ Pending(sess) = 0
    BY <2>1, <2>4 DEF Inv, SafeSession, MayShowPassword, Pending
  <2>6. MaxAuthFailures > 0 => sess.authFailures < MaxAuthFailures
    BY DEF Inv, SafeSession
  <2>7. Guessed(s, guesses)
    BY <2>3, <2>4, <2>5, <2>6 DEF Inv, Guessed
  <2> QED BY Zenon, <1>1, <1>2, <2>1, <2>7, NewSessionSafe, SessionStep DEF tables, s
<1> QED BY <1>3, <1>4

LEMMA AuthKeeps ==
    ASSUME Inv,
           \/ \E p \in Passwords : Authenticate(p)
           \/ ReadAllowedSenders \/ ReadMailboxes \/ Rehash \/ AuthQueryFails
    PROVE  Inv'
<1> USE DEF Becomes, tables, At
<1>1. account \in AccountRow \cup {Deleted} /\ allowed \subseteq Addresses
  BY DEF Inv, TablesType
<1>2. ASSUME NEW p \in Passwords, Authenticate(p) PROVE Inv'
  <2> DEFINE s == [sess EXCEPT !.pc = "senders", !.row = account]
  <2>1. CASE sess' = Failed
    <3>1. /\ sess.pc = "command" /\ sess.identity = NoIdentity /\ MayShowPassword(sess.tls)
          /\ guesses' = guesses + 1 /\ guesses \in Nat
          /\ UNCHANGED <<config, account, allowed, queued, replies, changes>>
      BY <1>2 DEF Authenticate, MayAuth, MayShowPassword, Inv, Guessed
    <3>2. Guessed(Failed, guesses')
      BY <3>1, FailedCounts
    <3> QED BY <1>1, <2>1, <3>1, <3>2, FailedSafe, SessionStep
  <2>2. CASE sess' = s /\ account # Deleted
    <3>1. s \in SessionType
      BY Zenon, <1>1, <2>2 DEF Inv, SessionType
    <3>2. SafeSession(s)
      BY <1>1, <1>2, <2>2 DEF Inv, SessionType, SafeSession, Authenticate, MayAuth, MayShowPassword, Own
    <3>3. /\ sess.pc = "command" /\ sess.identity = NoIdentity /\ guesses' = guesses + 1
          /\ UNCHANGED <<config, account, allowed, queued, replies, changes>>
      BY <1>2 DEF Authenticate, MayAuth
    <3>4. s.pc = "senders" /\ s.tls = sess.tls /\ s.authFailures = sess.authFailures
      BY DEF Inv, SessionType
    <3> HIDE DEF s
    <3>5. Guessed(s, guesses')
      <4>1. Pending(s) = 1 /\ Pending(sess) = 0 /\ sess.authFailures \in Nat
            /\ Earlier(sess.tls) \in Nat
        BY <3>3, <3>4 DEF Pending, Inv, SessionType, Earlier
      <4>2. Room(s) = Room(sess) + 1 /\ Room(sess) \in Nat
        BY <3>3, <3>4, <4>1 DEF Room
      <4> QED BY <3>3, <4>2 DEF Inv, Guessed
    <3> QED BY <1>1, <2>2, <3>1, <3>2, <3>3, <3>5, SessionStep
  <2> QED BY <1>2, <2>1, <2>2 DEF Authenticate
<1>3. CASE ReadAllowedSenders
  <2> DEFINE s == [sess EXCEPT !.pc = "mailboxes", !.senders = allowed]
  <2>0. sess.pc = "senders" /\ UNCHANGED <<config, account, allowed, queued, replies, changes, guesses>>
    BY <1>3 DEF ReadAllowedSenders
  <2>1. CASE sess' = Failed
    BY <1>1, <2>0, <2>1, SafelyFailed, SessionStep
  <2>2. CASE sess' = s
    <3>1. s \in SessionType
      BY Zenon, <1>1 DEF Inv, SessionType
    <3>2. SafeSession(s)
      BY <1>3 DEF Inv, SessionType, SafeSession, ReadAllowedSenders, Own
    <3>3. s.pc = "mailboxes" /\ s.tls = sess.tls /\ s.authFailures = sess.authFailures
      BY DEF Inv, SessionType
    <3> HIDE DEF s
    <3>4. Guessed(s, guesses)
      BY <2>0, <3>3, SameRoom DEF Pending
    <3> QED BY <1>1, <2>0, <2>2, <3>1, <3>2, <3>4, SessionStep
  <2> QED BY <1>3, <2>1, <2>2 DEF ReadAllowedSenders
<1>4. CASE ReadMailboxes
  <2>n. PICK n \in 0 .. Len(MailboxOrder) : \E listed \in [1 .. n -> Mailboxes] :
            sess' = [sess EXCEPT
                !.pc = IF sess.row.weak THEN "rehash" ELSE "command",
                !.identity = IdentityWith(listed),
                !.row = IF sess.row.weak THEN @ ELSE Deleted,
                !.senders = {}]
    BY Zenon, <1>4 DEF ReadMailboxes
  <2>1. PICK listed \in [1 .. n -> Mailboxes] :
            sess' = [sess EXCEPT
                !.pc = IF sess.row.weak THEN "rehash" ELSE "command",
                !.identity = IdentityWith(listed),
                !.row = IF sess.row.weak THEN @ ELSE Deleted,
                !.senders = {}]
    BY Zenon, <2>n
  <2>2. sess.row \in AccountRow /\ MayShowPassword(sess.tls)
    BY Zenon, <1>4 DEF Inv, SafeSession, ReadMailboxes
  <2>3. IdentityWith(listed) \in Identity
    <3>1. [i \in DOMAIN listed |-> MailboxRow(listed[i])] \in Seq(Granted)
      BY DEF MailboxRow, Granted
    <3> QED BY <2>2, <3>1 DEF IdentityWith, Identity, Account, AccountRow, Inv, SessionType
  <2> DEFINE pc == IF sess.row.weak THEN "rehash" ELSE "command"
             row == IF sess.row.weak THEN sess.row ELSE Deleted
             s == [sess EXCEPT !.pc = pc, !.identity = IdentityWith(listed), !.row = row,
                               !.senders = {}]
  <2>4. sess' = s /\ pc \in {"rehash", "command"} /\ (pc = "rehash" => row \in AccountRow)
        /\ row \in AccountRow \cup {Deleted}
    BY <2>1, <2>2
  <2> HIDE DEF pc, row
  <2>5. s \in SessionType
    BY Zenon, <2>3, <2>4 DEF Inv, SessionType
  <2>6. IdentityWith(listed) # NoIdentity
    BY Zenon DEF IdentityWith, NoIdentity
  <2>7. SafeSession(s)
    BY <2>2, <2>4, <2>6 DEF Inv, SessionType, SafeSession, Own
  <2>8. sess.pc = "mailboxes" /\ UNCHANGED <<config, account, allowed, queued, replies, changes, guesses>>
    BY Zenon, <1>4 DEF ReadMailboxes
  <2>9. s.pc = pc /\ s.tls = sess.tls /\ s.authFailures = sess.authFailures
        /\ s.identity = IdentityWith(listed)
    BY DEF Inv, SessionType
  <2> HIDE DEF s
  <2>10. Guessed(s, guesses)
    BY <2>4, <2>6, <2>8, <2>9, SameRoom DEF Pending
  <2> QED BY <1>1, <2>4, <2>5, <2>7, <2>8, <2>10, SessionStep
<1>5. CASE Rehash
  <2> DEFINE s == [sess EXCEPT !.pc = "command", !.row = Deleted]
  <2>1. s \in SessionType
    BY Zenon DEF Inv, SessionType
  <2>2. SafeSession(s)
    BY DEF Inv, SessionType, SafeSession, Own
  <2>3. account' \in AccountRow \cup {Deleted}
    <3>1. sess.row \in AccountRow
      BY <1>5 DEF Inv, SafeSession, Rehash
    <3>2. [sess.row EXCEPT !.weak = FALSE] \in AccountRow
      BY Zenon, <3>1 DEF AccountRow
    <3> QED BY <1>1, <1>5, <3>2 DEF Rehash
  <2>4. /\ sess.pc = "rehash" /\ sess' = s
        /\ UNCHANGED <<config, allowed, queued, replies, changes, guesses>>
    BY <1>5 DEF Rehash
  <2>5. s.pc = "command" /\ s.tls = sess.tls /\ s.authFailures = sess.authFailures
        /\ s.identity = sess.identity
    BY DEF Inv, SessionType
  <2> HIDE DEF s
  <2>6. Guessed(s, guesses)
    BY <2>4, <2>5, SameRoom DEF Pending
  <2> QED BY <2>1, <2>2, <2>3, <2>4, <2>6, SessionStep
<1>6. CASE AuthQueryFails
  BY <1>1, <1>6, SafelyFailed, SessionStep DEF AuthQueryFails, Change
<1> QED BY <1>2, <1>3, <1>4, <1>5, <1>6

LEMMA OwnNothing == << >> \in Seq(Nat) /\ \A tx : Own(<< >>, tx)
BY DEF Own

LEMMA ResetSafe ==
    ASSUME Inv, sess.pc \in {"command", "submit"}
    PROVE  LET s == [AfterReset(sess) EXCEPT !.pc = "command"] IN
           /\ s \in SessionType /\ SafeSession(s) /\ Guessed(s, guesses)
           /\ Answered \in SessionType /\ SafeSession(Answered) /\ Guessed(Answered, guesses)
<1> DEFINE s == [AfterReset(sess) EXCEPT !.pc = "command"]
<1>1. s \in SessionType /\ s.pc = "command" /\ ~s.mail /\ s.recipients = << >>
      /\ s.tls = sess.tls /\ s.identity = sess.identity /\ s.authFailures = sess.authFailures
  <2>1. AfterReset(sess) \in SessionType
    BY Zenon, OwnNothing DEF Inv, SessionType, AfterReset
  <2>2. AfterReset(sess).mail = FALSE /\ AfterReset(sess).recipients = << >>
        /\ AfterReset(sess).tls = sess.tls /\ AfterReset(sess).identity = sess.identity
        /\ AfterReset(sess).authFailures = sess.authFailures
    BY DEF Inv, SessionType, AfterReset
  <2> QED BY <2>1, <2>2 DEF SessionType
<1>2. Answered = [s EXCEPT !.draft = NoDraft]
  BY DEF Inv, SessionType, AfterReset, Answered
<1> HIDE DEF s
<1>3. SafeSession(s)
  BY <1>1, OwnNothing DEF Inv, SafeSession
<1>4. Answered \in SessionType /\ Answered.pc = "command" /\ ~Answered.mail
      /\ Answered.recipients = << >> /\ Answered.tls = sess.tls
      /\ Answered.identity = sess.identity /\ Answered.authFailures = sess.authFailures
  BY Zenon, <1>1, <1>2 DEF SessionType
<1>5. SafeSession(Answered)
  BY <1>4, OwnNothing DEF Inv, SafeSession
<1>6. Guessed(s, guesses)
  BY <1>1, SameRoom DEF Pending
<1>7. Guessed(Answered, guesses)
  BY <1>4, SameRoom DEF Pending
<1> QED BY <1>1, <1>3, <1>4, <1>5, <1>6, <1>7 DEF s

LEMMA CommandsKeep ==
    ASSUME Inv, Mail \/ Rcpt \/ Reset
    PROVE  Inv'
<1> USE DEF Becomes, tables, At
<1>1. /\ account' \in AccountRow \cup {Deleted} /\ sess.pc = "command"
      /\ UNCHANGED <<config, allowed, queued, replies, changes, guesses>>
  BY DEF Inv, TablesType, Mail, Rcpt, Reset
<1>2. CASE Mail
  <2> DEFINE n == sess.tx + 1
             s == [sess EXCEPT !.mail = TRUE, !.tx = n, !.recipients = << >>]
  <2>1. s \in SessionType
    <3>1. n \in Nat
      BY DEF Inv, SessionType
    <3> HIDE DEF n
    <3> QED BY Zenon, <3>1, OwnNothing DEF Inv, SessionType
  <2>2. SafeSession(s) /\ Guessed(s, guesses)
    <3>1. s.pc = "command" /\ s.recipients = << >> /\ s.tls = sess.tls
          /\ s.identity = sess.identity /\ s.authFailures = sess.authFailures
      BY <1>2 DEF Inv, SessionType, Mail
    <3>2. sess.identity # NoIdentity /\ MaySend(sess.tls)
      BY <1>2 DEF Mail, Authenticated, MaySend
    <3> HIDE DEF s
    <3>3. Guessed(s, guesses)
      BY <1>1, <3>1, SameRoom DEF Pending
    <3> QED BY <3>1, <3>2, <3>3, OwnNothing DEF Inv, SafeSession
  <2>3. sess' = s
    BY <1>2 DEF Mail
  <2> HIDE DEF s
  <2> QED BY <1>1, <2>1, <2>2, <2>3, SessionStep
<1>3. CASE Rcpt
  <2> DEFINE r == Append(sess.recipients, sess.tx)
             s == [sess EXCEPT !.recipients = r]
  <2>1. sess.recipients \in Seq(Nat) /\ sess.tx \in Nat
    BY DEF Inv, SessionType
  <2>2. r \in Seq(Nat) /\ Own(r, sess.tx)
    BY <2>1 DEF Own, Inv, SafeSession
  <2>3. sess' = s
    BY <1>3 DEF Rcpt
  <2> HIDE DEF r
  <2>4. s \in SessionType
    BY Zenon, <2>2 DEF Inv, SessionType
  <2>5. SafeSession(s)
    BY <1>3, <2>2 DEF Inv, SessionType, SafeSession, Rcpt
  <2>6. s.pc = sess.pc /\ s.tls = sess.tls /\ s.authFailures = sess.authFailures
        /\ s.identity = sess.identity
    BY DEF Inv, SessionType
  <2> HIDE DEF s
  <2>7. Guessed(s, guesses)
    BY <1>1, <2>6, SameRoom DEF Pending
  <2> QED BY <1>1, <2>3, <2>4, <2>5, <2>7, SessionStep
<1>4. CASE Reset
  <2>1. sess.pc = "command" /\ sess' = AfterReset(sess)
    BY <1>4 DEF Reset
  <2>2. AfterReset(sess) = [AfterReset(sess) EXCEPT !.pc = "command"]
    BY Zenon, <2>1 DEF Inv, SessionType, AfterReset
  <2> QED BY <1>1, <2>1, <2>2, ResetSafe, SessionStep
<1> QED BY <1>2, <1>3, <1>4

LEMMA DataKeeps ==
    ASSUME Inv, NEW from \in Addresses \cup {NoAddress}, Data(from)
    PROVE  Inv'
<1> USE DEF Becomes, tables, At
<1> DEFINE d == Resolve(sess.identity.account, sess.identity.mailboxes, from)
           m == [mailbox |-> d.mailbox, from |-> d.from, tls |-> sess.tls,
                 tx |-> sess.tx, recipients |-> sess.recipients]
           s == [sess EXCEPT !.pc = "submit", !.draft = m]
<1>1. /\ account' \in AccountRow \cup {Deleted}
      /\ UNCHANGED <<config, allowed, queued, replies, changes, guesses>>
  BY DEF Inv, TablesType, Data
<1>2. sess.identity \in Identity /\ sess.recipients # << >> /\ sess.pc = "command"
  BY DEF Inv, SessionType, Data, Authenticated
<1>3. CASE d.action = "reject"
  <2>1. sess' = AfterReset(sess)
    BY <1>3 DEF Data
  <2>2. AfterReset(sess) = [AfterReset(sess) EXCEPT !.pc = "command"]
    BY Zenon, <1>2 DEF Inv, SessionType, AfterReset
  <2> QED BY <1>1, <1>2, <2>1, <2>2, ResetSafe, SessionStep
<1>4. CASE d.action # "reject"
  <2>1. sess' = s
    BY <1>4 DEF Data
  <2>2. /\ Permitted(sess.identity.account, sess.identity.mailboxes, d.mailbox, d.from)
        /\ d.mailbox \in Mailboxes /\ d.from \in {from, d.mailbox}
    <3>1. sess.identity.account \in Account /\ sess.identity.mailboxes \in Seq(Granted)
      BY <1>2 DEF Identity
    <3> QED BY <1>4, <3>1, PolicyCorrect
  <2> HIDE DEF d
  <2>3. m \in Draft
    BY <2>2 DEF Draft, Inv, SessionType, Addresses
  <2>4. SafeMessage(m)
    BY <1>2 DEF SafeMessage, Inv, SessionType, SafeSession, NoIdentity, Identity
  <2>5. m.mailbox = d.mailbox /\ m.from = d.from
    OBVIOUS
  <2> HIDE DEF m
  <2>6. s \in SessionType
    BY Zenon, <2>3 DEF Inv, SessionType
  <2>7. SafeSession(s)
    BY <1>2, <2>2, <2>3, <2>4, <2>5 DEF Inv, SessionType, SafeSession
  <2>8. s.pc = "submit" /\ s.tls = sess.tls /\ s.authFailures = sess.authFailures
        /\ s.identity = sess.identity
    BY DEF Inv, SessionType
  <2> HIDE DEF s
  <2>9. Guessed(s, guesses)
    BY <1>2, <2>8, SameRoom DEF Pending
  <2> QED BY <1>1, <2>1, <2>6, <2>7, <2>9, SessionStep
<1> QED BY <1>3, <1>4

LEMMA SubmitKeeps ==
    ASSUME Inv, Submit \/ SubmitFails
    PROVE  Inv'
<1> USE DEF tables, At
<1>1. sess' = Answered /\ UNCHANGED <<tables, guesses>> /\ sess.pc = "submit"
  BY DEF Submit, SubmitFails
<1>2. \/ UNCHANGED <<queued, replies>> /\ changes' \in {changes, changes + 1}
      \/ queued' = Append(queued, sess.draft) /\ replies' = replies + 1 /\ changes' = changes
      \/ queued' = Append(queued, sess.draft) /\ replies' = replies /\ changes' = changes + 1
  BY DEF Submit, SubmitFails, Change
<1>3. Answered \in SessionType
  BY <1>1, ResetSafe
<1>4. SafeSession(Answered) /\ Guessed(Answered, guesses)
  BY <1>1, ResetSafe
<1>5. CASE UNCHANGED queued
  BY <1>1, <1>2, <1>3, <1>4, <1>5, SessionStep DEF Inv, TablesType, QueueInv
<1>6. CASE queued' = Append(queued, sess.draft)
  <2>1. sess.draft \in Draft /\ SafeMessage(sess.draft) /\ queued \in Seq(Draft)
    BY <1>1 DEF Inv, SafeSession, QueueInv
  <2>2. queued' \in Seq(Draft) /\ Len(queued') = Len(queued) + 1
        /\ \A i \in DOMAIN queued' : \/ i \in DOMAIN queued /\ queued'[i] = queued[i]
                                     \/ queued'[i] = sess.draft
    BY <1>6, <2>1
  <2>3. \A i \in DOMAIN queued' : SafeMessage(queued'[i])
    BY Zenon, <2>1, <2>2 DEF Inv, QueueInv
  <2>4. \A i \in DOMAIN queued' : SafeMessage(queued[i])'
    BY <1>1, <2>3 DEF SafeMessage, MayShowPassword, MaySend, RequireTLS, Own
  <2>5. replies' \in Nat /\ changes' \in Nat /\ replies' <= Len(queued')
        /\ Len(queued') <= replies' + changes'
    BY <1>2, <2>1, <2>2 DEF Inv, QueueInv
  <2>6. QueueInv'
    BY <2>2, <2>4, <2>5 DEF QueueInv
  <2>7. TablesType' /\ SafeSession(sess)'
    BY Zenon, <1>1, <1>4 DEF Inv, TablesType, SafeSession, SafeMessage, MayShowPassword, MaySend,
                      RequireTLS, Own, Permitted
  <2>8. Guessed(sess, guesses)'
    BY Zenon, <1>1, <1>4 DEF Guessed, Room, Limit, Earlier, Twice, Pending
  <2> QED BY <1>1, <1>3, <2>6, <2>7, <2>8 DEF Inv
<1> QED BY <1>2, <1>5, <1>6

LEMMA SessionNext == Inv /\ [Next]_vars => Inv'
<1> SUFFICES ASSUME Inv, [Next]_vars PROVE Inv'
  OBVIOUS
<1>1. CASE UNCHANGED vars
  BY <1>1, SessionStep DEF vars, Inv, TablesType
<1>2. CASE Next
  BY <1>2, OperatorsKeep, ConnectionKeeps, AuthKeeps, CommandsKeep, DataKeeps, SubmitKeeps DEF Next
<1> QED BY <1>1, <1>2

LEMMA SessionInvariant == Spec => []Inv
BY SessionInit, SessionNext, PTL DEF Spec

-----------------------------------------------------------------------------
(* Results *)

(* Nothing crosses an unencrypted connection unless the operator opted out. *)
THEOREM ClearCorrect == Spec => []NothingInTheClear
<1>1. Inv => NothingInTheClear
  BY DEF Inv, SafeSession, QueueInv, SafeMessage, MayShowPassword, MaySend, NothingInTheClear,
         Authenticated
<1> QED BY <1>1, SessionInvariant, PTL

(* A queued message has exactly the recipients named under its own MAIL. *)
THEOREM RecipientsOwn == Spec => []OwnRecipientsOnly
<1>1. Inv => OwnRecipientsOnly
  BY DEF Inv, QueueInv, SafeMessage, Own, OwnRecipientsOnly
<1> QED BY <1>1, SessionInvariant, PTL

(* A connection sees no more guesses than the limit, twice as many at most when
   STARTTLS may follow AUTH: what was checked, and not only what was counted. *)
THEOREM GuessesCorrect == Spec => []GuessesBounded
<1>1. Inv => GuessesBounded
  <2> SUFFICES ASSUME Inv PROVE GuessesBounded
    OBVIOUS
  <2>1. Guessed(Closed, guesses) /\ Closed.pc = "closed"
    BY RoomLimited DEF Closed, NewSession
  <2> QED BY <2>1 DEF Guessed, Room, Limit, Twice, GuessesBounded
<1> QED BY <1>1, SessionInvariant, PTL

(* A 250 stands for a message in the queue, and the queue holds no more than the
   250s and the faults account for. *)
THEOREM AcceptanceCorrect == Spec => []AcceptedIsQueued
<1>1. Inv => AcceptedIsQueued
  BY DEF Inv, QueueInv, AcceptedIsQueued
<1> QED BY <1>1, SessionInvariant, PTL

(* What a session submits, its identity permits. *)
THEOREM GrantsCorrect == Spec => []SentAsGranted
<1>1. Inv => SentAsGranted
  BY Zenon DEF Inv, SafeSession, Permitted, SentAsGranted, At
<1> QED BY <1>1, SessionInvariant, PTL
=============================================================================
