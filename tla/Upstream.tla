------------------------------- MODULE Upstream -------------------------------
(***************************************************************************)
(* What a delivery does once its mailbox and credential are read: Send of  *)
(* internal/transport/smtprelay (an SMTP submission to Exchange Online) or *)
(* of internal/transport/graph (one request to Graph), both with a token   *)
(* from the provider of TokenCache, and what the queue makes of the error  *)
(* it returns (internal/transport/transport.go).  A message that is not    *)
(* done is tried again, on any replica; when and how often is Queue's.     *)
(*                                                                         *)
(* Exchange and Graph are external.  They refuse a token without the       *)
(* permission, may refuse anything else for good, and may answer "later"   *)
(* or not at all, which is a fault.                                        *)
(*                                                                         *)
(* The mailbox's address was validated when it was saved, so that building *)
(* the XOAUTH2 response and the Graph request does not fail.               *)
(***************************************************************************)
EXTENDS TokenCache, Sequences

CONSTANTS
    TransportsOf,   \* per message: the transports its mailbox is switched between
    Large,          \* messages over MaxMIMESize
    Recipients,     \* the envelope recipients of every message, a sequence
    InHeaders,      \* per message: the addresses its headers name
    Unpermitted     \* materials whose token may not send as the mailbox

Everybody == {Recipients[i] : i \in 1..Len(Recipients)}

ASSUME UpstreamAssumption ==
    /\ TransportsOf \in [Deliveries -> (SUBSET {"smtp", "graph"}) \ {{}}]
    /\ Large \subseteq Deliveries /\ Unpermitted \subseteq Materials
    /\ Recipients \in Seq(Everybody) \ {<< >>}
    /\ DOMAIN InHeaders = Deliveries

VARIABLES
    dialog,     \* per message: the exchange its delivery is in
    message,    \* per message: what the queue knows of it
    taken       \* per message: the copies the upstream took, over what and for whom

vars == <<cacheVars, dialog, message, taken>>

(* transport: the mailbox's when it was read.  step: what the upstream is asked
   next, and once it has refused, what it refused.  reply: how, or "none" before.
   rcpt, to: recipients named and accepted so far. *)
NoDialog ==
    [transport |-> "none", step |-> "connect", reply |-> "none", rcpt |-> 0, to |-> {}]

Init ==
    /\ CacheInit
    /\ dialog = [d \in Deliveries |-> NoDialog]
    /\ message = [d \in Deliveries |-> "queued"]
    /\ taken = [d \in Deliveries |-> {}]

Asks(d, transport, step) ==
    /\ At(d, "send")
    /\ dialog[d].transport = transport
    /\ dialog[d].step = step
    /\ dialog[d].reply = "none"

Dropped(D) == dialog' = [d \in Deliveries |-> IF d \in D THEN NoDialog ELSE dialog[d]]
GoesOn(d, step) == dialog' = [dialog EXCEPT ![d].step = step]
Replies(d, reply) == dialog' = [dialog EXCEPT ![d].reply = reply]

(* An answer that is no fault of the upstream, and one that is. *)
Rightly(d, reply) == Replies(d, reply) /\ UNCHANGED faults
Wrongly(d, reply) == Replies(d, reply) /\ Fault

(* "lost": no answer, a broken connection, or the timeout of the Send. *)
Refuses(d) == Rightly(d, "5xx") \/ Wrongly(d, "4xx") \/ Wrongly(d, "lost")

Still == UNCHANGED <<row, edits, forgetting, clients, delivery, message>>

-----------------------------------------------------------------------------
(* Send: Graph's own limit on the size comes before the token. *)
Begin(d) ==
    /\ At(d, "begin")
    /\ IF dialog[d].transport = "graph" /\ d \in Large
       THEN Finished(d) /\ message' = [message EXCEPT ![d] = "failed"] /\ Dropped({d})
       ELSE delivery' = [delivery EXCEPT ![d].pc = "lookup"] /\ UNCHANGED <<message, dialog>>
    /\ UNCHANGED <<row, edits, forgetting, clients, faults, taken>>

Command(d, step, next) ==
    /\ Asks(d, "smtp", step)
    /\ \/ GoesOn(d, next) /\ UNCHANGED faults
       \/ Refuses(d)
    /\ Still /\ UNCHANGED taken

(* connect: dial, greeting with STARTTLS, and EHLO once encrypted.  Nothing goes
   on in the clear, and no token is shown yet. *)
Connect(d) == Command(d, "connect", "auth")

(* authenticate: XOAUTH2 with the token.  A server that does not offer it has
   not answered. *)
Authenticate(d) ==
    /\ Asks(d, "smtp", "auth")
    /\ \/ /\ delivery[d].client \notin Unpermitted
          /\ GoesOn(d, "mail")
          /\ UNCHANGED faults
       \/ delivery[d].client \in Unpermitted /\ Rightly(d, "5xx")
       \/ \E reply \in {"4xx", "5xx", "lost"} : Wrongly(d, reply)
    /\ Still /\ UNCHANGED taken

(* Mutant: a refused recipient is left out and the message sent to the others. *)
RcptOrSkip(d) ==
    LET n == dialog[d].rcpt + 1 IN
    /\ Asks(d, "smtp", "rcpt")
    /\ \E to \in {dialog[d].to, dialog[d].to \cup {Recipients[n]}} :
          dialog' = [dialog EXCEPT ![d].rcpt = n, ![d].to = to,
                                   ![d].step = IF n = Len(Recipients) THEN "data" ELSE "rcpt"]
    /\ Still /\ UNCHANGED <<taken, faults>>

(* RCPT TO for one recipient after the other; one refused refuses the message. *)
Rcpt(d) ==
    LET n == dialog[d].rcpt + 1 IN
    /\ Asks(d, "smtp", "rcpt")
    /\ \/ /\ dialog' = [dialog EXCEPT ![d].rcpt = n, ![d].to = @ \cup {Recipients[n]},
                                      ![d].step = IF n = Len(Recipients) THEN "data" ELSE "rcpt"]
          /\ UNCHANGED faults
       \/ Refuses(d)
    /\ Still /\ UNCHANGED taken

Take(d, via, to) == taken' = [taken EXCEPT ![d] = @ \cup {[via |-> via, to |-> to]}]

(* The body, and the verdict on the message when the data stream closes.  A
   verdict that gets lost may have been an acceptance. *)
Body(d) ==
    /\ Asks(d, "smtp", "body")
    /\ \/ GoesOn(d, "quit") /\ Take(d, "smtp", dialog[d].to) /\ UNCHANGED faults
       \/ Refuses(d) /\ UNCHANGED taken
       \/ Wrongly(d, "lost") /\ Take(d, "smtp", dialog[d].to)
    /\ Still

(* Whatever comes of QUIT, the message was accepted. *)
Quit(d) ==
    /\ Asks(d, "smtp", "quit")
    /\ Rightly(d, "ok")
    /\ Still /\ UNCHANGED taken

Deliver(d) ==
    \/ Command(d, "mail", "rcpt") \/ Rcpt(d) \/ Command(d, "data", "body")
    \/ Body(d) \/ Quit(d)

(* The Graph request carries the MIME message and no envelope, so Graph takes it
   for whomever its headers name, who need not be the envelope's recipients.  It
   answers 401 or 403 to a token without the permission, or 404 for a mailbox the
   application cannot see. *)
Request(d) ==
    /\ Asks(d, "graph", "connect")
    /\ \/ /\ delivery[d].client \notin Unpermitted
          /\ \/ Rightly(d, "ok") /\ Take(d, "graph", InHeaders[d])
             \/ (\E reply \in {"404", "400"} : Rightly(d, reply)) /\ UNCHANGED taken
             \/ Wrongly(d, "lost") /\ Take(d, "graph", InHeaders[d])
       \/ /\ delivery[d].client \in Unpermitted
          /\ \E reply \in {"401", "404"} : Rightly(d, reply)
          /\ UNCHANGED taken
       \/ (\E reply \in {"429", "401", "5xx", "lost"} : Wrongly(d, reply)) /\ UNCHANGED taken
    /\ Still

-----------------------------------------------------------------------------
(* Mutant: 535 is permanent, as its first digit says. *)
RelayPermanentByCode(step, reply) == reply = "5xx"

(* classify and classifyAuth of the relay: a refused token is retried. *)
RelayPermanent(step, reply) == step # "auth" /\ reply = "5xx"

(* classify of the Graph transport: 404, and every status that has no case. *)
GraphPermanent(reply) == reply \in {"404", "400"}

(* IsPermanent: what is not known to be permanent is retried. *)
Permanent(transport, step, reply) ==
    \/ transport = "smtp" /\ RelayPermanent(step, reply)
    \/ transport = "graph" /\ GraphPermanent(reply)

(* Send returns, and deliver and recordFailure write what came of it. *)
Return(d) ==
    LET reply == dialog[d].reply IN
    /\ At(d, "send")
    /\ reply # "none"
    /\ message' = [message EXCEPT ![d] =
          IF reply = "ok" THEN "sent"
          ELSE IF Permanent(dialog[d].transport, dialog[d].step, reply) THEN "failed" ELSE "queued"]
    /\ Dropped({d})
    /\ Finished(d)
    /\ UNCHANGED <<row, edits, forgetting, clients, faults, taken>>

PrepareMessage(d) ==
    /\ message[d] = "queued"
    /\ Prepare(d)
    /\ \E t \in TransportsOf[d] : dialog' = [dialog EXCEPT ![d].transport = t]
    /\ UNCHANGED <<message, taken>>

Token(d) ==
    /\ Lookup(d) \/ Build(d) \/ Store(d) \/ AcquireToken(d)
    /\ IF delivery'[d].pc = "idle" THEN Dropped({d}) ELSE UNCHANGED dialog
    /\ UNCHANGED <<message, taken>>

Send(d) ==
    \/ PrepareMessage(d)
    \/ Begin(d)
    \/ Token(d)
    \/ Connect(d) \/ Authenticate(d) \/ Deliver(d) \/ Request(d) \/ Return(d)

RestartReplica(r) ==
    /\ Restart(r)
    /\ Dropped({d \in Deliveries : delivery[d].replica = r})
    /\ UNCHANGED <<message, taken>>

Operator(r) ==
    /\ UpdateCredential(r) \/ DeleteCredential(r) \/ Forget(r)
    /\ UNCHANGED <<dialog, message, taken>>

Next ==
    \/ \E d \in Deliveries : Send(d)
    \/ \E r \in Replicas : Operator(r) \/ RestartReplica(r)

Spec == Init /\ [][Next]_vars

(* A worker that can go on does: every wait for the upstream ends, with the
   timeout of the Send at the latest, and what is deferred is tried again.
   Operators promise nothing, not even to finish with Forget. *)
Fairness == \A d \in Deliveries : WF_vars(Send(d))

FairSpec == Spec /\ Fairness

-----------------------------------------------------------------------------
(* Properties *)

(* Over SMTP a message goes to all its envelope recipients or to none: no copy
   that Exchange took leaves one out, however the dialogue was refused, lost or
   restarted half-way (deliver's loop over RCPT TO, smtprelay.go:167).  A message
   is only recorded as sent once there is a copy, over SMTP or with Graph. *)
AllRecipientsOrNone ==
    \A d \in Deliveries :
        /\ \A copy \in taken[d] : copy.via = "smtp" => copy.to = Everybody
        /\ message[d] = "sent" => taken[d] # {}

Granted == Materials \ (Unusable \cup Refused \cup Unpermitted)

(* Trouble with the credential never costs a message: one that fails for good
   was refused with a token that may send as the mailbox, or before any token was
   shown, or because it was too large, or with the 404 that Graph gives for a
   mailbox it cannot find.  A credential that expires, loses its permission or is
   replaced in mid-delivery only delays it (NewAuthFailure, transport.go:133). *)
CredentialTroubleIsRetried ==
    [][\A d \in Deliveries :
        message[d] = "queued" /\ message'[d] = "failed" =>
            \/ delivery[d].client \in Granted
            \/ dialog[d].transport = "smtp" /\ dialog[d].step = "connect"
            \/ dialog[d].transport = "graph" /\ d \in Large
            \/ dialog[d].reply = "404"]_vars

(* Once the operator has put a working credential in place for good, every
   message gets through or is refused for a reason of its own, on whichever
   replica and without a restart: no stale client, half-done edit or earlier
   failure keeps it in the queue. *)
OnceFixedSettles ==
    <>[](row \in Granted) => \A d \in Deliveries : <>(message[d] # "queued")
=============================================================================
