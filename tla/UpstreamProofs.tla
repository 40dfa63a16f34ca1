--------------------------- MODULE UpstreamProofs ---------------------------
(***************************************************************************)
(* Proofs about Upstream and the TokenCache in it, for any number of       *)
(* replicas, messages, recipients and credentials, and any number of edits *)
(* and faults.                                                             *)
(***************************************************************************)
EXTENDS Upstream, TLAPS

Good == Materials \ Unusable

Dialog ==
    [transport : {"none", "smtp", "graph"},
     step : {"connect", "auth", "mail", "rcpt", "data", "body", "quit"},
     reply : {"none", "ok", "4xx", "5xx", "lost", "400", "401", "404", "429"},
     rcpt : Nat, to : SUBSET Everybody]

Copy == [via : {"smtp", "graph"}, to : (SUBSET Everybody) \cup {InHeaders[d] : d \in Deliveries}]
Copies == SUBSET Copy

TypeInv ==
    /\ row \in Materials \cup {"deleted"} /\ edits \in Nat /\ faults \in Nat
    /\ clients \in [Replicas -> Good \cup {"none"}]
    /\ delivery \in [Deliveries -> Delivery]
    /\ dialog \in [Deliveries -> Dialog]
    /\ message \in [Deliveries -> {"queued", "sent", "failed"}]
    /\ taken \in [Deliveries -> Copies]

(* A delivery that has read the row since the last edit has the row's material,
   and the client it goes on with was built from what it read. *)
DeliveryOK(q) ==
    /\ q.pc # "idle" => q.replica \in Replicas
    /\ q.pc \in {"begin", "lookup", "build", "store", "token"} =>
          q.cred \in Materials /\ q.since <= edits /\ (q.since = edits => q.cred = row)
    /\ q.pc \in {"store", "token"} => q.client = q.cred /\ q.client \in Good
    /\ q.pc = "send" => q.client \in Good \ Refused

(* The recipients accepted so far are those named so far, all of them once the
   message follows; past AUTH the token may send; an accepted message was taken. *)
DialogOK(q, g, t) ==
    /\ g.step # "connect" \/ g.reply # "none" => q.pc = "send"
    /\ g.to = {Recipients[i] : i \in 1..g.rcpt}
    /\ g.step \in {"connect", "auth", "mail"} => g.rcpt = 0
    /\ g.step = "rcpt" => g.rcpt < Len(Recipients)
    /\ g.step \in {"data", "body", "quit"} => g.rcpt = Len(Recipients)
    /\ g.step \notin {"connect", "auth"} \/ g.reply = "400" => q.client \notin Unpermitted
    /\ g.step = "quit" \/ g.reply = "ok" => t # {}

TakenOK(m, t) ==
    /\ \A copy \in t : copy.via = "smtp" => copy.to = Everybody
    /\ m = "sent" => t # {}

(* The upstream takes a copy: one for everybody, unless with Graph. *)
Takes(d) == Take(d, "smtp", Everybody) \/ Take(d, "graph", InHeaders[d])

Inv ==
    /\ TypeInv
    /\ \A d \in Deliveries :
          /\ DeliveryOK(delivery[d])
          /\ DialogOK(delivery[d], dialog[d], taken[d])
          /\ TakenOK(message[d], taken[d])
-----------------------------------------------------------------------------
LEMMA Envelope == Len(Recipients) \in Nat /\ Len(Recipients) > 0
BY UpstreamAssumption

LEMMA NoDialogOK ==
    ASSUME NEW q, NEW t
    PROVE  NoDialog \in Dialog /\ DialogOK(q, NoDialog, t)
BY DEF NoDialog, Dialog, DialogOK

LEMMA NoDeliveryOK == NoDelivery \in Delivery /\ DeliveryOK(NoDelivery)
BY DEF NoDelivery, Delivery, DeliveryOK, Cached

LEMMA Initially == Init => Inv
<1> SUFFICES ASSUME Init PROVE Inv
  OBVIOUS
<1>1. TypeInv
  BY NoDialogOK, NoDeliveryOK DEF Init, CacheInit, TypeInv, Copies
<1>2. \A d \in Deliveries : TakenOK(message[d], taken[d])
  BY DEF Init, TakenOK
<1> QED BY <1>1, <1>2, NoDialogOK, NoDeliveryOK DEF Init, CacheInit, Inv

(* A step of one delivery, or of its upstream, is about that delivery alone. *)
LEMMA Local ==
    ASSUME Inv, NEW d \in Deliveries, UNCHANGED <<row, edits>>, faults' \in Nat,
           clients' \in [Replicas -> Good \cup {"none"}],
           delivery' \in [Deliveries -> Delivery],
           dialog' \in [Deliveries -> Dialog],
           message' \in [Deliveries -> {"queued", "sent", "failed"}],
           taken' \in [Deliveries -> Copies],
           \A e \in Deliveries \ {d} :
               /\ delivery'[e] = delivery[e] /\ dialog'[e] = dialog[e]
               /\ message'[e] = message[e] /\ taken'[e] = taken[e],
           DeliveryOK(delivery'[d]),
           DialogOK(delivery'[d], dialog'[d], taken'[d]),
           TakenOK(message'[d], taken'[d])
    PROVE  Inv'
<1>1. TypeInv'
  BY DEF Inv, TypeInv
<1>2. ASSUME NEW e \in Deliveries
      PROVE  /\ DeliveryOK(delivery[e])' /\ DialogOK(delivery[e], dialog[e], taken[e])'
             /\ TakenOK(message[e], taken[e])'
  <2>1. CASE e = d
    BY <2>1 DEF DeliveryOK, DialogOK, TakenOK
  <2>2. CASE e # d
    BY <2>2 DEF Inv, DeliveryOK, DialogOK, TakenOK
  <2> QED BY <2>1, <2>2
<1> QED BY <1>1, <1>2 DEF Inv
-----------------------------------------------------------------------------
(* The dialogue *)

LEMMA FaultCounted == Inv /\ (UNCHANGED faults \/ Fault) => faults' \in Nat
BY DEF Inv, TypeInv, Fault

LEMMA OneDialog ==
    ASSUME Inv, NEW d \in Deliveries, At(d, "send"), Still, UNCHANGED faults \/ Fault,
           NEW g \in Dialog, dialog' = [dialog EXCEPT ![d] = g],
           NEW t \in Copies, taken' = [taken EXCEPT ![d] = t],
           DialogOK(delivery[d], g, t), TakenOK(message[d], t)
    PROVE  Inv'
<1>1. TypeInv /\ DeliveryOK(delivery[d])
  BY DEF Inv
<1>2. /\ dialog' \in [Deliveries -> Dialog] /\ dialog'[d] = g
      /\ taken' \in [Deliveries -> Copies] /\ taken'[d] = t
      /\ \A e \in Deliveries \ {d} : dialog'[e] = dialog[e] /\ taken'[e] = taken[e]
  BY <1>1 DEF TypeInv
<1>3. UNCHANGED <<row, edits, clients, delivery, message>>
  BY DEF Still
<1>4. /\ clients' \in [Replicas -> Good \cup {"none"}]
      /\ delivery' \in [Deliveries -> Delivery]
      /\ message' \in [Deliveries -> {"queued", "sent", "failed"}]
  BY <1>1, <1>3 DEF TypeInv
<1> QED BY <1>1, <1>2, <1>3, <1>4, FaultCounted, Local

(* A copy that is taken is one more, and leaves no recipient out over SMTP. *)
LEMMA Taking ==
    ASSUME TypeInv, NEW d \in Deliveries, TakenOK(message[d], taken[d]),
           UNCHANGED taken \/ Takes(d)
    PROVE  /\ taken'[d] \in Copies /\ taken' = [taken EXCEPT ![d] = taken'[d]]
           /\ taken[d] # {} \/ Takes(d) => taken'[d] # {}
           /\ TakenOK(message[d], taken'[d])
<1> DEFINE s == [via |-> "smtp", to |-> Everybody]
           g == [via |-> "graph", to |-> InHeaders[d]]
<1>1. s \in Copy /\ g \in Copy
  BY DEF Copy
<1>2. s.to = Everybody /\ g.via = "graph"
  OBVIOUS
<1>3. taken \in [Deliveries -> Copies]
  BY DEF TypeInv
<1>4. CASE UNCHANGED taken /\ ~Takes(d)
  BY <1>3, <1>4
<1>5. ASSUME NEW c \in {s, g}, taken' = [taken EXCEPT ![d] = @ \cup {c}]
      PROVE  /\ taken'[d] \in Copies /\ taken' = [taken EXCEPT ![d] = taken'[d]]
             /\ taken'[d] # {} /\ TakenOK(message[d], taken'[d])
  <2>1. taken'[d] = taken[d] \cup {c}
    BY <1>3, <1>5
  <2>2. c \in Copy /\ (c.via = "smtp" => c.to = Everybody)
    BY <1>1, <1>2
  <2> HIDE DEF s, g
  <2>3. taken'[d] \in Copies /\ taken' = [taken EXCEPT ![d] = taken'[d]]
    BY <1>3, <1>5, <2>1, <2>2 DEF Copies
  <2> QED BY <2>1, <2>2, <2>3 DEF TakenOK
<1> QED BY <1>4, <1>5 DEF Takes, Take

(* The upstream answers, having taken the message or not. *)
LEMMA Answers ==
    ASSUME Inv, NEW d \in Deliveries, At(d, "send"), Still, UNCHANGED faults \/ Fault,
           NEW reply \in {"ok", "4xx", "5xx", "lost", "400", "401", "404", "429"},
           Replies(d, reply),
           UNCHANGED taken \/ Takes(d),
           reply = "ok" => taken'[d] # {},
           reply = "400" => delivery[d].client \notin Unpermitted
    PROVE  Inv'
<1> DEFINE g == [dialog[d] EXCEPT !.reply = reply]
           t == taken'[d]
<1>1. /\ TypeInv
      /\ DialogOK(delivery[d], dialog[d], taken[d]) /\ TakenOK(message[d], taken[d])
  BY DEF Inv
<1>2. dialog[d] \in Dialog /\ taken[d] \in Copies
  BY <1>1 DEF TypeInv
<1>3. g \in Dialog /\ dialog' = [dialog EXCEPT ![d] = g]
  BY <1>2 DEF Dialog, Replies
<1>4. taken[d] # {} => t # {}
  BY Zenon, <1>1, Taking
<1>5. t \in Copies /\ taken' = [taken EXCEPT ![d] = t]
  BY Zenon, <1>1, Taking
<1>6. /\ g.step = dialog[d].step /\ g.rcpt = dialog[d].rcpt /\ g.to = dialog[d].to
      /\ g.reply = reply
  BY <1>2 DEF Dialog
<1>7. DialogOK(delivery[d], g, t)
  BY <1>1, <1>4, <1>6 DEF DialogOK, At
<1>8. TakenOK(message[d], t)
  BY Zenon, <1>1, Taking
<1> HIDE DEF g, t
<1> QED BY Zenon, <1>3, <1>5, <1>7, <1>8, OneDialog

(* The dialogue goes on to its next step. *)
LEMMA Proceeds ==
    ASSUME Inv, NEW d \in Deliveries, NEW step, NEW next,
           Asks(d, "smtp", step), GoesOn(d, next), Still, UNCHANGED faults,
           \/ step = "connect" /\ next = "auth" /\ UNCHANGED taken
           \/ /\ step = "auth" /\ next = "mail" /\ UNCHANGED taken
              /\ delivery[d].client \notin Unpermitted
           \/ step = "mail" /\ next = "rcpt" /\ UNCHANGED taken
           \/ step = "data" /\ next = "body" /\ UNCHANGED taken
           \/ step = "body" /\ next = "quit" /\ Takes(d)
    PROVE  Inv'
<1> DEFINE g == [dialog[d] EXCEPT !.step = next]
           t == taken'[d]
<1>1. /\ TypeInv
      /\ DialogOK(delivery[d], dialog[d], taken[d]) /\ TakenOK(message[d], taken[d])
  BY DEF Inv
<1>2. dialog[d] \in Dialog /\ taken[d] \in Copies
  BY <1>1 DEF TypeInv
<1>3. g \in Dialog /\ dialog' = [dialog EXCEPT ![d] = g]
  BY <1>2 DEF Dialog, GoesOn
<1>4. taken[d] # {} => t # {}
  BY Zenon, <1>1, Taking
<1>5. t \in Copies /\ taken' = [taken EXCEPT ![d] = t]
  BY Zenon, <1>1, Taking
<1>6. /\ g.step = next /\ g.rcpt = dialog[d].rcpt /\ g.to = dialog[d].to
      /\ g.reply = "none" /\ dialog[d].step = step
      /\ At(d, "send")
  BY <1>2 DEF Dialog, Asks
<1>7. next = "quit" => t # {}
  BY <1>1, Taking
<1>8. DialogOK(delivery[d], g, t)
  BY <1>1, <1>4, <1>6, <1>7, Envelope DEF DialogOK, At
<1>9. TakenOK(message[d], t)
  BY Zenon, <1>1, Taking
<1> HIDE DEF g, t
<1> QED BY Zenon, <1>3, <1>5, <1>6, <1>8, <1>9, OneDialog

LEMMA RefusesStep ==
    ASSUME Inv, NEW d \in Deliveries, At(d, "send"), Still, UNCHANGED taken, Refuses(d)
    PROVE  Inv'
BY Answers DEF Refuses, Rightly, Wrongly

LEMMA CommandStep ==
    ASSUME Inv, NEW d \in Deliveries, NEW step, NEW next, Command(d, step, next),
           <<step, next>> \in {<<"connect", "auth">>, <<"mail", "rcpt">>, <<"data", "body">>}
    PROVE  Inv'
<1>1. At(d, "send") /\ Still /\ UNCHANGED taken /\ Asks(d, "smtp", step)
  BY DEF Command, Asks
<1>2. CASE Refuses(d)
  BY <1>1, <1>2, RefusesStep
<1>3. CASE GoesOn(d, next) /\ UNCHANGED faults
  BY <1>1, <1>3, Proceeds
<1> QED BY <1>2, <1>3 DEF Command

LEMMA AuthenticateStep ==
    ASSUME Inv, NEW d \in Deliveries, Authenticate(d)
    PROVE  Inv'
<1>1. At(d, "send") /\ Still /\ UNCHANGED taken /\ Asks(d, "smtp", "auth")
  BY DEF Authenticate, Asks
<1>2. CASE /\ delivery[d].client \notin Unpermitted
           /\ GoesOn(d, "mail")
           /\ UNCHANGED faults
  BY <1>1, <1>2, Proceeds
<1>3. ASSUME NEW reply \in {"4xx", "5xx", "lost"}, Rightly(d, reply) \/ Wrongly(d, reply)
      PROVE  Inv'
  BY <1>1, <1>3, Answers DEF Rightly, Wrongly
<1> QED BY <1>2, <1>3 DEF Authenticate

LEMMA RcptStep ==
    ASSUME Inv, NEW d \in Deliveries, Rcpt(d)
    PROVE  Inv'
<1> DEFINE n == dialog[d].rcpt + 1
           g == [dialog[d] EXCEPT !.rcpt = n, !.to = @ \cup {Recipients[n]},
                                  !.step = IF n = Len(Recipients) THEN "data" ELSE "rcpt"]
<1>1. At(d, "send") /\ Still /\ UNCHANGED taken /\ Asks(d, "smtp", "rcpt")
  BY DEF Rcpt, Asks
<1>2. CASE Refuses(d)
  BY <1>1, <1>2, RefusesStep
<1>3. CASE dialog' = [dialog EXCEPT ![d].rcpt = n, ![d].to = @ \cup {Recipients[n]},
                          ![d].step = IF n = Len(Recipients) THEN "data" ELSE "rcpt"]
           /\ UNCHANGED faults
  <2>1. /\ TypeInv
        /\ DialogOK(delivery[d], dialog[d], taken[d]) /\ TakenOK(message[d], taken[d])
    BY DEF Inv
  <2>2. dialog[d] \in Dialog /\ taken[d] \in Copies
    BY <2>1 DEF TypeInv
  <2>3. /\ dialog[d].rcpt \in Nat /\ dialog[d].rcpt < Len(Recipients)
        /\ dialog[d].step = "rcpt" /\ dialog[d].reply = "none"
        /\ dialog[d].to = {Recipients[i] : i \in 1..dialog[d].rcpt}
    BY <1>1, <2>1, <2>2 DEF DialogOK, Asks, Dialog
  <2>4. n \in 1..Len(Recipients) /\ Recipients[n] \in Everybody
    BY <2>3, Envelope DEF Everybody
  <2>5. dialog' = [dialog EXCEPT ![d] = g]
    BY Zenon, <1>3, <2>1 DEF TypeInv
  <2>6. g \in Dialog
    <3>1. dialog[d].to \cup {Recipients[n]} \in SUBSET Everybody
      BY <2>2, <2>4 DEF Dialog
    <3>2. \A r \in Dialog, k \in Nat, S \in SUBSET Everybody, step \in {"data", "rcpt"} :
             [r EXCEPT !.rcpt = k, !.to = S, !.step = step] \in Dialog
      BY Zenon DEF Dialog
    <3>3. n \in Nat /\ (IF n = Len(Recipients) THEN "data" ELSE "rcpt") \in {"data", "rcpt"}
      BY <2>4
    <3> QED BY Zenon, <2>2, <3>1, <3>2, <3>3
  <2>7. /\ g.rcpt = n /\ g.to = dialog[d].to \cup {Recipients[n]} /\ g.reply = "none"
        /\ g.step = IF n = Len(Recipients) THEN "data" ELSE "rcpt"
    BY <2>2, <2>3 DEF Dialog
  <2>8. dialog[d].to \cup {Recipients[n]} = {Recipients[i] : i \in 1..n}
    <3>1. 1..n = (1..dialog[d].rcpt) \cup {n}
      BY <2>3
    <3> HIDE DEF n
    <3> QED BY <3>1, <2>3
  <2>9. DialogOK(delivery[d], g, taken[d])
    <3> HIDE DEF g
    <3> QED BY <1>1, <2>1, <2>3, <2>4, <2>7, <2>8, Envelope DEF DialogOK, At
  <2>10. taken' = [taken EXCEPT ![d] = taken[d]]
    BY <1>1, <2>1 DEF TypeInv
  <2> HIDE DEF g
  <2> QED BY Zenon, <1>1, <1>3, <2>1, <2>2, <2>5, <2>6, <2>9, <2>10, OneDialog
<1> QED BY <1>2, <1>3 DEF Rcpt

LEMMA BodyStep ==
    ASSUME Inv, NEW d \in Deliveries, Body(d)
    PROVE  Inv'
<1>1. At(d, "send") /\ Still /\ Asks(d, "smtp", "body")
  BY DEF Body, Asks
<1>2. dialog[d].to = Everybody
  BY <1>1 DEF Inv, DialogOK, Asks, Everybody
<1>3. CASE GoesOn(d, "quit") /\ Take(d, "smtp", dialog[d].to) /\ UNCHANGED faults
  BY <1>1, <1>2, <1>3, Proceeds DEF Takes
<1>4. CASE Refuses(d) /\ UNCHANGED taken
  BY <1>1, <1>4, RefusesStep
<1>5. CASE Wrongly(d, "lost") /\ Take(d, "smtp", dialog[d].to)
  BY <1>1, <1>2, <1>5, Answers DEF Wrongly, Takes
<1> QED BY <1>3, <1>4, <1>5 DEF Body

LEMMA QuitStep ==
    ASSUME Inv, NEW d \in Deliveries, Quit(d)
    PROVE  Inv'
<1>1. At(d, "send") /\ Still /\ UNCHANGED taken /\ Replies(d, "ok") /\ UNCHANGED faults
  BY DEF Quit, Asks, Rightly
<1>2. taken[d] # {}
  BY DEF Inv, DialogOK, Quit, Asks
<1> QED BY <1>1, <1>2, Answers

LEMMA RequestStep ==
    ASSUME Inv, NEW d \in Deliveries, Request(d)
    PROVE  Inv'
<1>1. At(d, "send") /\ Still
  BY DEF Request, Asks
<1>2. TypeInv
  BY DEF Inv
<1>3. Take(d, "graph", InHeaders[d]) => taken'[d] # {}
  BY <1>2, Taking DEF Inv, Takes
<1>4. CASE Rightly(d, "ok") /\ Take(d, "graph", InHeaders[d])
  BY <1>1, <1>3, <1>4, Answers DEF Rightly, Takes
<1>5. CASE /\ delivery[d].client \notin Unpermitted
           /\ \E reply \in {"404", "400"} : Rightly(d, reply)
           /\ UNCHANGED taken
  BY <1>1, <1>5, Answers DEF Rightly
<1>6. CASE Wrongly(d, "lost") /\ Take(d, "graph", InHeaders[d])
  BY <1>1, <1>6, Answers DEF Wrongly, Takes
<1>7. CASE (\E reply \in {"401", "404"} : Rightly(d, reply)) /\ UNCHANGED taken
  BY <1>1, <1>7, Answers DEF Rightly
<1>8. CASE (\E reply \in {"429", "401", "5xx", "lost"} : Wrongly(d, reply)) /\ UNCHANGED taken
  BY <1>1, <1>8, Answers DEF Wrongly
<1> QED BY <1>4, <1>5, <1>6, <1>7, <1>8 DEF Request

-----------------------------------------------------------------------------
(* The delivery: from reading the credential to the token, and its end *)

(* A delivery goes on before it talks to the upstream. *)
LEMMA OneDelivery ==
    ASSUME Inv, NEW d \in Deliveries, ~At(d, "send"),
           UNCHANGED <<row, edits, message, taken>>, UNCHANGED faults \/ Fault,
           clients' \in [Replicas -> Good \cup {"none"}],
           NEW q \in Delivery, delivery' = [delivery EXCEPT ![d] = q], DeliveryOK(q),
           \/ UNCHANGED dialog
           \/ Dropped({d})
           \/ \E t \in {"smtp", "graph"} : dialog' = [dialog EXCEPT ![d].transport = t]
    PROVE  Inv'
<1>1. TypeInv /\ DialogOK(delivery[d], dialog[d], taken[d]) /\ TakenOK(message[d], taken[d])
  BY DEF Inv
<1>2. dialog[d] \in Dialog
  BY <1>1 DEF TypeInv
<1>3. \A t \in {"smtp", "graph"} :
         /\ [dialog[d] EXCEPT !.transport = t] \in Dialog
         /\ [dialog[d] EXCEPT !.transport = t].step = dialog[d].step
         /\ [dialog[d] EXCEPT !.transport = t].reply = dialog[d].reply
         /\ [dialog[d] EXCEPT !.transport = t].rcpt = dialog[d].rcpt
         /\ [dialog[d] EXCEPT !.transport = t].to = dialog[d].to
  BY <1>2 DEF Dialog
<1>4. /\ dialog' \in [Deliveries -> Dialog]
      /\ \A e \in Deliveries \ {d} : dialog'[e] = dialog[e]
  BY <1>1, <1>3, NoDialogOK DEF TypeInv, Dropped
<1>5. \/ dialog'[d] = NoDialog
      \/ /\ dialog'[d].step = dialog[d].step /\ dialog'[d].reply = dialog[d].reply
         /\ dialog'[d].rcpt = dialog[d].rcpt /\ dialog'[d].to = dialog[d].to
  BY ZenonT(30), <1>1, <1>3 DEF TypeInv, Dropped
<1>6. /\ dialog[d].step = "connect" /\ dialog[d].reply = "none"
      /\ dialog[d].rcpt = 0 /\ dialog[d].to = {Recipients[i] : i \in 1..0}
  BY <1>1 DEF DialogOK, At
<1>7. DialogOK(q, dialog'[d], taken'[d])
  <2>1. CASE dialog'[d] = NoDialog
    BY <2>1, NoDialogOK
  <2>2. CASE dialog'[d] # NoDialog
    BY <1>5, <1>6, <2>2 DEF DialogOK
  <2> QED BY <2>1, <2>2
<1>8. /\ delivery' \in [Deliveries -> Delivery] /\ delivery'[d] = q
      /\ \A e \in Deliveries \ {d} : delivery'[e] = delivery[e]
      /\ message' \in [Deliveries -> {"queued", "sent", "failed"}]
      /\ taken' \in [Deliveries -> Copies]
  BY <1>1 DEF TypeInv
<1> QED BY <1>1, <1>4, <1>7, <1>8, FaultCounted, Local

LEMMA PrepareStep ==
    ASSUME Inv, NEW d \in Deliveries, PrepareMessage(d)
    PROVE  Inv'
<1>1. TypeInv /\ row \in Materials
  BY DEF Inv, TypeInv, PrepareMessage, Prepare
<1>2. PICK r \in Replicas : delivery' = [delivery EXCEPT ![d] = [NoDelivery EXCEPT
              !.pc = "begin", !.replica = r, !.cred = row, !.since = edits]]
  BY Zenon DEF PrepareMessage, Prepare
<1> DEFINE q == [NoDelivery EXCEPT !.pc = "begin", !.replica = r, !.cred = row, !.since = edits]
<1>3. q \in Delivery
  BY Zenon, <1>1 DEF NoDelivery, Delivery, Cached, TypeInv
<1>4. DeliveryOK(q)
  BY <1>1 DEF NoDelivery, DeliveryOK, TypeInv
<1>5. \E t \in {"smtp", "graph"} : dialog' = [dialog EXCEPT ![d].transport = t]
  BY Zenon, UpstreamAssumption DEF PrepareMessage
<1> HIDE DEF q
<1>6. /\ ~At(d, "send") /\ clients' \in [Replicas -> Good \cup {"none"}]
      /\ UNCHANGED <<row, edits, message, taken, faults>>
  BY <1>1 DEF PrepareMessage, Prepare, At, TypeInv
<1> QED BY Zenon, <1>2, <1>3, <1>4, <1>5, <1>6, OneDelivery DEF q

(* A delivery that ends, whatever came of it. *)
LEMMA DeliveryEnds ==
    ASSUME Inv, NEW d \in Deliveries, UNCHANGED <<row, edits, clients, taken>>,
           UNCHANGED faults \/ Fault, Finished(d), Dropped({d}),
           NEW m \in {"queued", "sent", "failed"}, message' = [message EXCEPT ![d] = m],
           m = "sent" => taken[d] # {}
    PROVE  Inv'
<1>1. TypeInv /\ TakenOK(message[d], taken[d])
  BY DEF Inv
<1>2. /\ dialog' \in [Deliveries -> Dialog] /\ dialog'[d] = NoDialog
      /\ delivery' \in [Deliveries -> Delivery] /\ delivery'[d] = NoDelivery
      /\ message' \in [Deliveries -> {"queued", "sent", "failed"}] /\ message'[d] = m
      /\ taken' \in [Deliveries -> Copies] /\ taken'[d] = taken[d]
      /\ clients' \in [Replicas -> Good \cup {"none"}]
      /\ \A e \in Deliveries \ {d} :
             /\ dialog'[e] = dialog[e] /\ delivery'[e] = delivery[e]
             /\ message'[e] = message[e] /\ taken'[e] = taken[e]
  BY <1>1, NoDialogOK, NoDeliveryOK DEF TypeInv, Dropped, Finished
<1>3. TakenOK(message'[d], taken'[d])
  BY <1>1, <1>2 DEF TakenOK
<1> QED BY <1>2, <1>3, NoDialogOK, NoDeliveryOK, FaultCounted, Local

LEMMA BeginStep ==
    ASSUME Inv, NEW d \in Deliveries, Begin(d)
    PROVE  Inv'
<1> DEFINE q == [delivery[d] EXCEPT !.pc = "lookup"]
<1>1. TypeInv /\ DeliveryOK(delivery[d]) /\ delivery[d] \in Delivery /\ At(d, "begin")
  BY DEF Inv, TypeInv, Begin
<1>2. UNCHANGED <<row, edits, clients, faults, taken>>
  BY DEF Begin
<1>3. CASE Finished(d) /\ message' = [message EXCEPT ![d] = "failed"] /\ Dropped({d})
  BY Zenon, <1>2, <1>3, DeliveryEnds
<1>4. CASE delivery' = [delivery EXCEPT ![d].pc = "lookup"] /\ UNCHANGED <<message, dialog>>
  <2>1. q \in Delivery /\ delivery' = [delivery EXCEPT ![d] = q]
    BY <1>1, <1>4 DEF Delivery
  <2>2. DeliveryOK(q)
    BY <1>1 DEF DeliveryOK, At, Delivery
  <2>3. ~At(d, "send") /\ clients' \in [Replicas -> Good \cup {"none"}]
    BY <1>1, <1>2 DEF At, TypeInv
  <2> HIDE DEF q
  <2> QED BY Zenon, <1>2, <1>4, <2>1, <2>2, <2>3, OneDelivery
<1> QED BY <1>3, <1>4 DEF Begin

LEMMA TokenStep ==
    ASSUME Inv, NEW d \in Deliveries, Token(d)
    PROVE  Inv'
<1>1. /\ TypeInv /\ DeliveryOK(delivery[d]) /\ delivery[d] \in Delivery
      /\ UNCHANGED <<message, taken>>
      /\ UNCHANGED dialog \/ Dropped({d})
  BY DEF Inv, TypeInv, Token
<1>2. CASE Finished(d) /\ UNCHANGED <<row, edits, clients>> /\ (UNCHANGED faults \/ Fault)
  <2>1. Dropped({d})
    BY <1>1, <1>2 DEF Token, Finished, NoDelivery, TypeInv
  <2>2. message' = [message EXCEPT ![d] = message[d]] /\ message[d] \in {"queued", "sent", "failed"}
    BY <1>1 DEF TypeInv
  <2>3. message[d] = "sent" => taken[d] # {}
    BY DEF Inv, TakenOK
  <2> QED BY Zenon, <1>1, <1>2, <2>1, <2>2, <2>3, DeliveryEnds
<1>3. ASSUME NEW q \in Delivery, delivery' = [delivery EXCEPT ![d] = q], DeliveryOK(q),
             ~At(d, "send"), UNCHANGED <<row, edits, faults>>,
             clients' \in [Replicas -> Good \cup {"none"}]
      PROVE  Inv'
  BY Zenon, <1>1, <1>3, OneDelivery
<1>4. CASE Lookup(d)
  <2> DEFINE c == clients[delivery[d].replica]
             q == IF Hits(c, delivery[d].cred)
                  THEN [delivery[d] EXCEPT !.pc = "token", !.client = c]
                  ELSE [delivery[d] EXCEPT !.pc = "build"]
  <2>1. /\ delivery[d].replica \in Replicas /\ delivery[d].cred \in Materials
        /\ c \in Good \cup {"none"}
    BY <1>1, <1>4 DEF Lookup, At, DeliveryOK, TypeInv
  <2>2. Hits(c, delivery[d].cred) => c = delivery[d].cred /\ c \in Good
    BY <2>1, CacheAssumption DEF Hits
  <2>3. q \in Delivery
    BY Zenon, <1>1, <2>1 DEF Delivery, Cached, Good
  <2>4. DeliveryOK(q)
    BY <1>1, <1>4, <2>2 DEF DeliveryOK, Delivery, Lookup, At
  <2>5. delivery' = [delivery EXCEPT ![d] = q]
    BY <1>4 DEF Lookup
  <2>6. /\ ~At(d, "send") /\ UNCHANGED <<row, edits, faults>>
        /\ clients' \in [Replicas -> Good \cup {"none"}]
    BY <1>1, <1>4 DEF Lookup, At, TypeInv
  <2> HIDE DEF q
  <2> QED BY Zenon, <2>3, <2>4, <2>5, <2>6, <1>3
<1>5. CASE Build(d)
  <2> DEFINE q == [delivery[d] EXCEPT !.pc = "store", !.client = delivery[d].cred]
  <2>1. CASE delivery[d].cred \in Unusable
    BY <1>2, <1>5, <2>1 DEF Build
  <2>2. CASE delivery[d].cred \notin Unusable
    <3>1. q \in Delivery /\ delivery' = [delivery EXCEPT ![d] = q]
      BY Zenon, <1>1, <1>5, <2>2 DEF Delivery, Build
    <3>2. DeliveryOK(q)
      BY <1>1, <1>5, <2>2 DEF DeliveryOK, Delivery, Build, At, Good
    <3>3. /\ ~At(d, "send") /\ UNCHANGED <<row, edits, faults>>
          /\ clients' \in [Replicas -> Good \cup {"none"}]
      BY <1>1, <1>5 DEF Build, At, TypeInv
    <3> HIDE DEF q
    <3> QED BY Zenon, <3>1, <3>2, <3>3, <1>3
  <2> QED BY <2>1, <2>2
<1>6. CASE Store(d)
  <2> DEFINE q == [delivery[d] EXCEPT !.pc = "token"]
  <2>1. q \in Delivery /\ delivery' = [delivery EXCEPT ![d] = q]
    BY <1>1, <1>6 DEF Delivery, Store
  <2>2. DeliveryOK(q)
    BY <1>1, <1>6 DEF DeliveryOK, Delivery, Store, At
  <2>3. delivery[d].client \in Good
    BY <1>1, <1>6 DEF DeliveryOK, Store, At
  <2>4. /\ ~At(d, "send") /\ UNCHANGED <<row, edits, faults>>
        /\ clients' \in [Replicas -> Good \cup {"none"}]
    BY Zenon, <1>1, <1>6, <2>3 DEF Store, At, TypeInv
  <2> HIDE DEF q
  <2> QED BY Zenon, <2>1, <2>2, <2>4, <1>3
<1>7. CASE AcquireToken(d)
  <2> DEFINE q == [delivery[d] EXCEPT !.pc = "send", !.cred = "none", !.since = 0]
  <2>1. CASE /\ delivery[d].client \notin Refused
             /\ delivery' = [delivery EXCEPT ![d].pc = "send", ![d].cred = "none", ![d].since = 0]
             /\ UNCHANGED faults
    <3>1. q \in Delivery /\ delivery' = [delivery EXCEPT ![d] = q]
      BY Zenon, <1>1, <2>1 DEF Delivery, Cached, TypeInv
    <3>2. DeliveryOK(q)
      BY <1>1, <1>7, <2>1 DEF DeliveryOK, Delivery, AcquireToken, At
    <3>3. /\ ~At(d, "send") /\ UNCHANGED <<row, edits, faults>>
          /\ clients' \in [Replicas -> Good \cup {"none"}]
      BY <1>1, <1>7, <2>1 DEF AcquireToken, At, TypeInv
    <3> HIDE DEF q
    <3> QED BY Zenon, <3>1, <3>2, <3>3, <1>3
  <2>2. CASE Finished(d) /\ (UNCHANGED faults \/ Fault)
    BY <1>2, <1>7, <2>2 DEF AcquireToken
  <2> QED BY <1>7, <2>1, <2>2 DEF AcquireToken
<1> QED BY <1>4, <1>5, <1>6, <1>7 DEF Token

LEMMA ReturnStep ==
    ASSUME Inv, NEW d \in Deliveries, Return(d)
    PROVE  Inv'
<1> DEFINE m == IF dialog[d].reply = "ok" THEN "sent"
                ELSE IF Permanent(dialog[d].transport, dialog[d].step, dialog[d].reply)
                     THEN "failed" ELSE "queued"
<1>1. m \in {"queued", "sent", "failed"} /\ message' = [message EXCEPT ![d] = m]
  BY DEF Return
<1>2. m = "sent" => taken[d] # {}
  BY DEF Inv, DialogOK
<1>3. UNCHANGED <<row, edits, clients, taken, faults>> /\ Finished(d) /\ Dropped({d})
  BY DEF Return
<1> HIDE DEF m
<1> QED BY Zenon, <1>1, <1>2, <1>3, DeliveryEnds

LEMMA SendStep ==
    ASSUME Inv, NEW d \in Deliveries, Send(d)
    PROVE  Inv'
BY PrepareStep, BeginStep, TokenStep, CommandStep, AuthenticateStep, RcptStep, BodyStep,
   QuitStep, RequestStep, ReturnStep DEF Send, Connect, Deliver
-----------------------------------------------------------------------------
(* Restarts and operators, and the theorems *)

LEMMA RestartStep ==
    ASSUME Inv, NEW r \in Replicas, RestartReplica(r)
    PROVE  Inv'
<1>1. TypeInv /\ UNCHANGED <<row, edits, message, taken>>
  BY DEF Inv, RestartReplica, Restart
<1>2. \A d \in Deliveries :
         /\ delivery'[d] = IF delivery[d].replica = r THEN NoDelivery ELSE delivery[d]
         /\ dialog'[d] = IF delivery[d].replica = r THEN NoDialog ELSE dialog[d]
  BY DEF RestartReplica, Restart, Dropped
<1>3. TypeInv'
  <2>1. delivery' \in [Deliveries -> Delivery]
    BY <1>1, NoDeliveryOK DEF TypeInv, RestartReplica, Restart
  <2>2. dialog' \in [Deliveries -> Dialog]
    BY <1>1, NoDialogOK DEF TypeInv, RestartReplica, Dropped
  <2>3. clients' \in [Replicas -> Good \cup {"none"}]
    BY <1>1 DEF TypeInv, RestartReplica, Restart
  <2>4. faults' \in Nat
    BY FaultCounted DEF RestartReplica, Restart
  <2> QED BY <1>1, <2>1, <2>2, <2>3, <2>4 DEF TypeInv
<1>4. ASSUME NEW d \in Deliveries
      PROVE  /\ DeliveryOK(delivery[d])' /\ DialogOK(delivery[d], dialog[d], taken[d])'
             /\ TakenOK(message[d], taken[d])'
  <2>1. TakenOK(message[d], taken[d])'
    BY <1>1 DEF Inv, TakenOK
  <2>2. DeliveryOK(delivery[d])'
    BY <1>1, <1>2, NoDeliveryOK DEF Inv, DeliveryOK
  <2>3. CASE delivery[d].replica = r
    <3>1. DialogOK(delivery'[d], NoDialog, taken'[d])
      BY NoDialogOK
    <3> QED BY <1>2, <2>1, <2>2, <2>3, <3>1 DEF DialogOK
  <2>4. CASE delivery[d].replica # r
    BY <1>1, <1>2, <2>1, <2>2, <2>4 DEF Inv, DialogOK
  <2> QED BY <2>3, <2>4
<1> QED BY <1>3, <1>4 DEF Inv

(* After an edit no delivery has read the row since the last one. *)
LEMMA OperatorStep ==
    ASSUME Inv, NEW r \in Replicas, Operator(r)
    PROVE  Inv'
<1>1. TypeInv /\ UNCHANGED <<delivery, dialog, message, taken, faults>>
  BY DEF Inv, Operator, UpdateCredential, DeleteCredential, Edit, Forget
<1>2. \/ row' \in Materials \cup {"deleted"} /\ edits' = edits + 1 /\ UNCHANGED clients
      \/ UNCHANGED <<row, edits>> /\ clients' = [clients EXCEPT ![r] = "none"]
  BY DEF Operator, UpdateCredential, DeleteCredential, Edit, Forget
<1>3. TypeInv'
  BY <1>1, <1>2 DEF TypeInv
<1>4. ASSUME NEW d \in Deliveries
      PROVE  DeliveryOK(delivery[d])'
  <2>1. DeliveryOK(delivery[d]) /\ delivery[d].since \in Nat /\ edits \in Nat
    BY <1>1 DEF Inv, TypeInv, Delivery
  <2> QED BY <1>1, <1>2, <2>1 DEF DeliveryOK
<1>5. ASSUME NEW d \in Deliveries
      PROVE  DialogOK(delivery[d], dialog[d], taken[d])' /\ TakenOK(message[d], taken[d])'
  BY Zenon, <1>1 DEF Inv, DialogOK, TakenOK
<1> QED BY <1>3, <1>4, <1>5 DEF Inv

LEMMA InvNext == Inv /\ [Next]_vars => Inv'
<1> SUFFICES ASSUME Inv, [Next]_vars PROVE Inv'
  OBVIOUS
<1>1. CASE Next
  BY <1>1, SendStep, OperatorStep, RestartStep DEF Next
<1>2. CASE UNCHANGED vars
  BY <1>2 DEF vars, cacheVars, Inv, TypeInv, DeliveryOK, DialogOK, TakenOK
<1> QED BY <1>1, <1>2

LEMMA Invariance == Spec => []Inv
BY Initially, InvNext, PTL DEF Spec

(* A delivery that read the credential after its last edit asks for the token
   with the material of the row, on any replica and whatever older deliveries
   put into the cache of clientFor. *)
THEOREM EditCorrect == Spec => []EditTakesEffect
<1>1. Inv => EditTakesEffect
  BY DEF Inv, DeliveryOK, EditTakesEffect, At
<1> QED BY <1>1, Invariance, PTL

(* No copy that Exchange takes over deliver's dialogue leaves an envelope recipient
   out, for an envelope of any length, and a message recorded as sent was taken,
   by Exchange or by Graph. *)
THEOREM RecipientsCorrect == Spec => []AllRecipientsOrNone
<1>1. Inv => AllRecipientsOrNone
  BY DEF Inv, TakenOK, AllRecipientsOrNone
<1> QED BY <1>1, Invariance, PTL

(* Only Begin and Return decide about a message, each about its own. *)
LEMMA Verdict ==
    ASSUME Inv, Next, NEW d \in Deliveries, message'[d] # message[d]
    PROVE  Begin(d) \/ Return(d)
<1>1. ~ \E r \in Replicas : Operator(r) \/ RestartReplica(r)
  BY Zenon DEF Operator, RestartReplica
<1>2. PICK e \in Deliveries : Send(e)
  BY <1>1 DEF Next
<1>3. ~PrepareMessage(e) /\ ~Token(e)
  BY DEF PrepareMessage, Token
<1>4. ~Still
  BY DEF Still
<1>5. Begin(e) \/ Return(e)
  BY <1>2, <1>3, <1>4 DEF Send, Connect, Command, Authenticate, Deliver, Rcpt, Body, Quit, Request
<1>6. e = d
  BY <1>5 DEF Inv, TypeInv, Begin, Return
<1> QED BY <1>5, <1>6

(* A message that fails for good was not refused for its credential: classifyAuth
   and a failed token only defer it, however the credential changes meanwhile. *)
THEOREM RetryCorrect == Spec => CredentialTroubleIsRetried
<1> DEFINE Excused(d) ==
              \/ delivery[d].client \in Granted
              \/ dialog[d].transport = "smtp" /\ dialog[d].step = "connect"
              \/ dialog[d].transport = "graph" /\ d \in Large
              \/ dialog[d].reply = "404"
           Excuses == \A d \in Deliveries :
              message[d] = "queued" /\ message'[d] = "failed" => Excused(d)
<1>1. Inv /\ [Next]_vars => [Excuses]_vars
  <2> SUFFICES ASSUME Inv, Next, NEW d \in Deliveries,
                      message[d] = "queued", message'[d] = "failed"
               PROVE  Excused(d)
    OBVIOUS
  <2>1. CASE Begin(d)
    BY <2>1 DEF Begin
  <2>2. CASE Return(d)
    <3>1. Permanent(dialog[d].transport, dialog[d].step, dialog[d].reply) /\ At(d, "send")
      BY <2>2 DEF Inv, TypeInv, Return
    <3>2. delivery[d].client \in Good \ Refused
      BY <3>1 DEF Inv, DeliveryOK, At
    <3>3. dialog[d].step \notin {"connect", "auth"} \/ dialog[d].reply = "400"
          => delivery[d].client \notin Unpermitted
      BY DEF Inv, DialogOK
    <3> QED BY <3>1, <3>2, <3>3 DEF Permanent, RelayPermanent, GraphPermanent, Granted, Good
  <2> QED BY <2>1, <2>2, Verdict
<1>2. [][Excuses]_vars => CredentialTroubleIsRetried
  BY PTL DEF CredentialTroubleIsRetried
<1> QED BY <1>1, <1>2, Invariance, PTL DEF Spec
=============================================================================
