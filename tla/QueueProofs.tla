----------------------------- MODULE QueueProofs -----------------------------
(***************************************************************************)
(* Proofs about Queue, for any number of messages, replicas and slots and  *)
(* any configuration: what the retry schedule guarantees, the types, the   *)
(* lease and the verdicts of a message, that deliveries are exclusive, and *)
(* what the upstream sees of the queue.                                    *)
(***************************************************************************)
EXTENDS Queue, TLAPS

-----------------------------------------------------------------------------
(* The retry schedule *)

(* The delay before jitter is one of the configured (or default) delays, so a
   natural number of ticks. *)
LEMMA BaseDelayType ==
    ASSUME NEW attempts \in Nat
    PROVE  BaseDelay(attempts) \in Nat
<1> DEFINE delays == IF Delays = <<>> THEN DefaultDelays ELSE Delays
           index == IF attempts < 1 THEN 1 ELSE attempts
           i == IF index > Len(delays) THEN Len(delays) ELSE index
<1>1. delays \in Seq(Nat) /\ Len(delays) > 0
  <2>1. CASE Delays = <<>>
    BY <2>1 DEF DefaultDelays
  <2>2. CASE Delays # <<>>
    BY <2>2, DelaysAssumption
  <2> QED BY <2>1, <2>2
<1>2. i \in 1 .. Len(delays)
  BY <1>1
<1>3. delays[i] \in Nat
  BY <1>1, <1>2
<1> QED BY <1>3 DEF BaseDelay

(* Jitter never makes a delay negative and never lengthens it. *)
LEMMA DelayForType ==
    ASSUME NEW attempts \in Nat
    PROVE  DelayFor(attempts) \subseteq 0 .. BaseDelay(attempts)
<1> DEFINE delay == BaseDelay(attempts)
           j == ClampJitter(JitterPercent)
           spread == (delay * j) \div 100
<1>1. delay \in Nat
  BY BaseDelayType
<1>2. j \in 0 .. 100
  BY JitterAssumption DEF ClampJitter
<1> HIDE DEF delay, j
<1>3. delay * j \in Nat /\ delay * j <= delay * 100
  BY <1>1, <1>2
<1> DEFINE p == delay * j
<1>4. p \in Nat /\ p <= delay * 100
  BY <1>3
<1> HIDE DEF p
<1>5. p \div 100 \in Nat /\ p \div 100 <= delay
  BY <1>1, <1>4
<1>6. spread \in Nat /\ spread <= delay
  BY <1>5 DEF p
<1>7. (delay - spread) .. delay \subseteq 0 .. delay
  BY <1>1, <1>6
<1> QED BY <1>7 DEF DelayFor, delay, j

(* NextAttempt answers "give up" or a delay that ends before the deadline and
   is no longer than the configured one. *)
THEOREM ScheduleKeepsDeadline ==
    ASSUME NEW age \in Nat, NEW attempts \in Nat,
           NEW next \in NextAttempt(age, attempts), next # GiveUp
    PROVE  /\ next \in 0 .. BaseDelay(attempts)
           /\ MaxAttempts > 0 => attempts < MaxAttempts
           /\ MaxAge > 0 => age + next <= MaxAge
<1>1. ~(MaxAttempts > 0 /\ attempts >= MaxAttempts)
  BY DEF NextAttempt
<1>2. PICK delay \in DelayFor(attempts) :
        next = IF MaxAge > 0 /\ age + delay > MaxAge THEN GiveUp ELSE delay
  BY <1>1 DEF NextAttempt
<1>3. delay \in 0 .. BaseDelay(attempts) /\ BaseDelay(attempts) \in Nat
  BY <1>2, DelayForType, BaseDelayType
<1>4. next = delay /\ ~(MaxAge > 0 /\ age + delay > MaxAge)
  BY <1>2
<1> QED BY <1>1, <1>3, <1>4, MaxAgeAssumption, MaxAttemptsAssumption

(* NextAttemptAfter never answers a retry sooner than the upstream asked for,
   nor after the last permitted attempt; only a longer requested delay can
   carry the retry past the deadline. *)
THEOREM RequestedDelayHonoured ==
    ASSUME NEW age \in Nat, NEW attempts \in Nat, NEW requested \in Nat,
           NEW next \in NextAttemptAfter(age, attempts, requested), next # GiveUp
    PROVE  /\ next \in Nat
           /\ next >= requested
           /\ MaxAttempts > 0 => attempts < MaxAttempts
           /\ MaxAge > 0 => \/ age + next <= MaxAge
                            \/ next = requested /\ requested > 0
<1>1. PICK own \in NextAttempt(age, attempts) :
        next = IF own # GiveUp /\ requested > own THEN requested ELSE own
  BY DEF NextAttemptAfter
<1>2. own # GiveUp
  BY <1>1
<1>3. /\ own \in 0 .. BaseDelay(attempts)
      /\ MaxAttempts > 0 => attempts < MaxAttempts
      /\ MaxAge > 0 => age + own <= MaxAge
  BY <1>1, <1>2, ScheduleKeepsDeadline
<1>4. BaseDelay(attempts) \in Nat
  BY BaseDelayType
<1> QED BY <1>1, <1>2, <1>3, <1>4, MaxAgeAssumption

(* Every answer of NextAttemptAfter is a delay or "give up". *)
LEMMA NextAttemptAfterType ==
    ASSUME NEW age \in Nat, NEW attempts \in Nat, NEW requested \in Nat
    PROVE  NextAttemptAfter(age, attempts, requested) \subseteq Nat \cup {GiveUp}
BY RequestedDelayHonoured

-----------------------------------------------------------------------------
(* The queue *)

(* The constants' assumptions, for the leaves that need them all. *)
LEMMA Constants ==
    /\ NoOwner \notin Replicas /\ NoMsg \notin Messages
    /\ MailboxOf \in [Messages -> Mailboxes]
    /\ ReplicaOf \in [Slots -> Replicas]
    /\ LeaseDuration \in Nat /\ LeaseDuration > 0
    /\ UpstreamTimeout \in Nat /\ HoldBound \in Nat
    /\ RetryAfters \subseteq Nat
    /\ RetainSent \in Nat /\ RetainFailed \in Nat
    /\ MaxAge \in Nat /\ MaxAttempts \in Nat
    /\ MaxFaults \in Nat /\ MaxCopies \in Nat
BY NamesAssumption, MailboxOfAssumption, ReplicaOfAssumption, LeaseAssumption,
   TimeoutAssumption, HoldAssumption, RetryAftersAssumption, RetainAssumption,
   MaxAgeAssumption, MaxAttemptsAssumption, BoundsAssumption

(* A slot is active exactly while it has a message. *)
FlightOK == \A s \in Slots : Active(s) => flight[s].msg \in Messages

(* The type invariant with what its proof needs. *)
TypeInv == TypeOK /\ FlightOK

-----------------------------------------------------------------------------
(* Type correctness *)

(* The statements of the code turn rows into rows. *)
LEMMA RowOperations ==
    ASSUME NEW row \in Row, NEW status \in Statuses, NEW n \in Nat
    PROVE  /\ NoRow \in Row
           /\ Released(row, status) \in Row
           /\ Recorded(row, status) \in Row
           /\ [Recorded(row, status) EXCEPT !.nextIn = n] \in Row
           /\ [Released(row, status) EXCEPT !.nextIn = n] \in Row
           /\ [NoRow EXCEPT !.status = "queued"] \in Row
           /\ Later(row) \in Row
           /\ \A r \in Replicas : Leased(row, r) \in Row
<1>1. NoRow \in Row
  BY DEF NoRow, Row, Statuses
<1>2. Released(row, status) \in Row
  BY Zenon DEF Released, Row, Statuses
<1>3. Recorded(row, status) \in Row
  BY <1>2 DEF Recorded, Row
<1>4. [NoRow EXCEPT !.status = "queued"] \in Row
  BY <1>1 DEF Row, Statuses
<1>5. Later(row) \in Row
  <2>1. /\ row.nextIn \in Nat /\ row.leaseLeft \in Nat \cup {-1}
        /\ row.age \in Nat /\ row.idle \in Nat
    BY DEF Row
  <2> DEFINE n1 == IF row.nextIn > 0 THEN row.nextIn - 1 ELSE 0
             l1 == IF row.leaseLeft >= 0 THEN row.leaseLeft - 1 ELSE -1
             a1 == IF row.age <= MaxAge THEN row.age + 1 ELSE row.age
             i1 == IF row.status \in {"sent", "failed"} /\ row.idle <= RetainSent + RetainFailed
                   THEN row.idle + 1 ELSE row.idle
  <2>2. n1 \in Nat /\ l1 \in Nat \cup {-1} /\ a1 \in Nat /\ i1 \in Nat
    BY <2>1, Constants
  <2>3. Later(row) = [row EXCEPT !.nextIn = n1, !.leaseLeft = l1, !.age = a1, !.idle = i1]
    BY DEF Later, Row
  <2> HIDE DEF n1, l1, a1, i1
  <2> QED BY Zenon, <2>2, <2>3 DEF Row
<1>7. \A r \in Replicas : Leased(row, r) \in Row
  BY Zenon, Constants DEF Leased, Row, Statuses
<1>6. /\ [Recorded(row, status) EXCEPT !.nextIn = n] \in Row
      /\ [Released(row, status) EXCEPT !.nextIn = n] \in Row
  BY <1>2, <1>3 DEF Row
<1> QED BY <1>1, <1>2, <1>3, <1>4, <1>5, <1>6, <1>7

LEMMA TypeInit == Init => TypeInv
<1> SUFFICES ASSUME Init PROVE TypeInv
  OBVIOUS
<1>1. NoRow \in Row /\ Idle \in Delivery
  BY DEF NoRow, Row, Statuses, Idle, Delivery
<1>2. TypeOK
  BY <1>1 DEF Init, TypeOK, NoClaim
<1>3. FlightOK
  BY DEF Init, FlightOK, Active, Idle
<1> QED BY <1>2, <1>3 DEF TypeInv

(* An operator's statement keeps the types. *)
LEMMA OperatorType ==
    ASSUME TypeInv, NEW m \in Messages,
           Enqueue(m) \/ Requeue(m) \/ Hold(m) \/ Delete(m)
    PROVE  TypeInv'
<1>1. msgs[m] \in Row
  BY DEF TypeInv, TypeOK
<1>2. PICK row \in Row : msgs' = [msgs EXCEPT ![m] = row]
  <2>1. CASE Enqueue(m)
    BY Zenon, <2>1, <1>1, RowOperations DEF Enqueue, Row
  <2>2. CASE Requeue(m)
    <3>1. [Released(msgs[m], "queued") EXCEPT !.nextIn = 0] \in Row
      BY Zenon, <1>1, RowOperations DEF Statuses
    <3> QED BY Zenon, <2>2, <3>1 DEF Requeue, OperatorStatement
  <2>3. CASE Hold(m)
    <3>1. Released(msgs[m], "held") \in Row
      BY Zenon, <1>1, RowOperations DEF Statuses
    <3> QED BY Zenon, <2>3, <3>1 DEF Hold, OperatorStatement
  <2>4. CASE Delete(m)
    <3>1. Released(msgs[m], "gone") \in Row
      BY Zenon, <1>1, RowOperations DEF Statuses
    <3> QED BY Zenon, <2>4, <3>1 DEF Delete, OperatorStatement
  <2> QED BY <2>1, <2>2, <2>3, <2>4
<1>3. UNCHANGED <<mailbox, proc, claiming, flight, copies, faults>>
  BY DEF Enqueue, Requeue, Hold, Delete, OperatorStatement
<1> QED BY <1>2, <1>3 DEF TypeInv, TypeOK, FlightOK, Active

(* The dispatcher's and the process's steps keep the types. *)
LEMMA ReplicaType ==
    ASSUME TypeInv, NEW r \in Replicas,
           \/ Claim(r) \/ ReadBack(r) \/ ReadBackFails(r) \/ Housekeeping(r)
           \/ Start(r) \/ Stop(r) \/ Exit(r) \/ Crash(r)
    PROVE  TypeInv'
<1> USE DEF TypeInv
<1>0. NoClaim \in [msgs : SUBSET Messages, held : Nat] /\ Idle \in Delivery
  BY DEF NoClaim, Idle, Delivery
<1>1. \A m \in Messages : msgs[m] \in Row /\ ReleasedIfExpired(m) \in Row
                           /\ Released(msgs[m], "gone") \in Row
  BY Zenon, RowOperations DEF TypeOK, ReleasedIfExpired, Statuses
<1>2. CASE Claim(r)
  <2>1. PICK S \in SUBSET Messages :
          /\ msgs' = [m \in Messages |-> IF m \in S THEN Leased(msgs[m], r) ELSE msgs[m]]
          /\ claiming' = [claiming EXCEPT ![r] = [msgs |-> S, held |-> 0]]
    BY Zenon, <1>2 DEF Claim
  <2>2. \A m \in Messages : Leased(msgs[m], r) \in Row
    BY Zenon, <1>1, RowOperations DEF Statuses
  <2>3. msgs' \in [Messages -> Row]
    BY <2>1, <2>2, <1>1
  <2>4. claiming' \in [Replicas -> [msgs : SUBSET Messages, held : Nat]]
    BY <2>1 DEF TypeOK
  <2> QED BY <1>2, <2>3, <2>4 DEF Claim, TypeOK, FlightOK, Active
<1>3. CASE ReadBack(r)
  <2>1. PICK load \in [FreeSlots(r) -> StillClaimed(r) \cup {NoMsg}] :
          flight' = [s \in Slots |->
                IF s \in FreeSlots(r) /\ load[s] # NoMsg
                THEN [Idle EXCEPT !.pc = "prepare", !.msg = load[s],
                                  !.attempts = msgs[load[s]].attempts,
                                  !.held = claiming[r].held]
                ELSE flight[s]]
    BY Zenon, <1>3 DEF ReadBack
  <2>2. StillClaimed(r) \subseteq Messages
    BY DEF StillClaimed, TypeOK
  <2>3. ASSUME NEW s \in Slots
        PROVE  flight'[s] \in Delivery /\ (flight'[s].pc # "idle" => flight'[s].msg \in Messages)
    <3>1. CASE s \in FreeSlots(r) /\ load[s] # NoMsg
      <4>1. load[s] \in Messages
        BY Zenon, <3>1, <2>1, <2>2
      <4>2. msgs[load[s]].attempts \in Nat /\ claiming[r].held \in Nat
        BY <4>1 DEF TypeOK, Row
      <4> QED BY Zenon, <3>1, <2>1, <4>1, <4>2 DEF Idle, Delivery
    <3>2. CASE ~(s \in FreeSlots(r) /\ load[s] # NoMsg)
      BY Zenon, <3>2, <2>1 DEF TypeOK, FlightOK, Active
    <3> QED BY <3>1, <3>2
  <2>4. flight' \in [Slots -> Delivery] /\ FlightOK'
    BY Zenon, <2>1, <2>3 DEF FlightOK, Active
  <2> QED BY Zenon, <1>3, <1>0, <2>4 DEF ReadBack, TypeOK
<1>4. CASE ReadBackFails(r)
  BY <1>4, <1>0 DEF ReadBackFails, Fault, TypeOK, FlightOK, Active
<1>5. CASE Housekeeping(r)
  BY <1>5, <1>1 DEF Housekeeping, TypeOK, FlightOK, Active
<1>6. CASE Start(r)
  BY <1>6, <1>1 DEF Start, TypeOK, FlightOK, Active
<1>7. CASE Stop(r)
  BY <1>7, <1>0 DEF Stop, Fault, TypeOK, FlightOK, Active
<1>8. CASE Exit(r)
  BY <1>8 DEF Exit, TypeOK, FlightOK, Active
<1>9. CASE Crash(r)
  <2>1. flight' \in [Slots -> Delivery] /\ FlightOK'
    BY <1>9, <1>0 DEF Crash, TypeOK, FlightOK, Active, Idle
  <2> QED BY <1>9, <1>0, <2>1 DEF Crash, Fault, TypeOK
<1> QED BY <1>2, <1>3, <1>4, <1>5, <1>6, <1>7, <1>8, <1>9

(* e is a later state of the delivery d: it still stands for the same claim. *)
SameClaim(d, e) == e.msg = d.msg /\ e.attempts = d.attempts /\ e.held = d.held

(* A step that moves a goroutine on leaves it in one of its states. *)
LEMMA DeliveryMoves ==
    ASSUME NEW d \in Delivery,
           NEW pc \in {"acquire", "send", "accepted", "record"},
           NEW kind \in {"sent", "transient", "permanent"}
    PROVE  /\ [d EXCEPT !.pc = pc] \in Delivery
           /\ SameClaim(d, [d EXCEPT !.pc = pc])
           /\ [d EXCEPT !.pc = pc, !.outcome = kind] \in Delivery
           /\ SameClaim(d, [d EXCEPT !.pc = pc, !.outcome = kind])
BY Zenon DEF SameClaim, Delivery

(* The verdicts a delivery can write: a status, one attempt more, and for a
   deferred message the time of the retry. *)
Verdict(s, row) ==
    LET old == msgs[flight[s].msg] IN
    \/ flight[s].outcome = "sent" /\ row = Recorded(old, "sent")
    \/ flight[s].outcome \in {"permanent", "transient"} /\ row = Recorded(old, "failed")
    \/ /\ flight[s].outcome = "transient"
       /\ \E requested \in RetryAfters :
          \E next \in NextAttemptAfter(old.age, flight[s].attempts + 1, requested) \ {GiveUp} :
             row = [Recorded(old, "deferred") EXCEPT !.nextIn = next]

(* The three recording actions are one: a verdict under a held lease. *)
LEMMA Recording ==
    ASSUME NEW s \in Slots, MarkSent(s) \/ Fail(s) \/ FailOrDefer(s)
    PROVE  \E row : Verdict(s, row) /\ RecordStatement(s, row)
<1>1. CASE MarkSent(s)
  BY <1>1 DEF MarkSent, Verdict
<1>2. CASE Fail(s)
  BY <1>2 DEF Fail, Verdict
<1>3. CASE FailOrDefer(s)
  <2> DEFINE row == msgs[flight[s].msg]
  <2>1. flight[s].outcome = "transient"
    BY <1>3 DEF FailOrDefer
  <2>2. PICK requested \in RetryAfters :
          \E next \in NextAttemptAfter(row.age, flight[s].attempts + 1, requested) :
             RecordStatement(s, IF next = GiveUp THEN Recorded(row, "failed")
                                ELSE [Recorded(row, "deferred") EXCEPT !.nextIn = next])
    BY <1>3 DEF FailOrDefer
  <2> PICK next \in NextAttemptAfter(row.age, flight[s].attempts + 1, requested) :
             RecordStatement(s, IF next = GiveUp THEN Recorded(row, "failed")
                                ELSE [Recorded(row, "deferred") EXCEPT !.nextIn = next])
    BY <2>2
  <2>3. CASE next = GiveUp
    BY <2>1, <2>3 DEF Verdict
  <2>4. CASE next # GiveUp
    BY <2>1, <2>4 DEF Verdict
  <2> QED BY <2>3, <2>4
<1> QED BY <1>1, <1>2, <1>3

LEMMA VerdictType ==
    ASSUME TypeInv, NEW s \in Slots, Active(s), NEW row, Verdict(s, row)
    PROVE  row \in Row
<1> DEFINE old == msgs[flight[s].msg]
<1>1. old \in Row /\ old.age \in Nat /\ flight[s].attempts + 1 \in Nat
  BY DEF TypeInv, TypeOK, FlightOK, Row, Delivery
<1>2. CASE row = Recorded(old, "sent") \/ row = Recorded(old, "failed")
  BY Zenon, <1>1, <1>2, RowOperations DEF Statuses
<1>3. ASSUME NEW requested \in RetryAfters,
             NEW next \in NextAttemptAfter(old.age, flight[s].attempts + 1, requested) \ {GiveUp},
             row = [Recorded(old, "deferred") EXCEPT !.nextIn = next]
      PROVE  row \in Row
  <2>1. next \in Nat
    BY <1>1, NextAttemptAfterType, Constants
  <2> QED BY Zenon, <1>1, <1>3, <2>1, RowOperations DEF Statuses
<1> QED BY <1>2, <1>3 DEF Verdict

(* Every other step of a delivery leaves the table alone: it advances the
   goroutine, which keeps its message, or ends it. *)
LEMMA Moving ==
    ASSUME TypeInv, NEW s \in Slots,
           \/ Prepare(s) \/ PrepareFails(s) \/ Acquire(s) \/ UpstreamAccepts(s)
           \/ SendSucceeds(s) \/ SendReplyLost(s) \/ SendFails(s)
           \/ LeaseLost(s) \/ RecordFails(s) \/ Abandon(s)
    PROVE  /\ Active(s)
           /\ UNCHANGED <<msgs, mailbox, proc, claiming>>
           /\ \E d \in Delivery :
                /\ flight' = [flight EXCEPT ![s] = d]
                /\ d = Idle \/ SameClaim(flight[s], d)
           /\ copies' \in [Messages -> Nat]
           /\ faults' \in Nat /\ faults' >= faults
<1>1. flight[s] \in Delivery /\ copies \in [Messages -> Nat] /\ faults \in Nat
  BY DEF TypeInv, TypeOK
<1>2. Active(s)
  BY DEF Prepare, PrepareFails, Acquire, UpstreamAccepts, SendSucceeds, SendReplyLost,
         SendFails, LeaseLost, RecordFails, Abandon, Active, At
<1>3. UNCHANGED <<msgs, mailbox, proc, claiming>>
  BY DEF Prepare, PrepareFails, Acquire, UpstreamAccepts, SendSucceeds, SendReplyLost,
         SendFails, LeaseLost, RecordFails, Abandon
<1>4. \E d \in Delivery :
        /\ flight' = [flight EXCEPT ![s] = d]
        /\ d = Idle \/ SameClaim(flight[s], d)
  <2>1. CASE LeaseLost(s) \/ RecordFails(s) \/ Abandon(s)
    BY Zenon, <2>1 DEF LeaseLost, RecordFails, Abandon, Becomes, Idle, Delivery
  <2>2. CASE Acquire(s) \/ UpstreamAccepts(s)
    BY Zenon, <2>2, <1>1, DeliveryMoves DEF Acquire, UpstreamAccepts, Becomes
  <2>3. CASE PrepareFails(s) \/ SendSucceeds(s) \/ SendReplyLost(s)
    BY Zenon, <2>3, <1>1, DeliveryMoves DEF PrepareFails, SendSucceeds, SendReplyLost, Becomes
  <2>4. CASE SendFails(s)
    BY Zenon, <2>4, <1>1, DeliveryMoves DEF SendFails, Becomes
  <2>5. CASE Prepare(s)
    BY Zenon, <2>5, <1>1, DeliveryMoves DEF Prepare, Becomes
  <2> QED BY <2>1, <2>2, <2>3, <2>4, <2>5
<1>5. copies' \in [Messages -> Nat] /\ faults' \in Nat /\ faults' >= faults
  BY <1>1 DEF Prepare, PrepareFails, Acquire, UpstreamAccepts, SendSucceeds,
         SendReplyLost, SendFails, LeaseLost, RecordFails, Abandon, Fault
<1> QED BY Zenon, <1>2, <1>3, <1>4, <1>5

LEMMA DeliverType ==
    ASSUME TypeInv, NEW s \in Slots, Deliver(s)
    PROVE  TypeInv'
<1>0. Idle \in Delivery
  BY DEF Idle, Delivery
<1>1. CASE MarkSent(s) \/ Fail(s) \/ FailOrDefer(s)
  <2>1. PICK row : Verdict(s, row) /\ RecordStatement(s, row)
    BY <1>1, Recording
  <2>2. Active(s)
    BY <2>1 DEF RecordStatement, At, Active
  <2>3. row \in Row
    BY <2>1, <2>2, VerdictType
  <2>4. msgs' \in [Messages -> Row]
    BY Zenon, <2>1, <2>3 DEF RecordStatement, TypeInv, TypeOK
  <2>5. flight' \in [Slots -> Delivery] /\ FlightOK'
    BY <2>1, <1>0 DEF RecordStatement, Becomes, TypeInv, TypeOK, FlightOK, Active, Idle
  <2> QED BY <2>1, <2>4, <2>5 DEF RecordStatement, TypeInv, TypeOK
<1>2. CASE \/ Prepare(s) \/ PrepareFails(s) \/ Acquire(s) \/ UpstreamAccepts(s)
           \/ SendSucceeds(s) \/ SendReplyLost(s) \/ SendFails(s)
           \/ LeaseLost(s) \/ RecordFails(s) \/ Abandon(s)
  <2>1. /\ Active(s)
        /\ UNCHANGED <<msgs, mailbox, proc, claiming>>
        /\ \E d \in Delivery : /\ flight' = [flight EXCEPT ![s] = d]
                               /\ d = Idle \/ SameClaim(flight[s], d)
        /\ copies' \in [Messages -> Nat] /\ faults' \in Nat
    BY <1>2, Moving
  <2>2. flight' \in [Slots -> Delivery] /\ FlightOK'
    BY <2>1 DEF TypeInv, TypeOK, FlightOK, Active, Idle, SameClaim
  <2> QED BY <2>1, <2>2 DEF TypeInv, TypeOK
<1> QED BY <1>1, <1>2 DEF Deliver

(* What a tick does to a row, a delivery and a claim. *)
LEMMA TickEffect ==
    ASSUME TypeInv, Tick
    PROVE  /\ \A m \in Messages :
                msgs'[m] = IF msgs[m].status \in {"absent", "gone"} THEN msgs[m] ELSE Later(msgs[m])
           /\ msgs' \in [Messages -> Row]
           /\ \A s \in Slots :
                /\ flight'[s] \in Delivery
                /\ flight'[s].pc = flight[s].pc
                /\ flight'[s].msg = flight[s].msg
                /\ flight'[s].attempts = flight[s].attempts
                /\ flight'[s].outcome = flight[s].outcome
                /\ Active(s) => flight'[s].held = IF flight[s].held < HoldBound
                                                 THEN flight[s].held + 1 ELSE flight[s].held
           /\ flight' \in [Slots -> Delivery]
           /\ \A r \in Replicas :
                /\ claiming'[r].msgs = claiming[r].msgs
                /\ claiming'[r] \in [msgs : SUBSET Messages, held : Nat]
                /\ claiming[r] # NoClaim =>
                     claiming'[r].held = IF claiming[r].held < HoldBound
                                         THEN claiming[r].held + 1 ELSE claiming[r].held
           /\ claiming' \in [Replicas -> [msgs : SUBSET Messages, held : Nat]]
<1>1. /\ \A m \in Messages : msgs[m] \in Row /\ Later(msgs[m]) \in Row
      /\ \A m \in Messages :
           msgs'[m] = IF msgs[m].status \in {"absent", "gone"} THEN msgs[m] ELSE Later(msgs[m])
      /\ msgs' \in [Messages -> Row]
  <2>1. \A m \in Messages : msgs[m] \in Row
    BY DEF TypeInv, TypeOK
  <2>2. \A m \in Messages : Later(msgs[m]) \in Row
    BY Zenon, <2>1, RowOperations DEF Statuses
  <2> QED BY Zenon, <2>1, <2>2 DEF Tick
<1>2. ASSUME NEW s \in Slots
      PROVE  /\ flight'[s] \in Delivery
             /\ flight'[s].pc = flight[s].pc
             /\ flight'[s].msg = flight[s].msg
             /\ flight'[s].attempts = flight[s].attempts
             /\ flight'[s].outcome = flight[s].outcome
             /\ Active(s) => flight'[s].held = IF flight[s].held < HoldBound
                                              THEN flight[s].held + 1 ELSE flight[s].held
  <2> DEFINE d == flight[s]
             h == IF d.held < HoldBound THEN d.held + 1 ELSE d.held
             n == IF Inside(s) THEN d.sending + 1 ELSE d.sending
  <2>1. d \in Delivery
    BY DEF TypeInv, TypeOK
  <2>2. flight'[s] = IF Active(s) THEN [d EXCEPT !.held = h, !.sending = n] ELSE d
    BY Zenon, <2>1 DEF Tick, Delivery
  <2>3. h \in Nat /\ n \in Nat
    BY <2>1, Constants DEF Delivery
  <2> HIDE DEF d, h, n
  <2>4. CASE Active(s)
    <3>1. flight'[s] = [d EXCEPT !.held = h, !.sending = n]
      BY <2>2, <2>4
    <3>2. /\ flight'[s] \in Delivery /\ flight'[s].pc = d.pc /\ flight'[s].msg = d.msg
          /\ flight'[s].attempts = d.attempts /\ flight'[s].outcome = d.outcome
          /\ flight'[s].held = h
      BY Zenon, <3>1, <2>1, <2>3 DEF Delivery
    <3> QED BY <3>2 DEF d, h
  <2>5. CASE ~Active(s)
    BY <2>1, <2>2, <2>5 DEF d
  <2> QED BY <2>4, <2>5
<1>3. ASSUME NEW r \in Replicas
      PROVE  /\ claiming'[r].msgs = claiming[r].msgs
             /\ claiming'[r] \in [msgs : SUBSET Messages, held : Nat]
             /\ claiming[r] # NoClaim =>
                  claiming'[r].held = IF claiming[r].held < HoldBound
                                      THEN claiming[r].held + 1 ELSE claiming[r].held
  <2> DEFINE c == claiming[r]
  <2>1. c \in [msgs : SUBSET Messages, held : Nat]
    BY DEF TypeInv, TypeOK
  <2>2. claiming'[r] = IF c # NoClaim /\ c.held < HoldBound
                       THEN [c EXCEPT !.held = c.held + 1] ELSE c
    BY Zenon, <2>1 DEF Tick
  <2> HIDE DEF c
  <2>3. /\ claiming'[r].msgs = c.msgs
        /\ claiming'[r] \in [msgs : SUBSET Messages, held : Nat]
        /\ c # NoClaim => claiming'[r].held = IF c.held < HoldBound THEN c.held + 1 ELSE c.held
    BY <2>1, <2>2
  <2> QED BY <2>3 DEF c
<1>4. flight' \in [Slots -> Delivery]
  BY Zenon, <1>2 DEF Tick
<1>5. claiming' \in [Replicas -> [msgs : SUBSET Messages, held : Nat]]
  BY Zenon, <1>3 DEF Tick
<1> QED BY <1>1, <1>2, <1>3, <1>4, <1>5

LEMMA TickType == TypeInv /\ Tick => TypeInv'
<1> SUFFICES ASSUME TypeInv, Tick PROVE TypeInv'
  OBVIOUS
<1>1. FlightOK'
  BY TickEffect DEF FlightOK, Active, TypeInv
<1>2. UNCHANGED <<mailbox, proc, copies, faults>>
  BY Zenon DEF Tick
<1> QED BY <1>1, <1>2, TickEffect DEF TypeInv, TypeOK

LEMMA MailboxType ==
    ASSUME TypeInv, NEW b \in Mailboxes, SetMailbox(b)
    PROVE  TypeInv'
BY DEF SetMailbox, TypeInv, TypeOK, FlightOK, Active

LEMMA StutterType == TypeInv /\ UNCHANGED vars => TypeInv'
BY DEF vars, TypeInv, TypeOK, FlightOK, Active

LEMMA TypeNext == TypeInv /\ [Next]_vars => TypeInv'
<1> SUFFICES ASSUME TypeInv, [Next]_vars PROVE TypeInv'
  OBVIOUS
<1> QED BY OperatorType, MailboxType, ReplicaType, DeliverType, TickType, StutterType DEF Next

(* The tables and goroutines keep their types whatever the replicas, the
   operators, the upstream and the faults do. *)
THEOREM TypeCorrect == Spec => []TypeOK
<1>1. Spec => []TypeInv
  BY TypeInit, TypeNext, PTL DEF Spec
<1>2. TypeInv => TypeOK
  BY DEF TypeInv
<1> QED BY <1>1, <1>2, PTL

-----------------------------------------------------------------------------
(* Leases and verdicts, for every timing *)

(* What the statements do to the columns the invariants look at. *)
LEMMA RowFields ==
    ASSUME NEW row \in Row, NEW status \in Statuses, NEW n \in Nat
    PROVE  /\ Released(row, status).status = status
           /\ Released(row, status).leaseOwner = NoOwner
           /\ [Released(row, status) EXCEPT !.nextIn = n].status = status
           /\ [Released(row, status) EXCEPT !.nextIn = n].leaseOwner = NoOwner
           /\ Recorded(row, status).status = status
           /\ Recorded(row, status).leaseOwner = NoOwner
           /\ Recorded(row, status).attempts = row.attempts + 1
           /\ [Recorded(row, status) EXCEPT !.nextIn = n].status = status
           /\ [Recorded(row, status) EXCEPT !.nextIn = n].leaseOwner = NoOwner
           /\ [Recorded(row, status) EXCEPT !.nextIn = n].attempts = row.attempts + 1
<1>1. /\ Released(row, status).status = status
      /\ Released(row, status).leaseOwner = NoOwner
      /\ Released(row, status).attempts = row.attempts
      /\ Released(row, status) \in Row
  BY Zenon DEF Released, Row, Statuses
<1> DEFINE rel == Released(row, status)
<1>2. /\ Recorded(row, status).status = status
      /\ Recorded(row, status).leaseOwner = NoOwner
      /\ Recorded(row, status).attempts = row.attempts + 1
      /\ Recorded(row, status) \in Row
  <2>1. Recorded(row, status) = [rel EXCEPT !.attempts = rel.attempts + 1]
    BY <1>1 DEF Recorded, Row
  <2> HIDE DEF rel
  <2> QED BY <2>1, <1>1 DEF Row, rel
<1>3. /\ [Released(row, status) EXCEPT !.nextIn = n].status = status
      /\ [Released(row, status) EXCEPT !.nextIn = n].leaseOwner = NoOwner
  BY <1>1 DEF Row
<1>4. /\ [Recorded(row, status) EXCEPT !.nextIn = n].status = status
      /\ [Recorded(row, status) EXCEPT !.nextIn = n].leaseOwner = NoOwner
      /\ [Recorded(row, status) EXCEPT !.nextIn = n].attempts = row.attempts + 1
  BY <1>2 DEF Row
<1> QED BY <1>1, <1>2, <1>3, <1>4

(* How one step can change one row, as the statements' WHERE and SET clauses
   say it: nothing, a submission, an operator's statement on a row that is not
   being sent, a claim, a verdict under a held lease, a release of an expired
   lease, a purge, or the passing of time. *)
RowStep(m) ==
    \/ msgs'[m] = msgs[m]
    \/ msgs[m].status = "absent" /\ msgs'[m] = [NoRow EXCEPT !.status = "queued"]
    \/ /\ msgs[m].status \in {"failed", "deferred", "held"}
       /\ msgs'[m] = [Released(msgs[m], "queued") EXCEPT !.nextIn = 0]
    \/ /\ msgs[m].status \in {"queued", "deferred", "failed"}
       /\ msgs'[m] = Released(msgs[m], "held")
    \/ /\ msgs[m].status \in {"queued", "deferred", "sent", "failed", "held"}
       /\ msgs'[m] = Released(msgs[m], "gone")
    \/ /\ Due(m)
       /\ \E r \in Replicas : msgs'[m] = Leased(msgs[m], r)
    \/ \E s \in Slots :
         /\ Active(s) /\ flight[s].msg = m /\ HoldsLease(s)
         /\ \E row : Verdict(s, row) /\ msgs'[m] = row
    \/ /\ msgs[m].status = "sending" /\ LeaseExpired(m)
       /\ msgs'[m] = Released(msgs[m], "queued")
    \/ msgs[m].status \notin {"absent", "gone"} /\ msgs'[m] = Later(msgs[m])

LEMMA RowSteps ==
    ASSUME TypeInv, Next, NEW m \in Messages
    PROVE  RowStep(m)
<1>0. msgs \in [Messages -> Row]
  BY DEF TypeInv, TypeOK
<1>1. ASSUME NEW k \in Messages, Enqueue(k) \/ Requeue(k) \/ Hold(k) \/ Delete(k)
      PROVE  RowStep(m)
  BY <1>0, <1>1 DEF Enqueue, Requeue, Hold, Delete, OperatorStatement, RowStep
<1>2. ASSUME NEW b \in Mailboxes, SetMailbox(b) PROVE RowStep(m)
  BY <1>2 DEF SetMailbox, RowStep
<1>3. ASSUME NEW r \in Replicas, Claim(r) PROVE RowStep(m)
  BY <1>0, <1>3 DEF Claim, RowStep
<1>4. ASSUME NEW r \in Replicas, Housekeeping(r) \/ Start(r) PROVE RowStep(m)
  BY <1>0, <1>4 DEF Housekeeping, Start, Purgeable, ReleasedIfExpired, RowStep
<1>5. ASSUME NEW r \in Replicas,
             ReadBack(r) \/ ReadBackFails(r) \/ Stop(r) \/ Exit(r) \/ Crash(r)
      PROVE  RowStep(m)
  BY Zenon, <1>5 DEF ReadBack, ReadBackFails, Stop, Exit, Crash, RowStep
<1>6. ASSUME NEW s \in Slots, Deliver(s) PROVE RowStep(m)
  <2>1. CASE MarkSent(s) \/ Fail(s) \/ FailOrDefer(s)
    <3>1. PICK row : Verdict(s, row) /\ RecordStatement(s, row)
      BY <2>1, Recording
    <3>2. Active(s) /\ HoldsLease(s) /\ msgs' = [msgs EXCEPT ![flight[s].msg] = row]
      BY <3>1 DEF RecordStatement, At, Active
    <3>3. CASE flight[s].msg = m
      BY <1>0, <3>1, <3>2, <3>3 DEF RowStep
    <3>4. CASE flight[s].msg # m
      BY <1>0, <3>2, <3>4 DEF RowStep
    <3> QED BY <3>3, <3>4
  <2>2. CASE ~(MarkSent(s) \/ Fail(s) \/ FailOrDefer(s))
    <3>1. UNCHANGED msgs
      BY <1>6, <2>2, Moving DEF Deliver
    <3> QED BY <3>1 DEF RowStep
  <2> QED BY <2>1, <2>2
<1>7. ASSUME Tick PROVE RowStep(m)
  BY <1>7, TickEffect DEF RowStep
<1> QED BY <1>1, <1>2, <1>3, <1>4, <1>5, <1>6, <1>7 DEF Next

(* A verdict ends the lease, counts the attempt, says "sent" only after a
   successful Send, and defers only while an attempt is left. *)
LEMMA VerdictFields ==
    ASSUME TypeInv, NEW s \in Slots, Active(s), NEW row, Verdict(s, row)
    PROVE  /\ row.status \in {"sent", "failed", "deferred"}
           /\ row.leaseOwner = NoOwner
           /\ row.attempts = msgs[flight[s].msg].attempts + 1
           /\ row.status = "sent" <=> flight[s].outcome = "sent"
           /\ row.status = "deferred" /\ MaxAttempts > 0 => flight[s].attempts + 1 < MaxAttempts
<1> DEFINE old == msgs[flight[s].msg]
<1>1. old \in Row /\ old.age \in Nat /\ flight[s].attempts + 1 \in Nat
  BY DEF TypeInv, TypeOK, FlightOK, Row, Delivery
<1>2. CASE flight[s].outcome = "sent" /\ row = Recorded(old, "sent")
  BY <1>1, <1>2, RowFields DEF Statuses
<1>3. CASE flight[s].outcome \in {"permanent", "transient"} /\ row = Recorded(old, "failed")
  BY <1>1, <1>3, RowFields DEF Statuses
<1>4. ASSUME flight[s].outcome = "transient",
             NEW requested \in RetryAfters,
             NEW next \in NextAttemptAfter(old.age, flight[s].attempts + 1, requested) \ {GiveUp},
             row = [Recorded(old, "deferred") EXCEPT !.nextIn = next]
      PROVE  /\ row.status = "deferred"
             /\ row.leaseOwner = NoOwner
             /\ row.attempts = old.attempts + 1
             /\ MaxAttempts > 0 => flight[s].attempts + 1 < MaxAttempts
  <2>1. next \in Nat /\ (MaxAttempts > 0 => flight[s].attempts + 1 < MaxAttempts)
    BY <1>1, RequestedDelayHonoured, Constants
  <2> QED BY <1>1, <1>4, <2>1, RowFields DEF Statuses
<1> QED BY <1>2, <1>3, <1>4 DEF Verdict

LEMMA LeaseRowStep ==
    ASSUME TypeInv, LeaseIffSending, NEW m \in Messages, RowStep(m)
    PROVE  msgs'[m].status = "sending" <=> msgs'[m].leaseOwner # NoOwner
<1> DEFINE row == msgs[m]
<1>1. row \in Row /\ (row.status = "sending" <=> row.leaseOwner # NoOwner)
  BY DEF TypeInv, TypeOK, LeaseIffSending
<1>2. CASE msgs'[m] = row
  BY <1>1, <1>2
<1>3. CASE msgs'[m] = [NoRow EXCEPT !.status = "queued"]
  BY <1>3 DEF NoRow
<1>4. CASE \/ msgs'[m] = [Released(row, "queued") EXCEPT !.nextIn = 0]
           \/ msgs'[m] = Released(row, "held")
           \/ msgs'[m] = Released(row, "gone")
           \/ msgs'[m] = Released(row, "queued")
  <2>1. /\ [Released(row, "queued") EXCEPT !.nextIn = 0].status = "queued"
        /\ [Released(row, "queued") EXCEPT !.nextIn = 0].leaseOwner = NoOwner
        /\ Released(row, "queued").status = "queued" /\ Released(row, "queued").leaseOwner = NoOwner
        /\ Released(row, "held").status = "held" /\ Released(row, "held").leaseOwner = NoOwner
        /\ Released(row, "gone").status = "gone" /\ Released(row, "gone").leaseOwner = NoOwner
    BY <1>1 DEF Released, Row
  <2> QED BY Zenon, <1>4, <2>1
<1>5. ASSUME NEW r \in Replicas, msgs'[m] = Leased(row, r)
      PROVE  msgs'[m].status = "sending" /\ msgs'[m].leaseOwner # NoOwner
  BY <1>1, <1>5, Constants DEF Leased, Row
<1>6. ASSUME NEW s \in Slots, Active(s), NEW v, Verdict(s, v), msgs'[m] = v
      PROVE  msgs'[m].status # "sending" /\ msgs'[m].leaseOwner = NoOwner
  BY <1>6, VerdictFields
<1>7. CASE msgs'[m] = Later(row)
  BY <1>1, <1>7 DEF Later, Row
<1> QED BY <1>2, <1>3, <1>4, <1>5, <1>6, <1>7 DEF RowStep

LEMMA LeaseNext == TypeInv /\ LeaseIffSending /\ [Next]_vars => LeaseIffSending'
<1> SUFFICES ASSUME TypeInv, LeaseIffSending, [Next]_vars PROVE LeaseIffSending'
  OBVIOUS
<1>1. CASE Next
  BY <1>1, RowSteps, LeaseRowStep DEF LeaseIffSending
<1>2. CASE UNCHANGED vars
  BY <1>2 DEF vars, LeaseIffSending
<1> QED BY <1>1, <1>2

(* A row is in "sending" exactly while it carries a lease, whatever the timing:
   late writes of workers that lost their lease included. *)
THEOREM LeaseCorrect == Spec => []LeaseIffSending
<1>1. Init => LeaseIffSending
  BY DEF Init, LeaseIffSending, NoRow
<1>2. Spec => [](TypeInv /\ LeaseIffSending)
  BY <1>1, TypeInit, TypeNext, LeaseNext, PTL DEF Spec
<1> QED BY <1>2, PTL

(* The step that could undo a verdict. *)
LEMMA VerdictStep ==
    ASSUME TypeInv, LeaseIffSending, NEW m \in Messages, RowStep(m)
    PROVE  /\ msgs[m].status = "sent" => msgs'[m].status \in {"sent", "gone"}
           /\ msgs[m].status = "gone" => msgs'[m].status = "gone"
           /\ msgs[m].status = "held" => msgs'[m].status \in {"held", "queued", "gone"}
<1> DEFINE row == msgs[m]
<1>1. row \in Row /\ (row.status = "sending" <=> row.leaseOwner # NoOwner)
  BY DEF TypeInv, TypeOK, LeaseIffSending
<1>2. SUFFICES ASSUME row.status \in {"sent", "gone", "held"}
      PROVE  /\ row.status = "sent" => msgs'[m].status \in {"sent", "gone"}
             /\ row.status = "gone" => msgs'[m].status = "gone"
             /\ row.status = "held" => msgs'[m].status \in {"held", "queued", "gone"}
  BY DEF row
<1>3. row.leaseOwner = NoOwner
  BY <1>1, <1>2
<1>4. ~Due(m) /\ ~LeaseExpired(m)
  BY <1>2, <1>3 DEF Due, LeaseExpired
<1>5. \A s \in Slots : flight[s].msg = m => ~HoldsLease(s)
  BY <1>3, Constants DEF HoldsLease
<1>6. /\ [Released(row, "queued") EXCEPT !.nextIn = 0].status = "queued"
      /\ Released(row, "gone").status = "gone"
      /\ Later(row).status = row.status
  BY <1>1 DEF Released, Later, Row
<1> QED BY Zenon, <1>2, <1>4, <1>5, <1>6 DEF RowStep

(* A sent message stays sent, a removed one removed and a held one held until
   an operator acts: for every timing of every worker. *)
THEOREM VerdictsNeverUndone == Spec => VerdictsStick
<1>1. Init => LeaseIffSending
  BY DEF Init, LeaseIffSending, NoRow
<1>2. TypeInv /\ LeaseIffSending /\ [Next]_vars =>
        [\A m \in Messages :
           /\ msgs[m].status = "sent" => msgs'[m].status \in {"sent", "gone"}
           /\ msgs[m].status = "gone" => msgs'[m].status = "gone"
           /\ msgs[m].status = "held" => msgs'[m].status \in {"held", "queued", "gone"}]_vars
  BY RowSteps, VerdictStep
<1> QED BY <1>1, <1>2, TypeInit, TypeNext, LeaseNext, PTL DEF Spec, VerdictsStick

(* A verdict that defers leaves created_at alone, and its next_attempt_at is
   within the deadline or is the delay the upstream asked for. *)
LEMMA DeferralFields ==
    ASSUME TypeInv, NEW s \in Slots, Active(s), NEW row, Verdict(s, row),
           row.status = "deferred", MaxAge > 0
    PROVE  \/ row.age + row.nextIn <= MaxAge
           \/ row.nextIn \in RetryAfters \ {0}
<1> DEFINE old == msgs[flight[s].msg]
<1>1. old \in Row /\ old.age \in Nat /\ flight[s].attempts + 1 \in Nat
  BY DEF TypeInv, TypeOK, FlightOK, Row, Delivery
<1>2. Recorded(old, "sent").status # "deferred" /\ Recorded(old, "failed").status # "deferred"
  BY <1>1, RowFields DEF Statuses
<1>3. PICK requested \in RetryAfters :
        \E next \in NextAttemptAfter(old.age, flight[s].attempts + 1, requested) \ {GiveUp} :
           row = [Recorded(old, "deferred") EXCEPT !.nextIn = next]
  BY Zenon, <1>2 DEF Verdict
<1>4. PICK next \in NextAttemptAfter(old.age, flight[s].attempts + 1, requested) \ {GiveUp} :
        row = [Recorded(old, "deferred") EXCEPT !.nextIn = next]
  BY <1>3
<1>5. /\ requested \in Nat /\ next \in Nat
      /\ \/ old.age + next <= MaxAge
         \/ next = requested /\ requested > 0
  <2>1. requested \in Nat
    BY <1>3, Constants
  <2>2. next # GiveUp
    BY <1>4
  <2> QED BY <1>1, <1>4, <2>1, <2>2, RequestedDelayHonoured
<1>6. Recorded(old, "deferred") \in Row /\ Recorded(old, "deferred").age = old.age
  <2>1. Released(old, "deferred") \in Row /\ Released(old, "deferred").age = old.age
    BY Zenon, <1>1 DEF Statuses, Released, Row
  <2> QED BY <2>1 DEF Recorded, Row
<1>7. row.nextIn = next /\ row.age = old.age
  BY <1>4, <1>5, <1>6 DEF Row
<1>8. CASE old.age + next <= MaxAge
  BY <1>7, <1>8
<1>9. CASE next = requested /\ requested > 0
  BY <1>3, <1>5, <1>7, <1>9
<1> QED BY <1>5, <1>8, <1>9

(* Only a verdict takes a row from "sending" to "deferred". *)
LEMMA DeferralStep ==
    ASSUME TypeInv, NEW m \in Messages, RowStep(m),
           msgs[m].status = "sending", msgs'[m].status = "deferred"
    PROVE  \E s \in Slots : Active(s) /\ Verdict(s, msgs'[m])
<1> DEFINE row == msgs[m]
<1>1. row \in Row /\ row.status = "sending"
  BY DEF TypeInv, TypeOK
<1>2. /\ Released(row, "queued").status = "queued"
      /\ Later(row).status = "sending"
      /\ \A r \in Replicas : Leased(row, r).status = "sending"
  BY <1>1 DEF Released, Later, Leased, Row
<1> QED BY Zenon, <1>1, <1>2 DEF RowStep

(* For every timing of every worker, also when the count or the age it decided
   on is out of date: a retry after the message's deadline is one the upstream
   asked for. *)
THEOREM RetriesKeepDeadline == Spec => RetryBeforeDeadline
<1>1. TypeInv /\ [Next]_vars =>
        [\A m \in Messages :
           msgs[m].status = "sending" /\ msgs'[m].status = "deferred" /\ MaxAge > 0
               => \/ msgs'[m].age + msgs'[m].nextIn <= MaxAge
                  \/ msgs'[m].nextIn \in RetryAfters \ {0}]_vars
  <2> SUFFICES ASSUME TypeInv, Next, NEW m \in Messages,
                      msgs[m].status = "sending", msgs'[m].status = "deferred", MaxAge > 0
               PROVE  \/ msgs'[m].age + msgs'[m].nextIn <= MaxAge
                      \/ msgs'[m].nextIn \in RetryAfters \ {0}
    OBVIOUS
  <2>1. PICK s \in Slots : Active(s) /\ Verdict(s, msgs'[m])
    BY RowSteps, DeferralStep
  <2> QED BY <2>1, DeferralFields
<1> QED BY <1>1, TypeInit, TypeNext, PTL DEF Spec, RetryBeforeDeadline

-----------------------------------------------------------------------------
(* Exclusive deliveries *)

(* Every delivery, its waits and database round trips included, is over before
   its lease is.  The code checks this of Send alone (validateQueue). *)
Timely == ~Overruns /\ HoldBound <= LeaseDuration

(* A live lease on m of the replica r, held for the time given. *)
Holds(r, m, held) ==
    /\ msgs[m].leaseOwner = r
    /\ msgs[m].leaseLeft = LeaseDuration - held
    /\ held <= HoldBound

(* The inductive invariant: every delivery and every claim on its way to one
   holds a live lease, its age and the lease's rest add up to the lease, the
   row still shows the attempts the delivery read, and no message is in two
   deliveries or in a delivery and a claim. *)
ExclusiveInv ==
    /\ \A s \in Slots : Active(s) =>
         /\ Holds(ReplicaOf[s], flight[s].msg, flight[s].held)
         /\ msgs[flight[s].msg].attempts = flight[s].attempts
         /\ flight[s].msg \notin claiming[ReplicaOf[s]].msgs
    /\ \A s, t \in Slots : Active(s) /\ Active(t) /\ flight[s].msg = flight[t].msg => s = t
    /\ \A r \in Replicas : \A m \in claiming[r].msgs : Holds(r, m, claiming[r].held)

IInv == TypeInv /\ LeaseIffSending /\ ExclusiveInv

(* A held lease is live. *)
LEMMA HeldIsLive ==
    ASSUME TypeInv, Timely, NEW r \in Replicas, NEW m \in Messages, NEW held \in Nat,
           Holds(r, m, held)
    PROVE  msgs[m].leaseOwner # NoOwner /\ msgs[m].leaseLeft >= 0
BY Constants DEF Holds, Timely, TypeInv, TypeOK, Row

(* Nobody but its delivery and the clock touches a row with a live lease. *)
LEMMA LiveRowUntouched ==
    ASSUME TypeInv, LeaseIffSending, NEW m \in Messages,
           msgs[m].leaseOwner # NoOwner, msgs[m].leaseLeft >= 0,
           \/ \E k \in Messages : Enqueue(k) \/ Requeue(k) \/ Hold(k) \/ Delete(k)
           \/ \E b \in Mailboxes : SetMailbox(b)
           \/ \E r \in Replicas :
                 \/ Claim(r) \/ ReadBack(r) \/ ReadBackFails(r) \/ Housekeeping(r)
                 \/ Start(r) \/ Stop(r) \/ Exit(r) \/ Crash(r)
    PROVE  msgs'[m] = msgs[m] /\ ~Due(m)
<1>0. msgs \in [Messages -> Row] /\ msgs[m] \in Row
  BY DEF TypeInv, TypeOK
<1>1. msgs[m].status = "sending" /\ ~LeaseExpired(m)
  BY <1>0 DEF LeaseIffSending, LeaseExpired, Row
<1>2. ~Due(m) /\ ~Purgeable(m)
  BY Zenon, <1>1 DEF Due, Purgeable
<1>3. ASSUME NEW k \in Messages, Enqueue(k) \/ Requeue(k) \/ Hold(k) \/ Delete(k)
      PROVE  msgs'[m] = msgs[m]
  <2>1. msgs[k].status # "sending" /\ \E row : msgs' = [msgs EXCEPT ![k] = row]
    BY <1>3 DEF Enqueue, Requeue, Hold, Delete, OperatorStatement
  <2> QED BY <1>0, <1>1, <2>1
<1>4. ASSUME NEW r \in Replicas, Claim(r) PROVE msgs'[m] = msgs[m]
  BY Zenon, <1>2, <1>4 DEF Claim
<1>5. ASSUME NEW r \in Replicas, Housekeeping(r) \/ Start(r) PROVE msgs'[m] = msgs[m]
  BY Zenon, <1>1, <1>2, <1>5 DEF Housekeeping, Start, ReleasedIfExpired
<1>6. ASSUME NEW r \in Replicas,
             ReadBack(r) \/ ReadBackFails(r) \/ Stop(r) \/ Exit(r) \/ Crash(r)
      PROVE  msgs'[m] = msgs[m]
  BY Zenon, <1>6 DEF ReadBack, ReadBackFails, Stop, Exit, Crash
<1>7. ASSUME NEW b \in Mailboxes, SetMailbox(b) PROVE msgs'[m] = msgs[m]
  BY Zenon, <1>7 DEF SetMailbox
<1> QED BY <1>2, <1>3, <1>4, <1>5, <1>6, <1>7

(* Facts about active deliveries and pending claims, in one place. *)
LEMMA HeldRows ==
    ASSUME IInv, Timely
    PROVE  /\ \A s \in Slots : Active(s) =>
                /\ flight[s].msg \in Messages
                /\ ReplicaOf[s] \in Replicas
                /\ msgs[flight[s].msg].leaseOwner # NoOwner
                /\ msgs[flight[s].msg].leaseLeft >= 0
           /\ \A r \in Replicas : \A m \in claiming[r].msgs :
                /\ m \in Messages
                /\ msgs[m].leaseOwner # NoOwner /\ msgs[m].leaseLeft >= 0
<1>1. ASSUME NEW s \in Slots, Active(s)
      PROVE  /\ flight[s].msg \in Messages /\ ReplicaOf[s] \in Replicas
             /\ msgs[flight[s].msg].leaseOwner # NoOwner /\ msgs[flight[s].msg].leaseLeft >= 0
  <2>1. /\ flight[s].msg \in Messages /\ ReplicaOf[s] \in Replicas
        /\ flight[s].held \in Nat /\ Holds(ReplicaOf[s], flight[s].msg, flight[s].held)
    BY <1>1, Constants DEF IInv, TypeInv, TypeOK, FlightOK, ExclusiveInv, Delivery
  <2> QED BY <2>1, HeldIsLive DEF IInv
<1>2. ASSUME NEW r \in Replicas, NEW m \in claiming[r].msgs
      PROVE  m \in Messages /\ msgs[m].leaseOwner # NoOwner /\ msgs[m].leaseLeft >= 0
  <2>1. m \in Messages /\ claiming[r].held \in Nat /\ Holds(r, m, claiming[r].held)
    BY DEF IInv, TypeInv, TypeOK, ExclusiveInv
  <2> QED BY <2>1, HeldIsLive DEF IInv
<1> QED BY <1>1, <1>2

(* The invariant's conjuncts, for one delivery and for one claimed row. *)
LEMMA DeliveryHolds ==
    ASSUME IInv, NEW s \in Slots, Active(s)
    PROVE  /\ Holds(ReplicaOf[s], flight[s].msg, flight[s].held)
           /\ msgs[flight[s].msg].attempts = flight[s].attempts
           /\ flight[s].msg \notin claiming[ReplicaOf[s]].msgs
BY DEF IInv, ExclusiveInv

LEMMA ClaimHolds ==
    ASSUME IInv, NEW r \in Replicas, NEW m \in claiming[r].msgs
    PROVE  Holds(r, m, claiming[r].held)
BY DEF IInv, ExclusiveInv

LEMMA OneDelivery ==
    ASSUME IInv, NEW s \in Slots, NEW t \in Slots, Active(s), Active(t),
           flight[s].msg = flight[t].msg
    PROVE  s = t
BY DEF IInv, ExclusiveInv

(* Steps that leave claims and deliveries alone. *)
LEMMA ExclusiveOutside ==
    ASSUME IInv, Timely, UNCHANGED <<claiming, flight>>,
           \/ \E k \in Messages : Enqueue(k) \/ Requeue(k) \/ Hold(k) \/ Delete(k)
           \/ \E b \in Mailboxes : SetMailbox(b)
           \/ \E r \in Replicas : Housekeeping(r) \/ Start(r) \/ Exit(r)
    PROVE  ExclusiveInv'
<1>1. /\ \A s \in Slots : Active(s) => msgs'[flight[s].msg] = msgs[flight[s].msg]
      /\ \A r \in Replicas : \A m \in claiming[r].msgs : msgs'[m] = msgs[m]
  BY HeldRows, LiveRowUntouched DEF IInv
<1>2. ASSUME NEW s \in Slots, Active(s)'
      PROVE  /\ Holds(ReplicaOf[s], flight[s].msg, flight[s].held)'
             /\ msgs'[flight'[s].msg].attempts = flight'[s].attempts
             /\ flight'[s].msg \notin claiming'[ReplicaOf[s]].msgs
  <2>1. Active(s)
    BY <1>2 DEF Active
  <2>2. /\ Holds(ReplicaOf[s], flight[s].msg, flight[s].held)
        /\ msgs[flight[s].msg].attempts = flight[s].attempts
        /\ flight[s].msg \notin claiming[ReplicaOf[s]].msgs
    BY <2>1, DeliveryHolds
  <2> QED BY Zenon, <1>1, <2>1, <2>2 DEF Holds
<1>3. ASSUME NEW q \in Replicas, NEW m \in claiming'[q].msgs
      PROVE  Holds(q, m, claiming[q].held)'
  <2>1. Holds(q, m, claiming[q].held)
    BY ClaimHolds
  <2> QED BY <1>1, <2>1 DEF Holds
<1>4. \A s, t \in Slots : Active(s)' /\ Active(t)' /\ flight'[s].msg = flight'[t].msg => s = t
  BY OneDelivery DEF Active
<1> QED BY <1>2, <1>3, <1>4 DEF ExclusiveInv

LEMMA ExclusiveClaim ==
    ASSUME IInv, Timely, NEW r \in Replicas, Claim(r)
    PROVE  ExclusiveInv'
<1>1. /\ \A s \in Slots : Active(s) =>
           msgs'[flight[s].msg] = msgs[flight[s].msg] /\ ~Due(flight[s].msg)
      /\ \A q \in Replicas : \A m \in claiming[q].msgs : msgs'[m] = msgs[m] /\ ~Due(m)
  BY HeldRows, LiveRowUntouched DEF IInv
<1>2. PICK S \in SUBSET {m \in Messages : Due(m)} :
        /\ msgs' = [m \in Messages |-> IF m \in S THEN Leased(msgs[m], r) ELSE msgs[m]]
        /\ claiming' = [claiming EXCEPT ![r] = [msgs |-> S, held |-> 0]]
  BY Zenon DEF Claim
<1>3. flight' = flight /\ claiming[r] = NoClaim
  BY DEF Claim
<1>4. /\ claiming'[r].msgs = S /\ claiming'[r].held = 0
      /\ \A q \in Replicas : q # r => claiming'[q] = claiming[q]
  BY <1>2 DEF IInv, TypeInv, TypeOK
<1>5. ASSUME NEW s \in Slots, Active(s)'
      PROVE  /\ Holds(ReplicaOf[s], flight[s].msg, flight[s].held)'
             /\ msgs'[flight'[s].msg].attempts = flight'[s].attempts
             /\ flight'[s].msg \notin claiming'[ReplicaOf[s]].msgs
  <2>1. Active(s) /\ ReplicaOf[s] \in Replicas
    BY <1>3, <1>5, Constants DEF Active
  <2>2. /\ Holds(ReplicaOf[s], flight[s].msg, flight[s].held)
        /\ msgs[flight[s].msg].attempts = flight[s].attempts
        /\ flight[s].msg \notin claiming[ReplicaOf[s]].msgs
    BY <2>1 DEF IInv, ExclusiveInv
  <2>3. msgs'[flight[s].msg] = msgs[flight[s].msg] /\ flight[s].msg \notin S
    BY Zenon, <1>1, <1>2, <2>1
  <2> QED BY <1>3, <1>4, <2>1, <2>2, <2>3 DEF Holds
<1>6. ASSUME NEW q \in Replicas, NEW m \in claiming'[q].msgs
      PROVE  Holds(q, m, claiming[q].held)'
  <2>1. CASE q = r
    <3>1. m \in Messages /\ msgs'[m] = Leased(msgs[m], r) /\ msgs[m] \in Row
      BY <1>2, <1>4, <2>1 DEF IInv, TypeInv, TypeOK
    <3>2. Leased(msgs[m], r).leaseOwner = r /\ Leased(msgs[m], r).leaseLeft = LeaseDuration
      BY <3>1 DEF Leased, Row
    <3> QED BY <1>4, <2>1, <3>1, <3>2, Constants DEF Holds
  <2>2. CASE q # r
    <3>1. claiming'[q] = claiming[q] /\ m \in claiming[q].msgs
      BY <1>4, <2>2
    <3>2. Holds(q, m, claiming[q].held) /\ msgs'[m] = msgs[m]
      BY <1>1, <3>1, ClaimHolds
    <3> QED BY <3>1, <3>2 DEF Holds
  <2> QED BY <2>1, <2>2
<1>7. \A s, t \in Slots : Active(s)' /\ Active(t)' /\ flight'[s].msg = flight'[t].msg => s = t
  BY <1>3 DEF IInv, ExclusiveInv, Active
<1> QED BY <1>5, <1>6, <1>7 DEF ExclusiveInv

(* The read-back turns a claim into deliveries. *)
LEMMA ExclusiveReadBack ==
    ASSUME IInv, Timely, NEW r \in Replicas, ReadBack(r)
    PROVE  ExclusiveInv'
<1> DEFINE Started(load, s) ==
             [Idle EXCEPT !.pc = "prepare", !.msg = load[s],
                          !.attempts = msgs[load[s]].attempts, !.held = claiming[r].held]
<1>1. PICK load \in [FreeSlots(r) -> StillClaimed(r) \cup {NoMsg}] :
        /\ \A s, t \in FreeSlots(r) : load[s] = load[t] => s = t \/ load[s] = NoMsg
        /\ flight' = [s \in Slots |->
              IF s \in FreeSlots(r) /\ load[s] # NoMsg THEN Started(load, s) ELSE flight[s]]
  BY Zenon DEF ReadBack
<1>2. /\ claiming'[r].msgs = {} /\ msgs' = msgs
      /\ \A q \in Replicas : q # r => claiming'[q] = claiming[q]
  BY Zenon DEF ReadBack, NoClaim, IInv, TypeInv, TypeOK
<1> DEFINE Fresh(s) == s \in FreeSlots(r) /\ load[s] # NoMsg
<1>3. ASSUME NEW s \in Slots, Fresh(s)
      PROVE  /\ ReplicaOf[s] = r /\ ~Active(s)
             /\ load[s] \in claiming[r].msgs
             /\ flight'[s].msg = load[s] /\ flight'[s].held = claiming[r].held
             /\ flight'[s].attempts = msgs[load[s]].attempts
  <2>1. ReplicaOf[s] = r /\ ~Active(s) /\ load[s] \in claiming[r].msgs
    BY Zenon, <1>1, <1>3 DEF FreeSlots, StillClaimed
  <2>2. flight'[s] = Started(load, s)
    BY Zenon, <1>1, <1>3
  <2>3. /\ Started(load, s).msg = load[s] /\ Started(load, s).held = claiming[r].held
        /\ Started(load, s).attempts = msgs[load[s]].attempts
    BY DEF Idle
  <2> QED BY <2>1, <2>2, <2>3
<1>4. ASSUME NEW s \in Slots, ~Fresh(s) PROVE flight'[s] = flight[s]
  BY Zenon, <1>1, <1>4
<1> HIDE DEF Fresh, Started
<1>5. ASSUME NEW s \in Slots, Active(s)'
      PROVE  /\ Holds(ReplicaOf[s], flight[s].msg, flight[s].held)'
             /\ msgs'[flight'[s].msg].attempts = flight'[s].attempts
             /\ flight'[s].msg \notin claiming'[ReplicaOf[s]].msgs
  <2>1. CASE Fresh(s)
    <3>1. /\ ReplicaOf[s] = r /\ load[s] \in claiming[r].msgs
          /\ flight'[s].msg = load[s] /\ flight'[s].held = claiming[r].held
          /\ flight'[s].attempts = msgs[load[s]].attempts
      BY Zenon, <1>3, <2>1
    <3>2. Holds(r, load[s], claiming[r].held)
      BY <3>1, ClaimHolds
    <3> QED BY <1>2, <3>1, <3>2 DEF Holds
  <2>2. CASE ~Fresh(s)
    <3>1. flight'[s] = flight[s] /\ Active(s)
      BY <1>4, <1>5, <2>2 DEF Active
    <3>2. ReplicaOf[s] \in Replicas
      BY Constants
    <3>3. /\ Holds(ReplicaOf[s], flight[s].msg, flight[s].held)
          /\ msgs[flight[s].msg].attempts = flight[s].attempts
          /\ flight[s].msg \notin claiming[ReplicaOf[s]].msgs
      BY <3>1, DeliveryHolds
    <3> QED BY <1>2, <3>1, <3>2, <3>3 DEF Holds
  <2> QED BY <2>1, <2>2
<1>6. ASSUME NEW s \in Slots, NEW t \in Slots, Active(s)', Active(t)',
             flight'[s].msg = flight'[t].msg
      PROVE  s = t
  <2>1. ASSUME NEW u \in Slots, NEW v \in Slots, Fresh(u), ~Fresh(v), Active(v)',
               flight'[u].msg = flight'[v].msg
        PROVE  FALSE
    <3>1. flight'[v] = flight[v] /\ Active(v) /\ flight[v].msg \in claiming[r].msgs
      BY <1>3, <1>4, <2>1 DEF Active
    <3>2. msgs[flight[v].msg].leaseOwner = r /\ msgs[flight[v].msg].leaseOwner = ReplicaOf[v]
      BY <3>1 DEF IInv, ExclusiveInv, Holds
    <3> QED BY Zenon, <3>1, <3>2 DEF IInv, ExclusiveInv
  <2>2. CASE Fresh(s) /\ Fresh(t)
    <3>1. load[s] = load[t] /\ s \in FreeSlots(r) /\ t \in FreeSlots(r) /\ load[s] # NoMsg
      BY Zenon, <1>3, <1>6, <2>2 DEF Fresh
    <3> QED BY <1>1, <3>1
  <2>3. CASE ~Fresh(s) /\ ~Fresh(t)
    BY <1>4, <1>6, <2>3 DEF IInv, ExclusiveInv, Active
  <2> QED BY <1>6, <2>1, <2>2, <2>3
<1>7. ASSUME NEW q \in Replicas, NEW m \in claiming'[q].msgs
      PROVE  Holds(q, m, claiming[q].held)'
  <2>1. q # r /\ claiming'[q] = claiming[q] /\ m \in claiming[q].msgs /\ msgs' = msgs
    BY <1>2
  <2>2. Holds(q, m, claiming[q].held)
    BY <2>1, ClaimHolds
  <2> QED BY <2>1, <2>2 DEF Holds
<1> QED BY <1>5, <1>6, <1>7 DEF ExclusiveInv

(* A claim that is dropped leaves its rows leased and nobody working on them. *)
LEMMA ExclusiveDropped ==
    ASSUME IInv, NEW r \in Replicas, ReadBackFails(r) \/ Stop(r) \/ Crash(r)
    PROVE  ExclusiveInv'
<1>1. /\ claiming'[r].msgs = {} /\ msgs' = msgs
      /\ \A q \in Replicas : q # r => claiming'[q] = claiming[q]
  BY DEF ReadBackFails, Stop, Crash, NoClaim, IInv, TypeInv, TypeOK
<1>2. \A s \in Slots : Active(s)' => flight'[s] = flight[s] /\ Active(s)
  BY DEF ReadBackFails, Stop, Crash, Active, Idle
<1>3. \A s \in Slots : ReplicaOf[s] \in Replicas
  BY Constants
<1>4. ASSUME NEW s \in Slots, Active(s)'
      PROVE  /\ Holds(ReplicaOf[s], flight[s].msg, flight[s].held)'
             /\ msgs'[flight'[s].msg].attempts = flight'[s].attempts
             /\ flight'[s].msg \notin claiming'[ReplicaOf[s]].msgs
  <2>1. flight'[s] = flight[s] /\ Active(s) /\ ReplicaOf[s] \in Replicas
    BY <1>2, <1>3, <1>4
  <2>2. /\ Holds(ReplicaOf[s], flight[s].msg, flight[s].held)
        /\ msgs[flight[s].msg].attempts = flight[s].attempts
        /\ flight[s].msg \notin claiming[ReplicaOf[s]].msgs
    BY <2>1, DeliveryHolds
  <2> QED BY Zenon, <1>1, <2>1, <2>2 DEF Holds
<1>5. \A s, t \in Slots : Active(s)' /\ Active(t)' /\ flight'[s].msg = flight'[t].msg => s = t
  BY <1>2 DEF IInv, ExclusiveInv
<1>6. ASSUME NEW q \in Replicas, NEW m \in claiming'[q].msgs
      PROVE  Holds(q, m, claiming[q].held)'
  <2>1. q # r /\ claiming'[q] = claiming[q] /\ m \in claiming[q].msgs /\ msgs' = msgs
    BY <1>1
  <2>2. Holds(q, m, claiming[q].held)
    BY <2>1, ClaimHolds
  <2> QED BY <2>1, <2>2 DEF Holds
<1> QED BY <1>4, <1>5, <1>6 DEF ExclusiveInv

LEMMA ExclusiveDeliver ==
    ASSUME IInv, Timely, NEW s \in Slots, Deliver(s)
    PROVE  ExclusiveInv'
<1>1. CASE MarkSent(s) \/ Fail(s) \/ FailOrDefer(s)
  <2>1. PICK row : RecordStatement(s, row)
    BY <1>1, Recording
  <2> DEFINE m == flight[s].msg
  <2>2. /\ Active(s) /\ msgs' = [msgs EXCEPT ![m] = row] /\ claiming' = claiming
        /\ flight' = [flight EXCEPT ![s] = Idle]
    BY <2>1 DEF RecordStatement, Becomes, At, Active
  <2>3. /\ flight'[s] = Idle /\ \A t \in Slots : t # s => flight'[t] = flight[t]
        /\ \A k \in Messages : k # m => msgs'[k] = msgs[k]
    BY <2>2 DEF IInv, TypeInv, TypeOK
  <2>4. \A t \in Slots : Active(t)' =>
          /\ flight'[t] = flight[t] /\ Active(t)
          /\ flight[t].msg \in Messages /\ msgs'[flight[t].msg] = msgs[flight[t].msg]
    <3> SUFFICES ASSUME NEW t \in Slots, Active(t)'
                 PROVE  /\ flight'[t] = flight[t] /\ Active(t)
                        /\ flight[t].msg \in Messages /\ msgs'[flight[t].msg] = msgs[flight[t].msg]
      OBVIOUS
    <3>1. t # s
      BY <2>3 DEF Active, Idle
    <3>2. flight'[t] = flight[t] /\ Active(t)
      BY <2>3, <3>1 DEF Active
    <3>3. flight[t].msg \in Messages /\ flight[t].msg # m
      BY Zenon, <2>2, <3>1, <3>2 DEF IInv, TypeInv, FlightOK, ExclusiveInv
    <3> QED BY <2>3, <3>2, <3>3
  <2>5. ASSUME NEW q \in Replicas, NEW k \in claiming[q].msgs
        PROVE  msgs'[k] = msgs[k]
    <3>1. k \in Messages /\ msgs[k].leaseOwner = q
      BY ClaimHolds DEF IInv, TypeInv, TypeOK, Holds
    <3>2. msgs[m].leaseOwner = ReplicaOf[s] /\ m \notin claiming[ReplicaOf[s]].msgs
      BY <2>2, DeliveryHolds DEF Holds
    <3>3. k # m
      BY <3>1, <3>2
    <3> QED BY <2>3, <3>1, <3>3
  <2>6. ASSUME NEW t \in Slots, Active(t)'
        PROVE  /\ Holds(ReplicaOf[t], flight[t].msg, flight[t].held)'
               /\ msgs'[flight'[t].msg].attempts = flight'[t].attempts
               /\ flight'[t].msg \notin claiming'[ReplicaOf[t]].msgs
    <3>1. /\ flight'[t] = flight[t] /\ Active(t) /\ claiming' = claiming
          /\ msgs'[flight[t].msg] = msgs[flight[t].msg]
      BY <2>2, <2>4, <2>6
    <3>2. /\ Holds(ReplicaOf[t], flight[t].msg, flight[t].held)
          /\ msgs[flight[t].msg].attempts = flight[t].attempts
          /\ flight[t].msg \notin claiming[ReplicaOf[t]].msgs
      BY <3>1, DeliveryHolds
    <3> QED BY Zenon, <3>1, <3>2 DEF Holds
  <2>7. \A t, u \in Slots : Active(t)' /\ Active(u)' /\ flight'[t].msg = flight'[u].msg => t = u
    BY <2>4 DEF IInv, ExclusiveInv
  <2>8. ASSUME NEW q \in Replicas, NEW k \in claiming'[q].msgs
        PROVE  Holds(q, k, claiming[q].held)'
    <3>1. claiming' = claiming /\ k \in claiming[q].msgs /\ msgs'[k] = msgs[k]
      BY <2>2, <2>5
    <3>2. Holds(q, k, claiming[q].held)
      BY <3>1, ClaimHolds
    <3> QED BY <3>1, <3>2 DEF Holds
  <2> QED BY <2>6, <2>7, <2>8 DEF ExclusiveInv
<1>2. CASE ~(MarkSent(s) \/ Fail(s) \/ FailOrDefer(s))
  <2>1. PICK d \in Delivery :
          /\ Active(s)
          /\ UNCHANGED <<msgs, mailbox, proc, claiming>>
          /\ flight' = [flight EXCEPT ![s] = d]
          /\ d = Idle \/ SameClaim(flight[s], d)
    BY <1>2, Moving DEF Deliver, IInv
  <2>2. \A t \in Slots : Active(t)' => Active(t) /\ SameClaim(flight[t], flight'[t])
    BY SMTT(20), <2>1 DEF IInv, TypeInv, TypeOK, Active, Idle, SameClaim
  <2>3. \A t \in Slots : Active(t)' =>
          /\ Holds(ReplicaOf[t], flight[t].msg, flight[t].held)'
          /\ msgs'[flight'[t].msg].attempts = flight'[t].attempts
          /\ flight'[t].msg \notin claiming'[ReplicaOf[t]].msgs
    <3> SUFFICES ASSUME NEW t \in Slots, Active(t)'
                 PROVE  /\ Holds(ReplicaOf[t], flight[t].msg, flight[t].held)'
                        /\ msgs'[flight'[t].msg].attempts = flight'[t].attempts
                        /\ flight'[t].msg \notin claiming'[ReplicaOf[t]].msgs
      BY Zenon
    <3>1. /\ Holds(ReplicaOf[t], flight[t].msg, flight[t].held)
          /\ msgs[flight[t].msg].attempts = flight[t].attempts
          /\ flight[t].msg \notin claiming[ReplicaOf[t]].msgs
      BY Zenon, <2>2 DEF IInv, ExclusiveInv
    <3>2. /\ flight'[t].msg = flight[t].msg /\ flight'[t].held = flight[t].held
          /\ flight'[t].attempts = flight[t].attempts
      BY <2>2 DEF SameClaim
    <3>3. msgs' = msgs /\ claiming' = claiming
      BY <2>1
    <3> QED BY Zenon, <3>1, <3>2, <3>3 DEF Holds
  <2>4. \A t, u \in Slots : Active(t)' /\ Active(u)' /\ flight'[t].msg = flight'[u].msg => t = u
    BY <2>2 DEF IInv, ExclusiveInv, SameClaim
  <2>5. \A q \in Replicas : \A k \in claiming'[q].msgs : Holds(q, k, claiming[q].held)'
    BY Zenon, <2>1 DEF IInv, ExclusiveInv, Holds
  <2> QED BY <2>3, <2>4, <2>5 DEF ExclusiveInv
<1> QED BY <1>1, <1>2

(* Time takes from the lease what it adds to the delivery. *)
LEMMA ExclusiveTick ==
    ASSUME IInv, Timely, Tick
    PROVE  ExclusiveInv'
<1>1. ASSUME NEW r \in Replicas, NEW m \in Messages, NEW held \in Nat,
             Holds(r, m, held), held < HoldBound
      PROVE  /\ msgs'[m].leaseOwner = r
             /\ msgs'[m].leaseLeft = LeaseDuration - (held + 1)
             /\ held + 1 <= HoldBound
             /\ msgs'[m].attempts = msgs[m].attempts
  <2>1. msgs[m] \in Row /\ msgs[m].leaseOwner # NoOwner /\ msgs[m].leaseLeft >= 0
    BY <1>1, HeldIsLive DEF IInv, TypeInv, TypeOK
  <2>2. msgs[m].status = "sending"
    BY <2>1 DEF IInv, LeaseIffSending
  <2>3. msgs'[m] = Later(msgs[m])
    BY <2>2, TickEffect DEF IInv
  <2>4. /\ Later(msgs[m]).leaseOwner = msgs[m].leaseOwner
        /\ Later(msgs[m]).attempts = msgs[m].attempts
        /\ Later(msgs[m]).leaseLeft = msgs[m].leaseLeft - 1
    BY <2>1 DEF Later, Row
  <2> QED BY <1>1, <2>3, <2>4, Constants DEF Holds
<1>2. /\ \A s \in Slots : Active(s) => flight[s].held < HoldBound
      /\ \A r \in Replicas : claiming[r] # NoClaim => claiming[r].held < HoldBound
  BY Zenon DEF Tick, Timely
<1>3. \A s \in Slots :
        /\ Active(s)' <=> Active(s)
        /\ flight'[s].msg = flight[s].msg /\ flight'[s].attempts = flight[s].attempts
        /\ Active(s) => flight'[s].held = flight[s].held + 1
  BY <1>2, TickEffect DEF IInv, Active
<1>4. ASSUME NEW s \in Slots, Active(s)'
      PROVE  /\ Holds(ReplicaOf[s], flight[s].msg, flight[s].held)'
             /\ msgs'[flight'[s].msg].attempts = flight'[s].attempts
             /\ flight'[s].msg \notin claiming'[ReplicaOf[s]].msgs
  <2>1. Active(s) /\ flight[s].msg \in Messages /\ flight[s].held \in Nat
        /\ ReplicaOf[s] \in Replicas /\ flight[s].held < HoldBound
    BY Zenon, <1>2, <1>3, <1>4, Constants DEF IInv, TypeInv, TypeOK, FlightOK, Delivery
  <2>2. /\ Holds(ReplicaOf[s], flight[s].msg, flight[s].held)
        /\ msgs[flight[s].msg].attempts = flight[s].attempts
        /\ flight[s].msg \notin claiming[ReplicaOf[s]].msgs
    BY <2>1 DEF IInv, ExclusiveInv
  <2>3. flight'[s].msg \notin claiming'[ReplicaOf[s]].msgs
    BY Zenon, <1>3, <2>1, <2>2, TickEffect DEF IInv
  <2>4. /\ msgs'[flight[s].msg].leaseOwner = ReplicaOf[s]
        /\ msgs'[flight[s].msg].leaseLeft = LeaseDuration - (flight[s].held + 1)
        /\ flight[s].held + 1 <= HoldBound
        /\ msgs'[flight[s].msg].attempts = msgs[flight[s].msg].attempts
    BY Zenon, <1>1, <2>1, <2>2
  <2>5. /\ flight'[s].msg = flight[s].msg /\ flight'[s].attempts = flight[s].attempts
        /\ flight'[s].held = flight[s].held + 1
    BY <1>3, <2>1
  <2> QED BY <2>2, <2>3, <2>4, <2>5 DEF Holds
<1>5. ASSUME NEW r \in Replicas, NEW m \in claiming'[r].msgs
      PROVE  Holds(r, m, claiming[r].held)'
  <2>1. m \in claiming[r].msgs /\ m \in Messages /\ claiming[r].held \in Nat
    BY TickEffect DEF IInv, TypeInv, TypeOK
  <2>2. claiming[r] # NoClaim
    BY <2>1 DEF NoClaim
  <2>3. claiming'[r].held = claiming[r].held + 1 /\ claiming[r].held < HoldBound
    BY <1>2, <2>2, TickEffect DEF IInv
  <2>4. Holds(r, m, claiming[r].held)
    BY Zenon, <2>1 DEF IInv, ExclusiveInv
  <2>5. /\ msgs'[m].leaseOwner = r
        /\ msgs'[m].leaseLeft = LeaseDuration - (claiming[r].held + 1)
        /\ claiming[r].held + 1 <= HoldBound
    BY <1>1, <2>1, <2>3, <2>4
  <2> QED BY <2>3, <2>5 DEF Holds
<1>6. \A s, t \in Slots : Active(s)' /\ Active(t)' /\ flight'[s].msg = flight'[t].msg => s = t
  BY <1>3 DEF IInv, ExclusiveInv
<1> QED BY <1>4, <1>5, <1>6 DEF ExclusiveInv

LEMMA ExclusiveNext == Timely /\ IInv /\ [Next]_vars => IInv'
<1> SUFFICES ASSUME Timely, IInv, [Next]_vars PROVE IInv'
  OBVIOUS
<1>1. TypeInv' /\ LeaseIffSending'
  BY TypeNext, LeaseNext DEF IInv
<1>2. CASE \/ \E k \in Messages : Enqueue(k) \/ Requeue(k) \/ Hold(k) \/ Delete(k)
           \/ \E b \in Mailboxes : SetMailbox(b)
           \/ \E r \in Replicas : Housekeeping(r) \/ Start(r) \/ Exit(r)
  <2>1. UNCHANGED <<claiming, flight>>
    BY <1>2 DEF Enqueue, Requeue, Hold, Delete, OperatorStatement, SetMailbox,
                Housekeeping, Start, Exit
  <2> QED BY <1>1, <1>2, <2>1, ExclusiveOutside DEF IInv
<1>3. ASSUME NEW r \in Replicas, Claim(r) \/ ReadBack(r) PROVE IInv'
  BY <1>1, <1>3, ExclusiveClaim, ExclusiveReadBack DEF IInv
<1>4. ASSUME NEW r \in Replicas, ReadBackFails(r) \/ Stop(r) \/ Crash(r) PROVE IInv'
  BY <1>1, <1>4, ExclusiveDropped DEF IInv
<1>5. ASSUME NEW s \in Slots, Deliver(s) PROVE IInv'
  BY <1>1, <1>5, ExclusiveDeliver DEF IInv
<1>6. CASE Tick
  BY <1>1, <1>6, ExclusiveTick DEF IInv
<1>7. CASE UNCHANGED vars
  BY Zenon, <1>1, <1>7 DEF vars, IInv, ExclusiveInv, Holds, Active
<1> QED BY <1>2, <1>3, <1>4, <1>5, <1>6, <1>7 DEF Next

LEMMA ExclusiveAlways == Timely => (Spec => []IInv)
<1>1. Init => IInv
  <2>1. Init => ExclusiveInv
    BY DEF Init, ExclusiveInv, Active, Idle, NoClaim
  <2>2. Init => LeaseIffSending
    BY DEF Init, LeaseIffSending, NoRow
  <2> QED BY <2>1, <2>2, TypeInit DEF IInv
<1> SUFFICES ASSUME Timely PROVE Spec => []IInv
  OBVIOUS
<1>2. IInv /\ [Next]_vars => IInv'
  BY ExclusiveNext
<1> QED BY <1>1, <1>2, PTL DEF Spec

(* If every delivery ends before its lease does, no message is ever in two
   deliveries, and every delivery holds a live lease: what ClaimMessages
   promises of two workers, for any number of them. *)
THEOREM ExclusiveCorrect == Timely => (Spec => []DeliveriesExclusive)
<1> SUFFICES ASSUME Timely PROVE Spec => []DeliveriesExclusive
  OBVIOUS
<1>1. IInv => DeliveriesExclusive
  <2> SUFFICES ASSUME IInv PROVE DeliveriesExclusive
    BY SMTT(20)
  <2>1. \A s \in Slots : Active(s) => HoldsLease(s)
    BY Zenon DEF IInv, ExclusiveInv, Holds, HoldsLease
  <2> QED BY Zenon, <2>1, HeldRows DEF DeliveriesExclusive, IInv, ExclusiveInv
<1> QED BY <1>1, ExclusiveAlways, PTL

-----------------------------------------------------------------------------
(* Attempts *)

LEMMA AttemptsRowStep ==
    ASSUME IInv, DeferredHasAttemptsLeft, NEW m \in Messages, RowStep(m)
    PROVE  msgs'[m].status = "deferred" /\ MaxAttempts > 0 => msgs'[m].attempts < MaxAttempts
<1> DEFINE row == msgs[m]
<1> USE DEF IInv
<1>1. row \in Row /\ (row.status = "deferred" /\ MaxAttempts > 0 => row.attempts < MaxAttempts)
  BY DEF TypeInv, TypeOK, DeferredHasAttemptsLeft
<1>2. CASE msgs'[m] = row
  BY <1>1, <1>2
<1>3. CASE msgs'[m] = [NoRow EXCEPT !.status = "queued"]
  BY <1>3 DEF NoRow
<1>4. CASE \/ msgs'[m] = [Released(row, "queued") EXCEPT !.nextIn = 0]
           \/ msgs'[m] = Released(row, "held")
           \/ msgs'[m] = Released(row, "gone")
           \/ msgs'[m] = Released(row, "queued")
  <2>1. /\ [Released(row, "queued") EXCEPT !.nextIn = 0].status = "queued"
        /\ Released(row, "queued").status = "queued"
        /\ Released(row, "held").status = "held"
        /\ Released(row, "gone").status = "gone"
    BY <1>1 DEF Released, Row
  <2> QED BY Zenon, <1>4, <2>1
<1>5. ASSUME NEW r \in Replicas, msgs'[m] = Leased(row, r)
      PROVE  msgs'[m].status = "sending"
  BY <1>1, <1>5 DEF Leased, Row
<1>6. ASSUME NEW s \in Slots, Active(s), flight[s].msg = m,
             NEW v, Verdict(s, v), msgs'[m] = v
      PROVE  msgs'[m].status = "deferred" /\ MaxAttempts > 0 => msgs'[m].attempts < MaxAttempts
  <2>1. row.attempts = flight[s].attempts
    BY Zenon, <1>6 DEF ExclusiveInv
  <2> QED BY Zenon, <1>6, <2>1, VerdictFields
<1>7. CASE msgs'[m] = Later(row)
  BY <1>1, <1>7 DEF Later, Row
<1> QED BY <1>2, <1>3, <1>4, <1>5, <1>6, <1>7 DEF RowStep

(* If deliveries end in time, no message waits for a retry it must not make:
   the count the decision was taken on is still the row's. *)
THEOREM AttemptsCorrect == Timely => (Spec => []DeferredHasAttemptsLeft)
<1> SUFFICES ASSUME Timely PROVE Spec => []DeferredHasAttemptsLeft
  OBVIOUS
<1>1. Init => DeferredHasAttemptsLeft
  BY DEF Init, DeferredHasAttemptsLeft, NoRow
<1>2. IInv /\ DeferredHasAttemptsLeft /\ [Next]_vars => DeferredHasAttemptsLeft'
  <2> SUFFICES ASSUME IInv, DeferredHasAttemptsLeft, [Next]_vars
               PROVE  DeferredHasAttemptsLeft'
    OBVIOUS
  <2>1. CASE Next
    BY <2>1, RowSteps, AttemptsRowStep DEF DeferredHasAttemptsLeft, IInv
  <2>2. CASE UNCHANGED vars
    BY <2>2 DEF vars, DeferredHasAttemptsLeft
  <2> QED BY <2>1, <2>2
<1> QED BY <1>1, <1>2, ExclusiveAlways, PTL DEF Spec

-----------------------------------------------------------------------------
(* What the upstream sees *)

(* The delivery in slot s knows that the upstream has taken its message. *)
Took(s) == Active(s) /\ (flight[s].pc = "accepted" \/ flight[s].outcome = "sent")

-----------------------------------------------------------------------------
(* Sent messages were accepted *)

AcceptedInv ==
    /\ \A s \in Slots : Took(s) => copies[flight[s].msg] > 0
    /\ SentWasAccepted

(* Copies are never taken back. *)
LEMMA CopiesGrow ==
    ASSUME TypeInv, [Next]_vars
    PROVE  \A m \in Messages : copies'[m] \in Nat /\ copies'[m] >= copies[m]
<1>0. copies \in [Messages -> Nat]
  BY DEF TypeInv, TypeOK
<1>1. ASSUME NEW s \in Slots, Deliver(s)
      PROVE  copies' = copies \/ copies' = [copies EXCEPT ![flight[s].msg] = @ + 1]
  BY Zenon, <1>1 DEF Deliver, Prepare, PrepareFails, Acquire, UpstreamAccepts, SendSucceeds,
              SendReplyLost, SendFails, MarkSent, Fail, FailOrDefer, RecordStatement,
              LeaseLost, RecordFails, Abandon
<1>2. ASSUME NEW m \in Messages, Enqueue(m) \/ Requeue(m) \/ Hold(m) \/ Delete(m)
      PROVE  copies' = copies
  BY <1>2 DEF Enqueue, Requeue, Hold, Delete, OperatorStatement
<1>3. ASSUME NEW r \in Replicas,
             \/ Claim(r) \/ ReadBack(r) \/ ReadBackFails(r) \/ Housekeeping(r)
             \/ Start(r) \/ Stop(r) \/ Exit(r) \/ Crash(r)
      PROVE  copies' = copies
  BY Zenon, <1>3 DEF Claim, ReadBack, ReadBackFails, Housekeeping, Start, Stop, Exit, Crash
<1>4. ASSUME Tick \/ (\E b \in Mailboxes : SetMailbox(b)) \/ UNCHANGED vars
      PROVE  copies' = copies
  BY Zenon, <1>4 DEF Tick, SetMailbox, vars
<1> QED BY <1>0, <1>1, <1>2, <1>3, <1>4 DEF Next

(* A delivery comes to know of an acceptance only by witnessing it. *)
LEMMA TookSteps ==
    ASSUME TypeInv, [Next]_vars, NEW s \in Slots, Took(s)'
    PROVE  \/ Took(s) /\ flight'[s].msg = flight[s].msg
           \/ UpstreamAccepts(s)
<1>0. flight \in [Slots -> Delivery] /\ flight[s] \in Delivery
  BY DEF TypeInv, TypeOK
<1>1. ASSUME UNCHANGED flight PROVE Took(s) /\ flight'[s].msg = flight[s].msg
  BY <1>1 DEF Took, Active
<1>2. ASSUME NEW r \in Replicas, ReadBack(r)
      PROVE  Took(s) /\ flight'[s].msg = flight[s].msg
  <2>1. \/ flight'[s] = flight[s]
        \/ flight'[s].pc = "prepare" /\ flight'[s].outcome = "none"
    <3>1. PICK load \in [FreeSlots(r) -> StillClaimed(r) \cup {NoMsg}] :
            flight' = [t \in Slots |->
                IF t \in FreeSlots(r) /\ load[t] # NoMsg
                THEN [Idle EXCEPT !.pc = "prepare", !.msg = load[t],
                                  !.attempts = msgs[load[t]].attempts,
                                  !.held = claiming[r].held]
                ELSE flight[t]]
      BY Zenon, <1>2 DEF ReadBack
    <3> QED BY Zenon, <3>1 DEF Idle
  <2> QED BY <2>1 DEF Took, Active
<1>3. ASSUME NEW r \in Replicas, Crash(r)
      PROVE  Took(s) /\ flight'[s].msg = flight[s].msg
  BY Zenon, <1>3 DEF Crash, Took, Active, Idle
<1>4. ASSUME NEW r \in Replicas,
             \/ Claim(r) \/ ReadBackFails(r) \/ Housekeeping(r) \/ Start(r) \/ Stop(r) \/ Exit(r)
      PROVE  UNCHANGED flight
  BY <1>4 DEF Claim, ReadBackFails, Housekeeping, Start, Stop, Exit
<1>5. ASSUME NEW m \in Messages, Enqueue(m) \/ Requeue(m) \/ Hold(m) \/ Delete(m)
      PROVE  UNCHANGED flight
  BY <1>5 DEF Enqueue, Requeue, Hold, Delete, OperatorStatement
<1>6. ASSUME (\E b \in Mailboxes : SetMailbox(b)) \/ UNCHANGED vars
      PROVE  UNCHANGED flight
  BY <1>6 DEF SetMailbox, vars
<1>7. ASSUME Tick PROVE Took(s) /\ flight'[s].msg = flight[s].msg
  BY Zenon, <1>7, TickEffect DEF Took, Active
<1>8. ASSUME NEW t \in Slots, Deliver(t), t # s
      PROVE  flight'[s] = flight[s]
  BY Zenon, <1>0, <1>8 DEF Deliver, Prepare, PrepareFails, Acquire, UpstreamAccepts, SendSucceeds,
              SendReplyLost, SendFails, MarkSent, Fail, FailOrDefer, RecordStatement,
              LeaseLost, RecordFails, Abandon, Becomes
<1>9. ASSUME Deliver(s), ~UpstreamAccepts(s)
      PROVE  Took(s) /\ flight'[s].msg = flight[s].msg
  <2> DEFINE d == flight[s]
  <2>1. CASE \/ MarkSent(s) \/ Fail(s) \/ FailOrDefer(s)
             \/ LeaseLost(s) \/ RecordFails(s) \/ Abandon(s)
    <3>1. flight'[s] = Idle
      BY Zenon, <1>0, <2>1 DEF MarkSent, Fail, FailOrDefer, RecordStatement,
                        LeaseLost, RecordFails, Abandon, Becomes
    <3>2. Idle.pc = "idle"
      BY Zenon DEF Idle
    <3>3. ~Took(s)'
      BY Zenon, <3>1, <3>2 DEF Took, Active
    <3> QED BY Zenon, <1>0, <3>3
  <2>2. CASE Acquire(s)
    <3>1. flight'[s] = [d EXCEPT !.pc = "send"] /\ Active(s)
      BY <1>0, <2>2 DEF Acquire, Becomes, Active, At
    <3>2. flight'[s].pc = "send" /\ flight'[s].outcome = d.outcome /\ flight'[s].msg = d.msg
      BY <1>0, <3>1 DEF Delivery
    <3> QED BY <3>1, <3>2 DEF Took
  <2>3. CASE Prepare(s) \/ PrepareFails(s)
    <3>1. /\ Active(s)
          /\ \/ flight'[s] = [d EXCEPT !.pc = "acquire"]
             \/ flight'[s] = [d EXCEPT !.pc = "record", !.outcome = "permanent"]
      BY <1>0, <2>3 DEF Prepare, PrepareFails, Becomes, Active, At
    <3>2. /\ [d EXCEPT !.pc = "acquire"].pc = "acquire"
          /\ [d EXCEPT !.pc = "acquire"].outcome = d.outcome
          /\ [d EXCEPT !.pc = "acquire"].msg = d.msg
          /\ [d EXCEPT !.pc = "record", !.outcome = "permanent"].pc = "record"
          /\ [d EXCEPT !.pc = "record", !.outcome = "permanent"].outcome = "permanent"
      BY <1>0 DEF Delivery
    <3> QED BY Zenon, <3>1, <3>2 DEF Took
  <2>4. CASE SendSucceeds(s)
    <3>1. flight'[s] = [d EXCEPT !.pc = "record", !.outcome = "sent"] /\ Took(s)
      BY <1>0, <2>4 DEF SendSucceeds, Becomes, Took, Active, At
    <3>2. [d EXCEPT !.pc = "record", !.outcome = "sent"].msg = d.msg
      BY <1>0 DEF Delivery
    <3> QED BY <3>1, <3>2
  <2>5. CASE SendReplyLost(s) \/ SendFails(s)
    <3>1. PICK kind \in {"transient", "permanent"} :
            flight'[s] = [d EXCEPT !.pc = "record", !.outcome = kind]
      BY <1>0, <2>5 DEF SendReplyLost, SendFails, Becomes
    <3>2. /\ [d EXCEPT !.pc = "record", !.outcome = kind].pc = "record"
          /\ [d EXCEPT !.pc = "record", !.outcome = kind].outcome = kind
      BY <1>0 DEF Delivery
    <3> QED BY <3>1, <3>2 DEF Took
  <2> QED BY Zenon, <1>9, <2>1, <2>2, <2>3, <2>4, <2>5 DEF Deliver
<1>10. ASSUME NEW t \in Slots, Deliver(t), t # s
       PROVE  Took(s) /\ flight'[s].msg = flight[s].msg
  BY <1>10, <1>8 DEF Took, Active
<1> QED BY <1>1, <1>2, <1>3, <1>4, <1>5, <1>6, <1>7, <1>9, <1>10 DEF Next

(* A row becomes "sent" only through a delivery that saw the acceptance. *)
LEMMA SentRowStep ==
    ASSUME TypeInv, AcceptedInv, NEW m \in Messages, RowStep(m), msgs'[m].status = "sent"
    PROVE  copies[m] > 0
<1> DEFINE row == msgs[m]
<1>1. row \in Row
  BY DEF TypeInv, TypeOK
<1>2. SUFFICES ASSUME row.status # "sent" PROVE copies[m] > 0
  BY DEF AcceptedInv, SentWasAccepted
<1>3. /\ msgs'[m] # row
      /\ msgs'[m] # [NoRow EXCEPT !.status = "queued"]
  BY <1>2 DEF NoRow
<1>4. /\ [Released(row, "queued") EXCEPT !.nextIn = 0].status = "queued"
      /\ Released(row, "queued").status = "queued"
      /\ Released(row, "held").status = "held"
      /\ Released(row, "gone").status = "gone"
      /\ \A r \in Replicas : Leased(row, r).status = "sending"
  BY <1>1 DEF Released, Leased, Row
<1>5. Later(row).status = row.status
  BY <1>1 DEF Later, Row
<1>6. PICK s \in Slots : Active(s) /\ flight[s].msg = m /\ Verdict(s, msgs'[m])
  BY Zenon, <1>2, <1>3, <1>4, <1>5 DEF RowStep
<1>7. flight[s].outcome = "sent"
  BY <1>6, VerdictFields
<1> QED BY Zenon, <1>6, <1>7 DEF AcceptedInv, Took

LEMMA AcceptedNext == TypeInv /\ AcceptedInv /\ [Next]_vars => AcceptedInv'
<1> SUFFICES ASSUME TypeInv, AcceptedInv, [Next]_vars PROVE AcceptedInv'
  OBVIOUS
<1>0. copies \in [Messages -> Nat]
  BY DEF TypeInv, TypeOK
<1>1. ASSUME NEW s \in Slots, Took(s)' PROVE copies'[flight'[s].msg] > 0
  <2>1. CASE Took(s) /\ flight'[s].msg = flight[s].msg
    <3>1. flight[s].msg \in Messages /\ copies[flight[s].msg] > 0
      BY Zenon, <2>1 DEF Took, TypeInv, FlightOK, AcceptedInv
    <3> QED BY <1>0, <2>1, <3>1, CopiesGrow
  <2>2. CASE UpstreamAccepts(s)
    <3>1. flight[s].msg \in Messages /\ flight[s] \in Delivery
      BY <2>2 DEF UpstreamAccepts, At, Active, TypeInv, TypeOK, FlightOK
    <3>2. flight'[s] = [flight[s] EXCEPT !.pc = "accepted"]
      BY <2>2 DEF UpstreamAccepts, Becomes, TypeInv, TypeOK
    <3>3. flight'[s].msg = flight[s].msg
      BY <3>1, <3>2 DEF Delivery
    <3>4. copies'[flight[s].msg] = copies[flight[s].msg] + 1
      BY <1>0, <2>2, <3>1 DEF UpstreamAccepts
    <3> QED BY <1>0, <3>1, <3>3, <3>4
  <2> QED BY Zenon, <1>1, <2>1, <2>2, TookSteps
<1>2. ASSUME NEW m \in Messages, msgs'[m].status = "sent" PROVE copies'[m] > 0
  <2>1. CASE Next
    <3>1. copies[m] > 0
      BY Zenon, <1>2, <2>1, RowSteps, SentRowStep
    <3> QED BY <1>0, <3>1, CopiesGrow
  <2>2. CASE UNCHANGED vars
    BY <1>2, <2>2 DEF vars, AcceptedInv, SentWasAccepted
  <2> QED BY <2>1, <2>2
<1> QED BY Zenon, <1>1, <1>2 DEF AcceptedInv, SentWasAccepted

LEMMA AcceptedAlways == Spec => [](TypeInv /\ AcceptedInv)
<1>1. Init => AcceptedInv
  BY DEF Init, AcceptedInv, Took, Active, Idle, SentWasAccepted, NoRow
<1> QED BY <1>1, AcceptedNext, TypeInit, TypeNext, PTL DEF Spec

(* A message recorded as sent was accepted by the upstream, whatever the
   timing: no stale or repeated write makes it so. *)
THEOREM SentCorrect == Spec => []SentWasAccepted
<1>1. AcceptedInv => SentWasAccepted
  BY DEF AcceptedInv
<1> QED BY <1>1, AcceptedAlways, PTL

-----------------------------------------------------------------------------
(* The queue implements MessageLifecycle *)

stages == [m \in Messages |-> Stage(m)]

(* What one step of the table may look like from outside, row by row. *)
LEMMA StageSteps ==
    ASSUME IInv, AcceptedInv, NEW m \in Messages, RowStep(m)
    PROVE  \/ Stage(m)' = Stage(m)
           \/ Stage(m) = "absent" /\ Stage(m)' = "pending"
           \/ Stage(m) = "pending" /\ Stage(m)' = "sent" /\ copies[m] > 0
           \/ Stage(m) = "pending" /\ Stage(m)' = "failed"
           \/ Stage(m) \in {"pending", "failed"} /\ Stage(m)' = "held"
           \/ Stage(m) \in {"failed", "held"} /\ Stage(m)' = "pending"
           \/ Stage(m) \notin {"absent", "gone"} /\ Stage(m)' = "gone"
<1> DEFINE row == msgs[m]
<1> USE DEF IInv
<1>1. row \in Row /\ row.status \in Statuses
  BY DEF TypeInv, TypeOK, Row
<1>2. CASE msgs'[m] = row
  BY Zenon, <1>2 DEF Stage, Pending
<1>3. CASE row.status = "absent" /\ msgs'[m] = [NoRow EXCEPT !.status = "queued"]
  BY <1>3 DEF NoRow, Stage, Pending
<1>4. /\ [Released(row, "queued") EXCEPT !.nextIn = 0].status = "queued"
      /\ Released(row, "queued").status = "queued"
      /\ Released(row, "held").status = "held"
      /\ Released(row, "gone").status = "gone"
      /\ \A r \in Replicas : Leased(row, r).status = "sending"
      /\ Later(row).status = row.status
  BY <1>1 DEF Released, Leased, Later, Row
<1>5. CASE /\ row.status \in {"failed", "deferred", "held"}
           /\ msgs'[m] = [Released(row, "queued") EXCEPT !.nextIn = 0]
  BY <1>4, <1>5 DEF Stage, Pending
<1>6. CASE row.status \in {"queued", "deferred", "failed"} /\ msgs'[m] = Released(row, "held")
  BY <1>4, <1>6 DEF Stage, Pending
<1>7. CASE /\ row.status \in {"queued", "deferred", "sent", "failed", "held"}
           /\ msgs'[m] = Released(row, "gone")
  BY <1>4, <1>7 DEF Stage, Pending
<1>8. CASE Due(m) /\ \E r \in Replicas : msgs'[m] = Leased(row, r)
  BY <1>4, <1>8 DEF Due, Stage, Pending
<1>9. ASSUME NEW s \in Slots, Active(s), flight[s].msg = m, HoldsLease(s),
             Verdict(s, msgs'[m])
      PROVE  /\ Stage(m) = "pending"
             /\ \/ Stage(m)' = "pending" \/ Stage(m)' = "failed"
                \/ Stage(m)' = "sent" /\ copies[m] > 0
  <2>1. row.status = "sending"
    BY <1>9, Constants DEF HoldsLease, LeaseIffSending
  <2>2. /\ msgs'[m].status \in {"sent", "failed", "deferred"}
        /\ msgs'[m].status = "sent" <=> flight[s].outcome = "sent"
    BY Zenon, <1>9, VerdictFields
  <2>3. msgs'[m].status = "sent" => copies[m] > 0
    BY <1>9, <2>2 DEF AcceptedInv, Took
  <2> QED BY Zenon, <2>1, <2>2, <2>3 DEF Stage, Pending
<1>10. CASE row.status = "sending" /\ msgs'[m] = Released(row, "queued")
  BY <1>4, <1>10 DEF Stage, Pending
<1>11. CASE msgs'[m] = Later(row)
  BY <1>4, <1>11 DEF Stage, Pending
<1> QED BY <1>2, <1>3, <1>5, <1>6, <1>7, <1>8, <1>9, <1>10, <1>11 DEF RowStep

(* A change of one row's stage is a step of the lifecycle. *)
LEMMA OneStage ==
    ASSUME IInv, AcceptedInv, NEW m \in Messages, RowStep(m), UNCHANGED copies,
           \A k \in Messages \ {m} : msgs'[k] = msgs[k]
    PROVE  [Lifecycle!Next]_(Lifecycle!vars)
<1> DEFINE to == Stage(m)'
<1>1. stages' = [stages EXCEPT ![m] = to]
  BY Zenon DEF stages, Stage, Pending
<1>2. stages[m] = Stage(m)
  BY DEF stages
<1>3. CASE to = Stage(m)
  <2>1. stages' = stages
    BY Zenon, <1>1, <1>2, <1>3 DEF stages
  <2> QED BY Zenon, <2>1 DEF stages, Lifecycle!vars
<1>4. CASE Stage(m) = "absent" /\ to = "pending"
  <2>1. Lifecycle!Accept(m)
    BY Zenon, <1>1, <1>2, <1>4 DEF stages, Lifecycle!Accept, Lifecycle!Move
  <2> QED BY Zenon, <2>1 DEF Lifecycle!Next
<1>5. CASE Stage(m) = "pending" /\ to = "sent" /\ copies[m] > 0
  <2>1. Lifecycle!Confirm(m)
    BY <1>1, <1>2, <1>5 DEF stages, Lifecycle!Confirm, Lifecycle!Move
  <2> QED BY Zenon, <2>1 DEF Lifecycle!Next
<1>6. CASE Stage(m) = "pending" /\ to = "failed"
  <2>1. Lifecycle!GiveUp(m)
    BY <1>1, <1>2, <1>6 DEF stages, Lifecycle!GiveUp, Lifecycle!Move
  <2> QED BY <2>1 DEF Lifecycle!Next
<1>7. CASE Stage(m) \in {"pending", "failed"} /\ to = "held"
  <2>1. Lifecycle!Hold(m)
    BY <1>1, <1>2, <1>7 DEF stages, Lifecycle!Hold, Lifecycle!Move
  <2> QED BY <2>1 DEF Lifecycle!Next
<1>8. CASE Stage(m) \in {"failed", "held"} /\ to = "pending"
  <2>1. Lifecycle!Retry(m)
    BY <1>1, <1>2, <1>8 DEF stages, Lifecycle!Retry, Lifecycle!Move
  <2> QED BY <2>1 DEF Lifecycle!Next
<1>9. CASE Stage(m) \notin {"absent", "gone"} /\ to = "gone"
  <2>1. Lifecycle!Discard
    <3>1. stages' = [k \in Messages |-> IF k \in {m} THEN "gone" ELSE stages[k]]
      BY Zenon, <1>1, <1>9 DEF stages
    <3>2. {m} \in SUBSET {k \in Messages : stages[k] \notin {"absent", "gone"}}
      BY <1>2, <1>9
    <3> QED BY Zenon, <3>1, <3>2 DEF stages, Lifecycle!Discard
  <2> QED BY <2>1 DEF Lifecycle!Next
<1> QED BY <1>3, <1>4, <1>5, <1>6, <1>7, <1>8, <1>9, StageSteps

(* A step that changes no row's stage and no copy is invisible from outside. *)
LEMMA Invisible ==
    ASSUME UNCHANGED copies, \A m \in Messages : Stage(m)' = Stage(m)
    PROVE  [Lifecycle!Next]_(Lifecycle!vars)
<1>1. stages' = stages
  BY DEF stages
<1> QED BY <1>1 DEF stages, Lifecycle!vars

(* The steps on many rows at once: claims and housekeeping. *)
LEMMA BatchStage ==
    ASSUME IInv, NEW r \in Replicas, Claim(r) \/ Housekeeping(r) \/ Start(r)
    PROVE  [Lifecycle!Next]_(Lifecycle!vars)
<1> USE DEF IInv
<1>0. UNCHANGED copies /\ \A m \in Messages : msgs[m] \in Row
  BY DEF Claim, Housekeeping, Start, TypeInv, TypeOK
<1>1. \A m \in Messages :
        /\ Released(msgs[m], "queued").status = "queued"
        /\ Released(msgs[m], "gone").status = "gone"
        /\ Leased(msgs[m], r).status = "sending"
  <2>1. ASSUME NEW row \in Row
        PROVE  /\ Released(row, "queued").status = "queued"
               /\ Released(row, "gone").status = "gone"
               /\ Leased(row, r).status = "sending"
    BY DEF Released, Leased, Row
  <2> QED BY <1>0, <2>1
<1>2. ASSUME NEW m \in Messages, msgs'[m] = ReleasedIfExpired(m)
      PROVE  Stage(m)' = Stage(m)
  BY Zenon, <1>1, <1>2 DEF ReleasedIfExpired, Stage, Pending
<1>3. CASE Claim(r)
  <2>1. \A m \in Messages : msgs'[m] = msgs[m] \/ (Due(m) /\ msgs'[m] = Leased(msgs[m], r))
    BY <1>3 DEF Claim
  <2>2. \A m \in Messages : Stage(m)' = Stage(m)
    BY Zenon, <1>1, <2>1 DEF Due, Stage, Pending
  <2> QED BY <1>0, <2>2, Invisible
<1>4. CASE Start(r)
  BY <1>0, <1>2, <1>4, Invisible DEF Start
<1>5. CASE Housekeeping(r)
  <2> DEFINE purged == {m \in Messages : Purgeable(m)}
  <2>1. \A m \in Messages : Stage(m)' = IF m \in purged THEN "gone" ELSE Stage(m)
    <3> SUFFICES ASSUME NEW m \in Messages
                 PROVE  Stage(m)' = IF m \in purged THEN "gone" ELSE Stage(m)
      OBVIOUS
    <3>1. CASE m \in purged
      BY Zenon, <1>1, <1>5, <3>1 DEF Housekeeping, Stage, Pending
    <3>2. CASE m \notin purged
      BY <1>2, <1>5, <3>2 DEF Housekeeping
    <3> QED BY <3>1, <3>2
  <2>2. stages' = [m \in Messages |-> IF m \in purged THEN "gone" ELSE stages[m]]
    BY <2>1 DEF stages
  <2>3. purged \in SUBSET {m \in Messages : stages[m] \notin {"absent", "gone"}}
    BY DEF stages, Stage, Pending, Purgeable
  <2>4. Lifecycle!Discard
    BY Zenon, <1>0, <2>2, <2>3 DEF stages, Lifecycle!Discard
  <2> QED BY <2>4 DEF Lifecycle!Next
<1> QED BY <1>3, <1>4, <1>5

LEMMA RefineStep ==
    ASSUME Timely, IInv, AcceptedInv, [Next]_vars
    PROVE  [Lifecycle!Next]_(Lifecycle!vars)
<1> USE DEF IInv
<1>0. msgs \in [Messages -> Row]
  BY DEF TypeInv, TypeOK
<1>1. ASSUME NEW m \in Messages, Enqueue(m) \/ Requeue(m) \/ Hold(m) \/ Delete(m)
      PROVE  [Lifecycle!Next]_(Lifecycle!vars)
  <2>1. RowStep(m)
    BY <1>1, RowSteps DEF Next
  <2>2. UNCHANGED copies /\ \E row : msgs' = [msgs EXCEPT ![m] = row]
    BY <1>1 DEF Enqueue, Requeue, Hold, Delete, OperatorStatement
  <2>3. \A k \in Messages \ {m} : msgs'[k] = msgs[k]
    BY <1>0, <2>2
  <2> QED BY <2>1, <2>2, <2>3, OneStage
<1>2. ASSUME NEW s \in Slots, MarkSent(s) \/ Fail(s) \/ FailOrDefer(s)
      PROVE  [Lifecycle!Next]_(Lifecycle!vars)
  <2>1. PICK row : RecordStatement(s, row)
    BY <1>2, Recording
  <2>2. flight[s].msg \in Messages
    BY Zenon, <2>1 DEF RecordStatement, At, Active, TypeInv, FlightOK
  <2>3. RowStep(flight[s].msg)
    BY <1>2, <2>2, RowSteps DEF Next, Deliver
  <2>4. UNCHANGED copies /\ \A k \in Messages \ {flight[s].msg} : msgs'[k] = msgs[k]
    BY <1>0, <2>1 DEF RecordStatement
  <2> QED BY <2>2, <2>3, <2>4, OneStage
<1>3. ASSUME NEW s \in Slots, UpstreamAccepts(s)
      PROVE  [Lifecycle!Next]_(Lifecycle!vars)
  <2> DEFINE m == flight[s].msg
  <2>1. Active(s) /\ m \in Messages
    BY <1>3 DEF UpstreamAccepts, At, Active, TypeInv, FlightOK
  <2>2. msgs[m].status = "sending"
    BY <2>1, HeldRows DEF LeaseIffSending
  <2>3. stages[m] = "pending" /\ stages' = stages
    BY <1>3, <2>1, <2>2 DEF stages, Stage, Pending, UpstreamAccepts
  <2>4. Lifecycle!Transmit(m)
    BY <1>3, <2>3 DEF stages, Lifecycle!Transmit, UpstreamAccepts
  <2> QED BY <2>1, <2>4 DEF Lifecycle!Next
<1>4. ASSUME NEW r \in Replicas, Claim(r) \/ Housekeeping(r) \/ Start(r)
      PROVE  [Lifecycle!Next]_(Lifecycle!vars)
  BY <1>4, BatchStage
<1>5. ASSUME UNCHANGED <<msgs, copies>> PROVE [Lifecycle!Next]_(Lifecycle!vars)
  BY <1>5, Invisible DEF Stage, Pending
<1>6. ASSUME NEW r \in Replicas,
             ReadBack(r) \/ ReadBackFails(r) \/ Stop(r) \/ Exit(r) \/ Crash(r)
      PROVE  UNCHANGED <<msgs, copies>>
  BY Zenon, <1>6 DEF ReadBack, ReadBackFails, Stop, Exit, Crash
<1>7. ASSUME NEW s \in Slots,
             \/ Prepare(s) \/ PrepareFails(s) \/ Acquire(s) \/ SendSucceeds(s)
             \/ SendReplyLost(s) \/ SendFails(s) \/ LeaseLost(s) \/ RecordFails(s) \/ Abandon(s)
      PROVE  UNCHANGED <<msgs, copies>>
  BY <1>7 DEF Prepare, PrepareFails, Acquire, SendSucceeds, SendReplyLost, SendFails,
              LeaseLost, RecordFails, Abandon
<1>8. ASSUME (\E b \in Mailboxes : SetMailbox(b)) \/ UNCHANGED vars
      PROVE  UNCHANGED <<msgs, copies>>
  BY <1>8 DEF SetMailbox, vars
<1>9. ASSUME Tick PROVE [Lifecycle!Next]_(Lifecycle!vars)
  <2>1. \A m \in Messages : msgs'[m].status = msgs[m].status
    <3>1. ASSUME NEW row \in Row PROVE Later(row).status = row.status
      BY DEF Later, Row
    <3> QED BY Zenon, <1>0, <1>9, <3>1, TickEffect
  <2> QED BY Zenon, <1>9, <2>1, Invisible DEF Tick, Stage, Pending
<1> QED BY <1>1, <1>2, <1>3, <1>4, <1>5, <1>6, <1>7, <1>8, <1>9 DEF Next, Deliver

(* If deliveries end in time, the queue implements MessageLifecycle: leases,
   retries, crashes and operators change a message's outside state only as
   promised, and copies leave only while it is pending. *)
THEOREM Refinement == Timely => (Spec => ImplementsLifecycle)
<1> SUFFICES ASSUME Timely PROVE Spec => ImplementsLifecycle
  OBVIOUS
<1>1. Init => Lifecycle!Init
  BY DEF Init, Lifecycle!Init, Stage, Pending, NoRow
<1>2. IInv /\ AcceptedInv /\ [Next]_vars => [Lifecycle!Next]_(Lifecycle!vars)
  BY RefineStep
<1> QED BY <1>1, <1>2, ExclusiveAlways, AcceptedAlways, PTL
        DEF Spec, ImplementsLifecycle, Lifecycle!Spec

-----------------------------------------------------------------------------
(* Duplicates *)

Stopping(s) == proc[ReplicaOf[s]] = "stopping"

(* The inductive invariant.  A message the upstream has taken more often than
   faults happened is settled, or in a delivery that knows of the last copy.
   A delivery of a process that is shutting down may end without a trace, so
   the shutdown, itself a fault, must already pay for the copy it can make. *)
DuplicatesInv ==
    /\ DuplicatesNeedFaults
    /\ \A m \in Messages :
         \/ copies[m] <= faults
         \/ msgs[m].status \in {"sent", "gone"}
         \/ \E s \in Slots : Took(s) /\ flight[s].msg = m
    /\ \A s \in Slots : Active(s) /\ Stopping(s) =>
         IF Took(s) THEN copies[flight[s].msg] <= faults
                    ELSE copies[flight[s].msg] < faults
    /\ \A s \in Slots : Active(s) /\ flight[s].outcome = "sent" => flight[s].pc = "record"

(* What an active delivery knows about its message. *)
LEMMA DeliveryAccount ==
    ASSUME Timely, IInv, DuplicatesInv, NEW s \in Slots, Active(s)
    PROVE  /\ flight[s].msg \in Messages /\ copies[flight[s].msg] \in Nat /\ faults \in Nat
           /\ flight[s] \in Delivery
           /\ HoldsLease(s)
           /\ copies[flight[s].msg] <= 1 + faults
           /\ Took(s) \/ copies[flight[s].msg] <= faults
<1>1. /\ flight[s].msg \in Messages /\ copies[flight[s].msg] \in Nat /\ faults \in Nat
      /\ flight[s] \in Delivery
  BY DEF IInv, TypeInv, TypeOK, FlightOK
<1>2. HoldsLease(s) /\ msgs[flight[s].msg].status = "sending"
  BY Zenon, <1>1, HeldRows DEF IInv, LeaseIffSending, ExclusiveInv, Holds, HoldsLease
<1>3. \A t \in Slots : Took(t) /\ flight[t].msg = flight[s].msg => t = s
  BY Zenon DEF IInv, ExclusiveInv, Took
<1> QED BY Zenon, <1>1, <1>2, <1>3 DEF DuplicatesInv, DuplicatesNeedFaults

(* Faults are only ever counted up. *)
LEMMA FaultsAllow ==
    \A c, f, g \in Nat :
        /\ g >= f /\ c <= f => c <= g
        /\ g >= f /\ c < f => c < g
        /\ g >= f /\ c <= 1 + f => c <= 1 + g
        /\ g = f + 1 /\ c <= f => c < g
        /\ g = f + 1 /\ c <= 1 + f => c <= g
OBVIOUS

(* A step of one delivery concerns its own message only. *)
LEMMA DuplicatesLocal ==
    ASSUME Timely, IInv, DuplicatesInv, NEW s \in Slots, Active(s),
           UNCHANGED proc, faults' \in Nat, faults' >= faults,
           \A t \in Slots : t # s => flight'[t] = flight[t],
           \A k \in Messages : k # flight[s].msg =>
               copies'[k] = copies[k] /\ msgs'[k].status = msgs[k].status,
           copies'[flight[s].msg] <= 1 + faults',
           \/ copies'[flight[s].msg] <= faults'
           \/ msgs'[flight[s].msg].status \in {"sent", "gone"}
           \/ Took(s)' /\ flight'[s].msg = flight[s].msg,
           Active(s)' =>
              /\ flight'[s].msg = flight[s].msg
              /\ flight'[s].outcome = "sent" => flight'[s].pc = "record"
              /\ Stopping(s) => IF Took(s)' THEN copies'[flight[s].msg] <= faults'
                                ELSE copies'[flight[s].msg] < faults'
    PROVE  DuplicatesInv'
<1> DEFINE m == flight[s].msg
<1>0. /\ \A k \in Messages : copies[k] \in Nat
      /\ faults \in Nat /\ m \in Messages
  BY Zenon DEF IInv, TypeInv, TypeOK, FlightOK
<1>1. \A t \in Slots : t # s /\ Active(t) =>
        flight[t].msg \in Messages /\ flight[t].msg # m
  BY Zenon DEF IInv, TypeInv, FlightOK, ExclusiveInv
<1>2. \A t \in Slots : t # s => (Took(t)' <=> Took(t)) /\ (Active(t)' <=> Active(t))
  BY Zenon DEF Took, Active
<1>3. ASSUME NEW k \in Messages PROVE copies'[k] <= 1 + faults'
  <2>1. copies[k] \in Nat /\ copies[k] <= 1 + faults
    BY Zenon, <1>0 DEF DuplicatesInv, DuplicatesNeedFaults
  <2>2. k = m \/ copies'[k] = copies[k]
    BY Zenon
  <2> QED BY Zenon, <1>0, <2>1, <2>2, FaultsAllow
<1>4. ASSUME NEW k \in Messages
      PROVE  \/ copies'[k] <= faults'
             \/ msgs'[k].status \in {"sent", "gone"}
             \/ \E t \in Slots : Took(t)' /\ flight'[t].msg = k
  <2>1. CASE k = m
    BY Zenon, <2>1
  <2>2. CASE k # m
    <3>1. CASE copies[k] <= faults
      <4>1. copies'[k] = copies[k]
        BY Zenon, <2>2
      <4> QED BY Zenon, <1>0, <3>1, <4>1, FaultsAllow
    <3>2. CASE msgs[k].status \in {"sent", "gone"}
      BY Zenon, <2>2, <3>2
    <3>3. ASSUME NEW t \in Slots, Took(t), flight[t].msg = k
          PROVE  Took(t)' /\ flight'[t].msg = k
      BY Zenon, <1>2, <2>2, <3>3
    <3> QED BY Zenon, <3>1, <3>2, <3>3 DEF DuplicatesInv
  <2> QED BY Zenon, <2>1, <2>2
<1>5. ASSUME NEW t \in Slots, Active(t)'
      PROVE  /\ Stopping(t)' => IF Took(t)' THEN copies'[flight'[t].msg] <= faults'
                                ELSE copies'[flight'[t].msg] < faults'
             /\ flight'[t].outcome = "sent" => flight'[t].pc = "record"
  <2>1. CASE t = s
    BY Zenon, <1>5, <2>1 DEF Stopping
  <2>2. CASE t # s
    <3>1. /\ flight'[t] = flight[t] /\ Active(t) /\ (Took(t)' <=> Took(t))
          /\ flight[t].msg \in Messages
          /\ copies'[flight[t].msg] = copies[flight[t].msg]
      BY Zenon, <1>1, <1>2, <1>5, <2>2
    <3>2. flight'[t].outcome = "sent" => flight'[t].pc = "record"
      BY Zenon, <3>1 DEF DuplicatesInv
    <3>3. Stopping(t) => IF Took(t) THEN copies[flight[t].msg] <= faults
                         ELSE copies[flight[t].msg] < faults
      BY Zenon, <3>1 DEF DuplicatesInv
    <3>4. Stopping(t)' => Stopping(t)
      BY Zenon, <3>1 DEF Stopping
    <3>5. PICK k \in Messages : k = flight[t].msg
      BY Zenon, <3>1
    <3>6. copies'[k] = copies[k] /\ copies[k] \in Nat /\ flight'[t].msg = k
      BY Zenon, <1>0, <3>1, <3>5
    <3>7. Stopping(t)' => IF Took(t)' THEN copies[k] <= faults' ELSE copies[k] < faults'
      BY Zenon, <1>0, <3>1, <3>3, <3>4, <3>5, <3>6, FaultsAllow
    <3> QED BY Zenon, <3>2, <3>6, <3>7
  <2> QED BY Zenon, <2>1, <2>2
<1> QED BY Zenon, <1>3, <1>4, <1>5 DEF DuplicatesInv, DuplicatesNeedFaults

LEMMA DuplicatesDeliver ==
    ASSUME Timely, IInv, DuplicatesInv, NEW s \in Slots, Deliver(s)
    PROVE  DuplicatesInv'
<1> DEFINE d == flight[s]
           m == flight[s].msg
<1>0. Active(s)
  BY Zenon DEF Deliver, Prepare, PrepareFails, Acquire, UpstreamAccepts, SendSucceeds,
         SendReplyLost, SendFails, MarkSent, Fail, FailOrDefer, RecordStatement,
         LeaseLost, RecordFails, Abandon, Active, At
<1>1. /\ m \in Messages /\ copies[m] \in Nat /\ faults \in Nat /\ d \in Delivery
      /\ HoldsLease(s) /\ copies[m] <= 1 + faults
      /\ Took(s) \/ copies[m] <= faults
  BY Zenon, <1>0, DeliveryAccount
<1>2. /\ Stopping(s) => IF Took(s) THEN copies[m] <= faults ELSE copies[m] < faults
      /\ d.outcome = "sent" => d.pc = "record"
  BY Zenon, <1>0 DEF DuplicatesInv
<1>3. /\ flight \in [Slots -> Delivery] /\ msgs \in [Messages -> Row]
      /\ copies \in [Messages -> Nat]
  BY DEF IInv, TypeInv, TypeOK
<1>4. ASSUME NEW kind \in {"transient", "permanent"},
             NEW pc \in {"acquire", "send", "accepted"}
      PROVE  /\ [d EXCEPT !.pc = "record", !.outcome = kind].msg = m
             /\ [d EXCEPT !.pc = "record", !.outcome = kind].pc = "record"
             /\ [d EXCEPT !.pc = "record", !.outcome = kind].outcome = kind
             /\ [d EXCEPT !.pc = "record", !.outcome = "sent"].msg = m
             /\ [d EXCEPT !.pc = "record", !.outcome = "sent"].pc = "record"
             /\ [d EXCEPT !.pc = "record", !.outcome = "sent"].outcome = "sent"
             /\ [d EXCEPT !.pc = pc].msg = m
             /\ [d EXCEPT !.pc = pc].pc = pc
             /\ [d EXCEPT !.pc = pc].outcome = d.outcome
  BY <1>1 DEF Delivery
<1>5. CASE Prepare(s) \/ PrepareFails(s) \/ Acquire(s) \/ SendFails(s)
  <2>1. ~Took(s)
    BY <1>2, <1>5 DEF Prepare, PrepareFails, Acquire, SendFails, At, Took
  <2>2. /\ UNCHANGED <<msgs, proc, copies>>
        /\ faults' \in Nat /\ faults' >= faults
    BY <1>1, <1>5 DEF Prepare, PrepareFails, Acquire, SendFails, Fault
  <2>3. \/ \E pc \in {"acquire", "send"} : flight' = [flight EXCEPT ![s] = [d EXCEPT !.pc = pc]]
        \/ \E kind \in {"transient", "permanent"} :
             flight' = [flight EXCEPT ![s] = [d EXCEPT !.pc = "record", !.outcome = kind]]
    BY <1>5 DEF Prepare, PrepareFails, Acquire, SendFails, Becomes
  <2>4. d.outcome # "sent"
    BY <1>0, <2>1 DEF Took
  <2>5. \A t \in Slots : t # s => flight'[t] = flight[t]
    BY <1>3, <2>3
  <2>6. /\ flight'[s].msg = m
        /\ flight'[s].pc \in {"acquire", "send", "record"}
        /\ flight'[s].outcome # "sent"
    <3>1. ASSUME NEW pc \in {"acquire", "send"},
                 flight' = [flight EXCEPT ![s] = [d EXCEPT !.pc = pc]]
          PROVE  flight'[s].msg = m /\ flight'[s].pc = pc /\ flight'[s].outcome = d.outcome
      BY <1>3, <1>4, <3>1
    <3>2. ASSUME NEW kind \in {"transient", "permanent"},
                 flight' = [flight EXCEPT ![s] = [d EXCEPT !.pc = "record", !.outcome = kind]]
          PROVE  flight'[s].msg = m /\ flight'[s].pc = "record" /\ flight'[s].outcome = kind
      BY <1>3, <1>4, <3>2
    <3> QED BY <2>3, <2>4, <3>1, <3>2
  <2>7. ~Took(s)'
    BY <2>6 DEF Took
  <2>8. copies'[m] <= faults' /\ copies'[m] <= 1 + faults'
    BY Zenon, <1>1, <2>1, <2>2, FaultsAllow
  <2>9. Stopping(s) => copies'[m] < faults'
    BY Zenon, <1>1, <1>2, <2>1, <2>2, FaultsAllow
  <2> HIDE DEF d, m
  <2> QED BY Zenon, <1>0, <2>2, <2>5, <2>6, <2>7, <2>8, <2>9, DuplicatesLocal DEF m
<1>6. CASE UpstreamAccepts(s)
  <2>1. ~Took(s) /\ d.outcome # "sent"
    BY <1>2, <1>6 DEF UpstreamAccepts, At, Took
  <2>2. /\ UNCHANGED <<msgs, proc, faults>>
        /\ copies' = [copies EXCEPT ![m] = @ + 1]
        /\ flight' = [flight EXCEPT ![s] = [d EXCEPT !.pc = "accepted"]]
    BY <1>6 DEF UpstreamAccepts, Becomes
  <2>3. /\ copies'[m] = copies[m] + 1
        /\ \A k \in Messages : k # m => copies'[k] = copies[k]
        /\ \A t \in Slots : t # s => flight'[t] = flight[t]
    BY <1>1, <1>3, <2>2
  <2>4. flight'[s].msg = m /\ flight'[s].pc = "accepted" /\ flight'[s].outcome # "sent"
    BY <1>3, <1>4, <2>1, <2>2
  <2>5. Took(s)'
    BY <2>4 DEF Took, Active
  <2>6. copies'[m] <= 1 + faults' /\ (Stopping(s) => copies'[m] <= faults')
    BY <1>1, <1>2, <2>1, <2>2, <2>3
  <2> HIDE DEF d, m
  <2> QED BY <1>0, <1>1, <2>2, <2>3, <2>4, <2>5, <2>6, DuplicatesLocal DEF m
<1>7. CASE SendSucceeds(s)
  <2>1. Took(s)
    BY <1>0, <1>7 DEF SendSucceeds, At, Took
  <2>2. /\ UNCHANGED <<msgs, proc, copies, faults>>
        /\ flight' = [flight EXCEPT ![s] = [d EXCEPT !.pc = "record", !.outcome = "sent"]]
    BY <1>7 DEF SendSucceeds, Becomes
  <2>3. \A t \in Slots : t # s => flight'[t] = flight[t]
    BY <1>3, <2>2
  <2>4. flight'[s].msg = m /\ flight'[s].pc = "record" /\ flight'[s].outcome = "sent"
    BY <1>3, <1>4, <2>2
  <2>5. Took(s)'
    BY <2>4 DEF Took, Active
  <2> HIDE DEF d, m
  <2> QED BY <1>0, <1>1, <1>2, <2>1, <2>2, <2>3, <2>4, <2>5, DuplicatesLocal DEF m
<1>8. CASE SendReplyLost(s)
  <2>1. Took(s)
    BY <1>0, <1>8 DEF SendReplyLost, At, Took
  <2>2. /\ UNCHANGED <<msgs, proc, copies>> /\ faults' = faults + 1
        /\ flight' = [flight EXCEPT ![s] = [d EXCEPT !.pc = "record", !.outcome = "transient"]]
    BY <1>8 DEF SendReplyLost, Becomes, Fault
  <2>3. \A t \in Slots : t # s => flight'[t] = flight[t]
    BY <1>3, <2>2
  <2>4. flight'[s].msg = m /\ flight'[s].pc = "record" /\ flight'[s].outcome = "transient"
    BY <1>3, <1>4, <2>2
  <2>5. ~Took(s)'
    BY <2>4 DEF Took, Active
  <2>6. copies'[m] <= faults' /\ (Stopping(s) => copies'[m] < faults') /\ faults' \in Nat
        /\ faults' >= faults /\ copies'[m] <= 1 + faults'
    BY <1>1, <1>2, <2>1, <2>2
  <2> HIDE DEF d, m
  <2> QED BY <1>0, <2>2, <2>3, <2>4, <2>5, <2>6, DuplicatesLocal DEF m
<1>9. CASE LeaseLost(s) \/ RecordFails(s) \/ Abandon(s)
  <2>1. ~LeaseLost(s)
    BY Zenon, <1>1 DEF LeaseLost
  <2>2. /\ UNCHANGED <<msgs, proc, copies>> /\ flight' = [flight EXCEPT ![s] = Idle]
        /\ faults' = faults + 1 \/ (Stopping(s) /\ faults' = faults)
    BY Zenon, <1>9, <2>1 DEF RecordFails, Abandon, Becomes, Fault, Stopping
  <2>3. \A t \in Slots : t # s => flight'[t] = flight[t]
    BY <1>3, <2>2
  <2>4. ~Active(s)'
    BY <1>3, <2>2 DEF Active, Idle
  <2>5. copies'[m] <= faults' /\ copies'[m] <= 1 + faults' /\ faults' \in Nat /\ faults' >= faults
    <3>1. copies'[m] = copies[m] /\ copies[m] \in Nat /\ faults \in Nat
      BY Zenon, <1>1, <1>2, <2>2
    <3>2. /\ copies[m] <= 1 + faults
          /\ Stopping(s) => copies[m] <= faults
      BY Zenon, <1>1, <1>2
    <3> HIDE DEF d, m
    <3>3. faults' \in Nat /\ faults' >= faults
      BY <2>2, <3>1
    <3>4. copies[m] <= faults' /\ copies[m] <= 1 + faults'
      BY <2>2, <3>1, <3>2
    <3> QED BY Zenon, <3>1, <3>3, <3>4
  <2> HIDE DEF d, m
  <2> QED BY Zenon, <1>0, <2>2, <2>3, <2>4, <2>5, DuplicatesLocal DEF m
<1>10. CASE MarkSent(s) \/ Fail(s) \/ FailOrDefer(s)
  <2>1. PICK row : Verdict(s, row) /\ RecordStatement(s, row)
    BY <1>10, Recording
  <2>2. /\ UNCHANGED <<proc, copies, faults>> /\ flight' = [flight EXCEPT ![s] = Idle]
        /\ msgs' = [msgs EXCEPT ![m] = row] /\ d.pc = "record"
    BY <2>1 DEF RecordStatement, Becomes, At
  <2>3. /\ \A t \in Slots : t # s => flight'[t] = flight[t]
        /\ \A k \in Messages : k # m => msgs'[k] = msgs[k]
        /\ msgs'[m] = row
    BY <1>1, <1>3, <2>2
  <2>4. ~Active(s)'
    BY <1>3, <2>2 DEF Active, Idle
  <2>5. row.status = "sent" \/ ~Took(s)
    <3>1. row.status = "sent" <=> d.outcome = "sent"
      BY Zenon, <1>0, <2>1, VerdictFields DEF IInv
    <3> QED BY <2>2, <3>1 DEF Took
  <2>6. copies'[m] <= faults' \/ msgs'[m].status \in {"sent", "gone"}
    <3>1. CASE row.status = "sent"
      BY <2>3, <3>1
    <3>2. CASE ~Took(s)
      BY Zenon, <1>1, <2>2, <3>2
    <3> QED BY <2>5, <3>1, <3>2
  <2>7. /\ faults' \in Nat /\ faults' >= faults /\ copies'[m] <= 1 + faults'
        /\ \A k \in Messages : k # m => copies'[k] = copies[k] /\ msgs'[k].status = msgs[k].status
    <3>1. /\ faults \in Nat /\ faults' = faults /\ copies' = copies /\ copies[m] <= 1 + faults
          /\ \A k \in Messages : k # m => msgs'[k] = msgs[k]
      BY Zenon, <1>1, <2>2, <2>3
    <3> HIDE DEF d, m
    <3>2. faults >= faults
      BY <3>1
    <3> QED BY Zenon, <3>1, <3>2
  <2> HIDE DEF d, m
  <2> QED BY Zenon, <1>0, <2>2, <2>3, <2>4, <2>6, <2>7, DuplicatesLocal DEF m
<1> QED BY <1>5, <1>6, <1>7, <1>8, <1>9, <1>10 DEF Deliver

(* Steps outside the deliveries that leave copies alone and let no fault go
   uncounted. *)
LEMMA DuplicatesElsewhere ==
    ASSUME IInv, DuplicatesInv, UNCHANGED copies, faults' \in Nat, faults' >= faults,
           \A m \in Messages :
               msgs[m].status \in {"sent", "gone"} => msgs'[m].status \in {"sent", "gone"},
           \/ faults' = faults + 1
           \/ \A s \in Slots : Took(s) => Took(s)' /\ flight'[s].msg = flight[s].msg,
           \A s \in Slots : Active(s)' =>
               /\ flight'[s].outcome = "sent" => flight'[s].pc = "record"
               /\ Stopping(s)' =>
                    /\ Active(s) /\ flight'[s].msg = flight[s].msg
                    /\ Took(s)' <=> Took(s)
                    /\ \/ Stopping(s)
                       \/ /\ faults' = faults + 1
                          /\ Took(s) \/ copies[flight[s].msg] <= faults
    PROVE  DuplicatesInv'
<1>0. /\ \A k \in Messages : copies[k] \in Nat /\ copies[k] <= 1 + faults
      /\ faults \in Nat
  BY Zenon DEF IInv, TypeInv, TypeOK, DuplicatesInv, DuplicatesNeedFaults
<1>1. \A k \in Messages : copies'[k] <= 1 + faults'
  BY Zenon, <1>0, FaultsAllow
<1>2. ASSUME NEW k \in Messages
      PROVE  \/ copies'[k] <= faults'
             \/ msgs'[k].status \in {"sent", "gone"}
             \/ \E t \in Slots : Took(t)' /\ flight'[t].msg = k
  <2>1. CASE copies[k] <= faults \/ faults' = faults + 1
    <3>1. copies'[k] = copies[k] /\ copies[k] \in Nat /\ copies[k] <= 1 + faults
      BY Zenon, <1>0
    <3>2. copies[k] <= faults'
      BY Zenon, <1>0, <2>1, <3>1, FaultsAllow
    <3> QED BY Zenon, <3>1, <3>2
  <2>2. CASE msgs[k].status \in {"sent", "gone"}
    BY Zenon, <2>2
  <2>3. ASSUME NEW t \in Slots, Took(t), flight[t].msg = k, faults' # faults + 1
        PROVE  Took(t)' /\ flight'[t].msg = k
    BY Zenon, <2>3
  <2> QED BY Zenon, <2>1, <2>2, <2>3 DEF DuplicatesInv
<1>3. ASSUME NEW s \in Slots, Active(s)', Stopping(s)'
      PROVE  IF Took(s)' THEN copies'[flight'[s].msg] <= faults'
                         ELSE copies'[flight'[s].msg] < faults'
  <2>1. Active(s) /\ flight'[s].msg = flight[s].msg /\ (Took(s)' <=> Took(s))
    BY Zenon, <1>3
  <2>2. flight[s].msg \in Messages
    BY Zenon, <2>1 DEF IInv, TypeInv, FlightOK
  <2>3. CASE Stopping(s)
    <3>1. IF Took(s) THEN copies[flight[s].msg] <= faults ELSE copies[flight[s].msg] < faults
      BY Zenon, <2>1, <2>3 DEF DuplicatesInv
    <3>2. PICK k : k = flight[s].msg
      BY Zenon
    <3>3. copies'[k] = copies[k] /\ copies[k] \in Nat /\ flight'[s].msg = k
      BY Zenon, <1>0, <2>1, <2>2, <3>2
    <3>4. IF Took(s)' THEN copies[k] <= faults' ELSE copies[k] < faults'
      BY Zenon, <1>0, <2>1, <3>1, <3>2, <3>3, FaultsAllow
    <3> QED BY Zenon, <3>3, <3>4
  <2>4. CASE (Took(s) \/ copies[flight[s].msg] <= faults) /\ faults' = faults + 1
    <3>1. PICK k : k = flight[s].msg
      BY Zenon
    <3>2. /\ copies'[k] = copies[k] /\ copies[k] \in Nat /\ flight'[s].msg = k
          /\ copies[k] <= 1 + faults
      BY Zenon, <1>0, <2>1, <2>2, <3>1
    <3>3. IF Took(s)' THEN copies[k] <= faults' ELSE copies[k] < faults'
      BY Zenon, <1>0, <2>1, <2>4, <3>1, <3>2, FaultsAllow
    <3> QED BY Zenon, <3>2, <3>3
  <2> QED BY Zenon, <1>3, <2>3, <2>4
<1> QED BY Zenon, <1>1, <1>2, <1>3 DEF DuplicatesInv, DuplicatesNeedFaults

LEMMA DuplicatesNext == Timely /\ IInv /\ DuplicatesInv /\ [Next]_vars => DuplicatesInv'
<1> SUFFICES ASSUME Timely, IInv, DuplicatesInv, [Next]_vars PROVE DuplicatesInv'
  OBVIOUS
<1>0. /\ faults \in Nat /\ flight \in [Slots -> Delivery]
      /\ proc \in [Replicas -> {"down", "running", "stopping"}]
      /\ \A s \in Slots : ReplicaOf[s] \in Replicas
  BY Constants DEF IInv, TypeInv, TypeOK
<1>1. \A s \in Slots : Active(s) =>
        /\ flight[s].outcome = "sent" => flight[s].pc = "record"
        /\ Took(s) \/ copies[flight[s].msg] <= faults
  BY Zenon, DeliveryAccount DEF DuplicatesInv
<1>2. \A m \in Messages :
        msgs[m].status \in {"sent", "gone"} => msgs'[m].status \in {"sent", "gone"}
  <2>1. CASE Next
    BY <2>1, RowSteps, VerdictStep DEF IInv
  <2>2. CASE UNCHANGED vars
    BY <2>2 DEF vars
  <2> QED BY <2>1, <2>2
<1>3. CASE UNCHANGED <<proc, flight, copies, faults>>
  <2>1. \A s \in Slots : (Took(s)' <=> Took(s)) /\ (Active(s)' <=> Active(s))
                         /\ (Stopping(s)' <=> Stopping(s))
    BY <1>3 DEF Took, Active, Stopping
  <2>2. /\ faults' \in Nat /\ faults' >= faults
        /\ \A s \in Slots : Took(s) => Took(s)' /\ flight'[s].msg = flight[s].msg
    BY <1>0, <1>3, <2>1
  <2>3. \A s \in Slots : Active(s)' =>
          /\ flight'[s].outcome = "sent" => flight'[s].pc = "record"
          /\ Stopping(s)' => /\ Active(s) /\ flight'[s].msg = flight[s].msg
                             /\ Took(s)' <=> Took(s)
                             /\ Stopping(s)
    BY Zenon, <1>1, <1>3, <2>1
  <2> QED BY Zenon, <1>2, <1>3, <2>2, <2>3, DuplicatesElsewhere
<1>4. ASSUME \/ \E m \in Messages : Enqueue(m) \/ Requeue(m) \/ Hold(m) \/ Delete(m)
             \/ \E b \in Mailboxes : SetMailbox(b)
             \/ \E r \in Replicas : Claim(r) \/ Housekeeping(r)
             \/ UNCHANGED vars
      PROVE  UNCHANGED <<proc, flight, copies, faults>>
  BY <1>4 DEF Enqueue, Requeue, Hold, Delete, OperatorStatement, SetMailbox, Claim,
              Housekeeping, vars
<1>5. ASSUME NEW r \in Replicas, Start(r) \/ Exit(r) PROVE DuplicatesInv'
  <2>1. UNCHANGED <<flight, copies, faults>>
    BY <1>5 DEF Start, Exit
  <2>2. \A s \in Slots : (Took(s)' <=> Took(s)) /\ (Active(s)' <=> Active(s))
                         /\ (Stopping(s)' => Stopping(s))
    BY <1>0, <1>5, <2>1 DEF Start, Exit, Took, Active, Stopping
  <2>3. /\ faults' \in Nat /\ faults' >= faults
        /\ \A s \in Slots : Took(s) => Took(s)' /\ flight'[s].msg = flight[s].msg
    BY <1>0, <2>1, <2>2
  <2>4. \A s \in Slots : Active(s)' =>
          /\ flight'[s].outcome = "sent" => flight'[s].pc = "record"
          /\ Stopping(s)' => /\ Active(s) /\ flight'[s].msg = flight[s].msg
                             /\ Took(s)' <=> Took(s)
                             /\ Stopping(s)
    BY Zenon, <1>1, <2>1, <2>2
  <2> QED BY Zenon, <1>2, <2>1, <2>3, <2>4, DuplicatesElsewhere
<1>6. ASSUME NEW r \in Replicas, ReadBackFails(r) \/ Stop(r) PROVE DuplicatesInv'
  <2>1. UNCHANGED <<flight, copies>> /\ faults' = faults + 1
    BY <1>6 DEF ReadBackFails, Stop, Fault
  <2>2. \A s \in Slots : (Took(s)' <=> Took(s)) /\ (Active(s)' <=> Active(s))
    BY <2>1 DEF Took, Active
  <2>3. faults' \in Nat /\ faults' >= faults
    BY <1>0, <2>1
  <2>4. \A s \in Slots : Active(s)' =>
          /\ flight'[s].outcome = "sent" => flight'[s].pc = "record"
          /\ Active(s) /\ flight'[s].msg = flight[s].msg
          /\ Took(s)' <=> Took(s)
          /\ Took(s) \/ copies[flight[s].msg] <= faults
    BY Zenon, <1>1, <2>1, <2>2
  <2> QED BY Zenon, <1>2, <2>1, <2>3, <2>4, DuplicatesElsewhere
<1>7. ASSUME NEW r \in Replicas, Crash(r) PROVE DuplicatesInv'
  <2>1. UNCHANGED copies /\ faults' = faults + 1
    BY <1>7 DEF Crash, Fault
  <2>2. \A s \in Slots : Active(s)' =>
          flight'[s] = flight[s] /\ Active(s) /\ (Took(s)' <=> Took(s))
    BY Zenon, <1>7 DEF Crash, Took, Active, Idle
  <2>3. faults' \in Nat /\ faults' >= faults
    BY <1>0, <2>1
  <2>4. \A s \in Slots : Active(s)' =>
          /\ flight'[s].outcome = "sent" => flight'[s].pc = "record"
          /\ Active(s) /\ flight'[s].msg = flight[s].msg
          /\ Took(s)' <=> Took(s)
          /\ Took(s) \/ copies[flight[s].msg] <= faults
    BY Zenon, <1>1, <2>2
  <2> QED BY Zenon, <1>2, <2>1, <2>3, <2>4, DuplicatesElsewhere
<1>8. ASSUME NEW r \in Replicas, ReadBack(r) PROVE DuplicatesInv'
  <2>1. UNCHANGED <<proc, copies, faults>> /\ proc[r] = "running"
    BY Zenon, <1>8 DEF ReadBack
  <2>2. PICK load \in [FreeSlots(r) -> StillClaimed(r) \cup {NoMsg}] :
          flight' = [s \in Slots |->
              IF s \in FreeSlots(r) /\ load[s] # NoMsg
              THEN [Idle EXCEPT !.pc = "prepare", !.msg = load[s],
                                !.attempts = msgs[load[s]].attempts,
                                !.held = claiming[r].held]
              ELSE flight[s]]
    BY Zenon, <1>8 DEF ReadBack
  <2>3. ASSUME NEW s \in Slots
        PROVE  \/ flight'[s] = flight[s]
               \/ /\ ~Active(s) /\ ReplicaOf[s] = r
                  /\ flight'[s].pc = "prepare" /\ flight'[s].outcome = "none"
    BY Zenon, <2>2 DEF FreeSlots, Idle
  <2>4. \A s \in Slots : Took(s) => Took(s)' /\ flight'[s].msg = flight[s].msg
    BY <2>3 DEF Took, Active
  <2>5. ASSUME NEW s \in Slots, Active(s)'
        PROVE  /\ flight'[s].outcome = "sent" => flight'[s].pc = "record"
               /\ Stopping(s)' => /\ Active(s) /\ flight'[s].msg = flight[s].msg
                                  /\ Took(s)' <=> Took(s)
                                  /\ Stopping(s)
    <3>1. CASE flight'[s] = flight[s]
      BY Zenon, <1>1, <2>1, <2>5, <3>1 DEF Took, Active, Stopping
    <3>2. CASE ReplicaOf[s] = r /\ flight'[s].outcome = "none"
      BY Zenon, <2>1, <3>2 DEF Stopping
    <3> QED BY Zenon, <2>3, <3>1, <3>2
  <2>6. faults' \in Nat /\ faults' >= faults
    BY <1>0, <2>1
  <2> QED BY Zenon, <1>2, <2>1, <2>4, <2>5, <2>6, DuplicatesElsewhere
<1>9. ASSUME Tick PROVE DuplicatesInv'
  <2>1. UNCHANGED <<proc, copies, faults>>
    BY Zenon, <1>9 DEF Tick
  <2>2. \A s \in Slots : /\ flight'[s].pc = flight[s].pc /\ flight'[s].msg = flight[s].msg
                         /\ flight'[s].outcome = flight[s].outcome
    BY Zenon, <1>9, TickEffect DEF IInv
  <2>3. \A s \in Slots : (Took(s)' <=> Took(s)) /\ (Active(s)' <=> Active(s))
                         /\ (Stopping(s)' <=> Stopping(s))
    BY Zenon, <2>1, <2>2 DEF Took, Active, Stopping
  <2>4. /\ faults' \in Nat /\ faults' >= faults
        /\ \A s \in Slots : Took(s) => Took(s)' /\ flight'[s].msg = flight[s].msg
    <3>1. faults >= faults
      BY <1>0
    <3> QED BY Zenon, <1>0, <2>1, <2>2, <2>3, <3>1
  <2>5. \A s \in Slots : Active(s)' =>
          /\ flight'[s].outcome = "sent" => flight'[s].pc = "record"
          /\ Stopping(s)' => /\ Active(s) /\ flight'[s].msg = flight[s].msg
                             /\ Took(s)' <=> Took(s)
                             /\ Stopping(s)
    BY Zenon, <1>1, <2>1, <2>2, <2>3
  <2> QED BY Zenon, <1>2, <2>1, <2>4, <2>5, DuplicatesElsewhere
<1> QED BY <1>3, <1>4, <1>5, <1>6, <1>7, <1>8, <1>9, DuplicatesDeliver DEF Next

(* If deliveries end in time, every copy beyond the first is matched by a
   fault: a crash, a shutdown, a lost reply or a failed statement.  Retries,
   requeues and lease recovery never duplicate on their own. *)
THEOREM DuplicatesBounded == Timely => (Spec => []DuplicatesNeedFaults)
<1> SUFFICES ASSUME Timely PROVE Spec => []DuplicatesNeedFaults
  OBVIOUS
<1>1. Init => DuplicatesInv
  <2> SUFFICES ASSUME Init PROVE DuplicatesInv
    OBVIOUS
  <2>1. faults = 0 /\ \A m \in Messages : copies[m] = 0
    BY Zenon DEF Init
  <2>2. \A s \in Slots : ~Active(s)
    BY DEF Init, Active, Idle
  <2>3. \A m \in Messages : copies[m] <= 1 + faults /\ copies[m] <= faults
    BY <2>1
  <2> QED BY Zenon, <2>2, <2>3 DEF DuplicatesInv, DuplicatesNeedFaults
<1>2. IInv /\ DuplicatesInv /\ [Next]_vars => DuplicatesInv'
  BY DuplicatesNext
<1>3. DuplicatesInv => DuplicatesNeedFaults
  BY Zenon DEF DuplicatesInv
<1> QED BY <1>1, <1>2, <1>3, ExclusiveAlways, PTL DEF Spec
=============================================================================
