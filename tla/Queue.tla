-------------------------------- MODULE Queue --------------------------------
(***************************************************************************)
(* The delivery queue: the messages table of internal/store/messages.go    *)
(* and the workers of internal/queue/worker.go that lease, send and retry  *)
(* its rows, in several replicas of the proxy that share one database.     *)
(*                                                                         *)
(* Each statement the code sends to the database is atomic; between two    *)
(* statements of one goroutine anything may happen.  A delivery goroutine  *)
(* occupies one slot of its replica's pool and walks through               *)
(*     prepare -> acquire -> send [-> accepted] -> record                  *)
(* as deliver does.  Time is a tick action; the columns that hold instants *)
(* are kept relative to now (nextIn, leaseLeft, age, idle), so the clock   *)
(* itself needs no bound.                                                  *)
(***************************************************************************)
EXTENDS Backoff, FiniteSets

CONSTANTS
    Messages,       \* message ids
    Mailboxes,      \* mailbox ids
    MailboxOf,      \* the mailbox a message was accepted for
    Replicas,       \* proxy processes, each with its own WorkerID
    Slots,          \* the worker slots of all replicas
    ReplicaOf,      \* the replica a slot belongs to
    NoOwner,        \* lease_owner IS NULL
    NoMsg,          \* no message
    LeaseDuration,  \* Options.LeaseDuration
    UpstreamTimeout,\* upstream.timeout, which bounds one Send
    HoldBound,      \* longest time from claim to recorded outcome ...
    Overruns,       \* ... unless deliveries may exceed it (TRUE)
    RetryAfters,    \* delays an upstream may ask for; 0 is "none named"
    RetainSent,     \* Options.RetainSent
    RetainFailed,   \* Options.RetainFailed
    MaxFaults,      \* bound: crashes, shutdowns, lost replies, database errors
    AttemptsBound,  \* bound: operators requeue only below this many attempts
    MaxCopies       \* bound: copies of one message the upstream accepts

ASSUME NamesAssumption == NoOwner \notin Replicas /\ NoMsg \notin Messages
ASSUME MailboxOfAssumption == MailboxOf \in [Messages -> Mailboxes]
ASSUME ReplicaOfAssumption == ReplicaOf \in [Slots -> Replicas]
ASSUME LeaseAssumption == LeaseDuration \in Nat \ {0}
(* validateQueue refuses a lease that does not exceed the upstream timeout. *)
ASSUME TimeoutAssumption == UpstreamTimeout \in Nat /\ UpstreamTimeout < LeaseDuration
ASSUME HoldAssumption == HoldBound \in Nat /\ Overruns \in BOOLEAN
ASSUME RetryAftersAssumption == RetryAfters \subseteq Nat
ASSUME RetainAssumption == RetainSent \in Nat /\ RetainFailed \in Nat
ASSUME BoundsAssumption ==
    MaxFaults \in Nat /\ AttemptsBound \in Nat /\ MaxCopies \in Nat

VARIABLES
    msgs,      \* the messages table
    mailbox,   \* the mailboxes table, as far as a delivery looks at it
    proc,      \* what each replica's runner is doing
    claiming,  \* a dispatcher between its claim and the read-back of it
    flight,    \* the delivery goroutine in each slot
    copies,    \* how often the upstream accepted each message
    faults     \* faults so far

vars == <<msgs, mailbox, proc, claiming, flight, copies, faults>>

-----------------------------------------------------------------------------
(* Rows and deliveries *)

Statuses ==
    {"absent", "queued", "sending", "deferred", "sent", "failed", "held", "gone"}

(* A row.  leaseLeft is lease_expires_at - now; every statement sets or clears
   it together with lease_owner, and -1 stands for "expired" and for NULL.
   idle is now - updated_at, counted once the message is finished. *)
Row == [status : Statuses, attempts : Nat, nextIn : Nat,
        leaseOwner : Replicas \cup {NoOwner}, leaseLeft : Nat \cup {-1},
        age : Nat, idle : Nat]

(* The columns as Enqueue leaves them at their zero values, before the insert. *)
NoRow == [status |-> "absent", attempts |-> 0, nextIn |-> 0,
          leaseOwner |-> NoOwner, leaseLeft |-> -1, age |-> 0, idle |-> 0]

Delivery == [pc : {"idle", "prepare", "acquire", "send", "accepted", "record"},
             msg : Messages \cup {NoMsg},
             attempts : Nat,     \* Attempts of the row as it was read back
             held : Nat,         \* time since the claim
             sending : Nat,      \* time since Send was called
             outcome : {"none", "sent", "transient", "permanent"}]

Idle == [pc |-> "idle", msg |-> NoMsg, attempts |-> 0, held |-> 0,
         sending |-> 0, outcome |-> "none"]

NoClaim == [msgs |-> {}, held |-> 0]

Active(s) == flight[s].pc # "idle"
FreeSlots(r) == {s \in Slots : ReplicaOf[s] = r /\ ~Active(s)}

(* One more fault, as long as the bound allows one. *)
Fault == faults < MaxFaults /\ faults' = faults + 1

(* The row after a statement that clears the lease and sets updated_at. *)
Released(row, status) ==
    [row EXCEPT !.status = status, !.leaseOwner = NoOwner, !.leaseLeft = -1,
                !.idle = 0]

(* The same for a statement that also counts the attempt. *)
Recorded(row, status) == [Released(row, status) EXCEPT !.attempts = @ + 1]

-----------------------------------------------------------------------------
(* Submission and the operator's actions *)

Init ==
    /\ msgs = [m \in Messages |-> NoRow]
    /\ mailbox = [b \in Mailboxes |-> "enabled"]
    /\ proc = [r \in Replicas |-> "down"]
    /\ claiming = [r \in Replicas |-> NoClaim]
    /\ flight = [s \in Slots |-> Idle]
    /\ copies = [m \in Messages |-> 0]
    /\ faults = 0

(* Submit: row and body are stored in one transaction; the message is due at
   once. *)
Enqueue(m) ==
    /\ msgs[m].status = "absent"
    /\ msgs' = [msgs EXCEPT ![m] = [NoRow EXCEPT !.status = "queued"]]
    /\ UNCHANGED <<mailbox, proc, claiming, flight, copies, faults>>

(* An operator's statement on one row: it takes effect only while the row has
   one of the statuses in from. *)
OperatorStatement(m, from, row) ==
    /\ msgs[m].status \in from
    /\ msgs' = [msgs EXCEPT ![m] = row]
    /\ UNCHANGED <<mailbox, proc, claiming, flight, copies, faults>>

(* attempts survives a requeue; AttemptsBound keeps it finite. *)
Requeue(m) ==
    /\ msgs[m].attempts < AttemptsBound
    /\ OperatorStatement(m, {"failed", "deferred", "held"},
                         [Released(msgs[m], "queued") EXCEPT !.nextIn = 0])

Hold(m) ==
    OperatorStatement(m, {"queued", "deferred", "failed"}, Released(msgs[m], "held"))

(* Mutant: a message can be deleted while it is being sent. *)
DeleteSending(m) ==
    OperatorStatement(m, {"queued", "sending", "deferred", "sent", "failed", "held"},
                      Released(msgs[m], "gone"))

Delete(m) ==
    OperatorStatement(m, {"queued", "deferred", "sent", "failed", "held"},
                      Released(msgs[m], "gone"))

(* An operator enables, disables or deletes a mailbox.  Deleting it clears
   mailbox_id in its messages. *)
SetMailbox(b) ==
    /\ mailbox[b] # "deleted"
    /\ \E to \in {"enabled", "disabled", "deleted"} \ {mailbox[b]} :
          mailbox' = [mailbox EXCEPT ![b] = to]
    /\ UNCHANGED <<msgs, proc, claiming, flight, copies, faults>>

-----------------------------------------------------------------------------
(* Claiming *)

LeaseExpired(m) == msgs[m].leaseOwner # NoOwner /\ msgs[m].leaseLeft < 0

(* Mutant: a lease is ignored while it is still live. *)
DueIgnoringLease(m) ==
    \/ msgs[m].status \in {"queued", "deferred"} /\ msgs[m].nextIn = 0
    \/ msgs[m].status = "sending"

(* Mutant: abandoned messages are not claimed again. *)
DueWithoutAbandoned(m) ==
    msgs[m].status \in {"queued", "deferred"} /\ msgs[m].nextIn = 0

(* The WHERE clause of ClaimMessages. *)
Due(m) ==
    /\ \/ msgs[m].status \in {"queued", "deferred"} /\ msgs[m].nextIn = 0
       \/ msgs[m].status = "sending" /\ LeaseExpired(m)
    /\ msgs[m].leaseOwner = NoOwner \/ LeaseExpired(m)

(* The SET clause of ClaimMessages. *)
Leased(row, r) ==
    [row EXCEPT !.status = "sending", !.leaseOwner = r, !.leaseLeft = LeaseDuration]

(* The dispatcher leases as many due messages as it has free slots, or fewer
   when SKIP LOCKED steps around rows another replica is writing. *)
Claim(r) ==
    /\ proc[r] = "running"
    /\ claiming[r] = NoClaim
    /\ \E S \in (SUBSET {m \in Messages : Due(m)}) \ {{}} :
          /\ Cardinality(S) <= Cardinality(FreeSlots(r))
          /\ msgs' = [m \in Messages |-> IF m \in S THEN Leased(msgs[m], r) ELSE msgs[m]]
          /\ claiming' = [claiming EXCEPT ![r] = [msgs |-> S, held |-> 0]]
    /\ UNCHANGED <<mailbox, proc, flight, copies, faults>>

(* What the read-back finds of the claim: the rows this replica still owns. *)
StillClaimed(r) ==
    {m \in claiming[r].msgs : msgs[m].leaseOwner = r /\ msgs[m].status = "sending"}

(* The read-back, and one goroutine started for every row it returns. *)
ReadBack(r) ==
    /\ proc[r] = "running"
    /\ claiming[r] # NoClaim
    /\ \E load \in [FreeSlots(r) -> StillClaimed(r) \cup {NoMsg}] :
          /\ \A m \in StillClaimed(r) : \E s \in FreeSlots(r) : load[s] = m
          /\ \A s, t \in FreeSlots(r) : load[s] = load[t] => s = t \/ load[s] = NoMsg
          /\ flight' = [s \in Slots |->
                IF s \in FreeSlots(r) /\ load[s] # NoMsg
                THEN [Idle EXCEPT !.pc = "prepare", !.msg = load[s],
                                  !.attempts = msgs[load[s]].attempts,
                                  !.held = claiming[r].held]
                ELSE flight[s]]
    /\ claiming' = [claiming EXCEPT ![r] = NoClaim]
    /\ UNCHANGED <<msgs, mailbox, proc, copies, faults>>

(* The read-back fails: the rows stay leased and nobody delivers them. *)
ReadBackFails(r) ==
    /\ proc[r] = "running"
    /\ claiming[r] # NoClaim
    /\ claiming' = [claiming EXCEPT ![r] = NoClaim]
    /\ Fault
    /\ UNCHANGED <<msgs, mailbox, proc, flight, copies>>

-----------------------------------------------------------------------------
(* Delivering: the steps of the goroutine in slot s *)

Running(s) == proc[ReplicaOf[s]] = "running"

(* The goroutine moves on; d is its next state. *)
Becomes(s, d) == flight' = [flight EXCEPT ![s] = d]

At(s, pc) == flight[s].pc = pc

(* The mailbox exists and is enabled, and the body is still there. *)
Deliverable(m) ==
    /\ mailbox[MailboxOf[m]] = "enabled"
    /\ msgs[m].status # "gone"

(* prepare.  Any error it returns is recorded as a permanent failure. *)
Prepare(s) ==
    /\ At(s, "prepare")
    /\ Running(s)
    /\ \/ /\ Deliverable(flight[s].msg)
          /\ Becomes(s, [flight[s] EXCEPT !.pc = "acquire"])
       \/ /\ ~Deliverable(flight[s].msg)
          /\ Becomes(s, [flight[s] EXCEPT !.pc = "record", !.outcome = "permanent"])
    /\ UNCHANGED <<msgs, mailbox, proc, claiming, copies, faults>>

(* The same error path, taken because one of prepare's queries failed. *)
PrepareFails(s) ==
    /\ At(s, "prepare")
    /\ Running(s)
    /\ Becomes(s, [flight[s] EXCEPT !.pc = "record", !.outcome = "permanent"])
    /\ Fault
    /\ UNCHANGED <<msgs, mailbox, proc, claiming, copies>>

(* limiter.Acquire returns, after any wait: neither the lease nor a timeout
   bounds it.  Send is called next. *)
Acquire(s) ==
    /\ At(s, "acquire")
    /\ Running(s)
    /\ Becomes(s, [flight[s] EXCEPT !.pc = "send"])
    /\ UNCHANGED <<msgs, mailbox, proc, claiming, copies, faults>>

(* The upstream takes the message; the reply is still on its way. *)
UpstreamAccepts(s) ==
    /\ At(s, "send")
    /\ copies[flight[s].msg] < MaxCopies
    /\ copies' = [copies EXCEPT ![flight[s].msg] = @ + 1]
    /\ Becomes(s, [flight[s] EXCEPT !.pc = "accepted"])
    /\ UNCHANGED <<msgs, mailbox, proc, claiming, faults>>

(* Mutant: a failed QUIT after the acceptance counts as a failed delivery. *)
SendSucceedsUnlessQuitFails(s) ==
    /\ At(s, "accepted")
    /\ \E kind \in {"sent", "transient"} :
          Becomes(s, [flight[s] EXCEPT !.pc = "record", !.outcome = kind])
    /\ UNCHANGED <<msgs, mailbox, proc, claiming, copies, faults>>

(* Send returns nil. *)
SendSucceeds(s) ==
    /\ At(s, "accepted")
    /\ Becomes(s, [flight[s] EXCEPT !.pc = "record", !.outcome = "sent"])
    /\ UNCHANGED <<msgs, mailbox, proc, claiming, copies, faults>>

(* The reply is lost after the message was taken: a transient error. *)
SendReplyLost(s) ==
    /\ At(s, "accepted")
    /\ Becomes(s, [flight[s] EXCEPT !.pc = "record", !.outcome = "transient"])
    /\ Fault
    /\ UNCHANGED <<msgs, mailbox, proc, claiming, copies>>

(* Mutant: an unknown reply counts as success. *)
SendFailsOrNot(s) ==
    /\ At(s, "send")
    /\ \E kind \in {"transient", "permanent", "sent"} :
          Becomes(s, [flight[s] EXCEPT !.pc = "record", !.outcome = kind])
    /\ UNCHANGED <<msgs, mailbox, proc, claiming, copies, faults>>

(* Send fails without the message having been taken. *)
SendFails(s) ==
    /\ At(s, "send")
    /\ \E kind \in {"transient", "permanent"} :
          Becomes(s, [flight[s] EXCEPT !.pc = "record", !.outcome = kind])
    /\ UNCHANGED <<msgs, mailbox, proc, claiming, copies, faults>>

(* Mutant: the outcome is written by id alone. *)
HoldsLeaseOrNot(s) == TRUE

(* The WHERE clause of MarkSent, Defer and Fail: id and lease_owner. *)
HoldsLease(s) == msgs[flight[s].msg].leaseOwner = ReplicaOf[s]

(* A statement that records the outcome of the delivery in slot s. *)
RecordStatement(s, row) ==
    /\ At(s, "record")
    /\ Running(s)
    /\ HoldsLease(s)
    /\ msgs' = [msgs EXCEPT ![flight[s].msg] = row]
    /\ Becomes(s, Idle)
    /\ UNCHANGED <<mailbox, proc, claiming, copies, faults>>

MarkSent(s) ==
    /\ flight[s].outcome = "sent"
    /\ RecordStatement(s, Recorded(msgs[flight[s].msg], "sent"))

(* recordFailure, for a permanent failure. *)
Fail(s) ==
    /\ flight[s].outcome = "permanent"
    /\ RecordStatement(s, Recorded(msgs[flight[s].msg], "failed"))

(* Mutant: the attempt that just failed is not counted. *)
FailOrDeferUncounted(s) ==
    LET row == msgs[flight[s].msg] IN
    /\ flight[s].outcome = "transient"
    /\ \E requested \in RetryAfters :
       \E next \in NextAttemptAfter(row.age, flight[s].attempts, requested) :
          RecordStatement(s,
            IF next = GiveUp THEN Recorded(row, "failed")
            ELSE [Recorded(row, "deferred") EXCEPT !.nextIn = next])

(* recordFailure, for a transient failure: the attempt count of the claimed
   row decides between a retry and giving up. *)
FailOrDefer(s) ==
    LET row == msgs[flight[s].msg] IN
    /\ flight[s].outcome = "transient"
    /\ \E requested \in RetryAfters :
       \E next \in NextAttemptAfter(row.age, flight[s].attempts + 1, requested) :
          RecordStatement(s,
            IF next = GiveUp THEN Recorded(row, "failed")
            ELSE [Recorded(row, "deferred") EXCEPT !.nextIn = next])

(* The statement matches no row: requireOneRow reports it, nothing changes. *)
LeaseLost(s) ==
    /\ At(s, "record")
    /\ Running(s)
    /\ ~HoldsLease(s)
    /\ Becomes(s, Idle)
    /\ UNCHANGED <<msgs, mailbox, proc, claiming, copies, faults>>

(* The statement fails; the row stays leased until the lease runs out. *)
RecordFails(s) ==
    /\ At(s, "record")
    /\ Running(s)
    /\ Becomes(s, Idle)
    /\ Fault
    /\ UNCHANGED <<msgs, mailbox, proc, claiming, copies>>

(* While the process shuts down its context is cancelled: Acquire returns
   early and every statement fails, so the delivery ends without a trace. *)
Abandon(s) ==
    /\ flight[s].pc \in {"prepare", "acquire", "record"}
    /\ proc[ReplicaOf[s]] = "stopping"
    /\ Becomes(s, Idle)
    /\ UNCHANGED <<msgs, mailbox, proc, claiming, copies, faults>>

Deliver(s) ==
    \/ Prepare(s) \/ PrepareFails(s) \/ Acquire(s)
    \/ UpstreamAccepts(s) \/ SendSucceeds(s) \/ SendReplyLost(s) \/ SendFails(s)
    \/ MarkSent(s) \/ Fail(s) \/ FailOrDefer(s)
    \/ LeaseLost(s) \/ RecordFails(s) \/ Abandon(s)

-----------------------------------------------------------------------------
(* Housekeeping, processes and time *)

(* ReleaseExpiredLeases *)
ReleasedIfExpired(m) ==
    IF msgs[m].status = "sending" /\ LeaseExpired(m)
    THEN Released(msgs[m], "queued") ELSE msgs[m]

(* purge: with both retentions unset nothing is deleted; with one unset its
   cutoff is now. *)
Purgeable(m) ==
    /\ RetainSent > 0 \/ RetainFailed > 0
    /\ \/ msgs[m].status = "sent" /\ msgs[m].idle > RetainSent
       \/ msgs[m].status = "failed" /\ msgs[m].idle > RetainFailed

(* The purge ticker of housekeeping. *)
Housekeeping(r) ==
    /\ proc[r] = "running"
    /\ msgs' = [m \in Messages |->
          IF Purgeable(m) THEN Released(msgs[m], "gone") ELSE ReleasedIfExpired(m)]
    /\ UNCHANGED <<mailbox, proc, claiming, flight, copies, faults>>

(* A process starts: a new WorkerID, an empty pool, and one release of
   expired leases. *)
Start(r) ==
    /\ proc[r] = "down"
    /\ proc' = [proc EXCEPT ![r] = "running"]
    /\ msgs' = [m \in Messages |-> ReleasedIfExpired(m)]
    /\ UNCHANGED <<mailbox, claiming, flight, copies, faults>>

(* Shutdown: the context is cancelled.  A claim that was not handed out is
   dropped; deliveries already in Send go on. *)
Stop(r) ==
    /\ proc[r] = "running"
    /\ proc' = [proc EXCEPT ![r] = "stopping"]
    /\ claiming' = [claiming EXCEPT ![r] = NoClaim]
    /\ Fault
    /\ UNCHANGED <<msgs, mailbox, flight, copies>>

(* Run returns once the last delivery has. *)
Exit(r) ==
    /\ proc[r] = "stopping"
    /\ \A s \in Slots : ReplicaOf[s] = r => ~Active(s)
    /\ proc' = [proc EXCEPT ![r] = "down"]
    /\ UNCHANGED <<msgs, mailbox, claiming, flight, copies, faults>>

(* The process dies with everything it holds in memory. *)
Crash(r) ==
    /\ proc[r] # "down"
    /\ proc' = [proc EXCEPT ![r] = "down"]
    /\ claiming' = [claiming EXCEPT ![r] = NoClaim]
    /\ flight' = [s \in Slots |-> IF ReplicaOf[s] = r THEN Idle ELSE flight[s]]
    /\ Fault
    /\ UNCHANGED <<msgs, mailbox, copies>>

(* One tick later.  age and idle stop counting once no comparison can tell
   the difference. *)
Later(row) ==
    [row EXCEPT
        !.nextIn    = IF @ > 0 THEN @ - 1 ELSE 0,
        !.leaseLeft = IF @ >= 0 THEN @ - 1 ELSE -1,
        !.age       = IF @ <= MaxAge THEN @ + 1 ELSE @,
        !.idle      = IF row.status \in {"sent", "failed"} /\ @ <= RetainSent + RetainFailed
                      THEN @ + 1 ELSE @]

Inside(s) == flight[s].pc \in {"send", "accepted"}

(* Time passes, but not beyond the timeout of a Send, and unless deliveries
   may overrun, not beyond what a delivery may take. *)
Tick ==
    /\ \A s \in Slots : Inside(s) => flight[s].sending < UpstreamTimeout
    /\ ~Overruns =>
          /\ \A s \in Slots : Active(s) => flight[s].held < HoldBound
          /\ \A r \in Replicas : claiming[r] # NoClaim => claiming[r].held < HoldBound
    /\ msgs' = [m \in Messages |->
          IF msgs[m].status \in {"absent", "gone"} THEN msgs[m] ELSE Later(msgs[m])]
    /\ flight' = [s \in Slots |->
          IF Active(s)
          THEN [flight[s] EXCEPT !.held = IF @ < HoldBound THEN @ + 1 ELSE @,
                                 !.sending = IF Inside(s) THEN @ + 1 ELSE @]
          ELSE flight[s]]
    /\ claiming' = [r \in Replicas |->
          IF claiming[r] # NoClaim /\ claiming[r].held < HoldBound
          THEN [claiming[r] EXCEPT !.held = @ + 1] ELSE claiming[r]]
    /\ UNCHANGED <<mailbox, proc, copies, faults>>

Next ==
    \/ \E m \in Messages : Enqueue(m) \/ Requeue(m) \/ Hold(m) \/ Delete(m)
    \/ \E b \in Mailboxes : SetMailbox(b)
    \/ \E r \in Replicas :
          \/ Claim(r) \/ ReadBack(r) \/ ReadBackFails(r)
          \/ Housekeeping(r) \/ Start(r) \/ Stop(r) \/ Exit(r) \/ Crash(r)
    \/ \E s \in Slots : Deliver(s)
    \/ Tick

Spec == Init /\ [][Next]_vars

(* What the scheduler guarantees: a delivery goroutine that can take a step
   takes one, a running dispatcher keeps polling, a stopped process is
   restarted, and time passes.  Operators and faults promise nothing. *)
Fairness ==
    /\ WF_vars(Tick)
    /\ \A s \in Slots : WF_vars(Deliver(s))
    /\ \A r \in Replicas : WF_vars(Claim(r)) /\ WF_vars(ReadBack(r))
                           /\ WF_vars(Start(r)) /\ WF_vars(Exit(r))

FairSpec == Spec /\ Fairness

-----------------------------------------------------------------------------
(* Properties *)

(* Every table and every goroutine holds a value of its type. *)
TypeOK ==
    /\ msgs \in [Messages -> Row]
    /\ mailbox \in [Mailboxes -> {"enabled", "disabled", "deleted"}]
    /\ proc \in [Replicas -> {"down", "running", "stopping"}]
    /\ claiming \in [Replicas -> [msgs : SUBSET Messages, held : Nat]]
    /\ flight \in [Slots -> Delivery]
    /\ copies \in [Messages -> Nat]
    /\ faults \in Nat

(* A row is in "sending" exactly while it carries a lease.  Whatever crashes
   and whatever stale worker writes late, no row is stranded in "sending"
   without a lease that can run out, and none outside it is leased: the claim
   (messages.go:157) and the release (messages.go:324) look for nothing else. *)
LeaseIffSending ==
    \A m \in Messages : msgs[m].status = "sending" <=> msgs[m].leaseOwner # NoOwner

(* Two replicas, or two goroutines of one, never work on the same message, and
   whoever works on it holds a live lease.  ClaimMessages promises this
   ("two workers cannot end up holding the same message"); it needs every
   delivery to end before its lease does. *)
DeliveriesExclusive ==
    \A s \in Slots : Active(s) =>
        /\ HoldsLease(s)
        /\ msgs[flight[s].msg].leaseLeft >= 0
        /\ \A t \in Slots : Active(t) /\ flight[t].msg = flight[s].msg => t = s

(* No message is inside two calls of Send at once: what the comment on
   Options.LeaseDuration and validateQueue's error promise of a lease that
   exceeds the upstream timeout. *)
SendsDoNotOverlap ==
    \A s, t \in Slots :
        Inside(s) /\ Inside(t) /\ flight[s].msg = flight[t].msg => s = t

(* Every copy beyond the first is the price of a fault: a crash, a shutdown, a
   lost reply or a failed statement between the upstream's acceptance and
   MarkSent.  Retries, requeues and lease recovery alone never duplicate. *)
DuplicatesNeedFaults == \A m \in Messages : copies[m] <= 1 + faults

(* A message waiting for a retry has an attempt left to make (MaxAttempts
   "gives up after this many tries"), although the count used for the decision
   was read at claim time. *)
DeferredHasAttemptsLeft ==
    \A m \in Messages :
        msgs[m].status = "deferred" /\ MaxAttempts > 0 => msgs[m].attempts < MaxAttempts

(* A retry is scheduled after the message's deadline only if the upstream asked
   for that very delay: NextAttempt never exceeds MaxAge, as its comment says, and
   NextAttemptAfter does so only for a Retry-After. *)
RetryBeforeDeadline ==
    [][\A m \in Messages :
        msgs[m].status = "sending" /\ msgs'[m].status = "deferred" /\ MaxAge > 0
            => \/ msgs'[m].age + msgs'[m].nextIn <= MaxAge
               \/ msgs'[m].nextIn \in RetryAfters \ {0}]_vars

(* A message recorded as sent was accepted by the upstream. *)
SentWasAccepted == \A m \in Messages : msgs[m].status = "sent" => copies[m] > 0

(* No late write of a worker that lost its lease undoes a verdict: a sent
   message stays sent until it is removed, a removed one stays removed, and a
   held one leaves only through an operator. *)
VerdictsStick ==
    [][\A m \in Messages :
        /\ msgs[m].status = "sent" => msgs'[m].status \in {"sent", "gone"}
        /\ msgs[m].status = "gone" => msgs'[m].status = "gone"
        /\ msgs[m].status = "held" => msgs'[m].status \in {"held", "queued", "gone"}]_vars

(* The proxy is still responsible for the message. *)
Pending(m) == msgs[m].status \in {"queued", "sending", "deferred"}

(* Every accepted message is eventually sent, failed, held or removed: no
   crash, lost claim or failed statement leaves it pending for ever. *)
Settles == \A m \in Messages : Pending(m) ~> ~Pending(m)

(* What the outside sees of a row. *)
Stage(m) == IF Pending(m) THEN "pending" ELSE msgs[m].status
Lifecycle == INSTANCE MessageLifecycle WITH stage <- [m \in Messages |-> Stage(m)]

(* The queue implements MessageLifecycle: copies leave only while a message is
   pending (never while it is held or after it was removed), and every change
   of status is one an outside observer is promised. *)
ImplementsLifecycle == Lifecycle!Spec
=============================================================================
