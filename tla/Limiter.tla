------------------------------- MODULE Limiter -------------------------------
(***************************************************************************)
(* The per-mailbox limiter of internal/queue/ratelimit.go: a semaphore for *)
(* concurrency and a token bucket for the rate, looked up by mailbox and   *)
(* rebuilt when a delivery brings a budget that differs from the one the   *)
(* limiter was built with.                                                 *)
(*                                                                         *)
(* Limiters of different mailboxes share nothing, so the module follows    *)
(* one mailbox.  A delivery reads the budget in prepare and brings it to   *)
(* Acquire later, so the budget it brings may be an old one.  Tokens are   *)
(* counted in units of 1/Minute of a token: a tick adds perMinute units    *)
(* and a message costs Minute units.                                       *)
(***************************************************************************)
EXTENDS Integers, FiniteSets

CONSTANTS
    Deliveries,                     \* delivery goroutines for this mailbox
    Limiters,                       \* mailboxLimiter objects
    NoLimiter,                      \* no object
    Budgets,                        \* budgets the mailbox row may carry
    Configured,                     \* the budget the configuration sets
    ExchangeMessagesPerMinute,
    ExchangeConcurrentConnections,
    Minute                          \* ticks in a minute

Budget == [perMinute : Int, maxConcurrent : Int]

ASSUME LimiterNames == NoLimiter \notin Limiters
ASSUME BudgetsAssumption == Budgets \subseteq Budget /\ Configured \in Budget
ASSUME ExchangeAssumption ==
    /\ ExchangeMessagesPerMinute \in Nat \ {0}
    /\ ExchangeConcurrentConnections \in Nat \ {0, 1}
ASSUME MinuteAssumption == Minute \in Nat \ {0}
(* Memory does not run out: there is an object for every goroutine and one more. *)
ASSUME LimitersAssumption ==
    /\ IsFiniteSet(Deliveries) /\ IsFiniteSet(Limiters)
    /\ Cardinality(Limiters) > Cardinality(Deliveries)

VARIABLES
    row,        \* the budget columns of the mailbox row
    current,    \* Limiter.mailbox[id]
    limiter,    \* the limiter objects
    call,       \* each goroutine, from prepare to the release
    cancelled   \* the runner's context

vars == <<row, current, limiter, call, cancelled>>

-----------------------------------------------------------------------------
(* Budgets *)

Clamp(b) ==
    [perMinute |-> IF b.perMinute \in 1 .. ExchangeMessagesPerMinute
                   THEN b.perMinute ELSE ExchangeMessagesPerMinute,
     maxConcurrent |-> IF b.maxConcurrent <= 0 THEN 2
                       ELSE IF b.maxConcurrent > ExchangeConcurrentConnections
                       THEN ExchangeConcurrentConnections ELSE b.maxConcurrent]

(* Limiter.defaults *)
Defaults == Clamp(Configured)

Effective(b) ==
    Clamp([perMinute |-> IF b.perMinute <= 0 THEN Defaults.perMinute ELSE b.perMinute,
           maxConcurrent |-> IF b.maxConcurrent <= 0 THEN Defaults.maxConcurrent
                             ELSE b.maxConcurrent])

-----------------------------------------------------------------------------
(* Limiter objects and goroutines *)

(* since[a] counts the tokens taken since the clock stood a ticks behind; only
   the properties read it. *)
Ages == 0 .. Minute
MailboxLimiter ==
    [perMinute : Nat, cap : Nat, used : Nat, tokens : Nat, since : [Ages -> Nat]]

Dropped == [perMinute |-> 0, cap |-> 0, used |-> 0, tokens |-> 0,
            since |-> [a \in Ages |-> 0]]

(* A new limiter starts with a full bucket and an empty semaphore. *)
NewMailboxLimiter(e) ==
    [Dropped EXCEPT !.perMinute = e.perMinute, !.cap = e.maxConcurrent,
                    !.tokens = e.perMinute * Minute]

Call == [pc : {"idle", "budget", "slot", "token", "sleep", "send"},
         budget : Budget, lim : Limiters \cup {NoLimiter}, wake : Nat]

IdleCall == [pc |-> "idle", budget |-> Configured, lim |-> NoLimiter, wake |-> 0]

At(d, pc) == call[d].pc = pc
Holds(d, l) == call[d].lim = l /\ call[d].pc \in {"token", "sleep", "send"}
ReferencedBy(l, D) == \E d \in D : call[d].lim = l

Init ==
    /\ row \in Budgets
    /\ current = NoLimiter
    /\ limiter = [l \in Limiters |-> Dropped]
    /\ call = [d \in Deliveries |-> IdleCall]
    /\ cancelled = FALSE

(* An operator changes the budget of the mailbox. *)
SetBudget ==
    /\ row' \in Budgets \ {row}
    /\ UNCHANGED <<current, limiter, call, cancelled>>

(* prepare reads the mailbox; with the context cancelled its query fails. *)
ReadBudget(d) ==
    /\ At(d, "idle")
    /\ ~cancelled
    /\ call' = [call EXCEPT ![d] = [IdleCall EXCEPT !.pc = "budget", !.budget = row]]
    /\ UNCHANGED <<row, current, limiter, cancelled>>

Matches(l, e) ==
    /\ l # NoLimiter
    /\ limiter[l].perMinute = e.perMinute
    /\ limiter[l].cap = e.maxConcurrent

(* Memory for a new object.  Which name it gets makes no difference. *)
Unused == CHOOSE l \in Limiters \ {current} : ~ReferencedBy(l, Deliveries)

(* forMailbox: the limiter of the mailbox, rebuilt if the budget differs.  The
   old object goes away with its last user. *)
ForMailbox(d) ==
    LET e == Effective(call[d].budget) IN
    /\ At(d, "budget")
    /\ \/ /\ Matches(current, e)
          /\ call' = [call EXCEPT ![d].pc = "slot", ![d].lim = current]
          /\ UNCHANGED <<current, limiter>>
       \/ /\ ~Matches(current, e)
          /\ LET l == Unused IN
                /\ current' = l
                /\ call' = [call EXCEPT ![d].pc = "slot", ![d].lim = l]
                /\ limiter' = [k \in Limiters |->
                      IF k = l THEN NewMailboxLimiter(e)
                      ELSE IF ReferencedBy(k, Deliveries) THEN limiter[k] ELSE Dropped]
    /\ UNCHANGED <<row, cancelled>>

(* The send on the semaphore channel goes through. *)
TakeSlot(d) ==
    LET l == call[d].lim IN
    /\ At(d, "slot")
    /\ limiter[l].used < limiter[l].cap
    /\ limiter' = [limiter EXCEPT ![l].used = @ + 1]
    /\ call' = [call EXCEPT ![d].pc = "token"]
    /\ UNCHANGED <<row, current, cancelled>>

(* A token leaves the bucket. *)
OneTaken(l) ==
    [l EXCEPT !.tokens = @ - Minute, !.since = [a \in Ages |-> @[a] + 1]]

(* tokenBucket.take: a token, or the time until one is there. *)
Take(d) ==
    LET l == call[d].lim
        missing == Minute - limiter[l].tokens
    IN
    /\ At(d, "token")
    /\ \/ /\ missing <= 0
          /\ limiter' = [limiter EXCEPT ![l] = OneTaken(@)]
          /\ call' = [call EXCEPT ![d].pc = "send"]
       \/ /\ missing > 0
          /\ call' = [call EXCEPT ![d].pc = "sleep",
                        ![d].wake = (missing + limiter[l].perMinute - 1)
                                        \div limiter[l].perMinute]
          /\ UNCHANGED limiter
    /\ UNCHANGED <<row, current, cancelled>>

(* The timer fires and wait tries again. *)
Wake(d) ==
    /\ At(d, "sleep")
    /\ call[d].wake = 0
    /\ call' = [call EXCEPT ![d].pc = "token"]
    /\ UNCHANGED <<row, current, limiter, cancelled>>

(* The goroutine is done with its limiter, and gives back n slots of it. *)
Leave(d, n) ==
    LET l == call[d].lim IN
    /\ limiter' = [limiter EXCEPT ![l] =
          IF l = current \/ ReferencedBy(l, Deliveries \ {d})
          THEN [limiter[l] EXCEPT !.used = @ - n] ELSE Dropped]
    /\ call' = [call EXCEPT ![d] = IdleCall]
    /\ UNCHANGED <<row, current, cancelled>>

(* Mutant: the slot is not given back. *)
ReleaseKeepingSlot(d) == At(d, "send") /\ Leave(d, 0)

(* The delivery is over; its deferred release gives the slot back. *)
Release(d) == At(d, "send") /\ Leave(d, 1)

(* Mutant: the slot is not given back when the wait for a token is cancelled. *)
CancelKeepingSlot(d) == cancelled /\ (At(d, "slot") \/ At(d, "sleep")) /\ Leave(d, 0)

(* The context is done before Acquire is: a slot already taken is given back. *)
Cancel(d) ==
    /\ cancelled
    /\ \/ At(d, "slot") /\ Leave(d, 0)
       \/ At(d, "sleep") /\ Leave(d, 1)

Shutdown ==
    /\ ~cancelled
    /\ cancelled' = TRUE
    /\ UNCHANGED <<row, current, limiter, call>>

(* A tick later the counts belong to the next age. *)
Later(since) == [a \in Ages |-> IF a = 0 THEN 0 ELSE since[a - 1]]

(* Mutant: an idle bucket fills beyond its capacity. *)
RefillUncapped(l) ==
    [l EXCEPT !.tokens = IF @ <= 4 * Minute * l.perMinute THEN @ + l.perMinute ELSE @,
              !.since = Later(@)]

(* refill, as of now: what the next take will find. *)
Refill(l) ==
    [l EXCEPT !.tokens = IF @ + l.perMinute > l.perMinute * Minute
                         THEN l.perMinute * Minute ELSE @ + l.perMinute,
              !.since = Later(@)]

Tick ==
    /\ limiter' = [l \in Limiters |-> Refill(limiter[l])]
    /\ call' = [d \in Deliveries |->
          [call[d] EXCEPT !.wake = IF @ > 0 THEN @ - 1 ELSE 0]]
    /\ UNCHANGED <<row, current, cancelled>>

Step(d) ==
    ReadBudget(d) \/ ForMailbox(d) \/ TakeSlot(d) \/ Take(d) \/ Wake(d)
        \/ Release(d) \/ Cancel(d)

Next == SetBudget \/ (\E d \in Deliveries : Step(d)) \/ Shutdown \/ Tick

Spec == Init /\ [][Next]_vars

(* A goroutine that can go on goes on, Send returns, and time passes. *)
Fairness == WF_vars(Tick) /\ \A d \in Deliveries : WF_vars(~At(d, "idle") /\ Step(d))

FairSpec == Spec /\ Fairness

-----------------------------------------------------------------------------
(* Properties *)

(* A semaphore holds exactly the slots of the goroutines that took them, and
   never more than Exchange allows: over rebuilds, cancelled waits and late
   releases into a replaced limiter no slot leaks and none is returned twice. *)
SlotsAccounted ==
    \A l \in Limiters :
        /\ limiter[l].used = Cardinality({d \in Deliveries : Holds(d, l)})
        /\ limiter[l].used <= limiter[l].cap
        /\ limiter[l].cap <= ExchangeConcurrentConnections

(* The burst the bucket's comment allows is bounded: whatever the pattern of
   waits and retries, one limiter lets no more than two minutes' worth of
   messages through in any minute. *)
BurstBounded ==
    \A l \in Limiters : limiter[l].since[Minute] <= 2 * limiter[l].perMinute

Waiting(d) == call[d].pc \in {"budget", "slot", "token", "sleep"}

(* Acquire does not hang: while a delivery waits, some delivery of the mailbox
   gets through, or the shutdown ends the wait. *)
SomebodyProceeds ==
    (\E d \in Deliveries : Waiting(d))
        ~> ((\E d \in Deliveries : At(d, "send")) \/ \A d \in Deliveries : At(d, "idle"))
=============================================================================
