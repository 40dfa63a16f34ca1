----------------------------- MODULE LimiterProofs -----------------------------
(***************************************************************************)
(* The limiter for any number of deliveries, any budgets and any length of *)
(* a minute.  Two invariants carry it.  A limiter that a delivery refers   *)
(* to is never taken for a new one, so its slots are exactly its holders'. *)
(* And a bucket pays for what it let through: what is in it, and what left *)
(* it in the last a ticks, is no more than a full bucket and a ticks of    *)
(* refill.                                                                 *)
(***************************************************************************)
EXTENDS Limiter, FiniteSetTheorems, TLAPS

USE LimiterNames, BudgetsAssumption, ExchangeAssumption, MinuteAssumption, LimitersAssumption

-----------------------------------------------------------------------------
(* Budgets *)

(* Whatever the configuration and the mailbox row say, zero and negative numbers
   included, the limiter is built with a rate and a concurrency of at least one
   and at most what Exchange allows (clamp and effective of ratelimit.go). *)
THEOREM EffectiveInRange ==
    ASSUME NEW b \in Budget
    PROVE  /\ Effective(b).perMinute \in 1 .. ExchangeMessagesPerMinute
           /\ Effective(b).maxConcurrent \in 1 .. ExchangeConcurrentConnections
<1>1. ASSUME NEW c \in Budget
      PROVE  /\ Clamp(c).perMinute \in 1 .. ExchangeMessagesPerMinute
             /\ Clamp(c).maxConcurrent \in 1 .. ExchangeConcurrentConnections
             /\ Clamp(c) \in Budget
  BY DEF Clamp, Budget
<1>2. Defaults.perMinute \in Int /\ Defaults.maxConcurrent \in Int
  BY <1>1 DEF Defaults
<1> DEFINE c == [perMinute |-> IF b.perMinute <= 0 THEN Defaults.perMinute ELSE b.perMinute,
                 maxConcurrent |-> IF b.maxConcurrent <= 0 THEN Defaults.maxConcurrent
                                   ELSE b.maxConcurrent]
<1>3. c \in Budget
  BY <1>2 DEF Budget
<1>4. Effective(b) = Clamp(c)
  BY DEF Effective
<1> QED BY <1>1, <1>3, <1>4

-----------------------------------------------------------------------------
(* Buckets *)

LEMMA TimesPred ==
    ASSUME NEW x \in Int, NEW y \in Int
    PROVE  x * (y - 1) = x * y - x
OBVIOUS

LEMMA TimesSucc ==
    ASSUME NEW x \in Int, NEW y \in Int
    PROVE  x * (y + 1) = x * y + x
OBVIOUS

LEMMA TimesNat ==
    ASSUME NEW x \in Nat, NEW y \in Nat
    PROVE  x * y \in Nat
OBVIOUS

(* What is in the bucket, and what left it in the last a ticks, was there when
   the bucket was full or came in since. *)
BucketPays(b) ==
    \A a \in Ages : b.tokens + Minute * b.since[a] <= b.perMinute * Minute + b.perMinute * a

LEMMA DroppedPays == Dropped \in MailboxLimiter /\ BucketPays(Dropped)
<1>1. Dropped \in MailboxLimiter
  BY DEF Dropped, MailboxLimiter, Ages
<1>2. ASSUME NEW a \in Ages
      PROVE  0 + Minute * 0 <= 0 * Minute + 0 * a
  BY DEF Ages
<1> QED BY <1>1, <1>2 DEF Dropped, BucketPays

LEMMA NewPays ==
    ASSUME NEW e, e.perMinute \in Nat, e.maxConcurrent \in Nat
    PROVE  LET b == NewMailboxLimiter(e) IN
           /\ b \in MailboxLimiter /\ BucketPays(b)
           /\ b.perMinute = e.perMinute /\ b.cap = e.maxConcurrent /\ b.used = 0
<1> DEFINE b == NewMailboxLimiter(e)
<1>1. e.perMinute * Minute \in Nat
  OBVIOUS
<1>2. /\ b.perMinute = e.perMinute /\ b.cap = e.maxConcurrent /\ b.used = 0
      /\ b.tokens = e.perMinute * Minute /\ b.since = [a \in Ages |-> 0]
  BY DEF NewMailboxLimiter, Dropped
<1>3. b \in MailboxLimiter
  BY Zenon, <1>1 DEF NewMailboxLimiter, Dropped, MailboxLimiter
<1>4. ASSUME NEW a \in Ages
      PROVE  e.perMinute * Minute + Minute * 0 <= e.perMinute * Minute + e.perMinute * a
  <2>1. a \in Nat /\ e.perMinute * a \in Nat
    BY DEF Ages
  <2> QED BY <1>1, <2>1
<1> QED BY <1>2, <1>3, <1>4 DEF BucketPays

LEMMA TakenPays ==
    ASSUME NEW b \in MailboxLimiter, BucketPays(b), b.tokens >= Minute
    PROVE  /\ OneTaken(b) \in MailboxLimiter /\ BucketPays(OneTaken(b))
           /\ OneTaken(b).perMinute = b.perMinute
           /\ OneTaken(b).cap = b.cap /\ OneTaken(b).used = b.used
<1> DEFINE c == OneTaken(b)
<1>1. /\ b.perMinute \in Nat /\ b.cap \in Nat /\ b.used \in Nat /\ b.tokens \in Nat
      /\ b.since \in [Ages -> Nat]
  BY DEF MailboxLimiter
<1>2. /\ c.perMinute = b.perMinute /\ c.cap = b.cap /\ c.used = b.used
      /\ c.tokens = b.tokens - Minute /\ c.since = [a \in Ages |-> b.since[a] + 1]
  BY DEF OneTaken, MailboxLimiter
<1>3. c \in MailboxLimiter
  <2>1. b.tokens - Minute \in Nat /\ [a \in Ages |-> b.since[a] + 1] \in [Ages -> Nat]
    BY <1>1
  <2> QED BY Zenon, <1>1, <2>1 DEF OneTaken, MailboxLimiter
<1>4. ASSUME NEW a \in Ages
      PROVE  (b.tokens - Minute) + Minute * (b.since[a] + 1)
                 <= b.perMinute * Minute + b.perMinute * a
  <2>1. a \in Nat /\ b.since[a] \in Nat
    BY <1>1 DEF Ages
  <2>2. Minute * (b.since[a] + 1) = Minute * b.since[a] + Minute
    BY <2>1
  <2>3. /\ Minute * b.since[a] \in Nat /\ b.perMinute * Minute \in Nat
        /\ b.perMinute * a \in Nat
    BY <1>1, <2>1
  <2>4. b.tokens + Minute * b.since[a] <= b.perMinute * Minute + b.perMinute * a
    BY DEF BucketPays
  <2> QED BY <1>1, <2>2, <2>3, <2>4
<1> QED BY <1>2, <1>3, <1>4 DEF BucketPays

LEMMA RefillPays ==
    ASSUME NEW b \in MailboxLimiter, BucketPays(b)
    PROVE  /\ Refill(b) \in MailboxLimiter /\ BucketPays(Refill(b))
           /\ Refill(b).perMinute = b.perMinute
           /\ Refill(b).cap = b.cap /\ Refill(b).used = b.used
<1> DEFINE c == Refill(b)
           full == b.perMinute * Minute
           tokens == IF b.tokens + b.perMinute > full THEN full ELSE b.tokens + b.perMinute
<1>1. /\ b.perMinute \in Nat /\ b.cap \in Nat /\ b.used \in Nat /\ b.tokens \in Nat
      /\ b.since \in [Ages -> Nat] /\ full \in Nat
  BY DEF MailboxLimiter
<1>2. /\ c.perMinute = b.perMinute /\ c.cap = b.cap /\ c.used = b.used
      /\ c.tokens = tokens /\ c.since = Later(b.since)
  BY DEF Refill, MailboxLimiter
<1>3. tokens \in Nat /\ tokens <= full /\ tokens <= b.tokens + b.perMinute
  BY <1>1
<1>4. ASSUME NEW a \in Ages, a # 0
      PROVE  a - 1 \in Ages /\ a \in Nat /\ a - 1 \in Nat
  BY <1>4 DEF Ages
<1>5. Later(b.since) \in [Ages -> Nat]
  BY <1>1, <1>4 DEF Later
<1>6. c \in MailboxLimiter
  BY Zenon, <1>1, <1>3, <1>5 DEF Refill, MailboxLimiter
<1> HIDE DEF tokens
<1>7. ASSUME NEW a \in Ages
      PROVE  tokens + Minute * Later(b.since)[a] <= full + b.perMinute * a
  <2>1. CASE a = 0
    <3>1. Later(b.since)[a] = 0
      BY <2>1 DEF Later
    <3>2. Minute * 0 = 0 /\ b.perMinute * 0 = 0
      BY <1>1
    <3> HIDE DEF full
    <3> QED BY <1>1, <1>3, <2>1, <3>1, <3>2
  <2>2. CASE a # 0
    <3>1. Later(b.since)[a] = b.since[a - 1]
      BY <2>2 DEF Later
    <3>2. b.tokens + Minute * b.since[a - 1] <= full + b.perMinute * (a - 1)
      BY <1>4, <2>2 DEF BucketPays
    <3>3. b.perMinute * (a - 1) = b.perMinute * a - b.perMinute
      BY <1>1, <1>4, <2>2, TimesPred
    <3>4. b.since[a - 1] \in Nat /\ a \in Nat
      BY <1>1, <1>4, <2>2
    <3>5. Minute * b.since[a - 1] \in Nat /\ b.perMinute * a \in Nat
      BY <1>1, <3>4, TimesNat
    <3> HIDE DEF full
    <3> QED BY <1>1, <1>3, <3>1, <3>2, <3>3, <3>5
  <2> QED BY <2>1, <2>2
<1> QED BY <1>2, <1>6, <1>7 DEF BucketPays

(* A bucket that pays lets no more than two minutes' worth through in one. *)
LEMMA PaysBoundsBurst ==
    ASSUME NEW b \in MailboxLimiter, BucketPays(b)
    PROVE  b.since[Minute] <= 2 * b.perMinute
<1>1. /\ Minute \in Ages /\ b.perMinute \in Nat /\ b.tokens \in Nat
      /\ b.since[Minute] \in Nat
  BY DEF MailboxLimiter, Ages
<1>2. b.tokens + Minute * b.since[Minute] <= b.perMinute * Minute + b.perMinute * Minute
  BY <1>1 DEF BucketPays
<1>3. ASSUME NEW s \in Nat, NEW p \in Nat, s > 2 * p
      PROVE  Minute * s > p * Minute + p * Minute
  <2>1. s >= 2 * p + 1
    BY <1>3
  <2> DEFINE k == s - (2 * p + 1)
  <2>2. k \in Nat /\ s = (2 * p + 1) + k
    BY <2>1
  <2> HIDE DEF k
  <2>3. Minute * ((2 * p + 1) + k) = p * Minute + p * Minute + Minute + Minute * k
    BY <2>2
  <2>4. Minute * k \in Nat /\ p * Minute \in Nat
    BY <2>2, TimesNat
  <2> QED BY <2>2, <2>3, <2>4
<1> DEFINE s == b.since[Minute]
           p == b.perMinute
<1>4. Minute * s \in Nat /\ p * Minute \in Nat /\ s \in Nat /\ p \in Nat
  BY <1>1, TimesNat
<1>5. b.tokens \in Nat /\ b.tokens + Minute * s <= p * Minute + p * Minute
  BY <1>1, <1>2
<1> HIDE DEF s, p
<1>6. ~(s > 2 * p)
  BY <1>3, <1>4, <1>5
<1>7. s <= 2 * p
  BY <1>4, <1>6
<1> QED BY <1>7 DEF s, p

-----------------------------------------------------------------------------
(* The invariant *)

TypeOK ==
    /\ row \in Budgets
    /\ current \in Limiters \cup {NoLimiter}
    /\ limiter \in [Limiters -> MailboxLimiter]
    /\ call \in [Deliveries -> Call]
    /\ cancelled \in BOOLEAN

(* A delivery in Acquire or sending refers to an object that was built for it or
   found for it, and not to one that is gone. *)
RefersToLive(d) ==
    IF call[d].pc \in {"idle", "budget"} THEN call[d].lim = NoLimiter
    ELSE call[d].lim \in Limiters /\ limiter[call[d].lim].perMinute > 0

AllPay == \A l \in Limiters : BucketPays(limiter[l])

IInv ==
    /\ TypeOK
    /\ \A d \in Deliveries : RefersToLive(d)
    /\ AllPay
    /\ SlotsAccounted

Holders(l) == {d \in Deliveries : Holds(d, l)}

LEMMA HoldersFinite ==
    ASSUME NEW l
    PROVE  IsFiniteSet(Holders(l)) /\ Cardinality(Holders(l)) \in Nat
<1>1. Holders(l) \subseteq Deliveries
  BY DEF Holders
<1>2. IsFiniteSet(Holders(l))
  BY <1>1, FS_Subset
<1> QED BY <1>2, FS_CardinalityType

LEMMA InitIInv == Init => IInv
<1> SUFFICES ASSUME Init PROVE IInv
  OBVIOUS
<1>1. IdleCall \in Call
  BY DEF IdleCall, Call
<1>2. TypeOK
  BY Zenon, <1>1, DroppedPays DEF TypeOK, Init
<1>3. \A d \in Deliveries : RefersToLive(d)
  BY DEF RefersToLive, Init, IdleCall
<1>4. AllPay
  BY DroppedPays DEF AllPay, Init
<1>5. ASSUME NEW l \in Limiters
      PROVE  /\ limiter[l].used = Cardinality({d \in Deliveries : Holds(d, l)})
             /\ limiter[l].used <= limiter[l].cap
             /\ limiter[l].cap <= ExchangeConcurrentConnections
  <2>1. {d \in Deliveries : Holds(d, l)} = {}
    BY DEF Holds, Init, IdleCall
  <2>2. limiter[l].used = 0 /\ limiter[l].cap = 0
    BY DEF Init, Dropped
  <2> QED BY <2>1, <2>2, FS_EmptySet
<1> QED BY <1>2, <1>3, <1>4, <1>5 DEF IInv, SlotsAccounted

(* There is always an object for a new limiter: those in use are the current one
   and the ones other deliveries refer to. *)
LEMMA UnusedExists ==
    ASSUME TypeOK, NEW d \in Deliveries, call[d].lim = NoLimiter
    PROVE  /\ Unused \in Limiters /\ Unused # current
           /\ ~ReferencedBy(Unused, Deliveries)
<1> DEFINE lims == {call[e].lim : e \in Deliveries \ {d}}
           f == [e \in Deliveries \ {d} |-> call[e].lim]
<1>1. /\ IsFiniteSet(Deliveries \ {d})
      /\ Cardinality(Deliveries \ {d}) = Cardinality(Deliveries) - 1
      /\ Cardinality(Deliveries) \in Nat
  BY FS_RemoveElement, FS_CardinalityType
<1>2. f \in Surjection(Deliveries \ {d}, lims)
  BY DEF Surjection
<1>3. IsFiniteSet(lims) /\ Cardinality(lims) <= Cardinality(Deliveries \ {d})
  BY <1>1, <1>2, FS_Surjection
<1> HIDE DEF lims
<1>4. /\ IsFiniteSet(lims \cup {current})
      /\ Cardinality(lims \cup {current}) <= Cardinality(lims) + 1
      /\ Cardinality(lims) \in Nat
  <2>1. Cardinality(lims) \in Nat
    BY <1>3, FS_CardinalityType
  <2>2. /\ IsFiniteSet(lims \cup {current})
        /\ Cardinality(lims \cup {current}) =
              IF current \in lims THEN Cardinality(lims) ELSE Cardinality(lims) + 1
    BY <1>3, FS_AddElement
  <2> QED BY <2>1, <2>2
<1>5. Cardinality(lims \cup {current}) < Cardinality(Limiters)
  <2>1. /\ Cardinality(Limiters) \in Nat
        /\ Cardinality(lims \cup {current}) \in Nat
    BY <1>4, FS_CardinalityType
  <2> QED BY <1>1, <1>3, <1>4, <2>1
<1>6. ~(Limiters \subseteq lims \cup {current})
  <2> SUFFICES ASSUME Limiters \subseteq lims \cup {current} PROVE FALSE
    OBVIOUS
  <2>1. Cardinality(Limiters) <= Cardinality(lims \cup {current})
    BY <1>4, FS_Subset
  <2>2. Cardinality(Limiters) \in Nat /\ Cardinality(lims \cup {current}) \in Nat
    BY <1>4, FS_CardinalityType
  <2> QED BY <1>5, <2>1, <2>2
<1>7. PICK l \in Limiters : l \notin lims /\ l # current
  BY <1>6
<1>8. ~ReferencedBy(l, Deliveries)
  BY <1>7 DEF lims, ReferencedBy
<1>9. \E k \in Limiters \ {current} : ~ReferencedBy(k, Deliveries)
  BY <1>7, <1>8
<1> QED BY <1>9 DEF Unused

-----------------------------------------------------------------------------
(* One step of a delivery *)

HoldsNow(k, l) == k.lim = l /\ k.pc \in {"token", "sleep", "send"}

(* The holders of a limiter change by the delivery that moves. *)
LEMMA HoldersMove ==
    ASSUME TypeOK, NEW d \in Deliveries, NEW k, call' = [call EXCEPT ![d] = k], NEW l
    PROVE  Cardinality(Holders(l)') =
              IF Holds(d, l) THEN IF HoldsNow(k, l) THEN Cardinality(Holders(l))
                                  ELSE Cardinality(Holders(l)) - 1
              ELSE IF HoldsNow(k, l) THEN Cardinality(Holders(l)) + 1
                   ELSE Cardinality(Holders(l))
<1>1. IsFiniteSet(Holders(l)) /\ Cardinality(Holders(l)) \in Nat
  BY HoldersFinite
<1>2. /\ call'[d] = k
      /\ \A e \in Deliveries \ {d} : call'[e] = call[e]
  BY DEF TypeOK
<1>3. d \in Holders(l) <=> Holds(d, l)
  BY DEF Holders
<1>4. CASE HoldsNow(k, l)
  <2>1. Holders(l)' = Holders(l) \cup {d}
    BY <1>2, <1>4 DEF Holders, Holds, HoldsNow
  <2>2. Cardinality(Holders(l) \cup {d}) =
            IF d \in Holders(l) THEN Cardinality(Holders(l)) ELSE Cardinality(Holders(l)) + 1
    BY Zenon, <1>1, FS_AddElement
  <2> QED BY <1>3, <1>4, <2>1, <2>2
<1>5. CASE ~HoldsNow(k, l)
  <2>1. Holders(l)' = Holders(l) \ {d}
    BY <1>2, <1>5 DEF Holders, Holds, HoldsNow
  <2>2. Cardinality(Holders(l) \ {d}) =
            IF d \in Holders(l) THEN Cardinality(Holders(l)) - 1 ELSE Cardinality(Holders(l))
    BY Zenon, <1>1, FS_RemoveElement
  <2> QED BY <1>3, <1>5, <2>1, <2>2
<1> QED BY <1>4, <1>5

(* What a step of delivery d has to show for the invariant. *)
LEMMA Moves ==
    ASSUME IInv, NEW d \in Deliveries, NEW k \in Call, call' = [call EXCEPT ![d] = k],
           UNCHANGED <<row, cancelled>>,
           current' \in Limiters \cup {NoLimiter},
           limiter' \in [Limiters -> MailboxLimiter],
           AllPay',
           IF k.pc \in {"idle", "budget"} THEN k.lim = NoLimiter
           ELSE k.lim \in Limiters /\ limiter'[k.lim].perMinute > 0,
           \A l \in Limiters : ReferencedBy(l, Deliveries \ {d}) =>
              limiter'[l].perMinute = limiter[l].perMinute,
           \A l \in Limiters :
              /\ limiter'[l].used = Cardinality(Holders(l)')
              /\ limiter'[l].used <= limiter'[l].cap
              /\ limiter'[l].cap <= ExchangeConcurrentConnections
    PROVE  IInv'
<1>1. call' \in [Deliveries -> Call]
  BY DEF IInv, TypeOK
<1>2. TypeOK'
  BY <1>1 DEF IInv, TypeOK
<1>3. ASSUME NEW e \in Deliveries
      PROVE  RefersToLive(e)'
  <2>1. CASE e = d
    <3>1. call'[e] = k
      BY <2>1 DEF IInv, TypeOK
    <3> QED BY <3>1 DEF RefersToLive
  <2>2. CASE e # d
    <3>1. call'[e] = call[e] /\ RefersToLive(e)
      BY <2>2 DEF IInv, TypeOK
    <3>2. CASE call[e].pc \in {"idle", "budget"}
      BY <3>1, <3>2 DEF RefersToLive
    <3>3. CASE call[e].pc \notin {"idle", "budget"}
      <4>1. call[e].lim \in Limiters /\ limiter[call[e].lim].perMinute > 0
        BY <3>1, <3>3 DEF RefersToLive
      <4>2. ReferencedBy(call[e].lim, Deliveries \ {d})
        BY <2>2 DEF ReferencedBy
      <4>3. limiter'[call[e].lim].perMinute = limiter[call[e].lim].perMinute
        BY <4>1, <4>2
      <4> QED BY <3>1, <3>3, <4>1, <4>3 DEF RefersToLive
    <3> QED BY <3>2, <3>3
  <2> QED BY <2>1, <2>2
<1>4. SlotsAccounted'
  BY DEF SlotsAccounted, Holders
<1> QED BY <1>2, <1>3, <1>4 DEF IInv

(* The step changes no holder and no limiter. *)
LEMMA MovesAlone ==
    ASSUME IInv, NEW d \in Deliveries, NEW k \in Call, call' = [call EXCEPT ![d] = k],
           UNCHANGED <<row, cancelled, current, limiter>>,
           IF k.pc \in {"idle", "budget"} THEN k.lim = NoLimiter
           ELSE k.lim \in Limiters /\ limiter[k.lim].perMinute > 0,
           \A l \in Limiters : HoldsNow(k, l) <=> Holds(d, l)
    PROVE  IInv'
<1>1. ASSUME NEW l \in Limiters
      PROVE  Cardinality(Holders(l)') = Cardinality(Holders(l))
  BY Zenon, HoldersMove DEF IInv
<1>2. ASSUME NEW l \in Limiters
      PROVE  /\ limiter'[l].used = Cardinality(Holders(l)')
             /\ limiter'[l].used <= limiter'[l].cap
             /\ limiter'[l].cap <= ExchangeConcurrentConnections
  BY Zenon, <1>1 DEF IInv, SlotsAccounted, Holders
<1>3. AllPay'
  BY DEF IInv, AllPay
<1>4. /\ current' \in Limiters \cup {NoLimiter}
      /\ limiter' \in [Limiters -> MailboxLimiter]
      /\ \A l \in Limiters : ReferencedBy(l, Deliveries \ {d}) =>
            limiter'[l].perMinute = limiter[l].perMinute
  BY DEF IInv, TypeOK
<1> QED BY Zenon, <1>2, <1>3, <1>4, Moves

LEMMA ReadBudgetStep ==
    ASSUME IInv, NEW d \in Deliveries, ReadBudget(d)
    PROVE  IInv'
<1> DEFINE k == [IdleCall EXCEPT !.pc = "budget", !.budget = row]
<1>1. /\ k \in Call /\ k.pc = "budget" /\ k.lim = NoLimiter
      /\ call' = [call EXCEPT ![d] = k] /\ UNCHANGED <<row, current, limiter, cancelled>>
  BY Zenon DEF ReadBudget, IInv, TypeOK, IdleCall, Call
<1>2. call[d].pc = "idle"
  BY DEF ReadBudget, At
<1> HIDE DEF k
<1>3. \A l \in Limiters : HoldsNow(k, l) <=> Holds(d, l)
  BY <1>1, <1>2 DEF HoldsNow, Holds
<1> QED BY Zenon, <1>1, <1>3, MovesAlone

LEMMA ForMailboxStep ==
    ASSUME IInv, NEW d \in Deliveries, ForMailbox(d)
    PROVE  IInv'
<1> DEFINE e == Effective(call[d].budget)
<1>1. /\ call[d] \in Call /\ call[d].pc = "budget" /\ call[d].lim = NoLimiter
      /\ UNCHANGED <<row, cancelled>> /\ call[d].budget \in Budget
  BY DEF ForMailbox, At, IInv, RefersToLive, TypeOK, Call
<1>2. /\ e.perMinute \in 1 .. ExchangeMessagesPerMinute
      /\ e.maxConcurrent \in 1 .. ExchangeConcurrentConnections
  BY <1>1, EffectiveInRange
<1> HIDE DEF e
<1>3. ASSUME NEW l \in Limiters, call' = [call EXCEPT ![d].pc = "slot", ![d].lim = l]
      PROVE  \E k \in Call : /\ call' = [call EXCEPT ![d] = k] /\ k.pc = "slot" /\ k.lim = l
  <2> DEFINE k == [call[d] EXCEPT !.pc = "slot", !.lim = l]
  <2>1. k \in Call /\ k.pc = "slot" /\ k.lim = l
    BY Zenon, <1>1 DEF Call
  <2>2. call' = [call EXCEPT ![d] = k]
    BY Zenon, <1>1, <1>3 DEF IInv, TypeOK
  <2> QED BY Zenon, <2>1, <2>2
<1>4. CASE Matches(current, e) /\ UNCHANGED <<current, limiter>>
           /\ call' = [call EXCEPT ![d].pc = "slot", ![d].lim = current]
  <2>1. current \in Limiters /\ limiter[current].perMinute > 0
    BY <1>2, <1>4 DEF Matches, IInv, TypeOK
  <2>2. PICK k \in Call : call' = [call EXCEPT ![d] = k] /\ k.pc = "slot" /\ k.lim = current
    BY Zenon, <1>3, <1>4, <2>1
  <2>3. \A l \in Limiters : HoldsNow(k, l) <=> Holds(d, l)
    BY <1>1, <2>2 DEF HoldsNow, Holds
  <2> QED BY Zenon, <1>1, <1>4, <2>1, <2>2, <2>3, MovesAlone
<1>5. CASE /\ current' = Unused
           /\ call' = [call EXCEPT ![d].pc = "slot", ![d].lim = Unused]
           /\ limiter' = [j \in Limiters |->
                 IF j = Unused THEN NewMailboxLimiter(e)
                 ELSE IF ReferencedBy(j, Deliveries) THEN limiter[j] ELSE Dropped]
  <2> DEFINE u == Unused
  <2>1. u \in Limiters /\ ~ReferencedBy(u, Deliveries)
    BY <1>1, UnusedExists DEF IInv
  <2> HIDE DEF u
  <2>2. PICK k \in Call : call' = [call EXCEPT ![d] = k] /\ k.pc = "slot" /\ k.lim = u
    BY Zenon, <1>3, <1>5, <2>1 DEF u
  <2>3. ASSUME NEW l \in Limiters
        PROVE  /\ limiter'[l] \in MailboxLimiter /\ BucketPays(limiter'[l])
               /\ limiter'[l].used = Cardinality(Holders(l)')
               /\ limiter'[l].used <= limiter'[l].cap
               /\ limiter'[l].cap <= ExchangeConcurrentConnections
    <3>1. ~HoldsNow(k, l) /\ ~Holds(d, l)
      BY <1>1, <2>2 DEF HoldsNow, Holds
    <3>2. Cardinality(Holders(l)') = Cardinality(Holders(l))
      BY Zenon, <2>2, <3>1, HoldersMove DEF IInv
    <3>3. ~ReferencedBy(l, Deliveries) => Cardinality(Holders(l)) = 0
      <4> SUFFICES ASSUME ~ReferencedBy(l, Deliveries) PROVE Cardinality(Holders(l)) = 0
        OBVIOUS
      <4>1. Holders(l) = {}
        BY DEF Holders, Holds, ReferencedBy
      <4> QED BY <4>1, FS_EmptySet
    <3>4. CASE l = u
      <4>1. limiter'[l] = NewMailboxLimiter(e)
        BY <1>5, <3>4 DEF u
      <4>2. /\ NewMailboxLimiter(e) \in MailboxLimiter /\ BucketPays(NewMailboxLimiter(e))
            /\ NewMailboxLimiter(e).cap = e.maxConcurrent /\ NewMailboxLimiter(e).used = 0
        BY <1>2, NewPays
      <4> QED BY <1>2, <2>1, <3>2, <3>3, <3>4, <4>1, <4>2
    <3>5. CASE l # u /\ ReferencedBy(l, Deliveries)
      <4>1. limiter'[l] = limiter[l]
        BY <1>5, <3>5 DEF u
      <4> QED BY <3>2, <4>1 DEF IInv, TypeOK, AllPay, SlotsAccounted, Holders
    <3>6. CASE l # u /\ ~ReferencedBy(l, Deliveries)
      <4>1. limiter'[l] = Dropped /\ Dropped.used = 0 /\ Dropped.cap = 0
        BY <1>5, <3>6 DEF u, Dropped
      <4> QED BY <3>2, <3>3, <3>6, <4>1, DroppedPays
    <3> QED BY <3>4, <3>5, <3>6
  <2>4. limiter' \in [Limiters -> MailboxLimiter]
    <3>1. limiter' = [l \in Limiters |-> limiter'[l]]
      BY <1>5
    <3> QED BY <2>3, <3>1
  <2>5. AllPay'
    BY <2>3 DEF AllPay
  <2>6. limiter'[u].perMinute > 0
    BY <1>2, <1>5, <2>1, NewPays DEF u
  <2>7. \A l \in Limiters : ReferencedBy(l, Deliveries \ {d}) =>
            limiter'[l].perMinute = limiter[l].perMinute
    BY <1>5, <2>1 DEF ReferencedBy, u
  <2>8. current' \in Limiters \cup {NoLimiter}
    BY <1>5, <2>1 DEF u
  <2>9. IF k.pc \in {"idle", "budget"} THEN k.lim = NoLimiter
        ELSE k.lim \in Limiters /\ limiter'[k.lim].perMinute > 0
    BY <2>1, <2>2, <2>6
  <2> QED BY <1>1, <2>2, <2>3, <2>4, <2>5, <2>7, <2>8, <2>9, Moves, Zenon
<1> QED BY <1>4, <1>5 DEF ForMailbox, e

LEMMA TakeSlotStep ==
    ASSUME IInv, NEW d \in Deliveries, TakeSlot(d)
    PROVE  IInv'
<1> DEFINE l == call[d].lim
           k == [call[d] EXCEPT !.pc = "token"]
           b == [limiter[l] EXCEPT !.used = @ + 1]
<1>1. /\ call[d] \in Call /\ call[d].pc = "slot" /\ UNCHANGED <<row, cancelled, current>>
      /\ l \in Limiters /\ limiter[l].perMinute > 0 /\ limiter[l].used < limiter[l].cap
      /\ limiter[l] \in MailboxLimiter
  BY DEF TakeSlot, At, IInv, RefersToLive, TypeOK, Call
<1>2. /\ k \in Call /\ k.pc = "token" /\ k.lim = l /\ call' = [call EXCEPT ![d] = k]
  BY <1>1 DEF TakeSlot, IInv, TypeOK, Call
<1>3. /\ b \in MailboxLimiter /\ limiter' = [limiter EXCEPT ![l] = b]
      /\ b.used = limiter[l].used + 1 /\ b.cap = limiter[l].cap
      /\ b.perMinute = limiter[l].perMinute /\ b.tokens = limiter[l].tokens
      /\ b.since = limiter[l].since
  <2>1. limiter' = [limiter EXCEPT ![l] = b]
    BY DEF TakeSlot
  <2>2. limiter[l].used + 1 \in Nat
    BY <1>1 DEF MailboxLimiter
  <2>3. b \in MailboxLimiter
    BY <1>1, <2>2 DEF MailboxLimiter
  <2>4. /\ b.used = limiter[l].used + 1 /\ b.cap = limiter[l].cap
        /\ b.perMinute = limiter[l].perMinute /\ b.tokens = limiter[l].tokens
        /\ b.since = limiter[l].since
    BY <1>1 DEF MailboxLimiter
  <2> QED BY <2>1, <2>3, <2>4
<1> HIDE DEF l, k, b
<1>4. /\ limiter' \in [Limiters -> MailboxLimiter]
      /\ limiter'[l] = b /\ \A m \in Limiters \ {l} : limiter'[m] = limiter[m]
  BY <1>1, <1>3 DEF IInv, TypeOK
<1>5. AllPay'
  <2>1. BucketPays(b)
    BY <1>1, <1>3 DEF IInv, AllPay, BucketPays
  <2> QED BY <1>4, <2>1 DEF IInv, AllPay
<1>6. ASSUME NEW m \in Limiters
      PROVE  /\ limiter'[m].used = Cardinality(Holders(m)')
             /\ limiter'[m].used <= limiter'[m].cap
             /\ limiter'[m].cap <= ExchangeConcurrentConnections
  <2>1. ~Holds(d, m) /\ (HoldsNow(k, m) <=> m = l)
    BY <1>1, <1>2 DEF Holds, HoldsNow
  <2>2. Cardinality(Holders(m)') =
            IF m = l THEN Cardinality(Holders(m)) + 1 ELSE Cardinality(Holders(m))
    BY Zenon, <1>2, <2>1, HoldersMove DEF IInv
  <2>3. /\ limiter[m].used = Cardinality(Holders(m)) /\ limiter[m].used <= limiter[m].cap
        /\ limiter[m].cap <= ExchangeConcurrentConnections
        /\ limiter[m].used \in Nat /\ limiter[m].cap \in Nat
    BY DEF IInv, SlotsAccounted, Holders, TypeOK, MailboxLimiter
  <2> QED BY <1>1, <1>3, <1>4, <2>2, <2>3
<1>7. \A m \in Limiters : limiter'[m].perMinute = limiter[m].perMinute
  BY <1>3, <1>4
<1>8. /\ current' \in Limiters \cup {NoLimiter} /\ limiter'[k.lim].perMinute > 0
      /\ k.lim \in Limiters /\ k.pc \notin {"idle", "budget"}
  BY <1>1, <1>2, <1>7 DEF IInv, TypeOK
<1> QED BY Zenon, <1>1, <1>2, <1>4, <1>5, <1>6, <1>7, <1>8, Moves

LEMMA TakeStep ==
    ASSUME IInv, NEW d \in Deliveries, Take(d)
    PROVE  IInv'
<1> DEFINE l == call[d].lim
           missing == Minute - limiter[l].tokens
<1>1. /\ call[d] \in Call /\ call[d].pc = "token" /\ UNCHANGED <<row, cancelled, current>>
      /\ l \in Limiters /\ limiter[l].perMinute > 0 /\ limiter[l] \in MailboxLimiter
      /\ limiter[l].perMinute \in Nat /\ limiter[l].tokens \in Nat
  BY DEF Take, At, IInv, RefersToLive, TypeOK, Call, MailboxLimiter
<1>2. CASE missing <= 0 /\ limiter' = [limiter EXCEPT ![l] = OneTaken(@)]
           /\ call' = [call EXCEPT ![d].pc = "send"]
  <2> DEFINE k == [call[d] EXCEPT !.pc = "send"]
             b == OneTaken(limiter[l])
  <2>1. k \in Call /\ k.pc = "send" /\ k.lim = l /\ call' = [call EXCEPT ![d] = k]
    BY <1>1, <1>2 DEF IInv, TypeOK, Call
  <2>2. /\ b \in MailboxLimiter /\ BucketPays(b) /\ b.perMinute = limiter[l].perMinute
        /\ b.cap = limiter[l].cap /\ b.used = limiter[l].used
    <3>1. limiter[l].tokens >= Minute /\ BucketPays(limiter[l])
      BY <1>1, <1>2 DEF IInv, AllPay
    <3> QED BY <1>1, <3>1, TakenPays
  <2>3. limiter' = [limiter EXCEPT ![l] = b]
    BY <1>2
  <2> HIDE DEF l, k, b
  <2>4. /\ limiter' \in [Limiters -> MailboxLimiter]
        /\ limiter'[l] = b /\ \A m \in Limiters \ {l} : limiter'[m] = limiter[m]
    BY <1>1, <2>2, <2>3 DEF IInv, TypeOK
  <2>5. AllPay'
    BY <2>2, <2>4 DEF IInv, AllPay
  <2>6. \A m \in Limiters : /\ limiter'[m].perMinute = limiter[m].perMinute
                             /\ limiter'[m].used = limiter[m].used
                             /\ limiter'[m].cap = limiter[m].cap
    BY <2>2, <2>4
  <2>7. ASSUME NEW m \in Limiters
        PROVE  /\ limiter'[m].used = Cardinality(Holders(m)')
               /\ limiter'[m].used <= limiter'[m].cap
               /\ limiter'[m].cap <= ExchangeConcurrentConnections
    <3>1. HoldsNow(k, m) <=> Holds(d, m)
      BY <1>1, <2>1 DEF Holds, HoldsNow, l
    <3>2. Cardinality(Holders(m)') = Cardinality(Holders(m))
      BY Zenon, <2>1, <3>1, HoldersMove DEF IInv
    <3> QED BY <2>6, <3>2 DEF IInv, SlotsAccounted, Holders
  <2>8. /\ current' \in Limiters \cup {NoLimiter} /\ limiter'[k.lim].perMinute > 0
        /\ k.lim \in Limiters /\ k.pc \notin {"idle", "budget"}
    BY <1>1, <2>1, <2>6 DEF IInv, TypeOK
  <2> QED BY Zenon, <1>1, <2>1, <2>4, <2>5, <2>6, <2>7, <2>8, Moves
<1>3. CASE missing > 0 /\ UNCHANGED limiter
           /\ call' = [call EXCEPT ![d].pc = "sleep",
                  ![d].wake = (missing + limiter[l].perMinute - 1) \div limiter[l].perMinute]
  <2> DEFINE w == (missing + limiter[l].perMinute - 1) \div limiter[l].perMinute
             k == [call[d] EXCEPT !.pc = "sleep", !.wake = w]
  <2>1. w \in Nat
    <3>1. missing + limiter[l].perMinute - 1 \in Nat /\ limiter[l].perMinute \in Nat \ {0}
      BY <1>1, <1>3
    <3> QED BY <3>1
  <2>2. call' = [call EXCEPT ![d] = k]
    BY Zenon, <1>1, <1>3 DEF IInv, TypeOK
  <2> HIDE DEF w
  <2>3. k \in Call /\ k.pc = "sleep" /\ k.lim = l
    BY Zenon, <1>1, <2>1 DEF Call
  <2> HIDE DEF l, k
  <2>4. \A m \in Limiters : HoldsNow(k, m) <=> Holds(d, m)
    BY <1>1, <2>3 DEF Holds, HoldsNow, l
  <2> QED BY Zenon, <1>1, <1>3, <2>2, <2>3, <2>4, MovesAlone
<1> QED BY Zenon, <1>2, <1>3 DEF Take

LEMMA WakeStep ==
    ASSUME IInv, NEW d \in Deliveries, Wake(d)
    PROVE  IInv'
<1> DEFINE k == [call[d] EXCEPT !.pc = "token"]
<1>1. /\ call[d] \in Call /\ call[d].pc = "sleep"
      /\ call[d].lim \in Limiters /\ limiter[call[d].lim].perMinute > 0
      /\ UNCHANGED <<row, cancelled, current, limiter>>
  BY DEF Wake, At, IInv, RefersToLive, TypeOK, Call
<1>2. k \in Call /\ k.pc = "token" /\ k.lim = call[d].lim /\ call' = [call EXCEPT ![d] = k]
  BY <1>1 DEF Wake, IInv, TypeOK, Call
<1> HIDE DEF k
<1>3. \A m \in Limiters : HoldsNow(k, m) <=> Holds(d, m)
  BY <1>1, <1>2 DEF Holds, HoldsNow
<1> QED BY Zenon, <1>1, <1>2, <1>3, MovesAlone

(* A delivery that leaves gives back the slots it holds, or its limiter is gone
   and nobody else holds one of it. *)
LEMMA LeaveStep ==
    ASSUME IInv, NEW d \in Deliveries, NEW n \in {0, 1}, Leave(d, n),
           call[d].pc \notin {"idle", "budget"},
           n = IF call[d].pc = "slot" THEN 0 ELSE 1
    PROVE  IInv'
<1>0. PICK l \in Limiters : l = call[d].lim
  BY DEF IInv, RefersToLive
<1> DEFINE kept == l = current \/ ReferencedBy(l, Deliveries \ {d})
           b == IF kept THEN [limiter[l] EXCEPT !.used = @ - n] ELSE Dropped
<1>1. /\ call[d] \in Call /\ UNCHANGED <<row, cancelled, current>>
      /\ limiter[l] \in MailboxLimiter
      /\ call' = [call EXCEPT ![d] = IdleCall]
  BY DEF Leave, IInv, TypeOK
<1>2. limiter' = [limiter EXCEPT ![l] = b]
  BY <1>0 DEF Leave
<1>3. IdleCall \in Call /\ IdleCall.pc = "idle" /\ IdleCall.lim = NoLimiter
  BY DEF IdleCall, Call
<1>4. Holds(d, l) <=> n = 1
  BY <1>0, <1>1 DEF Holds, Call
<1>5. /\ limiter[l].used = Cardinality(Holders(l)) /\ limiter[l].used <= limiter[l].cap
      /\ limiter[l].cap <= ExchangeConcurrentConnections
      /\ limiter[l].used \in Nat /\ limiter[l].cap \in Nat
  BY <1>1 DEF IInv, SlotsAccounted, Holders, MailboxLimiter
<1>6. Cardinality(Holders(l)') = limiter[l].used - n /\ Cardinality(Holders(l)') \in Nat
  <2>1. ~HoldsNow(IdleCall, l)
    BY <1>3 DEF HoldsNow
  <2>2. Cardinality(Holders(l)') = IF Holds(d, l) THEN Cardinality(Holders(l)) - 1
                                  ELSE Cardinality(Holders(l))
    BY Zenon, <1>1, <2>1, HoldersMove DEF IInv
  <2>3. IsFiniteSet(Holders(l)') /\ Cardinality(Holders(l)') \in Nat
    <3>1. Holders(l)' \subseteq Deliveries
      BY DEF Holders
    <3>2. IsFiniteSet(Holders(l)')
      BY <3>1, FS_Subset
    <3> QED BY <3>2, FS_CardinalityType
  <2> QED BY <1>4, <1>5, <2>2, <2>3
<1>7. /\ b \in MailboxLimiter /\ BucketPays(b)
      /\ b.used = Cardinality(Holders(l)') /\ b.used <= b.cap
      /\ b.cap <= ExchangeConcurrentConnections
      /\ kept => b.perMinute = limiter[l].perMinute
  <2>1. CASE kept
    <3>1. b = [limiter[l] EXCEPT !.used = @ - n]
      BY <2>1
    <3>2. limiter[l].used - n \in Nat
      BY <1>6
    <3>3. b \in MailboxLimiter
      BY <1>1, <3>1, <3>2 DEF MailboxLimiter
    <3>4. /\ b.used = limiter[l].used - n /\ b.cap = limiter[l].cap
          /\ b.perMinute = limiter[l].perMinute /\ b.tokens = limiter[l].tokens
          /\ b.since = limiter[l].since
      BY <1>1, <3>1 DEF MailboxLimiter
    <3> HIDE DEF b
    <3>5. BucketPays(b)
      BY <1>1, <3>4 DEF IInv, AllPay, BucketPays
    <3> QED BY <1>5, <1>6, <3>3, <3>4, <3>5
  <2>2. CASE ~kept
    <3>1. b = Dropped /\ Dropped.used = 0 /\ Dropped.cap = 0
      BY <2>2 DEF Dropped
    <3>2. \A e \in Deliveries \ {d} : call[e].lim # l
      BY <2>2 DEF ReferencedBy
    <3>3. Holders(l)' = {}
      BY <1>1, <1>3, <3>2 DEF Holders, Holds, IInv, TypeOK
    <3>4. Cardinality(Holders(l)') = 0
      BY <3>3, FS_EmptySet
    <3> QED BY <2>2, <3>1, <3>4, DroppedPays
  <2> QED BY <2>1, <2>2
<1> HIDE DEF b
<1>8. /\ limiter' \in [Limiters -> MailboxLimiter]
      /\ limiter'[l] = b /\ \A m \in Limiters \ {l} : limiter'[m] = limiter[m]
  BY <1>2, <1>7 DEF IInv, TypeOK
<1>9. AllPay'
  BY <1>7, <1>8 DEF IInv, AllPay
<1>10. ASSUME NEW m \in Limiters
      PROVE  /\ limiter'[m].used = Cardinality(Holders(m)')
             /\ limiter'[m].used <= limiter'[m].cap
             /\ limiter'[m].cap <= ExchangeConcurrentConnections
  <2>1. CASE m = l
    BY <1>7, <1>8, <2>1
  <2>2. CASE m # l
    <3>1. ~HoldsNow(IdleCall, m) /\ ~Holds(d, m)
      BY <1>0, <1>3, <2>2 DEF HoldsNow, Holds
    <3>2. Cardinality(Holders(m)') = Cardinality(Holders(m))
      BY Zenon, <1>1, <3>1, HoldersMove DEF IInv
    <3>3. limiter'[m] = limiter[m]
      BY <1>8, <2>2
    <3> QED BY <3>2, <3>3 DEF IInv, SlotsAccounted, Holders
  <2> QED BY <2>1, <2>2
<1>11. \A m \in Limiters : ReferencedBy(m, Deliveries \ {d}) =>
          limiter'[m].perMinute = limiter[m].perMinute
  BY <1>7, <1>8
<1>12. current' \in Limiters \cup {NoLimiter}
  BY <1>1 DEF IInv, TypeOK
<1> QED BY Zenon, <1>1, <1>3, <1>8, <1>9, <1>10, <1>11, <1>12, Moves

LEMMA TickStep == IInv /\ Tick => IInv'
<1> SUFFICES ASSUME IInv, Tick PROVE IInv'
  OBVIOUS
<1>1. ASSUME NEW l \in Limiters
      PROVE  /\ limiter'[l] \in MailboxLimiter /\ BucketPays(limiter'[l])
             /\ limiter'[l].perMinute = limiter[l].perMinute
             /\ limiter'[l].cap = limiter[l].cap /\ limiter'[l].used = limiter[l].used
  <2>1. limiter'[l] = Refill(limiter[l])
    BY DEF Tick
  <2>2. limiter[l] \in MailboxLimiter /\ BucketPays(limiter[l])
    BY DEF IInv, TypeOK, AllPay
  <2> QED BY <2>1, <2>2, RefillPays
<1>2. ASSUME NEW d \in Deliveries
      PROVE  call'[d] \in Call /\ call'[d].pc = call[d].pc /\ call'[d].lim = call[d].lim
  <2>1. call'[d] = [call[d] EXCEPT !.wake = IF @ > 0 THEN @ - 1 ELSE 0]
    BY DEF Tick
  <2>2. call[d] \in Call
    BY DEF IInv, TypeOK
  <2>3. (IF call[d].wake > 0 THEN call[d].wake - 1 ELSE 0) \in Nat
    BY <2>2 DEF Call
  <2> QED BY <2>1, <2>2, <2>3 DEF Call
<1>3. TypeOK'
  <2>1. limiter' = [l \in Limiters |-> limiter'[l]] /\ call' = [d \in Deliveries |-> call'[d]]
    BY DEF Tick
  <2>2. limiter' \in [Limiters -> MailboxLimiter] /\ call' \in [Deliveries -> Call]
    BY <1>1, <1>2, <2>1
  <2> QED BY <2>2 DEF Tick, IInv, TypeOK
<1>4. \A d \in Deliveries : RefersToLive(d)'
  BY <1>1, <1>2 DEF IInv, RefersToLive
<1>5. AllPay'
  BY <1>1 DEF AllPay
<1>6. SlotsAccounted'
  <2>1. ASSUME NEW l \in Limiters
        PROVE  {d \in Deliveries : Holds(d, l)}' = {d \in Deliveries : Holds(d, l)}
    BY <1>2 DEF Holds
  <2> QED BY <1>1, <2>1 DEF IInv, SlotsAccounted
<1> QED BY <1>3, <1>4, <1>5, <1>6 DEF IInv

LEMMA NextIInv == IInv /\ [Next]_vars => IInv'
<1> SUFFICES ASSUME IInv, [Next]_vars PROVE IInv'
  OBVIOUS
<1>1. CASE UNCHANGED <<current, limiter, call>> /\ row' \in Budgets /\ cancelled' \in BOOLEAN
  BY <1>1 DEF IInv, TypeOK, RefersToLive, AllPay, SlotsAccounted, Holds
<1>2. CASE SetBudget
  BY <1>1, <1>2 DEF SetBudget, IInv, TypeOK
<1>3. CASE Shutdown
  BY <1>1, <1>3 DEF Shutdown, IInv, TypeOK
<1>4. CASE UNCHANGED vars
  BY <1>1, <1>4 DEF vars, IInv, TypeOK
<1>5. CASE Tick
  BY <1>5, TickStep
<1>6. ASSUME NEW d \in Deliveries, Step(d)
      PROVE  IInv'
  <2>1. CASE Release(d)
    BY <2>1, LeaveStep DEF Release, At
  <2>2. CASE Cancel(d)
    BY <2>2, LeaveStep DEF Cancel, At
  <2> QED BY <1>6, <2>1, <2>2, ReadBudgetStep, ForMailboxStep, TakeSlotStep, TakeStep, WakeStep
       DEF Step
<1> QED BY <1>2, <1>3, <1>4, <1>5, <1>6 DEF Next

LEMMA AlwaysIInv == Spec => []IInv
BY InitIInv, NextIInv, PTL DEF Spec

-----------------------------------------------------------------------------
(* The theorems *)

(* Over rebuilds, cancelled waits and late releases into a replaced limiter, a
   semaphore holds exactly the slots of the deliveries that took them and never
   more than Exchange allows (Acquire and forMailbox of ratelimit.go). *)
THEOREM SlotsAccountedAlways == Spec => []SlotsAccounted
<1>1. IInv => SlotsAccounted
  BY DEF IInv
<1> QED BY <1>1, AlwaysIInv, PTL

(* Whatever the pattern of waits and retries, no limiter lets more than two
   minutes' worth of its rate through in a minute (take and refill). *)
THEOREM BurstBoundedAlways == Spec => []BurstBounded
<1>1. IInv => BurstBounded
  <2> SUFFICES ASSUME IInv, NEW l \in Limiters
               PROVE  limiter[l].since[Minute] <= 2 * limiter[l].perMinute
    BY DEF BurstBounded
  <2>1. limiter[l] \in MailboxLimiter /\ BucketPays(limiter[l])
    BY DEF IInv, TypeOK, AllPay
  <2> QED BY <2>1, PaysBoundsBurst
<1> QED BY <1>1, AlwaysIInv, PTL

(* A delivery that waits for a token or holds one waits on a limiter whose rate
   is at least one message a minute, so that take's division by the rate is
   never a division by zero and every wait it returns is finite. *)
THEOREM WaitersHaveARate ==
    Spec => [](\A d \in Deliveries :
                  call[d].pc \in {"token", "sleep", "send"} =>
                     limiter[call[d].lim].perMinute > 0)
<1>1. IInv => \A d \in Deliveries :
                 call[d].pc \in {"token", "sleep", "send"} =>
                    limiter[call[d].lim].perMinute > 0
  BY DEF IInv, RefersToLive
<1> QED BY <1>1, AlwaysIInv, PTL
=============================================================================
