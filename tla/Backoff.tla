------------------------------- MODULE Backoff -------------------------------
(***************************************************************************)
(* The retry schedule of internal/queue/backoff.go, as operators.          *)
(*                                                                         *)
(* Time is counted in whole ticks.  The code compares instants (now,       *)
(* receivedAt, the retry time); here every instant is given relative to    *)
(* "now": age is now - receivedAt, and a retry time is the number of ticks *)
(* until it.  A random jitter makes the schedule a set of possible         *)
(* answers, one of which the code draws.                                   *)
(***************************************************************************)
EXTENDS Integers, Sequences

CONSTANTS
    Delays,         \* Backoff.Delays: the configured delays, in order
    JitterPercent,  \* Backoff.Jitter, as a percentage of the delay
    MaxAttempts,    \* Backoff.MaxAttempts; 0 means no limit
    MaxAge          \* Backoff.MaxAge; 0 means no limit

ASSUME DelaysAssumption == Delays \in Seq(Nat)
ASSUME JitterAssumption == JitterPercent \in Int
ASSUME MaxAttemptsAssumption == MaxAttempts \in Nat
ASSUME MaxAgeAssumption == MaxAge \in Nat

(* The answer "do not retry": NextAttempt's second result is false. *)
GiveUp == -1

(* DefaultDelays, in minutes. *)
DefaultDelays == <<1, 5, 15, 60, 240, 720>>

(* clampJitter, on percentages. *)
ClampJitter(j) == IF j < 0 THEN 0 ELSE IF j > 100 THEN 100 ELSE j

(* The delay before jitter: the first delay after the first failure, the
   last one for ever once the list runs out. *)
BaseDelay(attempts) ==
    LET delays == IF Delays = <<>> THEN DefaultDelays ELSE Delays
        index  == IF attempts < 1 THEN 1 ELSE attempts
    IN  delays[IF index > Len(delays) THEN Len(delays) ELSE index]

(* delayFor: jitter only ever shortens the delay. *)
DelayFor(attempts) ==
    LET delay  == BaseDelay(attempts)
        spread == (delay * ClampJitter(JitterPercent)) \div 100
    IN  (delay - spread) .. delay

(* Mutant: the deadline is compared with the current time. *)
NextAttemptIgnoringDelay(age, attempts) ==
    IF MaxAttempts > 0 /\ attempts >= MaxAttempts
    THEN {GiveUp}
    ELSE {IF MaxAge > 0 /\ age > MaxAge THEN GiveUp ELSE delay :
            delay \in DelayFor(attempts)}

(* NextAttempt: the possible answers for a message of the given age that has
   just failed for the attempts-th time. *)
NextAttempt(age, attempts) ==
    IF MaxAttempts > 0 /\ attempts >= MaxAttempts
    THEN {GiveUp}
    ELSE {IF MaxAge > 0 /\ age + delay > MaxAge THEN GiveUp ELSE delay :
            delay \in DelayFor(attempts)}

(* NextAttemptAfter: the later of the schedule's answer and the delay the
   upstream asked for.  The deadline is not looked at again. *)
NextAttemptAfter(age, attempts, requested) ==
    {IF next # GiveUp /\ requested > next THEN requested ELSE next :
        next \in NextAttempt(age, attempts)}
=============================================================================
