------------------------------ MODULE MCLimiter ------------------------------
(***************************************************************************)
(* An instance of Limiter for TLC.  A minute is two ticks long and the     *)
(* rate is one or two messages, so that buckets run dry.                   *)
(***************************************************************************)
EXTENDS Limiter

(* The configuration asks for more than Exchange allows. *)
MCConfigured == [perMinute |-> 9, maxConcurrent |-> 9]

(* An operator alternates between a small budget and none of the mailbox's own. *)
MCBudgets == {[perMinute |-> 1, maxConcurrent |-> 1], [perMinute |-> 0, maxConcurrent |-> 0]}
=============================================================================
