--------------------------- MODULE MessageLifecycle ---------------------------
(***************************************************************************)
(* What the delivery queue promises about one accepted message, seen from  *)
(* outside: no leases, workers, clocks or retries.                         *)
(*                                                                         *)
(* A message is pending from the moment the proxy answered 250 until it is *)
(* recorded as sent or failed, held by an operator, or discarded.  copies  *)
(* counts how often the upstream took it.  Copies only leave while the     *)
(* message is pending, a message recorded as sent has at least one, and    *)
(* nothing brings a sent or discarded message back.                        *)
(***************************************************************************)
EXTENDS Integers

CONSTANT Messages

VARIABLES
    stage,   \* where each message stands
    copies   \* how many times the upstream accepted it

vars == <<stage, copies>>

Stages == {"absent", "pending", "held", "sent", "failed", "gone"}

Init ==
    /\ stage = [m \in Messages |-> "absent"]
    /\ copies = [m \in Messages |-> 0]

(* m goes from one of the stages in from to the stage to. *)
Move(m, from, to) ==
    /\ stage[m] \in from
    /\ stage' = [stage EXCEPT ![m] = to]
    /\ UNCHANGED copies

(* The proxy takes responsibility for a message. *)
Accept(m) == Move(m, {"absent"}, "pending")

(* The upstream takes a copy. *)
Transmit(m) ==
    /\ stage[m] = "pending"
    /\ copies' = [copies EXCEPT ![m] = @ + 1]
    /\ UNCHANGED stage

(* The delivery is recorded, which needs a copy to have gone out. *)
Confirm(m) == copies[m] > 0 /\ Move(m, {"pending"}, "sent")

(* The message is given up on. *)
GiveUp(m) == Move(m, {"pending"}, "failed")

(* An operator takes the message out of rotation, or puts it back. *)
Hold(m) == Move(m, {"pending", "failed"}, "held")
Retry(m) == Move(m, {"failed", "held"}, "pending")

(* Messages leave the store: one at an operator's request, or all those the
   retention period has caught up with. *)
Discard ==
    /\ \E gone \in SUBSET {m \in Messages : stage[m] \notin {"absent", "gone"}} :
          stage' = [m \in Messages |-> IF m \in gone THEN "gone" ELSE stage[m]]
    /\ UNCHANGED copies

Next ==
    \/ \E m \in Messages :
          \/ Accept(m) \/ Transmit(m) \/ Confirm(m) \/ GiveUp(m)
          \/ Hold(m) \/ Retry(m)
    \/ Discard

Spec == Init /\ [][Next]_vars
=============================================================================
