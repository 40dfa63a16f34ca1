------------------------------ MODULE MCUpstream ------------------------------
(***************************************************************************)
(* An instance of Upstream for TLC: a message too large for Graph, whose   *)
(* mailbox is switched to it at times, and one over Graph.                 *)
(***************************************************************************)
EXTENDS Upstream

MCTransportsOf ==
    [d \in Deliveries |-> IF d \in Large THEN {"smtp", "graph"} ELSE {"graph"}]
MCRecipients == <<"x", "y">>
(* y is a blind copy, z got its copy from elsewhere. *)
MCInHeaders == [d \in Deliveries |-> {"x", "z"}]
=============================================================================
