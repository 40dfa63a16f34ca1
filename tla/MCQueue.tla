------------------------------- MODULE MCQueue -------------------------------
(***************************************************************************)
(* Instances of Queue for TLC.  Slots s1 and s2 belong to replica r1 and   *)
(* slot s3 to r2, so {s1, s3} is two replicas of one worker each; with s2, *)
(* two workers share the name of the lease owner.                          *)
(***************************************************************************)
EXTENDS Queue

CONSTANTS b1, r1, r2, s3

MCMailboxOf == [m \in Messages |-> b1]
MCReplicaOf == [s \in Slots |-> IF s = s3 THEN r2 ELSE r1]
MCDelays == <<1, 2>>
=============================================================================
