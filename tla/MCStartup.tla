------------------------------ MODULE MCStartup ------------------------------
(***************************************************************************)
(* Instances of Startup for TLC: replicas p1 and p2, of which p1 runs the  *)
(* older binary; a file that declares everything and one that refers to a  *)
(* credential and a mailbox outside of it; an empty database and one that  *)
(* operators filled.                                                       *)
(***************************************************************************)
EXTENDS Startup

CONSTANTS p1, c1, b1, b2, a1

MCVersion == [p \in Replicas |-> IF p = p1 THEN 1 ELSE 2]

Whole == [order |-> <<c1, b1, a1>>,
          refs |-> [n \in {c1, b1, a1} |->
                      CASE n = c1 -> << >> [] n = b1 -> <<c1>> [] OTHER -> <<b1>>],
          default |-> [n \in {c1, b1, a1} |-> 0]]
Partial == [order |-> <<b2, a1>>,
            refs |-> [n \in {b2, a1} |-> IF n = b2 THEN <<c1>> ELSE <<b1, b2>>],
            default |-> [n \in {b2, a1} |-> IF n = b2 THEN 0 ELSE 2]]
MCFiles == {Whole, Partial}

Filled == {[Fresh(c1, NoId) EXCEPT !.id = 1], [Fresh(b1, 1) EXCEPT !.id = 2]}
MCSeeds == {{}, Filled}
=============================================================================
