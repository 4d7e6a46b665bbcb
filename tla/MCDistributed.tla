---------------------------- MODULE MCDistributed ----------------------------
(* Instances of Distributed for TLC.                                       *)
EXTENDS Distributed

CONSTANTS c1, c2, c3

(* Two of the connections are to one user.                                 *)
Peer == [c \in Conns |-> IF c = c2 THEN "b" ELSE "a"]
=============================================================================
