------------------------------ MODULE MCGlishd ------------------------------
EXTENDS Glishd, TLC

CONSTANTS u1, u2, n1, k3

(* Two users of one group, and a client they share; k3 is the second user's connection. *)
MCGroupOf == [u \in Users |-> "staff"]
MCShareOf == [n \in Names |-> "GROUP"]
MCUserOf == [k \in Conns |-> IF k = k3 THEN u2 ELSE u1]
=============================================================================
