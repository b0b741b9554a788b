------------------------------- MODULE Stream -------------------------------
(***************************************************************************)
(* What a sender of events expects of a sink: the bytes it puts are read   *)
(* at the other end, each once, unaltered and in the order they were put,  *)
(* and all of them as long as neither end gives the connection up.         *)
(*                                                                         *)
(* The bytes are numbered from 1 in the order in which they are put.       *)
(***************************************************************************)
EXTENDS Naturals, Sequences

VARIABLES
    put,    \* the number of bytes put so far
    got,    \* the bytes read so far
    alive   \* neither end has given the connection up

vars == <<put, got, alive>>

Init == put = 0 /\ got = <<>> /\ alive = TRUE

Put(n) == /\ put' = put + n
          /\ UNCHANGED <<got, alive>>

Deliver == /\ Len(got) < put
           /\ got' = Append(got, Len(got) + 1)
           /\ UNCHANGED <<put, alive>>

Break == /\ alive
         /\ alive' = FALSE
         /\ UNCHANGED <<put, got>>

\* The bytes put in one step are put' - put.
Next == (put' > put /\ Put(put' - put)) \/ Deliver \/ Break

Spec == Init /\ [][Next]_vars /\ WF_vars(alive /\ Deliver)
=============================================================================
