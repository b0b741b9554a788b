------------------------------ MODULE MCAwait ------------------------------
(* Small instances of Await for TLC.                                       *)
EXTENDS Await

CONSTANTS a, b

X(c) == <<c, "x">>

WheneverX == {X(a), X(b)}

\* await s->x
AwaitX(id, c) == [stmt |-> id, want |-> {X(c)}, except |-> {}, only |-> FALSE]

OneAwait == {AwaitX(1, a)}

\* Two statements, one of them "only".
TwoAwaits == {AwaitX(1, a), [AwaitX(2, b) EXCEPT !.only = TRUE]}

=============================================================================
