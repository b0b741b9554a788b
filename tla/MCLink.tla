------------------------------- MODULE MCLink -------------------------------
(* Small instances of Link for TLC.                                        *)
EXTENDS Link

CONSTANTS a, b, c

\* Links in both directions between two clients, and one to a third.
Triangle == {<<a, b>>, <<b, a>>, <<a, c>>}
\* Two events between a and b, so that their rendezvous overlap.
TwoFirst == [p \in Pairs |-> IF p = <<a, b>> THEN Names ELSE {"x"}]

OnePair == {<<a, b>>}

\* The third client runs on another host.
LocalPairs == [p \in Pairs |-> c \notin {p[1], p[2]}]

=============================================================================
