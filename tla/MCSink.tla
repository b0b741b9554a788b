------------------------------- MODULE MCSink -------------------------------
EXTENDS Sink

(* Events as write_value() puts them: a number is a copied header, the     *)
(* value's own array and a copied name; a string is one allocated buffer   *)
(* and the name.                                                           *)
MCShapes == {<<[type |-> "COPY", len |-> 1], [type |-> "HOLD", len |-> 2],
               [type |-> "COPY", len |-> 1]>>,
             <<[type |-> "FREE", len |-> 2], [type |-> "COPY", len |-> 1]>>}
=============================================================================
