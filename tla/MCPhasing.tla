----------------------------- MODULE MCPhasing -----------------------------
(* Two components, alone, one on the other, or on each other; one of the  *)
(* responsibilities serves both features.                                 *)
EXTENDS Phasing

Serving == [r1 |-> {"f1"}, r2 |-> {"f1", "f2"}, r3 |-> {"f2"}]
Owning == [a |-> {"r1", "r2"}, b |-> {"r3"}]
Parent == [a1 |-> "a", b1 |-> "b"]
Owned == [a1 |-> {"r1", "r2"}, b1 |-> {"r3"}]
Edges == {[a |-> {}, b |-> {}], [a |-> {"b"}, b |-> {}], [a |-> {"b"}, b |-> {"a"}]}
=============================================================================
