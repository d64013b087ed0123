---------------------------- MODULE MCPhaseLoop ----------------------------
(* Three components, one of them with two subcomponents; a responsibility *)
(* of two features, and one of none.                                      *)
EXTENDS PhaseLoop

Serving ==
  [r1 |-> {"f1"}, r2 |-> {"f2"}, r3 |-> {"f2", "f3"}, r4 |-> {"f3"}, r5 |-> {}]
Owning == [a |-> {"r1", "r2"}, b |-> {"r3"}, c |-> {"r4", "r5"}]
Parent == [a1 |-> "a", a2 |-> "a", b1 |-> "b", c1 |-> "c"]
Slice == [a1 |-> {"r1"}, a2 |-> {"r2"}, b1 |-> {"r3"}, c1 |-> {"r4", "r5"}]
=============================================================================
