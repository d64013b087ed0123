--------------------------- MODULE MCEventStream ---------------------------
(* Instances of EventStream. *)
EXTENDS EventStream, TLC

Symmetric == Permutations(Thread) \cup Permutations(Client) \cup Permutations(Ref)
=============================================================================
