--------------------------- MODULE MCRegistration --------------------------
(* Instances of Registration. *)
EXTENDS Registration, TLC

MCPath == (1 .. MaxIds) \cup Role
MCSymmetry == Permutations(Session) \cup Permutations(Reader)
=============================================================================
