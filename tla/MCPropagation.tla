---------------------------- MODULE MCPropagation ----------------------------
(* Two components that both have a subcomponent named s. *)
EXTENDS Propagation

Named(tier, comp, parent, sub, phase) ==
  [tier |-> tier, comp |-> comp, parent |-> parent, sub |-> sub, phase |-> phase]

Sysarch == Named("sysarch", "proj", "", "", 0)
ComponentX == Named("comparch", "x", "", "", 0)
SubOfX == Named("subcomparch", "", "x", "s", 0)
ImplOfX == Named("impl", "", "x", "s", 1)
ImplOfY == Named("impl", "", "y", "s", 1)
FaninOfX == Named("fanin", "x", "", "", 1)

Project == {Sysarch, ComponentX, SubOfX, ImplOfX, ImplOfY, FaninOfX}
=============================================================================
