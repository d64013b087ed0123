-------------------------- MODULE MCScopeLifecycle --------------------------
(* Instances of ScopeLifecycle: a body is the sequence of its handles. *)
EXTENDS ScopeLifecycle

\* Texts without a repeated handle, the empty one rejected by validation.
Texts == {<< >>, <<"a">>, <<"b">>, <<"a", "b">>}
ValidTexts == Texts \ {<< >>}
NodesOf == [b \in Texts |-> b]
=============================================================================
