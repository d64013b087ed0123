---------------------------- MODULE MCProjection ---------------------------
(* Instance of Projection: a project with a component, a component under   *)
(* it and a pending draft, as the retired pipeline left it.                *)
EXTENDS Projection, TLC

MCSymmetry == Permutations(Sessions)

MCHistory == <<
  [type |-> "NodeCreated", node |-> 1, tier |-> "comp", parent |-> None,
   name |-> "n", content |-> Blank],
  [type |-> "NodeCreated", node |-> 2, tier |-> "comp", parent |-> 1,
   name |-> "n", content |-> Blank],
  [type |-> "DraftGenerated", draft |-> 1, target |-> <<"node", 1>>, content |-> "w"]
>>

MCMarkers == {[node |-> 1, offset |-> 2, reason |-> "content_changed"],
              [node |-> 1, offset |-> 4, reason |-> "structural_change"]}
=============================================================================
