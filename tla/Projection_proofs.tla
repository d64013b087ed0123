-------------------------- MODULE Projection_proofs -------------------------
(***************************************************************************)
(* The graph database of one project for every number of requests, events  *)
(* and batches: what a replay of the log leads to, the invariant of the    *)
(* committed and the uncommitted databases, the properties of Projection   *)
(* and the refinement of GraphLog.                                         *)
(***************************************************************************)
EXTENDS Projection, WellFoundedInduction, FiniteSetTheorems, SequenceTheorems, TLAPS

---------------------------------------------------------------------------
(* Events, tables and rows *)

\* What the fields of an event on nodes hold, by its type.
LEMMA NodeEventFields ==
  ASSUME NEW e \in NodeEvent
  PROVE  /\ e.type \in RowTypes
         /\ e.type = "NodeCreated" =>
              /\ e.node \in Nodes /\ e.tier \in STRING /\ e.parent \in Nodes \cup {None}
              /\ e.name \in STRING /\ e.content \in STRING
         /\ e.type = "NodeRenamed" => e.node \in Nodes /\ e.name \in STRING
         /\ e.type \in {"NodeContentUpdated", "FanInContentUpdated"} =>
              e.node \in Nodes /\ e.content \in STRING
         /\ e.type = "NodeReparented" => e.node \in Nodes /\ e.parent \in Nodes \cup {None}
         /\ e.type = "NodeDeferredUpdated" => e.node \in Nodes /\ e.deferred \in BOOLEAN
         /\ e.type \in {"NodePromoted", "NodeDemoted"} =>
              e.node \in Nodes /\ e.tier \in STRING
         /\ e.type = "NodesMerged" => e.dest \in Nodes /\ e.name \in STRING
         /\ e.type = "NodeSplit" =>
              e.node \in Nodes /\ e.name \in STRING /\ e.dests \in SUBSET Nodes
         /\ e.type \in {"NodeDeleted", "BootstrapNodeContentCleared", "FeedbackCleared",
                        "ViewRecorded"} => e.node \in Nodes
BY DEF NodeEvent, RowTypes

\* What the fields of an event on edges, fragments or drafts hold.
LEMMA OtherEventFields ==
  ASSUME NEW e \in OtherEvent
  PROVE  /\ e.type \in EventTypes
         /\ e.type = "EdgeCreated" =>
              /\ e.edge \in Edges /\ e.edgeType \in STRING
              /\ e.source \in Nodes /\ e.target \in Nodes
         /\ e.type = "FragmentUpdated" => e.id \in Nodes \X Kinds /\ e.content \in STRING
         /\ e.type = "DraftGenerated" =>
              e.draft \in Drafts /\ e.target \in Target /\ e.content \in STRING
         /\ e.type = "DraftEdited" => e.content \in STRING
         /\ e.type = "DraftDiscarded" => e.reason \in STRING
         /\ e.type = "DraftReviewUpdated" => e.review \in STRING
BY DEF OtherEvent, EventTypes, RowTypes

\* A table with a row written or removed is a table.
LEMMA TableUpdates ==
  ASSUME NEW table, NEW ids, NEW row, IsTable(table, ids, row),
         NEW id \in ids, NEW r \in row
  PROVE  /\ IsTable(Put(table, id, r), ids, row)
         /\ IsTable([table EXCEPT ![id] = r], ids, row)
         /\ \A gone : IsTable(Without(table, gone), ids, row)
         /\ DOMAIN Put(table, id, r) = DOMAIN table \cup {id}
BY DEF IsTable, Put, Without, Restrict

LEMMA WithoutTable ==
  ASSUME NEW table, NEW ids, NEW row, IsTable(table, ids, row)
  PROVE  \A gone : IsTable(Without(table, gone), ids, row)
BY DEF IsTable, Without, Restrict

SetNodes(t, x) == [t EXCEPT !.nodes = x]
SetEdges(t, x) == [t EXCEPT !.edges = x]
SetFrags(t, x) == [t EXCEPT !.frags = x]
SetDrafts(t, x) == [t EXCEPT !.drafts = x]

\* One table of the projection replaced.
LEMMA WithNodes ==
  ASSUME NEW t, TablesOK(t), NEW x, IsTable(x, Nodes, NodeRow),
         NEW u, u = SetNodes(t, x)
  PROVE  TablesOK(u) /\ u.nodes = x /\ u.drafts = t.drafts
<1>1. u = [nodes |-> x, edges |-> t.edges, frags |-> t.frags, drafts |-> t.drafts]
  BY DEF TablesOK, SetNodes
<1>2. QED
  BY <1>1 DEF TablesOK

LEMMA WithEdges ==
  ASSUME NEW t, TablesOK(t), NEW x, IsTable(x, Edges, EdgeRow),
         NEW u, u = SetEdges(t, x)
  PROVE  TablesOK(u) /\ u.nodes = t.nodes /\ u.drafts = t.drafts
<1>1. u = [nodes |-> t.nodes, edges |-> x, frags |-> t.frags, drafts |-> t.drafts]
  BY DEF TablesOK, SetEdges
<1>2. QED
  BY <1>1 DEF TablesOK

LEMMA WithFrags ==
  ASSUME NEW t, TablesOK(t), NEW x, IsTable(x, Nodes \X Kinds, STRING),
         NEW u, u = SetFrags(t, x)
  PROVE  TablesOK(u) /\ u.nodes = t.nodes /\ u.drafts = t.drafts
<1>1. u = [nodes |-> t.nodes, edges |-> t.edges, frags |-> x, drafts |-> t.drafts]
  BY DEF TablesOK, SetFrags
<1>2. QED
  BY <1>1 DEF TablesOK

LEMMA WithDrafts ==
  ASSUME NEW t, TablesOK(t), NEW x, IsTable(x, Drafts, DraftRow),
         NEW u, u = SetDrafts(t, x)
  PROVE  TablesOK(u) /\ u.nodes = t.nodes /\ u.drafts = x
<1>1. u = [nodes |-> t.nodes, edges |-> t.edges, frags |-> t.frags, drafts |-> x]
  BY DEF TablesOK, SetDrafts
<1>2. QED
  BY <1>1 DEF TablesOK

SamePlace(r, q) == r.tier = q.tier /\ r.parent = q.parent

\* A row of a node with a column replaced is a row, and only moves change
\* its place.
LEMMA NodeRowUpdates ==
  ASSUME NEW r \in NodeRow, NEW x \in STRING, NEW p \in Nodes \cup {None}, NEW b \in BOOLEAN
  PROVE  /\ [r EXCEPT !.name = x] \in NodeRow /\ SamePlace([r EXCEPT !.name = x], r)
         /\ [r EXCEPT !.content = x] \in NodeRow /\ SamePlace([r EXCEPT !.content = x], r)
         /\ [r EXCEPT !.review = x] \in NodeRow /\ SamePlace([r EXCEPT !.review = x], r)
         /\ [r EXCEPT !.deferred = b] \in NodeRow /\ SamePlace([r EXCEPT !.deferred = b], r)
         /\ [r EXCEPT !.tier = x] \in NodeRow
         /\ [r EXCEPT !.parent = p] \in NodeRow
BY DEF NodeRow, SamePlace

LEMMA BlankIsText == Blank \in STRING
BY NamesAssumption

\* Each type is dispatched to its handler, and to no other.
LEMMA Dispatch ==
  ASSUME NEW t, NEW e
  PROVE  /\ e.type = "NodeCreated" => Apply(t, e) = NodeCreated(t, e)
         /\ e.type = "NodeRenamed" => Apply(t, e) = NodeRenamed(t, e)
         /\ e.type = "NodeContentUpdated" => Apply(t, e) = NodeContentUpdated(t, e)
         /\ e.type = "NodeReparented" => Apply(t, e) = NodeReparented(t, e)
         /\ e.type = "NodeDeferredUpdated" => Apply(t, e) = NodeDeferredUpdated(t, e)
         /\ e.type \in {"NodePromoted", "NodeDemoted"} => Apply(t, e) = NodeMovedToTier(t, e)
         /\ e.type = "NodesMerged" => Apply(t, e) = NodesMerged(t, e)
         /\ e.type = "NodeSplit" => Apply(t, e) = NodeSplit(t, e)
         /\ e.type = "NodeDeleted" => Apply(t, e) = NodeDeleted(t, e)
         /\ e.type = "EdgeCreated" => Apply(t, e) = EdgeCreated(t, e)
         /\ e.type = "EdgeDeleted" => Apply(t, e) = EdgeDeleted(t, e)
         /\ e.type = "FragmentUpdated" => Apply(t, e) = FragmentUpdated(t, e)
         /\ e.type = "DraftGenerated" => Apply(t, e) = DraftGenerated(t, e)
         /\ e.type = "DraftEdited" => Apply(t, e) = DraftEdited(t, e)
         /\ e.type = "DraftApproved" => Apply(t, e) = DraftApproved(t, e)
         /\ e.type = "DraftDiscarded" => Apply(t, e) = DraftDiscarded(t, e)
         /\ e.type = "DraftReviewUpdated" => Apply(t, e) = DraftReviewUpdated(t, e)
         /\ e.type = "FanInContentUpdated" => Apply(t, e) = FanInContentUpdated(t, e)
         /\ e.type = "BootstrapNodeContentCleared" =>
              Apply(t, e) = BootstrapNodeContentCleared(t, e)
         /\ e.type \in {"FeedbackCleared", "ViewRecorded"} => Apply(t, e) = {t}
BY DEF Apply

\* A handler leaves one outcome or none.
LEMMA AtMostOneOutcome ==
  ASSUME NEW t, NEW e, e.type \in EventTypes
  PROVE  Apply(t, e) = {} \/ \E u : Apply(t, e) = {u}
<1>1. \A g, u : When(g, u) = {} \/ When(g, u) = {u}
  BY DEF When
<1> DEFINE Functional(S) == S = {} \/ \E u : S = {u}
<1>2. \A g, u : Functional(When(g, u))
  BY <1>1
<1>3. \A u : Functional({u})
  OBVIOUS
<1>4. Functional({})
  OBVIOUS
<1> HIDE DEF Functional
<1>5. /\ Functional(NodeCreated(t, e)) /\ Functional(NodeRenamed(t, e))
      /\ Functional(NodeContentUpdated(t, e)) /\ Functional(NodeReparented(t, e))
      /\ Functional(NodeDeferredUpdated(t, e)) /\ Functional(NodeMovedToTier(t, e))
      /\ Functional(NodesMerged(t, e)) /\ Functional(FragmentUpdated(t, e))
      /\ Functional(DraftGenerated(t, e)) /\ Functional(DraftEdited(t, e))
      /\ Functional(DraftDiscarded(t, e)) /\ Functional(FanInContentUpdated(t, e))
      /\ Functional(BootstrapNodeContentCleared(t, e))
  BY <1>2 DEF NodeCreated, NodeRenamed, NodeContentUpdated, NodeReparented,
              NodeDeferredUpdated, NodeMovedToTier, NodesMerged, FragmentUpdated,
              DraftGenerated, DraftEdited, DraftDiscarded, FanInContentUpdated,
              BootstrapNodeContentCleared
<1>6. Functional(NodeDeleted(t, e)) /\ Functional(EdgeDeleted(t, e))
  BY <1>3 DEF NodeDeleted, EdgeDeleted
<1>7. /\ Functional(EdgeCreated(t, e)) /\ Functional(NodeSplit(t, e))
      /\ Functional(DraftReviewUpdated(t, e))
  BY <1>2, <1>3 DEF EdgeCreated, NodeSplit, DraftReviewUpdated
<1>8. Functional(DraftApproved(t, e))
  BY <1>2, <1>3, <1>4 DEF DraftApproved
<1>9. Functional(Apply(t, e))
  BY Dispatch, <1>3, <1>5, <1>6, <1>7, <1>8 DEF EventTypes, RowTypes
<1>10. QED
  BY <1>9 DEF Functional

---------------------------------------------------------------------------
(* The tree *)

\* Rows may go, and a row that stays keeps its place.
SameTree(t, u) ==
  /\ DOMAIN u.nodes \subseteq DOMAIN t.nodes
  /\ \A n \in DOMAIN u.nodes : /\ u.nodes[n].tier = t.nodes[n].tier
                               /\ u.nodes[n].parent = t.nodes[n].parent

\* Every node, and every parent of a component, is an id of used.
Rooted(t, used) ==
  \A n \in DOMAIN t.nodes :
     /\ n \in used
     /\ TierOf(t, n) = "comp" /\ t.nodes[n].parent # None => t.nodes[n].parent \in used

\* What an event leaves of the tree: it adds no id but those it mints, and
\* unless it is a move no third level.
TreeKept(t, u, e) ==
  /\ DOMAIN u.nodes \subseteq DOMAIN t.nodes \cup Minted(e)
  /\ \A used \in SUBSET Nodes :
       Rooted(t, used) /\ Minted(e) \cap used = {} =>
          /\ Rooted(u, used \cup Minted(e))
          /\ e.type \notin Moves /\ TwoLevels(t) => TwoLevels(u)

\* Rows that go or stay where they are keep the tree.
LEMMA SameTreeKept ==
  ASSUME NEW t, NEW u, NEW e, TablesOK(t), SameTree(t, u)
  PROVE  TreeKept(t, u, e)
BY DEF SameTree, TreeKept, Rooted, TwoLevels, TierOf, IsNode, TablesOK, IsTable, NodeRow

\* A node whose row changes but not its place.
LEMMA RowEdited ==
  ASSUME NEW t, TablesOK(t), NEW n \in DOMAIN t.nodes, NEW r \in NodeRow,
         SamePlace(r, t.nodes[n]), NEW u, u = SetNodes(t, [t.nodes EXCEPT ![n] = r])
  PROVE  TablesOK(u) /\ u.drafts = t.drafts /\ SameTree(t, u)
<1> DEFINE x == [t.nodes EXCEPT ![n] = r]
<1>1. IsTable(x, Nodes, NodeRow)
  BY DEF TablesOK, IsTable
<1>2. /\ DOMAIN x = DOMAIN t.nodes
      /\ \A k \in DOMAIN x : /\ x[k].tier = t.nodes[k].tier
                             /\ x[k].parent = t.nodes[k].parent
  BY DEF TablesOK, IsTable, SamePlace
<1>3. u = SetNodes(t, x)
  OBVIOUS
<1> HIDE DEF x
<1>4. QED
  <2>1. TablesOK(u) /\ u.nodes = x /\ u.drafts = t.drafts
    BY <1>1, <1>3, WithNodes
  <2>2. QED
    BY <2>1, <1>2 DEF SameTree

\* The effect of an event on nodes.
NodeEffect(t, u, e) == TablesOK(u) /\ u.drafts = t.drafts /\ TreeKept(t, u, e)

\* Handlers that edit a row in place.
LEMMA EditEffect ==
  ASSUME NEW t, TablesOK(t), NEW e \in Event, NEW u \in Apply(t, e),
         e.type \in {"NodeRenamed", "NodeContentUpdated", "FanInContentUpdated",
                    "NodeDeferredUpdated", "BootstrapNodeContentCleared"}
  PROVE  NodeEffect(t, u, e)
<1>0. e \in NodeEvent
  BY DEF Event, NodeEvent, OtherEvent
<1> DEFINE n == e.node
           row == t.nodes[n]
           Edited(r) == u = SetNodes(t, [t.nodes EXCEPT ![n] = r])
<1>1. t.nodes \in [DOMAIN t.nodes -> NodeRow]
  BY DEF TablesOK, IsTable
<1>2. IsNode(t, n)
  BY Dispatch DEF NodeRenamed, NodeContentUpdated, FanInContentUpdated,
                  NodeDeferredUpdated, BootstrapNodeContentCleared, When, SetNodes
<1>3. row \in NodeRow /\ n \in DOMAIN t.nodes
  BY <1>1, <1>2 DEF IsNode
<1>4. \E r \in NodeRow : SamePlace(r, row) /\ Edited(r)
  <2>1. CASE e.type = "NodeRenamed"
    <3>1. Edited([row EXCEPT !.name = e.name])
      BY <2>1, Dispatch DEF NodeRenamed, When, SetNodes
    <3> QED
      BY <1>0, <1>3, <2>1, <3>1, NodeEventFields, NodeRowUpdates
  <2>2. CASE e.type \in {"NodeContentUpdated", "FanInContentUpdated"}
    <3>1. Edited([row EXCEPT !.content = e.content])
      BY <2>2, Dispatch DEF NodeContentUpdated, FanInContentUpdated, When, SetNodes
    <3> QED
      BY <1>0, <1>3, <2>2, <3>1, NodeEventFields, NodeRowUpdates
  <2>3. CASE e.type = "NodeDeferredUpdated"
    <3>1. Edited([row EXCEPT !.deferred = e.deferred])
      BY <2>3, Dispatch DEF NodeDeferredUpdated, When, SetNodes
    <3> QED
      BY <1>0, <1>3, <2>3, <3>1, NodeEventFields, NodeRowUpdates, BlankIsText
  <2>4. CASE e.type = "BootstrapNodeContentCleared"
    <3>1. Edited([row EXCEPT !.content = Blank])
      BY <2>4, Dispatch DEF BootstrapNodeContentCleared, When, SetNodes
    <3> QED
      BY <1>3, <3>1, BlankIsText, NodeRowUpdates
  <2> QED
    BY <2>1, <2>2, <2>3, <2>4
<1> HIDE DEF n
<1>5. QED
  BY <1>3, <1>4, RowEdited, SameTreeKept DEF NodeEffect

\* Rows that go leave the others in place.
LEMMA RemovalEffect ==
  ASSUME NEW t, TablesOK(t), NEW e \in Event, NEW u \in Apply(t, e),
         e.type \in {"NodesMerged", "NodeDeleted"}
  PROVE  NodeEffect(t, u, e)
<1>0. e \in NodeEvent
  BY DEF Event, NodeEvent, OtherEvent
<1> DEFINE Left(x) == IsTable(x, Nodes, NodeRow) /\ DOMAIN x \subseteq DOMAIN t.nodes
                      /\ \A n \in DOMAIN x : SamePlace(x[n], t.nodes[n])
<1>1. \E x : Left(x) /\ u = SetNodes(t, x)
  <2>1. CASE e.type = "NodeDeleted"
    <3>1. u = SetNodes(t, Without(t.nodes, {e.node}))
      <4>1. u \in NodeDeleted(t, e)
        BY <2>1, Dispatch
      <4>2. QED
        BY <4>1 DEF NodeDeleted, SetNodes
    <3>2. Left(Without(t.nodes, {e.node}))
      BY DEF TablesOK, IsTable, Without, Restrict, SamePlace
    <3> QED
      BY <3>1, <3>2
  <2>2. CASE e.type = "NodesMerged"
    <3> DEFINE row == [t.nodes[e.dest] EXCEPT !.name = e.name]
               merged == [t.nodes EXCEPT ![e.dest] = row]
               left == Without(merged, e.sources \ {e.dest})
    <3>1. IsNode(t, e.dest) /\ u = SetNodes(t, left)
      BY <2>2, Dispatch DEF NodesMerged, When, SetNodes
    <3>2. t.nodes[e.dest] \in NodeRow /\ e.name \in STRING
      BY <1>0, <2>2, <3>1, NodeEventFields DEF TablesOK, IsTable, IsNode
    <3>3. row \in NodeRow /\ SamePlace(row, t.nodes[e.dest])
      BY <3>2, NodeRowUpdates
    <3> HIDE DEF row
    <3>4. Left(merged)
      BY <3>3, <3>1 DEF TablesOK, IsTable, SamePlace
    <3> HIDE DEF merged
    <3>5. Left(left)
      BY <3>4 DEF IsTable, Without, Restrict, SamePlace
    <3> QED
      BY <3>1, <3>5
  <2> QED
    BY <2>1, <2>2
<1>2. PICK x : Left(x) /\ u = SetNodes(t, x)
  BY <1>1
<1>3. TablesOK(u) /\ u.nodes = x /\ u.drafts = t.drafts
  <2>1. u = SetNodes(t, x) /\ IsTable(x, Nodes, NodeRow)
    BY <1>2
  <2>2. QED
    BY <2>1, WithNodes
<1>4. SameTree(t, u)
  BY <1>2, <1>3 DEF SameTree, SamePlace
<1>5. QED
  BY <1>3, <1>4, SameTreeKept DEF NodeEffect

\* What a component's place must respect is what the depth cap checks.
LEMMA CreationEffect ==
  ASSUME NEW t, TablesOK(t), NEW e \in Event, NEW u \in Apply(t, e), e.type = "NodeCreated"
  PROVE  NodeEffect(t, u, e)
<1>0. e \in NodeEvent
  BY DEF Event, NodeEvent, OtherEvent
<1> DEFINE row == [tier |-> e.tier, parent |-> e.parent, name |-> e.name,
                   content |-> e.content, deferred |-> FALSE, review |-> Blank]
           x == Put(t.nodes, e.node, row)
<1>1. /\ ~ IsNode(t, e.node) /\ DepthCapAllows(t, e.tier, e.parent)
      /\ u = SetNodes(t, x)
  BY Dispatch DEF NodeCreated, When, MayAttach, SetNodes
<1>2. row \in NodeRow /\ row.tier = e.tier /\ row.parent = e.parent /\ e.node \in Nodes
  BY <1>0, BlankIsText, NodeEventFields DEF NodeRow
<1> HIDE DEF row
<1>3. IsTable(x, Nodes, NodeRow)
  BY <1>2, TableUpdates DEF TablesOK
<1>4. /\ DOMAIN x = DOMAIN t.nodes \cup {e.node} /\ x[e.node] = row
      /\ \A n \in DOMAIN t.nodes : x[n] = t.nodes[n]
  BY <1>1 DEF Put, IsNode
<1> HIDE DEF x
<1>5. TablesOK(u) /\ u.nodes = x /\ u.drafts = t.drafts
  <2>1. u = SetNodes(t, x)
    BY <1>1
  <2>2. QED
    BY <2>1, <1>3, WithNodes
<1>6. Minted(e) = {e.node}
  BY DEF Minted
<1>7. TreeKept(t, u, e)
  <2>0. DOMAIN u.nodes \subseteq DOMAIN t.nodes \cup Minted(e)
    BY <1>4, <1>5, <1>6
  <2> SUFFICES ASSUME NEW used \in SUBSET Nodes, Rooted(t, used), Minted(e) \cap used = {}
               PROVE  /\ Rooted(u, used \cup Minted(e))
                      /\ TwoLevels(t) => TwoLevels(u)
    BY <2>0 DEF TreeKept
  <2>1. Rooted(u, used \cup Minted(e))
    BY <1>1, <1>2, <1>4, <1>5, <1>6 DEF Rooted, TierOf, DepthCapAllows, IsNode
  <2>2. ASSUME TwoLevels(t) PROVE TwoLevels(u)
    <3> SUFFICES ASSUME NEW n \in DOMAIN u.nodes, u.nodes[n].tier = "comp",
                        u.nodes[n].parent \in DOMAIN u.nodes,
                        u.nodes[u.nodes[n].parent].tier = "comp",
                        u.nodes[u.nodes[n].parent].parent \in DOMAIN u.nodes,
                        u.nodes[u.nodes[u.nodes[n].parent].parent].tier = "comp"
                 PROVE  FALSE
      BY DEF TwoLevels, IsNode, TierOf
    <3>0. None \notin DOMAIN u.nodes /\ e.node \notin used
      BY <1>5, <1>6, NamesAssumption DEF TablesOK, IsTable
    <3>1. CASE n = e.node
      BY <3>0, <3>1, <1>1, <1>2, <1>4, <1>5 DEF Rooted, TierOf, DepthCapAllows, IsNode
    <3>2. CASE n # e.node
      <4>1. u.nodes[n].parent # e.node
        BY <3>0, <3>2, <1>2, <1>4, <1>5 DEF Rooted, TierOf
      <4>2. u.nodes[u.nodes[n].parent].parent # e.node
        BY <3>0, <4>1, <1>2, <1>4, <1>5 DEF Rooted, TierOf
      <4>3. QED
        BY <2>2, <3>2, <4>1, <4>2, <1>4, <1>5 DEF TwoLevels, IsNode, TierOf
    <3> QED
      BY <3>1, <3>2
  <2> QED
    BY <2>1, <2>2
<1>8. QED
  BY <1>5, <1>7 DEF NodeEffect

\* The destinations take the place of the source.
LEMMA SplitEffect ==
  ASSUME NEW t, TablesOK(t), NEW e \in Event, NEW u \in Apply(t, e), e.type = "NodeSplit"
  PROVE  NodeEffect(t, u, e)
<1>0. e \in NodeEvent
  BY DEF Event, NodeEvent, OtherEvent
<1> DEFINE src == t.nodes[e.node]
           kept == Without(t.nodes, {e.node} \ e.dests)
           part(n) == IF n = e.node THEN [src EXCEPT !.name = e.name]
                      ELSE [src EXCEPT !.name = e.name, !.content = Blank,
                                       !.deferred = FALSE, !.review = Blank]
           x == [n \in DOMAIN kept \cup e.dests |->
                   IF n \in e.dests THEN part(n) ELSE kept[n]]
           orig(n) == IF n \in e.dests THEN e.node ELSE n
<1>1. u = SetNodes(t, x) /\ IsNode(t, e.node)
  <2>1. u \in NodeSplit(t, e)
    BY Dispatch
  <2>2. QED
    BY <2>1 DEF NodeSplit, When, SetNodes
<1>2. /\ e.node \in Nodes /\ e.name \in STRING /\ e.dests \in SUBSET Nodes
      /\ src \in NodeRow
  BY <1>0, <1>1, NodeEventFields DEF TablesOK, IsTable, IsNode
<1>3. \A n : part(n) \in NodeRow /\ SamePlace(part(n), src)
  BY <1>2, BlankIsText DEF NodeRow, SamePlace
<1>4. /\ DOMAIN kept = DOMAIN t.nodes \ ({e.node} \ e.dests)
      /\ \A n \in DOMAIN kept : kept[n] = t.nodes[n] /\ kept[n] \in NodeRow
  BY DEF TablesOK, IsTable, Without, Restrict
<1> HIDE DEF part, kept
<1>5. IsTable(x, Nodes, NodeRow)
  BY <1>2, <1>3, <1>4 DEF IsTable, TablesOK
<1>6. /\ DOMAIN x \subseteq DOMAIN t.nodes \cup e.dests
      /\ \A n \in DOMAIN x : orig(n) \in DOMAIN t.nodes /\ SamePlace(x[n], t.nodes[orig(n)])
  BY <1>1, <1>3, <1>4 DEF SamePlace, IsNode
<1> HIDE DEF x
<1>7. TablesOK(u) /\ u.nodes = x /\ u.drafts = t.drafts
  <2>1. u = SetNodes(t, x)
    BY <1>1
  <2>2. QED
    BY <2>1, <1>5, WithNodes
<1>8. Minted(e) = e.dests \ {e.node}
  BY DEF Minted
<1>9. TreeKept(t, u, e)
  <2>0. DOMAIN u.nodes \subseteq DOMAIN t.nodes \cup Minted(e)
    BY <1>1, <1>6, <1>7, <1>8 DEF IsNode
  <2> SUFFICES ASSUME NEW used \in SUBSET Nodes, Rooted(t, used), Minted(e) \cap used = {}
               PROVE  /\ Rooted(u, used \cup Minted(e))
                      /\ TwoLevels(t) => TwoLevels(u)
    BY <2>0 DEF TreeKept
  <2>1. Rooted(u, used \cup Minted(e))
    BY <1>6, <1>7, <1>8 DEF Rooted, TierOf, SamePlace
  <2>2. ASSUME TwoLevels(t) PROVE TwoLevels(u)
    <3> SUFFICES ASSUME NEW n \in DOMAIN x, NEW p, NEW g, x[n].tier = "comp",
                        p = x[n].parent, p \in DOMAIN x, x[p].tier = "comp",
                        g = x[p].parent, g \in DOMAIN x, x[g].tier = "comp"
                 PROVE  FALSE
      BY <1>7 DEF TwoLevels, IsNode, TierOf
    <3>0. None \notin DOMAIN x
      BY <1>5, NamesAssumption DEF IsTable
    <3>1. /\ orig(n) \in DOMAIN t.nodes /\ t.nodes[orig(n)].tier = "comp"
          /\ t.nodes[orig(n)].parent = p
      BY <1>6 DEF SamePlace
    <3>2. p \in used /\ orig(p) = p
      BY <3>0, <3>1, <1>8 DEF Rooted, TierOf
    <3>3. p \in DOMAIN t.nodes /\ t.nodes[p].tier = "comp" /\ t.nodes[p].parent = g
      BY <3>2, <1>6 DEF SamePlace
    <3>4. g \in used /\ orig(g) = g
      BY <3>0, <3>3, <1>8 DEF Rooted, TierOf
    <3>5. g \in DOMAIN t.nodes /\ t.nodes[g].tier = "comp"
      BY <3>4, <1>6 DEF SamePlace
    <3>6. QED
      BY <2>2, <3>1, <3>3, <3>5 DEF TwoLevels, IsNode, TierOf
  <2>3. QED
    BY <2>1, <2>2
<1>10. QED
  BY <1>7, <1>9 DEF NodeEffect

\* A move checks the parent it gives or keeps.
LEMMA MoveEffect ==
  ASSUME NEW t, TablesOK(t), NEW e \in Event, NEW u \in Apply(t, e), e.type \in Moves
  PROVE  NodeEffect(t, u, e)
<1>0. e \in NodeEvent
  BY DEF Event, NodeEvent, OtherEvent, Moves
<1> DEFINE n == e.node
           row == t.nodes[n]
<1>1. \E r \in NodeRow : /\ IsNode(t, n) /\ DepthCapAllows(t, r.tier, r.parent)
                         /\ u = SetNodes(t, [t.nodes EXCEPT ![n] = r])
  <2>1. CASE e.type = "NodeReparented"
    <3> DEFINE r == [row EXCEPT !.parent = e.parent]
    <3>0. u \in NodeReparented(t, e)
      BY <2>1, Dispatch
    <3>1. /\ IsNode(t, n) /\ DepthCapAllows(t, row.tier, e.parent)
          /\ u = SetNodes(t, [t.nodes EXCEPT ![n] = r])
      BY <3>0 DEF NodeReparented, When, MayAttach, TierOf, SetNodes
    <3>2. row \in NodeRow /\ e.parent \in Nodes \cup {None}
      BY <1>0, <2>1, <3>1, NodeEventFields DEF TablesOK, IsTable, IsNode
    <3>3. r \in NodeRow /\ r.tier = row.tier /\ r.parent = e.parent
      BY <3>2 DEF NodeRow
    <3> QED
      BY <3>1, <3>3
  <2>2. CASE e.type \in {"NodePromoted", "NodeDemoted"}
    <3> DEFINE r == [row EXCEPT !.tier = e.tier]
    <3>0. u \in NodeMovedToTier(t, e)
      BY <2>2, Dispatch
    <3>1. /\ IsNode(t, n) /\ DepthCapAllows(t, e.tier, row.parent)
          /\ u = SetNodes(t, [t.nodes EXCEPT ![n] = r])
      BY <3>0 DEF NodeMovedToTier, When, SetNodes
    <3>2. row \in NodeRow /\ e.tier \in STRING
      BY <1>0, <2>2, <3>1, NodeEventFields DEF TablesOK, IsTable, IsNode
    <3>3. r \in NodeRow /\ r.tier = e.tier /\ r.parent = row.parent
      BY <3>2 DEF NodeRow
    <3> QED
      BY <3>1, <3>3
  <2>3. QED
    BY <2>1, <2>2 DEF Moves
<1>2. PICK r \in NodeRow : /\ IsNode(t, n) /\ DepthCapAllows(t, r.tier, r.parent)
                           /\ u = SetNodes(t, [t.nodes EXCEPT ![n] = r])
  BY <1>1
<1> DEFINE x == [t.nodes EXCEPT ![n] = r]
<1>3. IsTable(x, Nodes, NodeRow)
  BY <1>2 DEF TablesOK, IsTable
<1>4. DOMAIN x = DOMAIN t.nodes /\ \A k \in DOMAIN x : x[k] = IF k = n THEN r ELSE t.nodes[k]
  BY <1>2 DEF TablesOK, IsTable
<1>5. u = SetNodes(t, x)
  BY <1>2
<1> HIDE DEF x
<1>6. TablesOK(u) /\ u.nodes = x /\ u.drafts = t.drafts
  BY <1>3, <1>5, WithNodes
<1>7. \A used \in SUBSET Nodes : Rooted(t, used) => Rooted(u, used)
  BY <1>2, <1>4, <1>6 DEF Rooted, TierOf, DepthCapAllows, IsNode
<1>8. TreeKept(t, u, e)
  <2>1. Minted(e) = {}
    BY DEF Minted, Moves
  <2>2. \A used : used \cup {} = used
    OBVIOUS
  <2>3. DOMAIN u.nodes = DOMAIN t.nodes
    BY <1>4, <1>6
  <2>4. QED
    BY <1>7, <2>1, <2>2, <2>3 DEF TreeKept
<1>9. QED
  BY <1>6, <1>8 DEF NodeEffect

\* Edges and fragments are no concern of nodes and drafts.
LEMMA EdgeEffect ==
  ASSUME NEW t, TablesOK(t), NEW e \in Event, NEW u \in Apply(t, e),
         e.type \in {"EdgeCreated", "EdgeDeleted", "FragmentUpdated"}
  PROVE  TablesOK(u) /\ u.nodes = t.nodes /\ u.drafts = t.drafts
<1>0. e \in OtherEvent
  BY DEF Event, NodeEvent, OtherEvent
<1>1. CASE e.type = "EdgeCreated"
  <2> DEFINE row == [type |-> e.edgeType, source |-> e.source, target |-> e.target]
             x == Put(t.edges, e.edge, row)
  <2>1. u = t \/ u = SetEdges(t, x)
    <3>1. u \in EdgeCreated(t, e)
      BY <1>1, Dispatch
    <3>2. QED
      BY <3>1 DEF EdgeCreated, When, SetEdges
  <2>2. row \in EdgeRow /\ e.edge \in Edges
    BY <1>0, <1>1, OtherEventFields DEF EdgeRow
  <2>3. IsTable(x, Edges, EdgeRow)
    BY <2>2, TableUpdates DEF TablesOK
  <2> HIDE DEF x
  <2>4. QED
    BY <2>1, <2>3, WithEdges
<1>2. CASE e.type = "EdgeDeleted"
  <2> DEFINE x == Without(t.edges, {e.edge})
  <2>1. u = SetEdges(t, x)
    <3>1. u \in EdgeDeleted(t, e)
      BY <1>2, Dispatch
    <3>2. QED
      BY <3>1 DEF EdgeDeleted, SetEdges
  <2>2. IsTable(x, Edges, EdgeRow)
    BY WithoutTable DEF TablesOK
  <2> HIDE DEF x
  <2>3. QED
    BY <2>1, <2>2, WithEdges
<1>3. CASE e.type = "FragmentUpdated"
  <2> DEFINE x == Put(t.frags, e.id, e.content)
  <2>1. u = SetFrags(t, x)
    <3>1. u \in FragmentUpdated(t, e)
      BY <1>3, Dispatch
    <3>2. QED
      BY <3>1 DEF FragmentUpdated, When, SetFrags
  <2>2. IsTable(x, Nodes \X Kinds, STRING)
    BY <1>0, <1>3, OtherEventFields, TableUpdates DEF TablesOK
  <2> HIDE DEF x
  <2>3. QED
    BY <2>1, <2>2, WithFrags
<1>4. QED
  BY <1>1, <1>2, <1>3

---------------------------------------------------------------------------
(* Drafts *)

SameButReview(r, q) == /\ r.target = q.target /\ r.content = q.content
                       /\ r.status = q.status /\ r.reason = q.reason

\* No draft goes, and a settled one keeps all but its review.
SettledKept(t, u) ==
  \A d \in DOMAIN t.drafts :
     /\ d \in DOMAIN u.drafts
     /\ t.drafts[d].status # "pending" => SameButReview(u.drafts[d], t.drafts[d])

OnePending(t) ==
  \A c, d \in DOMAIN t.drafts :
     /\ t.drafts[c].status = "pending" /\ t.drafts[d].status = "pending"
     /\ t.drafts[c].target = t.drafts[d].target
     => c = d

\* The effect of any event.
Effect(t, u, e) ==
  /\ TablesOK(u)
  /\ TreeKept(t, u, e)
  /\ SettledKept(t, u)
  /\ OnePending(t) => OnePending(u)

\* A step that leaves a table alone keeps what holds of it.
LEMMA SameDrafts ==
  ASSUME NEW t, NEW u, u.drafts = t.drafts
  PROVE  SettledKept(t, u) /\ (OnePending(t) => OnePending(u))
BY DEF SettledKept, OnePending, SameButReview

LEMMA SameNodes ==
  ASSUME NEW t, NEW u, NEW e, TablesOK(t), u.nodes = t.nodes
  PROVE  TreeKept(t, u, e)
BY SameTreeKept DEF SameTree

\* A pending draft may change or settle; any may be reviewed.
LEMMA DraftRowEdited ==
  ASSUME NEW t, TablesOK(t), NEW d \in DOMAIN t.drafts, NEW r \in DraftRow,
         r.target = t.drafts[d].target,
         \/ t.drafts[d].status = "pending"
         \/ SameButReview(r, t.drafts[d]),
         NEW u, u = SetDrafts(t, [t.drafts EXCEPT ![d] = r])
  PROVE  /\ TablesOK(u) /\ u.nodes = t.nodes
         /\ SettledKept(t, u) /\ (OnePending(t) => OnePending(u))
<1> DEFINE x == [t.drafts EXCEPT ![d] = r]
<1>1. IsTable(x, Drafts, DraftRow)
  BY DEF TablesOK, IsTable
<1>2. /\ DOMAIN x = DOMAIN t.drafts
      /\ \A k \in DOMAIN x : x[k] = IF k = d THEN r ELSE t.drafts[k]
  BY DEF TablesOK, IsTable
<1>3. u = SetDrafts(t, x)
  OBVIOUS
<1> HIDE DEF x
<1>4. TablesOK(u) /\ u.nodes = t.nodes /\ u.drafts = x
  BY <1>1, <1>3, WithDrafts
<1>5. SettledKept(t, u)
  BY <1>2, <1>4 DEF SettledKept, SameButReview
<1>6. ASSUME OnePending(t) PROVE OnePending(u)
  BY <1>2, <1>4, <1>6 DEF OnePending, SameButReview
<1>7. QED
  BY <1>4, <1>5, <1>6

\* A draft is generated only where no other is pending.
LEMMA GeneratedEffect ==
  ASSUME NEW t, TablesOK(t), NEW e \in Event, NEW u \in Apply(t, e), e.type = "DraftGenerated"
  PROVE  Effect(t, u, e)
<1>0. e \in OtherEvent
  BY DEF Event, NodeEvent, OtherEvent
<1> DEFINE row == [target |-> e.target, content |-> e.content, status |-> "pending",
                   reason |-> None, review |-> Blank]
           x == Put(t.drafts, e.draft, row)
<1>1. /\ e.draft \notin DOMAIN t.drafts /\ Pending(t, e.target) = {}
      /\ u = SetDrafts(t, x)
  <2>1. u \in DraftGenerated(t, e)
    BY Dispatch
  <2>2. QED
    BY <2>1 DEF DraftGenerated, When, SetDrafts
<1>2. row \in DraftRow /\ row.target = e.target /\ e.draft \in Drafts
  BY <1>0, BlankIsText, OtherEventFields DEF DraftRow
<1> HIDE DEF row
<1>3. IsTable(x, Drafts, DraftRow)
  BY <1>2, TableUpdates DEF TablesOK
<1>4. /\ DOMAIN x = DOMAIN t.drafts \cup {e.draft} /\ x[e.draft] = row
      /\ \A d \in DOMAIN t.drafts : x[d] = t.drafts[d]
  BY <1>1 DEF Put
<1> HIDE DEF x
<1>5. TablesOK(u) /\ u.nodes = t.nodes /\ u.drafts = x
  <2>1. u = SetDrafts(t, x)
    BY <1>1
  <2>2. QED
    BY <2>1, <1>3, WithDrafts
<1>6. SettledKept(t, u)
  BY <1>4, <1>5 DEF SettledKept, SameButReview
<1>7. ASSUME OnePending(t) PROVE OnePending(u)
  BY <1>1, <1>2, <1>4, <1>5, <1>7 DEF OnePending, Pending
<1>8. QED
  BY <1>5, <1>6, <1>7, SameNodes DEF Effect

\* A draft that is edited or discarded is pending.
LEMMA DraftEditEffect ==
  ASSUME NEW t, TablesOK(t), NEW e \in Event, NEW u \in Apply(t, e),
         e.type \in {"DraftEdited", "DraftDiscarded"}
  PROVE  Effect(t, u, e)
<1>0. e \in OtherEvent
  BY DEF Event, NodeEvent, OtherEvent
<1> DEFINE d == e.draft
           row == t.drafts[d]
<1>1. \E r \in DraftRow : /\ r.target = row.target /\ IsPending(t, d)
                          /\ u = SetDrafts(t, [t.drafts EXCEPT ![d] = r])
  <2>1. CASE e.type = "DraftEdited"
    <3> DEFINE r == [row EXCEPT !.content = e.content]
    <3>0. u \in DraftEdited(t, e)
      BY <2>1, Dispatch
    <3>1. IsPending(t, d) /\ u = SetDrafts(t, [t.drafts EXCEPT ![d] = r])
      BY <3>0 DEF DraftEdited, When, SetDrafts
    <3>2. row \in DraftRow /\ e.content \in STRING
      BY <1>0, <2>1, <3>1, OtherEventFields DEF TablesOK, IsTable, IsPending
    <3>3. r \in DraftRow /\ r.target = row.target
      BY <3>2 DEF DraftRow
    <3>4. QED
      BY <3>1, <3>3
  <2>2. CASE e.type = "DraftDiscarded"
    <3> DEFINE r == [row EXCEPT !.status = "discarded", !.reason = e.reason]
    <3>0. u \in DraftDiscarded(t, e)
      BY <2>2, Dispatch
    <3>1. IsPending(t, d) /\ u = SetDrafts(t, [t.drafts EXCEPT ![d] = r])
      BY <3>0 DEF DraftDiscarded, When, SetDrafts
    <3>2. row \in DraftRow /\ e.reason \in STRING
      BY <1>0, <2>2, <3>1, OtherEventFields DEF TablesOK, IsTable, IsPending
    <3>3. r \in DraftRow /\ r.target = row.target
      BY <3>2 DEF DraftRow
    <3>4. QED
      BY <3>1, <3>3
  <2>3. QED
    BY <2>1, <2>2
<1>2. QED
  BY <1>1, DraftRowEdited, SameNodes DEF Effect, IsPending

\* Approval settles the draft and writes its content to the target.
LEMMA ApprovalEffect ==
  ASSUME NEW t, TablesOK(t), NEW e \in Event, NEW u \in Apply(t, e), e.type = "DraftApproved"
  PROVE  Effect(t, u, e)
<1> DEFINE d == e.draft
           row == t.drafts[d]
           id == row.target[2]
           r == [row EXCEPT !.status = "approved"]
           done == SetDrafts(t, [t.drafts EXCEPT ![d] = r])
<1>1. /\ IsPending(t, d)
      /\ \/ /\ row.target[1] = "node" /\ IsNode(t, id)
            /\ u = SetNodes(done, [done.nodes EXCEPT
                                     ![id] = [done.nodes[id] EXCEPT !.content = row.content]])
         \/ /\ row.target[1] # "node"
            /\ u = SetFrags(done, Put(done.frags, id, row.content))
  <2>1. u \in DraftApproved(t, e)
    BY Dispatch
  <2>2. QED
    BY <2>1 DEF DraftApproved, When, SetNodes, SetFrags, SetDrafts
<1>2. row \in DraftRow /\ d \in DOMAIN t.drafts /\ row.status = "pending"
  BY <1>1 DEF IsPending, TablesOK, IsTable
<1>3. r \in DraftRow /\ r.target = row.target /\ row.content \in STRING
  BY <1>2 DEF DraftRow
<1>4. /\ TablesOK(done) /\ done.nodes = t.nodes
      /\ SettledKept(t, done) /\ (OnePending(t) => OnePending(done))
  <2> DEFINE x == done
  <2>1. x = SetDrafts(t, [t.drafts EXCEPT ![d] = r])
    OBVIOUS
  <2> HIDE DEF x, r
  <2>2. QED
    BY <2>1, <1>2, <1>3, DraftRowEdited
<1> HIDE DEF done, r
<1>5. TablesOK(u) /\ u.drafts = done.drafts /\ SameTree(done, u)
  <2>1. CASE row.target[1] = "node"
    <3> DEFINE q == [done.nodes[id] EXCEPT !.content = row.content]
    <3>1. /\ id \in DOMAIN done.nodes
          /\ u = SetNodes(done, [done.nodes EXCEPT ![id] = q])
      BY <1>1, <1>4, <2>1 DEF IsNode
    <3>2. done.nodes[id] \in NodeRow
      BY <1>4, <3>1 DEF TablesOK, IsTable
    <3>3. q \in NodeRow /\ SamePlace(q, done.nodes[id])
      BY <1>3, <3>2, NodeRowUpdates
    <3> HIDE DEF q
    <3>4. QED
      BY <1>4, <3>1, <3>3, RowEdited
  <2>2. CASE row.target[1] # "node"
    <3> DEFINE x == Put(done.frags, id, row.content)
    <3>1. u = SetFrags(done, x)
      BY <1>1, <2>2
    <3>2. id \in Nodes \X Kinds
      BY <1>2, <2>2 DEF DraftRow, Target
    <3>3. IsTable(x, Nodes \X Kinds, STRING)
      BY <1>3, <1>4, <3>2, TableUpdates DEF TablesOK
    <3> HIDE DEF x
    <3>4. TablesOK(u) /\ u.nodes = done.nodes /\ u.drafts = done.drafts
      BY <1>4, <3>1, <3>3, WithFrags
    <3>5. QED
      BY <3>4 DEF SameTree
  <2>3. QED
    BY <2>1, <2>2
<1>6. SameTree(t, u)
  BY <1>4, <1>5 DEF SameTree
<1>7. SettledKept(t, u) /\ (OnePending(t) => OnePending(u))
  BY <1>4, <1>5 DEF SettledKept, OnePending
<1>8. QED
  BY <1>5, <1>6, <1>7, SameTreeKept DEF Effect

\* A review touches neither the place of a node nor what a draft says.
LEMMA ReviewEffect ==
  ASSUME NEW t, TablesOK(t), NEW e \in Event, NEW u \in Apply(t, e),
         e.type = "DraftReviewUpdated"
  PROVE  Effect(t, u, e)
<1>0. e.review \in STRING
  BY OtherEventFields DEF Event, NodeEvent, OtherEvent
<1>1. u \in DraftReviewUpdated(t, e)
  BY Dispatch
<1>2. CASE e.draft # None
  <2> DEFINE d == e.draft
             row == t.drafts[d]
             r == [row EXCEPT !.review = e.review]
  <2>1. d \in DOMAIN t.drafts /\ u = SetDrafts(t, [t.drafts EXCEPT ![d] = r])
    BY <1>1, <1>2 DEF DraftReviewUpdated, When, SetDrafts
  <2>2. row \in DraftRow
    BY <2>1 DEF TablesOK, IsTable
  <2>3. r \in DraftRow /\ r.target = row.target /\ SameButReview(r, row)
    BY <1>0, <2>2 DEF DraftRow, SameButReview
  <2> HIDE DEF r
  <2>4. QED
    BY <2>1, <2>3, DraftRowEdited, SameNodes DEF Effect
<1>3. CASE e.draft = None
  <2> DEFINE n == e.node
             row == t.nodes[n]
             r == [row EXCEPT !.review = e.review]
  <2>1. n \in DOMAIN t.nodes /\ u = SetNodes(t, [t.nodes EXCEPT ![n] = r])
    BY <1>1, <1>3 DEF DraftReviewUpdated, When, SetNodes, IsNode
  <2>2. row \in NodeRow
    BY <2>1 DEF TablesOK, IsTable
  <2>3. r \in NodeRow /\ SamePlace(r, row)
    BY <1>0, <2>2, NodeRowUpdates
  <2> HIDE DEF r
  <2>4. TablesOK(u) /\ u.drafts = t.drafts /\ SameTree(t, u)
    BY <2>1, <2>3, RowEdited
  <2>5. QED
    BY <2>4, SameTreeKept, SameDrafts DEF Effect
<1>4. QED
  BY <1>2, <1>3

\* The effect of any event the callers can append.
LEMMA EventEffect ==
  ASSUME NEW t, TablesOK(t), NEW e \in Event, NEW u \in Apply(t, e)
  PROVE  Effect(t, u, e)
<1>1. e.type \in EventTypes
  BY NodeEventFields, OtherEventFields DEF Event, EventTypes
<1>2. ASSUME NodeEffect(t, u, e) PROVE Effect(t, u, e)
  BY <1>2, SameDrafts DEF NodeEffect, Effect
<1>3. CASE e.type \in {"NodeRenamed", "NodeContentUpdated", "FanInContentUpdated",
                       "NodeDeferredUpdated", "BootstrapNodeContentCleared"}
  BY <1>2, <1>3, EditEffect
<1>4. CASE e.type \in {"NodesMerged", "NodeDeleted"}
  BY <1>2, <1>4, RemovalEffect
<1>5. CASE e.type = "NodeCreated"
  BY <1>2, <1>5, CreationEffect
<1>6. CASE e.type = "NodeSplit"
  BY <1>2, <1>6, SplitEffect
<1>7. CASE e.type \in Moves
  BY <1>2, <1>7, MoveEffect
<1>8. CASE e.type \in {"EdgeCreated", "EdgeDeleted", "FragmentUpdated"}
  BY <1>8, EdgeEffect, SameNodes, SameDrafts DEF Effect
<1>9. CASE e.type = "DraftGenerated"
  BY <1>9, GeneratedEffect
<1>10. CASE e.type \in {"DraftEdited", "DraftDiscarded"}
  BY <1>10, DraftEditEffect
<1>11. CASE e.type = "DraftApproved"
  BY <1>11, ApprovalEffect
<1>12. CASE e.type = "DraftReviewUpdated"
  BY <1>12, ReviewEffect
<1>13. CASE e.type \in {"FeedbackCleared", "ViewRecorded"}
  BY <1>13, Dispatch, SameNodes, SameDrafts DEF Effect
<1>14. QED
  BY <1>1, <1>3, <1>4, <1>5, <1>6, <1>7, <1>8, <1>9, <1>10, <1>11, <1>12, <1>13
     DEF EventTypes, RowTypes, Moves

---------------------------------------------------------------------------
(* Induction over the offsets *)

\* A non-empty set of numbers has a least one.
LEMMA LeastNumber ==
  ASSUME NEW T \in SUBSET Nat, T # {}
  PROVE  \E n \in T : \A m \in T : n <= m
<1> DEFINE R == OpToRel(<, Nat)
<1>1. R = {ss \in Nat \X Nat : ss[1] < ss[2]}
  BY DEF OpToRel
<1>2. IsWellFoundedOn(R, Nat)
  BY NatLessThanWellFounded
<1> HIDE DEF R
<1>3. PICK x \in T : \A y \in T : ~ (<<y, x>> \in R)
  BY <1>2, WFMin
<1>4. ASSUME NEW y \in T PROVE x <= y
  <2>1. ~ (<<y, x>> \in {ss \in Nat \X Nat : ss[1] < ss[2]})
    BY <1>1, <1>3, Zenon
  <2>2. x \in Nat /\ y \in Nat
    OBVIOUS
  <2>3. ~ (y < x)
    BY <2>1, <2>2
  <2>4. QED
    BY <2>2, <2>3
<1>5. QED
  BY <1>4

\* Where a property of numbers fails it fails for the first time: at 0, or
\* just after a number that has it.
LEMMA FirstFailure ==
  ASSUME NEW Bad \in SUBSET Nat, Bad # {}
  PROVE  \E n \in Bad : n = 0 \/ (n - 1 \in Nat /\ n - 1 \notin Bad)
<1>1. PICK n \in Bad : \A m \in Bad : n <= m
  BY LeastNumber
<1>2. n \in Nat
  OBVIOUS
<1>3. n = 0 \/ (n - 1 \in Nat /\ n - 1 \notin Bad)
  BY <1>1, <1>2
<1>4. QED
  BY <1>3

\* Induction over the numbers up to m, for a set of them.
LEMMA Climb ==
  ASSUME NEW m \in Nat, NEW S, 0 \in S, \A n \in 1 .. m : n - 1 \in S => n \in S
  PROVE  \A n \in 0 .. m : n \in S
<1> DEFINE Bad == {n \in 0 .. m : n \notin S}
<1> SUFFICES ASSUME Bad # {} PROVE FALSE
  OBVIOUS
<1>1. Bad \in SUBSET Nat
  OBVIOUS
<1>2. PICK n \in Bad : n = 0 \/ (n - 1 \in Nat /\ n - 1 \notin Bad)
  <2> HIDE DEF Bad
  <2>1. QED
    BY <1>1, FirstFailure
<1>3. QED
  BY <1>2

---------------------------------------------------------------------------
(* Replay *)

\* f is the outcomes of the first m rows.
Follows(f, m, rows, known) ==
  f = [n \in 0 .. m |->
         IF n = 0 THEN {EmptyTables}
         ELSE UNION {ApplyRow(t, rows[n], known) : t \in f[n - 1]}]

LEMMA FollowerExists ==
  ASSUME NEW rows, NEW known, NEW m \in Nat
  PROVE  \E f : Follows(f, m, rows, known)
<1> DEFINE Bad == {n \in Nat : ~ \E f : Follows(f, n, rows, known)}
<1> SUFFICES ASSUME Bad # {} PROVE FALSE
  OBVIOUS
<1>1. PICK n \in Bad : n = 0 \/ (n - 1 \in Nat /\ n - 1 \notin Bad)
  <2>1. Bad \in SUBSET Nat
    OBVIOUS
  <2> HIDE DEF Bad
  <2>2. QED
    BY <2>1, FirstFailure
<1>2. CASE n = 0
  <2>1. Follows([k \in 0 .. 0 |-> {EmptyTables}], 0, rows, known)
    BY DEF Follows
  <2>2. QED
    BY <1>1, <1>2, <2>1
<1>3. CASE n # 0
  <2>1. n \in Nat /\ n - 1 \in Nat
    BY <1>1, <1>3
  <2>2. PICK f : Follows(f, n - 1, rows, known)
    BY <1>1, <1>3, <2>1
  <2> DEFINE last == UNION {ApplyRow(t, rows[n], known) : t \in f[n - 1]}
             g == [k \in 0 .. n |-> IF k = n THEN last ELSE f[k]]
  <2>3. f = [k \in 0 .. n - 1 |->
               IF k = 0 THEN {EmptyTables}
               ELSE UNION {ApplyRow(t, rows[k], known) : t \in f[k - 1]}]
    BY <2>2 DEF Follows
  <2>4. ASSUME NEW k \in 0 .. n
        PROVE  g[k] = IF k = 0 THEN {EmptyTables}
                      ELSE UNION {ApplyRow(t, rows[k], known) : t \in g[k - 1]}
    <3>1. CASE k = 0
      BY <3>1, <2>3, <1>3, <2>1
    <3>2. CASE k # 0 /\ k = n
      <4>1. g[k] = last /\ g[k - 1] = f[n - 1]
        BY <3>2, <2>1
      <4> HIDE DEF g
      <4>2. QED
        BY <4>1, <3>2
    <3>3. CASE k # 0 /\ k # n
      <4>1. g[k] = f[k] /\ g[k - 1] = f[k - 1] /\ k \in 0 .. n - 1
        BY <3>3, <2>1
      <4> HIDE DEF g
      <4>2. QED
        BY <4>1, <3>3, <2>3
    <3>4. QED
      BY <3>1, <3>2, <3>3
  <2>5. g = [k \in 0 .. n |-> g[k]]
    OBVIOUS
  <2>6. Follows(g, n, rows, known)
    <3> HIDE DEF g
    <3>1. QED
      BY <2>4, <2>5 DEF Follows
  <2>7. QED
    BY <1>1, <2>6
<1>4. QED
  BY <1>2, <1>3

\* The recursion of Replay is well-founded: each of its equations holds.
LEMMA ReplayUnfolds ==
  ASSUME NEW rows \in Seq(Event), NEW known
  PROVE  /\ Replay(rows, known)[0] = {EmptyTables}
         /\ \A n \in 1 .. Len(rows) :
              Replay(rows, known)[n] =
                UNION {ApplyRow(t, rows[n], known) : t \in Replay(rows, known)[n - 1]}
<1>1. Len(rows) \in Nat
  OBVIOUS
<1>2. Follows(Replay(rows, known), Len(rows), rows, known)
  <2>1. PICK f : Follows(f, Len(rows), rows, known)
    BY <1>1, FollowerExists
  <2>2. QED
    BY <2>1 DEF Follows, Replay
<1> DEFINE f == Replay(rows, known)
<1>3. f = [n \in 0 .. Len(rows) |->
             IF n = 0 THEN {EmptyTables}
             ELSE UNION {ApplyRow(t, rows[n], known) : t \in f[n - 1]}]
  BY <1>2 DEF Follows
<1> HIDE DEF f
<1>4. f[0] = {EmptyTables}
  BY <1>1, <1>3
<1>5. ASSUME NEW n \in 1 .. Len(rows)
      PROVE  f[n] = UNION {ApplyRow(t, rows[n], known) : t \in f[n - 1]}
  <2>1. n \in 0 .. Len(rows) /\ n # 0
    BY <1>1
  <2>2. QED
    BY <2>1, <1>3
<1>6. QED
  BY <1>4, <1>5 DEF f

\* After n rows there is one outcome or none.
LEMMA ReplayIsFunctional ==
  ASSUME NEW rows \in Seq(Event), NEW known, known \subseteq EventTypes
  PROVE  \A n \in 0 .. Len(rows) :
           Replay(rows, known)[n] = {} \/ \E u : Replay(rows, known)[n] = {u}
<1> DEFINE f == Replay(rows, known)
           S == {n \in 0 .. Len(rows) : f[n] = {} \/ \E u : f[n] = {u}}
<1>0. Len(rows) \in Nat
  OBVIOUS
<1>1. 0 \in S
  <2>1. f[0] = {EmptyTables}
    BY ReplayUnfolds
  <2> HIDE DEF f
  <2>2. \E u : f[0] = {u}
    BY <2>1
  <2>3. QED
    BY <1>0, <2>2
<1>2. ASSUME NEW n \in 1 .. Len(rows), n - 1 \in S PROVE n \in S
  <2>1. f[n] = UNION {ApplyRow(t, rows[n], known) : t \in f[n - 1]}
    BY ReplayUnfolds
  <2> HIDE DEF f
  <2>2. \A t : ApplyRow(t, rows[n], known) = {} \/ \E u : ApplyRow(t, rows[n], known) = {u}
    BY AtMostOneOutcome DEF ApplyRow
  <2>3. CASE f[n - 1] = {}
    BY <1>0, <2>1, <2>3
  <2>4. CASE \E t : f[n - 1] = {t}
    <3>1. PICK t : f[n - 1] = {t}
      BY <2>4
    <3>2. f[n] = ApplyRow(t, rows[n], known)
      BY <2>1, <3>1
    <3>3. QED
      BY <1>0, <2>2, <3>2
  <2>5. QED
    BY <1>2, <2>3, <2>4
<1> HIDE DEF S
<1>3. \A n \in 0 .. Len(rows) : n \in S
  BY <1>0, <1>1, <1>2, Climb
<1>4. QED
  BY <1>3 DEF S

\* A replay from the rows gives what applying the events gave, if anything.
LEMMA RebuildIsReplay ==
  ASSUME NEW rows \in Seq(Event)
  PROVE  \A n \in 0 .. Len(rows) :
           Replay(rows, RowTypes)[n] \subseteq Replay(rows, EventTypes)[n]
<1> DEFINE S == {n \in 0 .. Len(rows) :
                  Replay(rows, RowTypes)[n] \subseteq Replay(rows, EventTypes)[n]}
<1>0. Len(rows) \in Nat
  OBVIOUS
<1>1. 0 \in S
  BY <1>0, ReplayUnfolds
<1>2. ASSUME NEW n \in 1 .. Len(rows), n - 1 \in S PROVE n \in S
  <2>1. /\ Replay(rows, RowTypes)[n] =
             UNION {ApplyRow(t, rows[n], RowTypes) : t \in Replay(rows, RowTypes)[n - 1]}
        /\ Replay(rows, EventTypes)[n] =
             UNION {ApplyRow(t, rows[n], EventTypes) : t \in Replay(rows, EventTypes)[n - 1]}
    BY ReplayUnfolds
  <2>2. \A t : ApplyRow(t, rows[n], RowTypes) \subseteq ApplyRow(t, rows[n], EventTypes)
    BY DEF ApplyRow, EventTypes
  <2>3. Replay(rows, RowTypes)[n] \subseteq Replay(rows, EventTypes)[n]
    BY <1>2, <2>1, <2>2
  <2>4. QED
    BY <1>0, <2>3
<1> HIDE DEF S
<1>3. \A n \in 0 .. Len(rows) : n \in S
  BY <1>0, <1>1, <1>2, Climb
<1>4. QED
  BY <1>3 DEF S

\* The first m rows of two logs agree.
Agree(rows, more, m) ==
  /\ m \in 0 .. Len(rows) /\ m \in 0 .. Len(more)
  /\ \A n \in 1 .. m : rows[n] = more[n]

\* The outcomes after n rows depend on those rows alone.
LEMMA ReplayOfPrefix ==
  ASSUME NEW rows \in Seq(Event), NEW more \in Seq(Event), NEW known,
         NEW m \in Nat, Agree(rows, more, m)
  PROVE  \A n \in 0 .. m : Replay(rows, known)[n] = Replay(more, known)[n]
<1> DEFINE S == {n \in 0 .. m : Replay(rows, known)[n] = Replay(more, known)[n]}
<1>1. 0 \in S
  <2>1. Replay(rows, known)[0] = Replay(more, known)[0]
    BY ReplayUnfolds
  <2>2. QED
    BY <2>1
<1>2. ASSUME NEW n \in 1 .. m, n - 1 \in S PROVE n \in S
  <2>1. n \in 1 .. Len(rows) /\ n \in 1 .. Len(more) /\ rows[n] = more[n]
    BY DEF Agree
  <2>2. Replay(rows, known)[n] =
          UNION {ApplyRow(t, rows[n], known) : t \in Replay(rows, known)[n - 1]}
    BY <2>1, ReplayUnfolds
  <2>3. Replay(more, known)[n] =
          UNION {ApplyRow(t, more[n], known) : t \in Replay(more, known)[n - 1]}
    BY <2>1, ReplayUnfolds
  <2>4. Replay(rows, known)[n - 1] = Replay(more, known)[n - 1]
    BY <1>2
  <2>5. Replay(rows, known)[n] = Replay(more, known)[n]
    BY <2>1, <2>2, <2>3, <2>4
  <2>6. QED
    BY <2>5
<1> HIDE DEF S
<1>3. \A n \in 0 .. m : n \in S
  BY <1>1, <1>2, Climb
<1>4. QED
  BY <1>3 DEF S

\* Once a row fails nothing comes after it.
LEMMA FailureStays ==
  ASSUME NEW rows \in Seq(Event), NEW known, Replay(rows, known)[Len(rows)] # {}
  PROVE  \A n \in 0 .. Len(rows) : Replay(rows, known)[n] # {}
<1> SUFFICES ASSUME NEW k \in 0 .. Len(rows), Replay(rows, known)[k] = {} PROVE FALSE
  OBVIOUS
<1> DEFINE S == {n \in 0 .. Len(rows) : n < k \/ Replay(rows, known)[n] = {}}
<1>0. Len(rows) \in Nat
  OBVIOUS
<1>1. 0 \in S
  BY <1>0
<1>2. ASSUME NEW n \in 1 .. Len(rows), n - 1 \in S PROVE n \in S
  <2>1. CASE n = k
    BY <2>1
  <2>2. CASE n < k
    BY <2>2
  <2>3. CASE n > k
    <3>1. Replay(rows, known)[n - 1] = {}
      BY <1>0, <1>2, <2>3
    <3>2. Replay(rows, known)[n] = {}
      BY <3>1, ReplayUnfolds
    <3>3. QED
      BY <1>0, <3>2
  <2>4. QED
    BY <1>0, <2>1, <2>2, <2>3
<1> HIDE DEF S
<1>3. \A n \in 0 .. Len(rows) : n \in S
  BY <1>0, <1>1, <1>2, Climb
<1>4. Len(rows) \in S
  BY <1>0, <1>3
<1>5. QED
  BY <1>0, <1>4 DEF S

---------------------------------------------------------------------------
(* What a log with fresh ids leads to *)

FreshRows(rows) ==
  \A n \in 1 .. Len(rows) : Minted(rows[n]) \cap MintedBy(rows, n - 1) = {}

\* One more row mints its own ids.
LEMMA MintedStep ==
  ASSUME NEW rows \in Seq(Event), NEW n \in 1 .. Len(rows)
  PROVE  MintedBy(rows, n) = MintedBy(rows, n - 1) \cup Minted(rows[n])
<1>1. Len(rows) \in Nat /\ 1 .. n = 1 .. (n - 1) \cup {n}
  OBVIOUS
<1>2. QED
  BY <1>1 DEF MintedBy

\* What is minted is a node id.
LEMMA MintedAreNodes ==
  ASSUME NEW rows \in Seq(Event), NEW n \in 0 .. Len(rows)
  PROVE  MintedBy(rows, n) \in SUBSET Nodes
<1>1. \A i \in 1 .. n : rows[i] \in Event
  OBVIOUS
<1>2. \A e \in Event : Minted(e) \subseteq Nodes
  BY NodeEventFields DEF Event, NodeEvent, OtherEvent, Minted
<1>3. QED
  BY <1>1, <1>2 DEF MintedBy

\* The tables n rows lead to: well-typed, one pending draft a target, every
\* node and every parent of a component an id that was minted, and no third
\* level without a move.
Sound(rows, n, t) ==
  /\ TablesOK(t)
  /\ OnePending(t)
  /\ Rooted(t, MintedBy(rows, n))
  /\ (\A i \in 1 .. n : rows[i].type \notin Moves) => TwoLevels(t)

\* Every replay of a log with fresh ids leads to sound tables.
LEMMA ReplayIsSound ==
  ASSUME NEW rows \in Seq(Event), FreshRows(rows)
  PROVE  \A n \in 0 .. Len(rows) : \A t \in Replay(rows, EventTypes)[n] : Sound(rows, n, t)
<1> DEFINE f == Replay(rows, EventTypes)
           S == {n \in 0 .. Len(rows) : \A t \in f[n] : Sound(rows, n, t)}
<1>0. Len(rows) \in Nat
  OBVIOUS
<1>1. 0 \in S
  <2>1. f[0] = {EmptyTables}
    BY ReplayUnfolds
  <2> HIDE DEF f
  <2>2. DOMAIN <<>> = {}
    OBVIOUS
  <2>3. TablesOK(EmptyTables)
    BY <2>2 DEF TablesOK, IsTable, EmptyTables
  <2>4. /\ OnePending(EmptyTables) /\ TwoLevels(EmptyTables)
        /\ Rooted(EmptyTables, MintedBy(rows, 0))
    BY <2>2 DEF OnePending, Rooted, TwoLevels, EmptyTables
  <2>5. \A t \in f[0] : Sound(rows, 0, t)
    BY <2>1, <2>3, <2>4 DEF Sound
  <2>6. QED
    BY <1>0, <2>5
<1>2. ASSUME NEW n \in 1 .. Len(rows), n - 1 \in S PROVE n \in S
  <2>1. f[n] = UNION {ApplyRow(t, rows[n], EventTypes) : t \in f[n - 1]}
    BY ReplayUnfolds
  <2>2. \A t \in f[n - 1] : Sound(rows, n - 1, t)
    BY <1>2
  <2> HIDE DEF f
  <2>3. SUFFICES ASSUME NEW u \in f[n] PROVE Sound(rows, n, u)
    BY <1>0
  <2>4. PICK t \in f[n - 1] : u \in Apply(t, rows[n])
    BY <2>1 DEF ApplyRow
  <2>5. rows[n] \in Event /\ Sound(rows, n - 1, t)
    BY <2>2
  <2>6. Effect(t, u, rows[n])
    BY <2>4, <2>5, EventEffect DEF Sound
  <2>7. MintedBy(rows, n) = MintedBy(rows, n - 1) \cup Minted(rows[n])
    BY MintedStep
  <2>8. /\ MintedBy(rows, n - 1) \in SUBSET Nodes
        /\ Minted(rows[n]) \cap MintedBy(rows, n - 1) = {}
    <3>1. n - 1 \in 0 .. Len(rows)
      BY <1>0
    <3>2. QED
      BY <3>1, MintedAreNodes DEF FreshRows
  <2>9. /\ Rooted(u, MintedBy(rows, n))
        /\ rows[n].type \notin Moves /\ TwoLevels(t) => TwoLevels(u)
    BY <2>5, <2>6, <2>7, <2>8 DEF Effect, TreeKept, Sound
  <2>10. (\A i \in 1 .. n : rows[i].type \notin Moves) => TwoLevels(u)
    <3>1. n \in 1 .. n /\ \A i \in 1 .. (n - 1) : i \in 1 .. n
      BY <1>0
    <3>2. QED
      BY <2>5, <2>9, <3>1 DEF Sound
  <2>11. QED
    BY <2>5, <2>6, <2>9, <2>10 DEF Effect, Sound
<1> HIDE DEF S
<1>3. \A n \in 0 .. Len(rows) : n \in S
  BY <1>0, <1>1, <1>2, Climb
<1>4. QED
  BY <1>3 DEF S

\* A draft settled after m rows stays settled as it is.
LEMMA SettledAlong ==
  ASSUME NEW rows \in Seq(Event), FreshRows(rows), NEW m \in 0 .. Len(rows),
         NEW t \in Replay(rows, EventTypes)[m]
  PROVE  \A n \in m .. Len(rows) : \A v \in Replay(rows, EventTypes)[n] : SettledKept(t, v)
<1> DEFINE f == Replay(rows, EventTypes)
           S == {n \in 0 .. Len(rows) : n < m \/ \A v \in f[n] : SettledKept(t, v)}
<1>0. Len(rows) \in Nat /\ m \in Nat
  OBVIOUS
<1>1. \A v \in f[m] : SettledKept(t, v)
  <2>1. \A v \in f[m] : v = t
    BY ReplayIsFunctional
  <2>2. SettledKept(t, t)
    BY DEF SettledKept, SameButReview
  <2>3. QED
    BY <2>1, <2>2
<1>2. 0 \in S
  BY <1>0, <1>1
<1>3. ASSUME NEW n \in 1 .. Len(rows), n - 1 \in S PROVE n \in S
  <2>1. f[n] = UNION {ApplyRow(u, rows[n], EventTypes) : u \in f[n - 1]}
    BY ReplayUnfolds
  <2>2. \A u \in f[n - 1] : TablesOK(u)
    BY <1>0, ReplayIsSound DEF Sound
  <2>3. n - 1 < m \/ \A u \in f[n - 1] : SettledKept(t, u)
    BY <1>3
  <2> HIDE DEF f
  <2>4. SUFFICES ASSUME n > m, NEW v \in f[n] PROVE SettledKept(t, v)
    BY <1>0, <1>1
  <2>5. PICK u \in f[n - 1] : v \in Apply(u, rows[n])
    BY <2>1 DEF ApplyRow
  <2>6. SettledKept(t, u)
    BY <1>0, <2>3, <2>4
  <2>7. SettledKept(u, v)
    <3>1. rows[n] \in Event
      OBVIOUS
    <3>2. QED
      BY <2>2, <2>5, <3>1, EventEffect DEF Effect
  <2>8. QED
    BY <2>6, <2>7 DEF SettledKept, SameButReview
<1> HIDE DEF S
<1>4. \A n \in 0 .. Len(rows) : n \in S
  BY <1>0, <1>2, <1>3, Climb
<1>5. QED
  BY <1>0, <1>4 DEF S

---------------------------------------------------------------------------
(* Databases *)

After(d) == Replay(d.log, EventTypes)

DbShape(d) ==
  d = [log |-> d.log, tables |-> d.tables, past |-> d.past, bodies |-> d.bodies,
       markers |-> d.markers, batches |-> d.batches, snaps |-> d.snaps]

\* A database that can be committed: the tables, those of every earlier
\* moment and the snapshots are what its log leads to, ids are fresh.
DbOK(d) ==
  /\ DbShape(d)
  /\ d.log \in Seq(Event) /\ FreshRows(d.log)
  /\ {d.tables} = After(d)[Len(d.log)]
  /\ DOMAIN d.past = 1 .. Len(d.log)
  /\ \A n \in 1 .. Len(d.log) : {d.past[n]} = After(d)[n]
  /\ DOMAIN d.bodies \subseteq NodesUsed(d)
  /\ \A m \in d.markers : m.offset \in Nat
  /\ d.batches \in [DOMAIN d.batches -> [pin : 0 .. Len(d.log), closed : BOOLEAN]]
  /\ \A p \in DOMAIN d.snaps : p \in 0 .. Len(d.log) /\ {d.snaps[p]} = After(d)[p]

\* The tables of a database are sound.
LEMMA DbIsSound ==
  ASSUME NEW d, DbOK(d)
  PROVE  Sound(d.log, Len(d.log), d.tables)
<1>1. d.log \in Seq(Event) /\ FreshRows(d.log) /\ Len(d.log) \in 0 .. Len(d.log)
      /\ d.tables \in Replay(d.log, EventTypes)[Len(d.log)]
  BY DEF DbOK, After
<1>2. QED
  BY <1>1, ReplayIsSound

\* An id that is taken is unused.
LEMMA UnusedIsFree ==
  \A ids, used : Unused(ids, used) \subseteq ids \ used
BY DEF Unused

\* An event that a caller may append and that does not fail takes fresh ids.
LEMMA EventsAreFresh ==
  ASSUME NEW d, DbOK(d), NEW e \in Events(d), Apply(d.tables, e) # {}
  PROVE  e \in Event /\ Minted(e) \cap NodesUsed(d) = {}
<1> DEFINE live == DOMAIN d.tables.nodes
           drafts == DOMAIN d.tables.drafts
           new == Unused(Nodes, NodesUsed(d))
<1>1. /\ live \subseteq Nodes /\ drafts \subseteq Drafts
      /\ live \subseteq NodesUsed(d)
  BY DbIsSound DEF Sound, TablesOK, IsTable, Rooted, NodesUsed
<1>2. new \subseteq Nodes /\ new \cap NodesUsed(d) = {}
  BY UnusedIsFree
<1>3. /\ Unused(Edges, DOMAIN d.tables.edges) \subseteq Edges
      /\ Unused(Drafts, drafts) \subseteq Drafts
  BY UnusedIsFree
<1>4. CASE e \in NodeEvents(d)
  <2>1. e \in NodeEvent
    BY <1>1, <1>2, <1>4, NamesAssumption DEF NodeEvents, NodeEvent
  <2>2. e.type = "NodeCreated" => e.node \in new
    BY <1>4 DEF NodeEvents
  <2>3. e.type = "NodeSplit" => /\ \A n \in e.dests \ {e.node} : n \notin live
                                /\ e.dests \subseteq new \cup live
    <3> SUFFICES ASSUME e.type = "NodeSplit"
                 PROVE  /\ \A n \in e.dests \ {e.node} : n \notin live
                        /\ e.dests \subseteq new \cup live
      OBVIOUS
    <3>1. NodeSplit(d.tables, e) # {}
      BY Dispatch
    <3>2. \A n \in e.dests \ {e.node} : n \notin live
      BY <3>1 DEF NodeSplit, When, IsNode
    <3>3. e.dests \subseteq new \cup live
      BY <1>4 DEF NodeEvents
    <3>4. QED
      BY <3>2, <3>3
  <2>4. Minted(e) \cap NodesUsed(d) = {}
    BY <1>2, <2>2, <2>3 DEF Minted
  <2>5. QED
    BY <2>1, <2>4 DEF Event
<1>5. CASE e \in TextEvents(d)
  <2>1. e \in Event /\ e.type \notin {"NodeCreated", "NodeSplit"}
    BY <1>1, <1>3, <1>5, NamesAssumption DEF TextEvents, Event, NodeEvent, OtherEvent
  <2>2. QED
    BY <2>1 DEF Minted
<1>6. CASE e \in DraftEvents(d)
  <2>1. e \in OtherEvent
    BY <1>1, <1>3, <1>6, NamesAssumption DEF DraftEvents, OtherEvent, Target
  <2>2. QED
    BY <2>1 DEF Minted, Event, OtherEvent
<1>7. QED
  BY <1>4, <1>5, <1>6 DEF Events

\* What c adds to d is rows at the end of the log: no node row that was
\* deleted comes back, and one that is left keeps its git coordinates.
Later(c, d) ==
  /\ Agree(d.log, c.log, Len(d.log)) /\ Len(d.log) < Len(c.log)
  /\ c.markers = d.markers /\ c.batches = d.batches
  /\ DOMAIN c.tables.nodes \cap NodesUsed(d) \subseteq DOMAIN d.tables.nodes
  /\ \A n \in DOMAIN d.bodies :
       n \in DOMAIN c.tables.nodes => n \in DOMAIN c.bodies /\ c.bodies[n] = d.bodies[n]

\* Logs that agree up to m lead to the same tables and ids up to m.
LEMMA AgreeFacts ==
  ASSUME NEW rows \in Seq(Event), NEW more \in Seq(Event), NEW m \in Nat, Agree(rows, more, m)
  PROVE  /\ Replay(rows, EventTypes)[m] = Replay(more, EventTypes)[m]
         /\ \A n \in 0 .. m : Replay(rows, EventTypes)[n] = Replay(more, EventTypes)[n]
         /\ \A n \in 0 .. m : MintedBy(rows, n) = MintedBy(more, n)
<1>1. \A n \in 0 .. m : Replay(rows, EventTypes)[n] = Replay(more, EventTypes)[n]
  BY ReplayOfPrefix
<1>2. ASSUME NEW n \in 0 .. m PROVE MintedBy(rows, n) = MintedBy(more, n)
  <2>1. \A i \in 1 .. n : rows[i] = more[i]
    BY DEF Agree
  <2>2. QED
    BY <2>1 DEF MintedBy
<1>3. QED
  BY <1>1, <1>2

SetRows(d, x, y, z, w) ==
  [d EXCEPT !.log = x, !.tables = y, !.past = z, !.bodies = w]

\* The four fields that an event changes.
LEMMA SetRowsFields ==
  ASSUME NEW d, NEW x, NEW y, NEW z, NEW w, DbShape(d)
  PROVE  SetRows(d, x, y, z, w) =
           [log |-> x, tables |-> y, past |-> z, bodies |-> w,
            markers |-> d.markers, batches |-> d.batches, snaps |-> d.snaps]
<1> DEFINE b == [d EXCEPT !.log = x]
           c == [b EXCEPT !.tables = y]
           f == [c EXCEPT !.past = z]
           g == [f EXCEPT !.bodies = w]
<1>1. b = [log |-> x, tables |-> d.tables, past |-> d.past, bodies |-> d.bodies,
           markers |-> d.markers, batches |-> d.batches, snaps |-> d.snaps]
  BY DEF DbShape
<1>2. c = [log |-> x, tables |-> y, past |-> d.past, bodies |-> d.bodies,
           markers |-> d.markers, batches |-> d.batches, snaps |-> d.snaps]
  <2> HIDE DEF b
  <2>1. QED
    BY <1>1
<1>3. f = [log |-> x, tables |-> y, past |-> z, bodies |-> d.bodies,
           markers |-> d.markers, batches |-> d.batches, snaps |-> d.snaps]
  <2> HIDE DEF b, c
  <2>1. QED
    BY <1>2
<1>4. g = [log |-> x, tables |-> y, past |-> z, bodies |-> w,
           markers |-> d.markers, batches |-> d.batches, snaps |-> d.snaps]
  <2> HIDE DEF b, c, f
  <2>1. QED
    BY <1>3
<1>5. SetRows(d, x, y, z, w) = g
  BY DEF SetRows
<1> HIDE DEF g
<1>6. QED
  BY <1>4, <1>5

\* An event that does not fail takes a database to a later one.
LEMMA AppendedOK ==
  ASSUME NEW d, DbOK(d), NEW e \in Event, Minted(e) \cap NodesUsed(d) = {},
         NEW after \in Apply(d.tables, e)
  PROVE  /\ DbOK(Appended(d, e, after))
         /\ Later(Appended(d, e, after), d)
         /\ Appended(d, e, after).snaps = d.snaps
         /\ NodesUsed(Appended(d, e, after)) = NodesUsed(d) \cup Minted(e)
<1> DEFINE c == Appended(d, e, after)
           n == Len(d.log)
<1> DEFINE x == Append(d.log, e)
           z == Put(d.past, n + 1, after)
           w == Restrict(d.bodies, DOMAIN d.bodies \cap DOMAIN after.nodes)
<1>0. c = [log |-> x, tables |-> after, past |-> z, bodies |-> w,
           markers |-> d.markers, batches |-> d.batches, snaps |-> d.snaps]
  <2>1. c = SetRows(d, x, after, z, w)
    BY DEF Appended, SetRows
  <2>2. DbShape(d)
    BY DEF DbOK
  <2> HIDE DEF c, x, z, w
  <2>3. QED
    BY <2>1, <2>2, SetRowsFields
<1>1. /\ c.log = Append(d.log, e) /\ c.tables = after /\ c.past = Put(d.past, n + 1, after)
      /\ c.bodies = w /\ c.markers = d.markers /\ c.batches = d.batches
      /\ c.snaps = d.snaps
      /\ DbShape(c)
  BY <1>0 DEF DbShape
<1> HIDE DEF c
<1>2. /\ d.log \in Seq(Event) /\ n \in Nat /\ c.log \in Seq(Event) /\ Len(c.log) = n + 1
      /\ (\A i \in 1 .. n : c.log[i] = d.log[i]) /\ c.log[n + 1] = e
  BY <1>1 DEF DbOK
<1>3. Agree(d.log, c.log, n)
  BY <1>2 DEF Agree
<1>4. \A i \in 0 .. n : /\ After(c)[i] = After(d)[i]
                        /\ MintedBy(c.log, i) = MintedBy(d.log, i)
  BY <1>2, <1>3, AgreeFacts DEF After
<1>5. MintedBy(c.log, n + 1) = NodesUsed(d) \cup Minted(e)
  <2>1. n + 1 \in 1 .. Len(c.log) /\ n \in 0 .. n /\ (n + 1) - 1 = n
    BY <1>2
  <2>2. MintedBy(c.log, n + 1) = MintedBy(c.log, n) \cup Minted(e)
    BY <1>2, <2>1, MintedStep
  <2>3. QED
    BY <1>4, <2>1, <2>2 DEF NodesUsed
<1>6. FreshRows(c.log)
  <2>1. SUFFICES ASSUME NEW i \in 1 .. n + 1
                 PROVE  Minted(c.log[i]) \cap MintedBy(c.log, i - 1) = {}
    BY <1>2 DEF FreshRows
  <2>2. CASE i = n + 1
    <3>1. i - 1 = n /\ n \in 0 .. n
      BY <1>2, <2>2
    <3>2. QED
      BY <1>2, <1>4, <2>2, <3>1 DEF NodesUsed
  <2>3. CASE i # n + 1
    <3>1. i \in 1 .. n /\ i - 1 \in 0 .. n
      BY <1>2, <2>3
    <3>2. QED
      BY <1>2, <1>4, <3>1 DEF DbOK, FreshRows
  <2>4. QED
    BY <2>2, <2>3
<1>7. After(c)[n + 1] = {after}
  <2>1. n + 1 \in 1 .. Len(c.log) /\ (n + 1) - 1 = n /\ n \in 0 .. n
    BY <1>2
  <2>2. After(c)[n + 1] = UNION {ApplyRow(t, c.log[n + 1], EventTypes) : t \in After(c)[n]}
    BY <1>2, <2>1, ReplayUnfolds DEF After
  <2>3. After(c)[n] = {d.tables}
    BY <1>4, <2>1 DEF DbOK
  <2>4. After(c)[n + 1] = ApplyRow(d.tables, e, EventTypes)
    BY <1>2, <2>2, <2>3
  <2>5. e.type \in EventTypes
    BY NodeEventFields, OtherEventFields DEF Event, EventTypes
  <2>6. After(c)[n + 1] = Apply(d.tables, e)
    BY <2>4, <2>5 DEF ApplyRow
  <2>7. Apply(d.tables, e) = {after}
    BY <2>5, AtMostOneOutcome
  <2>8. QED
    BY <2>6, <2>7
<1>8. /\ DOMAIN c.past = 1 .. n + 1
      /\ \A i \in 1 .. n + 1 : {c.past[i]} = After(c)[i]
  <2>1. /\ DOMAIN c.past = 1 .. n + 1 /\ c.past[n + 1] = after
        /\ \A i \in 1 .. n : c.past[i] = d.past[i]
    BY <1>1, <1>2 DEF Put, DbOK
  <2>2. \A i \in 1 .. n : {d.past[i]} = After(c)[i]
    BY <1>4 DEF DbOK
  <2>3. QED
    BY <1>2, <1>7, <2>1, <2>2
<1>9. DOMAIN c.bodies \subseteq NodesUsed(c)
  <2>1. DOMAIN c.bodies \subseteq DOMAIN d.bodies
    BY <1>1 DEF Restrict
  <2>2. QED
    BY <1>2, <1>5, <2>1 DEF DbOK, NodesUsed
<1>10. c.batches \in [DOMAIN c.batches -> [pin : 0 .. Len(c.log), closed : BOOLEAN]]
  <2>1. [pin : 0 .. n, closed : BOOLEAN] \subseteq [pin : 0 .. Len(c.log), closed : BOOLEAN]
    BY <1>2
  <2>2. QED
    BY <1>1, <2>1 DEF DbOK
<1>11. \A p \in DOMAIN c.snaps : p \in 0 .. Len(c.log) /\ {c.snaps[p]} = After(c)[p]
  BY <1>1, <1>2, <1>4 DEF DbOK
<1>12. \A m \in c.markers : m.offset \in Nat
  BY <1>1 DEF DbOK
<1>13. DbOK(c)
  BY <1>1, <1>2, <1>6, <1>7, <1>8, <1>9, <1>10, <1>11, <1>12 DEF DbOK
<1>14. Later(c, d)
  <2>1. DOMAIN after.nodes \subseteq DOMAIN d.tables.nodes \cup Minted(e)
    BY DbIsSound, EventEffect DEF Sound, Effect, TreeKept
  <2>2. DOMAIN c.tables.nodes \cap NodesUsed(d) \subseteq DOMAIN d.tables.nodes
    BY <1>1, <2>1
  <2>3. \A m \in DOMAIN d.bodies :
          m \in DOMAIN c.tables.nodes => m \in DOMAIN c.bodies /\ c.bodies[m] = d.bodies[m]
    BY <1>1 DEF Restrict
  <2>4. /\ Agree(d.log, c.log, Len(d.log)) /\ Len(d.log) < Len(c.log)
        /\ c.markers = d.markers /\ c.batches = d.batches
    BY <1>1, <1>2, <1>3
  <2> HIDE DEF n, w, x, z
  <2>5. QED
    BY <2>2, <2>3, <2>4 DEF Later
<1>15. NodesUsed(c) = NodesUsed(d) \cup Minted(e)
  BY <1>2, <1>5 DEF NodesUsed
<1>16. QED
  BY <1>1, <1>13, <1>14, <1>15 DEF c

\* Events appended by one request add up.
LEMMA LaterIsTransitive ==
  ASSUME NEW a, NEW b, NEW c, DbOK(a), DbOK(b), DbOK(c), Later(b, a), Later(c, b)
  PROVE  Later(c, a)
<1>1. Len(a.log) \in Nat /\ Len(b.log) \in Nat /\ Len(c.log) \in Nat
  BY DEF DbOK
<1>2. NodesUsed(a) \subseteq NodesUsed(b)
  <2>1. \A i \in 1 .. Len(a.log) : i \in 1 .. Len(b.log) /\ a.log[i] = b.log[i]
    BY <1>1 DEF Later, Agree
  <2>2. QED
    BY <2>1 DEF NodesUsed, MintedBy
<1>3. DOMAIN a.bodies \subseteq NodesUsed(a)
  BY DEF DbOK
<1>4. /\ Agree(a.log, c.log, Len(a.log)) /\ Len(a.log) < Len(c.log)
      /\ c.markers = a.markers /\ c.batches = a.batches
  BY <1>1 DEF Later, Agree
<1>5. DOMAIN c.tables.nodes \cap NodesUsed(a) \subseteq DOMAIN a.tables.nodes
  BY <1>2 DEF Later
<1>6. ASSUME NEW n \in DOMAIN a.bodies, n \in DOMAIN c.tables.nodes
      PROVE  n \in DOMAIN c.bodies /\ c.bodies[n] = a.bodies[n]
  <2>1. n \in DOMAIN b.tables.nodes
    BY <1>2, <1>3, <1>6 DEF Later
  <2>2. n \in DOMAIN b.bodies /\ b.bodies[n] = a.bodies[n]
    BY <2>1 DEF Later
  <2>3. QED
    BY <1>6, <2>2 DEF Later
<1>7. QED
  BY <1>4, <1>5, <1>6 DEF Later

---------------------------------------------------------------------------
(* The invariant *)

SessionsInv ==
  /\ lock \in Sessions \cup {None}
  /\ ses = [s \in Sessions |-> ses[s]]
  /\ \A s \in Sessions : ses[s].at = "idle" <=> lock # s

\* What a request has written and not committed, or will roll back to.
CopiesInv ==
  \A s \in Sessions :
     /\ ses[s].at = "writing" => DbOK(ses[s].copy) /\ Later(ses[s].copy, db)
     /\ ses[s].at = "rebuilding" => /\ ses[s].saved = db /\ ses[s].copy.log = db.log
                                    /\ ses[s].pin \in 0 .. Len(db.log)

ServedInv ==
  served # None =>
     /\ served.pin \in 0 .. Len(db.log) /\ {served.before} = After(db)[served.pin]
     /\ served.at \in 0 .. Len(db.log) /\ {served.after} = After(db)[served.at]

Inv == DbOK(db) /\ SessionsInv /\ CopiesInv /\ ServedInv

\* One database with another's log, tables and past.
SameRows(c, d) ==
  DbShape(c) /\ c.log = d.log /\ c.tables = d.tables /\ c.past = d.past

SetBodies(d, x) == [d EXCEPT !.bodies = x]
SetMarkers(d, x) == [d EXCEPT !.markers = x]
SetBatches(d, x) == [d EXCEPT !.batches = x]
SetSnaps(d, x) == [d EXCEPT !.snaps = x]

\* One of the other fields replaced.
LEMMA SetBodiesFields ==
  ASSUME NEW d, DbShape(d), NEW x, NEW c, c = SetBodies(d, x)
  PROVE  /\ SameRows(c, d) /\ c.bodies = x /\ c.markers = d.markers
         /\ c.batches = d.batches /\ c.snaps = d.snaps
<1>1. c = [log |-> d.log, tables |-> d.tables, past |-> d.past, bodies |-> x,
           markers |-> d.markers, batches |-> d.batches, snaps |-> d.snaps]
  BY DEF DbShape, SetBodies
<1>2. QED
  BY <1>1 DEF DbShape, SameRows

LEMMA SetMarkersFields ==
  ASSUME NEW d, DbShape(d), NEW x, NEW c, c = SetMarkers(d, x)
  PROVE  /\ SameRows(c, d) /\ c.bodies = d.bodies /\ c.markers = x
         /\ c.batches = d.batches /\ c.snaps = d.snaps
<1>1. c = [log |-> d.log, tables |-> d.tables, past |-> d.past, bodies |-> d.bodies,
           markers |-> x, batches |-> d.batches, snaps |-> d.snaps]
  BY DEF DbShape, SetMarkers
<1>2. QED
  BY <1>1 DEF DbShape, SameRows

LEMMA SetBatchesFields ==
  ASSUME NEW d, DbShape(d), NEW x, NEW c, c = SetBatches(d, x)
  PROVE  /\ SameRows(c, d) /\ c.bodies = d.bodies /\ c.markers = d.markers
         /\ c.batches = x /\ c.snaps = d.snaps
<1>1. c = [log |-> d.log, tables |-> d.tables, past |-> d.past, bodies |-> d.bodies,
           markers |-> d.markers, batches |-> x, snaps |-> d.snaps]
  BY DEF DbShape, SetBatches
<1>2. QED
  BY <1>1 DEF DbShape, SameRows

LEMMA SetSnapsFields ==
  ASSUME NEW d, DbShape(d), NEW x, NEW c, c = SetSnaps(d, x)
  PROVE  c.log = d.log /\ c.tables = d.tables
<1>1. c = [log |-> d.log, tables |-> d.tables, past |-> d.past, bodies |-> d.bodies,
           markers |-> d.markers, batches |-> d.batches, snaps |-> x]
  BY DEF DbShape, SetSnaps
<1>2. QED
  BY <1>1

\* What no event carries may change within bounds.
LEMMA SameRowsOK ==
  ASSUME NEW c, NEW d, DbOK(d), SameRows(c, d),
         DOMAIN c.bodies \subseteq NodesUsed(d),
         c.markers \subseteq d.markers,
         c.batches \in [DOMAIN c.batches -> [pin : 0 .. Len(d.log), closed : BOOLEAN]],
         c.snaps = d.snaps
  PROVE  DbOK(c)
BY DEF DbOK, SameRows, After, NodesUsed

---------------------------------------------------------------------------
(* The initial state *)

\* The database the retired pipeline left satisfies the invariant.
LEMMA InitOK ==
  ASSUME Init
  PROVE  Inv
<1>0. History \in Seq(Event) /\ Len(History) \in Nat
  BY HistoryAssumption
<1>1. PICK t \in Replay(History, EventTypes)[Len(History)] :
        db = [log     |-> History,
              tables  |-> t,
              past    |-> [n \in 1..Len(History) |->
                             CHOOSE u \in Replay(History, EventTypes)[n] : TRUE],
              bodies  |-> <<>>,
              markers |-> OldMarkers,
              batches |-> <<>>,
              snaps   |-> <<>>]
  BY DEF Init
<1>2. /\ db.log = History /\ db.tables = t /\ db.markers = OldMarkers
      /\ db.past = [n \in 1..Len(History) |->
                      CHOOSE u \in Replay(History, EventTypes)[n] : TRUE]
      /\ db.bodies = <<>> /\ db.batches = <<>> /\ db.snaps = <<>>
      /\ DbShape(db)
  BY <1>1 DEF DbShape
<1>3. \A n \in 0 .. Len(History) :
        \A u \in Replay(History, EventTypes)[n] : {u} = Replay(History, EventTypes)[n]
  BY <1>0, ReplayIsFunctional
<1>4. {db.tables} = After(db)[Len(db.log)]
  BY <1>0, <1>2, <1>3 DEF After
<1>5. /\ DOMAIN db.past = 1 .. Len(db.log)
      /\ \A n \in 1 .. Len(db.log) : {db.past[n]} = After(db)[n]
  <2>1. ASSUME NEW n \in 1 .. Len(History)
        PROVE  {CHOOSE u \in Replay(History, EventTypes)[n] : TRUE}
                 = Replay(History, EventTypes)[n]
    <3> DEFINE R == Replay(History, EventTypes)[n]
    <3>1. n \in 0 .. Len(History)
      BY <1>0
    <3>2. R # {}
      BY <1>0, <3>1, FailureStays
    <3>3. \A u \in R : {u} = R
      BY <1>3, <3>1
    <3> HIDE DEF R
    <3>4. (CHOOSE u \in R : TRUE) \in R
      BY <3>2
    <3>5. {CHOOSE u \in R : TRUE} = R
      BY <3>3, <3>4
    <3>6. QED
      BY <3>5 DEF R
  <2>2. QED
    BY <1>2, <2>1 DEF After
<1>6. FreshRows(db.log) /\ \A m \in db.markers : m.offset \in Nat
  BY <1>2, HistoryAssumption DEF FreshRows
<1>7. /\ DOMAIN db.bodies = {} /\ DOMAIN db.snaps = {}
      /\ db.batches \in [DOMAIN db.batches -> [pin : 0 .. Len(db.log), closed : BOOLEAN]]
  BY <1>2
<1>8. DbOK(db)
  BY <1>0, <1>2, <1>4, <1>5, <1>6, <1>7 DEF DbOK
<1>9. SessionsInv /\ CopiesInv /\ ServedInv
  BY SessionsAssumption DEF Init, SessionsInv, CopiesInv, ServedInv, Idle
<1>10. QED
  BY <1>8, <1>9 DEF Inv

---------------------------------------------------------------------------
(* The lock and the sessions *)

\* Who may write is alone in not being idle.
LEMMA OthersAreIdle ==
  ASSUME SessionsInv, NEW s \in Sessions, lock \in {None, s}
  PROVE  \A r \in Sessions : r # s => ses[r].at = "idle"
BY SessionsAssumption DEF SessionsInv

\* A step of one request: its state is x, and it holds the lock unless it
\* is idle.
Moved(s, x) ==
  /\ ses' = [ses EXCEPT ![s] = x]
  /\ lock' = IF x.at = "idle" THEN None ELSE s

\* A step of the request that holds the lock, or takes it, leaves the others idle.
LEMMA MovedFacts ==
  ASSUME SessionsInv, NEW s \in Sessions, lock \in {None, s}, NEW x, Moved(s, x)
  PROVE  SessionsInv' /\ ses'[s] = x /\ \A r \in Sessions : r # s => ses'[r].at = "idle"
<1>1. ses' = [r \in Sessions |-> IF r = s THEN x ELSE ses[r]]
  BY DEF SessionsInv, Moved
<1>2. \A r \in Sessions : r # s => ses'[r].at = "idle"
  BY <1>1, OthersAreIdle
<1>3. ses'[s] = x
  BY <1>1
<1>4. ses' = [r \in Sessions |-> ses'[r]]
  BY <1>1
<1>5. lock' \in Sessions \cup {None}
  BY DEF Moved
<1>6. \A r \in Sessions : ses'[r].at = "idle" <=> lock' # r
  <2>1. \A r \in Sessions : r # None
    BY SessionsAssumption
  <2>2. QED
    BY <1>2, <1>3, <2>1 DEF Moved
<1>7. QED
  BY <1>2, <1>3, <1>4, <1>5, <1>6 DEF SessionsInv

\* What a request works on is a database, the committed one or a later one.
LEMMA OwnOK ==
  ASSUME Inv, NEW s \in Sessions, MayWrite(s)
  PROVE  DbOK(Own(s)) /\ (Own(s) = db \/ Later(Own(s), db))
BY DEF Inv, CopiesInv, MayWrite, Own

\* A request that goes back to idle.
LEMMA RollbackKeepsInv ==
  ASSUME Inv, NEW s \in Sessions, lock = s, Rollback(s), UNCHANGED <<db, served>>
  PROVE  Inv'
<1>1. Moved(s, Idle)
  BY DEF Rollback, Moved, Idle
<1>2. SessionsInv' /\ \A r \in Sessions : ses'[r].at = "idle"
  BY <1>1, MovedFacts DEF Inv, Idle
<1>3. CopiesInv'
  BY <1>2 DEF CopiesInv
<1>4. DbOK(db)' /\ ServedInv'
  BY DEF Inv, ServedInv, After
<1>5. QED
  BY <1>2, <1>3, <1>4 DEF Inv

\* A request that has a later database to commit.
LEMMA WritingKeepsInv ==
  ASSUME Inv, NEW s \in Sessions, lock \in {None, s}, NEW c, DbOK(c), Later(c, db),
         ses' = [ses EXCEPT ![s] = [at |-> "writing", copy |-> c]], lock' = s,
         UNCHANGED <<db, served>>
  PROVE  Inv'
<1> DEFINE x == [at |-> "writing", copy |-> c]
<1>1. x.at = "writing" /\ x.copy = c
  OBVIOUS
<1>2. Moved(s, x)
  BY DEF Moved
<1> HIDE DEF x
<1>3. SessionsInv' /\ ses'[s] = x /\ \A r \in Sessions : r # s => ses'[r].at = "idle"
  BY <1>2, MovedFacts DEF Inv
<1>4. CopiesInv'
  <2>1. SUFFICES ASSUME NEW r \in Sessions
                 PROVE  /\ ses'[r].at = "writing" =>
                             DbOK(ses'[r].copy) /\ Later(ses'[r].copy, db')
                        /\ ses'[r].at # "rebuilding"
    BY DEF CopiesInv
  <2>2. CASE r = s
    BY <1>1, <1>3, <2>2
  <2>3. CASE r # s
    BY <1>3, <2>3
  <2>4. QED
    BY <2>2, <2>3
<1>5. DbOK(db)' /\ ServedInv'
  BY DEF Inv, ServedInv, After
<1>6. QED
  BY <1>3, <1>4, <1>5 DEF Inv

---------------------------------------------------------------------------
(* Each action keeps the invariant *)

\* An event that fails rolls the request back; one that does not adds a row.
LEMMA AppendEventKeepsInv ==
  ASSUME Inv, NEW s \in Sessions, NEW e \in Events(Own(s)), AppendEvent(s, e)
  PROVE  Inv'
<1>1. MayWrite(s) /\ UNCHANGED <<db, served>> /\ lock \in {None, s}
  BY DEF AppendEvent, MayWrite
<1>2. DbOK(Own(s)) /\ (Own(s) = db \/ Later(Own(s), db))
  BY <1>1, OwnOK
<1>3. CASE Apply(Own(s).tables, e) = {}
  <2>1. Rollback(s)
    BY <1>3 DEF AppendEvent
  <2>2. CASE lock = s
    BY <1>1, <2>1, <2>2, RollbackKeepsInv
  <2>3. CASE lock = None
    <3>1. ses[s].at = "idle"
      BY <2>3, SessionsAssumption DEF Inv, SessionsInv
    <3>2. Moved(s, Idle)
      BY <2>1 DEF Rollback, Moved, Idle
    <3>3. SessionsInv' /\ \A r \in Sessions : ses'[r].at = "idle"
      BY <1>1, <3>2, MovedFacts DEF Inv, Idle
    <3>4. CopiesInv'
      BY <3>3 DEF CopiesInv
    <3>5. DbOK(db)' /\ ServedInv'
      BY <1>1 DEF Inv, ServedInv, After
    <3>6. QED
      BY <3>3, <3>4, <3>5 DEF Inv
  <2>4. QED
    BY <1>1, <2>2, <2>3
<1>4. CASE Apply(Own(s).tables, e) # {}
  <2>1. PICK after \in Apply(Own(s).tables, e) :
          /\ ses' = [ses EXCEPT ![s] = [at |-> "writing", copy |-> Appended(Own(s), e, after)]]
          /\ lock' = s
    BY <1>4 DEF AppendEvent
  <2> DEFINE d == Own(s)
             c == Appended(d, e, after)
  <2>2. e \in Event /\ Minted(e) \cap NodesUsed(d) = {}
    BY <1>2, <1>4, EventsAreFresh
  <2>3. DbOK(c) /\ Later(c, d)
    <3> HIDE DEF d
    <3>1. DbOK(d) /\ after \in Apply(d.tables, e)
      BY <1>2, <2>1 DEF d
    <3>2. QED
      BY <2>2, <3>1, AppendedOK
  <2>4. Later(c, db)
    <3>1. DbOK(db) /\ DbOK(d)
      BY <1>2 DEF Inv
    <3> HIDE DEF c, d
    <3>2. d = db \/ Later(d, db)
      BY <1>2 DEF d
    <3>3. QED
      BY <2>3, <3>1, <3>2, LaterIsTransitive
  <2>5. ses' = [ses EXCEPT ![s] = [at |-> "writing", copy |-> c]] /\ lock' = s
    BY <2>1
  <2> HIDE DEF c, d
  <2>6. QED
    BY <1>1, <2>3, <2>4, <2>5, WritingKeepsInv
<1>5. QED
  BY <1>3, <1>4

\* A registration writes the coordinates of the node it has just minted.
LEMMA RegisterReferenceKeepsInv ==
  ASSUME Inv, NEW s \in Sessions, NEW sha, RegisterReference(s, sha)
  PROVE  Inv'
<1>1. PICK n \in Unused(Nodes, NodesUsed(db)) :
        LET e == [type |-> "NodeCreated", node |-> n, tier |-> "ref", parent |-> None,
                  name |-> "n", content |-> "git"] IN
        \E after \in Apply(db.tables, e) :
          ses' = [ses EXCEPT ![s] =
                    [at   |-> "writing",
                     copy |-> [Appended(db, e, after) EXCEPT !.bodies = Put(@, n, sha)]]]
  BY DEF RegisterReference
<1> DEFINE e == [type |-> "NodeCreated", node |-> n, tier |-> "ref", parent |-> None,
                 name |-> "n", content |-> "git"]
<1>2. PICK after \in Apply(db.tables, e) :
        ses' = [ses EXCEPT ![s] =
                  [at   |-> "writing",
                   copy |-> [Appended(db, e, after) EXCEPT !.bodies = Put(@, n, sha)]]]
  BY <1>1
<1>3. n \in Nodes /\ n \notin NodesUsed(db)
  BY UnusedIsFree
<1>4. e \in Event /\ Minted(e) = {n}
  <2>1. e \in NodeEvent
    BY <1>3, NamesAssumption DEF NodeEvent
  <2>2. QED
    BY <2>1 DEF Event, Minted
<1> DEFINE b == Appended(db, e, after)
           c == SetBodies(b, Put(b.bodies, n, sha))
<1>5. ses' = [ses EXCEPT ![s] = [at |-> "writing", copy |-> c]]
  BY <1>2 DEF SetBodies
<1>6. /\ DbOK(b) /\ Later(b, db) /\ NodesUsed(b) = NodesUsed(db) \cup {n}
      /\ DOMAIN b.bodies \subseteq NodesUsed(b)
  <2> HIDE DEF e
  <2>1. DbOK(db) /\ Minted(e) \cap NodesUsed(db) = {}
    BY <1>3, <1>4 DEF Inv
  <2>2. DbOK(b) /\ Later(b, db) /\ NodesUsed(b) = NodesUsed(db) \cup Minted(e)
    BY <1>4, <2>1, AppendedOK
  <2> HIDE DEF b
  <2>3. DOMAIN b.bodies \subseteq NodesUsed(b)
    BY <2>2 DEF DbOK
  <2>4. QED
    BY <1>4, <2>2, <2>3
<1>7. \A m \in DOMAIN db.bodies :
        m \in DOMAIN b.tables.nodes => m \in DOMAIN b.bodies /\ b.bodies[m] = db.bodies[m]
  BY <1>6 DEF Later
<1>8. /\ SameRows(c, b) /\ c.bodies = Put(b.bodies, n, sha) /\ c.markers = b.markers
      /\ c.batches = b.batches /\ c.snaps = b.snaps
  <2> HIDE DEF b, c
  <2>1. DbShape(b)
    BY <1>6 DEF DbOK
  <2>2. c = SetBodies(b, Put(b.bodies, n, sha))
    BY DEF c
  <2>3. QED
    BY <2>1, <2>2, SetBodiesFields
<1> HIDE DEF b, c, e
<1>9. DbOK(c)
  <2>1. DOMAIN c.bodies \subseteq NodesUsed(b)
    BY <1>6, <1>8 DEF Put
  <2>2. QED
    BY <1>6, <1>8, <2>1, SameRowsOK DEF DbOK
<1>10. Later(c, db)
  <2>1. ASSUME NEW m \in DOMAIN db.bodies, m \in DOMAIN c.tables.nodes
        PROVE  m \in DOMAIN c.bodies /\ c.bodies[m] = db.bodies[m]
    <3>1. n \notin DOMAIN db.bodies
      BY <1>3 DEF Inv, DbOK
    <3>2. m \in DOMAIN b.bodies /\ b.bodies[m] = db.bodies[m] /\ m # n
      BY <1>7, <1>8, <2>1, <3>1 DEF SameRows
    <3>3. QED
      BY <1>8, <3>2 DEF Put
  <2>2. QED
    BY <1>6, <1>8, <2>1 DEF Later, SameRows
<1>11. lock = None /\ lock' = s /\ UNCHANGED <<db, served>>
  BY DEF RegisterReference
<1>12. QED
  BY <1>5, <1>9, <1>10, <1>11, WritingKeepsInv

\* A diff of the committed log is one of the log that a commit leaves.
LEMMA ServedByLater ==
  ASSUME ServedInv, UNCHANGED served, DbOK(db), DbOK(db'), Later(db', db)
  PROVE  ServedInv'
<1>1. /\ Len(db.log) \in Nat /\ Len(db'.log) \in Nat /\ Len(db.log) < Len(db'.log)
      /\ db.log \in Seq(Event) /\ db'.log \in Seq(Event)
  BY DEF DbOK, Later
<1>2. \A n \in 0 .. Len(db.log) : After(db)[n] = After(db')[n]
  BY <1>1, AgreeFacts DEF After, Later
<1>3. QED
  BY <1>1, <1>2 DEF ServedInv, After

\* A commit publishes a later database; the diffs served stay those of its past.
LEMMA CommitKeepsInv ==
  ASSUME Inv, NEW s \in Sessions, Commit(s)
  PROVE  Inv'
<1>1. /\ DbOK(db') /\ Later(db', db) /\ UNCHANGED served
      /\ lock = s /\ Rollback(s)
  BY DEF Commit, Inv, CopiesInv, SessionsInv
<1>2. Moved(s, Idle)
  BY <1>1 DEF Rollback, Moved, Idle
<1>3. SessionsInv' /\ \A r \in Sessions : ses'[r].at = "idle"
  BY <1>1, <1>2, MovedFacts DEF Inv, Idle
<1>4. CopiesInv'
  BY <1>3 DEF CopiesInv
<1>5. ServedInv'
  BY <1>1, ServedByLater DEF Inv
<1>6. DbOK(db)'
  BY <1>1
<1>7. QED
  BY <1>3, <1>4, <1>5, <1>6 DEF Inv

\* A short transaction of its own, which leaves the rows as they are.
LEMMA FreeKeepsInv ==
  ASSUME Inv, lock = None, UNCHANGED <<ses, lock, served>>, DbOK(db'), db'.log = db.log
  PROVE  Inv'
<1>1. \A r \in Sessions : ses[r].at = "idle"
  BY SessionsAssumption DEF Inv, SessionsInv
<1>2. SessionsInv' /\ CopiesInv'
  BY <1>1 DEF Inv, SessionsInv, CopiesInv
<1>3. ServedInv'
  BY DEF Inv, ServedInv, After
<1>4. DbOK(db)'
  OBVIOUS
<1>5. QED
  BY <1>2, <1>3, <1>4 DEF Inv

\* A batch pins the end of the log.
LEMMA OpenBatchKeepsInv ==
  ASSUME Inv, NEW b, OpenBatch(b)
  PROVE  Inv'
<1> DEFINE row == [pin |-> Len(db.log), closed |-> FALSE]
           x == Put(db.batches, b, row)
<1>1. DbOK(db) /\ lock = None /\ UNCHANGED <<ses, lock, served>> /\ db' = SetBatches(db, x)
  BY DEF Inv, OpenBatch, Free, SetBatches
<1>2. row \in [pin : 0 .. Len(db.log), closed : BOOLEAN]
  <2>1. Len(db.log) \in 0 .. Len(db.log)
    BY <1>1 DEF DbOK
  <2>2. QED
    BY <2>1
<1>3. x \in [DOMAIN x -> [pin : 0 .. Len(db.log), closed : BOOLEAN]]
  <2>1. db.batches \in [DOMAIN db.batches -> [pin : 0 .. Len(db.log), closed : BOOLEAN]]
    BY <1>1 DEF DbOK
  <2> HIDE DEF row
  <2>2. QED
    BY <1>2, <2>1 DEF Put
<1> HIDE DEF x
<1>4. /\ SameRows(db', db) /\ db'.bodies = db.bodies /\ db'.markers = db.markers
      /\ db'.batches = x /\ db'.snaps = db.snaps
  BY <1>1, SetBatchesFields DEF DbOK
<1>5. DbOK(db')
  <2>1. DOMAIN db.bodies \subseteq NodesUsed(db)
    BY <1>1 DEF DbOK
  <2>2. QED
    BY <1>1, <1>3, <1>4, <2>1, SameRowsOK
<1>6. QED
  BY <1>1, <1>4, <1>5, FreeKeepsInv DEF SameRows

LEMMA CloseBatchKeepsInv ==
  ASSUME Inv, NEW b, CloseBatch(b)
  PROVE  Inv'
<1> DEFINE x == [db.batches EXCEPT ![b].closed = TRUE]
<1>1. DbOK(db) /\ lock = None /\ UNCHANGED <<ses, lock, served>> /\ db' = SetBatches(db, x)
  BY DEF Inv, CloseBatch, Free, SetBatches
<1>2. x \in [DOMAIN x -> [pin : 0 .. Len(db.log), closed : BOOLEAN]]
  BY <1>1 DEF DbOK
<1> HIDE DEF x
<1>3. /\ SameRows(db', db) /\ db'.bodies = db.bodies /\ db'.markers = db.markers
      /\ db'.batches = x /\ db'.snaps = db.snaps
  BY <1>1, SetBatchesFields DEF DbOK
<1>4. DbOK(db')
  <2>1. /\ DOMAIN db.bodies \subseteq NodesUsed(db)
        /\ db.batches \in [DOMAIN db.batches -> [pin : 0 .. Len(db.log), closed : BOOLEAN]]
    BY <1>1 DEF DbOK
  <2>2. QED
    BY <1>1, <1>2, <1>3, <2>1, SameRowsOK
<1>5. QED
  BY <1>1, <1>3, <1>4, FreeKeepsInv DEF SameRows

LEMMA AcceptReviewKeepsInv ==
  ASSUME Inv, NEW b, NEW n, AcceptReview(b, n)
  PROVE  Inv'
<1> DEFINE x == {m \in db.markers : ~(m.node = n /\ m.offset <= db.batches[b].pin)}
<1>1. DbOK(db) /\ lock = None /\ UNCHANGED <<ses, lock, served>> /\ db' = SetMarkers(db, x)
  BY DEF Inv, AcceptReview, Free, SetMarkers
<1>2. x \subseteq db.markers
  OBVIOUS
<1> HIDE DEF x
<1>3. /\ SameRows(db', db) /\ db'.bodies = db.bodies /\ db'.markers = x
      /\ db'.batches = db.batches /\ db'.snaps = db.snaps
  BY <1>1, SetMarkersFields DEF DbOK
<1>4. DbOK(db')
  <2>1. /\ DOMAIN db.bodies \subseteq NodesUsed(db)
        /\ db.batches \in [DOMAIN db.batches -> [pin : 0 .. Len(db.log), closed : BOOLEAN]]
    BY <1>1 DEF DbOK
  <2>2. QED
    BY <1>1, <1>2, <1>3, <2>1, SameRowsOK
<1>5. QED
  BY <1>1, <1>3, <1>4, FreeKeepsInv DEF SameRows

\* The tables that the committed log leads to after n rows are the only ones.
LEMMA PastIsUnique ==
  ASSUME NEW d, DbOK(d), NEW n \in 0 .. Len(d.log), NEW u \in After(d)[n]
  PROVE  {u} = After(d)[n]
<1>1. d.log \in Seq(Event)
  BY DEF DbOK
<1>2. After(d)[n] = {} \/ \E v : After(d)[n] = {v}
  BY <1>1, ReplayIsFunctional DEF After
<1>3. QED
  BY <1>2

\* A diff takes the snapshot of its pin, or wipes a copy to rebuild it.
LEMMA RequestDiffKeepsInv ==
  ASSUME Inv, NEW s \in Sessions, NEW b, RequestDiff(s, b)
  PROVE  Inv'
<1> DEFINE pin == db.batches[b].pin
<1>1. /\ UNCHANGED db /\ lock = None /\ DbOK(db) /\ Len(db.log) \in Nat
      /\ pin \in 0 .. Len(db.log)
  BY DEF RequestDiff, Free, Inv, DbOK
<1>2. \A r \in Sessions : ses[r].at = "idle"
  BY <1>1, SessionsAssumption DEF Inv, SessionsInv
<1>3. CASE pin \in DOMAIN db.snaps
  <2>1. served' = DiffOf(pin, db.snaps[pin], db) /\ UNCHANGED <<ses, lock>>
    BY <1>3 DEF RequestDiff
  <2>2. ServedInv'
    <3>1. {db.snaps[pin]} = After(db)[pin] /\ {db.tables} = After(db)[Len(db.log)]
      BY <1>1, <1>3 DEF DbOK
    <3>2. /\ served'.pin = pin /\ served'.before = db.snaps[pin]
          /\ served'.after = db.tables /\ served'.at = Len(db.log)
      BY <2>1 DEF DiffOf
    <3> HIDE DEF pin
    <3>3. QED
      BY <1>1, <3>1, <3>2 DEF ServedInv, After
  <2>3. SessionsInv' /\ CopiesInv'
    BY <1>2, <2>1 DEF Inv, SessionsInv, CopiesInv
  <2>4. QED
    BY <1>1, <2>2, <2>3 DEF Inv
<1>4. CASE pin \notin DOMAIN db.snaps
  <2> DEFINE x == [at |-> "rebuilding", pin |-> pin, copy |-> Wiped(db), saved |-> db]
  <2>1. ses' = [ses EXCEPT ![s] = x] /\ lock' = s /\ UNCHANGED served
    BY <1>4 DEF RequestDiff
  <2>2. x.at = "rebuilding" /\ x.pin = pin /\ x.copy = Wiped(db) /\ x.saved = db
    OBVIOUS
  <2>3. Wiped(db).log = db.log
    BY <1>1 DEF Wiped, DbOK, DbShape
  <2> HIDE DEF x, pin
  <2>4. Moved(s, x)
    BY <2>1, <2>2 DEF Moved
  <2>5. SessionsInv' /\ ses'[s] = x /\ \A r \in Sessions : r # s => ses'[r].at = "idle"
    BY <1>1, <2>4, MovedFacts DEF Inv
  <2>6. CopiesInv'
    <3>1. SUFFICES ASSUME NEW r \in Sessions
                   PROVE  /\ ses'[r].at # "writing"
                          /\ ses'[r].at = "rebuilding" =>
                               /\ ses'[r].saved = db' /\ ses'[r].copy.log = db'.log
                               /\ ses'[r].pin \in 0 .. Len(db'.log)
      BY DEF CopiesInv
    <3>2. CASE r = s
      BY <1>1, <2>2, <2>3, <2>5, <3>2
    <3>3. CASE r # s
      BY <2>5, <3>3
    <3>4. QED
      BY <3>2, <3>3
  <2>7. DbOK(db)' /\ ServedInv'
    BY <1>1, <2>1 DEF Inv, ServedInv, After
  <2>8. QED
    BY <2>5, <2>6, <2>7 DEF Inv
<1>5. QED
  BY <1>3, <1>4

\* What a replay of the rows up to the pin leaves is how the tables stood there.
LEMMA RebuiltIsPast ==
  ASSUME NEW d, DbOK(d), NEW n \in 0 .. Len(d.log), NEW u \in Rebuild(UpTo(d, n))
  PROVE  {u} = After(d)[n]
<1> DEFINE rows == SubSeq(d.log, 1, n)
<1>1. d.log \in Seq(Event) /\ n \in Nat /\ Len(d.log) \in Nat
  BY DEF DbOK
<1>2. rows \in Seq(Event) /\ Len(rows) = n /\ \A i \in 1 .. n : rows[i] = d.log[i]
  BY <1>1
<1>3. u \in Replay(rows, RowTypes)[n]
  BY <1>2 DEF Rebuild, UpTo
<1> HIDE DEF rows
<1>4. u \in Replay(rows, EventTypes)[n]
  <2>1. n \in 0 .. Len(rows)
    BY <1>1, <1>2
  <2>2. QED
    BY <1>2, <1>3, <2>1, RebuildIsReplay
<1>5. Agree(rows, d.log, n)
  BY <1>1, <1>2 DEF Agree
<1>6. n \in 0 .. n
  BY <1>1
<1>7. u \in After(d)[n]
  BY <1>1, <1>2, <1>4, <1>5, <1>6, AgreeFacts DEF After
<1>8. QED
  BY <1>7, PastIsUnique

\* The rebuilt view is the tables of the pin; the wiped copy is gone.
LEMMA BuildSnapshotKeepsInv ==
  ASSUME Inv, NEW s \in Sessions, BuildSnapshot(s)
  PROVE  Inv'
<1> DEFINE pin == ses[s].pin
           rebuilt == Rebuild(UpTo(ses[s].copy, pin))
<1>1. /\ UNCHANGED db /\ lock = s /\ DbOK(db) /\ Len(db.log) \in Nat
      /\ pin \in 0 .. Len(db.log) /\ ses[s].saved = db /\ ses[s].copy.log = db.log
  BY DEF BuildSnapshot, Inv, SessionsInv, CopiesInv, DbOK
<1>2. CASE rebuilt = {}
  <2>1. Rollback(s) /\ UNCHANGED served
    BY <1>2 DEF BuildSnapshot
  <2>2. QED
    BY <1>1, <2>1, RollbackKeepsInv
<1>3. CASE rebuilt # {}
  <2>1. PICK view \in rebuilt :
          LET d == [ses[s].saved EXCEPT !.snaps = Put(@, ses[s].pin, view)] IN
            /\ ses' = [ses EXCEPT ![s] = [at |-> "diffed", copy |-> d]]
            /\ served' = DiffOf(ses[s].pin, view, d)
            /\ UNCHANGED lock
    BY <1>3 DEF BuildSnapshot
  <2> DEFINE d == SetSnaps(db, Put(db.snaps, pin, view))
             x == [at |-> "diffed", copy |-> d]
  <2>2. /\ ses' = [ses EXCEPT ![s] = x]
        /\ served' = DiffOf(pin, view, d)
        /\ UNCHANGED lock
    BY <1>1, <2>1 DEF SetSnaps
  <2>3. {view} = After(db)[pin]
    <3>1. view \in Rebuild(UpTo(db, pin))
      BY <1>1 DEF UpTo
    <3> HIDE DEF pin
    <3>2. QED
      BY <1>1, <3>1, RebuiltIsPast
  <2>4. d.log = db.log /\ d.tables = db.tables
    <3>1. DbShape(db)
      BY <1>1 DEF DbOK
    <3>2. QED
      BY <3>1, SetSnapsFields
  <2>5. x.at = "diffed"
    OBVIOUS
  <2> HIDE DEF d, x, pin
  <2>6. Moved(s, x)
    BY <1>1, <2>2, <2>5 DEF Moved
  <2>7. SessionsInv' /\ \A r \in Sessions : ses'[r].at \in {"idle", "diffed"}
    BY <1>1, <2>5, <2>6, MovedFacts DEF Inv
  <2>8. CopiesInv'
    BY <2>7 DEF CopiesInv
  <2>9. ServedInv'
    <3>1. /\ served'.pin = pin /\ served'.before = view
          /\ served'.after = db.tables /\ served'.at = Len(db.log)
      BY <2>2, <2>4 DEF DiffOf
    <3>2. {db.tables} = After(db)[Len(db.log)]
      BY <1>1 DEF DbOK
    <3>3. QED
      BY <1>1, <2>3, <3>1, <3>2 DEF ServedInv, After
  <2>10. DbOK(db)'
    BY <1>1
  <2>11. QED
    BY <2>7, <2>8, <2>9, <2>10 DEF Inv
<1>4. QED
  BY <1>2, <1>3

LEMMA EndsKeepInv ==
  ASSUME Inv, NEW s \in Sessions, Fail(s) \/ EndDiff(s)
  PROVE  Inv'
<1>1. lock = s /\ Rollback(s) /\ UNCHANGED <<db, served>>
  BY DEF Fail, EndDiff, Inv, SessionsInv
<1>2. QED
  BY <1>1, RollbackKeepsInv

\* Every step keeps the invariant.
LEMMA StepKeepsInv ==
  ASSUME Inv, [Next]_vars
  PROVE  Inv'
<1>1. ASSUME NEW s \in Sessions, NEW e \in Events(Own(s)), AppendEvent(s, e) PROVE Inv'
  BY <1>1, AppendEventKeepsInv
<1>2. ASSUME NEW s \in Sessions, NEW sha \in Bodies, RegisterReference(s, sha) PROVE Inv'
  BY <1>2, RegisterReferenceKeepsInv
<1>3. ASSUME NEW s \in Sessions, Commit(s) PROVE Inv'
  BY <1>3, CommitKeepsInv
<1>4. ASSUME NEW s \in Sessions, Fail(s) \/ EndDiff(s) PROVE Inv'
  BY <1>4, EndsKeepInv
<1>5. ASSUME NEW s \in Sessions, NEW b \in Batches, RequestDiff(s, b) PROVE Inv'
  BY <1>5, RequestDiffKeepsInv
<1>6. ASSUME NEW s \in Sessions, BuildSnapshot(s) PROVE Inv'
  BY <1>6, BuildSnapshotKeepsInv
<1>7. ASSUME NEW b \in Batches, OpenBatch(b) PROVE Inv'
  BY <1>7, OpenBatchKeepsInv
<1>8. ASSUME NEW b \in Batches, CloseBatch(b) PROVE Inv'
  BY <1>8, CloseBatchKeepsInv
<1>9. ASSUME NEW b \in Batches, NEW n \in Nodes, AcceptReview(b, n) PROVE Inv'
  BY <1>9, AcceptReviewKeepsInv
<1>10. CASE UNCHANGED vars
  <2>1. db' = db /\ ses' = ses /\ lock' = lock /\ served' = served
    BY <1>10 DEF vars
  <2>2. DbOK(db)' /\ CopiesInv' /\ ServedInv'
    BY <2>1 DEF Inv, CopiesInv, ServedInv, After
  <2>3. SessionsInv'
    BY <2>1 DEF Inv, SessionsInv
  <2>4. QED
    BY <2>2, <2>3 DEF Inv
<1>11. QED
  BY <1>1, <1>2, <1>3, <1>4, <1>5, <1>6, <1>7, <1>8, <1>9, <1>10 DEF Next

\* At every moment the committed database, and whatever a request has not
\* committed yet, is what its own log leads to.
THEOREM Invariance == Spec => []Inv
<1>1. Init => Inv
  BY InitOK
<1>2. Inv /\ [Next]_vars => Inv'
  BY StepKeepsInv
<1>3. QED
  BY <1>1, <1>2, PTL DEF Spec

---------------------------------------------------------------------------
(* What the invariant says *)

\* A diff sets the tables as they stood at the pin against those of the
\* moment of the answer (review.py, get_or_build_snapshot; diff.py).
THEOREM DiffIsOfThePinHolds == Spec => []DiffIsOfThePin
<1>1. Inv => DiffIsOfThePin
  <2> SUFFICES ASSUME Inv, served # None
               PROVE  served.before = Past(served.pin) /\ served.after = Past(served.at)
    BY DEF DiffIsOfThePin
  <2>1. DbOK(db) /\ db.log \in Seq(Event) /\ Len(db.log) \in Nat
    BY DEF Inv, DbOK
  <2>2. \A n \in 0 .. Len(db.log) : {Past(n)} = After(db)[n]
    <3>1. {EmptyTables} = After(db)[0]
      BY <2>1, ReplayUnfolds DEF After
    <3>2. \A n \in 1 .. Len(db.log) : {db.past[n]} = After(db)[n]
      BY <2>1 DEF DbOK
    <3>3. QED
      BY <2>1, <3>1, <3>2 DEF Past
  <2>3. ServedInv
    BY DEF Inv
  <2>4. QED
    BY <2>2, <2>3 DEF ServedInv
<1>2. QED
  BY <1>1, Invariance, PTL

\* No sequence of creations, splits, merges and deletions builds a third
\* level of components (reducer.py, _check_depth_cap).
THEOREM CreationKeepsTwoLevelsHolds == Spec => []CreationKeepsTwoLevels
<1>1. Inv => CreationKeepsTwoLevels
  BY DbIsSound DEF Inv, Sound, CreationKeepsTwoLevels
<1>2. QED
  BY <1>1, Invariance, PTL

---------------------------------------------------------------------------
(* What a step does to the committed database *)

\* What a step does to the committed database: nothing, more rows, or a review.
LEMMA StepOfDb ==
  ASSUME Inv, [Next]_vars
  PROVE  \/ db' = db
         \/ DbOK(db') /\ Later(db', db)
         \/ \E b \in Batches : \/ OpenBatch(b) \/ CloseBatch(b)
                               \/ \E n \in Nodes : AcceptReview(b, n)
<1>1. ASSUME NEW s \in Sessions, NEW e \in Events(Own(s)), AppendEvent(s, e) PROVE db' = db
  BY <1>1 DEF AppendEvent
<1>2. ASSUME NEW s \in Sessions, NEW sha \in Bodies, RegisterReference(s, sha) PROVE db' = db
  BY <1>2 DEF RegisterReference
<1>3. ASSUME NEW s \in Sessions, Commit(s) PROVE DbOK(db') /\ Later(db', db)
  BY <1>3 DEF Commit, Inv, CopiesInv
<1>4. ASSUME NEW s \in Sessions, Fail(s) \/ EndDiff(s) PROVE db' = db
  BY <1>4 DEF Fail, EndDiff
<1>5. ASSUME NEW s \in Sessions, NEW b \in Batches, RequestDiff(s, b) PROVE db' = db
  BY <1>5 DEF RequestDiff
<1>6. ASSUME NEW s \in Sessions, BuildSnapshot(s) PROVE db' = db
  BY <1>6 DEF BuildSnapshot
<1>7. CASE UNCHANGED vars
  BY <1>7 DEF vars
<1>8. QED
  BY <1>1, <1>2, <1>3, <1>4, <1>5, <1>6, <1>7 DEF Next

\* Opening, closing and accepting touch neither the rows nor the git
\* coordinates, and only an accept drops markers.
LEMMA ReviewOfDb ==
  ASSUME Inv, NEW b, OpenBatch(b) \/ CloseBatch(b) \/ \E n \in Nodes : AcceptReview(b, n)
  PROVE  /\ db'.log = db.log /\ db'.tables = db.tables /\ db'.bodies = db.bodies
         /\ \A m \in db.markers \ db'.markers :
              b \in DOMAIN db.batches /\ db.batches[b].pin >= m.offset
<1>0. DbShape(db)
  BY DEF Inv, DbOK
<1>1. CASE OpenBatch(b)
  <2>1. PICK x : db' = SetBatches(db, x)
    BY <1>1 DEF OpenBatch, SetBatches
  <2>2. QED
    BY <1>0, <2>1, SetBatchesFields DEF SameRows
<1>2. CASE CloseBatch(b)
  <2>1. PICK x : db' = SetBatches(db, x)
    BY <1>2 DEF CloseBatch, SetBatches
  <2>2. QED
    BY <1>0, <2>1, SetBatchesFields DEF SameRows
<1>3. CASE \E n \in Nodes : AcceptReview(b, n)
  <2>1. PICK n \in Nodes : AcceptReview(b, n)
    BY <1>3
  <2> DEFINE x == {m \in db.markers : ~(m.node = n /\ m.offset <= db.batches[b].pin)}
  <2>2. db' = SetMarkers(db, x) /\ b \in DOMAIN db.batches
    BY <2>1 DEF AcceptReview, SetMarkers
  <2>3. /\ db'.log = db.log /\ db'.tables = db.tables /\ db'.bodies = db.bodies
        /\ db'.markers = x
    <3> HIDE DEF x
    <3>1. QED
      BY <1>0, <2>2, SetMarkersFields DEF SameRows
  <2>4. ASSUME NEW m \in db.markers \ db'.markers
        PROVE  db.batches[b].pin >= m.offset
    <3>1. m.offset <= db.batches[b].pin
      BY <2>3
    <3>2. m.offset \in Nat /\ db.batches[b].pin \in Nat
      BY <2>2 DEF Inv, DbOK
    <3>3. QED
      BY <3>1, <3>2
  <2>5. QED
    BY <2>2, <2>3, <2>4
<1>4. QED
  BY <1>1, <1>2, <1>3

\* The git coordinates of a row that is left, and the staleness markers,
\* survive every append, rollback and rebuild; only an accept of a batch
\* pinned at or after a marker drops it.
THEOREM OffLogRowsKeptHolds == Spec => OffLogRowsKept
<1> DEFINE Kept ==
      /\ \A n \in DOMAIN db.bodies :
           IsNode(db'.tables, n) => n \in DOMAIN db'.bodies /\ db'.bodies[n] = db.bodies[n]
      /\ \A m \in db.markers \ db'.markers :
           /\ db'.log = db.log
           /\ \E b \in DOMAIN db.batches : db.batches[b].pin >= m.offset
<1>1. Inv /\ [Next]_vars => [Kept]_vars
  <2> SUFFICES ASSUME Inv, [Next]_vars PROVE Kept
    OBVIOUS
  <2>1. CASE db' = db
    BY <2>1
  <2>2. CASE Later(db', db)
    BY <2>2 DEF Later, IsNode
  <2>3. CASE \E b \in Batches : \/ OpenBatch(b) \/ CloseBatch(b)
                                \/ \E n \in Nodes : AcceptReview(b, n)
    <3>1. PICK b \in Batches : \/ OpenBatch(b) \/ CloseBatch(b)
                               \/ \E n \in Nodes : AcceptReview(b, n)
      BY <2>3
    <3>2. /\ db'.log = db.log /\ db'.bodies = db.bodies
          /\ \A m \in db.markers \ db'.markers :
               b \in DOMAIN db.batches /\ db.batches[b].pin >= m.offset
      BY <3>1, ReviewOfDb
    <3>3. QED
      BY <3>2
  <2>4. QED
    BY <2>1, <2>2, <2>3, StepOfDb
<1>2. QED
  BY <1>1, Invariance, PTL DEF Spec, OffLogRowsKept

\* Along a step settled drafts keep what they say.
LEMMA StepSettles ==
  ASSUME Inv, Inv', [Next]_vars
  PROVE  SettledKept(db.tables, db'.tables)
<1>1. CASE db'.tables = db.tables
  BY <1>1 DEF SettledKept, SameButReview
<1>2. CASE DbOK(db') /\ Later(db', db)
  <2> DEFINE m == Len(db.log)
             k == Len(db'.log)
  <2>1. /\ db.log \in Seq(Event) /\ m \in Nat /\ {db.tables} = After(db)[m]
        /\ db'.log \in Seq(Event) /\ k \in Nat /\ {db'.tables} = After(db')[k]
        /\ FreshRows(db'.log) /\ m \in 0 .. k
    BY <1>2 DEF Inv, DbOK, Later, Agree
  <2>2. After(db)[m] = After(db')[m]
    BY <1>2, <2>1, AgreeFacts DEF Later, After
  <2>3. db.tables \in Replay(db'.log, EventTypes)[m]
    BY <2>1, <2>2 DEF After
  <2>4. k \in m .. k
    BY <2>1
  <2> HIDE DEF m, k
  <2>5. \A n \in m .. Len(db'.log) : \A v \in Replay(db'.log, EventTypes)[n] :
          SettledKept(db.tables, v)
    BY <2>1, <2>3, SettledAlong DEF k
  <2>6. db'.tables \in Replay(db'.log, EventTypes)[k]
    BY <2>1 DEF After
  <2>7. QED
    BY <2>4, <2>5, <2>6 DEF k
<1>3. QED
  BY <1>1, <1>2, StepOfDb, ReviewOfDb

\* A set without two elements has at most one.
LEMMA AtMostOneElement ==
  ASSUME NEW P, \A c, d \in P : c = d
  PROVE  Cardinality(P) <= 1
<1>1. CASE P = {}
  <2>1. Cardinality(P) = 0
    BY <1>1, FS_EmptySet, Zenon
  <2>2. QED
    BY <2>1
<1>2. CASE P # {}
  <2>1. PICK c \in P : TRUE
    BY <1>2
  <2>2. P = {c}
    BY <2>1
  <2>3. Cardinality(P) = 1
    BY <2>2, FS_Singleton, Zenon
  <2>4. QED
    BY <2>3
<1>3. QED
  BY <1>1, <1>2

\* A settled draft keeps its status, content and reason, and a target has
\* one pending draft at most, across commits of any number of events.
THEOREM DraftsSettleOnceHolds == Spec => DraftsSettleOnce
<1> DEFINE Settle ==
      /\ \A d \in DOMAIN db.tables.drafts :
           db.tables.drafts[d].status # "pending" =>
             [db'.tables.drafts[d] EXCEPT !.review = db.tables.drafts[d].review]
               = db.tables.drafts[d]
      /\ \A d \in DOMAIN db'.tables.drafts :
           Cardinality(Pending(db'.tables, db'.tables.drafts[d].target)) <= 1
<1>1. Inv /\ Inv' /\ [Next]_vars => [Settle]_vars
  <2> SUFFICES ASSUME Inv, Inv', [Next]_vars PROVE Settle
    OBVIOUS
  <2>1. /\ TablesOK(db.tables) /\ TablesOK(db'.tables) /\ OnePending(db'.tables)
    BY DbIsSound DEF Inv, Sound
  <2>2. ASSUME NEW d \in DOMAIN db.tables.drafts, db.tables.drafts[d].status # "pending"
        PROVE  [db'.tables.drafts[d] EXCEPT !.review = db.tables.drafts[d].review]
                 = db.tables.drafts[d]
    <3> DEFINE r == db.tables.drafts[d]
               q == db'.tables.drafts[d]
    <3>1. d \in DOMAIN db'.tables.drafts /\ SameButReview(q, r)
      BY <2>2, StepSettles DEF SettledKept
    <3>2. r \in DraftRow /\ q \in DraftRow
      BY <2>1, <3>1 DEF TablesOK, IsTable
    <3> HIDE DEF r, q
    <3>3. [q EXCEPT !.review = r.review] = r
      BY <3>1, <3>2 DEF SameButReview, DraftRow
    <3>4. QED
      BY <3>3 DEF r, q
  <2>3. ASSUME NEW d \in DOMAIN db'.tables.drafts
        PROVE  Cardinality(Pending(db'.tables, db'.tables.drafts[d].target)) <= 1
    <3> DEFINE P == Pending(db'.tables, db'.tables.drafts[d].target)
    <3>1. \A c, e \in P : c = e
      BY <2>1 DEF OnePending, Pending
    <3> HIDE DEF P
    <3>2. Cardinality(P) <= 1
      BY <3>1, AtMostOneElement
    <3>3. QED
      BY <3>2 DEF P
  <2>4. QED
    BY <2>2, <2>3
<1>2. QED
  BY <1>1, Invariance, PTL DEF Spec, DraftsSettleOnce

---------------------------------------------------------------------------
(* The refinement *)

\* The abstract log applies and reads back rows as the reducer does.
LEMMA LogReplays ==
  ASSUME NEW rows
  PROVE  /\ Log!Applied(rows) = Replay(rows, EventTypes)[Len(rows)]
         /\ Log!Rebuilt(rows) = Replay(rows, RowTypes)[Len(rows)]
<1>1. Log!Applied(rows) = Replay(rows, EventTypes)[Len(rows)]
  BY DEF Log!Applied, Replay, ApplyEvent
<1>2. Log!Rebuilt(rows) = Replay(rows, RowTypes)[Len(rows)]
  BY DEF Log!Rebuilt, Replay, Reread
<1>3. QED
  BY <1>1, <1>2

\* A rebuild of rows that can all be read back leaves what applying them
\* left, and one of any other log fails.
LEMMA RebuildOfLog ==
  ASSUME NEW d, DbOK(d)
  PROVE  Replay(d.log, RowTypes)[Len(d.log)] =
           IF \A i \in 1 .. Len(d.log) : Readable(d.log[i]) THEN {d.tables} ELSE {}
<1> DEFINE rows == d.log
           S == {n \in 0 .. Len(rows) : Replay(rows, RowTypes)[n] = Replay(rows, EventTypes)[n]}
<1>0. rows \in Seq(Event) /\ Len(rows) \in Nat /\ {d.tables} = Replay(rows, EventTypes)[Len(rows)]
  BY DEF DbOK, After
<1> HIDE DEF rows
<1>1. CASE \A i \in 1 .. Len(rows) : Readable(rows[i])
  <2>1. 0 \in S
    <3>1. Replay(rows, RowTypes)[0] = {EmptyTables} /\ Replay(rows, EventTypes)[0] = {EmptyTables}
      BY <1>0, ReplayUnfolds
    <3>2. Replay(rows, RowTypes)[0] = Replay(rows, EventTypes)[0]
      BY <3>1
    <3>3. 0 \in 0 .. Len(rows)
      BY <1>0
    <3>4. QED
      BY <3>2, <3>3
  <2>2. ASSUME NEW n \in 1 .. Len(rows), n - 1 \in S PROVE n \in S
    <3>1. /\ Replay(rows, RowTypes)[n] =
               UNION {ApplyRow(t, rows[n], RowTypes) : t \in Replay(rows, RowTypes)[n - 1]}
          /\ Replay(rows, EventTypes)[n] =
               UNION {ApplyRow(t, rows[n], EventTypes) : t \in Replay(rows, EventTypes)[n - 1]}
      BY <1>0, ReplayUnfolds
    <3>2. \A t : ApplyRow(t, rows[n], RowTypes) = ApplyRow(t, rows[n], EventTypes)
      BY <1>1 DEF ApplyRow, EventTypes, Readable
    <3>3. Replay(rows, RowTypes)[n] = Replay(rows, EventTypes)[n]
      BY <2>2, <3>1, <3>2
    <3>4. QED
      BY <1>0, <3>3
  <2> HIDE DEF S
  <2>3. \A n \in 0 .. Len(rows) : n \in S
    BY <1>0, <2>1, <2>2, Climb
  <2>4. Len(rows) \in S
    BY <1>0, <2>3
  <2>5. QED
    BY <1>0, <1>1, <2>4 DEF S, rows
<1>2. CASE ~ \A i \in 1 .. Len(rows) : Readable(rows[i])
  <2>1. PICK i \in 1 .. Len(rows) : ~ Readable(rows[i])
    BY <1>2
  <2>2. Replay(rows, RowTypes)[i] = {}
    <3>1. Replay(rows, RowTypes)[i] =
            UNION {ApplyRow(t, rows[i], RowTypes) : t \in Replay(rows, RowTypes)[i - 1]}
      BY <1>0, ReplayUnfolds
    <3>2. \A t : ApplyRow(t, rows[i], RowTypes) = {}
      BY <2>1 DEF ApplyRow, Readable
    <3>3. QED
      BY <3>1, <3>2
  <2>3. i \in 0 .. Len(rows)
    BY <1>0
  <2>4. Replay(rows, RowTypes)[Len(rows)] = {}
    BY <1>0, <2>2, <2>3, FailureStays
  <2>5. QED
    BY <1>2, <2>4 DEF rows
<1>3. QED
  BY <1>1, <1>2

\* A database that can be committed agrees with its log.
LogAgrees(d) ==
  /\ Log!Applied(d.log) = {d.tables}
  /\ Log!Rebuilt(d.log) =
       IF \A i \in 1 .. Len(d.log) : Readable(d.log[i]) THEN {d.tables} ELSE {}

LEMMA DbAgrees ==
  ASSUME NEW d, DbOK(d)
  PROVE  LogAgrees(d)
BY LogReplays, RebuildOfLog DEF LogAgrees, DbOK, After

\* The committed log and tables implement GraphLog: the log only grows, the
\* tables are what its events lead to, and a rebuild gives them again exactly
\* when every row can be read back, whoever fails or rebuilds meanwhile.
THEOREM Refinement == Spec => ImplementsLog
<1>1. Init => Log!Init
  BY InitOK, DbAgrees DEF Inv, LogAgrees, Log!Init, Log!Agree
<1>2. Inv /\ [Next]_vars => [Log!AppendEvents]_<<db.log, db.tables>>
  <2> SUFFICES ASSUME Inv, [Next]_vars
               PROVE  Log!AppendEvents \/ (db'.log = db.log /\ db'.tables = db.tables)
    OBVIOUS
  <2>1. CASE DbOK(db') /\ Later(db', db)
    <3>1. /\ db.log \in Seq(Event) /\ db'.log \in Seq(Event)
          /\ Agree(db.log, db'.log, Len(db.log)) /\ Len(db.log) < Len(db'.log)
      BY <2>1 DEF Inv, DbOK, Later
    <3>2. IsStrictPrefix(db.log, db'.log)
      BY <3>1 DEF IsStrictPrefix, IsPrefix, Agree
    <3>3. LogAgrees(db')
      BY <2>1, DbAgrees
    <3>4. Log!AppendEvents
      BY <3>2, <3>3 DEF Log!AppendEvents, Log!Agree, LogAgrees, Log!IsStrictPrefix,
                        Log!IsPrefix, IsStrictPrefix, IsPrefix
    <3>5. QED
      BY <3>4
  <2>2. CASE db' = db
    BY <2>2
  <2>3. CASE \E b \in Batches : \/ OpenBatch(b) \/ CloseBatch(b)
                                \/ \E n \in Nodes : AcceptReview(b, n)
    BY <2>3, ReviewOfDb
  <2>4. QED
    BY <2>1, <2>2, <2>3, StepOfDb
<1>3. QED
  BY <1>1, <1>2, Invariance, PTL DEF Spec, ImplementsLog, Log!Spec

=============================================================================
