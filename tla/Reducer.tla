------------------------------ MODULE Reducer ------------------------------
(***************************************************************************)
(* The reducer of the graph event log: the one place where an event        *)
(* changes the projection tables (backend/graph/reducer.py), and the table *)
(* that turns stored rows back into events (backend/graph/events.py).      *)
(*                                                                         *)
(* A handler is an operator from the tables and an event to the set of     *)
(* tables it may leave: one element, or none when the handler or the       *)
(* database raises.  Foreign keys are not enforced (no PRAGMA turns them   *)
(* on), so a deleted node leaves the edges, the fragments and the children *)
(* that name it.  Columns no handler reads (kind, order, labels, stamps)   *)
(* are left out.                                                           *)
(***************************************************************************)
EXTENDS Naturals, Sequences, SequencesExt

CONSTANTS Nodes,          \* node ids
          Edges,          \* edge ids
          Drafts,         \* draft ids
          Tiers,          \* the tiers used, "comp", "feat", "vocab", "ref", "fanin"
          Kinds,          \* fragment kinds
          EdgeTypes,
          Texts,          \* non-empty names, contents and reviews
          None            \* an absent parent or reason

Blank == ""

ASSUME NamesAssumption ==
  /\ None \notin Nodes /\ None \notin Drafts
  /\ Tiers \cup EdgeTypes \cup Texts \subseteq STRING
  /\ {Blank, "n", "git", "ref", "user_regen", "auto_revision"} \subseteq STRING

---------------------------------------------------------------------------
(* Tables are partial functions from ids to rows.                          *)

EmptyTables == [nodes |-> <<>>, edges |-> <<>>, frags |-> <<>>, drafts |-> <<>>]

Put(table, id, row) ==
  [x \in DOMAIN table \cup {id} |-> IF x = id THEN row ELSE table[x]]

Without(table, ids) == Restrict(table, DOMAIN table \ ids)

\* The outcome of a handler: nothing when it raises.
When(guard, tables) == IF guard THEN {tables} ELSE {}

IsNode(t, n) == n \in DOMAIN t.nodes
TierOf(t, n) == t.nodes[n].tier

Target == ({"node"} \X Nodes) \cup ({"fragment"} \X (Nodes \X Kinds))

NodeRow == [tier : STRING, parent : Nodes \cup {None}, name : STRING,
            content : STRING, deferred : BOOLEAN, review : STRING]
EdgeRow == [type : STRING, source : Nodes, target : Nodes]
DraftRow == [target : Target, content : STRING,
             status : {"pending", "approved", "discarded"},
             reason : STRING \cup {None}, review : STRING]

IsTable(table, ids, row) ==
  DOMAIN table \subseteq ids /\ table \in [DOMAIN table -> row]

TablesOK(t) ==
  /\ t = [nodes |-> t.nodes, edges |-> t.edges, frags |-> t.frags, drafts |-> t.drafts]
  /\ IsTable(t.nodes, Nodes, NodeRow)
  /\ IsTable(t.edges, Edges, EdgeRow)
  /\ IsTable(t.frags, Nodes \X Kinds, STRING)
  /\ IsTable(t.drafts, Drafts, DraftRow)

---------------------------------------------------------------------------
(* The structural constraints.                                             *)

\* Slip: only the parent is looked at.
DepthCapOfParent(t, tier, parent) ==
  (tier = "comp" /\ parent # None) => IsNode(t, parent)

\* A component under a component needs a parent that is not itself under one.
DepthCapAllows(t, tier, parent) ==
  (tier = "comp" /\ parent # None) =>
     /\ IsNode(t, parent)
     /\ LET grand == t.nodes[parent].parent
        IN  ~ ( /\ TierOf(t, parent) = "comp"
                /\ IsNode(t, grand)
                /\ TierOf(t, grand) = "comp" )

VocabParentAllows(t, tier, parent) ==
  (tier = "vocab" /\ parent # None) => IsNode(t, parent) /\ TierOf(t, parent) = "feat"

ReferenceParentAllows(tier, parent) == tier = "ref" => parent = None

MayAttach(t, tier, parent) ==
  /\ DepthCapAllows(t, tier, parent)
  /\ VocabParentAllows(t, tier, parent)
  /\ ReferenceParentAllows(tier, parent)

---------------------------------------------------------------------------
(* Nodes and edges.                                                        *)

NodeCreated(t, e) ==
  When(~IsNode(t, e.node) /\ MayAttach(t, e.tier, e.parent),
       [t EXCEPT !.nodes = Put(@, e.node,
          [tier |-> e.tier, parent |-> e.parent, name |-> e.name,
           content |-> e.content, deferred |-> FALSE, review |-> Blank])])

NodeRenamed(t, e) ==
  When(IsNode(t, e.node), [t EXCEPT !.nodes[e.node].name = e.name])

NodeContentUpdated(t, e) ==
  When(IsNode(t, e.node), [t EXCEPT !.nodes[e.node].content = e.content])

NodeReparented(t, e) ==
  When(IsNode(t, e.node) /\ MayAttach(t, TierOf(t, e.node), e.parent),
       [t EXCEPT !.nodes[e.node].parent = e.parent])

NodeDeferredUpdated(t, e) ==
  When(IsNode(t, e.node), [t EXCEPT !.nodes[e.node].deferred = e.deferred])

\* NodePromoted and NodeDemoted check the depth cap alone.
NodeMovedToTier(t, e) ==
  When(IsNode(t, e.node) /\ DepthCapAllows(t, e.tier, t.nodes[e.node].parent),
       [t EXCEPT !.nodes[e.node].tier = e.tier])

NodesMerged(t, e) ==
  When(IsNode(t, e.dest),
       [t EXCEPT !.nodes = Without([@ EXCEPT ![e.dest].name = e.name],
                                   e.sources \ {e.dest})])

\* The destinations copy the tier and the parent of the source; the source
\* is renamed in place when it is one of them and deleted when it is not.
NodeSplit(t, e) ==
  LET src   == t.nodes[e.node]
      kept  == Without(t.nodes, {e.node} \ e.dests)
      part(n) == IF n = e.node THEN [src EXCEPT !.name = e.name]
                 ELSE [src EXCEPT !.name = e.name, !.content = Blank,
                                  !.deferred = FALSE, !.review = Blank]
  IN  When(IsNode(t, e.node) /\ \A n \in e.dests \ {e.node} : ~IsNode(t, n),
           [t EXCEPT !.nodes = [n \in DOMAIN kept \cup e.dests |->
                                  IF n \in e.dests THEN part(n) ELSE kept[n]]])

NodeDeleted(t, e) == {[t EXCEPT !.nodes = Without(@, {e.node})]}

\* A second edge between the same ends is absorbed: the row keeps its first id.
EdgeCreated(t, e) ==
  LET row == [type |-> e.edgeType, source |-> e.source, target |-> e.target]
  IN  IF \E x \in DOMAIN t.edges : t.edges[x] = row THEN {t}
      ELSE When(e.edge \notin DOMAIN t.edges, [t EXCEPT !.edges = Put(@, e.edge, row)])

EdgeDeleted(t, e) == {[t EXCEPT !.edges = Without(@, {e.edge})]}

---------------------------------------------------------------------------
(* Fragments and drafts.  A fragment's id is its owner and its kind; a     *)
(* draft targets <<"node", id>> or <<"fragment", id>>.                     *)

FragmentUpdated(t, e) ==
  When(e.id = <<e.owner, e.kind>>, [t EXCEPT !.frags = Put(@, e.id, e.content)])

Pending(t, target) ==
  {d \in DOMAIN t.drafts : t.drafts[d].target = target /\ t.drafts[d].status = "pending"}

\* The database refuses a second pending draft of one target.
DraftGenerated(t, e) ==
  When(e.draft \notin DOMAIN t.drafts /\ Pending(t, e.target) = {},
       [t EXCEPT !.drafts = Put(@, e.draft,
          [target |-> e.target, content |-> e.content, status |-> "pending",
           reason |-> None, review |-> Blank])])

IsPending(t, d) == d \in DOMAIN t.drafts /\ t.drafts[d].status = "pending"

\* Slip: a settled draft can still be edited.
DraftEditedAlways(t, e) ==
  When(e.draft \in DOMAIN t.drafts, [t EXCEPT !.drafts[e.draft].content = e.content])

DraftEdited(t, e) ==
  When(IsPending(t, e.draft), [t EXCEPT !.drafts[e.draft].content = e.content])

\* Approval writes the draft's content to its target, and creates the row
\* of a fragment that has none.
DraftApproved(t, e) ==
  LET draft == t.drafts[e.draft]
      id    == draft.target[2]
      done  == [t EXCEPT !.drafts[e.draft].status = "approved"]
  IN  IF ~IsPending(t, e.draft) THEN {}
      ELSE IF draft.target[1] = "node"
      THEN When(IsNode(t, id), [done EXCEPT !.nodes[id].content = draft.content])
      ELSE {[done EXCEPT !.frags = Put(@, id, draft.content)]}

DraftDiscarded(t, e) ==
  When(IsPending(t, e.draft),
       [t EXCEPT !.drafts[e.draft] = [@ EXCEPT !.status = "discarded", !.reason = e.reason]])

\* The review of a draft, or of a node that has no drafts (draft = None).
DraftReviewUpdated(t, e) ==
  IF e.draft # None
  THEN When(e.draft \in DOMAIN t.drafts, [t EXCEPT !.drafts[e.draft].review = e.review])
  ELSE When(IsNode(t, e.node), [t EXCEPT !.nodes[e.node].review = e.review])

FanInContentUpdated(t, e) ==
  When(IsNode(t, e.node) /\ TierOf(t, e.node) = "fanin",
       [t EXCEPT !.nodes[e.node].content = e.content])

BootstrapNodeContentCleared(t, e) ==
  When(IsNode(t, e.node), [t EXCEPT !.nodes[e.node].content = Blank])

---------------------------------------------------------------------------
(* The events, as their models declare them.                               *)

NodeEvent ==
       [type : {"NodeCreated"}, node : Nodes, tier : STRING, parent : Nodes \cup {None},
        name : STRING, content : STRING]
  \cup [type : {"NodeRenamed"}, node : Nodes, name : STRING]
  \cup [type : {"NodeContentUpdated", "FanInContentUpdated"}, node : Nodes, content : STRING]
  \cup [type : {"NodeReparented"}, node : Nodes, parent : Nodes \cup {None}]
  \cup [type : {"NodeDeferredUpdated"}, node : Nodes, deferred : BOOLEAN]
  \cup [type : {"NodePromoted", "NodeDemoted"}, node : Nodes, tier : STRING]
  \cup [type : {"NodesMerged"}, sources : SUBSET Nodes, dest : Nodes, name : STRING]
  \cup [type : {"NodeSplit"}, node : Nodes, dests : SUBSET Nodes, name : STRING]
  \cup [type : {"NodeDeleted", "BootstrapNodeContentCleared", "FeedbackCleared",
               "ViewRecorded"}, node : Nodes]

OtherEvent ==
       [type : {"EdgeCreated"}, edge : Edges, edgeType : STRING, source : Nodes, target : Nodes]
  \cup [type : {"EdgeDeleted"}, edge : Edges]
  \cup [type : {"FragmentUpdated"}, id : Nodes \X Kinds, owner : Nodes, kind : Kinds,
        content : STRING]
  \cup [type : {"DraftGenerated"}, draft : Drafts, target : Target, content : STRING]
  \cup [type : {"DraftEdited"}, draft : Drafts, content : STRING]
  \cup [type : {"DraftApproved"}, draft : Drafts]
  \cup [type : {"DraftDiscarded"}, draft : Drafts, reason : STRING]
  \cup [type : {"DraftReviewUpdated"}, draft : Drafts \cup {None}, node : Nodes,
        review : STRING]

Event == NodeEvent \cup OtherEvent

---------------------------------------------------------------------------
(* Dispatch and replay.                                                    *)

Apply(t, e) ==
  CASE e.type = "NodeCreated"         -> NodeCreated(t, e)
    [] e.type = "NodeRenamed"         -> NodeRenamed(t, e)
    [] e.type = "NodeContentUpdated"  -> NodeContentUpdated(t, e)
    [] e.type = "NodeReparented"      -> NodeReparented(t, e)
    [] e.type = "NodeDeferredUpdated" -> NodeDeferredUpdated(t, e)
    [] e.type \in {"NodePromoted", "NodeDemoted"} -> NodeMovedToTier(t, e)
    [] e.type = "NodesMerged"         -> NodesMerged(t, e)
    [] e.type = "NodeSplit"           -> NodeSplit(t, e)
    [] e.type = "NodeDeleted"         -> NodeDeleted(t, e)
    [] e.type = "EdgeCreated"         -> EdgeCreated(t, e)
    [] e.type = "EdgeDeleted"         -> EdgeDeleted(t, e)
    [] e.type = "FragmentUpdated"     -> FragmentUpdated(t, e)
    [] e.type = "DraftGenerated"      -> DraftGenerated(t, e)
    [] e.type = "DraftEdited"         -> DraftEdited(t, e)
    [] e.type = "DraftApproved"       -> DraftApproved(t, e)
    [] e.type = "DraftDiscarded"      -> DraftDiscarded(t, e)
    [] e.type = "DraftReviewUpdated"  -> DraftReviewUpdated(t, e)
    [] e.type = "FanInContentUpdated" -> FanInContentUpdated(t, e)
    [] e.type = "BootstrapNodeContentCleared" -> BootstrapNodeContentCleared(t, e)
    [] e.type \in {"FeedbackCleared", "ViewRecorded"} -> {t}

\* The types a stored row can be read back as: the reviews are missing.
RowTypes ==
  {"NodeCreated", "NodeRenamed", "NodeContentUpdated", "NodeReparented",
   "NodeDeferredUpdated", "NodePromoted", "NodeDemoted", "NodesMerged", "NodeSplit",
   "NodeDeleted", "EdgeCreated", "EdgeDeleted", "FragmentUpdated", "DraftGenerated",
   "DraftEdited", "DraftApproved", "DraftDiscarded", "FanInContentUpdated",
   "BootstrapNodeContentCleared", "FeedbackCleared", "ViewRecorded"}

\* Every type the reducer handles.
EventTypes == RowTypes \cup {"DraftReviewUpdated"}

\* A row turns back into its event if its type is in the table of types.
Readable(row) == row.type \in RowTypes

\* Reading a row of an unknown type raises.
ApplyRow(t, row, known) == IF row.type \in known THEN Apply(t, row) ELSE {}

ApplyEvent(t, e) == ApplyRow(t, e, EventTypes)

Reread(t, row) == ApplyRow(t, row, RowTypes)

\* The tables that the first n rows may leave, for every n: the rows are
\* applied to empty tables in order of offset.
Replay(rows, known) ==
  LET after[n \in 0 .. Len(rows)] ==
        IF n = 0 THEN {EmptyTables}
        ELSE UNION {ApplyRow(t, rows[n], known) : t \in after[n - 1]}
  IN  after

\* rebuild_projections after the wipe.
Rebuild(rows) == Replay(rows, RowTypes)[Len(rows)]

=============================================================================
