------------------------------ MODULE Documents ------------------------------
(***************************************************************************)
(* The documents of one project, from its feature expansion to the         *)
(* implementations: each is validated against what the documents before it *)
(* put in the graph (backend/graph/queries.py), and what is valid is       *)
(* approved.  The validators are those of backend/graph/parsers; the       *)
(* handlers that mint the nodes on approval are not in the repository any  *)
(* more, and what they keep is taken from the docstrings of their readers. *)
(*                                                                         *)
(* The id of a minted node is its name or its alias, that of a             *)
(* subcomponent the alias of its component and its own.                    *)
(*                                                                         *)
(* Bounds: a document is approved once; the architectures are worked in    *)
(* the order of topo_sort_comps, and so are the documents below them, each *)
(* at its own pace, though nothing in the code holds a later component     *)
(* back but the gates; a review is kept of the expansion only, a reference *)
(* is approved last.                                                       *)
(***************************************************************************)
EXTENDS ArchDocs, LeafDocs

CONSTANTS NoDoc,             \* a document that is not approved yet
          FeatureDocs,       \* the raw answers that are tried, per kind
          ReviewDocs, RequirementDocs, SysarchDocs, SubrequirementDocs,
          CompArchDocs,      \* with the component they are written for
          SubArchDocs, PolicyDocs, ImplementationDocs, FanInDocs, ReferenceDocs

\* Each answer is a sequence of tags.
ASSUME AnswersAssumption ==
  /\ FeatureDocs \cup ReviewDocs \cup RequirementDocs \cup SysarchDocs
       \cup SubrequirementDocs \cup SubArchDocs \cup PolicyDocs
       \cup ImplementationDocs \cup FanInDocs \cup ReferenceDocs \subseteq Seq(TagNode)
  /\ \A doc \in CompArchDocs : doc.raw \in Seq(TagNode)

VARIABLES review,      \* the findings of the review of the expansion's draft
          features,    \* the features of the approved expansion
          terms,       \* and its vocabulary
          asked,       \* the features the requirements had to cover
          resps,       \* the top-level responsibilities
          system,      \* the system architecture
          subresps,    \* component -> its subresponsibilities
          arch,        \* component -> its architecture
          applied,     \* component -> the policies that apply to it
          subarch,     \* subcomponent -> what it depends on
          impls,       \* the implementation nodes with a content, by owner
          fanins,      \* the fan-in nodes with a content, by owner
          reference    \* the ids a reference document points to

vars == <<review, features, terms, asked, resps, system, subresps, arch,
          applied, subarch, impls, fanins, reference>>

---------------------------------------------------------------------------
(* What the readers of the graph see (queries.py).                         *)

\* Those that are not deferred.  The flag of a feature is flipped at any time
\* (NodeDeferredUpdated), and a deferred feature is left out where the list is
\* read: the flags are chosen there, and what they are later changes nothing.
ListFeatures(deferred) == Values(NamesOf(features)) \ deferred

ListTopLevelResponsibilities == Values(NamesOf(resps))

ListTopLevelComponents == IF system = NoDoc THEN <<>> ELSE system.components

TopLevelIds == Values(AliasesOf(ListTopLevelComponents))

ComponentNode(c) ==
  CHOOSE node \in Values(ListTopLevelComponents) : node.alias = c

TopLevelRespsAssignedTo(c) == {r \in Values(resps) : r.name \in ComponentNode(c).resps}

DomainParentsOf(c) == {e[2] : e \in {x \in system.parents : x[1] = c}}

PresentationalChildrenOf(c) == {e[1] : e \in {x \in system.parents : x[2] = c}}

SubId(c, sub) == c \o sub.alias

ListSubcomponentsOf(c) == IF arch[c] = NoDoc THEN <<>> ELSE arch[c].subs

SubIdsOf(c) == {SubId(c, sub) : sub \in Values(ListSubcomponentsOf(c))}

\* The policies of the system and those of its components, with their parent.
ListPolicies ==
  {[name |-> p.name, parent |-> NoDoc] : p \in system.policies}
    \cup UNION {{[name |-> p.name, parent |-> c] : p \in arch[c].policies} :
                c \in {x \in TopLevelIds : arch[x] # NoDoc}}

\* The dependency and domain_parent edges between top-level components.
ListEdges ==
  [dependency    |-> system.deps
                       \cup UNION {{c} \X arch[c].deps : c \in {x \in TopLevelIds : arch[x] # NoDoc}},
   domain_parent |-> system.parents]

DependenciesOf(c) == {e[2] : e \in {x \in ListEdges.dependency : x[1] = c}}

\* The layer a reader finds the technical specification of a component in.
BestLayeredFragment(c) == IF arch[c] = NoDoc THEN "sysarch" ELSE "comparch"

GetComponentContext(c) ==
  [techspec |-> BestLayeredFragment(c),
   parents  |-> [r \in {x.name : x \in TopLevelRespsAssignedTo(c)} |->
                  (CHOOSE x \in Values(resps) : x.name = r).feats],
   outbound |-> DependenciesOf(c),
   inbound  |-> {e[1] : e \in {x \in ListEdges.dependency : x[2] = c}}]

\* A fanned-out domain component has a fan-in node.
HasFanIn(c) ==
  ComponentNode(c).kind = <<"domain">> /\ ListSubcomponentsOf(c) # <<>>

AllDomainParentsHavePopulatedFanIn(c) == DomainParentsOf(c) \subseteq fanins

\* Slip: one implementation below the component is enough.
ImplsPopulatedForOne(c) ==
  IF ListSubcomponentsOf(c) = <<>> THEN c \in impls
  ELSE SubIdsOf(c) \cap impls # {}

AllImplsPopulatedFor(c) ==
  IF ListSubcomponentsOf(c) = <<>> THEN c \in impls
  ELSE SubIdsOf(c) \subseteq impls

---------------------------------------------------------------------------
(* The build order and the check of a new edge (queries.py).               *)

\* The positions of the components that are not placed yet.
Unplaced(components, placed) ==
  {i \in DOMAIN components : components[i].alias \notin Values(placed)}

\* Those all of whose dependencies are placed.
Ready(components, edges, placed) ==
  {i \in Unplaced(components, placed) :
     \A e \in edges :
       /\ e[1] = components[i].alias
       /\ e[2] \in Values(AliasesOf(components))
       => e[2] \in Values(placed)}

\* Foundations first, then by place in the document.
Before(components, i, j) ==
  IF components[i].foundation = components[j].foundation THEN i <= j
  ELSE components[i].foundation

FirstReady(components, edges, placed) ==
  LET ready == Ready(components, edges, placed)
  IN  CHOOSE i \in ready : \A j \in ready : Before(components, i, j)

\* Kahn's algorithm, a component a round; what a cycle holds back follows in
\* document order.
Place(components, edges) ==
  [st \in [placed : Seq(Values(AliasesOf(components))), stuck : BOOLEAN] |->
    LET stuck == st.stuck \/ Ready(components, edges, st.placed) = {}
        i     == IF stuck THEN Min(Unplaced(components, st.placed))
                 ELSE FirstReady(components, edges, st.placed)
    IN  [placed |-> Append(st.placed, components[i].alias), stuck |-> stuck]]

TopoSort(components, edges) ==
  Iterate(Place(components, edges), [placed |-> <<>>, stuck |-> FALSE],
          Len(components)).placed

OrderingEdges == ListEdges.dependency \cup ListEdges.domain_parent

TopoSortComps == TopoSort(ListTopLevelComponents, OrderingEdges)

\* The search from the target of a new edge for its source: the stack's top
\* is its last, visited is in order, and a node without a parent is its own.
BackState(nodes) ==
  [stack : Seq(nodes), visited : Seq(nodes), parent : [nodes -> nodes]]

SearchBack(nodes, edges, source) ==
  [st \in BackState(nodes) |->
    LET current == Last(st.stack)
        next    == SuccessorsIn(edges, current) \ (Values(st.visited) \cup {current})
        after   == Append(st.visited, current)
        Then(stack, visited, parent) ==
          [stack |-> stack, visited |-> visited, parent |-> parent]
    IN  CASE st.stack = <<>> \/ source \in Values(st.visited) -> st
          [] OTHER ->
               CASE current \in Values(st.visited) ->
                      Then(Front(st.stack), st.visited, st.parent)
                 [] current \notin Values(st.visited) /\ current = source ->
                      Then(Front(st.stack), after, st.parent)
                 [] OTHER ->
                      Then(Front(st.stack) \o SetToSeq(next), after,
                           [n \in nodes |-> IF n \in next THEN current ELSE st.parent[n]])]

\* One more node of the way back.
WayBack(nodes, parent) ==
  [path \in Seq(nodes) |->
    IF parent[path[1]] = path[1] THEN path ELSE <<parent[path[1]]>> \o path]

\* The cycle the edge would close, from its target around (the docstring has
\* it from its source), or nothing; no edge is put on the stack twice.  Only
\* a theorem is about it: nothing in the repository calls it.
WouldCreateCycle(edges, source, target) ==
  LET nodes == {source, target} \cup {e[1] : e \in edges} \cup {e[2] : e \in edges}
      end   == Iterate(SearchBack(nodes, edges, source),
                       [stack |-> <<target>>, visited |-> <<>>, parent |-> [n \in nodes |-> n]],
                       Cardinality(edges) + 1)
  IN  IF source = target THEN <<source, target>>
      ELSE IF source \notin Values(end.visited) THEN <<>>
      ELSE Append(Iterate(WayBack(nodes, end.parent), <<source>>, Len(end.visited)), target)

---------------------------------------------------------------------------
Init ==
  /\ review = NoDoc
  /\ features = <<>> /\ terms = <<>> /\ asked = {} /\ resps = <<>>
  /\ system = NoDoc
  /\ subresps = <<>> /\ arch = <<>> /\ applied = <<>> /\ subarch = <<>>
  /\ impls = {} /\ fanins = {}
  /\ reference = NoDoc

\* The reviewer's answer, which goes away with the draft.
RecordReview ==
  /\ features = <<>> /\ review = NoDoc
  /\ \E raw \in ReviewDocs :
       LET tree == ExtractTagTree(raw, "review")
       IN  /\ ParseReview(tree)
           /\ review' = AttrsOf(FindingsOf(tree), "id")
  /\ UNCHANGED <<features, terms, asked, resps, system, subresps, arch, applied,
                 subarch, impls, fanins, reference>>

\* The vocabulary, if there is one, is a sibling of the features.
ApproveExpansion ==
  /\ features = <<>>
  /\ \E raw \in FeatureDocs :
       LET body == ExtractChangeSummary(raw)
           tree == ExtractTagTree(body, "features")
           book == ExtractTagTree(body, "vocabulary")
           names == Values(NamesOf(FeaturesOf(tree)))
       IN  /\ ValidFeatures(tree)
           /\ book # NoTag => ValidVocabulary(book, names, FALSE)
           /\ features' = FeaturesOf(tree)
           /\ terms' = IF book = NoTag THEN <<>> ELSE VocabularyOf(book)
  /\ review' = NoDoc
  /\ UNCHANGED <<asked, resps, system, subresps, arch, applied, subarch, impls,
                 fanins, reference>>

ApproveRequirements ==
  /\ features # <<>> /\ resps = <<>>
  /\ \E raw \in RequirementDocs, deferred \in SUBSET Values(NamesOf(features)) :
       LET tree == ExtractTagTree(raw, "requirements")
       IN  /\ ValidRequirements(tree, ListFeatures(deferred))
           /\ asked' = ListFeatures(deferred)
           /\ resps' = RequirementsOf(tree)
  /\ UNCHANGED <<review, features, terms, system, subresps, arch, applied,
                 subarch, impls, fanins, reference>>

ApproveSysarch ==
  /\ resps # <<>> /\ system = NoDoc
  /\ \E raw \in SysarchDocs :
       LET tree == ExtractTagTree(raw, "sysarch")
           ids  == Values(AliasesOf(SysarchOf(tree).components))
       IN  /\ ValidSysarch(tree, ListTopLevelResponsibilities)
           /\ system' = SysarchOf(tree)
           /\ subresps' = [c \in ids |-> NoDoc]
           /\ arch' = [c \in ids |-> NoDoc]
           /\ applied' = [c \in ids |-> NoDoc]
  /\ UNCHANGED <<review, features, terms, asked, resps, subarch, impls, fanins, reference>>

---------------------------------------------------------------------------
(* The documents of a component.                                           *)

\* The nodes that have an implementation.
OwnersOfImpls(c) == IF ListSubcomponentsOf(c) = <<>> THEN {c} ELSE SubIdsOf(c)

Designed(c) == applied[c] # NoDoc

Built(c) ==
  /\ Designed(c)
  /\ OwnersOfImpls(c) \subseteq impls
  /\ HasFanIn(c) => c \in fanins

\* The first component of the build order that lacks something, if any.
FirstWithout(Done(_)) ==
  LET order == TopoSortComps
  IN  {order[i] : i \in {x \in DOMAIN order : ~Done(order[x]) /\ \A y \in 1 .. x - 1 : Done(order[y])}}

ApproveSubrequirements(c) ==
  /\ subresps[c] = NoDoc
  /\ \E raw \in SubrequirementDocs :
       LET tree    == ExtractTagTree(raw, "subrequirements")
           parents == GetComponentContext(c).parents
       IN  /\ ValidSubrequirements(tree, DOMAIN parents,
                                   UNION {parents[r] : r \in DOMAIN parents})
           /\ subresps' = [subresps EXCEPT ![c] = SubrequirementsOf(tree)]
  /\ UNCHANGED <<review, features, terms, asked, resps, system, arch, applied,
                 subarch, impls, fanins, reference>>

\* A presentational component waits for the fan-ins of its domain parents.
ApproveCompArch(c) ==
  /\ subresps[c] # NoDoc /\ arch[c] = NoDoc
  /\ AllDomainParentsHavePopulatedFanIn(c)
  /\ \E doc \in CompArchDocs :
       LET tree == ExtractTagTree(doc.raw, "comparch")
       IN  /\ doc.comp = c
           /\ ValidArchDoc(tree, GetComponentContext(c).parents, TopLevelIds \ {c},
                           ComponentNode(c).foundation)
           /\ arch' = [arch EXCEPT ![c] = CompArchOf(tree)]
           /\ subarch' = [s \in DOMAIN subarch
                            \cup {SubId(c, sub) : sub \in Values(CompArchOf(tree).subs)} |->
                              IF s \in DOMAIN subarch THEN subarch[s] ELSE NoDoc]
  /\ UNCHANGED <<review, features, terms, asked, resps, system, subresps, applied,
                 impls, fanins, reference>>

\* Every policy of the system and of the component itself is a candidate.
ApplyPolicies(c) ==
  /\ arch[c] # NoDoc /\ applied[c] = NoDoc
  /\ \E raw \in PolicyDocs :
       LET tree == ExtractTagTree(raw, "policy-applications")
           candidates == {p.name : p \in {x \in ListPolicies : x.parent \in {NoDoc, c}}}
       IN  /\ ValidPolicyApplications(tree, candidates)
           /\ applied' = [applied EXCEPT ![c] = Applied(tree)]
  /\ UNCHANGED <<review, features, terms, asked, resps, system, subresps, arch,
                 subarch, impls, fanins, reference>>

ApproveSubArch(c, s) ==
  /\ applied[c] # NoDoc
  /\ s \in SubIdsOf(c) /\ subarch[s] = NoDoc
  /\ \E raw \in SubArchDocs :
       LET tree == ExtractTagTree(raw, "subcomparch")
       IN  /\ ValidSubArchDoc(tree, SubIdsOf(c) \ {s}, TopLevelIds \ {c})
           /\ subarch' = [subarch EXCEPT ![s] = ExternalDepsOf(Kid(tree, "dependencies"))]
  /\ UNCHANGED <<review, features, terms, asked, resps, system, subresps, arch,
                 applied, impls, fanins, reference>>

\* The implementation of a subcomponent, or of a component without any.
ApproveImplementation(c, owner) ==
  /\ applied[c] # NoDoc
  /\ owner \in OwnersOfImpls(c) \ impls
  /\ owner \in SubIdsOf(c) => subarch[owner] # NoDoc
  /\ \E raw \in ImplementationDocs : ValidImplementation(ExtractTagTree(raw, "implementation"))
  /\ impls' = impls \cup {owner}
  /\ UNCHANGED <<review, features, terms, asked, resps, system, subresps, arch,
                 applied, subarch, fanins, reference>>

ApproveFanIn(c) ==
  /\ HasFanIn(c) /\ c \notin fanins
  /\ AllImplsPopulatedFor(c)
  /\ \E raw \in FanInDocs : ValidFanIn(ExtractTagTree(raw, "fanin"))
  /\ fanins' = fanins \cup {c}
  /\ UNCHANGED <<review, features, terms, asked, resps, system, subresps, arch,
                 applied, subarch, impls, reference>>

ApproveReference ==
  /\ system # NoDoc /\ \A c \in TopLevelIds : Built(c)
  /\ reference = NoDoc
  /\ \E raw \in ReferenceDocs :
       LET tree == ExtractTagTree(raw, "reference")
       IN  /\ ValidReference(tree)
           /\ reference' = UNION {Values(AttrsOf(n.kids, "to")) :
                                  n \in Values(FindAll(tree, "see-also"))}
  /\ UNCHANGED <<review, features, terms, asked, resps, system, subresps, arch,
                 applied, subarch, impls, fanins>>

ApproveDesign(c) ==
  \/ ApproveSubrequirements(c)
  \/ ApproveCompArch(c)
  \/ ApplyPolicies(c)

ApproveBelow(c) ==
  \/ \E s \in SubIdsOf(c) : ApproveSubArch(c, s)
  \/ \E o \in OwnersOfImpls(c) : ApproveImplementation(c, o)
  \/ ApproveFanIn(c)

Next ==
  \/ RecordReview
  \/ ApproveExpansion
  \/ ApproveRequirements
  \/ ApproveSysarch
  \/ \E c \in FirstWithout(Designed) : ApproveDesign(c)
  \/ \E c \in FirstWithout(Built) : ApproveBelow(c)
  \/ ApproveReference

Spec == Init /\ [][Next]_vars

---------------------------------------------------------------------------
(* Properties.                                                             *)

\* Every set of nodes has one without an edge into the set.
Acyclic(nodes, edges) ==
  \A s \in (SUBSET nodes) \ {{}} : \E n \in s : \A m \in s : <<n, m>> \notin edges

Ordered(order, edges) ==
  \A i, j \in DOMAIN order : <<order[i], order[j]>> \in edges => j < i

(* The search for cycles of the validator and the sort of the queries agree: *)
(* what validate_sysarch lets through can be sorted, topo_sort_comps puts    *)
(* every component once, the foundation first, and none before what it       *)
(* depends on (validators.py:_detect_dep_cycles, queries.py:topo_sort_comps). *)
DependenciesComeFirst ==
  system # NoDoc =>
    LET deps  == system.deps
        order == TopoSort(ListTopLevelComponents, deps)
    IN  /\ Acyclic(TopLevelIds, deps)
        /\ Ordered(order, deps)
        /\ ComponentNode(order[1]).foundation
        /\ Values(TopoSortComps) = TopLevelIds
        /\ Distinct(TopoSortComps)
        /\ Acyclic(TopLevelIds, OrderingEdges) => Ordered(TopoSortComps, OrderingEdges)

(* No feature is lost on the way down, and none comes back: those that were  *)
(* not deferred when the requirements were written, and no other, are tagged *)
(* on a responsibility, each responsibility is in a domain component, and    *)
(* once that component is split, a subcomponent of it owns the feature under *)
(* that responsibility (validate_requirements, validate_sysarch and          *)
(* validate_arch_doc together).                                              *)
FeaturesTraced ==
  system # NoDoc =>
    /\ Covered(resps) = asked
    /\ \A r \in Values(resps) : \A f \in r.feats :
         \E c \in Values(ListTopLevelComponents) :
           /\ c.kind = <<"domain">> /\ r.name \in c.resps
           /\ \/ ListSubcomponentsOf(c.alias) = <<>>
              \/ \E sub \in Values(ListSubcomponentsOf(c.alias)) :
                   r.name \in DOMAIN sub.owns /\ f \in sub.owns[r.name]

(* A presentational component has one or two domain parents, all of them    *)
(* domain components, and presents nothing that is not theirs               *)
(* (validate_sysarch's three checks on <domain-parent>).                    *)
PresentsItsParents ==
  system # NoDoc =>
    \A c \in {x \in Values(system.components) : x.kind = <<"presentational">>} :
      /\ Cardinality(DomainParentsOf(c.alias)) \in 1 .. 2
      /\ \A d \in DomainParentsOf(c.alias) :
           /\ ComponentNode(d).kind = <<"domain">>
           /\ c.alias \in PresentationalChildrenOf(d)
      /\ c.resps \subseteq UNION {ComponentNode(d).resps : d \in DomainParentsOf(c.alias)}

(* The subcomponents of a component can be written in some order in which   *)
(* none comes before one it depends on, by a declared edge or by naming it  *)
(* in its prose, whatever the two kinds of edges make together (the two     *)
(* cycle searches of validate_arch_doc).  For names that tell them apart.   *)
SubOrderExists ==
  \A c \in DOMAIN arch :
    LET subs == ListSubcomponentsOf(c)
        named == {<<a.alias, b.alias>> : a, b \in Values(subs)}
                   \cap {e \in Values(AliasesOf(subs)) \X Values(AliasesOf(subs)) :
                           e[1] # e[2] /\
                           \E a, b \in Values(subs) :
                             /\ e = <<a.alias, b.alias>>
                             /\ b.name \in Identifiers /\ Mentions(a.prose, b.name)}
    IN  subs # <<>> /\ Distinct(NamesOf(subs)) =>
          Acyclic(Values(AliasesOf(subs)), arch[c].subDeps \cup named)

(* What a presentational component is written from is there: all of its     *)
(* domain parents are specified, implemented to the last subcomponent and   *)
(* summed up in a fan-in (the two gates of queries.py in a row).            *)
FanInSeesImplementation ==
  \A c \in DOMAIN arch :
    arch[c] # NoDoc =>
      \A d \in DomainParentsOf(c) :
        /\ GetComponentContext(d).techspec = "comparch"
        /\ d \in fanins
        /\ SubIdsOf(d) # {} /\ SubIdsOf(d) \subseteq impls
=============================================================================
