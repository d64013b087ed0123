------------------------------ MODULE ArchDocs ------------------------------
(***************************************************************************)
(* The validators of the architecture documents: the system's, a           *)
(* component's and a subcomponent's, with the checks on their dependency   *)
(* graphs (backend/graph/parsers/validators.py).                           *)
(***************************************************************************)
EXTENDS BootstrapDocs

CONSTANTS Aliases,    \* the aliases that match _ALIAS_RE
          Identifiers \* the names that look like one: four letters, a capital inside

Techspec == <<"runtime", "persistence", "write-path", "concurrency",
              "testing", "deploy", "technologies">>

ValidTechspec(node) == Sections(node, Techspec) /\ All(node.kids, PlainText)

\* Between lo and hi plain phrases.
Phrases(node, tag, lo, hi) ==
  /\ Only(node, {tag})
  /\ Len(node.kids) \in lo .. hi
  /\ All(node.kids, PlainText)

\* What a component and a subcomponent have in common.
ValidCard(node) ==
  /\ Attr(node, "alias") \in Aliases
  /\ \A tag \in {"name", "purpose", "owned-invariants", "primary-operations",
                 "responsibilities"} : One(node, tag)
  /\ TextOf(node, "name") # <<>>
  /\ PlainText(Kid(node, "purpose"))
  /\ Phrases(Kid(node, "owned-invariants"), "invariant", 2, 4)
  /\ Phrases(Kid(node, "primary-operations"), "operation", 3, 6)

IsFoundation(node) == PlacesOf(node, "foundation") # {}

---------------------------------------------------------------------------
(* <components> and <policies>                                             *)

ValidComponent(node, resps) ==
  /\ Only(node, {"name", "kind", "purpose", "owned-invariants",
                 "primary-operations", "responsibilities", "foundation"})
  /\ ValidCard(node)
  /\ One(node, "kind")
  /\ TextOf(node, "kind") \in {<<"domain">>, <<"presentational">>}
  /\ Kid(node, "responsibilities").kids # <<>>
  /\ Links(Kid(node, "responsibilities"), "resp", resps)

ComponentOf(node) ==
  [alias |-> Attr(node, "alias"), kind |-> TextOf(node, "kind"),
   resps |-> LinksOf(Kid(node, "responsibilities")),
   foundation |-> IsFoundation(node)]

AliasesOf(components) == [i \in DOMAIN components |-> components[i].alias]

FoundationsOf(components) == {i \in DOMAIN components : components[i].foundation}

ValidComponents(node, resps) ==
  /\ Only(node, {"component"})
  /\ node.kids # <<>>
  /\ All(node.kids, LAMBDA c : ValidComponent(c, resps))
  /\ LET components == [i \in DOMAIN node.kids |-> ComponentOf(node.kids[i])]
     IN  Distinct(AliasesOf(components)) /\ Cardinality(FoundationsOf(components)) = 1

\* A policy with no required responsibility, or a blank one, is for every site.
ValidPolicy(node, resps) ==
  /\ Only(node, {"name", "trigger", "required", "rationale"})
  /\ \A tag \in {"name", "trigger", "rationale"} : OneFilled(node, tag)
  /\ AtMostOne(node, "required")
  /\ One(node, "required") => TextOf(node, "required") \in resps \cup {<<>>}

PolicyOf(node) ==
  [name |-> TextOf(node, "name"),
   required |-> IF One(node, "required") THEN TextOf(node, "required") ELSE <<>>]

ValidPolicies(node, resps) ==
  Only(node, {"policy"}) /\ All(node.kids, LAMBDA p : ValidPolicy(p, resps))

PoliciesOf(node) == {PolicyOf(p) : p \in Values(node.kids)}

---------------------------------------------------------------------------
(* <dependencies>, <domain-parent> and the graph they draw                 *)

EdgesOf(node) == {<<Attr(d, "from"), Attr(d, "to")>> : d \in Values(node.kids)}

ValidDependencies(node, aliases) ==
  /\ Only(node, {"dep"})
  /\ \A e \in EdgesOf(node) :
       e[1] \in aliases /\ e[2] \in aliases /\ e[1] # e[2]

\* From presentational to domain components, at most two lines for each.
ValidDomainParents(node, kind) ==
  /\ Only(node, {"parent"})
  /\ \A e \in EdgesOf(node) :
       /\ e[1] \in DOMAIN kind /\ kind[e[1]] = <<"presentational">>
       /\ e[2] \in DOMAIN kind /\ kind[e[2]] = <<"domain">>
  /\ \A a \in DOMAIN kind :
       Cardinality({i \in DOMAIN node.kids : Attr(node.kids[i], "from") = a}) <= 2

SuccessorsIn(edges, node) == {e[2] : e \in {x \in edges : x[1] = node}}

(* The depth-first search, node by node: the path to the node it is at is   *)
(* grey, what it is done with black.  A successor on the path closes a      *)
(* cycle; a white one is next; without any the node turns black; and when   *)
(* the path is empty it goes on with any white alias.                       *)
SearchState(aliases) ==
  [path : Seq(aliases), black : SUBSET aliases, cycle : BOOLEAN]

Closes(edges, st) ==
  /\ st.path # <<>>
  /\ SuccessorsIn(edges, Last(st.path)) \cap Values(st.path) # {}

White(edges, aliases, st) ==
  LET near == IF st.path = <<>> THEN aliases ELSE SuccessorsIn(edges, Last(st.path))
  IN  {a \in near : a \notin st.black \cup Values(st.path)}

Search(edges, aliases) ==
  [st \in SearchState(aliases) |->
    LET white == White(edges, aliases, st)
        Then(path, black, cycle) == [path |-> path, black |-> black, cycle |-> cycle]
    IN  CASE Closes(edges, st) -> Then(st.path, st.black, TRUE)
          [] ~Closes(edges, st) /\ white # {} ->
               Then(Append(st.path, CHOOSE a \in white : TRUE), st.black, st.cycle)
          [] ~Closes(edges, st) /\ white = {} /\ st.path # <<>> ->
               Then(Front(st.path), st.black \cup {Last(st.path)}, st.cycle)
          [] OTHER -> st]

\* Slip: the search looks at the direct successors of each alias only.
CyclesOfTwo(edges, aliases) ==
  \E e \in edges : <<e[2], e[1]>> \in edges

\* Every alias is entered once and left once.
DetectDepCycles(edges, aliases) ==
  Iterate(Search(edges, aliases), [path |-> <<>>, black |-> {}, cycle |-> FALSE],
          2 * Cardinality(aliases)).cycle

\* All but the foundation depend on it.
EnforceFoundationDependency(components, edges) ==
  \E f \in FoundationsOf(components) :
    \A c \in Values(components) :
      c.foundation \/ <<c.alias, components[f].alias>> \in edges

---------------------------------------------------------------------------
(* <sysarch>                                                               *)

SysarchOf(tree) ==
  [components |-> LET node == Kid(tree, "components")
                  IN  [i \in DOMAIN node.kids |-> ComponentOf(node.kids[i])],
   policies   |-> PoliciesOf(Kid(tree, "policies")),
   deps       |-> EdgesOf(Kid(tree, "dependencies")),
   parents    |-> EdgesOf(Kid(tree, "domain-parent"))]

OwnersOf(components, kind, resp) ==
  {c.alias : c \in {x \in Values(components) : x.kind = kind /\ resp \in x.resps}}

\* Slip: a mirror in a presentational component needs no edge to the owner.
AssignmentUnmirrored(doc, resps) ==
  \A r \in resps :
    /\ Cardinality(OwnersOf(doc.components, <<"domain">>, r)) = 1
    /\ Cardinality(OwnersOf(doc.components, <<"presentational">>, r)) <= 1

\* Each responsibility is in one domain component, and perhaps in one
\* presentational component that has that one for a domain parent.
ValidAssignment(doc, resps) ==
  \A r \in resps :
    LET owners  == OwnersOf(doc.components, <<"domain">>, r)
        mirrors == OwnersOf(doc.components, <<"presentational">>, r)
    IN  /\ Cardinality(owners) = 1
        /\ Cardinality(mirrors) <= 1
        /\ mirrors \X owners \subseteq doc.parents

ValidSysarch(tree, resps) ==
  /\ tree.tag = "sysarch"
  /\ Sections(tree, <<"techspec", "components", "policies", "dependencies",
                      "domain-parent">>)
  /\ ValidTechspec(Kid(tree, "techspec"))
  /\ ValidComponents(Kid(tree, "components"), resps)
  /\ ValidPolicies(Kid(tree, "policies"), resps)
  /\ LET doc     == SysarchOf(tree)
         aliases == Values(AliasesOf(doc.components))
         kind    == [a \in aliases |->
                      (CHOOSE c \in Values(doc.components) : c.alias = a).kind]
     IN  /\ ValidDependencies(Kid(tree, "dependencies"), aliases)
         /\ ValidDomainParents(Kid(tree, "domain-parent"), kind)
         /\ ValidAssignment(doc, resps)
         /\ ~DetectDepCycles(doc.deps, aliases)
         /\ EnforceFoundationDependency(doc.components, doc.deps)

---------------------------------------------------------------------------
(* <subcomponents>; parents maps each responsibility of the component to   *)
(* the features tagged on it                                               *)

ValidOwns(node, parents) ==
  /\ Links(node, "resp", DOMAIN parents)
  /\ \A resp \in Values(node.kids) : Links(resp, "feat", parents[Attr(resp, "id")])

OwnsOf(node) ==
  [r \in LinksOf(node) |->
    LinksOf(CHOOSE resp \in Values(node.kids) : Attr(resp, "id") = r)]

ValidSubcomponent(node, parents) ==
  /\ Only(node, {"name", "purpose", "owned-invariants", "primary-operations",
                 "responsibilities", "owns", "foundation"})
  /\ ValidCard(node)
  /\ PlainText(Kid(node, "responsibilities"))
  /\ One(node, "owns")
  /\ ValidOwns(Kid(node, "owns"), parents)

SubcomponentOf(node) ==
  [alias |-> Attr(node, "alias"), name |-> TextOf(node, "name"),
   prose |-> TextOf(node, "purpose") \o TextOf(node, "responsibilities")
             \o Flattened(Kid(node, "owned-invariants"))
             \o Flattened(Kid(node, "primary-operations")),
   owns  |-> OwnsOf(Kid(node, "owns")),
   foundation |-> IsFoundation(node)]

SubcomponentsOf(node) == [i \in DOMAIN node.kids |-> SubcomponentOf(node.kids[i])]

Claimed(subs, resp) == UNION {s.owns[resp] : s \in {x \in Values(subs) : resp \in DOMAIN x.owns}}

\* Every responsibility of the component is claimed, and every feature of it.
ClaimsCover(subs, parents) ==
  /\ \A r \in DOMAIN parents : \E s \in Values(subs) : r \in DOMAIN s.owns
  /\ \A r \in DOMAIN parents : parents[r] \subseteq Claimed(subs, r)

\* None at all is fine; else one foundation, or none under a foundation.
ValidSubcomponents(node, parents, ofFoundation) ==
  /\ Only(node, {"subcomponent"})
  /\ node.kids # <<>> =>
       /\ All(node.kids, LAMBDA s : ValidSubcomponent(s, parents))
       /\ Distinct(AliasesOf(SubcomponentsOf(node)))
       /\ Cardinality(FoundationsOf(SubcomponentsOf(node))) = (IF ofFoundation THEN 0 ELSE 1)
       /\ ClaimsCover(SubcomponentsOf(node), parents)

Mentions(prose, name) ==
  \E i \in DOMAIN prose :
    i + Len(name) - 1 <= Len(prose) /\ SubSeq(prose, i, i + Len(name) - 1) = name

\* The eligible names and the alias each stands for: of two subcomponents
\* with one name the later.
EligibleNames(subs) ==
  [n \in Values(NamesOf(subs)) \cap Identifiers |->
    subs[SelectLastInSeq(subs, LAMBDA s : s.name = n)].alias]

ImplicitDeps(subs, declared) ==
  LET eligible == EligibleNames(subs)
  IN  {<<s.alias, eligible[n]>> : s \in Values(subs), n \in DOMAIN eligible}
      \cap {e \in Values(AliasesOf(subs)) \X Values(AliasesOf(subs)) :
             /\ e[1] # e[2]
             /\ e \notin declared
             /\ \E s \in Values(subs), n \in DOMAIN eligible :
                  s.alias = e[1] /\ eligible[n] = e[2] /\ Mentions(s.prose, n)}

\* Slip: only the edges the prose implies are searched, without the declared ones.
ImplicitCyclesAlone(subs, declared) ==
  LET implicit == ImplicitDeps(subs, declared)
  IN  /\ implicit # {}
      /\ DetectDepCycles(implicit, Values(AliasesOf(subs)))

DetectUndeclaredCycles(subs, declared) ==
  LET implicit == ImplicitDeps(subs, declared)
  IN  /\ implicit # {}
      /\ DetectDepCycles(declared \cup implicit, Values(AliasesOf(subs)))

---------------------------------------------------------------------------
(* <comparch>                                                              *)

ValidFragment(node) == PlainText(node)

\* The modules a text defines: defmodule, a name, do.
DefinedModules(text) ==
  {text[i + 1] : i \in {j \in 1 .. Len(text) - 2 :
                          text[j] = "defmodule" /\ text[j + 2] = "do"}}

LeaksPrivateModule(private, public) == DefinedModules(private) \cap Values(public) # {}

\* To other components, by id, the sender being understood.
ValidExternalDependencies(node, known) ==
  /\ Only(node, {"dep"})
  /\ \A d \in Values(node.kids) : Attr(d, "from") = <<>> /\ Attr(d, "to") \in known
  /\ Distinct(AttrsOf(node.kids, "to"))

ExternalDepsOf(node) == Values(AttrsOf(node.kids, "to"))

CompArchOf(tree) ==
  [policies |-> PoliciesOf(Kid(tree, "policies")),
   deps     |-> ExternalDepsOf(Kid(tree, "dependencies")),
   subs     |-> SubcomponentsOf(Kid(tree, "subcomponents")),
   subDeps  |-> EdgesOf(Kid(tree, "sub-dependencies"))]

ValidSubDependencies(node, aliases) == ValidDependencies(node, aliases)

EnforceSubFoundation(subs, edges) == EnforceFoundationDependency(subs, edges)

ValidArchDoc(tree, parents, siblings, ofFoundation) ==
  /\ tree.tag = "comparch"
  /\ Sections(tree, <<"technical-specification", "public-surface", "private-surface",
                      "failure-surface", "policies", "dependencies",
                      "subcomponents", "sub-dependencies">>)
  /\ \A tag \in {"technical-specification", "public-surface", "private-surface",
                 "failure-surface"} : ValidFragment(Kid(tree, tag))
  /\ ~LeaksPrivateModule(TextOf(tree, "private-surface"), TextOf(tree, "public-surface"))
  /\ ValidPolicies(Kid(tree, "policies"), DOMAIN parents)
  /\ ValidExternalDependencies(Kid(tree, "dependencies"), siblings)
  /\ ValidSubcomponents(Kid(tree, "subcomponents"), parents, ofFoundation)
  /\ LET doc     == CompArchOf(tree)
         aliases == Values(AliasesOf(doc.subs))
     IN  /\ ValidSubDependencies(Kid(tree, "sub-dependencies"), aliases)
         /\ doc.subs # <<>> =>
              /\ ~DetectDepCycles(doc.subDeps, aliases)
              /\ ~DetectUndeclaredCycles(doc.subs, doc.subDeps)
              /\ ~ofFoundation => EnforceSubFoundation(doc.subs, doc.subDeps)

---------------------------------------------------------------------------
(* <subcomparch>                                                           *)

ValidSubArchDoc(tree, siblingSubs, otherComponents) ==
  /\ tree.tag = "subcomparch"
  /\ Sections(tree, <<"technical-specification", "public-surface",
                      "private-surface", "dependencies">>)
  /\ \A tag \in {"technical-specification", "public-surface", "private-surface"} :
       ValidFragment(Kid(tree, tag))
  /\ ValidExternalDependencies(Kid(tree, "dependencies"), siblingSubs \cup otherComponents)

=============================================================================
