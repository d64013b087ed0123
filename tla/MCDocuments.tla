---- MODULE MCDocuments ----
(***************************************************************************)
(* The answers that are tried on the Documents: for each kind a few base   *)
(* documents and what one edit makes of them.                              *)
(***************************************************************************)
EXTENDS Documents

LowerCaseDef == [w \in {"Keep", "Show"} |-> IF w = "Keep" THEN "keep" ELSE "show"]
AliasDef     == {<<a>> : a \in {"f", "d", "e", "p", "x", "y", "z"}}
IdentDef     == {<<"subX">>, <<"subY">>, <<"subZ">>}
TermNamesDef == {<<"Term">>}
RefIdsDef    == {<<"r1">>, <<"r2">>}
IntDef       == [t \in {<<"73">>, <<"101">>} |-> IF t = <<"73">> THEN 73 ELSE 101]

---------------------------------------------------------------------------
(* Building blocks.                                                        *)

Leaf(tag, word) == Tag(tag, <<word>>, <<>>, <<>>)
Node(tag, kids) == Tag(tag, <<>>, <<>>, kids)
Link(tag, id)   == Tag(tag, <<>>, [id |-> <<id>>], <<>>)
Edge(tag, e)    == Tag(tag, <<>>, [from |-> <<e[1]>>, to |-> <<e[2]>>], <<>>)
Ref(to)         == Tag("ref", <<>>, [to |-> <<to>>], <<>>)
To(to)          == Tag("dep", <<>>, [to |-> to], <<>>)
Map(seq, Op(_)) == [i \in DOMAIN seq |-> Op(seq[i])]
Leaves(tag, n)  == [i \in 1 .. n |-> Leaf(tag, "some")]
Prose(tags)     == Map(tags, LAMBDA t : Leaf(t, "some"))

(* One edit of a tree, somewhere in it: a child dropped, doubled, moved     *)
(* behind the next one, blanked or renamed to a tag nobody knows.           *)
Dropped(seq, i)  == SubSeq(seq, 1, i - 1) \o SubSeq(seq, i + 1, Len(seq))
Doubled(seq, i)  == SubSeq(seq, 1, i) \o SubSeq(seq, i, Len(seq))
Moved(seq, i)    == IF i = Len(seq) THEN seq
                    ELSE [seq EXCEPT ![i] = seq[i + 1], ![i + 1] = seq[i]]

RECURSIVE Edits(_)
Edits(tree) ==
  LET with(kids) == [tree EXCEPT !.kids = kids]
      kids == tree.kids
  IN  UNION {{with(Dropped(kids, i)), with(Doubled(kids, i)), with(Moved(kids, i)),
              with([kids EXCEPT ![i].text = <<>>]), with([kids EXCEPT ![i].attrs = <<>>]),
              with([kids EXCEPT ![i].tag = "unknown"])}
             \cup {with([kids EXCEPT ![i] = e]) : e \in Edits(kids[i])} : i \in DOMAIN kids}

Raw(tree)     == <<tree>>
WithEdits(tree) == {Raw(t) : t \in {tree} \cup Edits(tree)}

---------------------------------------------------------------------------
(* Expansion, review, requirements.                                        *)

Feature(n) == Node("feature", <<Leaf("name", n), Leaf("intent", "some")>>)
Features == Node("features", <<Feature("A"), Node("group", <<Leaf("name", "more"), Feature("B")>>)>>)
Entry == Node("vocab-entry", <<Leaf("definition", "some"),
            Node("see-also", <<Tag("ref", <<>>, [name |-> <<"Term">>], <<>>)>>)>>)
Term(scope, feature) ==
  Tag("term", <<>>, [name |-> <<"Term">>, scope |-> <<scope>>] @@ ("feature-name" :> <<feature>>), <<Entry>>)
Vocabulary == Node("vocabulary", <<Term("feature", "A"), Term("project", "none")>>)
Summary == Node("change-summary", <<Node("features", <<>>)>>)

FeatureSet == WithEdits(Features)
  \cup {<<Summary, Features, v>> : v \in {Vocabulary, Node("vocabulary", <<Term("feature", "none")>>),
           Node("vocabulary", <<Term("project", "A"), Term("project", "B")>>)}}

Finding(id) == Tag("finding", <<"some">>, [id |-> <<id>>], <<>>)
Review == Node("review", <<Leaf("intro", "some"), Leaf("score", "73"),
            Node("handles-structure", <<Finding("1")>>),
            Node("architectural-decisions", <<Finding("2")>>)>>)
ReviewSet == WithEdits(Review)
  \cup {Raw([Review EXCEPT !.kids[2].text = <<"101">>])}
  \cup {Raw([Review EXCEPT !.kids[4].kids[1] = Finding("1")])}

Resp(tag, n, feats, more) ==
  Node(tag, <<Leaf("name", n), Node("feats", Map(feats, LAMBDA f : Link("feat", f)))>> \o more)
Requirements == Node("requirements", <<Resp("responsibility", "Keep", <<"A">>, <<>>),
  Resp("responsibility", "Show", <<"B">>, <<>>), Resp("responsibility", "run", <<"A", "B">>, <<>>)>>)
\* Folded, two names are one; a feature nobody knows; B is on none, which is
\* valid when it is deferred.
RequirementSet == {Raw(Requirements), Raw([Requirements EXCEPT !.kids[3].kids[1].text = <<"keep">>]),
  Raw([Requirements EXCEPT !.kids[2].kids[2].kids[1].attrs = [id |-> <<"none">>]]),
  Raw([Requirements EXCEPT !.kids[2].kids[2].kids = <<>>, !.kids[3].kids[2].kids = <<>>])}

---------------------------------------------------------------------------
(* The system: a foundation, two domain components and one that presents.  *)

Cards == <<Node("owned-invariants", Leaves("invariant", 2)),
           Node("primary-operations", Leaves("operation", 3))>>
Component(a, kind, rs, mark) ==
  Tag("component", <<>>, [alias |-> <<a>>],
    <<Leaf("name", a), Leaf("kind", kind), Leaf("purpose", "some")>> \o Cards
      \o <<Node("responsibilities", Map(rs, LAMBDA r : Link("resp", r)))>> \o mark)
Mark == <<Node("foundation", <<>>)>>
Policy(n, r) == Node("policy", <<Leaf("name", n), Leaf("trigger", "some"),
                  Tag("required", r, <<>>, <<>>), Leaf("rationale", "some")>>)

Sysarch(pKind, fKind, mirrored, deps, parents) ==
  Node("sysarch", <<Node("techspec", Prose(Techspec)),
    Node("components", <<Component("f", fKind, <<"run">>, Mark),
      Component("d", "domain", <<"Keep">>, <<>>), Component("e", "domain", <<"Show">>, <<>>),
      Component("p", pKind, mirrored, <<>>)>>),
    Node("policies", <<Policy("log", <<>>)>>),
    Node("dependencies", Map(deps, LAMBDA e : Edge("dep", e))),
    Node("domain-parent", Map(parents, LAMBDA e : Edge("parent", e)))>>)

ToFoundation == <<<<"d", "f">>, <<"e", "f">>, <<"p", "f">>>>
MoreDeps == {<<"d", "e">>, <<"e", "p">>, <<"p", "d">>, <<"d", "p">>, <<"f", "e">>}
Parents1 == <<<<"p", "d">>>>
Parents2 == <<<<"p", "d">>, <<"p", "e">>>>
Base == Sysarch("presentational", "domain", <<"Keep">>, ToFoundation, Parents1)

SysarchSet ==
  {Raw(Sysarch("presentational", "domain", <<"Keep">>, ToFoundation \o SetToSeq(m), Parents1)) :
     m \in SUBSET MoreDeps}
  \cup {Raw(Sysarch("presentational", "domain", mirrored, deps, parents)) :
          mirrored \in {<<"Keep">>, <<"Keep", "Show">>, <<"run">>},
          deps \in {ToFoundation, Tail(ToFoundation)},
          parents \in {<<>>, Parents1, Parents2, Parents2 \o <<<<"p", "f">>>>, <<<<"e", "d">>>>}}
  \cup {Raw(Sysarch("domain", "domain", <<"Keep">>, ToFoundation, <<>>))}
  \cup {Raw([Base EXCEPT !.kids[2].kids[1] = Component("f", "presentational", <<"Show">>, Mark),
                         !.kids[2].kids[3] = Component("e", "domain", <<"Show", "run">>, <<>>),
                         !.kids[5].kids = <<Edge("parent", <<"f", "e">>), Edge("parent", <<"p", "d">>)>>])}
  \cup WithEdits(Base)

---------------------------------------------------------------------------
(* The documents of a component.                                           *)

Sub(r, f) == Resp("subresponsibility", "part", f, <<Node("derived-from", <<Link("resp", r)>>)>>)
SubrequirementSet == {Raw(Node("subrequirements", <<>>))}
  \cup {Raw(Node("subrequirements", <<Sub("Keep", f)>>)) : f \in {<<"A">>, <<"B">>}}

Subcomponent(a, n, prose, rs, feats, mark) ==
  Tag("subcomponent", <<>>, [alias |-> <<a>>],
    <<Leaf("name", n), Leaf("purpose", prose)>> \o Cards
      \o <<Leaf("responsibilities", "some"),
           Node("owns", Map(rs, LAMBDA r :
             Tag("resp", <<>>, [id |-> <<r>>], Map(feats, LAMBDA f : Link("feat", f)))))>> \o mark)

CompArch(deps, subs, subDeps) ==
  Node("comparch", Prose(<<"technical-specification", "public-surface", "private-surface",
                           "failure-surface">>)
    \o <<Node("policies", <<>>), Node("dependencies", Map(deps, To)),
         Node("subcomponents", subs),
         Node("sub-dependencies", Map(subDeps, LAMBDA e : Edge("dep", e)))>>)

For(c, tree) == [comp |-> <<c>>, raw |-> Raw(tree)]

\* Two subcomponents, the first a foundation: what they say and what they own.
Pair(c, r, prose, feats, deps) ==
  For(c, CompArch(<<>>, <<Subcomponent("x", "subX", prose, <<r>>, <<>>, Mark),
                          Subcomponent("y", "subY", "some", <<r>>, feats, <<>>)>>, deps))

\* Three under the foundation, which has no foundation of its own.
Three(deps) ==
  For("f", CompArch(<<>>, <<Subcomponent("x", "subX", "some", <<"run">>, <<"A">>, <<>>),
                            Subcomponent("y", "subY", "some", <<"run">>, <<"B">>, <<>>),
                            Subcomponent("z", "subZ", "subX", <<"run">>, <<>>, <<>>)>>, deps))

CompArchSet ==
  {For(c, CompArch(ds, <<>>, <<>>)) : c \in {"f", "d", "e", "p"}, ds \in {<<>>, <<<<"d">>, <<"d">>>>}}
  \cup {For("d", CompArch(<<<<"e">>>>, <<>>, <<>>))}
  \cup {Pair("d", "Keep", prose, feats, deps) :
          prose \in {"some", "subY"}, feats \in {<<"A">>, <<>>, <<"B">>},
          deps \in {<<>>, <<<<"y", "x">>>>}}
  \cup {Three(deps) : deps \in {<<<<"x", "y">>, <<"y", "z">>, <<"z", "x">>>>,
                                <<<<"x", "y">>, <<"y", "z">>>>, <<<<"z", "x">>, <<"x", "y">>>>}}
  \cup {[comp |-> <<"e">>, raw |-> raw] :
          raw \in WithEdits(CompArch(<<<<"f">>>>, <<>>, <<>>))}

Decision(tag, p) == Tag(tag, <<>>, [policy |-> <<p>>], <<Leaf("rationale", "some")>>)
PolicySet == {Raw(Node("policy-applications", ds)) :
  ds \in {<<>>, <<Decision("applies", "log")>>,
          <<Decision("applies", "log"), Decision("does-not-apply", "log")>>,
          <<Decision("applies", "none")>>}}

SubArchSet == {Raw(Node("subcomparch", Prose(<<"technical-specification", "public-surface",
                     "private-surface">>) \o <<Node("dependencies", Map(ds, To))>>)) :
  ds \in {<<>>, <<<<"d", "d">>>>, <<<<"f", "none">>>>}}
ImplementationSet == WithEdits(Node("implementation", Prose(Implementation)))
FanInSet == WithEdits(Node("fanin", Prose(FanIn)))
ReferenceSet == WithEdits(Node("reference", <<Leaf("title", "some"),
  Node("body", <<Leaf("p", "some")>>), Node("see-also", <<Ref("r1"), Ref("r2")>>)>>))

---------------------------------------------------------------------------
(* The values of the constants: a name for each of the sets, which TLC     *)
(* computes once.                                                          *)

RECURSIVE Below(_)
Below(tree) == {tree} \cup UNION {Below(tree.kids[i]) : i \in DOMAIN tree.kids}

Answers == UNION {FeatureSet, ReviewSet, RequirementSet, SysarchSet, SubrequirementSet,
                  {doc.raw : doc \in CompArchSet}, SubArchSet, PolicySet,
                  ImplementationSet, FanInSet, ReferenceSet}

TagSet == UNION {UNION {Below(raw[i]) : i \in DOMAIN raw} : raw \in Answers}

TagNodeDef        == TagSet
FeatureDef        == FeatureSet
ReviewDef         == ReviewSet
RequirementDef    == RequirementSet
SysarchDef        == SysarchSet
SubrequirementDef == SubrequirementSet
CompArchDef       == CompArchSet
SubArchDef        == SubArchSet
PolicyDef         == PolicySet
ImplementationDef == ImplementationSet
FanInDef          == FanInSet
ReferenceDef      == ReferenceSet
====
