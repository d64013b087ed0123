--------------------------- MODULE BootstrapDocs ---------------------------
(***************************************************************************)
(* The validators of the documents a project starts from: features,        *)
(* vocabulary, requirements and the subrequirements of a component         *)
(* (backend/graph/parsers/validators.py).  ValidX says whether the         *)
(* validator returns instead of raising; XOf is what it returns.           *)
(***************************************************************************)
EXTENDS TagTree

CONSTANTS LowerCase,   \* word -> word, for the words that have capitals
          TermNames    \* the names that match _VOCAB_TERM_NAME_RE

---------------------------------------------------------------------------
(* <features>                                                              *)

ValidFeature(node) ==
  /\ Only(node, {"name", "intent", "implicit"})
  /\ OneFilled(node, "name")
  /\ OneFilled(node, "intent")
  /\ AtMostOne(node, "implicit")

FeatureOf(node, group) ==
  [name |-> TextOf(node, "name"), group |-> group,
   implicit |-> One(node, "implicit")]

ValidGroup(node) ==
  /\ Only(node, {"name", "feature"})
  /\ OneFilled(node, "name")
  /\ FindAll(node, "feature") # <<>>
  /\ All(FindAll(node, "feature"), ValidFeature)

\* Grouped or not, in document order.
FeaturesOf(tree) ==
  FoldLeft(LAMBDA before, kid :
             before \o IF kid.tag = "feature" THEN <<FeatureOf(kid, <<>>)>>
                       ELSE LET fs == FindAll(kid, "feature")
                            IN  [j \in DOMAIN fs |-> FeatureOf(fs[j], TextOf(kid, "name"))],
           <<>>, tree.kids)

NamesOf(entries) == [i \in DOMAIN entries |-> entries[i].name]

ValidFeatures(tree) ==
  /\ tree.tag = "features"
  /\ Only(tree, {"feature", "group"})
  /\ All(FindAll(tree, "feature"), ValidFeature)
  /\ All(FindAll(tree, "group"), ValidGroup)
  /\ tree.kids # <<>>
  /\ Distinct(NamesOf(FeaturesOf(tree)))

---------------------------------------------------------------------------
(* <requirements> and <subrequirements>                                    *)

NormalizeName(name) ==
  [i \in DOMAIN name |-> IF name[i] \in DOMAIN LowerCase THEN LowerCase[name[i]]
                                                         ELSE name[i]]

UniqueNames(entries) ==
  Distinct([i \in DOMAIN entries |-> NormalizeName(entries[i].name)])

ValidFeatList(node, features) == Links(node, "feat", features)

ValidResponsibility(node, features) ==
  /\ Only(node, {"name", "feats"})
  /\ OneFilled(node, "name")
  /\ One(node, "feats")
  /\ ValidFeatList(Kid(node, "feats"), features)

RequirementsOf(tree) ==
  [i \in DOMAIN tree.kids |->
    [name  |-> TextOf(tree.kids[i], "name"),
     feats |-> LinksOf(Kid(tree.kids[i], "feats"))]]

Covered(responsibilities) == UNION {r.feats : r \in Values(responsibilities)}

\* Slip: no one checks that the features are covered.
RequirementsUncovered(tree, features) ==
  /\ tree.tag = "requirements"
  /\ Only(tree, {"responsibility"})
  /\ All(tree.kids, LAMBDA r : ValidResponsibility(r, features))
  /\ tree.kids # <<>>
  /\ UniqueNames(RequirementsOf(tree))

ValidRequirements(tree, features) ==
  /\ tree.tag = "requirements"
  /\ Only(tree, {"responsibility"})
  /\ All(tree.kids, LAMBDA r : ValidResponsibility(r, features))
  /\ tree.kids # <<>>
  /\ UniqueNames(RequirementsOf(tree))
  /\ features \subseteq Covered(RequirementsOf(tree))

ValidDerivedFrom(node, parents) ==
  node.kids # <<>> /\ Links(node, "resp", parents)

ValidSubresponsibility(node, parents, features) ==
  /\ Only(node, {"name", "feats", "derived-from"})
  /\ OneFilled(node, "name")
  /\ One(node, "feats")
  /\ One(node, "derived-from")
  /\ ValidFeatList(Kid(node, "feats"), features)
  /\ ValidDerivedFrom(Kid(node, "derived-from"), parents)

SubrequirementsOf(tree) ==
  [i \in DOMAIN tree.kids |->
    [name    |-> TextOf(tree.kids[i], "name"),
     feats   |-> LinksOf(Kid(tree.kids[i], "feats")),
     derived |-> LinksOf(Kid(tree.kids[i], "derived-from"))]]

\* May be empty, and may leave parents and features out.
ValidSubrequirements(tree, parents, features) ==
  /\ tree.tag = "subrequirements"
  /\ Only(tree, {"subresponsibility"})
  /\ All(tree.kids, LAMBDA s : ValidSubresponsibility(s, parents, features))
  /\ UniqueNames(SubrequirementsOf(tree))

---------------------------------------------------------------------------
(* <vocabulary>                                                            *)

\* A term refers to another by its name or, once minted, by its id.
TargetOf(ref) == IF Attr(ref, "name") # <<>> THEN Attr(ref, "name") ELSE Attr(ref, "to")

ValidTermSeeAlso(node, allowIds) ==
  /\ Only(node, {"ref"})
  /\ \A ref \in Values(node.kids) :
       /\ (Attr(ref, "name") = <<>>) # (Attr(ref, "to") = <<>>)
       /\ Attr(ref, "to") # <<>> => allowIds
  /\ Distinct([i \in DOMAIN node.kids |-> TargetOf(node.kids[i])])

ValidVocabEntry(node, allowIds) ==
  /\ OptionalSections(node, <<"definition", "disambiguation", "see-also">>)
  /\ One(node, "definition")
  /\ All(FindAll(node, "definition"), PlainText)
  /\ All(FindAll(node, "disambiguation"), PlainText)
  /\ All(FindAll(node, "see-also"), LAMBDA n : ValidTermSeeAlso(n, allowIds))

ValidVocabTerm(node, features, allowIds) ==
  /\ Attr(node, "name") \in TermNames
  /\ Attr(node, "scope") \in {<<"project">>, <<"feature">>}
  /\ Attr(node, "scope") = <<"feature">> => Attr(node, "feature-name") \in features
  /\ Only(node, {"vocab-entry"})
  /\ One(node, "vocab-entry")
  /\ ValidVocabEntry(Kid(node, "vocab-entry"), allowIds)

\* What is stored of a term: an entry with its texts stripped and, of a ref,
\* the one attribute it has.
SerializeVocabEntry(node) ==
  Tag("vocab-entry", <<>>, <<>>,
      [i \in DOMAIN node.kids |->
        LET kid == node.kids[i]
        IN  IF kid.tag # "see-also" THEN Tag(kid.tag, kid.text, <<>>, <<>>)
            ELSE Tag("see-also", <<>>, <<>>,
                     [j \in DOMAIN kid.kids |->
                       LET ref == kid.kids[j]
                       IN  Tag("ref", <<>>,
                               IF Attr(ref, "name") # <<>>
                               THEN [name |-> Attr(ref, "name")]
                               ELSE [to |-> Attr(ref, "to")], <<>>)])])

\* The feature of a project-level term is not looked at.
VocabularyOf(tree) ==
  [i \in DOMAIN tree.kids |->
    LET term == tree.kids[i]
    IN  [name    |-> Attr(term, "name"),
         feature |-> IF Attr(term, "scope") = <<"feature">>
                     THEN Attr(term, "feature-name") ELSE <<>>,
         content |-> SerializeVocabEntry(Kid(term, "vocab-entry"))]]

ScopedNames(terms) == [i \in DOMAIN terms |-> <<terms[i].feature, terms[i].name>>]

ValidVocabulary(tree, features, allowIds) ==
  /\ tree.tag = "vocabulary"
  /\ Only(tree, {"term"})
  /\ All(tree.kids, LAMBDA t : ValidVocabTerm(t, features, allowIds))
  /\ Distinct(ScopedNames(VocabularyOf(tree)))

=============================================================================
