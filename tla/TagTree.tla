------------------------------ MODULE TagTree ------------------------------
(***************************************************************************)
(* What the lenient extractor makes of a generated answer                  *)
(* (backend/graph/parsers/xml_sections.py, change_summary.py): a tree of   *)
(* tags, and the questions the validators ask of one.                      *)
(*                                                                         *)
(* A text, a name, an id or an attribute value is a sequence of words; the *)
(* empty sequence is a blank text or a missing attribute (the code strips  *)
(* both before it looks).  A raw answer is the sequence of the top-level   *)
(* tags in it: prose around them is dropped by the extractor.              *)
(*                                                                         *)
(* Bounds: an answer has MaxTags tags or fewer, in a set TagNode of tags   *)
(* that holds whatever is nested in one of them.                           *)
(***************************************************************************)
EXTENDS Naturals, Sequences, SequencesExt, FiniteSets

CONSTANTS TagNode, MaxTags

ASSUME TagNodeAssumption ==
  /\ \A node \in TagNode : node.kids \in Seq(TagNode)
  /\ MaxTags \in Nat

\* What a loop makes of its start in n rounds.
Iterate(step, start, n) ==
  LET at[k \in 0 .. n] == IF k = 0 THEN start ELSE step[at[k - 1]]
  IN  at[n]

---------------------------------------------------------------------------
(* Tags and where to find them.                                            *)

Tag(tag, text, attrs, kids) ==
  [tag |-> tag, text |-> text, attrs |-> attrs, kids |-> kids]

NoTag == Tag("", <<>>, <<>>, <<>>)

Attr(node, a) == IF a \in DOMAIN node.attrs THEN node.attrs[a] ELSE <<>>

FindAll(node, tag) == SelectSeq(node.kids, LAMBDA k : k.tag = tag)

PlacesOf(node, tag) == {i \in DOMAIN node.kids : node.kids[i].tag = tag}

\* The search through the tags in the order they open: what is left of them.
Find(root) ==
  [todo \in Seq(TagNode) |->
    IF todo = <<>> \/ todo[1].tag = root THEN todo ELSE todo[1].kids \o Tail(todo)]

\* The first tag of that name anywhere in the answer, whatever encloses it.
ExtractTagTree(raw, root) ==
  LET found == Iterate(Find(root), raw, MaxTags)
  IN  IF found = <<>> THEN NoTag ELSE found[1]

\* The answer without its change summaries, which go to the draft's own column.
ExtractChangeSummary(raw) == SelectSeq(raw, LAMBDA n : n.tag # "change-summary")

---------------------------------------------------------------------------
(* The checks every validator is made of.                                  *)

Values(seq) == {seq[i] : i \in DOMAIN seq}

Distinct(seq) == IsInjective(seq)

TagsOf(node) == [i \in DOMAIN node.kids |-> node.kids[i].tag]

\* Every child is of an allowed tag.
Only(node, tags) == Values(TagsOf(node)) \subseteq tags

\* Exactly these sections, once each and in this order.
Sections(node, order) == TagsOf(node) = order

\* At most one of each section, in this order.
OptionalSections(node, order) ==
  /\ Distinct(TagsOf(node))
  /\ TagsOf(node) = SelectSeq(order, LAMBDA tag : tag \in Values(TagsOf(node)))

One(node, tag) == Cardinality(PlacesOf(node, tag)) = 1

AtMostOne(node, tag) == Cardinality(PlacesOf(node, tag)) <= 1

\* The first child of this tag.
Kid(node, tag) == node.kids[Min(PlacesOf(node, tag))]

TextOf(node, tag) == Kid(node, tag).text

\* Exactly one child of this tag, with a text.
OneFilled(node, tag) == One(node, tag) /\ TextOf(node, tag) # <<>>

\* A text and no nested tag.
PlainText(node) == node.kids = <<>> /\ node.text # <<>>

All(nodes, Valid(_)) == \A i \in DOMAIN nodes : Valid(nodes[i])

AttrsOf(nodes, a) == [i \in DOMAIN nodes |-> Attr(nodes[i], a)]

\* Only tags of one kind, each naming a known id, none of them twice.
Links(node, tag, known) ==
  LET ids == AttrsOf(node.kids, "id")
  IN  /\ Only(node, {tag})
      /\ Distinct(ids)
      /\ Values(ids) \subseteq known

LinksOf(node) == Values(AttrsOf(node.kids, "id"))

\* The text of a node and of all that is nested in it.
Flat[node \in TagNode] ==
  FoldLeft(LAMBDA before, kid : before \o Flat[kid], node.text, node.kids)

Flattened(node) == Flat[node]

=============================================================================
