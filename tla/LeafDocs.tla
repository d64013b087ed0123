------------------------------ MODULE LeafDocs ------------------------------
(***************************************************************************)
(* The validators of the documents nothing is minted from: policy          *)
(* applications, references, implementations, fan-ins and reviews          *)
(* (backend/graph/parsers/validators.py, review_xml.py), and the gate that *)
(* runs before an artifact is committed (siege/validate.py).               *)
(***************************************************************************)
EXTENDS TagTree

CONSTANTS RefIds,  \* the ids that match _REF_ID_RE
          IntOf    \* word -> integer, for the words int() parses

---------------------------------------------------------------------------
(* <policy-applications>                                                   *)

\* Every candidate policy is decided once, one way or the other.
ValidPolicyApplications(tree, policies) ==
  LET decided == AttrsOf(tree.kids, "policy")
  IN  /\ tree.tag = "policy-applications"
      /\ Only(tree, {"applies", "does-not-apply"})
      /\ Distinct(decided)
      /\ Values(decided) = policies
      /\ All(tree.kids, LAMBDA d : OneFilled(d, "rationale"))

Applied(tree) == Values(AttrsOf(FindAll(tree, "applies"), "policy"))

---------------------------------------------------------------------------
(* <reference>, <implementation> and <fanin>                               *)

ValidReferenceSeeAlso(node) ==
  LET targets == AttrsOf(node.kids, "to")
  IN  /\ Only(node, {"ref"})
      /\ \A ref \in Values(node.kids) : Attr(ref, "name") = <<>>
      /\ Values(targets) \subseteq RefIds
      /\ Distinct(targets)

\* The body is opaque: any markup, as long as there is a text somewhere in it.
ValidReference(tree) ==
  /\ tree.tag = "reference"
  /\ OptionalSections(tree, <<"title", "body", "see-also">>)
  /\ One(tree, "title") /\ PlainText(Kid(tree, "title"))
  /\ One(tree, "body") /\ Flattened(Kid(tree, "body")) # <<>>
  /\ All(FindAll(tree, "see-also"), ValidReferenceSeeAlso)

Implementation == <<"behavior", "invariants", "sequencing", "edge-cases">>

ValidImplementation(tree) ==
  /\ tree.tag = "implementation"
  /\ Sections(tree, Implementation)
  /\ All(tree.kids, LAMBDA s : Flattened(s) # <<>>)

FanIn == <<"summary", "exposed-surface", "realized-behavior">>

ValidFanIn(tree) ==
  /\ tree.tag = "fanin"
  /\ Sections(tree, FanIn)
  /\ All(tree.kids, LAMBDA s : Flattened(s) # <<>>)

---------------------------------------------------------------------------
(* <review>                                                                *)

ReviewParts == {"handles-structure", "architectural-decisions"}

FindingsOf(tree) ==
  FindAll(Kid(tree, "handles-structure"), "finding")
    \o FindAll(Kid(tree, "architectural-decisions"), "finding")

ValidFindings(findings) ==
  /\ <<>> \notin Values(AttrsOf(findings, "id"))
  /\ \A f \in Values(findings) : f.text # <<>>

\* Other children are looked over; an id is used once in the whole review.
ParseReview(tree) ==
  /\ tree.tag = "review"
  /\ \A tag \in ReviewParts : One(tree, tag)
  /\ OneFilled(tree, "intro")
  /\ OneFilled(tree, "score")
  /\ TextOf(tree, "score") \in DOMAIN IntOf
  /\ IntOf[TextOf(tree, "score")] \in 0 .. 100
  /\ ValidFindings(FindingsOf(tree))
  /\ Distinct(AttrsOf(FindingsOf(tree), "id"))

=============================================================================
