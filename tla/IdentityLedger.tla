--------------------------- MODULE IdentityLedger ---------------------------
(***************************************************************************)
(* The identity ledger of a decomposing substrate (siege/manifest.py).     *)
(*                                                                         *)
(* A body declares nodes (features, responsibilities, components,          *)
(* subcomponents) in textual order.  Each node has a handle: its <name> or *)
(* its alias, lower-cased and stripped.  derive_manifest gives every node  *)
(* an id: the id the prior ledger binds to its handle, or a fresh one.     *)
(*                                                                         *)
(* A body text is an element of Body, and so is its sha256: the digest is  *)
(* taken to be injective.  Nodes[b] is what the regex scan of b finds.     *)
(* A fresh id (prefix + secrets.token_hex(4)) is the pair of the number of *)
(* the derivation that minted it and the node's position in that           *)
(* derivation: token_hex is taken never to repeat a value.                 *)
(***************************************************************************)
EXTENDS Integers, Sequences

CONSTANTS
  Body,    \* the texts a body file can hold
  Handle,  \* the carry-forward keys of nodes
  Nodes,   \* the handles a text declares, in order
  NoFile   \* stands for a file that does not exist

ASSUME NodesAssumption == Nodes \in [Body -> Seq(Handle)]
ASSUME NoFileAssumption == NoFile \notin Body
-----------------------------------------------------------------------------
Id == Nat \X Nat

\* One entry of the slim ledger: an id and the handle it is bound to.
Entry == [id : Id, handle : Handle]

\* The ledger file: its entries.  The digest of the text it was derived from
\* is left out: no reader compares it.
Ledger == [nodes : Seq(Entry)]
NoLedger == [nodes |-> << >>]

\* prior_by_key: a handle is looked up at its first entry (setdefault).
Binds(led, h) == \E k \in DOMAIN led.nodes : led.nodes[k].handle = h

FirstEntry(led, h) ==
  CHOOSE k \in DOMAIN led.nodes :
    /\ led.nodes[k].handle = h
    /\ \A j \in DOMAIN led.nodes : led.nodes[j].handle = h => k <= j

\* A slip of the next definition: an id kept only by a node that did not move.
TakesPriorInPlace(led, names, i) ==
  Binds(led, names[i]) /\ FirstEntry(led, names[i]) = i

\* A node's prior id is taken unless an earlier node of this body took it,
\* which only a node with the same handle can have done.
TakesPrior(led, names, i) ==
  /\ Binds(led, names[i])
  /\ \A j \in 1 .. i - 1 : names[j] # names[i]

\* Slips of the next definition: ids carried by position instead of handle;
\* one fresh id for all the new nodes of a derivation.
DeriveByPosition(b, led, m) ==
  [nodes |-> [i \in DOMAIN Nodes[b] |->
     [id |-> IF i \in DOMAIN led.nodes THEN led.nodes[i].id ELSE <<m, i>>,
      handle |-> Nodes[b][i]]]]
DeriveOneFreshId(b, led, m) ==
  [nodes |-> [i \in DOMAIN Nodes[b] |->
     [id |-> IF TakesPrior(led, Nodes[b], i)
             THEN led.nodes[FirstEntry(led, Nodes[b][i])].id
             ELSE <<m, 1>>,
      handle |-> Nodes[b][i]]]]

\* derive_manifest: the m-th derivation, of text b against the ledger led.
Derive(b, led, m) ==
  [nodes |-> [i \in DOMAIN Nodes[b] |->
     [id |-> IF TakesPrior(led, Nodes[b], i)
             THEN led.nodes[FirstEntry(led, Nodes[b][i])].id
             ELSE <<m, i>>,
      handle |-> Nodes[b][i]]]]

\* The (id, handle) pairs a ledger persists.
Bindings(led) == {led.nodes[k] : k \in DOMAIN led.nodes}

\* No two nodes of a ledger share an id.
UniqueIds(led) ==
  \A i, j \in DOMAIN led.nodes : led.nodes[i].id = led.nodes[j].id => i = j
=============================================================================
