----------------------- MODULE ScopeLifecycle_proofs -----------------------
(* The invariants of one scope's files, for every text, every number of    *)
(* concurrent CLI calls and every interleaving of their steps; before      *)
(* them, what derive_manifest guarantees of every text and every ledger.   *)
EXTENDS ScopeLifecycle, TLAPS, WellFoundedInduction, FiniteSetTheorems

---------------------------------------------------------------------------
(* Identity ledgers *)

\* A non-empty set of naturals has a least element: the order of the
\* initial segments 1 .. n by strict inclusion is well-founded.
LEMMA LeastNatural ==
  ASSUME NEW S, S \subseteq Nat, S # {}
  PROVE  \E x \in S : \A y \in S : x <= y
<1> DEFINE T == {1 .. n : n \in S}
<1> DEFINE R == StrictSubsetOrdering(Nat)
<1>1. IsWellFoundedOn(R, FiniteSubsetsOf(Nat))
  BY FS_StrictSubsetOrderingWellFounded
<1>2. \A n \in S : 1 .. n \in FiniteSubsetsOf(Nat)
  BY FS_Interval DEF FiniteSubsetsOf
<1>3. T \subseteq FiniteSubsetsOf(Nat) /\ T # {}
  BY <1>2
<1> HIDE DEF R, T
<1>4. PICK x \in T : \A y \in T : ~ (<<y, x>> \in R)
  BY <1>1, <1>3, WFMin
<1>5. PICK n \in S : x = 1 .. n
  BY DEF T
<1>6. ASSUME NEW m \in S, m < n PROVE FALSE
  <2>1. 1 .. m \in T
    BY DEF T
  <2>2. 1 .. m \subseteq 1 .. n /\ n \in 1 .. n /\ n \notin 1 .. m
    BY <1>6
  <2>3. <<1 .. m, 1 .. n>> \in R
    BY <2>2 DEF R, StrictSubsetOrdering, FiniteSubsetsOf
  <2>4. QED
    BY <2>1, <2>3, <1>4, <1>5
<1>7. QED
  BY <1>6

-----------------------------------------------------------------------------
\* A ledger's entries sit at 1 .. Len, and each is an entry.
LEMMA LedgerNodes ==
  ASSUME NEW led \in Ledger \cup {NoLedger}
  PROVE  /\ DOMAIN led.nodes \subseteq Nat
         /\ \A k \in DOMAIN led.nodes : led.nodes[k] \in Entry
<1>1. CASE led \in Ledger
  BY <1>1 DEF Ledger
<1>2. CASE led = NoLedger
  BY <1>2 DEF NoLedger
<1>3. QED
  BY <1>1, <1>2

\* The lookup of a bound handle finds an entry with that handle, and the
\* first of them.
LEMMA FirstEntryFound ==
  ASSUME NEW led \in Ledger \cup {NoLedger}, NEW h, Binds(led, h)
  PROVE  /\ FirstEntry(led, h) \in DOMAIN led.nodes
         /\ led.nodes[FirstEntry(led, h)].handle = h
         /\ \A j \in DOMAIN led.nodes :
              led.nodes[j].handle = h => FirstEntry(led, h) <= j
<1> DEFINE S == {k \in DOMAIN led.nodes : led.nodes[k].handle = h}
<1>1. S \subseteq Nat
  BY LedgerNodes
<1>2. S # {}
  BY DEF Binds
<1>3. \E x \in S : \A y \in S : x <= y
  <2> HIDE DEF S
  <2> QED BY <1>1, <1>2, LeastNatural
<1>4. QED
  BY <1>3 DEF FirstEntry

\* The scan of a text is a sequence of handles.
LEMMA NodesOfText ==
  ASSUME NEW b \in Body
  PROVE  /\ Nodes[b] \in Seq(Handle)
         /\ DOMAIN Nodes[b] \subseteq Nat
         /\ \A i \in DOMAIN Nodes[b] : Nodes[b][i] \in Handle
BY NodesAssumption

-----------------------------------------------------------------------------
\* What a derivation gives node i: the entry of its handle in the prior
\* ledger, or an id no earlier derivation has minted.
LEMMA DerivedEntry ==
  ASSUME NEW b \in Body, NEW led \in Ledger \cup {NoLedger}, NEW m \in Nat,
         NEW i \in DOMAIN Derive(b, led, m).nodes
  PROVE  /\ i \in DOMAIN Nodes[b]
         /\ i \in Nat
         /\ Derive(b, led, m).nodes[i] \in Entry
         /\ Derive(b, led, m).nodes[i].handle = Nodes[b][i]
         /\ TakesPrior(led, Nodes[b], i) =>
              /\ FirstEntry(led, Nodes[b][i]) \in DOMAIN led.nodes
              /\ Derive(b, led, m).nodes[i] = led.nodes[FirstEntry(led, Nodes[b][i])]
         /\ ~ TakesPrior(led, Nodes[b], i) =>
              Derive(b, led, m).nodes[i].id = <<m, i>>
<1> DEFINE new == Derive(b, led, m)
           h == Nodes[b][i]
           first == led.nodes[FirstEntry(led, h)]
<1>1. i \in DOMAIN Nodes[b] /\ i \in Nat /\ h \in Handle
  BY NodesOfText DEF Derive
<1>2. new.nodes[i] = [id |-> IF TakesPrior(led, Nodes[b], i) THEN first.id ELSE <<m, i>>,
                      handle |-> h]
  BY <1>1 DEF Derive
<1>3. CASE TakesPrior(led, Nodes[b], i)
  <2>1. Binds(led, h)
    BY <1>3 DEF TakesPrior
  <2>2. /\ FirstEntry(led, h) \in DOMAIN led.nodes
        /\ first.handle = h
    BY <2>1, FirstEntryFound
  <2>3. first \in Entry
    BY <2>2, LedgerNodes
  <2>4. new.nodes[i] = first
    BY <1>2, <1>3, <2>2, <2>3 DEF Entry
  <2>5. QED
    BY <1>1, <1>3, <2>2, <2>3, <2>4
<1>4. CASE ~ TakesPrior(led, Nodes[b], i)
  <2>1. new.nodes[i] = [id |-> <<m, i>>, handle |-> h]
    BY <1>2, <1>4
  <2>2. new.nodes[i] \in Entry
    BY <2>1, <1>1 DEF Entry, Id
  <2>3. QED
    BY <1>1, <1>4, <2>1, <2>2
<1>5. QED
  BY <1>3, <1>4

\* A derivation is a ledger of the text it derives from.
LEMMA DeriveType ==
  ASSUME NEW b \in Body, NEW led \in Ledger \cup {NoLedger}, NEW m \in Nat
  PROVE  Derive(b, led, m) \in Ledger
<1> DEFINE new == Derive(b, led, m)
<1>1. Nodes[b] \in Seq(Handle)
  BY NodesOfText
<1>2. DOMAIN new.nodes = 1 .. Len(Nodes[b])
  BY <1>1 DEF Derive
<1>3. \A i \in 1 .. Len(Nodes[b]) : new.nodes[i] \in Entry
  BY <1>2, DerivedEntry
<1>4. new = [nodes |-> new.nodes]
  BY DEF Derive
<1>5. new.nodes = [i \in 1 .. Len(Nodes[b]) |-> new.nodes[i]]
  BY <1>1 DEF Derive
<1>6. new.nodes \in Seq(Entry)
  <2>1. Len(Nodes[b]) \in Nat
    BY <1>1
  <2>2. new.nodes \in [1 .. Len(Nodes[b]) -> Entry]
    <3> HIDE DEF new
    <3> QED BY <1>3, <1>5
  <2>3. QED
    <3> HIDE DEF new
    <3> QED BY <2>1, <2>2
<1>7. QED
  BY <1>4, <1>6 DEF Ledger

\* What a ledger binds are entries.
LEMMA BindingsType ==
  ASSUME NEW led \in Ledger \cup {NoLedger}
  PROVE  Bindings(led) \subseteq Entry
BY LedgerNodes DEF Bindings

\* A derivation persists no pair but those of the prior ledger and pairs
\* whose id it minted itself.
LEMMA DeriveBindings ==
  ASSUME NEW b \in Body, NEW led \in Ledger \cup {NoLedger}, NEW m \in Nat,
         NEW e \in Bindings(Derive(b, led, m))
  PROVE  e \in Bindings(led) \/ e.id[1] = m
<1>1. PICK i \in DOMAIN Derive(b, led, m).nodes : e = Derive(b, led, m).nodes[i]
  BY DEF Bindings
<1>2. QED
  BY <1>1, DerivedEntry DEF Bindings

\* A derivation gives no two nodes one id, when the prior ledger does not
\* and holds no id of this derivation's.  A handle declared twice is the
\* hard case: only its first node may take the prior id.
LEMMA DeriveUnique ==
  ASSUME NEW b \in Body, NEW led \in Ledger \cup {NoLedger}, NEW m \in Nat,
         UniqueIds(led), \A e \in Bindings(led) : e.id[1] < m
  PROVE  UniqueIds(Derive(b, led, m))
<1> DEFINE new == Derive(b, led, m)
           Old(i) == TakesPrior(led, Nodes[b], i)
<1> SUFFICES ASSUME NEW i \in DOMAIN new.nodes, NEW j \in DOMAIN new.nodes,
                    new.nodes[i].id = new.nodes[j].id
             PROVE  i = j
  BY DEF UniqueIds
<1>1. /\ i \in Nat /\ i \in DOMAIN Nodes[b]
      /\ j \in Nat /\ j \in DOMAIN Nodes[b]
  BY DerivedEntry
<1>2. \A k \in DOMAIN new.nodes : Old(k) => new.nodes[k].id[1] < m
  BY DerivedEntry DEF Bindings
<1>3. \A k \in DOMAIN new.nodes : ~ Old(k) => new.nodes[k].id = <<m, k>>
  BY DerivedEntry
<1>4. CASE Old(i) /\ Old(j)
  <2>1. led.nodes[FirstEntry(led, Nodes[b][i])].id = led.nodes[FirstEntry(led, Nodes[b][j])].id
    BY <1>4, DerivedEntry
  <2>2. FirstEntry(led, Nodes[b][i]) = FirstEntry(led, Nodes[b][j])
    BY <1>4, <2>1, DerivedEntry DEF UniqueIds
  <2>3. Nodes[b][i] = Nodes[b][j]
    BY <1>4, <2>2, FirstEntryFound DEF TakesPrior
  <2>4. ~ (j < i) /\ ~ (i < j)
    <3>1. \A p, q \in DOMAIN Nodes[b] :
            p \in Nat /\ q \in Nat /\ Old(q) /\ p < q => Nodes[b][p] # Nodes[b][q]
      <4>1. \A p \in DOMAIN Nodes[b] : p >= 1
        BY NodesAssumption
      <4>2. QED
        BY <4>1 DEF TakesPrior
    <3>2. QED
      BY <1>1, <1>4, <2>3, <3>1
  <2>5. QED
    BY <1>1, <2>4
<1>5. CASE ~ Old(i) /\ ~ Old(j)
  BY <1>3, <1>5
<1>6. CASE Old(i) /\ ~ Old(j)
  BY <1>2, <1>3, <1>6
<1>7. CASE ~ Old(i) /\ Old(j)
  BY <1>2, <1>3, <1>7
<1>8. QED
  BY <1>4, <1>5, <1>6, <1>7

\* The ids a derivation mints name one handle each.
LEMMA FreshIdsNameOneHandle ==
  ASSUME NEW b \in Body, NEW led \in Ledger \cup {NoLedger}, NEW m \in Nat,
         \A e \in Bindings(led) : e.id[1] < m,
         NEW e \in Bindings(Derive(b, led, m)), NEW f \in Bindings(Derive(b, led, m)),
         e.id = f.id, e.id[1] = m
  PROVE  e.handle = f.handle
<1>1. PICK i \in DOMAIN Derive(b, led, m).nodes : e = Derive(b, led, m).nodes[i]
  BY DEF Bindings
<1>2. PICK j \in DOMAIN Derive(b, led, m).nodes : f = Derive(b, led, m).nodes[j]
  BY DEF Bindings
<1>3. ~ TakesPrior(led, Nodes[b], i) /\ ~ TakesPrior(led, Nodes[b], j)
  BY <1>1, <1>2, DerivedEntry DEF Bindings
<1>4. i = j
  BY <1>1, <1>2, <1>3, DerivedEntry
<1>5. QED
  BY <1>1, <1>2, <1>4

\* A handle bound before and after a derivation keeps its id: its first node
\* in the text is the one that takes the prior id.
LEMMA DeriveCarriesForward ==
  ASSUME NEW b \in Body, NEW led \in Ledger \cup {NoLedger}, NEW m \in Nat, NEW h,
         Binds(led, h), Binds(Derive(b, led, m), h)
  PROVE  Derive(b, led, m).nodes[FirstEntry(Derive(b, led, m), h)].id
           = led.nodes[FirstEntry(led, h)].id
<1> DEFINE new == Derive(b, led, m)
           i == FirstEntry(new, h)
<1>1. new \in Ledger \cup {NoLedger} /\ Binds(new, h)
  BY DeriveType
<1>2. /\ i \in DOMAIN new.nodes
      /\ new.nodes[i].handle = h
      /\ \A j \in DOMAIN new.nodes : new.nodes[j].handle = h => i <= j
  <2> HIDE DEF new
  <2> QED BY <1>1, FirstEntryFound
<1>3. /\ i \in Nat /\ Nodes[b][i] = h
      /\ DOMAIN new.nodes = DOMAIN Nodes[b]
  BY <1>2, DerivedEntry DEF Derive
<1>4. \A j \in 1 .. i - 1 : Nodes[b][j] # h
  <2> SUFFICES ASSUME NEW j \in 1 .. i - 1, Nodes[b][j] = h PROVE FALSE
    OBVIOUS
  <2>1. j \in DOMAIN new.nodes
    <3>1. i \in DOMAIN Nodes[b] /\ Nodes[b] \in Seq(Handle)
      BY <1>2, <1>3, NodesOfText
    <3>2. j \in DOMAIN Nodes[b]
      <4> HIDE DEF i
      <4> QED BY <1>3, <3>1
    <3>3. QED
      BY <1>3, <3>2
  <2>2. new.nodes[j].handle = h
    BY <2>1, DerivedEntry
  <2>3. i <= j
    BY <1>2, <2>1, <2>2
  <2>4. QED
    <3> HIDE DEF i
    <3> QED BY <1>3, <2>3
<1>5. TakesPrior(led, Nodes[b], i)
  BY <1>3, <1>4 DEF TakesPrior
<1>6. new.nodes[i] = led.nodes[FirstEntry(led, Nodes[b][i])]
  BY <1>2, <1>5, DerivedEntry
<1>7. QED
  BY <1>3, <1>6

---------------------------------------------------------------------------
(* The files of a scope *)

\* The empty ledger binds nothing.
LEMMA NoLedgerFacts ==
  UniqueIds(NoLedger) /\ Bindings(NoLedger) = {}
BY DEF UniqueIds, Bindings, NoLedger

-----------------------------------------------------------------------------
(* Types *)

\* A call that starts takes well-typed copies.
LEMMA StartType ==
  ASSUME TypeOK, NEW w \in Worker, NEW step \in Step, Start(w, step),
         step \in WithBytes => body \in Body
  PROVE  /\ op' \in [Worker -> Op]
         /\ \A v \in Worker : op'[v].at \in WithBytes => op'[v].bytes \in Body
BY DEF TypeOK, Start, Op

\* A call that returns, or goes on, keeps well-typed copies.
LEMMA ReturnType ==
  ASSUME TypeOK, NEW w \in Worker, Return(w)
  PROVE  /\ op' \in [Worker -> Op]
         /\ \A v \in Worker : op'[v].at \in WithBytes => op'[v].bytes \in Body
<1>1. Idle \in Op /\ Idle.at \notin WithBytes
  BY DEF Idle, Op, Step, File, NoState, State, Status, WithBytes
<1>2. QED
  BY <1>1 DEF TypeOK, Return

LEMMA GotoType ==
  ASSUME TypeOK, NEW w \in Worker, NEW step \in Step, Goto(w, step),
         step \in WithBytes => op[w].bytes \in Body
  PROVE  /\ op' \in [Worker -> Op]
         /\ \A v \in Worker : op'[v].at \in WithBytes => op'[v].bytes \in Body
BY DEF TypeOK, Goto, Op

LEMMA GotoLedgerType ==
  ASSUME TypeOK, NEW w \in Worker, GotoLedger(w), op[w].bytes \in Body
  PROVE  /\ op' \in [Worker -> Op]
         /\ \A v \in Worker : op'[v].at \in WithBytes => op'[v].bytes \in Body
<1>1. "ledger" \in Step
  BY DEF Step
<1>2. QED
  BY <1>1 DEF TypeOK, GotoLedger, Op

\* A ledger write stores a ledger and records entries.
LEMMA PutLedgerType ==
  ASSUME TypeOK, NEW b \in Body, NEW led \in Ledger \cup {NoLedger}, PutLedger(b, led)
  PROVE  ledger' \in Ledger /\ mints' \in Nat /\ bound' \in SUBSET Entry
<1> DEFINE new == Derive(b, led, mints)
<1>1. mints \in Nat
  BY DEF TypeOK
<1>2. new \in Ledger
  BY <1>1, DeriveType
<1>3. Bindings(new) \subseteq Entry
  BY <1>2, BindingsType
<1>4. QED
  BY <1>1, <1>2, <1>3 DEF PutLedger, TypeOK

\* The records the calls write are states.
LEMMA DraftedType ==
  ASSUME NEW b \in Body
  PROVE  Drafted(b) \in State /\ Shape(Drafted(b))
BY NoFileAssumption DEF Drafted, State, Status, File, Shape

LEMMA RepairedType ==
  ASSUME TypeOK, NEW w \in Worker
  PROVE  Repaired(w) \in State /\ Repaired(w).draft \in File
<1>1. op[w].prior \in State /\ op[w].bytes \in File /\ op[w].rev \in File
  BY DEF TypeOK, Op
<1>2. QED
  BY <1>1 DEF Repaired, State

-----------------------------------------------------------------------------
\* The empty working tree satisfies the inductive invariant.
LEMMA InitInv == Init => Inv
<1> SUFFICES ASSUME Init PROVE Inv
  OBVIOUS
<1>1. Idle \in Op /\ NoState \in State /\ Idle.at = "idle" /\ Idle.prior = NoState /\ Idle.led = NoLedger
  BY DEF Idle, Op, Step, File, NoState, State, Status
<1>2. Shape(NoState)
  BY DEF Shape, NoState
<1>3. TypeOK
  BY <1>1 DEF Init, TypeOK, File, WithBytes
<1>4. StateShape /\ CopiesInv /\ VettedInv
  BY <1>1, <1>2 DEF Init, StateShape, CopiesInv, VettedInv, NoState, At
<1>5. LedgersInv /\ IdNeverRebound
  BY <1>1, NoLedgerFacts DEF Init, LedgersInv, IdNeverRebound
<1>6. QED
  BY <1>3, <1>4, <1>5 DEF Inv

\* Every step keeps the types.
LEMMA StepType == TypeOK /\ [Next]_vars => TypeOK'
<1> SUFFICES ASSUME TypeOK, [Next]_vars PROVE TypeOK'
  OBVIOUS
<1> USE DEF At, WithBytes, files, review, history
<1>0. \A w \in Worker : op[w].at \in WithBytes => op[w].bytes \in Body
  BY DEF TypeOK
<1>1. ASSUME NEW w \in Worker, BeginDraft(w) PROVE TypeOK'
  <2>1. "draft" \in Step /\ body \in Body
    BY <1>1, ValidAssumption DEF BeginDraft, Step
  <2>2. QED
    BY <1>1, <2>1, StartType DEF BeginDraft, TypeOK, files
<1>2. ASSUME NEW w \in Worker, BeginReview(w) PROVE TypeOK'
  <2>1. "review" \in Step /\ "review" \notin WithBytes
    BY DEF Step
  <2>2. QED
    BY <1>2, <2>1, StartType DEF BeginReview, TypeOK, files
<1>3. ASSUME NEW w \in Worker, BeginApproval(w) PROVE TypeOK'
  <2>1. "approval" \in Step /\ "approval" \notin WithBytes
    BY DEF Step
  <2>2. QED
    BY <1>3, <2>1, StartType DEF BeginApproval, TypeOK, files
<1>4. ASSUME NEW w \in Worker, BeginRepair(w) PROVE TypeOK'
  <2>1. "repairLedger" \in Step /\ "repairLedger" \notin WithBytes
    BY DEF Step
  <2>2. QED
    BY <1>4, <2>1, StartType DEF BeginRepair, TypeOK
<1>5. ASSUME NEW w \in Worker, BeginMarkDrafted(w) PROVE TypeOK'
  <2>1. "resync" \in Step /\ body \in Body
    BY <1>5 DEF BeginMarkDrafted, Step, TypeOK, File
  <2>2. QED
    BY <1>5, <2>1, StartType DEF BeginMarkDrafted, TypeOK, files
<1>6. ASSUME NEW w \in Worker, BeginEdit(w) PROVE TypeOK'
  <2>1. PICK b2 \in Body : op' = [op EXCEPT ![w] = [Idle EXCEPT !.at = "body", !.bytes = b2]]
    BY <1>6 DEF BeginEdit
  <2>2. /\ [Idle EXCEPT !.at = "body", !.bytes = b2] \in Op
        /\ [Idle EXCEPT !.at = "body", !.bytes = b2].bytes = b2
    BY DEF Idle, Op, Step, File, NoState, State, Status
  <2>3. op' \in [Worker -> Op] /\ \A v \in Worker : op'[v].at \in WithBytes => op'[v].bytes \in Body
    BY <1>0, <2>1, <2>2 DEF TypeOK
  <2>4. QED
    BY <1>6, <2>3 DEF BeginEdit, TypeOK, files
<1>7. ASSUME NEW w \in Worker, WriteDraftState(w) PROVE TypeOK'
  BY <1>7, <1>0, GotoLedgerType, DraftedType DEF WriteDraftState, TypeOK
<1>8. ASSUME NEW w \in Worker, WriteLedger(w) PROVE TypeOK'
  <2>1. PICK b, led : b = op[w].bytes /\ led = op[w].led
    OBVIOUS
  <2>2. b \in Body /\ led \in Ledger \cup {NoLedger} /\ PutLedger(b, led)
    BY <1>8, <1>0, <2>1 DEF WriteLedger, TypeOK, Op
  <2>3. ledger' \in Ledger /\ mints' \in Nat /\ bound' \in SUBSET Entry
    BY <2>2, PutLedgerType
  <2>4. QED
    BY <1>8, <2>3, ReturnType DEF WriteLedger, TypeOK
<1>9. ASSUME NEW w \in Worker, WriteReviewState(w) PROVE TypeOK'
  <2>1. op[w].prior \in State /\ op[w].rev \in File
    BY DEF TypeOK, Op
  <2>2. state' \in State
    BY <1>9, <2>1 DEF WriteReviewState, State, Status
  <2>3. vetted' \in SUBSET File
    BY <1>9, <2>1 DEF WriteReviewState, State, TypeOK
  <2>4. QED
    BY <1>9, <2>2, <2>3, ReturnType DEF WriteReviewState, TypeOK
<1>10. ASSUME NEW w \in Worker, WriteApprovalState(w) PROVE TypeOK'
  <2>1. op[w].prior \in State
    BY DEF TypeOK, Op
  <2>2. state' \in State
    BY <1>10, <2>1 DEF WriteApprovalState, State, Status
  <2>3. QED
    BY <1>10, <2>2, ReturnType DEF WriteApprovalState, TypeOK
<1>11. ASSUME NEW w \in Worker, RepairLedger(w) PROVE TypeOK'
  <2>1. "repairState" \in Step /\ "repairState" \notin WithBytes
    BY DEF Step
  <2>2. QED
    <3>1. CASE body = NoFile
      BY <1>11, <2>1, <3>1, GotoType DEF RepairLedger, TypeOK
    <3>2. CASE body # NoFile
      <4>1. PICK b, led : b = body /\ led = ledger
        OBVIOUS
      <4>2. b \in Body /\ led \in Ledger \cup {NoLedger} /\ PutLedger(b, led)
        BY <1>11, <3>2, <4>1 DEF RepairLedger, TypeOK, File
      <4>3. ledger' \in Ledger /\ mints' \in Nat /\ bound' \in SUBSET Entry
        BY <4>2, PutLedgerType
      <4>4. QED
        BY <1>11, <2>1, <4>3, GotoType DEF RepairLedger, TypeOK
    <3>3. QED
      BY <3>1, <3>2
<1>12. ASSUME NEW w \in Worker, RepairState(w) PROVE TypeOK'
  <2>1. state' \in State /\ vetted' \in SUBSET File
    BY <1>12, RepairedType DEF RepairState, TypeOK
  <2>2. QED
    BY <1>12, <2>1, ReturnType DEF RepairState, TypeOK
<1>13. ASSUME NEW w \in Worker, WriteBody(w) PROVE TypeOK'
  <2>1. "resync" \in Step
    BY DEF Step
  <2>2. QED
    BY <1>13, <1>0, <2>1, GotoType DEF WriteBody, TypeOK, File
<1>14. ASSUME NEW w \in Worker, Resync(w) PROVE TypeOK'
  BY <1>14, <1>0, GotoLedgerType, DraftedType DEF Resync, TypeOK
<1>15. ASSUME NEW w \in Worker, Crash(w) PROVE TypeOK'
  BY <1>15, ReturnType DEF Crash, TypeOK, files
<1>16. ASSUME NEW b \in File, HandEdit(b) PROVE TypeOK'
  BY <1>16 DEF HandEdit, TypeOK, File
<1>17. CASE FetchReviewContext
  BY <1>17 DEF FetchReviewContext, TypeOK, files
<1>18. CASE ComposeReview
  BY <1>18 DEF ComposeReview, TypeOK, File
<1>19. CASE CommitTree \/ UNCHANGED vars
  <2>1. CASE CommitTree
    BY <2>1 DEF CommitTree, TypeOK, files, history, File
  <2>2. CASE UNCHANGED vars
    BY <2>2 DEF vars, files, review, history, TypeOK
  <2>3. QED
    BY <1>19, <2>1, <2>2
<1>20. QED
  BY <1>1, <1>2, <1>3, <1>4, <1>5, <1>6, <1>7, <1>8, <1>9, <1>10, <1>11, <1>12, <1>13,
     <1>14, <1>15, <1>16, <1>17, <1>18, <1>19 DEF Next, Begin, Continue

\* Every variable keeps its type, and a call that derives from body bytes
\* holds a text that existed (siege/cli.py: the existence checks).
THEOREM TypeCorrect == Spec => []TypeOK
<1>1. Init => TypeOK
  BY InitInv DEF Inv
<1>2. QED
  BY <1>1, StepType, PTL DEF Spec

-----------------------------------------------------------------------------
(* The shape of the state file *)

\* What CopiesInv says of one call.
CopyOK(o) ==
  /\ Shape(o.prior)
  /\ o.at = "review" => o.prior.status = "drafted" /\ o.rev # NoFile
  /\ o.at = "approval" => o.prior.status = "reviewed"
  /\ o.at \in {"repairLedger", "repairState"} => o.prior.status # "absent"

LEMMA CopiesAreOK == CopiesInv <=> \A w \in Worker : CopyOK(op[w])
BY DEF CopiesInv, CopyOK, At

\* A call that returns has nothing in hand.
LEMMA IdleCopy == CopyOK(Idle)
BY DEF CopyOK, Idle, Shape, NoState

\* A state file that is there claims a status.
LEMMA PresentStatus ==
  ASSUME TypeOK, StateShape, state # NoState
  PROVE  state.status # "absent"
<1>1. state \in State
  BY DEF TypeOK
<1>2. QED
  BY <1>1 DEF StateShape, Shape, State, NoState

\* A call that starts takes a copy its next steps may rely on.
LEMMA StartCopy ==
  ASSUME TypeOK, StateShape, CopiesInv, NEW w \in Worker, NEW step \in Step, Start(w, step),
         step = "review" => state.status = "drafted" /\ reviewFile # NoFile,
         step = "approval" => state.status = "reviewed",
         step \in {"repairLedger", "repairState"} => state.status # "absent"
  PROVE  CopiesInv'
<1>1. CopyOK(op'[w])
  BY DEF Start, TypeOK, CopyOK, StateShape
<1>2. \A v \in Worker : v # w => op'[v] = op[v]
  BY DEF Start, TypeOK
<1>3. \A v \in Worker : CopyOK(op'[v])
  BY <1>1, <1>2, CopiesAreOK
<1>4. QED
  BY <1>3 DEF CopiesInv, CopyOK, At

\* A call that goes on, or ends, disturbs no copy.
LEMMA KeepCopies ==
  ASSUME TypeOK, CopiesInv, NEW w \in Worker,
         \/ Return(w)
         \/ Goto(w, "repairState") /\ At(w, "repairLedger")
         \/ Goto(w, "resync")
         \/ GotoLedger(w)
         \/ UNCHANGED op
  PROVE  CopiesInv'
<1>1. CopyOK(op[w])
  BY CopiesAreOK
<1>2. CopyOK(op'[w])
  <2>1. op[w] \in Op
    BY DEF TypeOK
  <2>2. CASE Return(w)
    BY <2>2, IdleCopy DEF Return, TypeOK
  <2>3. CASE Goto(w, "repairState") /\ At(w, "repairLedger")
    BY <1>1, <2>1, <2>3 DEF Goto, At, CopyOK, TypeOK, Op
  <2>4. CASE Goto(w, "resync")
    BY <1>1, <2>1, <2>4 DEF Goto, CopyOK, TypeOK, Op
  <2>5. CASE GotoLedger(w)
    BY <1>1, <2>1, <2>5 DEF GotoLedger, CopyOK, TypeOK, Op
  <2>6. CASE UNCHANGED op
    BY <1>1, <2>6
  <2>7. QED
    BY <2>2, <2>3, <2>4, <2>5, <2>6
<1>3. \A v \in Worker : v # w => op'[v] = op[v]
  BY DEF Return, Goto, GotoLedger, TypeOK
<1>4. \A v \in Worker : CopyOK(op'[v])
  BY <1>2, <1>3, CopiesAreOK
<1>5. QED
  BY <1>4 DEF CopiesInv, CopyOK, At

\* Every step keeps the state file, and the copies, well-shaped.
LEMMA StepShape ==
  TypeOK /\ StateShape /\ CopiesInv /\ [Next]_vars => StateShape' /\ CopiesInv'
<1> SUFFICES ASSUME TypeOK, StateShape, CopiesInv, [Next]_vars
             PROVE  StateShape' /\ CopiesInv'
  OBVIOUS
<1> DEFINE Goal == StateShape' /\ CopiesInv'
<1>0. /\ \A w \in Worker : At(w, "draft") \/ At(w, "resync") => op[w].bytes \in Body
      /\ \A w \in Worker : op[w].prior \in State /\ CopyOK(op[w])
  BY CopiesAreOK DEF TypeOK, Op, At, WithBytes
<1>00. ASSUME UNCHANGED state PROVE StateShape'
  BY <1>00 DEF StateShape
<1>1. ASSUME NEW w \in Worker, BeginDraft(w) PROVE Goal
  BY <1>1, <1>00, StartCopy DEF BeginDraft, files, Step
<1>2. ASSUME NEW w \in Worker, BeginReview(w) PROVE Goal
  BY <1>2, <1>00, StartCopy DEF BeginReview, files, Step
<1>3. ASSUME NEW w \in Worker, BeginApproval(w) PROVE Goal
  BY <1>3, <1>00, StartCopy DEF BeginApproval, files, Step
<1>4. ASSUME NEW w \in Worker, BeginRepair(w) PROVE Goal
  <2>1. state.status # "absent"
    BY <1>4, PresentStatus DEF BeginRepair
  <2>2. QED
    BY <1>4, <2>1, <1>00, StartCopy DEF BeginRepair, files, Step
<1>5. ASSUME NEW w \in Worker, BeginMarkDrafted(w) PROVE Goal
  BY <1>5, <1>00, StartCopy DEF BeginMarkDrafted, files, Step
<1>6. ASSUME NEW w \in Worker, BeginEdit(w) PROVE Goal
  <2>1. PICK b2 \in Body : op' = [op EXCEPT ![w] = [Idle EXCEPT !.at = "body", !.bytes = b2]]
    BY <1>6 DEF BeginEdit
  <2>2. CopyOK([Idle EXCEPT !.at = "body", !.bytes = b2])
    BY IdleCopy DEF CopyOK, Idle
  <2>3. \A v \in Worker : CopyOK(op'[v])
    BY <1>0, <2>1, <2>2 DEF TypeOK
  <2>4. CopiesInv'
    BY <2>3 DEF CopiesInv, CopyOK, At
  <2>5. QED
    BY <1>6, <1>00, <2>4 DEF BeginEdit, files
<1>7. ASSUME NEW w \in Worker, WriteDraftState(w) PROVE Goal
  BY <1>7, <1>0, DraftedType, KeepCopies DEF WriteDraftState, StateShape
<1>8. ASSUME NEW w \in Worker, WriteLedger(w) PROVE Goal
  BY <1>8, <1>00, KeepCopies DEF WriteLedger
<1>9. ASSUME NEW w \in Worker, WriteReviewState(w) PROVE Goal
  <2>1. StateShape'
    BY <1>9, <1>0 DEF WriteReviewState, StateShape, Shape, CopyOK, At, State
  <2>2. QED
    BY <1>9, <2>1, KeepCopies DEF WriteReviewState
<1>10. ASSUME NEW w \in Worker, WriteApprovalState(w) PROVE Goal
  <2>1. StateShape'
    BY <1>10, <1>0 DEF WriteApprovalState, StateShape, Shape, CopyOK, At, State
  <2>2. QED
    BY <1>10, <2>1, KeepCopies DEF WriteApprovalState
<1>11. ASSUME NEW w \in Worker, RepairLedger(w) PROVE Goal
  BY <1>11, <1>00, KeepCopies DEF RepairLedger
<1>12. ASSUME NEW w \in Worker, RepairState(w) PROVE Goal
  <2>1. Shape(Repaired(w))
    BY <1>12, <1>0 DEF RepairState, Repaired, Shape, CopyOK, At, State
  <2>2. StateShape'
    BY <1>12, <2>1 DEF RepairState, StateShape
  <2>3. QED
    BY <1>12, <2>2, KeepCopies DEF RepairState
<1>13. ASSUME NEW w \in Worker, WriteBody(w) PROVE Goal
  BY <1>13, <1>00, KeepCopies DEF WriteBody
<1>14. ASSUME NEW w \in Worker, Resync(w) PROVE Goal
  BY <1>14, <1>0, DraftedType, KeepCopies DEF Resync, StateShape
<1>15. ASSUME NEW w \in Worker, Crash(w) PROVE Goal
  BY <1>15, <1>00, KeepCopies DEF Crash, files
<1>16. ASSUME UNCHANGED <<op, state>> PROVE Goal
  BY <1>16, <1>00 DEF CopiesInv, At
<1>17. QED
  BY <1>1, <1>2, <1>3, <1>4, <1>5, <1>6, <1>7, <1>8, <1>9, <1>10, <1>11, <1>12, <1>13,
     <1>14, <1>15, <1>16
  DEF Next, Begin, Continue, HandEdit, CommitTree, FetchReviewContext, ComposeReview, vars, files

\* The state file never claims a status its blocks do not back, whatever
\* calls run together on stale copies (siege/cli.py: the four writers).
THEOREM ShapeKept == Spec => []StateShape
<1> DEFINE I == TypeOK /\ StateShape /\ CopiesInv
<1>1. Init => I
  BY InitInv DEF Inv
<1>2. I /\ [Next]_vars => I'
  BY StepType, StepShape
<1>3. Spec => []I
  BY <1>1, <1>2, PTL DEF Spec
<1>4. QED
  BY <1>3, PTL

-----------------------------------------------------------------------------
(* The ledger *)

\* What LedgersInv says of one ledger.
LedgerOK(led) == UniqueIds(led) /\ Bindings(led) \subseteq bound

\* A ledger write keeps ids unique and never names a second handle by one.
LEMMA PutLedgerKeeps ==
  ASSUME TypeOK, LedgersInv, IdNeverRebound,
         NEW b \in Body, NEW led \in Ledger \cup {NoLedger}, PutLedger(b, led),
         UniqueIds(led), Bindings(led) \subseteq bound
  PROVE  /\ UniqueIds(ledger') /\ Bindings(ledger') \subseteq bound'
         /\ bound \subseteq bound'
         /\ \A e \in bound' : e.id[1] < mints'
         /\ IdNeverRebound'
<1> DEFINE new == Derive(b, led, mints)
           fresh == \E i \in DOMAIN new.nodes : new.nodes[i].id[1] = mints
<1>1. mints \in Nat /\ bound \subseteq Entry
  BY DEF TypeOK
<1>2. /\ UniqueIds(led) /\ Bindings(led) \subseteq bound
      /\ \A e \in bound : e.id[1] < mints
  BY DEF LedgersInv
<1>3. /\ ledger' = new
      /\ mints' = IF fresh THEN mints + 1 ELSE mints
      /\ bound' = bound \cup Bindings(new)
  BY DEF PutLedger
<1>4. \A e \in Bindings(new) : e \in bound \/ e.id[1] = mints
  BY <1>1, <1>2, DeriveBindings
<1>5. UniqueIds(new)
  BY <1>1, <1>2, DeriveUnique
<1>6. \A e, f \in Bindings(new) : e.id = f.id /\ e.id[1] = mints => e.handle = f.handle
  <2>1. \A e \in Bindings(led) : e.id[1] < mints
    BY <1>2
  <2>2. QED
    BY <1>1, <2>1, FreshIdsNameOneHandle
<1>7. (\E e \in Bindings(new) : e.id[1] = mints) => fresh
  BY DEF Bindings
<1> HIDE DEF new, fresh
<1>8. \A e \in bound' : e.id[1] < mints'
  <2>1. \A e \in bound : e.id[1] \in Nat
    BY <1>1 DEF Entry, Id
  <2>2. QED
    BY <1>1, <1>2, <1>3, <1>4, <1>7, <2>1
<1>9. IdNeverRebound'
  <2> SUFFICES ASSUME NEW e \in bound', NEW f \in bound', e.id = f.id
               PROVE  e.handle = f.handle
    BY DEF IdNeverRebound
  <2>1. \A g \in bound : g.id[1] # mints
    BY <1>1, <1>2 DEF Entry, Id
  <2>2. CASE e \in bound
    <3>1. f \in bound
      BY <1>3, <1>4, <2>1, <2>2
    <3>2. QED
      BY <2>2, <3>1 DEF IdNeverRebound
  <2>3. CASE e \notin bound
    <3>1. e \in Bindings(new) /\ e.id[1] = mints
      BY <1>3, <1>4, <2>3
    <3>2. f \in Bindings(new)
      BY <1>3, <2>1, <3>1
    <3>3. QED
      BY <1>6, <3>1, <3>2
  <2>4. QED
    BY <2>2, <2>3
<1>10. QED
  BY <1>3, <1>5, <1>8, <1>9

\* A step that leaves the ledger file alone hands a call no ledger but the
\* one on disk, the empty one, or the one it already has.
LEMMA LedgerCopies ==
  ASSUME TypeOK, LedgersInv, IdNeverRebound, UNCHANGED <<ledger, mints, bound>>,
         \A v \in Worker : op'[v].led \in {op[v].led, ledger, NoLedger}
  PROVE  LedgersInv' /\ IdNeverRebound'
<1>1. \A v \in Worker : LedgerOK(op'[v].led)
  BY NoLedgerFacts DEF LedgersInv, LedgerOK
<1>2. QED
  BY <1>1 DEF LedgersInv, IdNeverRebound, LedgerOK

\* A ledger write leaves the copies of the other calls alone.
LEMMA LedgerWritten ==
  ASSUME TypeOK, LedgersInv, IdNeverRebound,
         NEW b \in Body, NEW led \in Ledger \cup {NoLedger}, PutLedger(b, led),
         UniqueIds(led), Bindings(led) \subseteq bound,
         \A v \in Worker : op'[v].led \in {op[v].led, NoLedger}
  PROVE  LedgersInv' /\ IdNeverRebound'
<1>1. /\ UniqueIds(ledger') /\ Bindings(ledger') \subseteq bound'
      /\ bound \subseteq bound'
      /\ \A e \in bound' : e.id[1] < mints'
      /\ IdNeverRebound'
  BY PutLedgerKeeps
<1>2. \A v \in Worker : UniqueIds(op'[v].led) /\ Bindings(op'[v].led) \subseteq bound'
  BY <1>1, NoLedgerFacts DEF LedgersInv
<1>3. QED
  BY <1>1, <1>2 DEF LedgersInv

\* Every step keeps ids unique and their handles theirs.
LEMMA StepLedgers ==
  TypeOK /\ LedgersInv /\ IdNeverRebound /\ [Next]_vars => LedgersInv' /\ IdNeverRebound'
<1> SUFFICES ASSUME TypeOK, LedgersInv, IdNeverRebound, [Next]_vars
             PROVE  LedgersInv' /\ IdNeverRebound'
  OBVIOUS
<1> USE DEF history
<1> DEFINE Goal == LedgersInv' /\ IdNeverRebound'
           Kept == \A v \in Worker : op'[v].led \in {op[v].led, ledger, NoLedger}
<1>1. ASSUME NEW w \in Worker, NEW step, Start(w, step) PROVE Kept
  BY <1>1 DEF Start, TypeOK
<1>2. ASSUME NEW w \in Worker, NEW step, Goto(w, step) PROVE \A v \in Worker : op'[v].led = op[v].led
  BY <1>2 DEF Goto, TypeOK, Op
<1>3. ASSUME NEW w \in Worker, GotoLedger(w) PROVE Kept
  BY <1>3 DEF GotoLedger, TypeOK, Op
<1>4. ASSUME NEW w \in Worker, Return(w)
      PROVE  \A v \in Worker : op'[v].led \in {op[v].led, NoLedger}
  <2>1. Idle.led = NoLedger
    BY DEF Idle
  <2>2. QED
    BY <1>4, <2>1 DEF Return, TypeOK
<1>5. ASSUME NEW w \in Worker, Begin(w) PROVE Goal
  <2>1. CASE BeginEdit(w)
    <3>1. PICK b2 \in Body : op' = [op EXCEPT ![w] = [Idle EXCEPT !.at = "body", !.bytes = b2]]
      BY <2>1 DEF BeginEdit
    <3>2. [Idle EXCEPT !.at = "body", !.bytes = b2].led = NoLedger
      BY DEF Idle
    <3>3. Kept
      BY <3>1, <3>2 DEF TypeOK
    <3>4. QED
      BY <2>1, <3>3, LedgerCopies DEF BeginEdit, files
  <2>2. CASE BeginDraft(w) \/ BeginReview(w) \/ BeginApproval(w) \/ BeginRepair(w) \/ BeginMarkDrafted(w)
    <3>1. UNCHANGED <<ledger, mints, bound>> /\ \E step : Start(w, step)
      BY <2>2 DEF BeginDraft, BeginReview, BeginApproval, BeginRepair, BeginMarkDrafted, files
    <3>2. QED
      BY <1>1, <3>1, LedgerCopies
  <2>3. QED
    BY <1>5, <2>1, <2>2 DEF Begin
<1>6. ASSUME NEW w \in Worker, WriteLedger(w) \/ RepairLedger(w) PROVE Goal
  <2>1. \A v \in Worker : op'[v].led \in {op[v].led, NoLedger}
    BY <1>2, <1>4, <1>6 DEF WriteLedger, RepairLedger
  <2>2. CASE WriteLedger(w)
    <3>1. PICK b, led : b = op[w].bytes /\ led = op[w].led
      OBVIOUS
    <3>2. /\ b \in Body /\ led \in Ledger \cup {NoLedger} /\ PutLedger(b, led)
          /\ UniqueIds(led) /\ Bindings(led) \subseteq bound
      BY <2>2, <3>1 DEF WriteLedger, TypeOK, Op, At, WithBytes, LedgersInv
    <3>3. QED
      BY <2>1, <3>2, LedgerWritten
  <2>3. CASE RepairLedger(w) /\ body # NoFile
    <3>1. PICK b, led : b = body /\ led = ledger
      OBVIOUS
    <3>2. /\ b \in Body /\ led \in Ledger \cup {NoLedger} /\ PutLedger(b, led)
          /\ UniqueIds(led) /\ Bindings(led) \subseteq bound
      BY <2>3, <3>1 DEF RepairLedger, TypeOK, File, LedgersInv
    <3>3. QED
      BY <2>1, <3>2, LedgerWritten
  <2>4. CASE RepairLedger(w) /\ body = NoFile
    <3>1. UNCHANGED <<ledger, mints, bound>>
      BY <2>4 DEF RepairLedger
    <3>2. QED
      BY <2>1, <3>1, LedgerCopies
  <2>5. QED
    BY <1>6, <2>2, <2>3, <2>4
<1>7. ASSUME NEW w \in Worker, WriteDraftState(w) \/ Resync(w) PROVE Goal
  BY <1>3, <1>7, LedgerCopies DEF WriteDraftState, Resync
<1>8. ASSUME NEW w \in Worker, WriteReviewState(w) \/ WriteApprovalState(w) \/ RepairState(w) \/ Crash(w)
      PROVE  Goal
  <2>1. UNCHANGED <<ledger, mints, bound>> /\ Return(w)
    BY <1>8 DEF WriteReviewState, WriteApprovalState, RepairState, Crash, files
  <2>2. QED
    BY <1>4, <2>1, LedgerCopies
<1>9. ASSUME NEW w \in Worker, WriteBody(w) PROVE Goal
  BY <1>2, <1>9, LedgerCopies DEF WriteBody
<1>10. ASSUME UNCHANGED <<op, ledger, mints, bound>> PROVE Goal
  BY <1>10, LedgerCopies
<1>11. QED
  BY <1>5, <1>6, <1>7, <1>8, <1>9, <1>10
  DEF Next, Continue, HandEdit, CommitTree, FetchReviewContext, ComposeReview, vars, files

-----------------------------------------------------------------------------
(* Verdicts *)

\* A step that changes neither the state file nor what was vetted, and hands
\* a call no copy but the state on disk or none.
LEMMA VettedStays ==
  ASSUME VettedInv, UNCHANGED <<state, vetted>>,
         \A v \in Worker : op'[v].prior \in {op[v].prior, state, NoState}
  PROVE  VettedInv'
<1>1. NoState.status \notin {"reviewed", "approved"}
  BY DEF NoState
<1>2. QED
  BY <1>1 DEF VettedInv

\* A call that ends leaves the other copies alone and keeps none.
LEMMA ReturnPriors ==
  ASSUME TypeOK, NEW w \in Worker, Return(w)
  PROVE  \A v \in Worker : op'[v].prior \in {op[v].prior, NoState}
<1>1. Idle.prior = NoState
  BY DEF Idle
<1>2. QED
  BY <1>1 DEF Return, TypeOK

\* Every step keeps records with a verdict to vetted texts: approval and
\* repair write from copies that had it.
LEMMA StepVetted ==
  TypeOK /\ CopiesInv /\ VettedInv /\ [Next]_vars => VettedInv'
<1> SUFFICES ASSUME TypeOK, CopiesInv, VettedInv, [Next]_vars PROVE VettedInv'
  OBVIOUS
<1> USE DEF history, files
<1>0. /\ \A w \in Worker : op[w].prior \in State
      /\ NoState.status \notin {"reviewed", "approved"}
  BY DEF TypeOK, Op, NoState
<1>1. ASSUME NEW w \in Worker, Begin(w) PROVE VettedInv'
  <2>1. CASE BeginEdit(w)
    <3>1. PICK b2 \in Body : op' = [op EXCEPT ![w] = [Idle EXCEPT !.at = "body", !.bytes = b2]]
      BY <2>1 DEF BeginEdit
    <3>2. [Idle EXCEPT !.at = "body", !.bytes = b2].prior = NoState
      BY DEF Idle
    <3>3. \A v \in Worker : op'[v].prior \in {op[v].prior, state, NoState}
      BY <3>1, <3>2 DEF TypeOK
    <3>4. QED
      BY <2>1, <3>3, VettedStays DEF BeginEdit
  <2>2. CASE BeginDraft(w) \/ BeginReview(w) \/ BeginApproval(w) \/ BeginRepair(w) \/ BeginMarkDrafted(w)
    <3>1. UNCHANGED <<state, vetted>> /\ \E step : Start(w, step)
      BY <2>2 DEF BeginDraft, BeginReview, BeginApproval, BeginRepair, BeginMarkDrafted
    <3>2. \A v \in Worker : op'[v].prior \in {op[v].prior, state, NoState}
      BY <3>1 DEF Start, TypeOK
    <3>3. QED
      BY <3>1, <3>2, VettedStays
  <2>3. QED
    BY <1>1, <2>1, <2>2 DEF Begin
<1>2. ASSUME NEW w \in Worker, WriteDraftState(w) \/ Resync(w) PROVE VettedInv'
  <2>1. \A v \in Worker : op'[v].prior = op[v].prior
    BY <1>2 DEF WriteDraftState, Resync, GotoLedger, TypeOK, Op
  <2>2. state'.status = "drafted" /\ vetted' = vetted
    BY <1>2 DEF WriteDraftState, Resync, Drafted
  <2>3. QED
    BY <2>1, <2>2 DEF VettedInv
<1>3. ASSUME NEW w \in Worker, WriteReviewState(w) PROVE VettedInv'
  <2>1. /\ state'.draft = op[w].prior.draft /\ vetted' = vetted \cup {op[w].prior.draft}
        /\ Return(w)
    BY <1>0, <1>3 DEF WriteReviewState, State
  <2>2. QED
    BY <1>0, <2>1, ReturnPriors DEF VettedInv
<1>4. ASSUME NEW w \in Worker, WriteApprovalState(w) PROVE VettedInv'
  <2>1. /\ state'.draft = op[w].prior.draft /\ vetted' = vetted /\ Return(w)
        /\ op[w].prior.status = "reviewed"
    BY <1>0, <1>4 DEF WriteApprovalState, State, CopiesInv
  <2>2. QED
    BY <1>0, <2>1, ReturnPriors DEF VettedInv
<1>5. ASSUME NEW w \in Worker, RepairState(w) PROVE VettedInv'
  <2>1. PICK r : r = Repaired(w)
    OBVIOUS
  <2>2. /\ r.status = op[w].prior.status /\ Return(w)
        /\ state' = IF r # op[w].prior THEN r ELSE state
        /\ vetted' = IF op[w].prior.status = "drafted" THEN vetted ELSE vetted \cup {r.draft}
    BY <1>0, <1>5, <2>1 DEF RepairState, Repaired, State
  <2>3. QED
    BY <1>0, <2>2, ReturnPriors DEF VettedInv
<1>6. ASSUME NEW w \in Worker, WriteLedger(w) \/ Crash(w) PROVE VettedInv'
  BY <1>6, ReturnPriors, VettedStays DEF WriteLedger, Crash
<1>7. ASSUME NEW w \in Worker, RepairLedger(w) \/ WriteBody(w) PROVE VettedInv'
  <2>1. \A v \in Worker : op'[v].prior = op[v].prior
    BY <1>7 DEF RepairLedger, WriteBody, Goto, TypeOK, Op
  <2>2. QED
    BY <1>7, <2>1, VettedStays DEF RepairLedger, WriteBody
<1>8. ASSUME UNCHANGED <<op, state, vetted>> PROVE VettedInv'
  BY <1>8 DEF VettedInv
<1>9. QED
  BY <1>1, <1>2, <1>3, <1>4, <1>5, <1>6, <1>7, <1>8
  DEF Next, Continue, HandEdit, CommitTree, FetchReviewContext, ComposeReview, vars

-----------------------------------------------------------------------------
\* The inductive invariant: what the files and the copies satisfy together.
THEOREM Invariance == Spec => []Inv
<1>1. Init => Inv
  BY InitInv
<1>2. Inv /\ [Next]_vars => Inv'
  BY StepType, StepShape, StepVetted, StepLedgers DEF Inv
<1>3. QED
  BY <1>1, <1>2, PTL DEF Spec

\* No ledger file ever holds one id twice (siege/manifest.py, the `used`
\* set), however many calls derive from however old copies.
THEOREM IdsUnique == Spec => []LedgerIdsUnique
<1>1. Inv => LedgerIdsUnique
  BY DEF Inv, LedgersInv, LedgerIdsUnique
<1>2. QED
  BY <1>1, Invariance, PTL

\* Over a whole history no id ever names two handles (siege/manifest.py, the
\* carry forward), removals, re-additions, races and crashes included.
THEOREM IdsNeverRebound == Spec => []IdNeverRebound
<1>1. Inv => IdNeverRebound
  BY DEF Inv
<1>2. QED
  BY <1>1, Invariance, PTL

\* No text is approved that no verdict was recorded on, however many calls
\* write from however old copies (siege/cli.py: the status guards).
THEOREM ApprovedWasVettedHolds == Spec => []ApprovedWasVetted
<1>1. Inv => ApprovedWasVetted
  BY DEF Inv, VettedInv, ApprovedWasVetted
<1>2. QED
  BY <1>1, Invariance, PTL

-----------------------------------------------------------------------------
(* One call at a time: what holds when the operator runs the CLI serially. *)

OneWriter == \A v, w \in Worker : v = w

\* The copies a lone call works from are still what the files hold.
CopiesFresh ==
  \A w \in Worker :
    /\ op[w].at \in {"review", "approval", "repairLedger", "repairState"} => op[w].prior = state
    /\ At(w, "ledger") => op[w].led = ledger

\* A lone call's copies stay current until it writes.
LEMMA StepFresh ==
  ASSUME OneWriter, TypeOK, CopiesFresh, [Next]_vars
  PROVE  CopiesFresh'
<1> USE DEF OneWriter, At
<1>1. ASSUME NEW w \in Worker, NEW step, Start(w, step), UNCHANGED <<state, ledger>>
      PROVE  CopiesFresh'
  BY <1>1 DEF Start, TypeOK, CopiesFresh
<1>2. ASSUME NEW w \in Worker, Return(w) PROVE CopiesFresh'
  <2>1. op'[w] = Idle
    BY <1>2 DEF Return, TypeOK
  <2>2. QED
    BY <2>1 DEF CopiesFresh, Idle
<1>3. ASSUME NEW w \in Worker, GotoLedger(w), UNCHANGED ledger PROVE CopiesFresh'
  BY <1>3 DEF GotoLedger, TypeOK, Op, CopiesFresh
<1>4. ASSUME NEW w \in Worker, Begin(w) PROVE CopiesFresh'
  <2>1. CASE BeginEdit(w)
    <3>1. PICK b2 \in Body : op' = [op EXCEPT ![w] = [Idle EXCEPT !.at = "body", !.bytes = b2]]
      BY <2>1 DEF BeginEdit
    <3>2. [Idle EXCEPT !.at = "body", !.bytes = b2].at = "body"
      BY DEF Idle
    <3>3. QED
      BY <3>1, <3>2 DEF CopiesFresh, TypeOK
  <2>2. CASE BeginDraft(w) \/ BeginReview(w) \/ BeginApproval(w) \/ BeginRepair(w) \/ BeginMarkDrafted(w)
    BY <1>1, <2>2 DEF BeginDraft, BeginReview, BeginApproval, BeginRepair, BeginMarkDrafted, files
  <2>3. QED
    BY <1>4, <2>1, <2>2 DEF Begin
<1>5. ASSUME NEW w \in Worker, Continue(w) \/ Crash(w) PROVE CopiesFresh'
  <2>1. CASE WriteDraftState(w) \/ Resync(w)
    BY <1>3, <2>1 DEF WriteDraftState, Resync
  <2>2. CASE WriteLedger(w) \/ WriteReviewState(w) \/ WriteApprovalState(w) \/ RepairState(w) \/ Crash(w)
    BY <1>2, <2>2 DEF WriteLedger, WriteReviewState, WriteApprovalState, RepairState, Crash
  <2>3. CASE RepairLedger(w)
    BY <2>3 DEF RepairLedger, Goto, TypeOK, Op, CopiesFresh
  <2>4. CASE WriteBody(w)
    BY <2>4 DEF WriteBody, Goto, TypeOK, Op, CopiesFresh
  <2>5. QED
    BY <1>5, <2>1, <2>2, <2>3, <2>4 DEF Continue
<1>6. ASSUME UNCHANGED <<op, state, ledger>> PROVE CopiesFresh'
  BY <1>6 DEF CopiesFresh
<1>7. QED
  BY <1>4, <1>5, <1>6
  DEF Next, HandEdit, CommitTree, FetchReviewContext, ComposeReview, vars, files

\* The invariant of serial use.
SerialInv == Inv /\ CopiesFresh

LEMMA SerialInvariance ==
  ASSUME OneWriter
  PROVE  Spec => []SerialInv
<1>1. Init => SerialInv
  BY InitInv DEF SerialInv, CopiesFresh, Init, Idle, At
<1>2. SerialInv /\ [Next]_vars => SerialInv'
  BY StepType, StepShape, StepVetted, StepLedgers, StepFresh DEF SerialInv, Inv
<1>3. QED
  BY <1>1, <1>2, PTL DEF Spec

\* How one step of a lone call may change the state file.
LEMMA SerialStateStep ==
  ASSUME OneWriter, SerialInv, [Next]_vars
  PROVE  \/ state'.draft = state.draft
         \/ state'.status = "drafted"
         \/ \E w \in Worker : At(w, "repairState")
<1> USE DEF SerialInv, Inv, CopiesFresh, At
<1>0. \A w \in Worker : op[w].prior \in State
  BY DEF TypeOK, Op
<1>1. ASSUME NEW w \in Worker, WriteReviewState(w) \/ WriteApprovalState(w)
      PROVE  state'.draft = state.draft
  BY <1>0, <1>1 DEF WriteReviewState, WriteApprovalState, State
<1>2. ASSUME NEW w \in Worker, WriteDraftState(w) \/ Resync(w)
      PROVE  state'.status = "drafted"
  BY <1>2 DEF WriteDraftState, Resync, Drafted
<1>3. QED
  BY <1>1, <1>2
  DEF Next, Begin, Continue, Crash, HandEdit, CommitTree, FetchReviewContext, ComposeReview,
      vars, files, BeginDraft, BeginReview, BeginApproval, BeginRepair, BeginMarkDrafted,
      BeginEdit, WriteLedger, RepairLedger, RepairState, WriteBody

\* Run one at a time, only repair-drift moves the recorded text of a scope
\* that keeps its verdict.
THEOREM SerialVerdictKept ==
  ASSUME OneWriter
  PROVE  Spec => OnlyRepairMovesVerdict
<1> DEFINE A == \/ state'.draft = state.draft
                \/ state'.status = "drafted"
                \/ \E w \in Worker : At(w, "repairState")
<1>1. SerialInv /\ [Next]_vars => [A]_vars
  BY SerialStateStep
<1>2. Spec => []SerialInv
  BY SerialInvariance
<1>3. QED
  BY <1>1, <1>2, PTL DEF Spec, OnlyRepairMovesVerdict

\* Run one at a time, a handle that stays in the body keeps its id.
THEOREM SerialHandlesKeepIds ==
  ASSUME OneWriter
  PROVE  Spec => HandleKeepsId
<1> DEFINE A == \A h \in Handle : Binds(ledger, h) /\ Binds(ledger', h) =>
                  ledger'.nodes[FirstEntry(ledger', h)].id = ledger.nodes[FirstEntry(ledger, h)].id
<1>1. ASSUME SerialInv, [Next]_vars PROVE [A]_vars
  <2>1. ASSUME NEW w \in Worker, WriteLedger(w) \/ RepairLedger(w) PROVE A
    <3>0. ledger \in Ledger \cup {NoLedger} /\ mints \in Nat
      BY <1>1 DEF SerialInv, Inv, TypeOK
    <3>1. CASE UNCHANGED ledger
      BY <3>1
    <3>2. CASE ~ UNCHANGED ledger
      <4>1. PICK b \in Body : ledger' = Derive(b, ledger, mints)
        <5>1. CASE WriteLedger(w)
          BY <1>1, <5>1 DEF SerialInv, Inv, TypeOK, CopiesFresh, WriteLedger, PutLedger, At, WithBytes
        <5>2. CASE RepairLedger(w)
          BY <1>1, <3>2, <5>2 DEF SerialInv, Inv, TypeOK, File, RepairLedger, PutLedger
        <5>3. QED
          BY <2>1, <5>1, <5>2
      <4>2. QED
        BY <3>0, <4>1, DeriveCarriesForward
    <3>3. QED
      BY <3>1, <3>2
  <2>2. CASE UNCHANGED ledger
    BY <2>2
  <2>3. QED
    BY <1>1, <2>1, <2>2
    DEF Next, Begin, Continue, Crash, HandEdit, CommitTree, FetchReviewContext, ComposeReview,
        vars, files, BeginDraft, BeginReview, BeginApproval, BeginRepair, BeginMarkDrafted, BeginEdit,
        WriteDraftState, WriteReviewState, WriteApprovalState, RepairState, WriteBody, Resync
<1>2. Spec => []SerialInv
  BY SerialInvariance
<1>3. QED
  BY <1>1, <1>2, PTL DEF Spec, HandleKeepsId
=============================================================================
