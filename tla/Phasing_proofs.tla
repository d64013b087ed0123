--------------------------- MODULE Phasing_proofs ---------------------------
(* The registry, the mint and the phases built keep their promises for any *)
(* number of features, phases, components and nodes, any dependency graph, *)
(* and calls that die between any two files.                               *)
EXTENDS Phasing, PhaseLoop, PhasePlan_proofs

-----------------------------------------------------------------------------
(* What the projections read off well-typed files *)

\* The last phase a feature is in is a phase there is.
LEMMA PhaseOfType ==
  ASSUME TypeOK, NEW f \in Feature
  PROVE  PhaseOf(f) \in {phases[p].order : p \in Present} \cup {Unphased}
<1>. DEFINE os == {phases[p].order : p \in {q \in PhaseId : HasFeature(q, f)}}
<1>1. os \subseteq {phases[p].order : p \in Present}
  BY DEF HasFeature
<1>2. os \subseteq Order
  BY DEF TypeOK, Phase, HasFeature, Present
<1>3. CASE os = {}
  BY <1>3 DEF PhaseOf
<1>4. CASE os # {}
  <2>1. \E m \in os : \A n \in os : n <= m
    BY <1>2, <1>4, OrderAssumption
  <2>2. PhaseOf(f) \in os
    BY <1>4, <2>1 DEF PhaseOf
  <2>3. QED
    BY <1>1, <2>2
<1>5. QED
  BY <1>3, <1>4

\* A plan is computed from a proper input.
LEMMA InIsInput ==
  ASSUME TypeOK
  PROVE  In \in Input
<1>. DEFINE os == {phases[p].order : p \in Present}
<1>1. os \subseteq Order
  BY DEF TypeOK, Phase, Present
<1>2. \A f \in Feature : PhaseOf(f) \in os \cup {Unphased}
  BY PhaseOfType
<1>3. [f \in Feature |-> PhaseOf(f)] \in [Feature -> Order \cup {Unphased}]
  BY <1>1, <1>2
<1>4. needs \in [Comp -> SUBSET Comp]
  BY GraphsAssumption DEF TypeOK
<1>5. QED
  BY <1>1, <1>2, <1>3, <1>4 DEF In, Input

\* What a plan lists are nodes, and a node is known by its key.
LEMMA PlannedType ==
  ASSUME TypeOK
  PROVE  /\ Planned \subseteq PlanNode
         /\ \A x, y \in Planned : KeyOf(x) = KeyOf(y) => x = y
<1>. DEFINE eff == [c \in Comp |-> Earliest(In, c)]
<1>1. ASSUME NEW x \in Planned
      PROVE  /\ x \in PlanNode
             /\ x = [sub |-> x.sub, phase |-> x.phase, closure |-> Closure(In, eff, x.sub, x.phase)]
  <2>1. x \in Nodes(In, eff) /\ x.phase \in In.orders
    BY DEF Planned, Computed
  <2>2. x.sub \in Sub
        /\ x = [sub |-> x.sub, phase |-> x.phase, closure |-> Closure(In, eff, x.sub, x.phase)]
    BY <2>1, NodeShape, Zenon
  <2>3. In.orders \subseteq Order
    BY InIsInput DEF Input
  <2>4. Closure(In, eff, x.sub, x.phase) \subseteq Resp
    BY <2>2, SubOwnsAssumption DEF Closure
  <2>. HIDE DEF eff
  <2>5. QED
    BY <2>1, <2>2, <2>3, <2>4 DEF PlanNode
<1>. HIDE DEF eff
<1>2. QED
  BY <1>1 DEF KeyOf

\* The plan changes only with the registry.
LEMMA PlannedUnchanged ==
  ASSUME UNCHANGED <<phases, needs>>
  PROVE  Planned' = Planned
<1>1. Present' = Present
  BY DEF Present
<1>2. \A f : PhaseOf(f)' = PhaseOf(f)
  BY <1>1 DEF PhaseOf, HasFeature
<1>3. In' = In
  BY <1>1, <1>2 DEF In
<1>4. Computed' = Computed
  BY <1>3 DEF Computed
<1>5. QED
  BY <1>3, <1>4 DEF Planned

-----------------------------------------------------------------------------
(* Types *)

\* What each kind of job holds.
LEMMA JobType ==
  ASSUME NEW j \in Job
  PROVE  /\ j.at = "assign" => /\ j.feature \in Feature /\ j.to \in PhaseId /\ j.target \in Phase
                              /\ j \in [at : {"assign"}, feature : Feature, to : PhaseId, target : Phase]
         /\ j.at \in {"mint", "build"} => /\ j.todo \subseteq PlanNode
                                          /\ j \in [at : {"mint", "build"}, todo : SUBSET PlanNode]
         /\ j # Idle => j.at \in {"assign", "mint", "build"}
BY DEF Job, Idle

\* Registry, plan, nodes and job keep their types.
LEMMA StepType == TypeOK /\ [Next]_vars => TypeOK'
<1>. SUFFICES ASSUME TypeOK, [Next]_vars
             PROVE  TypeOK'
  OBVIOUS
<1>. USE DEF TypeOK
<1>1. ASSUME NEW p \in PhaseId, NEW o \in Order, AddPhase(p, o) PROVE TypeOK'
  BY <1>1 DEF AddPhase, EditRegistry, Phase
<1>2. ASSUME NEW p \in PhaseId, RemovePhase(p) PROVE TypeOK'
  BY <1>2 DEF RemovePhase, EditRegistry
<1>3. ASSUME NEW p \in PhaseId, NEW f \in Feature, Unassign(f, p) PROVE TypeOK'
  BY <1>3 DEF Unassign, EditRegistry, HasFeature, Present, Phase
<1>4. ASSUME NEW p \in PhaseId, NEW f \in Feature, BeginAssign(f, p) PROVE TypeOK'
  BY <1>4 DEF BeginAssign, EditRegistry, HasFeature, Present, Job
<1>5. ASSUME NEW q \in PhaseId, StripOther(q) PROVE TypeOK'
  BY <1>5 DEF StripOther, HasFeature, Present, Phase
<1>6. ASSUME WriteTarget PROVE TypeOK'
  BY <1>6, JobType DEF WriteTarget, Phase, Job
<1>7. ASSUME BeginMint PROVE TypeOK'
  BY <1>7, PlannedType DEF BeginMint, Job
<1>8. ASSUME job.at = "mint", NEW x \in job.todo, MintNode(x) PROVE TypeOK'
  <2>1. x \in PlanNode /\ job \in [at : {"mint", "build"}, todo : SUBSET PlanNode]
    BY <1>8, JobType
  <2>2. impl' \in [Key -> Impl \cup {NoImpl}]
    BY <1>8, <2>1 DEF MintNode, PlanNode, KeyOf, Key, Impl
  <2>3. job' \in Job
    BY <1>8, <2>1 DEF MintNode, Job
  <2>4. QED
    BY <1>8, <2>2, <2>3 DEF MintNode
<1>9. ASSUME EndMint PROVE TypeOK'
  BY <1>9 DEF EndMint, Job
<1>10. ASSUME NEW n \in Order, RunPhase(n) PROVE TypeOK'
  BY <1>10 DEF RunPhase, Slice, Job
<1>11. ASSUME job.at = "build", NEW x \in job.todo, BuildNode(x) PROVE TypeOK'
  <2>1. x \in PlanNode /\ job \in [at : {"mint", "build"}, todo : SUBSET PlanNode]
    BY <1>11, JobType
  <2>2. impl' \in [Key -> Impl \cup {NoImpl}]
    <3>1. PICK k : k = KeyOf(x)
      OBVIOUS
    <3>2. k \in Key /\ impl[k] # NoImpl /\ impl \in [Key -> Impl \cup {NoImpl}]
          /\ impl' = IF Built(k) THEN impl ELSE [impl EXCEPT ![k].drafts = 1]
      BY <1>11, <2>1, <3>1 DEF BuildNode, PlanNode, KeyOf, Key
    <3>3. impl[k] \in Impl
      BY <3>2
    <3>4. [impl[k] EXCEPT !.drafts = 1] \in Impl
      BY <3>3 DEF Impl
    <3>5. QED
      BY <3>2, <3>4
  <2>3. job' \in Job
    BY <1>11, <2>1 DEF BuildNode, Job
  <2>4. QED
    BY <1>11, <2>2, <2>3 DEF BuildNode
<1>12. ASSUME EndBuild PROVE TypeOK'
  BY <1>12 DEF EndBuild, Job
<1>13. ASSUME NEW k \in Key, Regen(k) PROVE TypeOK'
  BY <1>13 DEF Regen, Built, Impl
<1>14. ASSUME Crash PROVE TypeOK'
  BY <1>14 DEF Crash, Job
<1>15. ASSUME UNCHANGED vars PROVE TypeOK'
  BY <1>15 DEF vars
<1>16. QED
  BY <1>1, <1>2, <1>3, <1>4, <1>5, <1>6, <1>7, <1>8, <1>9, <1>10, <1>11, <1>12, <1>13, <1>14,
     <1>15 DEF Next

THEOREM TypeCorrect == Spec => []TypeOK
<1>1. Init => TypeOK
  <2>. SUFFICES ASSUME Init PROVE TypeOK
    OBVIOUS
  <2>1. needs \in Graphs /\ plan \subseteq PlanNode /\ torn \in BOOLEAN
    BY DEF Init
  <2>2. phases \in [PhaseId -> Phase \cup {NoPhase}] /\ impl \in [Key -> Impl \cup {NoImpl}]
    BY DEF Init
  <2>3. job \in Job /\ edits \in Nat /\ crashes \in Nat
    BY DEF Init, Job
  <2>4. QED
    BY <2>1, <2>2, <2>3 DEF TypeOK
<1>2. QED
  BY <1>1, StepType, PTL DEF Spec

-----------------------------------------------------------------------------
(* A feature is in one phase at most *)

\* A move strips the feature from every other phase before it writes the
\* copy of the target, which nobody changed in between.
LEMMA StepPhases ==
  TypeOK /\ AssignInv /\ AtMostOnePhase /\ [Next]_vars => (AssignInv /\ AtMostOnePhase)'
<1>. SUFFICES ASSUME TypeOK, AssignInv, AtMostOnePhase, [Next]_vars
             PROVE  (AssignInv /\ AtMostOnePhase)'
  OBVIOUS
<1>. DEFINE Goal == (AssignInv /\ AtMostOnePhase)'
<1>0. ASSUME NEW q \in PhaseId, phases[q] # NoPhase
      PROVE  phases[q] \in Phase
  BY <1>0 DEF TypeOK
\* The features of a phase only get fewer, and no move is in progress.
<1>00. ASSUME job'.at # "assign",
              \A q \in PhaseId, f \in Feature : HasFeature(q, f)' => HasFeature(q, f)
       PROVE  Goal
  BY <1>00 DEF AssignInv, AtMostOnePhase
<1>1. ASSUME NEW p \in PhaseId, NEW o \in Order, AddPhase(p, o) PROVE Goal
  BY <1>1, <1>00 DEF AddPhase, EditRegistry, Idle, HasFeature, Present, TypeOK
<1>2. ASSUME NEW p \in PhaseId, RemovePhase(p) PROVE Goal
  BY <1>2, <1>00, MissingFilesAssumption DEF RemovePhase, EditRegistry, Idle, HasFeature, Present, TypeOK
<1>3. ASSUME NEW p \in PhaseId, NEW f \in Feature, Unassign(f, p) PROVE Goal
  BY <1>3, <1>00, <1>0 DEF Unassign, EditRegistry, Idle, HasFeature, Present, TypeOK, Phase
<1>4. ASSUME NEW p \in PhaseId, NEW f \in Feature, BeginAssign(f, p) PROVE Goal
  BY <1>4 DEF BeginAssign, AssignInv, AtMostOnePhase, HasFeature, Present
<1>5. ASSUME NEW q \in PhaseId, StripOther(q) PROVE Goal
  <2>1. phases[q] \in Phase /\ q \in Present
    BY <1>5, <1>0 DEF StripOther, HasFeature, Present
  <2>2. phases'[q] \in Phase /\ phases'[q].features \subseteq phases[q].features
    BY <1>5, <2>1 DEF StripOther, TypeOK, Phase
  <2>3. \A p \in PhaseId \ {q} : phases'[p] = phases[p]
    BY <1>5 DEF StripOther, TypeOK
  <2>4. AtMostOnePhase'
    BY <2>1, <2>2, <2>3 DEF AtMostOnePhase, HasFeature, Present
  <2>5. AssignInv'
    BY <1>5, <2>3, JobType DEF StripOther, AssignInv, Present, TypeOK
  <2>6. QED
    BY <2>4, <2>5
<1>6. ASSUME WriteTarget PROVE Goal
  <2>1. /\ job \in [at : {"assign"}, feature : Feature, to : PhaseId, target : Phase]
        /\ job.to \in Present /\ job.target = phases[job.to]
    BY <1>6, JobType DEF WriteTarget, AssignInv, TypeOK
  <2>2. /\ phases'[job.to].features = phases[job.to].features \cup {job.feature}
        /\ \A p \in PhaseId \ {job.to} : phases'[p] = phases[p]
    BY <1>6, <2>1 DEF WriteTarget, TypeOK, Phase
  <2>3. \A p \in PhaseId, f \in Feature :
          HasFeature(p, f)' => HasFeature(p, f) \/ (p = job.to /\ f = job.feature)
    BY <2>1, <2>2 DEF HasFeature, Present
  <2>4. \A p \in PhaseId \ {job.to} : ~ HasFeature(p, job.feature)
    BY <1>6 DEF WriteTarget
  <2>5. AtMostOnePhase'
    BY <2>3, <2>4 DEF AtMostOnePhase
  <2>6. AssignInv'
    BY <1>6 DEF WriteTarget, AssignInv, Idle
  <2>7. QED
    BY <2>5, <2>6
<1>7. ASSUME UNCHANGED phases, job'.at # "assign" PROVE Goal
  <2>1. \A q \in PhaseId, f \in Feature : HasFeature(q, f)' => HasFeature(q, f)
    BY <1>7 DEF HasFeature, Present
  <2>2. QED
    BY <1>7, <2>1, <1>00
<1>8. ASSUME BeginMint \/ EndMint \/ EndBuild \/ Crash PROVE Goal
  BY <1>7, <1>8 DEF BeginMint, EndMint, EndBuild, Crash, Idle
<1>9. ASSUME NEW n \in Order, RunPhase(n) PROVE Goal
  BY <1>7, <1>9 DEF RunPhase
<1>10. ASSUME NEW x \in job.todo, MintNode(x) \/ BuildNode(x)
       PROVE  Goal
  <2>1. job'.at = job.at
    BY <1>10, JobType DEF MintNode, BuildNode, TypeOK
  <2>2. QED
    BY <1>7, <1>10, <2>1 DEF MintNode, BuildNode
<1>11. ASSUME NEW k \in Key, Regen(k) PROVE Goal
  BY <1>7, <1>11 DEF Regen, Idle
<1>12. ASSUME UNCHANGED vars PROVE Goal
  BY <1>12 DEF vars, AssignInv, AtMostOnePhase, HasFeature, Present
<1>13. Goal
  <2>. HIDE DEF Goal
  <2>1. QED
    BY <1>1, <1>2, <1>3, <1>4, <1>5, <1>6, <1>8, <1>9, <1>10, <1>11, <1>12 DEF Next
<1>14. QED
  BY <1>13

\* In the middle of a move too, and after one that died, no feature is in
\* two phases.
THEOREM OnePhasePerFeature == Spec => []AtMostOnePhase
<1>1. Init => AssignInv /\ AtMostOnePhase
  BY DEF Init, AssignInv, AtMostOnePhase, HasFeature, Present, Idle
<1>2. QED
  BY <1>1, StepPhases, TypeCorrect, PTL DEF Spec

-----------------------------------------------------------------------------
(* What is built stays built *)

\* A step that writes a node writes one that was not built, or drafts it
\* again with its closure.
LEMMA NodeWritten ==
  ASSUME TypeOK, NEW k \in Key, Built(k), [Next]_vars
  PROVE  Built(k)' /\ impl'[k].closure = impl[k].closure
<1>. DEFINE Kept == Built(k)' /\ impl'[k].closure = impl[k].closure
<1>0. impl[k] \in Impl
  BY DEF TypeOK, Built
<1>1. ASSUME UNCHANGED impl PROVE Kept
  BY <1>1 DEF Built
<1>2. ASSUME NEW x \in job.todo, MintNode(x) PROVE Kept
  BY <1>2 DEF MintNode, Built, TypeOK
<1>3. ASSUME NEW x \in job.todo, BuildNode(x) PROVE Kept
  BY <1>3 DEF BuildNode, Built, TypeOK
<1>4. ASSUME NEW j \in Key, Regen(j) PROVE Kept
  <2>1. impl[j] \in Impl
    BY <1>4 DEF Regen, Built, TypeOK
  <2>2. [impl[j] EXCEPT !.drafts = @ + 1] \in Impl
    BY <2>1 DEF Impl
  <2>3. impl'[j] # NoImpl /\ impl'[j].drafts > 0 /\ impl'[j].closure = impl[j].closure
    BY <1>4, <2>1, <2>2, MissingFilesAssumption DEF Regen, Built, TypeOK, Impl
  <2>4. j # k => impl'[k] = impl[k]
    BY <1>4 DEF Regen, TypeOK
  <2>5. QED
    BY <2>3, <2>4 DEF Built
<1>5. QED
  <2>. HIDE DEF Kept
  <2>1. Kept
    <3>1. ASSUME NEW p \in PhaseId, NEW o \in Order, AddPhase(p, o) PROVE Kept
      BY <1>1, <3>1 DEF AddPhase
    <3>2. ASSUME NEW p \in PhaseId, NEW f \in Feature, Unassign(f, p) \/ BeginAssign(f, p) PROVE Kept
      BY <1>1, <3>2 DEF Unassign, BeginAssign
    <3>3. ASSUME NEW p \in PhaseId, RemovePhase(p) \/ StripOther(p) PROVE Kept
      BY <1>1, <3>3 DEF RemovePhase, StripOther
    <3>4. ASSUME WriteTarget \/ BeginMint \/ EndMint \/ EndBuild \/ Crash PROVE Kept
      BY <1>1, <3>4 DEF WriteTarget, BeginMint, EndMint, EndBuild, Crash
    <3>5. ASSUME NEW n \in Order, RunPhase(n) PROVE Kept
      BY <1>1, <3>5 DEF RunPhase
    <3>6. ASSUME UNCHANGED vars PROVE Kept
      BY <1>1, <3>6 DEF vars
    <3>7. QED
      BY <1>2, <1>3, <1>4, <3>1, <3>2, <3>3, <3>4, <3>5, <3>6 DEF Next
  <2>2. QED
    BY <2>1 DEF Kept

\* Re-planning is additive: no registry edit, mint, draft or crash takes a
\* built node or its closure away.
THEOREM BuiltIsKept == Spec => BuiltNodesKept
<1>. DEFINE A == \A k \in Key : Built(k) => Built(k)' /\ impl'[k].closure = impl[k].closure
<1>1. TypeOK /\ [Next]_vars => [A]_vars
  BY NodeWritten
<1>2. QED
  BY <1>1, TypeCorrect, PTL DEF Spec, BuiltNodesKept

-----------------------------------------------------------------------------
(* A mint and the phases built from it *)

\* Mint and build work on the plan they began with.
LEMMA StepMint ==
  TypeOK /\ MintInv /\ BuildInv /\ StubsInv /\ [Next]_vars => (MintInv /\ BuildInv /\ StubsInv)'
<1>. SUFFICES ASSUME TypeOK, MintInv, BuildInv, StubsInv, [Next]_vars
             PROVE  (MintInv /\ BuildInv /\ StubsInv)'
  OBVIOUS
<1>. DEFINE Goal == (MintInv /\ BuildInv /\ StubsInv)'
\* The registry changes, and neither a mint nor a build is in progress.
<1>00. ASSUME job'.at \notin {"mint", "build"}, job.at # "mint", UNCHANGED <<plan, impl, torn>>
       PROVE  Goal
  BY <1>00 DEF MintInv, BuildInv, StubsInv, Built
<1>1. ASSUME NEW p \in PhaseId, NEW o \in Order, AddPhase(p, o) PROVE Goal
  BY <1>00, <1>1 DEF AddPhase, EditRegistry, Idle
<1>2. ASSUME NEW p \in PhaseId, RemovePhase(p) PROVE Goal
  BY <1>00, <1>2 DEF RemovePhase, EditRegistry, Idle
<1>3. ASSUME NEW p \in PhaseId, NEW f \in Feature, Unassign(f, p) \/ BeginAssign(f, p) PROVE Goal
  BY <1>00, <1>3 DEF Unassign, BeginAssign, EditRegistry, Idle
<1>4. ASSUME NEW q \in PhaseId, StripOther(q) PROVE Goal
  BY <1>00, <1>4 DEF StripOther
<1>5. ASSUME WriteTarget PROVE Goal
  BY <1>00, <1>5 DEF WriteTarget, Idle
<1>6. ASSUME BeginMint PROVE Goal
  <2>1. /\ job.at = "idle" /\ job'.at = "mint" /\ job'.todo = Planned
        /\ plan' = Planned /\ Planned' = Planned /\ impl' = impl
    BY <1>6, PlannedUnchanged DEF BeginMint, Idle
  <2>2. \A x \in Planned : Built(KeyOf(x)) => impl[KeyOf(x)].closure = x.closure
    BY <1>6 DEF BeginMint, PlanErrors, ClosureErrors
  <2>3. MintInv'
    BY <2>1, <2>2 DEF MintInv, Built
  <2>4. QED
    BY <2>1, <2>3 DEF BuildInv, StubsInv
<1>7. ASSUME job.at = "mint", NEW x \in job.todo, MintNode(x) PROVE Goal
  <2>1. /\ x \in PlanNode
        /\ job'.at = "mint" /\ job'.todo = job.todo \ {x}
        /\ plan' = plan /\ Planned' = Planned
    BY <1>7, JobType, PlannedUnchanged DEF MintNode, TypeOK
  <2>2. KeyOf(x) \in Key /\ [drafts |-> 0, closure |-> x.closure] \in Impl
    BY <2>1 DEF PlanNode, KeyOf, Key, Impl
  <2>3. CASE Built(KeyOf(x))
    BY <1>7, <2>1, <2>3 DEF MintNode, MintInv, BuildInv, StubsInv, Built
  <2>4. CASE ~ Built(KeyOf(x))
    <3>1. /\ impl'[KeyOf(x)] = [drafts |-> 0, closure |-> x.closure]
          /\ impl'[KeyOf(x)] # NoImpl /\ ~ Built(KeyOf(x))'
          /\ \A k \in Key : k # KeyOf(x) => impl'[k] = impl[k] /\ (Built(k)' <=> Built(k))
      BY <1>7, <2>2, <2>4, MissingFilesAssumption DEF MintNode, Built, TypeOK
    <3>2. ASSUME NEW y \in Planned, y \notin job'.todo \/ Built(KeyOf(y))'
          PROVE  impl'[KeyOf(y)] # NoImpl /\ impl'[KeyOf(y)].closure = y.closure
      <4>1. y \in PlanNode /\ KeyOf(y) \in Key
        BY PlannedType DEF PlanNode, KeyOf, Key
      <4>2. CASE KeyOf(y) = KeyOf(x)
        <5>1. y = x
          BY <1>7, <4>2, PlannedType DEF MintInv
        <5>2. QED
          BY <3>1, <5>1
      <4>3. CASE KeyOf(y) # KeyOf(x)
        BY <1>7, <2>1, <3>1, <3>2, <4>1, <4>3 DEF MintInv
      <4>4. QED
        BY <4>2, <4>3
    <3>3. QED
      BY <1>7, <2>1, <3>2 DEF MintInv, BuildInv, StubsInv
  <2>5. QED
    BY <2>3, <2>4
<1>8. ASSUME EndMint PROVE Goal
  BY <1>8 DEF EndMint, MintInv, BuildInv, StubsInv, Idle, Built
<1>9. ASSUME NEW n \in Order, RunPhase(n) PROVE Goal
  <2>1. /\ job.at = "idle" /\ job'.at = "build" /\ UNCHANGED <<plan, impl, torn>>
        /\ Planned' = Planned /\ job'.todo \subseteq plan /\ job'.todo \subseteq Planned
    BY <1>9, PlannedUnchanged DEF RunPhase, Slice, Idle
  <2>2. QED
    BY <2>1 DEF MintInv, BuildInv, StubsInv, Built
<1>10. ASSUME job.at = "build", NEW x \in job.todo, BuildNode(x) PROVE Goal
  <2>1. /\ x \in PlanNode
        /\ job'.at = "build" /\ job'.todo = job.todo \ {x}
        /\ UNCHANGED <<plan, torn>> /\ Planned' = Planned
    BY <1>10, JobType, PlannedUnchanged DEF BuildNode, TypeOK
  <2>2. \A k \in Key : impl'[k] # NoImpl /\ ~ Built(k)' => impl'[k] = impl[k] /\ ~ Built(k)
    <3>1. impl[KeyOf(x)] \in Impl /\ KeyOf(x) \in Key
      BY <1>10, <2>1 DEF BuildNode, TypeOK, PlanNode, KeyOf, Key
    <3>2. CASE Built(KeyOf(x))
      BY <1>10, <3>2 DEF BuildNode, Built
    <3>3. CASE ~ Built(KeyOf(x))
      BY <1>10, <3>1, <3>3 DEF BuildNode, Built, TypeOK, Impl
    <3>4. QED
      BY <3>2, <3>3
  <2>3. \A y \in plan : KeyOf(y) \in Key
    BY DEF TypeOK, PlanNode, KeyOf, Key
  <2>4. StubsInv'
    BY <1>10, <2>1, <2>2, <2>3 DEF StubsInv
  <2>5. QED
    BY <1>10, <2>1, <2>4 DEF MintInv, BuildInv
<1>11. ASSUME EndBuild PROVE Goal
  BY <1>00, <1>11 DEF EndBuild, Idle
<1>12. ASSUME NEW k \in Key, Regen(k) PROVE Goal
  <2>1. /\ job = Idle /\ UNCHANGED <<job, plan, torn>>
        /\ \A j \in Key : j # k => impl'[j] = impl[j]
        /\ Built(k)'
    BY <1>12, NodeWritten DEF Regen, TypeOK, Next
  <2>2. \A y \in plan : KeyOf(y) \in Key
    BY DEF TypeOK, PlanNode, KeyOf, Key
  <2>3. QED
    BY <2>1, <2>2 DEF MintInv, BuildInv, StubsInv, Idle, Built
<1>13. ASSUME Crash PROVE Goal
  BY <1>13 DEF Crash, MintInv, BuildInv, StubsInv, Idle, Built
<1>14. ASSUME UNCHANGED vars PROVE Goal
  BY <1>14, PlannedUnchanged DEF vars, MintInv, BuildInv, StubsInv, Built
<1>15. Goal
  <2>. HIDE DEF Goal
  <2>1. QED
    BY <1>1, <1>2, <1>3, <1>4, <1>5, <1>6, <1>7, <1>8, <1>9, <1>10, <1>11, <1>12, <1>13, <1>14
       DEF Next
<1>16. QED
  BY <1>15

\* The inductive invariant of registry, mint and build.
THEOREM Invariance == Spec => []Inv
<1>1. Init => AssignInv /\ AtMostOnePhase /\ MintInv /\ BuildInv /\ StubsInv
  BY DEF Init, AssignInv, AtMostOnePhase, HasFeature, Present, MintInv, BuildInv, StubsInv, Idle
<1>2. QED
  BY <1>1, StepPhases, StepMint, TypeCorrect, PTL DEF Spec, Inv

\* When a mint ends, every node on disk that the plan lists agrees with it.
THEOREM MintIsComplete == Spec => MintSettles
<1>. DEFINE A == job.at = "mint" /\ job.todo = {} /\ crashes' = crashes /\ job' = Idle
                   => PlanChanged' = {}
<1>1. Inv /\ [Next]_vars => [A]_vars
  <2>. SUFFICES ASSUME Inv, Next, job.at = "mint", job.todo = {}, crashes' = crashes, job' = Idle
               PROVE  PlanChanged' = {}
    BY DEF vars
  <2>1. EndMint
    <3>1. crashes \in Nat /\ job # Idle
      BY DEF Inv, TypeOK, Idle
    <3>2. ~ Crash
      BY <3>1 DEF Crash
    <3>3. \A p \in PhaseId :
            /\ \A o \in Order : ~ AddPhase(p, o)
            /\ \A f \in Feature : ~ Unassign(f, p) /\ ~ BeginAssign(f, p)
            /\ ~ RemovePhase(p) /\ ~ StripOther(p)
      BY <3>1 DEF AddPhase, Unassign, BeginAssign, RemovePhase, StripOther, EditRegistry
    <3>4. ~ WriteTarget /\ ~ BeginMint /\ ~ EndBuild
      BY <3>1 DEF WriteTarget, BeginMint, EndBuild
    <3>5. \A n \in Order : ~ RunPhase(n)
      BY <3>1 DEF RunPhase
    <3>6. \A k \in Key : ~ Regen(k)
      BY <3>1 DEF Regen
    <3>7. QED
      BY <3>2, <3>3, <3>4, <3>5, <3>6 DEF Next
  <2>2. Planned' = Planned /\ impl' = impl
    BY <2>1, PlannedUnchanged DEF EndMint
  <2>3. \A x \in Planned : impl[KeyOf(x)].closure = x.closure
    BY DEF Inv, MintInv
  <2>4. QED
    BY <2>2, <2>3 DEF PlanChanged
<1>2. QED
  BY <1>1, Invariance, PTL DEF Spec, MintSettles

\* A node is first drafted with the closure of the live plan, as long as no
\* mint died.
THEOREM DraftsFollowPlan == Spec => DraftFollowsPlan
<1>. DEFINE A == \A k \in Key :
                   ~ torn /\ ~ Built(k) /\ impl'[k] # NoImpl /\ impl'[k].drafts > 0
                     => \E x \in Planned : KeyOf(x) = k /\ x.closure = impl'[k].closure
<1>1. Inv /\ [Next]_vars => [A]_vars
  <2>. SUFFICES ASSUME Inv, Next, NEW k \in Key,
                      ~ torn, ~ Built(k), impl'[k] # NoImpl, impl'[k].drafts > 0
               PROVE  \E x \in Planned : KeyOf(x) = k /\ x.closure = impl'[k].closure
    BY DEF vars
  <2>0. TypeOK
    BY DEF Inv
  <2>1. impl'[k] # impl[k]
    BY DEF Built
  <2>2. ASSUME NEW x \in job.todo, job.at = "mint", MintNode(x) PROVE FALSE
    <3>1. impl' = [impl EXCEPT ![KeyOf(x)] = [drafts |-> 0, closure |-> x.closure]]
      BY <2>1, <2>2 DEF MintNode
    <3>2. impl'[k] = [drafts |-> 0, closure |-> x.closure]
      BY <2>0, <2>1, <3>1 DEF TypeOK
    <3>3. QED
      BY <3>2
  <2>3. ASSUME NEW j \in Key, Regen(j) PROVE FALSE
    BY <2>0, <2>1, <2>3 DEF Regen, TypeOK
  <2>4. \E x \in job.todo : job.at = "build" /\ BuildNode(x)
    <3>1. \A p \in PhaseId :
            /\ \A o \in Order : ~ AddPhase(p, o)
            /\ \A f \in Feature : ~ Unassign(f, p) /\ ~ BeginAssign(f, p)
            /\ ~ RemovePhase(p) /\ ~ StripOther(p)
      BY <2>1 DEF AddPhase, Unassign, BeginAssign, RemovePhase, StripOther
    <3>2. ~ WriteTarget /\ ~ BeginMint /\ ~ EndMint /\ ~ EndBuild /\ ~ Crash
      BY <2>1 DEF WriteTarget, BeginMint, EndMint, EndBuild, Crash
    <3>3. \A n \in Order : ~ RunPhase(n)
      BY <2>1 DEF RunPhase
    <3>4. QED
      BY <2>2, <2>3, <3>1, <3>2, <3>3 DEF Next
  <2>5. PICK x \in job.todo : job.at = "build" /\ BuildNode(x)
    BY <2>4
  <2>6. x \in plan /\ x \in Planned /\ impl[KeyOf(x)] # NoImpl
    BY <2>5 DEF Inv, BuildInv, BuildNode
  <2>7. impl' = [impl EXCEPT ![KeyOf(x)].drafts = 1] /\ KeyOf(x) = k
    BY <2>0, <2>1, <2>5 DEF BuildNode, TypeOK
  <2>8. impl[k].closure = x.closure
    BY <2>5, <2>6, <2>7 DEF Inv, StubsInv
  <2>9. impl[k] \in Impl
    BY <2>0, <2>6, <2>7 DEF TypeOK
  <2>10. impl'[k].closure = impl[k].closure
    BY <2>0, <2>7, <2>9 DEF TypeOK, Impl
  <2>11. QED
    BY <2>6, <2>7, <2>8, <2>10
<1>2. QED
  BY <1>1, Invariance, PTL DEF Spec, DraftFollowsPlan

-----------------------------------------------------------------------------
(* Built phases deliver *)

\* When all that the plan lists up to a phase is built, each feature of the
\* phase is implemented by every subcomponent that serves it.
THEOREM BuiltPhasesAreDone == Spec => []BuiltPhasesDeliver
<1>1. TypeOK => BuiltPhasesDeliver
  <2>. SUFFICES ASSUME TypeOK, NEW n \in Order, ~ PlanErrors,
                      \A x \in Planned : x.phase <= n => Built(KeyOf(x)),
                      NEW f \in Feature, NEW s \in Sub, NEW r \in SubOwns[s],
                      f \in Serves[r], PhaseOf(f) <= n
               PROVE  \E m \in Order :
                        m <= n /\ Built(<<s, m>>) /\ r \in impl[<<s, m>>].closure
    BY DEF BuiltPhasesDeliver
  <2>. DEFINE eff == [c \in Comp |-> Earliest(In, c)]
              m == RespPhase(In, eff, s, r)
  <2>1. In \in Input /\ Schedule(In, eff) /\ In.orders # {}
    BY InIsInput, EarliestIsSchedule DEF PlanErrors, In
  <2>2. m \in In.orders /\ In.orders \subseteq Order
    BY <2>1, RespPhaseListed DEF Input
  <2>3. PICK y \in Nodes(In, eff) : y.sub = s /\ y.phase = m /\ r \in y.closure
    BY <2>1, NodeOfResp
  <2>4. y \in Planned
    BY <2>2, <2>3 DEF Planned, Computed
  <2>5. m <= n
    <3>1. CompOf[s] \in Comp /\ r \in Owns[CompOf[s]]
      BY CompOfAssumption, SubOwnsAssumption
    <3>2. In.phaseOf[f] = PhaseOf(f) /\ PhaseOf(f) # Unphased
      BY DEF In, PlanErrors
    <3>3. /\ m \in Nat /\ m <= Natural(In, CompOf[s], r)
          /\ Natural(In, CompOf[s], r) \in Nat /\ Natural(In, CompOf[s], r) <= PhaseOf(f)
      BY <2>1, <3>1, <3>2, RespPhaseBounds, NaturalBounds
    <3>4. PhaseOf(f) \in Nat /\ n \in Nat
      <4>1. PhaseOf(f) \in In.orders
        BY <3>2, PhaseOfType DEF In
      <4>2. QED
        BY <2>2, <4>1, OrderAssumption
    <3>. HIDE DEF m
    <3>5. QED
      BY <3>3, <3>4
  <2>6. Built(KeyOf(y)) /\ KeyOf(y) = <<s, m>>
    BY <2>3, <2>4, <2>5 DEF KeyOf
  <2>7. impl[KeyOf(y)].closure = y.closure
    BY <2>4, <2>6 DEF PlanErrors, ClosureErrors
  <2>. HIDE DEF m, eff
  <2>8. QED
    BY <2>2, <2>3, <2>5, <2>6, <2>7
<1>2. QED
  BY <1>1, TypeCorrect, PTL

-----------------------------------------------------------------------------
(* The fixpoint of compute_plan computes the earliest phases, and the plan *)
(* made from them keeps its promises, whatever the order of the visits.    *)

\* The input keeps its shape and every effective phase stays a number.
THEOREM LoopTypeCorrect == LoopSpec => []LoopTypeOK
<1>1. LoopInit => LoopTypeOK
  BY AssignedType DEF LoopInit, LoopTypeOK
<1>2. LoopTypeOK /\ [LoopNext]_loopVars => LoopTypeOK'
  <2>. SUFFICES ASSUME LoopTypeOK, [LoopNext]_loopVars
               PROVE  LoopTypeOK'
    OBVIOUS
  <2>1. CASE Finish
    BY <2>1 DEF Finish, LoopTypeOK
  <2>2. ASSUME NEW c \in Comp, NEW dep \in Comp, Pull(c, dep)
        PROVE  LoopTypeOK'
    BY <2>2 DEF Pull, LoopTypeOK
  <2>3. CASE UNCHANGED loopVars
    BY <2>3 DEF loopVars, LoopTypeOK
  <2>4. QED
    BY <2>1, <2>2, <2>3 DEF LoopNext
<1>3. QED
  BY <1>1, <1>2, PTL DEF LoopSpec

\* A pull gives a component the phase of one of its dependents, and so the
\* own phase of something that requires it; a loop that ended pulls nothing.
LEMMA EffectiveStep ==
  LoopTypeOK /\ EffectiveInv /\ DoneInv /\ [LoopNext]_loopVars => (EffectiveInv /\ DoneInv)'
<1>. SUFFICES ASSUME LoopTypeOK, EffectiveInv, DoneInv, [LoopNext]_loopVars
             PROVE  (EffectiveInv /\ DoneInv)'
  OBVIOUS
<1>1. CASE Finish
  BY <1>1 DEF Finish, EffectiveInv, DoneInv, Pulls
<1>2. ASSUME NEW c \in Comp, NEW dep \in Comp, Pull(c, dep)
      PROVE  (EffectiveInv /\ DoneInv)'
  <2>1. in' = in /\ ~ done' /\ effective[dep] > effective[c] /\ c \in Dependents(in, dep)
    BY <1>2 DEF Pull, Pulls, LoopTypeOK, Dependents
  <2>2. /\ effective'[dep] = effective[c]
        /\ \A x \in Comp \ {dep} : effective'[x] = effective[x]
    BY <1>2 DEF Pull, LoopTypeOK
  <2>3. c \in Requirers(in, dep)
    BY <2>1, RequirersClosed
  <2>4. Requirers(in, c) \subseteq Requirers(in, dep)
    BY <2>3, RequirersTransitive
  <2>5. effective[c] \in {Assigned(in, d) : d \in Requirers(in, dep)}
    BY <2>4 DEF EffectiveInv
  <2>6. effective[c] <= Assigned(in, dep)
    <3>1. /\ effective[c] \in Nat /\ effective[dep] \in Nat /\ Assigned(in, dep) \in Nat
          /\ effective[dep] <= Assigned(in, dep)
      BY AssignedType DEF LoopTypeOK, EffectiveInv
    <3>2. QED
      BY <2>1, <3>1
  <2>7. EffectiveInv'
    <3>1. ASSUME NEW x \in Comp
          PROVE  /\ effective'[x] \in {Assigned(in, d) : d \in Requirers(in, x)}
                 /\ effective'[x] <= Assigned(in, x)
      BY <2>2, <2>5, <2>6 DEF EffectiveInv
    <3>2. QED
      BY <2>1, <3>1 DEF EffectiveInv
  <2>8. QED
    BY <2>1, <2>7 DEF DoneInv
<1>3. CASE UNCHANGED loopVars
  BY <1>3 DEF loopVars, EffectiveInv, DoneInv, Pulls
<1>4. QED
  BY <1>1, <1>2, <1>3 DEF LoopNext

\* The inductive invariant of the loop.
THEOREM LoopInvariance == LoopSpec => [](LoopTypeOK /\ EffectiveInv /\ DoneInv)
<1>1. LoopInit => EffectiveInv /\ DoneInv
  <2>. SUFFICES ASSUME LoopInit PROVE EffectiveInv /\ DoneInv
    OBVIOUS
  <2>1. ASSUME NEW c \in Comp
        PROVE  /\ effective[c] \in {Assigned(in, d) : d \in Requirers(in, c)}
               /\ effective[c] <= Assigned(in, c)
    <3>1. effective[c] = Assigned(in, c) /\ Assigned(in, c) \in Nat
      BY AssignedType DEF LoopInit
    <3>2. c \in Requirers(in, c)
      BY RequirersClosed
    <3>3. QED
      BY <3>1, <3>2
  <2>2. QED
    BY <2>1 DEF LoopInit, EffectiveInv, DoneInv
<1>2. QED
  BY <1>1, EffectiveStep, LoopTypeCorrect, PTL DEF LoopSpec

-----------------------------------------------------------------------------
\* The loop ends in a schedule.
LEMMA DoneIsSchedule ==
  ASSUME LoopTypeOK, EffectiveInv, DoneInv, done
  PROVE  Schedule(in, effective)
<1>1. \A c, dep \in Comp : dep \in in.needs[c] => effective[dep] <= effective[c]
  BY DEF DoneInv, Pulls, LoopTypeOK
<1>2. QED
  BY <1>1 DEF LoopTypeOK, EffectiveInv, Schedule

\* When the loop ends every component has the earliest phase of all that
\* requires it.
THEOREM ScheduleCorrect == LoopSpec => []ScheduleIsEarliest
<1>1. LoopTypeOK /\ EffectiveInv /\ DoneInv => ScheduleIsEarliest
  <2>. SUFFICES ASSUME LoopTypeOK, EffectiveInv, DoneInv, done, NEW c \in Comp
               PROVE  effective[c] = Earliest(in, c)
    BY DEF ScheduleIsEarliest
  <2>. DEFINE S == {Assigned(in, d) : d \in Requirers(in, c)}
  <2>1. Schedule(in, effective) /\ in \in Input
    BY DoneIsSchedule DEF LoopTypeOK
  <2>2. Requirers(in, c) \subseteq Comp
    BY DEF Requirers
  <2>3. S \in SUBSET Nat /\ effective[c] \in S
    BY <2>1, <2>2, AssignedType DEF EffectiveInv
  <2>4. ASSUME NEW d \in Requirers(in, c)
        PROVE  effective[c] <= Assigned(in, d)
    <3>1. d \in Comp /\ effective[c] <= effective[d] /\ effective[d] <= Assigned(in, d)
      BY <2>1, <2>2, RequiredBefore DEF Schedule
    <3>2. effective[c] \in Nat /\ effective[d] \in Nat /\ Assigned(in, d) \in Nat
      BY <2>1, <3>1, AssignedType DEF LoopTypeOK
    <3>3. QED
      BY <3>1, <3>2
  <2>5. IsLeast(effective[c], S)
    BY <2>3, <2>4 DEF IsLeast
  <2>6. Least(S) = effective[c]
    BY <2>3, <2>5, LeastUnique
  <2>7. QED
    BY <2>6 DEF Earliest
<1>2. QED
  BY <1>1, LoopInvariance, PTL

\* The plan of a finished loop never builds a node before what its component
\* requires.
THEOREM BuildsOnFinishedWork == LoopSpec => []PlanBuildsOnFinishedWork
<1>1. LoopTypeOK /\ EffectiveInv /\ DoneInv => PlanBuildsOnFinishedWork
  BY DoneIsSchedule, PlanBuildsInOrder DEF LoopTypeOK, PlanBuildsOnFinishedWork
<1>2. QED
  BY <1>1, LoopInvariance, PTL

\* The plan of a finished loop delivers every feature in the phase the
\* registry asks for.
THEOREM DeliversFeatures == LoopSpec => []PlanDelivers
<1>1. LoopTypeOK /\ EffectiveInv /\ DoneInv => PlanDelivers
  BY DoneIsSchedule, PlanDeliversOnTime DEF LoopTypeOK, PlanDelivers
<1>2. QED
  BY <1>1, LoopInvariance, PTL

\* The build order of every phase keeps every requirement between two of its
\* components.
THEOREM SortsPhases == LoopSpec => []PlanSortsPhases
<1>1. LoopTypeOK /\ EffectiveInv /\ DoneInv => PlanSortsPhases
  BY DoneIsSchedule, PlanSortsRequirements DEF LoopTypeOK, PlanSortsPhases
<1>2. QED
  BY <1>1, LoopInvariance, PTL
=============================================================================
