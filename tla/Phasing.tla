------------------------------ MODULE Phasing ------------------------------
(***************************************************************************)
(* The phase registry, the plan made from it and the implementation nodes  *)
(* the plan pre-creates (the phase subcommands and mint-plan of            *)
(* siege/cli.py, the mint-plan, run-phase and regen-impl skills, and       *)
(* compute_plan_change_worklist).                                          *)
(*                                                                         *)
(* One call or skill works at a time.  It writes the registry files, the   *)
(* plan file and the node state files one by one, and can die between two  *)
(* of them.  Left out: the commits between skills (a plan is computed here *)
(* from the files in the tree), reviews and approvals of the nodes, the    *)
(* fan-in of a phase, phase names, and the order nodes of a phase are      *)
(* built in, which PhasePlan is about.                                     *)
(***************************************************************************)
EXTENDS PhasePlan

CONSTANTS
  PhaseId,   \* the names of phases
  NoPhase,   \* stands for a registry file that does not exist
  NoImpl,    \* stands for a node without a state file
  Graphs,    \* the dependency graphs to start from
  MaxEdits,  \* bound on the edits of the registry
  MaxDrafts, \* bound on the drafts of one node
  MaxCrashes \* bound on the calls that die half-way

ASSUME GraphsAssumption == Graphs \subseteq [Comp -> SUBSET Comp]
ASSUME BoundsAssumption == MaxEdits \in Nat /\ MaxDrafts \in Nat /\ MaxCrashes \in Nat

VARIABLES
  needs,   \* the component dependency edges; no call changes them
  phases,  \* the registry: state/phases/<id>.json
  plan,    \* the nodes in state/plan.json
  impl,    \* the state files of the phased implementation nodes
  job,     \* the call in progress
  torn,    \* history: a mint died and none has ended since
  edits, crashes

vars == <<needs, phases, plan, impl, job, torn, edits, crashes>>
-----------------------------------------------------------------------------
Key == Sub \X Order
Phase == [order : Order, features : SUBSET Feature]
Impl == [drafts : Nat, closure : SUBSET Resp]
PlanNode == [sub : Sub, phase : Order, closure : SUBSET Resp]

ASSUME MissingFilesAssumption == NoPhase \notin Phase /\ NoImpl \notin Impl

\* A job: what it does, the feature and the phase it moves, the phase file
\* it read at its start, and the nodes still to do.
Idle == [at |-> "idle"]
Job ==
  {Idle}
    \cup [at : {"assign"}, feature : Feature, to : PhaseId, target : Phase]
    \cup [at : {"mint", "build"}, todo : SUBSET PlanNode]

TypeOK ==
  /\ needs \in Graphs
  /\ phases \in [PhaseId -> Phase \cup {NoPhase}]
  /\ plan \subseteq PlanNode
  /\ impl \in [Key -> Impl \cup {NoImpl}]
  /\ job \in Job
  /\ torn \in BOOLEAN
  /\ edits \in Nat /\ crashes \in Nat

Init ==
  /\ needs \in Graphs
  /\ phases = [p \in PhaseId |-> NoPhase]
  /\ plan = {}
  /\ impl = [k \in Key |-> NoImpl]
  /\ job = Idle
  /\ torn = FALSE
  /\ edits = 0 /\ crashes = 0
-----------------------------------------------------------------------------
(* What the projections read off the files *)

Present == {p \in PhaseId : phases[p] # NoPhase}
HasFeature(p, f) == p \in Present /\ f \in phases[p].features

\* The registry is read in the order of the phases: the last one wins.
PhaseOf(f) ==
  LET os == {phases[p].order : p \in {q \in PhaseId : HasFeature(q, f)}}
  IN IF os = {} THEN Unphased ELSE CHOOSE m \in os : \A n \in os : n <= m

In == [phaseOf |-> [f \in Feature |-> PhaseOf(f)],
       orders |-> {phases[p].order : p \in Present},
       needs |-> needs]

\* compute_plan: all its nodes, and those its phases list.
Computed == Nodes(In, [c \in Comp |-> Earliest(In, c)])
Planned == {x \in Computed : x.phase \in In.orders}

KeyOf(x) == <<x.sub, x.phase>>
Built(k) == impl[k] # NoImpl /\ impl[k].drafts > 0

\* A built node whose recorded closure is no longer the planned one.
ClosureErrors ==
  {KeyOf(x) : x \in {y \in Planned : Built(KeyOf(y)) /\ impl[KeyOf(y)].closure # y.closure}}

\* The hard errors of compute_plan.
PlanErrors ==
  \/ Present = {}
  \/ \E f \in Feature : PhaseOf(f) = Unphased
  \/ ClosureErrors # {}

\* compute_plan_change_worklist: its pending entries.
PlanChanged ==
  {KeyOf(x) : x \in {y \in Planned : /\ impl[KeyOf(y)] # NoImpl
                                     /\ impl[KeyOf(y)].closure # y.closure}}
-----------------------------------------------------------------------------
(* cmd_add_phase, cmd_remove_phase, cmd_unassign_feature_from_phase *)

EditRegistry == job = Idle /\ edits < MaxEdits /\ edits' = edits + 1

AddPhase(p, o) ==
  /\ EditRegistry
  /\ p \notin Present
  /\ \A q \in Present : phases[q].order # o
  /\ phases' = [phases EXCEPT ![p] = [order |-> o, features |-> {}]]
  /\ UNCHANGED <<needs, plan, impl, job, torn, crashes>>

RemovePhase(p) ==
  /\ EditRegistry
  /\ p \in Present
  /\ phases[p].features = {}
  /\ phases' = [phases EXCEPT ![p] = NoPhase]
  /\ UNCHANGED <<needs, plan, impl, job, torn, crashes>>

Unassign(f, p) ==
  /\ EditRegistry
  /\ HasFeature(p, f)
  /\ phases' = [phases EXCEPT ![p].features = @ \ {f}]
  /\ UNCHANGED <<needs, plan, impl, job, torn, crashes>>
-----------------------------------------------------------------------------
(* cmd_assign_feature_to_phase: the feature is stripped from every other   *)
(* phase, file by file, then added to the copy of the target.              *)

BeginAssign(f, p) ==
  /\ EditRegistry
  /\ p \in Present
  /\ ~ HasFeature(p, f)
  /\ job' = [at |-> "assign", feature |-> f, to |-> p, target |-> phases[p]]
  /\ UNCHANGED <<needs, phases, plan, impl, torn, crashes>>

StripOther(q) ==
  /\ job.at = "assign"
  /\ q # job.to
  /\ HasFeature(q, job.feature)
  /\ phases' = [phases EXCEPT ![q].features = @ \ {job.feature}]
  /\ UNCHANGED <<needs, plan, impl, job, torn, edits, crashes>>

\* A slip of the next definition: the target written before the strip.
WriteTargetFirst ==
  /\ job.at = "assign"
  /\ phases' = [phases EXCEPT ![job.to] =
                  [job.target EXCEPT !.features = @ \cup {job.feature}]]
  /\ job' = IF \A q \in PhaseId \ {job.to} : ~ HasFeature(q, job.feature) THEN Idle ELSE job
  /\ UNCHANGED <<needs, plan, impl, torn, edits, crashes>>

WriteTarget ==
  /\ job.at = "assign"
  /\ \A q \in PhaseId \ {job.to} : ~ HasFeature(q, job.feature)
  /\ phases' = [phases EXCEPT ![job.to] =
                  [job.target EXCEPT !.features = @ \cup {job.feature}]]
  /\ job' = Idle
  /\ UNCHANGED <<needs, plan, impl, torn, edits, crashes>>
-----------------------------------------------------------------------------
(* mint-plan *)

\* compute-plan; on any hard error stop; write the plan file.
BeginMint ==
  /\ job = Idle
  /\ ~ PlanErrors
  /\ plan' = Planned
  /\ job' = [at |-> "mint", todo |-> Planned]
  /\ UNCHANGED <<needs, phases, impl, torn, edits, crashes>>

\* Slips of the next definition: a stub that is there is left as it is; a
\* built node is minted again.
MintMissingOnly(x) ==
  /\ job.at = "mint" /\ x \in job.todo
  /\ impl' = IF impl[KeyOf(x)] # NoImpl THEN impl
             ELSE [impl EXCEPT ![KeyOf(x)] = [drafts |-> 0, closure |-> x.closure]]
  /\ job' = [job EXCEPT !.todo = @ \ {x}]
  /\ UNCHANGED <<needs, phases, plan, torn, edits, crashes>>
MintEveryNode(x) ==
  /\ job.at = "mint" /\ x \in job.todo
  /\ impl' = [impl EXCEPT ![KeyOf(x)] = [drafts |-> 0, closure |-> x.closure]]
  /\ job' = [job EXCEPT !.todo = @ \ {x}]
  /\ UNCHANGED <<needs, phases, plan, torn, edits, crashes>>

\* cmd_mint_plan, one planned node: a built one is left alone, the others
\* get a stub with the planned closure.
MintNode(x) ==
  /\ job.at = "mint" /\ x \in job.todo
  /\ impl' = IF Built(KeyOf(x)) THEN impl
             ELSE [impl EXCEPT ![KeyOf(x)] = [drafts |-> 0, closure |-> x.closure]]
  /\ job' = [job EXCEPT !.todo = @ \ {x}]
  /\ UNCHANGED <<needs, phases, plan, torn, edits, crashes>>

EndMint ==
  /\ job.at = "mint" /\ job.todo = {}
  /\ job' = Idle
  /\ torn' = FALSE
  /\ UNCHANGED <<needs, phases, plan, impl, edits, crashes>>
-----------------------------------------------------------------------------
(* run-phase and regen-impl-with-feedback *)

Slice(nodes, n) == {x \in nodes : x.phase = n}

\* A slip of the next definition: no comparison with the live plan.
RunPhaseUnguarded(n) ==
  /\ job = Idle
  /\ ~ PlanErrors
  /\ Slice(plan, n) # {}
  /\ job' = [at |-> "build", todo |-> Slice(plan, n)]
  /\ UNCHANGED <<needs, phases, plan, impl, torn, edits, crashes>>

\* The plan is computed again, and must agree with the plan file on the phase.
RunPhase(n) ==
  /\ job = Idle
  /\ ~ PlanErrors
  /\ Slice(plan, n) # {}
  /\ Slice(plan, n) = Slice(Planned, n)
  /\ job' = [at |-> "build", todo |-> Slice(plan, n)]
  /\ UNCHANGED <<needs, phases, plan, impl, torn, edits, crashes>>

\* A node that has its stub and no draft is drafted: write-draft carries the
\* closure of the state file forward.
BuildNode(x) ==
  /\ job.at = "build" /\ x \in job.todo
  /\ impl[KeyOf(x)] # NoImpl
  /\ impl' = IF Built(KeyOf(x)) THEN impl ELSE [impl EXCEPT ![KeyOf(x)].drafts = 1]
  /\ job' = [job EXCEPT !.todo = @ \ {x}]
  /\ UNCHANGED <<needs, phases, plan, torn, edits, crashes>>

\* The phase is over, or a node without a state file stops it.
EndBuild ==
  /\ job.at = "build"
  /\ job.todo = {} \/ \E x \in job.todo : impl[KeyOf(x)] = NoImpl
  /\ job' = Idle
  /\ UNCHANGED <<needs, phases, plan, impl, torn, edits, crashes>>

\* A built node is drafted again, its closure carried forward.
Regen(k) ==
  /\ job = Idle
  /\ Built(k)
  /\ impl[k].drafts < MaxDrafts
  /\ impl' = [impl EXCEPT ![k].drafts = @ + 1]
  /\ UNCHANGED <<needs, phases, plan, job, torn, edits, crashes>>

Crash ==
  /\ job # Idle
  /\ crashes < MaxCrashes
  /\ crashes' = crashes + 1
  /\ torn' = (torn \/ job.at = "mint")
  /\ job' = Idle
  /\ UNCHANGED <<needs, phases, plan, impl, edits>>

Next ==
  \/ \E p \in PhaseId :
       \/ \E o \in Order : AddPhase(p, o)
       \/ \E f \in Feature : Unassign(f, p) \/ BeginAssign(f, p)
       \/ RemovePhase(p)
       \/ StripOther(p)
  \/ WriteTarget
  \/ BeginMint \/ EndMint \/ EndBuild
  \/ job.at = "mint" /\ \E x \in job.todo : MintNode(x)
  \/ job.at = "build" /\ \E x \in job.todo : BuildNode(x)
  \/ \E n \in Order : RunPhase(n)
  \/ \E k \in Key : Regen(k)
  \/ Crash

Spec == Init /\ [][Next]_vars
-----------------------------------------------------------------------------
(* Properties *)

\* A feature lives in at most one phase, in the middle of a move and after a
\* move that died too: compute_plan's feature-to-phase map is a function.
AtMostOnePhase ==
  \A f \in Feature : \A p, q \in PhaseId : HasFeature(p, f) /\ HasFeature(q, f) => p = q

\* When a mint ends, no node on disk disagrees with the plan it was made
\* from: the plan-change worklist of the same files has nothing pending.
MintSettles ==
  [][job.at = "mint" /\ job.todo = {} /\ crashes' = crashes /\ job' = Idle
       => PlanChanged' = {}]_vars

\* A node is first drafted with the closure the live plan gives it, unless a
\* mint died: run-phase does not bake in a wrong slice.
DraftFollowsPlan ==
  [][\A k \in Key :
       ~ torn /\ ~ Built(k) /\ impl'[k] # NoImpl /\ impl'[k].drafts > 0
         => \E x \in Planned : KeyOf(x) = k /\ x.closure = impl'[k].closure]_vars

\* Re-planning is additive: whatever happens to the registry, a built node
\* stays built and keeps the closure it was built for.
BuiltNodesKept ==
  [][\A k \in Key : Built(k) => Built(k)' /\ impl'[k].closure = impl[k].closure]_vars

\* When the plan has no error and all it lists up to a phase is built, every
\* feature of that phase is implemented by everything that serves it.
BuiltPhasesDeliver ==
  \A n \in Order :
    ~ PlanErrors /\ (\A x \in Planned : x.phase <= n => Built(KeyOf(x)))
      => \A f \in Feature, s \in Sub : \A r \in SubOwns[s] :
           f \in Serves[r] /\ PhaseOf(f) <= n
             => \E m \in Order : m <= n /\ Built(<<s, m>>) /\ r \in impl[<<s, m>>].closure

\* Drafting a node again clears its closure error: "regen required before
\* re-planning".
RegenClearsError ==
  [][\A k \in Key : Built(k) /\ impl'[k].drafts > impl[k].drafts => k \notin ClosureErrors']_vars
-----------------------------------------------------------------------------
(* The inductive invariants behind the properties above: what a call in    *)
(* progress may rely on.                                                   *)

\* An assignment works from the target as it is on disk, without the feature.
AssignInv ==
  job.at = "assign" =>
    /\ job.to \in Present
    /\ job.target = phases[job.to]
    /\ job.feature \notin job.target.features

\* A mint that no longer lists a node has settled it; built ones were settled
\* when it began.
MintInv ==
  job.at = "mint" =>
    /\ plan = Planned
    /\ job.todo \subseteq Planned
    /\ \A x \in Planned :
         x \notin job.todo \/ Built(KeyOf(x))
           => impl[KeyOf(x)] # NoImpl /\ impl[KeyOf(x)].closure = x.closure

\* What a phase is building is in the plan file and in the live plan.
BuildInv == job.at = "build" => job.todo \subseteq plan /\ job.todo \subseteq Planned

\* Unless a mint died, a stub of the plan file has the closure of its node.
StubsInv ==
  ~ torn /\ job.at # "mint" =>
    \A x \in plan :
      impl[KeyOf(x)] # NoImpl /\ ~ Built(KeyOf(x)) => impl[KeyOf(x)].closure = x.closure

Inv == TypeOK /\ AssignInv /\ AtMostOnePhase /\ MintInv /\ BuildInv /\ StubsInv
=============================================================================
