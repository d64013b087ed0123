------------------------------ MODULE PhaseLoop ------------------------------
(***************************************************************************)
(* The fixpoint of compute_plan (siege/projection/plan.py, step 4): as     *)
(* long as a sweep over the comparch dependency edges changed something,   *)
(* sweep again, pulling every component to the phase of what depends on    *)
(* it.  One step is one edge that pulls; a sweep visits edges in the order *)
(* of the files in the tree, taken here to be any order.                   *)
(***************************************************************************)
EXTENDS PhasePlan

VARIABLES
  in,        \* what the plan is computed from
  effective, \* the effective phase of every component, so far
  done       \* whether a whole sweep changed nothing

loopVars == <<in, effective, done>>
-----------------------------------------------------------------------------
LoopTypeOK ==
  /\ in \in Input
  /\ effective \in [Comp -> Nat]
  /\ done \in BOOLEAN

LoopInit ==
  /\ in \in Input
  /\ effective = [c \in Comp |-> Assigned(in, c)]
  /\ done = FALSE

\* A slip of the next definition: an equal phase counts as a change.
PullsEqual(c, dep) == dep \in in.needs[c] /\ effective[dep] >= effective[c]

\* dep must be ready when c builds.
Pulls(c, dep) == dep \in in.needs[c] /\ effective[dep] > effective[c]

Pull(c, dep) ==
  /\ ~ done
  /\ Pulls(c, dep)
  /\ effective' = [effective EXCEPT ![dep] = effective[c]]
  /\ UNCHANGED <<in, done>>

\* A slip of the next definition: it ends before a sweep without a change.
FinishEarly ==
  /\ ~ done
  /\ done' = TRUE
  /\ UNCHANGED <<in, effective>>

Finish ==
  /\ ~ done
  /\ \A c, dep \in Comp : ~ Pulls(c, dep)
  /\ done' = TRUE
  /\ UNCHANGED <<in, effective>>

LoopNext == Finish \/ \E c, dep \in Comp : Pull(c, dep)

LoopSpec == LoopInit /\ [][LoopNext]_loopVars
FairLoopSpec == LoopSpec /\ WF_loopVars(LoopNext)
-----------------------------------------------------------------------------
(* Properties *)

\* When the loop ends, a component is scheduled exactly with the earliest
\* of the components that require it, directly or not, in cycles too.
ScheduleIsEarliest ==
  done => \A c \in Comp : effective[c] = Earliest(in, c)

\* A plan never builds a node before something its component requires.
PlanBuildsOnFinishedWork == done => RequiredWorkIsEarlier(in, Nodes(in, effective))

\* A plan delivers every feature in the phase the registry asks for.
PlanDelivers == done => FeaturesOnTime(in, Nodes(in, effective))

\* The build order of a phase loses no requirement.
PlanSortsPhases == done => SortSeesEveryRequirement(in, Nodes(in, effective))

\* The loop ends on every input, whatever the order of the sweeps.
LoopEnds == <>done
-----------------------------------------------------------------------------
(* The inductive invariant: every effective phase is the assigned phase of *)
(* some requirer, and no later than the component's own.                   *)
EffectiveInv ==
  \A c \in Comp :
    /\ effective[c] \in {Assigned(in, d) : d \in Requirers(in, c)}
    /\ effective[c] <= Assigned(in, c)

DoneInv == done => \A c, dep \in Comp : ~ Pulls(c, dep)
=============================================================================
