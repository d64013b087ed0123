------------------------------ MODULE PhasePlan ------------------------------
(***************************************************************************)
(* The phasing projection (siege/projection/plan.py).                      *)
(*                                                                         *)
(* The phase registry puts features into ordered phases.  compute_plan     *)
(* derives from it, from the requirements, comparch and subcomparch tiers, *)
(* which implementation nodes each phase builds: a subcomponent gets one   *)
(* node per phase in which it picks up responsibilities, and a component   *)
(* is pulled to an earlier phase when something that requires it is there. *)
(*                                                                         *)
(* What a plan is computed from is a record `in': the phase of every       *)
(* feature (0 when it has none), the orders of the phases there are, and   *)
(* the components each component depends on.  The tiers that registry      *)
(* edits never touch are constants.  Left out: warnings, the list of       *)
(* rearrangements, names and timestamps.                                   *)
(***************************************************************************)
EXTENDS Integers

CONSTANTS
  Feature, Resp, Comp, Sub,
  Order,   \* the orders a phase can have
  Serves,  \* the features a responsibility derives from
  Owns,    \* the responsibilities of a component
  CompOf,  \* the component a subcomponent belongs to
  SubOwns  \* its slice of that component's responsibilities

\* Among any phases there are, one is the last.
ASSUME OrderAssumption ==
  /\ Order \subseteq Nat \ {0}
  /\ \A os \in (SUBSET Order) \ {{}} : \E m \in os : \A n \in os : n <= m
ASSUME ServesAssumption == Serves \in [Resp -> SUBSET Feature]
ASSUME OwnsAssumption == Owns \in [Comp -> SUBSET Resp]
ASSUME CompOfAssumption == CompOf \in [Sub -> Comp]
ASSUME SubOwnsAssumption ==
  /\ SubOwns \in [Sub -> SUBSET Resp]
  /\ \A s \in Sub : SubOwns[s] \subseteq Owns[CompOf[s]]
-----------------------------------------------------------------------------
Unphased == 0

Input ==
  {in \in [phaseOf : [Feature -> Order \cup {Unphased}],
           orders : SUBSET Order,
           needs : [Comp -> SUBSET Comp]] :
     \A f \in Feature : in.phaseOf[f] \in in.orders \cup {Unphased}}

IsLeast(m, S) == m \in S /\ \A n \in S : m <= n
Least(S) == CHOOSE m \in S : IsLeast(m, S)

\* max_order: the final phase, 1 when there is none.
MaxOrder(in) == IF in.orders = {} THEN 1 ELSE CHOOSE m \in in.orders : \A n \in in.orders : n <= m

\* The phases of the features in a set that have one.
PhasesOf(in, features) == {in.phaseOf[f] : f \in features} \ {Unphased}

ServedBy(c) == UNION {Serves[r] : r \in Owns[c]}

\* Step 3: a component is first needed with the earliest of its features.
Assigned(in, c) ==
  LET ps == PhasesOf(in, ServedBy(c)) IN IF ps = {} THEN MaxOrder(in) ELSE Least(ps)

Dependents(in, c) == {d \in Comp : c \in in.needs[d]}

\* c and everything that requires it, directly or not.
Requirers(in, c) ==
  {d \in Comp :
    \A S \in SUBSET Comp :
      c \in S /\ (\A x \in S : Dependents(in, x) \subseteq S) => d \in S}

\* What step 4 is to compute: a component is scheduled with the earliest of
\* the components that require it.  PhaseLoop has the loop itself.
Earliest(in, c) == Least({Assigned(in, d) : d \in Requirers(in, c)})
-----------------------------------------------------------------------------
(* From here on eff is the effective phase of every component. *)

\* A slip of the next definition: the pull of a dependent's own phase, and
\* not of the phase it is itself pulled to.
PullFloorAssigned(in, eff, c) ==
  Least({Assigned(in, d) : d \in Dependents(in, c)} \cup {MaxOrder(in) + 1})

\* pull_floor: the earliest phase a dependent needs c, past the end if none.
PullFloor(in, eff, c) ==
  Least({eff[d] : d \in Dependents(in, c)} \cup {MaxOrder(in) + 1})

\* A slip of the next definition: a responsibility waits for all its features.
NaturalLatest(in, c, r) ==
  LET ps == PhasesOf(in, Serves[r])
  IN IF ps = {} THEN Assigned(in, c) ELSE CHOOSE m \in ps : \A n \in ps : n <= m

\* A responsibility is first needed with the earliest of its features.
Natural(in, c, r) ==
  LET ps == PhasesOf(in, Serves[r]) IN IF ps = {} THEN Assigned(in, c) ELSE Least(ps)

RespPhase(in, eff, s, r) ==
  Least({Natural(in, CompOf[s], r), PullFloor(in, eff, CompOf[s])})

\* One node per distinct phase; a subcomponent with nothing to do gets one.
NodePhases(in, eff, s) ==
  IF SubOwns[s] = {} THEN {eff[CompOf[s]]} ELSE {RespPhase(in, eff, s, r) : r \in SubOwns[s]}

Closure(in, eff, s, n) == {r \in SubOwns[s] : RespPhase(in, eff, s, r) <= n}

Nodes(in, eff) ==
  UNION {{[sub |-> s, phase |-> n, closure |-> Closure(in, eff, s, n)] :
            n \in NodePhases(in, eff, s)} : s \in Sub}
-----------------------------------------------------------------------------
(* Step 6: the build order inside a phase *)

\* The components with a node in the phase.
CompsHere(nodes, n) == {CompOf[x.sub] : x \in {y \in nodes : y.phase = n}}

\* The dependency edges the sort of a phase works from: those between two
\* components of the phase.
NeedsHere(in, nodes, n) ==
  [c \in Comp |-> IF c \in CompsHere(nodes, n) THEN in.needs[c] \cap CompsHere(nodes, n) ELSE {}]

\* The components the sort puts after c.  On a cycle it gives up and appends.
After(in, nodes, n, c) == Requirers([in EXCEPT !.needs = NeedsHere(in, nodes, n)], c) \ {c}
-----------------------------------------------------------------------------
(* What a plan promises, whatever the input *)

\* A node is never scheduled before what its component is built on: every
\* responsibility of everything its component requires, directly or not, is
\* in a node of the same phase or an earlier one.
RequiredWorkIsEarlier(in, nodes) ==
  \A x \in nodes, t \in Sub :
    CompOf[x.sub] \in Requirers(in, CompOf[t]) \ {CompOf[t]}
      => \A r \in SubOwns[t] :
           \E y \in nodes : y.sub = t /\ y.phase <= x.phase /\ r \in y.closure

\* A feature is complete in its own phase: everything that serves it is.
FeaturesOnTime(in, nodes) ==
  \A f \in Feature, s \in Sub : \A r \in SubOwns[s] :
    f \in Serves[r] /\ in.phaseOf[f] # Unphased
      => \E y \in nodes : y.sub = s /\ y.phase <= in.phaseOf[f] /\ r \in y.closure

\* The sort of a phase, which only sees edges between its own components,
\* still puts every component after all it requires in that phase, provided
\* no component on the way is without subcomponents.
SortSeesEveryRequirement(in, nodes) ==
  (\A c \in Comp : \E s \in Sub : CompOf[s] = c) =>
    \A n \in in.orders : \A c, d \in CompsHere(nodes, n) :
      d \in Requirers(in, c) \ {c} => d \in After(in, nodes, n, c)
=============================================================================
