-------------------------- MODULE PhasePlan_proofs --------------------------
(* What the plan made from any schedule that pulls no more promises, for   *)
(* every registry, every tier and every dependency graph.                  *)
EXTENDS PhasePlan, WellFoundedInduction, TLAPS

-----------------------------------------------------------------------------
(* Least and last *)

\* Least returns the smallest of any nonempty set of naturals.
LEMMA LeastExists ==
  ASSUME NEW S \in SUBSET Nat, S # {}
  PROVE  IsLeast(Least(S), S)
<1>. DEFINE R == {p \in Nat \X Nat : p[1] < p[2]}
<1>1. IsWellFoundedOn(R, Nat)
  BY NatLessThanWellFounded, Zenon DEF OpToRel
<1>. HIDE DEF R
<1>2. PICK m \in S : \A n \in S : ~ (<<n, m>> \in R)
  BY <1>1, WFMin, Zenon
<1>3. ASSUME NEW n \in S PROVE m <= n
  <2>1. m \in Nat /\ n \in Nat
    OBVIOUS
  <2>2. n < m => <<n, m>> \in R
    BY <2>1 DEF R
  <2>3. QED
    BY <1>2, <2>1, <2>2
<1>4. \E x \in S : IsLeast(x, S)
  BY <1>3 DEF IsLeast
<1>5. QED
  BY <1>4, Zenon DEF Least

\* It is the only element with that property.
LEMMA LeastUnique ==
  ASSUME NEW S \in SUBSET Nat, NEW m \in S, IsLeast(m, S)
  PROVE  Least(S) = m
<1>1. IsLeast(Least(S), S)
  BY Zenon DEF Least
<1>2. Least(S) \in Nat /\ m \in Nat /\ Least(S) <= m /\ m <= Least(S)
  BY <1>1 DEF IsLeast
<1>3. QED
  BY <1>2

\* The last phase is no earlier than any phase there is.
LEMMA MaxOrderLast ==
  ASSUME NEW in \in Input
  PROVE  /\ MaxOrder(in) \in Nat \ {0}
         /\ \A n \in in.orders : n <= MaxOrder(in)
<1>1. in.orders \subseteq Order
  BY DEF Input
<1>2. CASE in.orders = {}
  BY <1>2 DEF MaxOrder
<1>3. CASE in.orders # {}
  <2>1. \E m \in in.orders : \A n \in in.orders : n <= m
    BY <1>1, <1>3, OrderAssumption
  <2>2. /\ MaxOrder(in) \in in.orders
        /\ \A n \in in.orders : n <= MaxOrder(in)
    BY <1>3, <2>1 DEF MaxOrder
  <2>3. QED
    BY <1>1, <2>2, OrderAssumption
<1>4. QED
  BY <1>2, <1>3

\* The phases of features are phases there are.
LEMMA PhasesOfType ==
  ASSUME NEW in \in Input, NEW fs \in SUBSET Feature
  PROVE  PhasesOf(in, fs) \subseteq in.orders /\ PhasesOf(in, fs) \subseteq Nat \ {0}
BY OrderAssumption DEF PhasesOf, Input, Unphased

\* A component's own phase is a phase up to the last.
LEMMA AssignedType ==
  ASSUME NEW in \in Input, NEW c \in Comp
  PROVE  Assigned(in, c) \in Nat \ {0} /\ Assigned(in, c) <= MaxOrder(in)
<1>1. ServedBy(c) \in SUBSET Feature
  BY OwnsAssumption, ServesAssumption DEF ServedBy
<1>. DEFINE ps == PhasesOf(in, ServedBy(c))
<1>2. ps \subseteq in.orders /\ ps \subseteq Nat \ {0}
  BY <1>1, PhasesOfType
<1>3. CASE ps = {}
  BY <1>3, MaxOrderLast DEF Assigned
<1>4. CASE ps # {}
  <2>1. IsLeast(Least(ps), ps)
    BY <1>2, <1>4, LeastExists
  <2>2. Assigned(in, c) = Least(ps)
    BY <1>4 DEF Assigned
  <2>3. QED
    BY <1>2, <2>1, <2>2, MaxOrderLast DEF IsLeast
<1>5. QED
  BY <1>3, <1>4
-----------------------------------------------------------------------------
(* Who requires whom *)

\* The requirers of c are c and what depends on one of them, and no others.
LEMMA RequirersClosed ==
  ASSUME NEW in, NEW c \in Comp
  PROVE  /\ c \in Requirers(in, c)
         /\ \A x \in Requirers(in, c) : Dependents(in, x) \subseteq Requirers(in, c)
<1>1. c \in Requirers(in, c)
  BY DEF Requirers
<1>2. ASSUME NEW x \in Requirers(in, c), NEW y \in Dependents(in, x)
      PROVE  y \in Requirers(in, c)
  <2>1. y \in Comp
    BY DEF Dependents
  <2>2. ASSUME NEW S \in SUBSET Comp, c \in S, \A z \in S : Dependents(in, z) \subseteq S
        PROVE  y \in S
    BY <2>2 DEF Requirers
  <2>3. QED
    BY <2>1, <2>2 DEF Requirers
<1>3. QED
  BY <1>1, <1>2

LEMMA RequirersLeast ==
  ASSUME NEW in, NEW c \in Comp, NEW S \in SUBSET Comp,
         c \in S, \A x \in S : Dependents(in, x) \subseteq S
  PROVE  Requirers(in, c) \subseteq S
BY DEF Requirers

LEMMA RequirersTransitive ==
  ASSUME NEW in, NEW c \in Comp, NEW x \in Requirers(in, c)
  PROVE  Requirers(in, x) \subseteq Requirers(in, c)
<1>1. x \in Comp /\ Requirers(in, c) \in SUBSET Comp
  BY DEF Requirers
<1>2. QED
  BY <1>1, RequirersClosed, RequirersLeast

\* Whatever requires c, other than c, does so through a dependent of c.
LEMMA RequirersStart ==
  ASSUME NEW in, NEW c \in Comp, NEW d \in Requirers(in, c), d # c
  PROVE  \E z \in Dependents(in, c) : d \in Requirers(in, z)
<1>. DEFINE S == {c} \cup {w \in Comp : \E z \in Dependents(in, c) : w \in Requirers(in, z)}
<1>1. ASSUME NEW x \in S, NEW y \in Dependents(in, x)
      PROVE  y \in S
  <2>1. y \in Comp /\ Dependents(in, c) \subseteq Comp
    BY DEF Dependents
  <2>2. CASE x = c
    BY <2>1, <2>2, RequirersClosed
  <2>3. CASE x # c
    <3>1. PICK z \in Dependents(in, c) : x \in Requirers(in, z)
      BY <2>3
    <3>2. y \in Requirers(in, z)
      BY <2>1, <3>1, RequirersClosed
    <3>3. QED
      BY <2>1, <3>2
  <2>4. QED
    BY <2>2, <2>3
<1>2. Requirers(in, c) \subseteq S
  <2>1. S \in SUBSET Comp /\ c \in S
    OBVIOUS
  <2>. HIDE DEF S
  <2>2. QED
    BY <1>1, <2>1, RequirersLeast
<1>3. QED
  BY <1>2

-----------------------------------------------------------------------------
(* Schedules *)

\* What the fixpoint leaves: nothing is later than its own phase or than
\* anything that depends on it.
Schedule(in, eff) ==
  /\ eff \in [Comp -> Nat]
  /\ \A c \in Comp : eff[c] <= Assigned(in, c)
  /\ \A c, dep \in Comp : dep \in in.needs[c] => eff[dep] <= eff[c]

\* In a schedule nothing is later than anything that requires it.
LEMMA RequiredBefore ==
  ASSUME NEW in \in Input, NEW eff, Schedule(in, eff),
         NEW c \in Comp, NEW d \in Requirers(in, c)
  PROVE  d \in Comp /\ eff[c] <= eff[d]
<1>. DEFINE S == {x \in Comp : eff[c] <= eff[x]}
<1>1. c \in S
  BY DEF Schedule
<1>2. ASSUME NEW x \in S, NEW y \in Dependents(in, x)
      PROVE  y \in S
  <2>1. y \in Comp /\ x \in Comp /\ eff[x] <= eff[y]
    BY DEF Dependents, Schedule
  <2>2. eff[c] \in Nat /\ eff[x] \in Nat /\ eff[y] \in Nat /\ eff[c] <= eff[x]
    BY <2>1 DEF Schedule
  <2>3. QED
    BY <2>1, <2>2
<1>3. S \in SUBSET Comp
  OBVIOUS
<1>4. d \in S
  <2>. HIDE DEF S
  <2>1. QED
    BY <1>1, <1>2, <1>3, RequirersLeast
<1>5. QED
  BY <1>4

\* The pull of the dependents lies between a component's phase and theirs.
LEMMA PullFloorBounds ==
  ASSUME NEW in \in Input, NEW eff, Schedule(in, eff), NEW c \in Comp
  PROVE  /\ PullFloor(in, eff, c) \in Nat
         /\ eff[c] <= PullFloor(in, eff, c)
         /\ \A d \in Dependents(in, c) : PullFloor(in, eff, c) <= eff[d]
<1>. DEFINE S == {eff[d] : d \in Dependents(in, c)} \cup {MaxOrder(in) + 1}
<1>1. MaxOrder(in) \in Nat /\ eff[c] \in Nat /\ Assigned(in, c) \in Nat
      /\ eff[c] <= MaxOrder(in) + 1
  <2>1. /\ MaxOrder(in) \in Nat /\ eff[c] \in Nat /\ Assigned(in, c) \in Nat
        /\ eff[c] <= Assigned(in, c) /\ Assigned(in, c) <= MaxOrder(in)
    BY MaxOrderLast, AssignedType DEF Schedule
  <2>2. QED
    BY <2>1
<1>2. \A d \in Dependents(in, c) : eff[d] \in Nat /\ eff[c] <= eff[d]
  BY DEF Dependents, Schedule
<1>3. S \in SUBSET Nat /\ S # {} /\ \A n \in S : eff[c] <= n
  BY <1>1, <1>2
<1>4. IsLeast(Least(S), S)
  BY <1>3, LeastExists
<1>5. PullFloor(in, eff, c) = Least(S)
  BY DEF PullFloor
<1>6. QED
  BY <1>3, <1>4, <1>5 DEF IsLeast

\* A responsibility is naturally needed no earlier than its component, and
\* no later than any feature it serves.
LEMMA NaturalBounds ==
  ASSUME NEW in \in Input, NEW c \in Comp, NEW r \in Owns[c]
  PROVE  /\ Natural(in, c, r) \in Nat
         /\ Assigned(in, c) <= Natural(in, c, r)
         /\ \A f \in Serves[r] : in.phaseOf[f] # Unphased => Natural(in, c, r) <= in.phaseOf[f]
<1>. DEFINE ps == PhasesOf(in, Serves[r])
            all == PhasesOf(in, ServedBy(c))
<1>1. r \in Resp /\ Serves[r] \in SUBSET Feature /\ ServedBy(c) \in SUBSET Feature
  BY OwnsAssumption, ServesAssumption DEF ServedBy
<1>2. ps \in SUBSET Nat /\ all \in SUBSET Nat
  BY <1>1, PhasesOfType
<1>3. ps \subseteq all
  BY DEF PhasesOf, ServedBy
<1>4. \A f \in Serves[r] : in.phaseOf[f] # Unphased => in.phaseOf[f] \in ps
  BY DEF PhasesOf
<1>5. CASE ps = {}
  <2>1. Natural(in, c, r) = Assigned(in, c)
    BY <1>5 DEF Natural
  <2>2. QED
    BY <1>4, <1>5, <2>1, AssignedType
<1>6. CASE ps # {}
  <2>1. IsLeast(Least(ps), ps) /\ IsLeast(Least(all), all)
    BY <1>2, <1>3, <1>6, LeastExists
  <2>2. Natural(in, c, r) = Least(ps)
    BY <1>6 DEF Natural
  <2>3. Assigned(in, c) = Least(all)
    BY <1>3, <1>6 DEF Assigned
  <2>. HIDE DEF ps, all
  <2>4. QED
    BY <1>2, <1>3, <1>4, <2>1, <2>2, <2>3 DEF IsLeast
<1>7. QED
  BY <1>5, <1>6

\* A responsibility is built no earlier than its component's phase, and no
\* later than its natural phase and the pull.
LEMMA RespPhaseBounds ==
  ASSUME NEW in \in Input, NEW eff, Schedule(in, eff),
         NEW s \in Sub, NEW r \in SubOwns[s]
  PROVE  /\ RespPhase(in, eff, s, r) \in Nat
         /\ eff[CompOf[s]] <= RespPhase(in, eff, s, r)
         /\ RespPhase(in, eff, s, r) <= Natural(in, CompOf[s], r)
         /\ RespPhase(in, eff, s, r) <= PullFloor(in, eff, CompOf[s])
<1>. DEFINE c == CompOf[s]
            S == {Natural(in, c, r), PullFloor(in, eff, c)}
<1>1. c \in Comp /\ r \in Owns[c]
  BY CompOfAssumption, SubOwnsAssumption
<1>2. Natural(in, c, r) \in Nat /\ PullFloor(in, eff, c) \in Nat /\ eff[c] <= PullFloor(in, eff, c)
  BY <1>1, NaturalBounds, PullFloorBounds
<1>3. eff[c] <= Natural(in, c, r)
  <2>1. /\ eff[c] \in Nat /\ Assigned(in, c) \in Nat
        /\ eff[c] <= Assigned(in, c) /\ Assigned(in, c) <= Natural(in, c, r)
    BY <1>1, NaturalBounds, AssignedType DEF Schedule
  <2>2. QED
    BY <1>2, <2>1
<1>4. IsLeast(Least(S), S)
  BY <1>2, LeastExists
<1>5. RespPhase(in, eff, s, r) = Least(S)
  BY DEF RespPhase
<1>6. QED
  BY <1>2, <1>3, <1>4, <1>5 DEF IsLeast
-----------------------------------------------------------------------------
(* Nodes *)

\* Every responsibility of a subcomponent is in the node of its own phase.
LEMMA NodeOfResp ==
  ASSUME NEW in \in Input, NEW eff, Schedule(in, eff),
         NEW s \in Sub, NEW r \in SubOwns[s]
  PROVE  \E y \in Nodes(in, eff) :
           y.sub = s /\ y.phase = RespPhase(in, eff, s, r) /\ r \in y.closure
<1>. DEFINE n == RespPhase(in, eff, s, r)
            y == [sub |-> s, phase |-> n, closure |-> Closure(in, eff, s, n)]
<1>1. n \in NodePhases(in, eff, s)
  BY DEF NodePhases
<1>2. n <= n
  BY RespPhaseBounds
<1>3. r \in Closure(in, eff, s, n)
  BY <1>2 DEF Closure
<1>4. y \in Nodes(in, eff)
  BY <1>1 DEF Nodes
<1>5. QED
  BY <1>3, <1>4

\* A node is of some subcomponent, at one of its phases: no earlier than its
\* component's phase and no later than the first dependent's.
LEMMA NodeBounds ==
  ASSUME NEW in \in Input, NEW eff, Schedule(in, eff), NEW x \in Nodes(in, eff)
  PROVE  /\ x.sub \in Sub /\ CompOf[x.sub] \in Comp
         /\ x.phase \in Nat
         /\ eff[CompOf[x.sub]] <= x.phase
         /\ \A d \in Dependents(in, CompOf[x.sub]) : x.phase <= eff[d]
<1>0. PICK s \in Sub :
        x \in {[sub |-> s, phase |-> n, closure |-> Closure(in, eff, s, n)] :
                 n \in NodePhases(in, eff, s)}
  BY DEF Nodes
<1>1. PICK n \in NodePhases(in, eff, s) :
        x = [sub |-> s, phase |-> n, closure |-> Closure(in, eff, s, n)]
  BY <1>0
<1>. DEFINE c == CompOf[s]
<1>2. c \in Comp
  BY CompOfAssumption
<1>3. /\ PullFloor(in, eff, c) \in Nat
      /\ eff[c] \in Nat /\ eff[c] <= PullFloor(in, eff, c)
      /\ \A d \in Dependents(in, c) : eff[d] \in Nat /\ PullFloor(in, eff, c) <= eff[d]
  BY <1>2, PullFloorBounds DEF Schedule, Dependents
<1>4. n \in Nat /\ eff[c] <= n /\ n <= PullFloor(in, eff, c)
  <2>1. CASE SubOwns[s] = {}
    BY <1>2, <1>3, <2>1 DEF NodePhases
  <2>2. CASE SubOwns[s] # {}
    BY <2>2, RespPhaseBounds DEF NodePhases
  <2>3. QED
    BY <2>1, <2>2
<1>5. \A d \in Dependents(in, c) : n <= eff[d]
  BY <1>3, <1>4
<1>6. QED
  BY <1>1, <1>2, <1>4, <1>5

-----------------------------------------------------------------------------
(* What a plan promises *)

\* A plan made from a schedule builds nothing before what it requires.
THEOREM PlanBuildsInOrder ==
  ASSUME NEW in \in Input, NEW eff, Schedule(in, eff)
  PROVE  RequiredWorkIsEarlier(in, Nodes(in, eff))
<1>1. SUFFICES ASSUME NEW x \in Nodes(in, eff), NEW t \in Sub,
                      CompOf[x.sub] \in Requirers(in, CompOf[t]) \ {CompOf[t]},
                      NEW r \in SubOwns[t]
               PROVE  \E y \in Nodes(in, eff) : y.sub = t /\ y.phase <= x.phase /\ r \in y.closure
  BY DEF RequiredWorkIsEarlier
<1>. DEFINE c == CompOf[x.sub]
            d == CompOf[t]
            n == RespPhase(in, eff, t, r)
<1>2. d \in Comp /\ c \in Comp /\ c # d /\ c \in Requirers(in, d)
  BY <1>1, CompOfAssumption, NodeBounds
<1>3. PICK z \in Dependents(in, d) : c \in Requirers(in, z)
  BY <1>2, RequirersStart
<1>4. z \in Comp /\ eff[z] <= eff[c]
  BY <1>3, RequiredBefore DEF Dependents
<1>5. n <= PullFloor(in, eff, d) /\ PullFloor(in, eff, d) <= eff[z]
  BY <1>2, <1>3, RespPhaseBounds, PullFloorBounds
<1>6. eff[c] <= x.phase
  BY NodeBounds
<1>7. n \in Nat /\ PullFloor(in, eff, d) \in Nat /\ eff[z] \in Nat /\ eff[c] \in Nat /\ x.phase \in Nat
  BY <1>2, <1>4, RespPhaseBounds, PullFloorBounds, NodeBounds DEF Schedule
<1>8. n <= x.phase
  BY <1>4, <1>5, <1>6, <1>7
<1>9. QED
  BY <1>8, NodeOfResp

\* A plan made from a schedule delivers every feature in its own phase.
THEOREM PlanDeliversOnTime ==
  ASSUME NEW in \in Input, NEW eff, Schedule(in, eff)
  PROVE  FeaturesOnTime(in, Nodes(in, eff))
<1>1. SUFFICES ASSUME NEW f \in Feature, NEW s \in Sub, NEW r \in SubOwns[s],
                      f \in Serves[r], in.phaseOf[f] # Unphased
               PROVE  \E y \in Nodes(in, eff) :
                        y.sub = s /\ y.phase <= in.phaseOf[f] /\ r \in y.closure
  BY DEF FeaturesOnTime
<1>. DEFINE n == RespPhase(in, eff, s, r)
            q == Natural(in, CompOf[s], r)
<1>2. CompOf[s] \in Comp /\ r \in Owns[CompOf[s]]
  BY CompOfAssumption, SubOwnsAssumption
<1>3. n \in Nat /\ q \in Nat /\ n <= q /\ q <= in.phaseOf[f]
  BY <1>1, <1>2, RespPhaseBounds, NaturalBounds
<1>4. in.phaseOf[f] \in Nat
  <2>1. in.phaseOf \in [Feature -> Order \cup {0}]
    BY DEF Input, Unphased
  <2>2. in.phaseOf[f] \in Order \cup {0}
    BY <2>1
  <2>3. \A o \in Order \cup {0} : o \in Nat
    BY OrderAssumption
  <2>4. QED
    BY <2>2, <2>3, Zenon
<1>5. n <= in.phaseOf[f]
  BY <1>3, <1>4
<1>6. QED
  BY <1>5, NodeOfResp

-----------------------------------------------------------------------------
(* The sort of a phase *)

\* A component between two components of a phase, with a subcomponent, has a
\* node in that phase too.
LEMMA BetweenIsHere ==
  ASSUME NEW in \in Input, NEW eff, Schedule(in, eff), NEW n,
         NEW x \in CompsHere(Nodes(in, eff), n), NEW d \in CompsHere(Nodes(in, eff), n),
         NEW y \in Dependents(in, x), d \in Requirers(in, y),
         NEW s \in Sub, CompOf[s] = y
  PROVE  y \in CompsHere(Nodes(in, eff), n)
<1>1. CASE y = d
  BY <1>1
<1>2. CASE y # d
  <2>1. x \in Comp /\ d \in Comp /\ y \in Comp /\ n \in Nat /\ n <= eff[y] /\ eff[d] <= n
    BY NodeBounds DEF CompsHere, Dependents
  <2>2. PICK z \in Dependents(in, y) : d \in Requirers(in, z)
    BY <1>2, <2>1, RequirersStart
  <2>3. z \in Comp /\ eff[z] <= eff[d] /\ eff[y] <= eff[z]
    BY <2>2, RequiredBefore DEF Dependents, Schedule
  <2>4. eff[y] \in Nat /\ eff[d] \in Nat /\ eff[z] \in Nat
    BY <2>1, <2>3 DEF Schedule
  <2>5. eff[y] = n /\ eff[z] = n
    BY <2>1, <2>3, <2>4
  <2>6. PullFloor(in, eff, y) \in Nat /\ PullFloor(in, eff, y) <= n
    BY <2>1, <2>2, <2>5, PullFloorBounds
  <2>7. n \in NodePhases(in, eff, s)
    <3>1. CASE SubOwns[s] = {}
      BY <2>5, <3>1 DEF NodePhases
    <3>2. CASE SubOwns[s] # {}
      <4>1. PICK r \in SubOwns[s] : TRUE
        BY <3>2
      <4>2. /\ RespPhase(in, eff, s, r) \in Nat
            /\ n <= RespPhase(in, eff, s, r)
            /\ RespPhase(in, eff, s, r) <= PullFloor(in, eff, y)
        BY <2>5, RespPhaseBounds
      <4>3. RespPhase(in, eff, s, r) = n
        BY <2>1, <2>6, <4>2
      <4>4. QED
        BY <3>2, <4>3 DEF NodePhases
    <3>3. QED
      BY <3>1, <3>2
  <2>8. [sub |-> s, phase |-> n, closure |-> Closure(in, eff, s, n)] \in Nodes(in, eff)
    BY <2>7 DEF Nodes
  <2>9. QED
    BY <2>8 DEF CompsHere
<1>3. QED
  BY <1>1, <1>2

\* The sort of a phase, from the edges inside the phase alone, orders every
\* two of its components of which one requires the other.
THEOREM PlanSortsRequirements ==
  ASSUME NEW in \in Input, NEW eff, Schedule(in, eff)
  PROVE  SortSeesEveryRequirement(in, Nodes(in, eff))
<1>1. SUFFICES ASSUME \A e \in Comp : \E s \in Sub : CompOf[s] = e,
                      NEW n \in in.orders,
                      NEW c \in CompsHere(Nodes(in, eff), n),
                      NEW d \in CompsHere(Nodes(in, eff), n),
                      d \in Requirers(in, c) \ {c}
               PROVE  d \in After(in, Nodes(in, eff), n, c)
  BY DEF SortSeesEveryRequirement
<1>. DEFINE here == CompsHere(Nodes(in, eff), n)
            inside == [in EXCEPT !.needs = NeedsHere(in, Nodes(in, eff), n)]
<1>2. here \subseteq Comp
  BY NodeBounds DEF CompsHere
<1>3. \A x, y \in here : y \in Dependents(in, x) => y \in Dependents(inside, x)
  BY <1>2 DEF Dependents, NeedsHere, Input
<1>4. SUFFICES ASSUME NEW S \in SUBSET Comp, c \in S,
                      \A x \in S : Dependents(inside, x) \subseteq S, d \notin S
               PROVE  FALSE
  BY <1>1, <1>2 DEF After, Requirers
<1>. DEFINE Q == (S \cap here) \cup {x \in Comp : d \notin Requirers(in, x)}
<1>5. ASSUME NEW x \in Q, NEW y \in Dependents(in, x)
      PROVE  y \in Q
  <2>1. x \in Comp /\ y \in Comp
    BY <1>2 DEF Dependents
  <2>2. CASE d \notin Requirers(in, y)
    BY <2>1, <2>2
  <2>3. CASE d \in Requirers(in, y)
    <3>1. d \in Requirers(in, x)
      <4>1. y \in Requirers(in, x)
        BY <2>1, RequirersClosed
      <4>2. QED
        BY <2>1, <2>3, <4>1, RequirersTransitive
    <3>2. x \in S /\ x \in here
      BY <3>1
    <3>3. PICK s \in Sub : CompOf[s] = y
      BY <1>1, <2>1
    <3>4. y \in here
      BY <2>3, <3>2, <3>3, BetweenIsHere
    <3>5. y \in Dependents(inside, x)
      BY <1>3, <3>2, <3>4
    <3>6. QED
      BY <1>4, <3>2, <3>4, <3>5
  <2>4. QED
    BY <2>2, <2>3
<1>6. Q \in SUBSET Comp /\ c \in Q
  BY <1>2, <1>4
<1>7. d \in Q
  <2>. HIDE DEF Q
  <2>1. c \in Comp
    BY <1>6
  <2>2. QED
    BY <1>1, <1>5, <1>6, <2>1, RequirersLeast
<1>8. d \in Requirers(in, d)
  BY <1>2, RequirersClosed
<1>9. QED
  BY <1>4, <1>7, <1>8

\* Two nodes of a plan that are the same subcomponent in the same phase are
\* the same node.
LEMMA NodeShape ==
  ASSUME NEW in, NEW eff, NEW x \in Nodes(in, eff)
  PROVE  /\ x.sub \in Sub
         /\ x = [sub |-> x.sub, phase |-> x.phase, closure |-> Closure(in, eff, x.sub, x.phase)]
<1>1. PICK s \in Sub :
        x \in {[sub |-> s, phase |-> n, closure |-> Closure(in, eff, s, n)] :
                 n \in NodePhases(in, eff, s)}
  BY DEF Nodes
<1>2. PICK n \in NodePhases(in, eff, s) :
        x = [sub |-> s, phase |-> n, closure |-> Closure(in, eff, s, n)]
  BY <1>1
<1>3. QED
  BY <1>2

\* The earliest phases of the requirers are a schedule.
LEMMA EarliestIsSchedule ==
  ASSUME NEW in \in Input
  PROVE  /\ Schedule(in, [c \in Comp |-> Earliest(in, c)])
         /\ \A c \in Comp : \E d \in Comp : Earliest(in, c) = Assigned(in, d)
<1>. DEFINE S(c) == {Assigned(in, d) : d \in Requirers(in, c)}
            eff == [c \in Comp |-> Earliest(in, c)]
<1>1. ASSUME NEW c \in Comp
      PROVE  /\ S(c) \in SUBSET Nat /\ IsLeast(Earliest(in, c), S(c))
             /\ Assigned(in, c) \in S(c)
             /\ \E d \in Comp : Earliest(in, c) = Assigned(in, d)
  <2>1. Requirers(in, c) \subseteq Comp /\ c \in Requirers(in, c)
    BY RequirersClosed DEF Requirers
  <2>2. S(c) \in SUBSET Nat /\ S(c) # {} /\ Assigned(in, c) \in S(c)
    BY <2>1, AssignedType
  <2>3. IsLeast(Least(S(c)), S(c))
    BY <2>2, LeastExists
  <2>4. IsLeast(Earliest(in, c), S(c))
    BY <2>3 DEF Earliest
  <2>5. QED
    BY <2>1, <2>2, <2>4 DEF IsLeast
<1>2. \A c \in Comp : Earliest(in, c) \in Nat /\ Earliest(in, c) <= Assigned(in, c)
  BY <1>1 DEF IsLeast
<1>3. ASSUME NEW c \in Comp, NEW dep \in Comp, dep \in in.needs[c]
      PROVE  Earliest(in, dep) <= Earliest(in, c)
  <2>1. c \in Requirers(in, dep)
    BY <1>3, RequirersClosed DEF Dependents
  <2>2. S(c) \subseteq S(dep)
    BY <2>1, RequirersTransitive
  <2>3. Earliest(in, c) \in S(dep)
    BY <1>1, <2>2 DEF IsLeast
  <2>. HIDE DEF S
  <2>4. QED
    BY <1>1, <2>3 DEF IsLeast
<1>4. QED
  BY <1>1, <1>2, <1>3 DEF Schedule

\* When there is a phase, responsibilities are built in phases there are.
LEMMA RespPhaseListed ==
  ASSUME NEW in \in Input, in.orders # {}, NEW s \in Sub, NEW r \in SubOwns[s]
  PROVE  RespPhase(in, [c \in Comp |-> Earliest(in, c)], s, r) \in in.orders
<1>. DEFINE eff == [c \in Comp |-> Earliest(in, c)]
            n == RespPhase(in, eff, s, r)
            o == CompOf[s]
<1>0. o \in Comp /\ r \in Owns[o] /\ r \in Resp /\ Schedule(in, eff)
  BY CompOfAssumption, OwnsAssumption, SubOwnsAssumption, EarliestIsSchedule
<1>1. in.orders \in SUBSET Nat
  BY OrderAssumption DEF Input
<1>2. MaxOrder(in) \in in.orders
  <2>1. \E m \in in.orders : \A k \in in.orders : k <= m
    BY OrderAssumption DEF Input
  <2>2. QED
    BY <2>1 DEF MaxOrder
<1>3. \A fs \in SUBSET Feature :
        PhasesOf(in, fs) # {} => Least(PhasesOf(in, fs)) \in in.orders
  <2>. SUFFICES ASSUME NEW fs \in SUBSET Feature, PhasesOf(in, fs) # {}
               PROVE  Least(PhasesOf(in, fs)) \in in.orders
    OBVIOUS
  <2>1. PhasesOf(in, fs) \subseteq in.orders /\ PhasesOf(in, fs) \in SUBSET Nat
    BY PhasesOfType
  <2>2. IsLeast(Least(PhasesOf(in, fs)), PhasesOf(in, fs))
    BY <2>1, LeastExists
  <2>3. QED
    BY <2>1, <2>2 DEF IsLeast
<1>4. \A c \in Comp : Assigned(in, c) \in in.orders
  <2>. SUFFICES ASSUME NEW c \in Comp PROVE Assigned(in, c) \in in.orders
    OBVIOUS
  <2>1. ServedBy(c) \in SUBSET Feature
    BY OwnsAssumption, ServesAssumption DEF ServedBy
  <2>2. QED
    BY <1>2, <1>3, <2>1 DEF Assigned
<1>5. Natural(in, o, r) \in in.orders
  <2>1. Serves[r] \in SUBSET Feature
    BY <1>0, ServesAssumption
  <2>2. QED
    BY <1>0, <1>3, <1>4, <2>1 DEF Natural
<1>6. PullFloor(in, eff, o) \in in.orders \cup {MaxOrder(in) + 1}
  <2>. DEFINE S == {eff[d] : d \in Dependents(in, o)} \cup {MaxOrder(in) + 1}
  <2>1. \A d \in Comp : eff[d] \in in.orders
    BY <1>4, EarliestIsSchedule
  <2>2. S \subseteq in.orders \cup {MaxOrder(in) + 1}
    BY <2>1 DEF Dependents
  <2>3. S \in SUBSET Nat /\ S # {}
    BY <1>1, <1>2, <2>2
  <2>4. IsLeast(Least(S), S)
    BY <2>3, LeastExists
  <2>5. PullFloor(in, eff, o) = Least(S)
    BY DEF PullFloor
  <2>. HIDE DEF S
  <2>6. QED
    BY <2>2, <2>4, <2>5 DEF IsLeast
<1>7. /\ n \in {Natural(in, o, r), PullFloor(in, eff, o)}
      /\ n <= Natural(in, o, r)
  <2>1. {Natural(in, o, r), PullFloor(in, eff, o)} \in SUBSET Nat
    BY <1>1, <1>2, <1>5, <1>6
  <2>2. IsLeast(Least({Natural(in, o, r), PullFloor(in, eff, o)}), {Natural(in, o, r), PullFloor(in, eff, o)})
    BY <2>1, LeastExists
  <2>3. QED
    BY <2>2 DEF IsLeast, RespPhase
<1>8. Natural(in, o, r) <= MaxOrder(in)
  BY <1>5, MaxOrderLast
<1>. HIDE DEF n, eff
<1>9. n \in in.orders
  <2>1. Natural(in, o, r) \in Nat /\ MaxOrder(in) \in Nat
    BY <1>1, <1>2, <1>5
  <2>2. QED
    BY <1>5, <1>6, <1>7, <1>8, <2>1
<1>10. QED
  BY <1>9 DEF n, eff
=============================================================================
