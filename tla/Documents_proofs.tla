--------------------------- MODULE Documents_proofs ---------------------------
(***************************************************************************)
(* What the validators and the readers of the graph promise together, for  *)
(* any set of answers, any number of components and any graph between      *)
(* them: the searches for cycles, the build order, and the five invariants *)
(* of Documents.                                                           *)
(***************************************************************************)
EXTENDS Documents, FunctionTheorems, FiniteSetTheorems, WellFoundedInduction, TLAPS

---------------------------------------------------------------------------
(* Loops *)

\* A set of naturals that is not empty has a first member.
LEMMA FirstMember ==
  ASSUME NEW S \in SUBSET Nat, S # {}
  PROVE  \E n \in S : n = 0 \/ (n - 1 \in Nat /\ n - 1 \notin S)
<1>1. PICK n \in S : \A m \in S : <<m, n>> \notin OpToRel(<, Nat)
  BY NatLessThanWellFounded, WFMin
<1>2. n # 0 => n - 1 \in Nat /\ <<n - 1, n>> \in OpToRel(<, Nat)
  BY DEF OpToRel
<1>3. QED
  BY <1>1, <1>2

\* f is what the first m rounds of a loop make of its start.
Rounds(f, m, step, start) ==
  f = [k \in 0 .. m |-> IF k = 0 THEN start ELSE step[f[k - 1]]]

LEMMA RoundsExist ==
  ASSUME NEW step, NEW start, NEW m \in Nat
  PROVE  \E f : Rounds(f, m, step, start)
<1> DEFINE Bad == {n \in Nat : ~ \E f : Rounds(f, n, step, start)}
<1> SUFFICES ASSUME Bad # {} PROVE FALSE
  OBVIOUS
<1>1. PICK n \in Bad : n = 0 \/ (n - 1 \in Nat /\ n - 1 \notin Bad)
  <2>1. Bad \in SUBSET Nat
    OBVIOUS
  <2> HIDE DEF Bad
  <2>2. QED
    BY <2>1, FirstMember
<1>2. CASE n = 0
  <2>1. Rounds([k \in 0 .. 0 |-> start], 0, step, start)
    BY DEF Rounds
  <2>2. QED
    BY <1>1, <1>2, <2>1
<1>3. CASE n # 0
  <2>1. n \in Nat /\ n - 1 \in Nat
    BY <1>1, <1>3
  <2>2. PICK f : Rounds(f, n - 1, step, start)
    BY <1>1, <1>3, <2>1
  <2> DEFINE g == [k \in 0 .. n |-> IF k = n THEN step[f[n - 1]] ELSE f[k]]
  <2>3. f = [k \in 0 .. n - 1 |-> IF k = 0 THEN start ELSE step[f[k - 1]]]
    BY <2>2 DEF Rounds
  <2>4. ASSUME NEW k \in 0 .. n
        PROVE  g[k] = IF k = 0 THEN start ELSE step[g[k - 1]]
    <3>1. CASE k = 0
      BY <3>1, <2>3, <1>3, <2>1
    <3>2. CASE k # 0 /\ k = n
      BY <3>2, <2>1
    <3>3. CASE k # 0 /\ k # n
      <4>1. g[k] = f[k] /\ g[k - 1] = f[k - 1] /\ k \in 0 .. n - 1
        BY <3>3, <2>1
      <4> HIDE DEF g
      <4>2. QED
        BY <4>1, <3>3, <2>3
    <3>4. QED
      BY <3>1, <3>2, <3>3
  <2>5. Rounds(g, n, step, start)
    <3>1. g = [k \in 0 .. n |-> g[k]]
      OBVIOUS
    <3> HIDE DEF g
    <3>2. QED
      BY <2>4, <3>1 DEF Rounds
  <2>6. QED
    BY <1>1, <2>5
<1>4. QED
  BY <1>2, <1>3

\* What holds of the start and is carried from round to round holds of the
\* result: Inv[k] is the set of the states allowed after k rounds.
LEMMA IterateKeeps ==
  ASSUME NEW step, NEW start, NEW n \in Nat, NEW Inv,
         start \in Inv[0],
         \A k \in 0 .. n - 1 : \A s \in Inv[k] : step[s] \in Inv[k + 1]
  PROVE  Iterate(step, start, n) \in Inv[n]
<1>1. PICK f : f = [k \in 0 .. n |-> IF k = 0 THEN start ELSE step[f[k - 1]]]
              /\ Iterate(step, start, n) = f[n]
  <2>1. PICK f : Rounds(f, n, step, start)
    BY RoundsExist
  <2> DEFINE g == CHOOSE at : at = [k \in 0 .. n |-> IF k = 0 THEN start ELSE step[at[k - 1]]]
  <2>2. g = [k \in 0 .. n |-> IF k = 0 THEN start ELSE step[g[k - 1]]]
    BY <2>1 DEF Rounds
  <2>3. Iterate(step, start, n) = g[n]
    BY DEF Iterate
  <2>4. QED
    BY <2>2, <2>3
<1> DEFINE Bad == {k \in 0 .. n : f[k] \notin Inv[k]}
<1>2. Bad = {}
  <2> SUFFICES ASSUME Bad # {} PROVE FALSE
    OBVIOUS
  <2>1. PICK k \in Bad : k = 0 \/ (k - 1 \in Nat /\ k - 1 \notin Bad)
    <3>1. Bad \in SUBSET Nat
      OBVIOUS
    <3> HIDE DEF Bad
    <3>2. QED
      BY <3>1, FirstMember
  <2>2. k # 0
    BY <1>1, <2>1
  <2>3. k - 1 \in 0 .. n - 1 /\ f[k - 1] \in Inv[k - 1] /\ f[k] = step[f[k - 1]]
    BY <1>1, <2>1, <2>2
  <2>4. step[f[k - 1]] \in Inv[(k - 1) + 1]
    BY <2>3
  <2>5. QED
    BY <2>1, <2>3, <2>4
<1>3. n \in 0 .. n /\ n \notin Bad
  BY <1>2
<1>4. f[n] \in Inv[n]
  BY <1>3
<1>5. QED
  BY <1>1, <1>4

---------------------------------------------------------------------------
(* Sequences *)

\* The first n numbers.
LEMMA Interval ==
  ASSUME NEW n \in Nat
  PROVE  /\ IsFiniteSet(1 .. n) /\ Cardinality(1 .. n) = n
         /\ n # 0 => \A i \in 1 .. n : i \in 1 .. n - 1 \/ i = n
<1>1. IsFiniteSet(1 .. n) /\ Cardinality(1 .. n) = IF 1 > n THEN 0 ELSE n - 1 + 1
  BY FS_Interval
<1>2. QED
  BY <1>1

\* The sizes of a set with one more member, and of two sets that share none.
LEMMA OneMore ==
  ASSUME NEW S, IsFiniteSet(S), NEW x, x \notin S
  PROVE  IsFiniteSet(S \cup {x}) /\ Cardinality(S \cup {x}) = Cardinality(S) + 1
BY FS_AddElement

LEMMA Disjoint ==
  ASSUME NEW S, IsFiniteSet(S), NEW T, IsFiniteSet(T), T \cap S = {}
  PROVE  IsFiniteSet(S \cup T) /\ Cardinality(S \cup T) = Cardinality(S) + Cardinality(T)
<1>1. Cardinality(S \cap T) = 0
  <2>1. S \cap T = {}
    OBVIOUS
  <2>2. QED
    BY <2>1, FS_EmptySet, Zenon
<1>2. Cardinality(S) \in Nat /\ Cardinality(T) \in Nat
  BY FS_CardinalityType
<1>3. /\ IsFiniteSet(S \cup T)
      /\ Cardinality(S \cup T) = Cardinality(S) + Cardinality(T) - Cardinality(S \cap T)
  BY FS_Union, Zenon
<1>4. QED
  BY <1>1, <1>2, <1>3

\* A sequence with one more element.
LEMMA AppendFacts ==
  ASSUME NEW S, NEW s \in Seq(S), NEW x \in S
  PROVE  /\ Append(s, x) \in Seq(S)
         /\ Len(Append(s, x)) = Len(s) + 1
         /\ Append(s, x)[Len(s) + 1] = x
         /\ \A i \in 1 .. Len(s) : Append(s, x)[i] = s[i]
         /\ Values(Append(s, x)) = Values(s) \cup {x}
         /\ Distinct(s) /\ x \notin Values(s) => Distinct(Append(s, x))
<1>1. /\ Append(s, x) \in Seq(S)
      /\ Len(Append(s, x)) = Len(s) + 1
      /\ DOMAIN s = 1 .. Len(s) /\ Len(s) \in Nat
      /\ DOMAIN Append(s, x) = 1 .. Len(s) + 1
      /\ Append(s, x)[Len(s) + 1] = x
      /\ \A i \in 1 .. Len(s) : Append(s, x)[i] = s[i]
  OBVIOUS
<1> DEFINE t == Append(s, x)
<1> HIDE DEF t
<1>2. Values(t) = Values(s) \cup {x}
  <2>1. \A i \in 1 .. Len(s) + 1 : i \in 1 .. Len(s) \/ i = Len(s) + 1
    BY <1>1
  <2>2. Values(t) \subseteq Values(s) \cup {x}
    BY <1>1, <2>1 DEF Values, t
  <2>3. Values(s) \cup {x} \subseteq Values(t)
    BY <1>1 DEF Values, t
  <2>4. QED
    BY <2>2, <2>3
<1>3. ASSUME Distinct(s), x \notin Values(s), NEW i \in DOMAIN t, NEW j \in DOMAIN t, t[i] = t[j]
      PROVE  i = j
  <2>1. \A h \in 1 .. Len(s) : s[h] # x
    BY <1>1, <1>3 DEF Values
  <2>2. \A g, h \in 1 .. Len(s) : s[g] = s[h] => g = h
    BY <1>1, <1>3 DEF Distinct, IsInjective
  <2>3. \A h \in DOMAIN t : h \in 1 .. Len(s) \/ h = Len(s) + 1
    BY <1>1 DEF t
  <2>4. QED
    BY <1>1, <1>3, <2>1, <2>2, <2>3 DEF t
<1>4. QED
  BY <1>1, <1>2, <1>3 DEF Distinct, IsInjective, t

\* A sequence without its last element.
LEMMA FrontFacts ==
  ASSUME NEW S, NEW s \in Seq(S), s # <<>>
  PROVE  /\ Front(s) \in Seq(S)
         /\ Len(Front(s)) = Len(s) - 1 /\ Len(s) \in Nat \ {0}
         /\ Last(s) \in S /\ Last(s) = s[Len(s)] /\ Last(s) \in Values(s)
         /\ \A i \in 1 .. Len(s) - 1 : Front(s)[i] = s[i]
         /\ Values(s) = Values(Front(s)) \cup {Last(s)}
         /\ Distinct(s) => Distinct(Front(s)) /\ Last(s) \notin Values(Front(s))
<1>1. /\ Len(s) \in Nat \ {0} /\ DOMAIN s = 1 .. Len(s)
      /\ Last(s) = s[Len(s)] /\ Last(s) \in S
  BY DEF Last
<1>2. /\ Front(s) \in Seq(S) /\ Len(Front(s)) = Len(s) - 1
      /\ DOMAIN Front(s) = 1 .. Len(s) - 1
      /\ \A i \in 1 .. Len(s) - 1 : Front(s)[i] = s[i]
  BY <1>1 DEF Front
<1> DEFINE t == Front(s)
<1> HIDE DEF t
<1>3. \A i \in 1 .. Len(s) : i \in 1 .. Len(s) - 1 \/ i = Len(s)
  BY <1>1, Interval
<1>4. Values(s) = Values(t) \cup {Last(s)} /\ Last(s) \in Values(s)
  <2>1. Values(s) \subseteq Values(t) \cup {Last(s)}
    BY <1>1, <1>2, <1>3 DEF Values, t
  <2>2. Values(t) \cup {Last(s)} \subseteq Values(s)
    BY <1>1, <1>2 DEF Values, t
  <2>3. QED
    BY <2>1, <2>2
<1>5. ASSUME Distinct(s)
      PROVE  Distinct(t) /\ Last(s) \notin Values(t)
  <2>1. \A g, h \in 1 .. Len(s) : s[g] = s[h] => g = h
    BY <1>1, <1>5 DEF Distinct, IsInjective
  <2>2. Distinct(t)
    BY <1>1, <1>2, <2>1 DEF Distinct, IsInjective, t
  <2>3. ASSUME NEW i \in 1 .. Len(s) - 1
        PROVE  t[i] # Last(s)
    BY <1>1, <1>2, <2>1 DEF t
  <2>4. QED
    BY <1>2, <2>2, <2>3 DEF Values, t
<1>6. QED
  BY <1>1, <1>2, <1>4, <1>5 DEF t

\* An empty sequence has no values, any other has.
LEMMA ValuesFacts ==
  ASSUME NEW S, NEW s \in Seq(S)
  PROVE  /\ Values(s) \subseteq S
         /\ (s = <<>>) <=> (Values(s) = {})
         /\ IsFiniteSet(Values(s))
         /\ Distinct(s) => Cardinality(Values(s)) = Len(s)
<1>1. DOMAIN s = 1 .. Len(s) /\ Len(s) \in Nat /\ \A i \in 1 .. Len(s) : s[i] \in S
  OBVIOUS
<1>2. (s = <<>>) <=> (Values(s) = {})
  <2>1. s = <<>> => Values(s) = {}
    BY DEF Values
  <2>2. s # <<>> => s[1] \in Values(s)
    BY <1>1 DEF Values
  <2>3. QED
    BY <2>1, <2>2
<1>3. IsFiniteSet(1 .. Len(s)) /\ Cardinality(1 .. Len(s)) = Len(s)
  BY <1>1, Interval
<1>4. s \in Surjection(1 .. Len(s), Values(s))
  BY <1>1 DEF Surjection, Values
<1>5. Distinct(s) => s \in Injection(1 .. Len(s), Values(s))
  BY <1>1, <1>4 DEF Injection, Surjection, Distinct, IsInjective
<1>6. QED
  BY <1>1, <1>2, <1>3, <1>4, <1>5, FS_Surjection DEF Values

---------------------------------------------------------------------------
(* The search for cycles of the validators *)

\* The states of the search after k rounds: the path runs along edges and
\* over no node twice, what is black is searched to the end and free of
\* cycles, and each round went on by a node.
SearchInv(edges, aliases, k) ==
  {st \in SearchState(aliases) :
    /\ st.cycle => ~Acyclic(aliases, edges)
    /\ \A i \in 1 .. Len(st.path) - 1 : <<st.path[i], st.path[i + 1]>> \in edges
    /\ ~st.cycle =>
         /\ Distinct(st.path)
         /\ Values(st.path) \cap st.black = {}
         /\ \A e \in edges : e[1] \in st.black => e[2] \in st.black
         /\ Acyclic(st.black, edges)
         /\ 2 * Cardinality(st.black) + Cardinality(Values(st.path)) >= k}

\* A successor on the path closes a cycle.
LEMMA SearchCloses ==
  ASSUME NEW aliases, NEW edges \in SUBSET (aliases \X aliases),
         NEW st \in SearchState(aliases), Closes(edges, st),
         \A i \in 1 .. Len(st.path) - 1 : <<st.path[i], st.path[i + 1]>> \in edges
  PROVE  ~Acyclic(aliases, edges)
<1>1. /\ st.path \in Seq(aliases) /\ st.path # <<>>
      /\ Len(st.path) \in Nat \ {0} /\ DOMAIN st.path = 1 .. Len(st.path)
      /\ Last(st.path) = st.path[Len(st.path)]
      /\ \A i \in 1 .. Len(st.path) : st.path[i] \in aliases
  BY DEF SearchState, Closes, Last
<1>2. PICK e \in edges : e[1] = Last(st.path) /\ e[2] \in Values(st.path)
  BY DEF Closes, SuccessorsIn
<1>3. PICK i \in 1 .. Len(st.path) : e[2] = st.path[i]
  BY <1>1, <1>2 DEF Values
<1> DEFINE cycle == {st.path[j] : j \in i .. Len(st.path)}
<1>4. cycle \in (SUBSET aliases) \ {{}}
  <2>1. st.path[i] \in cycle
    BY <1>1, <1>3
  <2>2. \A j \in i .. Len(st.path) : st.path[j] \in aliases
    BY <1>1
  <2>3. cycle \subseteq aliases /\ cycle # {}
    BY <2>1, <2>2
  <2> HIDE DEF cycle
  <2>4. QED
    BY <2>3
<1>5. ASSUME NEW n \in cycle
      PROVE  \E m \in cycle : <<n, m>> \in edges
  <2>1. PICK j \in i .. Len(st.path) : n = st.path[j]
    OBVIOUS
  <2>2. CASE j = Len(st.path)
    <3>1. e = <<n, st.path[i]>>
      BY <1>1, <1>2, <1>3, <2>1, <2>2
    <3>2. st.path[i] \in cycle
      BY <1>1, <1>3
    <3>3. QED
      BY <3>1, <3>2
  <2>3. CASE j # Len(st.path)
    <3>1. j \in 1 .. Len(st.path) - 1 /\ j + 1 \in i .. Len(st.path)
      BY <1>1, <2>1, <2>3
    <3>2. st.path[j + 1] \in cycle /\ <<n, st.path[j + 1]>> \in edges
      BY <2>1, <3>1
    <3>3. QED
      BY <3>2
  <2>4. QED
    BY <2>2, <2>3
<1> HIDE DEF cycle
<1>6. QED
  BY <1>4, <1>5 DEF Acyclic

\* A node whose successors are all done with can be put to them.
LEMMA AcyclicGrows ==
  ASSUME NEW edges, NEW done, Acyclic(done, edges),
         \A n \in done : \A m : <<n, m>> \in edges => m \in done,
         NEW new, new \notin done,
         \A m : <<new, m>> \in edges => m \in done
  PROVE  Acyclic(done \cup {new}, edges)
<1> SUFFICES ASSUME NEW s \in (SUBSET (done \cup {new})) \ {{}}
             PROVE  \E n \in s : \A m \in s : <<n, m>> \notin edges
  BY DEF Acyclic
<1>1. CASE s \cap done = {}
  BY <1>1
<1>2. CASE s \cap done # {}
  <2>1. PICK n \in s \cap done : \A m \in s \cap done : <<n, m>> \notin edges
    BY <1>2 DEF Acyclic
  <2>2. \A m \in s : <<n, m>> \notin edges
    BY <2>1
  <2>3. QED
    BY <2>1, <2>2
<1>3. QED
  BY <1>1, <1>2

\* A round keeps what is known of the search.
LEMMA SearchStep ==
  ASSUME NEW aliases, IsFiniteSet(aliases), NEW edges \in SUBSET (aliases \X aliases),
         NEW k \in Nat, k < 2 * Cardinality(aliases), NEW st \in SearchInv(edges, aliases, k)
  PROVE  Search(edges, aliases)[st] \in SearchInv(edges, aliases, k + 1)
<1>a. PICK next : next = Search(edges, aliases)[st]
  OBVIOUS
<1>b. PICK white : white = White(edges, aliases, st)
  OBVIOUS
<1>c. PICK any : any = CHOOSE a \in white : TRUE
  OBVIOUS
<1>1. /\ st \in SearchState(aliases)
      /\ st.path \in Seq(aliases) /\ st.black \in SUBSET aliases /\ st.cycle \in BOOLEAN
      /\ Len(st.path) \in Nat
      /\ st.cycle => ~Acyclic(aliases, edges)
      /\ \A i \in 1 .. Len(st.path) - 1 : <<st.path[i], st.path[i + 1]>> \in edges
  BY DEF SearchInv, SearchState
<1>d. next = CASE Closes(edges, st) -> [path |-> st.path, black |-> st.black, cycle |-> TRUE]
               [] ~Closes(edges, st) /\ white # {} ->
                    [path |-> Append(st.path, any), black |-> st.black, cycle |-> st.cycle]
               [] ~Closes(edges, st) /\ white = {} /\ st.path # <<>> ->
                    [path |-> Front(st.path), black |-> st.black \cup {Last(st.path)},
                     cycle |-> st.cycle]
               [] OTHER -> st
  BY <1>a, <1>b, <1>c, <1>1 DEF Search
<1>e. SUFFICES next \in SearchInv(edges, aliases, k + 1)
  BY <1>a
<1>2. ASSUME ~st.cycle
      PROVE  /\ Distinct(st.path)
             /\ Values(st.path) \cap st.black = {}
             /\ \A e \in edges : e[1] \in st.black => e[2] \in st.black
             /\ Acyclic(st.black, edges)
             /\ 2 * Cardinality(st.black) + Cardinality(Values(st.path)) >= k
  BY <1>2 DEF SearchInv
<1>3. /\ IsFiniteSet(st.black) /\ Cardinality(st.black) \in Nat
      /\ Values(st.path) \subseteq aliases
      /\ IsFiniteSet(Values(st.path)) /\ Cardinality(Values(st.path)) \in Nat
      /\ Cardinality(aliases) \in Nat
  BY <1>1, ValuesFacts, FS_Subset, FS_CardinalityType
<1>4. CASE Closes(edges, st)
  <2>1. next = [path |-> st.path, black |-> st.black, cycle |-> TRUE]
    BY <1>d, <1>4
  <2>2. ~Acyclic(aliases, edges)
    BY <1>1, <1>4, SearchCloses
  <2>3. next \in SearchState(aliases)
    BY <1>1, <2>1 DEF SearchState
  <2>4. QED
    BY <1>1, <2>1, <2>2, <2>3 DEF SearchInv
<1>5. CASE ~Closes(edges, st) /\ white # {}
  <2>1. PICK a \in white :
          next = [path |-> Append(st.path, a), black |-> st.black, cycle |-> st.cycle]
    BY <1>c, <1>d, <1>5
  <2>2. /\ a \notin st.black /\ a \notin Values(st.path)
        /\ IF st.path = <<>> THEN a \in aliases ELSE a \in SuccessorsIn(edges, Last(st.path))
    BY <1>b DEF White
  <2>3. a \in aliases
    BY <2>2 DEF SuccessorsIn
  <2>4. st.path # <<>> => <<st.path[Len(st.path)], a>> \in edges
    BY <2>2 DEF SuccessorsIn, Last
  <2>5. next \in SearchState(aliases)
    BY <1>1, <2>1, <2>3 DEF SearchState
  <2> DEFINE new == Append(st.path, a)
  <2> HIDE DEF new
  <2>6. /\ Len(new) = Len(st.path) + 1
        /\ new[Len(st.path) + 1] = a
        /\ \A i \in 1 .. Len(st.path) : new[i] = st.path[i]
        /\ Values(new) = Values(st.path) \cup {a}
        /\ Distinct(st.path) => Distinct(new)
    BY <1>1, <2>2, <2>3, AppendFacts DEF new
  <2>7. ASSUME NEW i \in 1 .. Len(new) - 1
        PROVE  <<new[i], new[i + 1]>> \in edges
    <3>1. i \in 1 .. Len(st.path)
      BY <1>1, <2>6
    <3>2. CASE i = Len(st.path)
      <4>1. st.path # <<>>
        BY <3>1, <3>2
      <4>2. QED
        BY <2>4, <2>6, <3>1, <3>2, <4>1
    <3>3. CASE i # Len(st.path)
      <4>1. i \in 1 .. Len(st.path) - 1 /\ i + 1 \in 1 .. Len(st.path)
        BY <1>1, <3>1, <3>3
      <4>2. QED
        BY <1>1, <2>6, <3>1, <4>1
    <3>4. QED
      BY <3>2, <3>3
  <2>8. Cardinality(Values(new)) = Cardinality(Values(st.path)) + 1
    BY <1>3, <2>2, <2>6, OneMore
  <2>9. next.path = new /\ next.black = st.black /\ next.cycle = st.cycle
    BY <2>1 DEF new
  <2>10. ASSUME ~next.cycle
         PROVE  /\ Distinct(next.path)
                /\ Values(next.path) \cap next.black = {}
                /\ \A e \in edges : e[1] \in next.black => e[2] \in next.black
                /\ Acyclic(next.black, edges)
                /\ 2 * Cardinality(next.black) + Cardinality(Values(next.path)) >= k + 1
    <3>1. ~st.cycle
      BY <2>9, <2>10
    <3>2. 2 * Cardinality(next.black) + Cardinality(Values(next.path)) >= k + 1
      BY <1>2, <1>3, <2>8, <2>9, <3>1
    <3>3. QED
      BY <1>2, <2>2, <2>6, <2>9, <3>1, <3>2
  <2>11. QED
    BY <1>1, <2>5, <2>7, <2>9, <2>10 DEF SearchInv
<1>6. CASE ~Closes(edges, st) /\ white = {} /\ st.path # <<>>
  <2> DEFINE new == Front(st.path)
             old == Last(st.path)
  <2>1. next = [path |-> new, black |-> st.black \cup {old}, cycle |-> st.cycle]
    BY <1>d, <1>6 DEF new, old
  <2> HIDE DEF new, old
  <2>2. /\ new \in Seq(aliases) /\ Len(new) = Len(st.path) - 1 /\ Len(st.path) \in Nat \ {0}
        /\ old \in aliases /\ old \in Values(st.path)
        /\ \A i \in 1 .. Len(st.path) - 1 : new[i] = st.path[i]
        /\ Values(st.path) = Values(new) \cup {old}
        /\ Distinct(st.path) => Distinct(new) /\ old \notin Values(new)
    BY <1>1, <1>6, FrontFacts DEF new, old
  <2>3. next \in SearchState(aliases)
    BY <1>1, <2>1, <2>2 DEF SearchState
  <2>4. ASSUME NEW e \in edges, e[1] = old
        PROVE  e[2] \in st.black
    <3>1. e[2] \in SuccessorsIn(edges, old)
      BY <2>4 DEF SuccessorsIn
    <3>2. e[2] \notin Values(st.path)
      BY <1>6, <3>1 DEF Closes, old
    <3>3. QED
      BY <1>b, <1>6, <3>1, <3>2 DEF White, old
  <2>5. ASSUME NEW i \in 1 .. Len(new) - 1
        PROVE  <<new[i], new[i + 1]>> \in edges
    <3>1. i \in 1 .. Len(st.path) - 1 /\ i + 1 \in 1 .. Len(st.path) - 1
      BY <2>2
    <3>2. QED
      BY <1>1, <2>2, <3>1
  <2>6. next.path = new /\ next.black = st.black \cup {old} /\ next.cycle = st.cycle
    BY <2>1
  <2>7. ASSUME ~next.cycle
        PROVE  /\ Distinct(next.path)
               /\ Values(next.path) \cap next.black = {}
               /\ \A e \in edges : e[1] \in next.black => e[2] \in next.black
               /\ Acyclic(next.black, edges)
               /\ 2 * Cardinality(next.black) + Cardinality(Values(next.path)) >= k + 1
    <3>1. ~st.cycle
      BY <2>6, <2>7
    <3>2. old \notin st.black /\ old \notin Values(new)
      BY <1>2, <2>2, <3>1
    <3>3. Cardinality(next.black) = Cardinality(st.black) + 1
      <4>1. next.black = st.black \cup {old}
        BY <2>6
      <4>2. IsFiniteSet(st.black)
        BY <1>3
      <4>3. QED
        BY <3>2, <4>1, <4>2, OneMore
    <3>4. Values(new) = Values(st.path) \ {old}
      BY <2>2, <3>2
    <3>5. Cardinality(Values(new)) = Cardinality(Values(st.path)) - 1
      <4>1. PICK onPath : onPath = Values(st.path)
        OBVIOUS
      <4>2. IsFiniteSet(onPath) /\ old \in onPath
        BY <1>3, <2>2, <4>1
      <4>3. IsFiniteSet(onPath) /\ Cardinality(onPath \ {old})
              = IF old \in onPath THEN Cardinality(onPath) - 1 ELSE Cardinality(onPath)
        BY <4>2, FS_RemoveElement, Zenon
      <4>4. Cardinality(onPath \ {old}) = Cardinality(onPath) - 1
        BY <4>2, <4>3, Zenon
      <4>5. QED
        BY <3>4, <4>1, <4>4
    <3>6. 2 * Cardinality(next.black) + Cardinality(Values(next.path)) >= k + 1
      BY <1>2, <1>3, <2>6, <3>1, <3>3, <3>5
    <3>7. \A e \in edges : e[1] \in next.black => e[2] \in next.black
      BY <1>2, <2>4, <2>6, <3>1
    <3>8. Acyclic(next.black, edges)
      <4>1. \A n \in st.black : \A m : <<n, m>> \in edges => m \in st.black
        BY <1>2, <3>1
      <4>2. \A m : <<old, m>> \in edges => m \in st.black
        BY <2>4
      <4>3. QED
        BY <1>2, <2>6, <3>1, <3>2, <4>1, <4>2, AcyclicGrows
    <3>9. QED
      BY <1>2, <2>2, <2>6, <3>1, <3>2, <3>6, <3>7, <3>8
  <2>8. QED
    BY <1>1, <2>3, <2>5, <2>6, <2>7 DEF SearchInv
<1>7. CASE ~Closes(edges, st) /\ white = {} /\ st.path = <<>>
  <2>1. next = st
    BY <1>d, <1>7
  <2>2. Values(st.path) = {}
    BY <1>7 DEF Values
  <2>3. st.black = aliases
    BY <1>b, <1>1, <1>7, <2>2 DEF White
  <2>4. 2 * Cardinality(st.black) + Cardinality(Values(st.path)) >= k + 1
    BY <1>3, <2>2, <2>3, FS_EmptySet
  <2>5. st \in SearchInv(edges, aliases, k + 1)
    BY <2>4 DEF SearchInv
  <2>6. QED
    BY <2>1, <2>5
<1>8. QED
  BY <1>4, <1>5, <1>6, <1>7

(* The search of the validators finds a cycle exactly when there is one:    *)
(* when no order of the aliases puts each after what it depends on          *)
(* (validators.py:_detect_dep_cycles).                                      *)
THEOREM CycleSearchIsExact ==
  ASSUME NEW aliases, IsFiniteSet(aliases), NEW edges \in SUBSET (aliases \X aliases)
  PROVE  DetectDepCycles(edges, aliases) <=> ~Acyclic(aliases, edges)
<1> DEFINE n     == 2 * Cardinality(aliases)
           start == [path |-> <<>>, black |-> {}, cycle |-> FALSE]
           Inv   == [k \in Nat |-> SearchInv(edges, aliases, k)]
           end   == Iterate(Search(edges, aliases), start, n)
<1>1. n \in Nat /\ Cardinality(aliases) \in Nat
  BY FS_CardinalityType
<1>2. start \in Inv[0]
  <2>1. Values(<<>>) = {} /\ Distinct(<<>>) /\ Cardinality({}) = 0
    BY FS_EmptySet DEF Values, Distinct, IsInjective
  <2>2. Acyclic({}, edges)
    BY DEF Acyclic
  <2>3. start \in SearchState(aliases)
    BY DEF SearchState
  <2>4. start.path = <<>> /\ start.black = {} /\ start.cycle = FALSE
    OBVIOUS
  <2>5. Inv[0] = SearchInv(edges, aliases, 0)
    OBVIOUS
  <2> HIDE DEF start, Inv
  <2>6. \A i \in 1 .. Len(start.path) - 1 : <<start.path[i], start.path[i + 1]>> \in edges
    BY <2>4
  <2>7. /\ Distinct(start.path) /\ Values(start.path) \cap start.black = {}
        /\ \A e \in edges : e[1] \in start.black => e[2] \in start.black
        /\ Acyclic(start.black, edges)
    BY <2>1, <2>2, <2>4
  <2>8. Cardinality(start.black) = 0 /\ Cardinality(Values(start.path)) = 0
    BY <2>1, <2>4, Zenon
  <2>9. 2 * Cardinality(start.black) + Cardinality(Values(start.path)) >= 0
    BY <2>8
  <2>10. start.cycle => ~Acyclic(aliases, edges)
    BY <2>4
  <2>11. start \in SearchInv(edges, aliases, 0)
    BY <2>3, <2>6, <2>7, <2>9, <2>10 DEF SearchInv
  <2>12. QED
    BY <2>5, <2>11
<1>3. \A k \in 0 .. n - 1 : \A s \in Inv[k] : Search(edges, aliases)[s] \in Inv[k + 1]
  BY <1>1, SearchStep
<1>4. end \in Inv[n]
  <2> HIDE DEF n, start, Inv
  <2>1. QED
    BY <1>1, <1>2, <1>3, IterateKeeps
<1>5. end \in SearchInv(edges, aliases, n)
  BY <1>1, <1>4
<1>6. DetectDepCycles(edges, aliases) = end.cycle
  BY DEF DetectDepCycles
<1> HIDE DEF n, start, Inv, end
<1>7. end.cycle \in BOOLEAN /\ (end.cycle => ~Acyclic(aliases, edges))
  BY <1>5 DEF SearchInv, SearchState
<1>8. ASSUME ~end.cycle
      PROVE  Acyclic(aliases, edges)
  <2>1. /\ end.path \in Seq(aliases) /\ end.black \in SUBSET aliases
        /\ Values(end.path) \cap end.black = {}
        /\ Acyclic(end.black, edges)
        /\ 2 * Cardinality(end.black) + Cardinality(Values(end.path)) >= n
    BY <1>5, <1>8 DEF SearchInv, SearchState
  <2>2. /\ IsFiniteSet(end.black) /\ Cardinality(end.black) \in Nat
        /\ Values(end.path) \subseteq aliases
        /\ IsFiniteSet(Values(end.path)) /\ Cardinality(Values(end.path)) \in Nat
    BY <2>1, ValuesFacts, FS_Subset, FS_CardinalityType
  <2> DEFINE both == end.black \cup Values(end.path)
  <2>3. Cardinality(both) = Cardinality(end.black) + Cardinality(Values(end.path))
    BY <2>1, <2>2, Disjoint
  <2>4. Cardinality(both) <= Cardinality(aliases)
    <3>1. both \in SUBSET aliases
      BY <2>1, <2>2
    <3>2. QED
      BY <3>1, FS_Subset
  <2>5. Cardinality(end.black) = Cardinality(aliases)
    BY <1>1, <2>1, <2>2, <2>3, <2>4 DEF n
  <2>6. end.black = aliases
    BY <2>1, <2>5, FS_Subset
  <2>7. QED
    BY <2>1, <2>6
<1>9. QED
  BY <1>6, <1>7, <1>8

---------------------------------------------------------------------------
(* The build order of the queries *)

\* The least of a set of naturals.
LEMMA MinMember ==
  ASSUME NEW S \in SUBSET Nat, S # {}
  PROVE  Min(S) \in S /\ \A m \in S : Min(S) <= m
<1>1. PICK n \in S : \A m \in S : <<m, n>> \notin OpToRel(<, Nat)
  BY NatLessThanWellFounded, WFMin
<1>2. ASSUME NEW m \in S
      PROVE  n <= m
  <2>1. m < n => <<m, n>> \in OpToRel(<, Nat)
    BY DEF OpToRel
  <2>2. m \in Nat /\ n \in Nat
    OBVIOUS
  <2>3. ~(m < n)
    BY <1>1, <2>1, Zenon
  <2>4. QED
    BY <2>2, <2>3
<1>3. QED
  BY <1>2 DEF Min

\* Components with different aliases, each a foundation or not.
ComponentList(components) ==
  /\ DOMAIN components = 1 .. Len(components) /\ Len(components) \in Nat
  /\ Distinct(AliasesOf(components))
  /\ \A i \in DOMAIN components : components[i].foundation \in BOOLEAN

LEMMA AliasFacts ==
  ASSUME NEW components, ComponentList(components),
         NEW ids, ids = Values(AliasesOf(components))
  PROVE  /\ \A i \in DOMAIN components : components[i].alias \in ids
         /\ \A a \in ids : \E i \in DOMAIN components : a = components[i].alias
         /\ \A i, j \in DOMAIN components : components[i].alias = components[j].alias => i = j
         /\ IsFiniteSet(ids) /\ Cardinality(ids) = Len(components)
<1> DEFINE aliases == AliasesOf(components)
           n       == Len(components)
<1>1. DOMAIN aliases = 1 .. n /\ \A i \in DOMAIN components : aliases[i] = components[i].alias
  BY DEF AliasesOf, ComponentList
<1>2. DOMAIN components = 1 .. n /\ n \in Nat /\ Distinct(aliases)
  BY DEF ComponentList
<1> HIDE DEF aliases, n
<1>3. /\ \A i \in DOMAIN components : components[i].alias \in ids
      /\ \A a \in ids : \E i \in DOMAIN components : a = components[i].alias
  BY <1>1, <1>2 DEF Values, aliases
<1>4. \A i, j \in DOMAIN components : components[i].alias = components[j].alias => i = j
  BY <1>1, <1>2 DEF Distinct, IsInjective
<1>5. IsFiniteSet(ids) /\ Cardinality(ids) = n
  <2>1. aliases \in Surjection(1 .. n, ids)
    <3>1. ids = {aliases[i] : i \in 1 .. n}
      BY <1>1 DEF Values, aliases
    <3>2. aliases = [i \in 1 .. n |-> aliases[i]]
      BY <1>1 DEF AliasesOf, aliases
    <3>3. aliases \in [1 .. n -> ids]
      BY <3>1, <3>2
    <3>4. QED
      BY <3>1, <3>3 DEF Surjection
  <2>2. aliases \in Injection(1 .. n, ids)
    BY <1>1, <1>2, <2>1 DEF Injection, Surjection, Distinct, IsInjective
  <2>3. IsFiniteSet(1 .. n) /\ Cardinality(1 .. n) = n
    BY <1>2, Interval
  <2>4. QED
    BY <2>1, <2>2, <2>3, FS_Surjection
<1>6. QED
  BY <1>3, <1>4, <1>5 DEF n

\* What is placed after k rounds: k components, and unless a cycle holds the
\* rest back, none before what it depends on.
SortInv(components, edges, k) ==
  {st \in [placed : Seq(Values(AliasesOf(components))), stuck : BOOLEAN] :
    /\ Len(st.placed) = k /\ Distinct(st.placed)
    /\ st.stuck => ~Acyclic(Values(AliasesOf(components)), edges)
    /\ ~st.stuck =>
         /\ Ordered(st.placed, edges)
         /\ \A e \in edges :
              e[1] \in Values(st.placed) /\ e[2] \in Values(AliasesOf(components))
              => e[2] \in Values(st.placed)}

\* The component of a round is one that is not placed, and unless the sort
\* is stuck, one that is ready.
LEMMA FirstReadyFacts ==
  ASSUME NEW components, ComponentList(components), NEW edges, NEW placed,
         Ready(components, edges, placed) # {}
  PROVE  FirstReady(components, edges, placed) \in Ready(components, edges, placed)
<1>1. PICK ready : ready = Ready(components, edges, placed)
  OBVIOUS
<1>2. ready \subseteq DOMAIN components /\ ready \in SUBSET Nat /\ ready # {}
  BY <1>1 DEF Ready, Unplaced, ComponentList
<1>3. \A i \in ready : components[i].foundation \in BOOLEAN
  BY <1>2 DEF ComponentList
<1>4. \E i \in ready : \A j \in ready : Before(components, i, j)
  <2> DEFINE first == {i \in ready : components[i].foundation}
  <2>1. CASE first # {}
    <3>1. Min(first) \in first /\ \A m \in first : Min(first) <= m
      BY <1>2, <2>1, MinMember
    <3>2. \A j \in ready : Before(components, Min(first), j)
      BY <1>3, <3>1 DEF Before
    <3>3. QED
      BY <3>1, <3>2
  <2>2. CASE first = {}
    <3>1. Min(ready) \in ready /\ \A m \in ready : Min(ready) <= m
      BY <1>2, MinMember
    <3>2. \A j \in ready : components[j].foundation = FALSE
      BY <1>3, <2>2
    <3>3. \A j \in ready : Before(components, Min(ready), j)
      BY <3>1, <3>2 DEF Before
    <3>4. QED
      BY <3>1, <3>3
  <2>3. QED
    BY <2>1, <2>2
<1>5. FirstReady(components, edges, placed)
        = CHOOSE i \in ready : \A j \in ready : Before(components, i, j)
  BY <1>1 DEF FirstReady
<1>6. QED
  BY <1>1, <1>4, <1>5

\* A round keeps what is known of the sort.
LEMMA SortStep ==
  ASSUME NEW components, ComponentList(components),
         NEW edges, \A e \in edges : e = <<e[1], e[2]>>,
         NEW k \in Nat, k < Len(components), NEW st \in SortInv(components, edges, k)
  PROVE  Place(components, edges)[st] \in SortInv(components, edges, k + 1)
<1>a. PICK ids : ids = Values(AliasesOf(components))
  OBVIOUS
<1>1. /\ st \in [placed : Seq(ids), stuck : BOOLEAN]
      /\ st.placed \in Seq(ids) /\ st.stuck \in BOOLEAN
      /\ Len(st.placed) = k /\ Distinct(st.placed)
      /\ st.stuck => ~Acyclic(ids, edges)
  BY <1>a DEF SortInv
<1>2. ASSUME ~st.stuck
      PROVE  /\ Ordered(st.placed, edges)
             /\ \A e \in edges : e[1] \in Values(st.placed) /\ e[2] \in ids
                                => e[2] \in Values(st.placed)
  BY <1>a, <1>2 DEF SortInv
<1>b. PICK unplaced : unplaced = Unplaced(components, st.placed)
  OBVIOUS
<1>c. PICK ready : ready = Ready(components, edges, st.placed)
  OBVIOUS
<1>d. PICK stuck : stuck = (st.stuck \/ ready = {})
  OBVIOUS
<1>e. PICK i : i = IF stuck THEN Min(unplaced) ELSE FirstReady(components, edges, st.placed)
  OBVIOUS
<1>3. Place(components, edges)[st] = [placed |-> Append(st.placed, components[i].alias), stuck |-> stuck]
  BY <1>a, <1>b, <1>c, <1>d, <1>e, <1>1 DEF Place
<1>4. /\ \A h \in DOMAIN components : components[h].alias \in ids
      /\ \A a \in ids : \E h \in DOMAIN components : a = components[h].alias
      /\ IsFiniteSet(ids) /\ Cardinality(ids) = Len(components)
  BY <1>a, AliasFacts
<1>5. unplaced # {}
  <2> SUFFICES ASSUME unplaced = {} PROVE FALSE
    OBVIOUS
  <2>1. ids \in SUBSET Values(st.placed)
    BY <1>b, <1>4 DEF Unplaced
  <2>2. IsFiniteSet(Values(st.placed)) /\ Cardinality(Values(st.placed)) = k
    BY <1>1, ValuesFacts
  <2>3. Cardinality(ids) <= k
    BY <2>1, <2>2, FS_Subset
  <2>4. QED
    BY <1>4, <2>3 DEF ComponentList
<1>6. unplaced \in SUBSET Nat /\ unplaced \subseteq DOMAIN components
  BY <1>b DEF Unplaced, ComponentList
<1>7. i \in unplaced /\ (~stuck => i \in ready)
  <2>1. CASE stuck
    BY <1>e, <1>5, <1>6, <2>1, MinMember
  <2>2. CASE ~stuck
    <3>1. i = FirstReady(components, edges, st.placed) /\ ready # {}
      BY <1>d, <1>e, <2>2
    <3>2. i \in ready
      BY <1>c, <3>1, FirstReadyFacts
    <3>3. QED
      BY <1>b, <1>c, <3>2 DEF Ready
  <2>3. QED
    BY <2>1, <2>2
<1>f. PICK x : x = components[i].alias
  OBVIOUS
<1>g. PICK new : new = Append(st.placed, x)
  OBVIOUS
<1>8. x \in ids /\ x \notin Values(st.placed)
  BY <1>b, <1>f, <1>4, <1>7 DEF Unplaced
<1>9. /\ new \in Seq(ids) /\ Len(new) = k + 1
      /\ new[k + 1] = x /\ \A h \in 1 .. k : new[h] = st.placed[h]
      /\ Values(new) = Values(st.placed) \cup {x} /\ Distinct(new)
  BY <1>g, <1>1, <1>8, AppendFacts
<1>10. ASSUME stuck, Acyclic(ids, edges)
       PROVE  FALSE
  <2>1. ready = {}
    BY <1>d, <1>1, <1>10
  <2>2. PICK rest : rest = {components[h].alias : h \in unplaced}
    OBVIOUS
  <2>3. rest \subseteq ids /\ rest # {}
    BY <1>4, <1>5, <1>6, <2>2
  <2>4. PICK n \in rest : \A m \in rest : <<n, m>> \notin edges
    BY <1>10, <2>3 DEF Acyclic
  <2>5. PICK h \in unplaced : n = components[h].alias
    BY <2>2
  <2>6. PICK e \in edges : e[1] = n /\ e[2] \in ids /\ e[2] \notin Values(st.placed)
    BY <1>a, <1>b, <1>c, <2>1, <2>5 DEF Ready
  <2>7. e[2] \in rest
    BY <1>b, <1>4, <2>2, <2>6 DEF Unplaced
  <2>8. e = <<n, e[2]>>
    BY <2>6
  <2>9. QED
    BY <2>4, <2>7, <2>8
<1>11. ASSUME ~stuck
       PROVE  /\ Ordered(new, edges)
              /\ \A e \in edges : e[1] \in Values(new) /\ e[2] \in ids => e[2] \in Values(new)
  <2>1. ~st.stuck /\ i \in ready
    BY <1>d, <1>7, <1>11
  <2>2. \A e \in edges : e[1] = x /\ e[2] \in ids => e[2] \in Values(st.placed)
    BY <1>a, <1>c, <1>f, <2>1 DEF Ready
  <2>3. ASSUME NEW g \in DOMAIN new, NEW h \in DOMAIN new, <<new[g], new[h]>> \in edges
        PROVE  h < g
    <3>1. DOMAIN new = 1 .. k + 1 /\ new[h] \in ids /\ g \in Nat /\ h \in Nat
      BY <1>9
    <3>2. CASE g = k + 1
      <4>1. new[h] \in Values(st.placed)
        BY <1>9, <2>2, <2>3, <3>1, <3>2
      <4>2. h # k + 1
        BY <1>8, <1>9, <4>1
      <4>3. QED
        BY <3>1, <3>2, <4>2
    <3>3. CASE g # k + 1
      <4>1. g \in 1 .. k /\ new[g] = st.placed[g] /\ DOMAIN st.placed = 1 .. k
        BY <1>1, <1>9, <3>1, <3>3
      <4>2. new[g] \in Values(st.placed)
        BY <4>1 DEF Values
      <4>3. new[h] \in Values(st.placed)
        BY <1>2, <2>1, <2>3, <3>1, <4>2
      <4>4. h # k + 1
        BY <1>8, <1>9, <4>3
      <4>5. h \in 1 .. k /\ new[h] = st.placed[h]
        BY <1>9, <3>1, <4>4
      <4>6. QED
        BY <1>2, <2>1, <2>3, <4>1, <4>5 DEF Ordered
    <3>4. QED
      BY <3>2, <3>3
  <2>4. QED
    BY <1>2, <1>9, <2>1, <2>2, <2>3 DEF Ordered
<1>h. PICK next : next = [placed |-> new, stuck |-> stuck]
  OBVIOUS
<1>12. next.placed = new /\ next.stuck = stuck /\ next \in [placed : Seq(ids), stuck : BOOLEAN]
  BY <1>d, <1>h, <1>9
<1>13. next \in SortInv(components, edges, k + 1)
  BY <1>a, <1>9, <1>10, <1>11, <1>12 DEF SortInv
<1>14. QED
  BY <1>f, <1>g, <1>h, <1>3, <1>13

(* topo_sort_comps puts each component once, and none before what it        *)
(* depends on unless they depend on each other in a circle                  *)
(* (queries.py:topo_sort_comps).                                            *)
THEOREM SortIsComplete ==
  ASSUME NEW components, ComponentList(components),
         NEW edges, \A e \in edges : e = <<e[1], e[2]>>
  PROVE  LET order == TopoSort(components, edges)
             ids   == Values(AliasesOf(components))
         IN  /\ order \in Seq(ids)
             /\ Distinct(order) /\ Values(order) = ids
             /\ Acyclic(ids, edges) => Ordered(order, edges)
<1>a. PICK ids : ids = Values(AliasesOf(components))
  OBVIOUS
<1>b. PICK n : n = Len(components)
  OBVIOUS
<1>c. PICK start : start = [placed |-> <<>>, stuck |-> FALSE]
  OBVIOUS
<1>d. PICK end : end = Iterate(Place(components, edges), start, n)
  OBVIOUS
<1>e. PICK Inv : Inv = [k \in Nat |-> SortInv(components, edges, k)]
  OBVIOUS
<1>1. n \in Nat
  BY <1>b DEF ComponentList
<1>2. start \in Inv[0]
  <2>1. start.placed = <<>> /\ start.stuck = FALSE
        /\ start \in [placed : Seq(ids), stuck : BOOLEAN]
    BY <1>c
  <2>2. Len(<<>>) = 0 /\ Distinct(<<>>) /\ Ordered(<<>>, edges) /\ Values(<<>>) = {}
    BY DEF Distinct, IsInjective, Ordered, Values
  <2>3. start \in SortInv(components, edges, 0)
    BY <1>a, <2>1, <2>2 DEF SortInv
  <2>4. QED
    BY <1>e, <2>3
<1>3. \A k \in 0 .. n - 1 : \A s \in Inv[k] : Place(components, edges)[s] \in Inv[k + 1]
  <2>1. ASSUME NEW k \in 0 .. n - 1, NEW s \in Inv[k]
        PROVE  Place(components, edges)[s] \in Inv[k + 1]
    <3>1. k \in Nat /\ k < Len(components) /\ s \in SortInv(components, edges, k)
      BY <1>b, <1>e, <1>1, <2>1
    <3>2. Place(components, edges)[s] \in SortInv(components, edges, k + 1)
      BY <3>1, SortStep
    <3>3. QED
      BY <1>e, <3>1, <3>2
  <2>2. QED
    BY <2>1
<1>4. end \in Inv[n]
  BY <1>d, <1>1, <1>2, <1>3, IterateKeeps
<1>5. end \in SortInv(components, edges, n)
  BY <1>e, <1>1, <1>4
<1>6. /\ end.placed \in Seq(ids) /\ end.stuck \in BOOLEAN
      /\ Len(end.placed) = n /\ Distinct(end.placed)
      /\ end.stuck => ~Acyclic(ids, edges)
      /\ ~end.stuck => Ordered(end.placed, edges)
  BY <1>a, <1>5 DEF SortInv
<1>7. IsFiniteSet(ids) /\ Cardinality(ids) = n
  BY <1>a, <1>b, AliasFacts
<1>8. Values(end.placed) \in SUBSET ids /\ Cardinality(Values(end.placed)) = n
  BY <1>6, ValuesFacts
<1>9. Values(end.placed) = ids
  BY <1>7, <1>8, FS_Subset
<1>10. TopoSort(components, edges) = end.placed
  BY <1>b, <1>c, <1>d DEF TopoSort
<1>11. QED
  BY <1>a, <1>6, <1>9, <1>10

---------------------------------------------------------------------------
(* The check of a new edge *)

\* A finite set in some order.
LEMMA SetToSeqFacts ==
  ASSUME NEW S, IsFiniteSet(S)
  PROVE  /\ SetToSeq(S) \in Seq(S) /\ Len(SetToSeq(S)) = Cardinality(S)
         /\ Values(SetToSeq(S)) = S
<1>1. PICK n : n = Cardinality(S)
  OBVIOUS
<1>2. n \in Nat /\ ExistsBijection(1 .. n, S)
  BY <1>1, FS_CardinalityType
<1>3. \E f \in [1 .. n -> S] : IsInjective(f)
  BY <1>2 DEF ExistsBijection, Bijection, Injection
<1>4. PICK f : f = SetToSeq(S)
  OBVIOUS
<1>5. f \in [1 .. n -> S] /\ IsInjective(f)
  BY <1>1, <1>3, <1>4 DEF SetToSeq
<1>6. f \in Injection(1 .. n, S) /\ IsFiniteSet(1 .. n) /\ Cardinality(1 .. n) = n
  BY <1>2, <1>5, Interval DEF Injection
<1>7. f \in Surjection(1 .. n, S)
  BY <1>1, <1>6, FS_Injection
<1>8. f \in Seq(S) /\ Len(f) = n
  BY <1>2, <1>5
<1>9. Values(f) = S
  BY <1>5, <1>7 DEF Surjection, Values
<1>10. QED
  BY <1>1, <1>4, <1>8, <1>9

\* One sequence behind the other.
LEMMA ConcatFacts ==
  ASSUME NEW S, NEW s \in Seq(S), NEW t \in Seq(S)
  PROVE  /\ s \o t \in Seq(S) /\ Len(s \o t) = Len(s) + Len(t)
         /\ Values(s \o t) = Values(s) \cup Values(t)
<1>1. PICK u : u = s \o t
  OBVIOUS
<1>2. /\ u \in Seq(S) /\ Len(u) = Len(s) + Len(t)
      /\ DOMAIN u = 1 .. Len(s) + Len(t) /\ DOMAIN s = 1 .. Len(s) /\ DOMAIN t = 1 .. Len(t)
      /\ Len(s) \in Nat /\ Len(t) \in Nat
      /\ \A i \in 1 .. Len(s) + Len(t) :
           u[i] = IF i <= Len(s) THEN s[i] ELSE t[i - Len(s)]
  BY <1>1
<1>3. ASSUME NEW i \in DOMAIN u
      PROVE  u[i] \in Values(s) \cup Values(t)
  <2>1. CASE i <= Len(s)
    BY <1>2, <2>1 DEF Values
  <2>2. CASE ~(i <= Len(s))
    <3>1. i - Len(s) \in DOMAIN t /\ u[i] = t[i - Len(s)]
      BY <1>2, <2>2
    <3>2. QED
      BY <3>1 DEF Values
  <2>3. QED
    BY <2>1, <2>2
<1>4. ASSUME NEW i \in DOMAIN s
      PROVE  s[i] \in Values(u)
  <2>1. i \in DOMAIN u /\ u[i] = s[i]
    BY <1>2
  <2>2. QED
    BY <2>1 DEF Values
<1>5. ASSUME NEW i \in DOMAIN t
      PROVE  t[i] \in Values(u)
  <2>1. i + Len(s) \in DOMAIN u /\ u[i + Len(s)] = t[i]
    BY <1>2
  <2>2. QED
    BY <2>1 DEF Values
<1>6. Values(u) = Values(s) \cup Values(t)
  <2>1. Values(u) \subseteq Values(s) \cup Values(t)
    BY <1>3 DEF Values
  <2>2. Values(s) \subseteq Values(u) /\ Values(t) \subseteq Values(u)
    BY <1>4, <1>5 DEF Values
  <2>3. QED
    BY <2>1, <2>2
<1>7. QED
  BY <1>1, <1>2, <1>6

EdgesFrom(edges, nodes) == {e \in edges : e[1] \in nodes}

\* Whatever the search has seen it has come to from the target, along edges
\* and through nodes it had visited before.
Rooted(stack, visited, parent, edges, target) ==
  /\ parent[target] = target
  /\ IF visited = <<>> THEN stack = <<target>> ELSE target \in Values(visited)
  /\ \A n \in Values(stack) :
       n = target \/ (parent[n] \in Values(visited) /\ <<parent[n], n>> \in edges)
  /\ \A i \in 1 .. Len(visited) :
       \/ visited[i] = target
       \/ \E j \in 1 .. i - 1 : visited[j] = parent[visited[i]]
                             /\ <<visited[j], visited[i]>> \in edges

\* What it has left to see after k rounds: no edge leads anywhere else, and
\* none is put on the stack again.
Pending(stack, visited, edges, k) ==
  /\ \A e \in edges : e[1] \in Values(visited) => e[2] \in Values(visited) \cup Values(stack)
  /\ stack # <<>> =>
       Len(stack) + k <= 1 + Cardinality(EdgesFrom(edges, Values(visited)))

BackInv(nodes, edges, source, target, k) ==
  {st \in BackState(nodes) :
    /\ Distinct(st.visited)
    /\ Rooted(st.stack, st.visited, st.parent, edges, target)
    /\ source \notin Values(st.visited) => Pending(st.stack, st.visited, edges, k)}

\* A node already visited, or the source, is taken from the stack.
LEMMA PopKeepsRooted ==
  ASSUME NEW nodes, NEW edges, NEW target \in nodes,
         NEW stack \in Seq(nodes), NEW visited \in Seq(nodes), NEW parent \in [nodes -> nodes],
         stack # <<>>, Rooted(stack, visited, parent, edges, target),
         NEW after \in Seq(nodes),
         \/ visited # <<>> /\ after = visited
         \/ after = Append(visited, Last(stack))
  PROVE  Rooted(Front(stack), after, parent, edges, target)
<1>1. PICK current : current = Last(stack)
  OBVIOUS
<1>2. /\ current \in nodes /\ current \in Values(stack)
      /\ Values(stack) = Values(Front(stack)) \cup {current}
  BY <1>1, FrontFacts
<1>3. /\ parent[target] = target
      /\ \A n \in Values(stack) :
           n = target \/ (parent[n] \in Values(visited) /\ <<parent[n], n>> \in edges)
  BY DEF Rooted
<1>4. CASE visited # <<>> /\ after = visited
  BY <1>2, <1>3, <1>4 DEF Rooted
<1>5. CASE after = Append(visited, current)
  <2>1. /\ Len(after) = Len(visited) + 1 /\ Len(visited) \in Nat
        /\ after[Len(visited) + 1] = current
        /\ \A i \in 1 .. Len(visited) : after[i] = visited[i]
        /\ Values(after) = Values(visited) \cup {current}
    BY <1>2, <1>5, AppendFacts
  <2>2. after # <<>>
    BY <2>1
  <2>3. target \in Values(after)
    <3>1. visited = <<>> => current = target
      <4>1. visited = <<>> => stack = <<target>>
        BY DEF Rooted
      <4>2. Last(<<target>>) = target
        BY DEF Last
      <4>3. QED
        BY <1>1, <4>1, <4>2
    <3>2. visited # <<>> => target \in Values(visited)
      BY DEF Rooted
    <3>3. QED
      BY <2>1, <3>1, <3>2
  <2>4. ASSUME NEW i \in 1 .. Len(after)
        PROVE  \/ after[i] = target
               \/ \E j \in 1 .. i - 1 : after[j] = parent[after[i]]
                                     /\ <<after[j], after[i]>> \in edges
    <3>1. CASE i = Len(visited) + 1
      <4>1. after[i] = current
        BY <2>1, <3>1
      <4>2. CASE current = target
        BY <4>1, <4>2
      <4>3. CASE current # target
        <5>1. parent[current] \in Values(visited) /\ <<parent[current], current>> \in edges
          BY <1>2, <1>3, <4>3
        <5>2. PICK j \in 1 .. Len(visited) : visited[j] = parent[current]
          BY <5>1 DEF Values
        <5>3. j \in 1 .. i - 1 /\ after[j] = parent[current]
          BY <2>1, <3>1, <5>2
        <5>4. QED
          BY <4>1, <5>1, <5>3
      <4>4. QED
        BY <4>2, <4>3
    <3>2. CASE i # Len(visited) + 1
      <4>1. i \in 1 .. Len(visited) /\ after[i] = visited[i]
        BY <2>1, <3>2
      <4>2. CASE visited[i] = target
        BY <4>1, <4>2
      <4>3. CASE visited[i] # target
        <5>1. PICK j \in 1 .. i - 1 : visited[j] = parent[visited[i]]
                                   /\ <<visited[j], visited[i]>> \in edges
          BY <4>1, <4>3 DEF Rooted
        <5>2. after[j] = visited[j]
          BY <2>1, <4>1, <5>1
        <5>3. QED
          BY <4>1, <5>1, <5>2
      <4>4. QED
        BY <4>2, <4>3
    <3>3. QED
      BY <3>1, <3>2
  <2>5. \A n \in Values(Front(stack)) :
          n = target \/ (parent[n] \in Values(after) /\ <<parent[n], n>> \in edges)
    BY <1>2, <1>3, <2>1
  <2>6. QED
    BY <1>3, <2>2, <2>3, <2>4, <2>5 DEF Rooted
<1>6. QED
  BY <1>1, <1>4, <1>5

\* The successors of a visited node that are new go on the stack.
LEMMA PushKeepsRooted ==
  ASSUME NEW nodes, NEW edges, NEW target \in nodes,
         NEW stack \in Seq(nodes), NEW visited \in Seq(nodes), NEW parent \in [nodes -> nodes],
         Rooted(stack, visited, parent, edges, target),
         NEW current \in Values(visited),
         NEW next \in SUBSET nodes, IsFiniteSet(next), next \cap Values(visited) = {},
         \A n \in next : <<current, n>> \in edges,
         NEW parent2, parent2 = [n \in nodes |-> IF n \in next THEN current ELSE parent[n]]
  PROVE  Rooted(stack \o SetToSeq(next), visited, parent2, edges, target)
<1>1. visited # <<>>
  BY ValuesFacts
<1>2. target \in Values(visited) /\ target \notin next /\ parent2[target] = target
  BY <1>1 DEF Rooted
<1>3. Values(stack \o SetToSeq(next)) = Values(stack) \cup next
  <2>1. SetToSeq(next) \in Seq(nodes) /\ Values(SetToSeq(next)) = next
    <3>1. SetToSeq(next) \in Seq(next) /\ Values(SetToSeq(next)) = next
      BY SetToSeqFacts
    <3>2. QED
      BY <3>1
  <2>2. QED
    BY <2>1, ConcatFacts
<1>4. Values(stack) \subseteq nodes /\ Values(visited) \subseteq nodes
  BY ValuesFacts
<1>5. ASSUME NEW n \in Values(stack) \cup next
      PROVE  n = target \/ (parent2[n] \in Values(visited) /\ <<parent2[n], n>> \in edges)
  <2>1. CASE n \in next
    BY <2>1
  <2>2. CASE n \notin next
    <3>1. n \in Values(stack) /\ parent2[n] = parent[n]
      BY <1>4, <1>5, <2>2
    <3>2. QED
      BY <3>1 DEF Rooted
  <2>3. QED
    BY <2>1, <2>2
<1>6. ASSUME NEW i \in 1 .. Len(visited)
      PROVE  \/ visited[i] = target
             \/ \E j \in 1 .. i - 1 : visited[j] = parent2[visited[i]]
                                   /\ <<visited[j], visited[i]>> \in edges
  <2>1. visited[i] \in Values(visited)
    BY DEF Values
  <2>2. parent2[visited[i]] = parent[visited[i]]
    BY <1>4, <2>1
  <2>3. \/ visited[i] = target
        \/ \E j \in 1 .. i - 1 : visited[j] = parent[visited[i]]
                              /\ <<visited[j], visited[i]>> \in edges
    BY DEF Rooted
  <2>4. QED
    BY <2>2, <2>3
<1>7. QED
  BY <1>1, <1>2, <1>3, <1>5, <1>6 DEF Rooted

\* A node is put on the stack by one edge or more.
LEMMA PushedEdges ==
  ASSUME NEW edges, IsFiniteSet(edges), NEW visited, NEW current, current \notin visited,
         NEW next \in SUBSET SuccessorsIn(edges, current)
  PROVE  /\ IsFiniteSet(next)
         /\ Cardinality(EdgesFrom(edges, visited)) \in Nat
         /\ Cardinality(EdgesFrom(edges, visited \cup {current})) \in Nat
         /\ Cardinality(next) \in Nat
         /\ Cardinality(EdgesFrom(edges, visited)) + Cardinality(next)
              <= Cardinality(EdgesFrom(edges, visited \cup {current}))
<1>1. PICK old : old = EdgesFrom(edges, visited)
  OBVIOUS
<1>2. PICK used : used = {e \in edges : e[1] = current /\ e[2] \in next}
  OBVIOUS
<1>3. PICK all : all = EdgesFrom(edges, visited \cup {current})
  OBVIOUS
<1>4. /\ old \in SUBSET edges /\ used \in SUBSET edges /\ all \in SUBSET edges
      /\ old \cup used \in SUBSET all /\ used \cap old = {}
  BY <1>1, <1>2, <1>3 DEF EdgesFrom
<1>5. IsFiniteSet(old) /\ IsFiniteSet(used) /\ IsFiniteSet(all)
  BY <1>4, FS_Subset
<1>6. PICK f : f = [e \in used |-> e[2]]
  OBVIOUS
<1>7. f \in Surjection(used, next)
  <2>1. f \in [used -> next]
    BY <1>2, <1>6
  <2>2. ASSUME NEW n \in next
        PROVE  \E e \in used : f[e] = n
    BY <1>2, <1>6 DEF SuccessorsIn
  <2>3. QED
    BY <2>1, <2>2 DEF Surjection
<1>8. IsFiniteSet(next) /\ Cardinality(next) <= Cardinality(used)
  BY <1>5, <1>7, FS_Surjection
<1>9. Cardinality(old \cup used) = Cardinality(old) + Cardinality(used)
  BY <1>4, <1>5, Disjoint
<1>10. Cardinality(old \cup used) <= Cardinality(all)
  BY <1>4, <1>5, FS_Subset
<1>11. /\ Cardinality(old) \in Nat /\ Cardinality(used) \in Nat
       /\ Cardinality(all) \in Nat /\ Cardinality(next) \in Nat
  BY <1>5, <1>8, FS_CardinalityType
<1>12. QED
  BY <1>1, <1>3, <1>8, <1>9, <1>10, <1>11

\* A round keeps what is known of the search.
LEMMA BackStep ==
  ASSUME NEW nodes, NEW edges \in SUBSET (nodes \X nodes), IsFiniteSet(edges),
         NEW source \in nodes, NEW target \in nodes,
         NEW k \in Nat, NEW st \in BackInv(nodes, edges, source, target, k)
  PROVE  SearchBack(nodes, edges, source)[st] \in BackInv(nodes, edges, source, target, k + 1)
<1>a. PICK stack : stack = st.stack
  OBVIOUS
<1>b. PICK visited : visited = st.visited
  OBVIOUS
<1>c. PICK parent : parent = st.parent
  OBVIOUS
<1>d. PICK current : current = Last(stack)
  OBVIOUS
<1>e. PICK after : after = Append(visited, current)
  OBVIOUS
<1>f. PICK next : next = SuccessorsIn(edges, current) \ (Values(visited) \cup {current})
  OBVIOUS
<1>g. PICK parent2 : parent2 = [n \in nodes |-> IF n \in next THEN current ELSE parent[n]]
  OBVIOUS
<1>h. PICK st2 : st2 = SearchBack(nodes, edges, source)[st]
  OBVIOUS
<1>1. /\ st \in BackState(nodes)
      /\ stack \in Seq(nodes) /\ visited \in Seq(nodes) /\ parent \in [nodes -> nodes]
      /\ Distinct(visited) /\ Rooted(stack, visited, parent, edges, target)
      /\ source \notin Values(visited) => Pending(stack, visited, edges, k)
  BY <1>a, <1>b, <1>c DEF BackInv, BackState
<1>2. st2 = CASE stack = <<>> \/ source \in Values(visited) -> st
              [] OTHER ->
                   CASE current \in Values(visited) ->
                          [stack |-> Front(stack), visited |-> visited, parent |-> parent]
                     [] current \notin Values(visited) /\ current = source ->
                          [stack |-> Front(stack), visited |-> after, parent |-> parent]
                     [] OTHER ->
                          [stack |-> Front(stack) \o SetToSeq(next), visited |-> after,
                           parent |-> parent2]
  BY <1>a, <1>b, <1>c, <1>d, <1>e, <1>f, <1>g, <1>h, <1>1 DEF SearchBack
<1>3. SUFFICES st2 \in BackInv(nodes, edges, source, target, k + 1)
  BY <1>h
<1>4. ASSUME NEW stk \in Seq(nodes), NEW vis \in Seq(nodes), NEW par \in [nodes -> nodes],
             st2 = [stack |-> stk, visited |-> vis, parent |-> par],
             Distinct(vis), Rooted(stk, vis, par, edges, target),
             source \notin Values(vis) => Pending(stk, vis, edges, k + 1)
      PROVE  st2 \in BackInv(nodes, edges, source, target, k + 1)
  <2>1. st2.stack = stk /\ st2.visited = vis /\ st2.parent = par /\ st2 \in BackState(nodes)
    BY <1>4 DEF BackState
  <2>2. QED
    BY <1>4, <2>1 DEF BackInv
<1>5. CASE stack = <<>> \/ source \in Values(visited)
  <2>1. st2 = st
    BY <1>2, <1>5
  <2>2. source \notin Values(visited) => Pending(stack, visited, edges, k + 1)
    BY <1>1, <1>5 DEF Pending
  <2>3. st2 = [stack |-> stack, visited |-> visited, parent |-> parent]
    BY <1>a, <1>b, <1>c, <1>1, <2>1 DEF BackState
  <2>4. QED
    BY <1>1, <1>4, <2>2, <2>3
<1>6. ASSUME stack # <<>>, source \notin Values(visited)
      PROVE  st2 \in BackInv(nodes, edges, source, target, k + 1)
  <2>1. /\ Front(stack) \in Seq(nodes) /\ Len(Front(stack)) = Len(stack) - 1
        /\ Len(stack) \in Nat \ {0}
        /\ current \in nodes /\ current \in Values(stack)
        /\ Values(stack) = Values(Front(stack)) \cup {current}
    BY <1>d, <1>1, <1>6, FrontFacts
  <2>2. Pending(stack, visited, edges, k)
    BY <1>1, <1>6
  <2>3. CASE current \in Values(visited)
    <3>1. st2 = [stack |-> Front(stack), visited |-> visited, parent |-> parent]
      BY <1>2, <1>6, <2>3
    <3>2. visited # <<>>
      BY <1>1, <2>3, ValuesFacts
    <3>3. Rooted(Front(stack), visited, parent, edges, target)
      BY <1>1, <1>6, <3>2, PopKeepsRooted
    <3>4. Pending(Front(stack), visited, edges, k + 1)
      <4>1. \A e \in edges : e[1] \in Values(visited) =>
              e[2] \in Values(visited) \cup Values(Front(stack))
        BY <2>1, <2>2, <2>3 DEF Pending
      <4>2. Len(Front(stack)) + (k + 1) = Len(stack) + k
        BY <2>1
      <4>3. Len(stack) + k <= 1 + Cardinality(EdgesFrom(edges, Values(visited)))
        BY <1>6, <2>2 DEF Pending
      <4>4. QED
        BY <4>1, <4>2, <4>3 DEF Pending
    <3>5. QED
      BY <1>1, <1>4, <2>1, <3>1, <3>3, <3>4
  <2>4. ASSUME current \notin Values(visited)
        PROVE  /\ after \in Seq(nodes) /\ Distinct(after)
               /\ Values(after) = Values(visited) \cup {current}
               /\ Rooted(Front(stack), after, parent, edges, target)
    <3>1. /\ after \in Seq(nodes) /\ Distinct(after)
          /\ Values(after) = Values(visited) \cup {current}
      BY <1>e, <1>1, <2>1, <2>4, AppendFacts
    <3>2. Rooted(Front(stack), after, parent, edges, target)
      BY <1>d, <1>e, <1>1, <1>6, <3>1, PopKeepsRooted
    <3>3. QED
      BY <3>1, <3>2
  <2>5. CASE current \notin Values(visited) /\ current = source
    <3>1. st2 = [stack |-> Front(stack), visited |-> after, parent |-> parent]
      BY <1>2, <1>6, <2>5
    <3>2. source \in Values(after)
      BY <2>4, <2>5
    <3>3. QED
      BY <1>1, <1>4, <2>1, <2>4, <2>5, <3>1, <3>2
  <2>6. CASE current \notin Values(visited) /\ current # source
    <3>1. st2 = [stack |-> Front(stack) \o SetToSeq(next), visited |-> after, parent |-> parent2]
      BY <1>2, <1>6, <2>6
    <3>2. next \in SUBSET SuccessorsIn(edges, current)
      BY <1>f
    <3>3. next \in SUBSET nodes /\ \A n \in next : <<current, n>> \in edges
      BY <3>2 DEF SuccessorsIn
    <3>4. /\ IsFiniteSet(next) /\ Cardinality(next) \in Nat
          /\ Cardinality(EdgesFrom(edges, Values(visited))) \in Nat
          /\ Cardinality(EdgesFrom(edges, Values(after))) \in Nat
          /\ Cardinality(EdgesFrom(edges, Values(visited))) + Cardinality(next)
               <= Cardinality(EdgesFrom(edges, Values(after)))
      BY <2>4, <2>6, <3>2, PushedEdges
    <3>5. SetToSeq(next) \in Seq(nodes) /\ Values(SetToSeq(next)) = next
          /\ Len(SetToSeq(next)) = Cardinality(next)
      <4>1. SetToSeq(next) \in Seq(next) /\ Values(SetToSeq(next)) = next
            /\ Len(SetToSeq(next)) = Cardinality(next)
        BY <3>4, SetToSeqFacts
      <4>2. QED
        BY <3>3, <4>1
    <3>6. PICK stack2 : stack2 = Front(stack) \o SetToSeq(next)
      OBVIOUS
    <3>7. /\ stack2 \in Seq(nodes) /\ Len(stack2) = (Len(stack) - 1) + Cardinality(next)
          /\ Values(stack2) = Values(Front(stack)) \cup next
      <4>1. PICK rest : rest = Front(stack)
        OBVIOUS
      <4>2. PICK more : more = SetToSeq(next)
        OBVIOUS
      <4>3. rest \in Seq(nodes) /\ more \in Seq(nodes)
        BY <2>1, <3>5, <4>1, <4>2
      <4>4. /\ rest \o more \in Seq(nodes) /\ Len(rest \o more) = Len(rest) + Len(more)
            /\ Values(rest \o more) = Values(rest) \cup Values(more)
        BY <4>3, ConcatFacts
      <4>5. stack2 = rest \o more /\ Len(rest) = Len(stack) - 1 /\ Len(more) = Cardinality(next)
            /\ Values(more) = next
        BY <2>1, <3>5, <3>6, <4>1, <4>2
      <4>6. QED
        BY <4>1, <4>4, <4>5
    <3>8. parent2 \in [nodes -> nodes]
      BY <1>g, <1>1, <2>1
    <3>9. Rooted(stack2, after, parent2, edges, target)
      <4>1. current \in Values(after) /\ next \cap Values(after) = {}
        BY <1>f, <2>4, <2>6
      <4>2. QED
        BY <1>g, <1>1, <2>1, <2>4, <2>6, <3>3, <3>4, <3>6, <4>1, PushKeepsRooted
    <3>10. Pending(stack2, after, edges, k + 1)
      <4>1. ASSUME NEW e \in edges, e[1] \in Values(after)
            PROVE  e[2] \in Values(after) \cup Values(stack2)
        <5>1. CASE e[1] \in Values(visited)
          BY <2>1, <2>2, <2>4, <2>6, <3>7, <5>1 DEF Pending
        <5>2. CASE e[1] = current
          <6>1. e[2] \in SuccessorsIn(edges, current)
            BY <5>2 DEF SuccessorsIn
          <6>2. QED
            BY <1>f, <2>4, <2>6, <3>7, <6>1
        <5>3. QED
          BY <2>4, <2>6, <4>1, <5>1, <5>2
      <4>2. Len(stack) + k <= 1 + Cardinality(EdgesFrom(edges, Values(visited)))
        BY <1>6, <2>2 DEF Pending
      <4>3. Len(stack2) + (k + 1) <= 1 + Cardinality(EdgesFrom(edges, Values(after)))
        BY <2>1, <3>4, <3>7, <4>2
      <4>4. QED
        BY <4>1, <4>3 DEF Pending
    <3>11. QED
      BY <1>4, <2>4, <2>6, <3>1, <3>6, <3>7, <3>8, <3>9, <3>10
  <2>7. QED
    BY <2>3, <2>5, <2>6
<1>7. QED
  BY <1>5, <1>6

\* One element before a sequence.
LEMMA PrependFacts ==
  ASSUME NEW S, NEW p \in S, NEW s \in Seq(S), NEW u, u = <<p>> \o s
  PROVE  /\ u \in Seq(S) /\ Len(u) = Len(s) + 1
         /\ u[1] = p /\ \A h \in 1 .. Len(s) : u[h + 1] = s[h]
<1>1. Len(s) \in Nat
  OBVIOUS
<1>2. u \in Seq(S) /\ Len(u) = Len(s) + 1
  OBVIOUS
<1>3. u[1] = p
  OBVIOUS
<1>4. ASSUME NEW h \in 1 .. Len(s)
      PROVE  u[h + 1] = s[h]
  BY <1>1
<1>5. QED
  BY <1>2, <1>3, <1>4

\* The way back from the source after k rounds: edges all the way, and its
\* first node is the target or one visited k rounds before the last.
WayInv(nodes, edges, source, target, visited, k) ==
  {path \in Seq(nodes) :
    /\ path # <<>> /\ path[Len(path)] = source
    /\ \A i \in 1 .. Len(path) - 1 : <<path[i], path[i + 1]>> \in edges
    /\ path[1] = target \/ \E i \in 1 .. Len(visited) - k : path[1] = visited[i]}

LEMMA WayStep ==
  ASSUME NEW nodes, NEW edges, NEW source, NEW target \in nodes,
         NEW visited \in Seq(nodes), Distinct(visited), NEW parent \in [nodes -> nodes],
         NEW stack, Rooted(stack, visited, parent, edges, target),
         NEW k \in Nat, NEW path \in WayInv(nodes, edges, source, target, visited, k)
  PROVE  WayBack(nodes, parent)[path] \in WayInv(nodes, edges, source, target, visited, k + 1)
<1>1. PICK p : p = parent[path[1]]
  OBVIOUS
<1>2. PICK path2 : path2 = WayBack(nodes, parent)[path]
  OBVIOUS
<1>3. /\ path \in Seq(nodes) /\ path # <<>> /\ path[Len(path)] = source
      /\ \A i \in 1 .. Len(path) - 1 : <<path[i], path[i + 1]>> \in edges
      /\ path[1] = target \/ \E i \in 1 .. Len(visited) - k : path[1] = visited[i]
      /\ path[1] \in nodes /\ p \in nodes
  BY <1>1 DEF WayInv
<1>4. path2 = IF p = path[1] THEN path ELSE <<p>> \o path
  BY <1>1, <1>2, <1>3 DEF WayBack
<1>5. CASE path[1] = target
  <2>1. p = target
    BY <1>1, <1>5 DEF Rooted
  <2>2. path2 = path
    BY <1>4, <1>5, <2>1
  <2>3. path2 \in WayInv(nodes, edges, source, target, visited, k + 1)
    BY <1>3, <1>5, <2>2 DEF WayInv
  <2>4. QED
    BY <1>2, <2>3
<1>6. CASE path[1] # target
  <2>1. PICK i \in 1 .. Len(visited) - k : path[1] = visited[i]
    BY <1>3, <1>6
  <2>2. i \in 1 .. Len(visited)
    <3>1. Len(visited) \in Nat
      OBVIOUS
    <3>2. QED
      BY <2>1, <3>1
  <2>3. PICK j \in 1 .. i - 1 : visited[j] = p /\ <<visited[j], visited[i]>> \in edges
    BY <1>1, <1>6, <2>1, <2>2 DEF Rooted
  <2>4. j \in 1 .. Len(visited) - (k + 1) /\ j \in 1 .. Len(visited) /\ j # i
    <3>1. Len(visited) \in Nat
      OBVIOUS
    <3>2. QED
      BY <2>1, <2>3, <3>1
  <2>5. p # path[1]
    BY <2>1, <2>2, <2>3, <2>4 DEF Distinct, IsInjective
  <2>6. path2 = <<p>> \o path
    BY <1>4, <2>5
  <2>7. /\ path2 \in Seq(nodes) /\ Len(path2) = Len(path) + 1 /\ Len(path) \in Nat \ {0}
        /\ path2[1] = p /\ \A h \in 1 .. Len(path) : path2[h + 1] = path[h]
    <3>1. Len(path) \in Nat \ {0}
      BY <1>3
    <3>2. path \in Seq(nodes) /\ p \in nodes
      BY <1>3
    <3>3. /\ path2 \in Seq(nodes) /\ Len(path2) = Len(path) + 1
          /\ path2[1] = p /\ \A h \in 1 .. Len(path) : path2[h + 1] = path[h]
      BY <2>6, <3>2, PrependFacts
    <3>4. QED
      BY <3>1, <3>3
  <2>8. path2[Len(path2)] = source /\ path2 # <<>>
    <3>1. Len(path) \in 1 .. Len(path) /\ Len(path2) = Len(path) + 1 /\ Len(path2) # 0
      BY <2>7
    <3>2. path2[Len(path) + 1] = path[Len(path)]
      BY <2>7, <3>1, Zenon
    <3>3. path[Len(path)] = source
      BY <1>3
    <3>4. Len(<<>>) = 0
      OBVIOUS
    <3>5. path2[Len(path2)] = source
      BY <3>1, <3>2, <3>3, Zenon
    <3>6. path2 # <<>>
      BY <3>1, <3>4, Zenon
    <3>7. QED
      BY <3>5, <3>6
  <2>9. ASSUME NEW h \in 1 .. Len(path2) - 1
        PROVE  <<path2[h], path2[h + 1]>> \in edges
    <3>1. CASE h = 1
      <4>1. path2[h] = p /\ path2[h + 1] = path[1]
        BY <2>7, <3>1
      <4>2. QED
        BY <2>1, <2>3, <4>1
    <3>2. CASE h # 1
      <4>1. PICK g : g = h - 1
        OBVIOUS
      <4>2. g \in 1 .. Len(path) - 1 /\ g \in 1 .. Len(path) /\ g + 1 \in 1 .. Len(path)
            /\ h = g + 1
        BY <2>7, <2>9, <3>2, <4>1
      <4>3. path2[h] = path[g] /\ path2[h + 1] = path[g + 1]
        BY <2>7, <4>2
      <4>4. QED
        BY <1>3, <4>2, <4>3
    <3>3. QED
      BY <3>1, <3>2
  <2>10. path2[1] = visited[j]
    BY <2>3, <2>7
  <2>11. path2 \in WayInv(nodes, edges, source, target, visited, k + 1)
    BY <2>4, <2>7, <2>8, <2>9, <2>10 DEF WayInv
  <2>12. QED
    BY <1>2, <2>11
<1>7. QED
  BY <1>5, <1>6

\* The paths between two nodes.
Ways(nodes, edges, from, to) ==
  {path \in Seq(nodes) :
    /\ path # <<>> /\ path[1] = from /\ path[Len(path)] = to
    /\ \A i \in 1 .. Len(path) - 1 : <<path[i], path[i + 1]>> \in edges}

\* All rounds of the way back.
LEMMA WayFacts ==
  ASSUME NEW nodes, NEW edges, NEW source \in nodes, NEW target \in nodes,
         NEW visited \in Seq(nodes), Distinct(visited), NEW parent \in [nodes -> nodes],
         NEW stack, Rooted(stack, visited, parent, edges, target),
         source \in Values(visited),
         NEW start, start = <<source>>, NEW n, n = Len(visited),
         NEW path, path = Iterate(WayBack(nodes, parent), start, n)
  PROVE  path \in Ways(nodes, edges, target, source)
<1>1. PICK Inv : Inv = [k \in Nat |-> WayInv(nodes, edges, source, target, visited, k)]
  OBVIOUS
<1>2. n \in Nat
  OBVIOUS
<1>3. start \in Inv[0]
  <2>1. start \in Seq(nodes) /\ Len(start) = 1 /\ start[1] = source /\ start # <<>>
    OBVIOUS
  <2>2. \E i \in 1 .. Len(visited) - 0 : start[1] = visited[i]
    BY <2>1 DEF Values
  <2>3. start \in WayInv(nodes, edges, source, target, visited, 0)
    <3>1. start[Len(start)] = source
      BY <2>1
    <3>2. \A i \in 1 .. Len(start) - 1 : <<start[i], start[i + 1]>> \in edges
      <4>1. 1 .. Len(start) - 1 = {}
        BY <2>1
      <4>2. QED
        BY <4>1
    <3>3. QED
      BY <2>1, <2>2, <3>1, <3>2, Zenon DEF WayInv
  <2>4. QED
    BY <1>1, <2>3
<1>4. ASSUME NEW k \in 0 .. n - 1, NEW s \in Inv[k]
      PROVE  WayBack(nodes, parent)[s] \in Inv[k + 1]
  <2>1. k \in Nat /\ s \in WayInv(nodes, edges, source, target, visited, k)
    BY <1>1, <1>2, <1>4
  <2>2. WayBack(nodes, parent)[s] \in WayInv(nodes, edges, source, target, visited, k + 1)
    BY <2>1, WayStep
  <2>3. QED
    BY <1>1, <2>1, <2>2
<1>5. path \in Inv[n]
  BY <1>2, <1>3, <1>4, IterateKeeps
<1>6. path \in WayInv(nodes, edges, source, target, visited, n)
  BY <1>1, <1>2, <1>5
<1>7. 1 .. Len(visited) - n = {}
  BY <1>2
<1>8. QED
  BY <1>6, <1>7 DEF WayInv, Ways

\* All rounds of the search.
LEMMA BackFacts ==
  ASSUME NEW nodes, NEW edges \in SUBSET (nodes \X nodes), IsFiniteSet(edges),
         NEW source \in nodes, NEW target \in nodes,
         NEW start, start = [stack |-> <<target>>, visited |-> <<>>, parent |-> [n \in nodes |-> n]],
         NEW end, end = Iterate(SearchBack(nodes, edges, source), start, Cardinality(edges) + 1)
  PROVE  /\ end.visited \in Seq(nodes) /\ Distinct(end.visited)
         /\ end.parent \in [nodes -> nodes]
         /\ Rooted(end.stack, end.visited, end.parent, edges, target)
         /\ source \notin Values(end.visited) =>
              /\ target \in Values(end.visited)
              /\ \A e \in edges : e[1] \in Values(end.visited) => e[2] \in Values(end.visited)
<1>1. PICK Inv : Inv = [k \in Nat |-> BackInv(nodes, edges, source, target, k)]
  OBVIOUS
<1>2. PICK m : m = Cardinality(edges)
  OBVIOUS
<1>3. m \in Nat /\ m + 1 \in Nat
  BY <1>2, FS_CardinalityType
<1>4. start \in Inv[0]
  <2>1. /\ start.stack = <<target>> /\ start.visited = <<>>
        /\ start.parent = [n \in nodes |-> n] /\ start \in BackState(nodes)
    BY DEF BackState
  <2>2. /\ Values(<<>>) = {} /\ Distinct(<<>>) /\ Values(<<target>>) = {target}
        /\ Len(<<>>) = 0 /\ Len(<<target>>) = 1
    BY DEF Values, Distinct, IsInjective
  <2>3. Rooted(start.stack, start.visited, start.parent, edges, target)
    BY <2>1, <2>2 DEF Rooted
  <2>4. Pending(start.stack, start.visited, edges, 0)
    <3>1. EdgesFrom(edges, Values(start.visited)) = {}
      BY <2>1, <2>2 DEF EdgesFrom
    <3>2. Cardinality(EdgesFrom(edges, Values(start.visited))) = 0
      BY <3>1, FS_EmptySet, Zenon
    <3>3. QED
      BY <2>1, <2>2, <3>2 DEF Pending
  <2>5. start \in BackInv(nodes, edges, source, target, 0)
    BY <2>1, <2>2, <2>3, <2>4 DEF BackInv
  <2>6. QED
    BY <1>1, <2>5
<1>5. ASSUME NEW k \in 0 .. m + 1 - 1, NEW s \in Inv[k]
      PROVE  SearchBack(nodes, edges, source)[s] \in Inv[k + 1]
  <2>1. k \in Nat /\ s \in BackInv(nodes, edges, source, target, k)
    BY <1>1, <1>3, <1>5
  <2>2. SearchBack(nodes, edges, source)[s] \in BackInv(nodes, edges, source, target, k + 1)
    BY <2>1, BackStep
  <2>3. QED
    BY <1>1, <2>1, <2>2
<1>6. end \in Inv[m + 1]
  BY <1>2, <1>3, <1>4, <1>5, IterateKeeps
<1>7. end \in BackInv(nodes, edges, source, target, m + 1)
  BY <1>1, <1>3, <1>6
<1>8. /\ end.stack \in Seq(nodes)
      /\ end.visited \in Seq(nodes) /\ Distinct(end.visited)
      /\ end.parent \in [nodes -> nodes]
      /\ Rooted(end.stack, end.visited, end.parent, edges, target)
      /\ source \notin Values(end.visited) => Pending(end.stack, end.visited, edges, m + 1)
  BY <1>7 DEF BackInv, BackState
<1>9. ASSUME source \notin Values(end.visited)
      PROVE  /\ target \in Values(end.visited)
             /\ \A e \in edges : e[1] \in Values(end.visited) => e[2] \in Values(end.visited)
  <2>1. PICK reached : reached = EdgesFrom(edges, Values(end.visited))
    OBVIOUS
  <2>2. Cardinality(reached) <= m /\ Cardinality(reached) \in Nat
    <3>1. reached \in SUBSET edges
      BY <2>1 DEF EdgesFrom
    <3>2. QED
      BY <1>2, <3>1, FS_Subset, FS_CardinalityType
  <2>3. end.stack = <<>>
    <3>1. SUFFICES ASSUME end.stack # <<>> PROVE FALSE
      OBVIOUS
    <3>2. PICK l : l = Len(end.stack)
      OBVIOUS
    <3>3. PICK c : c = Cardinality(reached)
      OBVIOUS
    <3>4. Pending(end.stack, end.visited, edges, m + 1)
      BY <1>8, <1>9
    <3>5. l + (m + 1) <= 1 + c
      BY <2>1, <3>1, <3>2, <3>3, <3>4 DEF Pending
    <3>6. PICK stack : stack = end.stack
      OBVIOUS
    <3>7. stack \in Seq(nodes) /\ stack # <<>> /\ l = Len(stack)
      BY <1>8, <3>1, <3>2, <3>6
    <3>8. l \in Nat /\ l # 0
      BY <3>7
    <3>9. QED
      BY <1>3, <2>2, <3>3, <3>5, <3>8
  <2>4. Values(end.stack) = {}
    BY <2>3 DEF Values
  <2>5. target \in Values(end.visited)
    <3>1. Rooted(end.stack, end.visited, end.parent, edges, target)
      BY <1>8
    <3>2. <<target>> # <<>>
      OBVIOUS
    <3>3. QED
      BY <2>3, <3>1, <3>2 DEF Rooted
  <2>6. QED
    BY <1>8, <1>9, <2>4, <2>5 DEF Pending
<1>10. QED
  BY <1>8, <1>9

\* An edge out of a set that no edge leaves, to a node outside, closes nothing:
\* V is what is reached from the edge's target.
LEMMA ClosedStaysAcyclic ==
  ASSUME NEW ids, NEW edges, Acyclic(ids, edges), NEW s, NEW t, NEW V,
         t \in V, s \notin V, \A e \in edges : e[1] \in V => e[2] \in V
  PROVE  Acyclic(ids, edges \cup {<<s, t>>})
<1> SUFFICES ASSUME NEW S \in (SUBSET ids) \ {{}}
             PROVE  \E n \in S : \A m \in S : <<n, m>> \notin edges \cup {<<s, t>>}
  BY DEF Acyclic
<1>1. CASE S \cap V # {}
  <2>1. S \cap V \in (SUBSET ids) \ {{}}
    BY <1>1
  <2>2. PICK n \in S \cap V : \A m \in S \cap V : <<n, m>> \notin edges
    BY <2>1, Zenon DEF Acyclic
  <2>3. ASSUME NEW m \in S, <<n, m>> \in edges \cup {<<s, t>>}
        PROVE  FALSE
    <3>1. CASE <<n, m>> = <<s, t>>
      BY <2>2, <3>1
    <3>2. CASE <<n, m>> \in edges
      BY <2>2, <3>2
    <3>3. QED
      BY <2>3, <3>1, <3>2
  <2>4. QED
    BY <2>2, <2>3
<1>2. CASE S \cap V = {}
  <2>1. PICK n \in S : \A m \in S : <<n, m>> \notin edges
    BY Zenon DEF Acyclic
  <2>2. \A m \in S : <<n, m>> # <<s, t>>
    BY <1>2
  <2>3. QED
    BY <2>1, <2>2
<1>3. QED
  BY <1>1, <1>2

\* An edge back to where a path came from closes a cycle.
LEMMA WayCloses ==
  ASSUME NEW ids, NEW edges, NEW s, NEW t,
         NEW path \in Seq(ids), path # <<>>, path[1] = t, path[Len(path)] = s,
         \A i \in 1 .. Len(path) - 1 : <<path[i], path[i + 1]>> \in edges
  PROVE  ~Acyclic(ids, edges \cup {<<s, t>>})
<1> SUFFICES ASSUME Acyclic(ids, edges \cup {<<s, t>>}) PROVE FALSE
  OBVIOUS
<1>1. Len(path) \in Nat \ {0} /\ DOMAIN path = 1 .. Len(path)
  OBVIOUS
<1>2. \A i \in 1 .. Len(path) : path[i] \in ids /\ path[i] \in Values(path)
  BY <1>1 DEF Values
<1>3. Values(path) \in (SUBSET ids) \ {{}}
  <2>1. Values(path) \subseteq ids
    BY <1>1, <1>2 DEF Values
  <2>2. path[1] \in Values(path)
    BY <1>1, <1>2
  <2>3. QED
    BY <2>1, <2>2
<1>4. PICK n \in Values(path) : \A m \in Values(path) : <<n, m>> \notin edges \cup {<<s, t>>}
  BY <1>3, Zenon DEF Acyclic
<1>5. PICK i \in 1 .. Len(path) : n = path[i]
  BY <1>1 DEF Values
<1>6. CASE i = Len(path)
  <2>1. n = s /\ t \in Values(path)
    BY <1>1, <1>2, <1>5, <1>6
  <2>2. QED
    BY <1>4, <2>1
<1>7. CASE i # Len(path)
  <2>1. i \in 1 .. Len(path) - 1 /\ i + 1 \in 1 .. Len(path)
    <3>1. PICK l : l = Len(path)
      OBVIOUS
    <3>2. l \in Nat /\ i \in 1 .. l /\ i # l
      BY <1>1, <1>7, <3>1
    <3>3. i \in 1 .. l - 1 /\ i + 1 \in 1 .. l
      BY <3>2
    <3>4. QED
      BY <3>1, <3>3
  <2>2. <<n, path[i + 1]>> \in edges /\ path[i + 1] \in Values(path)
    BY <1>2, <1>5, <2>1
  <2>3. QED
    BY <1>4, <2>2
<1>8. QED
  BY <1>6, <1>7

(* The check of a new edge on any graph without a cycle: it answers with    *)
(* nothing exactly when the edge closes none, and else with a way around,   *)
(* from the edge's target to its source and back (queries.py:               *)
(* would_create_cycle).                                                     *)
THEOREM NewEdgeCheckIsExact ==
  ASSUME NEW ids, IsFiniteSet(ids), NEW edges \in SUBSET (ids \X ids), Acyclic(ids, edges),
         NEW s \in ids, NEW t \in ids,
         NEW cycle, cycle = WouldCreateCycle(edges, s, t)
  PROVE  /\ cycle = <<>> <=> Acyclic(ids, edges \cup {<<s, t>>})
         /\ cycle # <<>> /\ s # t =>
              /\ cycle[1] = t /\ cycle[Len(cycle) - 1] = s /\ Last(cycle) = t
              /\ \A i \in 1 .. Len(cycle) - 2 : <<cycle[i], cycle[i + 1]>> \in edges
<1>1. PICK nodes : nodes = {s, t} \cup {e[1] : e \in edges} \cup {e[2] : e \in edges}
  OBVIOUS
<1>2. nodes \in SUBSET ids /\ s \in nodes /\ t \in nodes /\ edges \in SUBSET (nodes \X nodes)
  <2>1. \A e \in edges : e[1] \in ids /\ e[2] \in ids /\ e = <<e[1], e[2]>>
    OBVIOUS
  <2>2. QED
    BY <1>1, <2>1
<1>3. IsFiniteSet(edges)
  BY FS_Product, FS_Subset
<1>4. PICK start : start = [stack |-> <<t>>, visited |-> <<>>, parent |-> [n \in nodes |-> n]]
  OBVIOUS
<1>5. PICK end : end = Iterate(SearchBack(nodes, edges, s), start, Cardinality(edges) + 1)
  OBVIOUS
<1>6. PICK path : path = Iterate(WayBack(nodes, end.parent), <<s>>, Len(end.visited))
  OBVIOUS
<1>7. cycle = IF s = t THEN <<s, t>>
              ELSE IF s \notin Values(end.visited) THEN <<>> ELSE Append(path, t)
  BY <1>1, <1>4, <1>5, <1>6 DEF WouldCreateCycle
<1>8. PICK visited : visited = end.visited
  OBVIOUS
<1>9. /\ visited \in Seq(nodes) /\ Distinct(visited)
      /\ end.parent \in [nodes -> nodes]
      /\ Rooted(end.stack, visited, end.parent, edges, t)
      /\ s \notin Values(visited) =>
           /\ t \in Values(visited)
           /\ \A e \in edges : e[1] \in Values(visited) => e[2] \in Values(visited)
  <2>1. /\ end.visited \in Seq(nodes) /\ Distinct(end.visited)
        /\ end.parent \in [nodes -> nodes]
        /\ Rooted(end.stack, end.visited, end.parent, edges, t)
        /\ s \notin Values(end.visited) =>
             /\ t \in Values(end.visited)
             /\ \A e \in edges : e[1] \in Values(end.visited) => e[2] \in Values(end.visited)
    BY <1>2, <1>3, <1>4, <1>5, BackFacts
  <2>2. QED
    BY <1>8, <2>1
<1>10. CASE s = t
  <2>1. PICK stay : stay = <<s>>
    OBVIOUS
  <2>2. /\ stay \in Seq(ids) /\ stay # <<>> /\ Len(stay) = 1 /\ stay[1] = t /\ stay[Len(stay)] = s
        /\ 1 .. Len(stay) - 1 = {}
    BY <1>10, <2>1
  <2>3. ~Acyclic(ids, edges \cup {<<s, t>>})
    BY <2>2, WayCloses
  <2>4. cycle # <<>>
    BY <1>7, <1>10
  <2>5. QED
    BY <1>10, <2>3, <2>4
<1>11. CASE s # t /\ s \notin Values(visited)
  <2>1. Acyclic(ids, edges \cup {<<s, t>>})
    BY <1>9, <1>11, ClosedStaysAcyclic
  <2>2. cycle = <<>>
    BY <1>7, <1>8, <1>11
  <2>3. QED
    BY <2>1, <2>2
<1>12. CASE s # t /\ s \in Values(visited)
  <2>1. /\ path \in Seq(nodes) /\ path # <<>>
        /\ path[1] = t /\ path[Len(path)] = s
        /\ \A i \in 1 .. Len(path) - 1 : <<path[i], path[i + 1]>> \in edges
    <3>1. PICK parent : parent = end.parent
      OBVIOUS
    <3>2. PICK stack : stack = end.stack
      OBVIOUS
    <3>3. /\ visited \in Seq(nodes) /\ Distinct(visited) /\ parent \in [nodes -> nodes]
          /\ Rooted(stack, visited, parent, edges, t) /\ s \in Values(visited)
      BY <1>8, <1>9, <1>12, <3>1, <3>2
    <3>4. PICK first : first = <<s>>
      OBVIOUS
    <3>5. PICK n : n = Len(visited)
      OBVIOUS
    <3>6. path = Iterate(WayBack(nodes, parent), first, n)
      BY <1>6, <1>8, <3>1, <3>4, <3>5
    <3>7. QED
      <4>1. path \in Ways(nodes, edges, t, s)
        BY <1>2, <3>3, <3>4, <3>5, <3>6, WayFacts
      <4>2. QED
        BY <4>1 DEF Ways
  <2>2. path \in Seq(ids)
    BY <1>2, <2>1
  <2>3. ~Acyclic(ids, edges \cup {<<s, t>>})
    BY <2>1, <2>2, WayCloses
  <2>4. cycle = Append(path, t)
    BY <1>7, <1>8, <1>12
  <2>5. /\ Len(path) \in Nat \ {0} /\ Len(cycle) = Len(path) + 1 /\ cycle # <<>>
        /\ cycle[Len(cycle)] = t /\ \A i \in 1 .. Len(path) : cycle[i] = path[i]
    <3>1. path # <<>>
      BY <2>1
    <3>2. Len(path) \in Nat \ {0}
      BY <2>2, <3>1
    <3>3. Len(cycle) = Len(path) + 1 /\ cycle \in Seq(ids)
      BY <2>2, <2>4
    <3>4. cycle # <<>> /\ cycle[Len(path) + 1] = t
      BY <2>2, <2>4
    <3>5. \A i \in 1 .. Len(path) : cycle[i] = path[i]
      BY <2>2, <2>4
    <3>6. QED
      BY <3>2, <3>3, <3>4, <3>5
  <2>6. cycle[1] = t /\ cycle[Len(cycle) - 1] = s /\ Last(cycle) = t
    BY <2>1, <2>5 DEF Last
  <2>7. ASSUME NEW i \in 1 .. Len(cycle) - 2
        PROVE  <<cycle[i], cycle[i + 1]>> \in edges
    <3>1. i \in 1 .. Len(path) - 1 /\ i \in 1 .. Len(path) /\ i + 1 \in 1 .. Len(path)
      BY <2>5
    <3>2. QED
      BY <2>1, <2>5, <3>1
  <2>8. QED
    BY <2>3, <2>5, <2>6, <2>7
<1>13. QED
  BY <1>10, <1>11, <1>12

---------------------------------------------------------------------------
(* Answers and their tags *)

\* A loop of no rounds.
LEMMA IterateNot ==
  ASSUME NEW step, NEW start
  PROVE  Iterate(step, start, 0) = start
<1>1. PICK Inv : Inv = [k \in Nat |-> {start}]
  OBVIOUS
<1>2. start \in Inv[0] /\ \A k \in 0 .. 0 - 1 : \A s \in Inv[k] : step[s] \in Inv[k + 1]
  BY <1>1
<1>3. Iterate(step, start, 0) \in Inv[0]
  BY <1>2, IterateKeeps
<1>4. QED
  BY <1>1, <1>3

\* What the extractor returns is a tag of the answer, or none.
LEMMA ExtractFacts ==
  ASSUME NEW raw \in Seq(TagNode), NEW root, ExtractTagTree(raw, root) # NoTag
  PROVE  ExtractTagTree(raw, root) \in TagNode
<1>1. PICK Inv : Inv = [k \in Nat |-> Seq(TagNode)]
  OBVIOUS
<1>2. ASSUME NEW todo \in Seq(TagNode)
      PROVE  Find(root)[todo] \in Seq(TagNode)
  <2>1. Find(root)[todo] = IF todo = <<>> \/ todo[1].tag = root THEN todo
                           ELSE todo[1].kids \o Tail(todo)
    BY DEF Find
  <2>2. todo # <<>> => todo[1] \in TagNode /\ Tail(todo) \in Seq(TagNode)
    OBVIOUS
  <2>3. todo # <<>> => todo[1].kids \o Tail(todo) \in Seq(TagNode)
    BY <2>2, TagNodeAssumption
  <2>4. QED
    BY <2>1, <2>3
<1>3. MaxTags \in Nat /\ raw \in Inv[0]
      /\ \A k \in 0 .. MaxTags - 1 : \A s \in Inv[k] : Find(root)[s] \in Inv[k + 1]
  BY <1>1, <1>2, TagNodeAssumption
<1>4. Iterate(Find(root), raw, MaxTags) \in Inv[MaxTags]
  BY <1>3, IterateKeeps
<1>5. Iterate(Find(root), raw, MaxTags) \in Seq(TagNode)
  BY <1>1, <1>3, <1>4
<1>6. QED
  BY <1>5 DEF ExtractTagTree

\* A tag has children, and the first of a name is one of them.
LEMMA KidFacts ==
  ASSUME NEW node \in TagNode
  PROVE  /\ node.kids \in Seq(TagNode)
         /\ DOMAIN node.kids = 1 .. Len(node.kids) /\ Len(node.kids) \in Nat
         /\ \A i \in DOMAIN node.kids : node.kids[i] \in TagNode
         /\ \A tag : PlacesOf(node, tag) # {} => Kid(node, tag) \in TagNode
<1>1. node.kids \in Seq(TagNode)
  BY TagNodeAssumption
<1>2. ASSUME NEW tag, PlacesOf(node, tag) # {}
      PROVE  Kid(node, tag) \in TagNode
  <2>1. PlacesOf(node, tag) \in SUBSET Nat /\ PlacesOf(node, tag) \subseteq 1 .. Len(node.kids)
    BY <1>1 DEF PlacesOf
  <2>2. Min(PlacesOf(node, tag)) \in 1 .. Len(node.kids)
    BY <1>2, <2>1, MinMember
  <2>3. QED
    BY <1>1, <2>2 DEF Kid
<1>3. QED
  BY <1>1, <1>2

\* A section that has to be there is.
LEMMA SectionFacts ==
  ASSUME NEW node \in TagNode, NEW order, Sections(node, order), NEW i \in DOMAIN order
  PROVE  Kid(node, order[i]) \in TagNode
<1>1. i \in DOMAIN node.kids /\ node.kids[i].tag = order[i]
  BY DEF Sections, TagsOf
<1>2. PlacesOf(node, order[i]) # {}
  BY <1>1 DEF PlacesOf
<1>3. QED
  BY <1>2, KidFacts

\* A sequence of the images of the children of a tag.
LEMMA ImageFacts ==
  ASSUME NEW S, NEW s \in Seq(S), NEW f, f = [i \in DOMAIN s |-> f[i]]
  PROVE  /\ f \in Seq(Values(f))
         /\ DOMAIN f = 1 .. Len(f) /\ Len(f) = Len(s) /\ Len(f) \in Nat
         /\ (f = <<>>) <=> (s = <<>>)
<1>1. PICK n : n = Len(s)
  OBVIOUS
<1>2. n \in Nat /\ DOMAIN s = 1 .. n /\ f = [i \in 1 .. n |-> f[i]]
  BY <1>1
<1>3. DOMAIN f = 1 .. n /\ \A i \in 1 .. n : f[i] \in Values(f)
  BY <1>2 DEF Values
<1>4. f \in Seq(Values(f))
  BY <1>2, <1>3
<1>5. Len(f) = n
  BY <1>2, <1>3, <1>4
<1>6. (f = <<>>) <=> (n = 0)
  BY <1>4, <1>5
<1>7. (s = <<>>) <=> (n = 0)
  BY <1>1
<1>8. QED
  BY <1>1, <1>2, <1>3, <1>4, <1>5, <1>6, <1>7

---------------------------------------------------------------------------
(* What a valid document promises *)

Domain         == <<"domain">>
Presentational == <<"presentational">>

\* Component a is among the components and of that kind.
IsOfKind(components, a, kind) ==
  \E c \in Values(components) : c.alias = a /\ c.kind = kind

TargetsFrom(edges, a) == {e[2] : e \in {x \in edges : x[1] = a}}

\* The system architecture: one component per alias, each with something to
\* do; parents that are domain components, at most two of them; every
\* responsibility in its place; dependencies without a circle, on a foundation.
SysarchPromise(doc, resps0) ==
  LET ids == Values(AliasesOf(doc.components))
  IN  /\ ComponentList(doc.components)
      /\ \A c \in Values(doc.components) : c.resps # {} /\ c.resps \subseteq resps0
      /\ \A e \in doc.parents :
           /\ e = <<e[1], e[2]>>
           /\ IsOfKind(doc.components, e[1], Presentational)
           /\ IsOfKind(doc.components, e[2], Domain)
      /\ \A a \in ids : /\ IsFiniteSet(TargetsFrom(doc.parents, a))
                        /\ Cardinality(TargetsFrom(doc.parents, a)) <= 2
      /\ ValidAssignment(doc, resps0)
      /\ doc.deps \in SUBSET (ids \X ids)
      /\ Acyclic(ids, doc.deps)
      /\ EnforceFoundationDependency(doc.components, doc.deps)

\* The edges drawn by the children of a tag.
LEMMA EdgeFacts ==
  ASSUME NEW node \in TagNode
  PROVE  /\ \A e \in EdgesOf(node) : e = <<e[1], e[2]>>
         /\ \A a : /\ IsFiniteSet(TargetsFrom(EdgesOf(node), a))
                  /\ Cardinality(TargetsFrom(EdgesOf(node), a))
                       <= Cardinality({i \in DOMAIN node.kids : Attr(node.kids[i], "from") = a})
<1>1. EdgesOf(node) = {<<Attr(node.kids[i], "from"), Attr(node.kids[i], "to")>> : i \in DOMAIN node.kids}
  BY DEF EdgesOf, Values
<1>2. \A e \in EdgesOf(node) : e = <<e[1], e[2]>>
  BY <1>1
<1>3. ASSUME NEW a
      PROVE  /\ IsFiniteSet(TargetsFrom(EdgesOf(node), a))
             /\ Cardinality(TargetsFrom(EdgesOf(node), a))
                  <= Cardinality({i \in DOMAIN node.kids : Attr(node.kids[i], "from") = a})
  <2>1. PICK places : places = {i \in DOMAIN node.kids : Attr(node.kids[i], "from") = a}
    OBVIOUS
  <2>2. PICK f : f = [i \in places |-> Attr(node.kids[i], "to")]
    OBVIOUS
  <2>3. PICK targets : targets = TargetsFrom(EdgesOf(node), a)
    OBVIOUS
  <2>4. targets = {Attr(node.kids[i], "to") : i \in places}
    <3>1. ASSUME NEW t \in targets
          PROVE  \E i \in places : t = Attr(node.kids[i], "to")
      <4>1. PICK e \in EdgesOf(node) : e[1] = a /\ t = e[2]
        BY <2>3 DEF TargetsFrom
      <4>2. PICK i \in DOMAIN node.kids : e = <<Attr(node.kids[i], "from"), Attr(node.kids[i], "to")>>
        BY <1>1
      <4>3. QED
        BY <2>1, <4>1, <4>2
    <3>2. ASSUME NEW i \in places
          PROVE  Attr(node.kids[i], "to") \in targets
      <4>1. PICK e : e = <<Attr(node.kids[i], "from"), Attr(node.kids[i], "to")>>
        OBVIOUS
      <4>2. e \in EdgesOf(node) /\ e[1] = a /\ e[2] = Attr(node.kids[i], "to")
        BY <1>1, <2>1, <4>1
      <4>3. QED
        BY <2>3, <4>2 DEF TargetsFrom
    <3>3. QED
      BY <3>1, <3>2
  <2>5. f \in Surjection(places, targets)
    BY <2>2, <2>4 DEF Surjection
  <2>6. IsFiniteSet(places)
    <3>1. places \in SUBSET (1 .. Len(node.kids)) /\ Len(node.kids) \in Nat
      BY <2>1, KidFacts
    <3>2. QED
      BY <3>1, Interval, FS_Subset
  <2>7. IsFiniteSet(targets) /\ Cardinality(targets) <= Cardinality(places)
    BY <2>5, <2>6, FS_Surjection
  <2>8. QED
    BY <2>1, <2>3, <2>7
<1>4. QED
  BY <1>2, <1>3

\* What validate_components checks of each component.
LEMMA ComponentsFacts ==
  ASSUME NEW node \in TagNode, NEW resps0, ValidComponents(node, resps0),
         NEW components, components = [i \in DOMAIN node.kids |-> ComponentOf(node.kids[i])]
  PROVE  /\ ComponentList(components)
         /\ \A c \in Values(components) :
              /\ c.resps # {} /\ c.resps \subseteq resps0
              /\ c.kind \in {Domain, Presentational}
<1>1. /\ node.kids \in Seq(TagNode) /\ DOMAIN node.kids = 1 .. Len(node.kids)
      /\ \A i \in DOMAIN node.kids : node.kids[i] \in TagNode
  BY KidFacts
<1>2. DOMAIN components = DOMAIN node.kids
      /\ \A i \in DOMAIN node.kids : components[i] = ComponentOf(node.kids[i])
  OBVIOUS
<1>3. DOMAIN components = 1 .. Len(components) /\ Len(components) \in Nat
  BY <1>1, <1>2, ImageFacts
<1>4. Distinct(AliasesOf(components))
  BY DEF ValidComponents
<1>5. \A i \in DOMAIN node.kids : ValidComponent(node.kids[i], resps0)
  BY DEF ValidComponents, All
<1>6. ASSUME NEW i \in DOMAIN node.kids
      PROVE  LET c == components[i]
             IN  /\ c.resps # {} /\ c.resps \subseteq resps0
                 /\ c.kind \in {Domain, Presentational}
                 /\ c.foundation \in BOOLEAN
  <2>1. PICK kid : kid = node.kids[i]
    OBVIOUS
  <2>2. kid \in TagNode /\ ValidComponent(kid, resps0)
    BY <1>1, <1>5, <2>1
  <2>3. PICK list : list = Kid(kid, "responsibilities")
    OBVIOUS
  <2>4. One(kid, "responsibilities")
    BY <2>2 DEF ValidComponent, ValidCard
  <2>5. PlacesOf(kid, "responsibilities") # {}
    BY <2>4, FS_EmptySet DEF One
  <2>6. list \in TagNode
    BY <2>2, <2>3, <2>5, KidFacts
  <2>7. list.kids # <<>> /\ Links(list, "resp", resps0)
        /\ TextOf(kid, "kind") \in {Domain, Presentational}
    BY <2>2, <2>3 DEF ValidComponent, Domain, Presentational
  <2>8. LinksOf(list) # {} /\ LinksOf(list) \subseteq resps0
    <3>1. Values(AttrsOf(list.kids, "id")) \subseteq resps0
      BY <2>7 DEF Links
    <3>2. 1 \in DOMAIN list.kids
      BY <2>6, <2>7, KidFacts
    <3>3. AttrsOf(list.kids, "id")[1] \in Values(AttrsOf(list.kids, "id"))
      BY <3>2 DEF AttrsOf, Values
    <3>4. QED
      BY <3>1, <3>3 DEF LinksOf
  <2>9. components[i] = ComponentOf(kid)
    BY <1>2, <2>1
  <2>10. /\ ComponentOf(kid).resps = LinksOf(list)
         /\ ComponentOf(kid).kind = TextOf(kid, "kind")
         /\ ComponentOf(kid).foundation = IsFoundation(kid)
    BY <2>3 DEF ComponentOf
  <2>11. IsFoundation(kid) \in BOOLEAN
    BY DEF IsFoundation
  <2>12. QED
    BY <2>7, <2>8, <2>9, <2>10, <2>11
<1>7. ComponentList(components)
  BY <1>2, <1>3, <1>4, <1>6 DEF ComponentList
<1>8. QED
  BY <1>2, <1>6, <1>7 DEF Values

\* What validate_sysarch lets through.
LEMMA SysarchFacts ==
  ASSUME NEW raw \in Seq(TagNode), NEW tree, tree = ExtractTagTree(raw, "sysarch"),
         NEW resps0, ValidSysarch(tree, resps0)
  PROVE  SysarchPromise(SysarchOf(tree), resps0)
<1>a. PICK doc : doc = SysarchOf(tree)
  OBVIOUS
<1>b. PICK ids : ids = Values(AliasesOf(doc.components))
  OBVIOUS
<1>c. PICK kind : kind = [a \in ids |-> (CHOOSE c \in Values(doc.components) : c.alias = a).kind]
  OBVIOUS
<1>d. PICK node : node = Kid(tree, "components")
  OBVIOUS
<1>e. PICK links : links = Kid(tree, "domain-parent")
  OBVIOUS
<1>1. /\ tree.tag = "sysarch"
      /\ Sections(tree, <<"techspec", "components", "policies", "dependencies", "domain-parent">>)
      /\ ValidComponents(node, resps0)
  BY <1>d DEF ValidSysarch
<1>2. /\ ValidDependencies(Kid(tree, "dependencies"), ids)
      /\ ValidDomainParents(links, kind)
      /\ ValidAssignment(doc, resps0)
      /\ ~DetectDepCycles(doc.deps, ids)
      /\ EnforceFoundationDependency(doc.components, doc.deps)
  BY <1>a, <1>b, <1>c, <1>e DEF ValidSysarch
<1>3. tree \in TagNode
  <2>1. tree # NoTag
    <3>1. NoTag.tag = ""
      BY DEF NoTag, Tag
    <3>2. QED
      BY <1>1, <3>1
  <2>2. QED
    BY <2>1, ExtractFacts
<1>4. /\ node \in TagNode /\ links \in TagNode /\ Kid(tree, "dependencies") \in TagNode
  <2>1. PICK order : order = <<"techspec", "components", "policies", "dependencies", "domain-parent">>
    OBVIOUS
  <2>2. 2 \in DOMAIN order /\ 4 \in DOMAIN order /\ 5 \in DOMAIN order
        /\ order[2] = "components" /\ order[4] = "dependencies" /\ order[5] = "domain-parent"
    BY <2>1
  <2>3. Sections(tree, order)
    BY <1>1, <2>1
  <2>4. Kid(tree, order[2]) \in TagNode /\ Kid(tree, order[4]) \in TagNode
        /\ Kid(tree, order[5]) \in TagNode
    BY <1>3, <2>2, <2>3, SectionFacts
  <2>5. QED
    BY <1>d, <1>e, <2>2, <2>4
<1>5. /\ doc.components = [i \in DOMAIN node.kids |-> ComponentOf(node.kids[i])]
      /\ doc.deps = EdgesOf(Kid(tree, "dependencies"))
      /\ doc.parents = EdgesOf(links)
  BY <1>a, <1>d, <1>e DEF SysarchOf
<1>6. /\ ComponentList(doc.components)
      /\ \A c \in Values(doc.components) :
           /\ c.resps # {} /\ c.resps \subseteq resps0
           /\ c.kind \in {Domain, Presentational}
  BY <1>1, <1>4, <1>5, ComponentsFacts
<1>7. ASSUME NEW e \in doc.parents
      PROVE  /\ e = <<e[1], e[2]>>
             /\ IsOfKind(doc.components, e[1], Presentational)
             /\ IsOfKind(doc.components, e[2], Domain)
  <2>1. /\ e[1] \in DOMAIN kind /\ kind[e[1]] = Presentational
        /\ e[2] \in DOMAIN kind /\ kind[e[2]] = Domain
    BY <1>2, <1>5, <1>7 DEF ValidDomainParents, Presentational, Domain
  <2>2. ASSUME NEW a \in ids
        PROVE  IsOfKind(doc.components, a, kind[a])
    <3>1. \E c \in Values(doc.components) : c.alias = a
      <4>1. PICK i \in DOMAIN doc.components : a = doc.components[i].alias
        BY <1>b, <1>6, <2>2, AliasFacts
      <4>2. QED
        BY <4>1 DEF Values
    <3>2. PICK c : c = CHOOSE x \in Values(doc.components) : x.alias = a
      OBVIOUS
    <3>3. c \in Values(doc.components) /\ c.alias = a
      BY <3>1, <3>2
    <3>4. kind[a] = c.kind
      BY <1>c, <2>2, <3>2
    <3>5. QED
      BY <3>3, <3>4 DEF IsOfKind
  <2>3. DOMAIN kind = ids
    BY <1>c
  <2>4. e = <<e[1], e[2]>>
    BY <1>4, <1>5, <1>7, EdgeFacts
  <2>5. QED
    BY <2>1, <2>2, <2>3, <2>4
<1>8. ASSUME NEW a \in ids
      PROVE  IsFiniteSet(TargetsFrom(doc.parents, a)) /\ Cardinality(TargetsFrom(doc.parents, a)) <= 2
  <2>1. PICK n : n = Cardinality({i \in DOMAIN links.kids : Attr(links.kids[i], "from") = a})
    OBVIOUS
  <2>2. n <= 2
    BY <1>2, <1>8, <1>c, <2>1 DEF ValidDomainParents
  <2>3. IsFiniteSet(TargetsFrom(doc.parents, a)) /\ Cardinality(TargetsFrom(doc.parents, a)) <= n
    BY <1>4, <1>5, <2>1, EdgeFacts
  <2>4. Cardinality(TargetsFrom(doc.parents, a)) \in Nat /\ n \in Nat
    <3>1. {i \in DOMAIN links.kids : Attr(links.kids[i], "from") = a} \in SUBSET (1 .. Len(links.kids))
      BY <1>4, KidFacts
    <3>2. IsFiniteSet({i \in DOMAIN links.kids : Attr(links.kids[i], "from") = a})
      BY <1>4, <3>1, KidFacts, Interval, FS_Subset
    <3>3. QED
      BY <2>1, <2>3, <3>2, FS_CardinalityType
  <2>5. QED
    BY <2>2, <2>3, <2>4
<1>9. doc.deps \in SUBSET (ids \X ids)
  <2>1. \A e \in doc.deps : e = <<e[1], e[2]>>
    BY <1>4, <1>5, EdgeFacts
  <2>2. \A e \in doc.deps : e[1] \in ids /\ e[2] \in ids
    BY <1>2, <1>5 DEF ValidDependencies
  <2>3. QED
    BY <2>1, <2>2
<1>10. Acyclic(ids, doc.deps)
  <2>1. IsFiniteSet(ids)
    BY <1>b, <1>6, AliasFacts
  <2>2. QED
    BY <1>2, <1>9, <2>1, CycleSearchIsExact
<1>11. SysarchPromise(doc, resps0)
  BY <1>b, <1>2, <1>6, <1>7, <1>8, <1>9, <1>10 DEF SysarchPromise
<1>12. QED
  BY <1>a, <1>11

\* What validate_requirements lets through.
LEMMA RequirementsFacts ==
  ASSUME NEW tree, NEW known, ValidRequirements(tree, known)
  PROVE  /\ Distinct(NamesOf(RequirementsOf(tree)))
         /\ Covered(RequirementsOf(tree)) = known
<1>1. PICK list : list = RequirementsOf(tree)
  OBVIOUS
<1>2. UniqueNames(list) /\ known \subseteq Covered(list)
  BY <1>1 DEF ValidRequirements
<1>3. ASSUME NEW i \in DOMAIN list, NEW j \in DOMAIN list, list[i].name = list[j].name
      PROVE  i = j
  <2>1. NormalizeName(list[i].name) = NormalizeName(list[j].name)
    BY <1>3
  <2>2. PICK folded : folded = [h \in DOMAIN list |-> NormalizeName(list[h].name)]
    OBVIOUS
  <2>3. Distinct(folded)
    BY <1>2, <2>2 DEF UniqueNames
  <2>4. folded[i] = folded[j] /\ i \in DOMAIN folded /\ j \in DOMAIN folded
    BY <2>1, <2>2
  <2>5. QED
    BY <2>3, <2>4 DEF Distinct, IsInjective
<1>4. Distinct(NamesOf(list))
  BY <1>3 DEF Distinct, IsInjective, NamesOf
<1>5. ASSUME NEW i \in DOMAIN list
      PROVE  list[i].feats \subseteq known
  <2>1. DOMAIN list = DOMAIN tree.kids
    BY <1>1 DEF RequirementsOf
  <2>2. ValidResponsibility(tree.kids[i], known)
    BY <2>1 DEF ValidRequirements, All
  <2>3. LinksOf(Kid(tree.kids[i], "feats")) \subseteq known
    BY <2>2 DEF ValidResponsibility, ValidFeatList, Links, LinksOf
  <2>4. list[i].feats = LinksOf(Kid(tree.kids[i], "feats"))
    BY <1>1, <2>1 DEF RequirementsOf
  <2>5. QED
    BY <2>3, <2>4
<1>6. Covered(list) = known
  BY <1>2, <1>5 DEF Covered, Values
<1>7. QED
  BY <1>1, <1>4, <1>6

\* The edges that the prose of the subcomponents draws, by their names.
Named(subs) ==
  {<<a.alias, b.alias>> : a, b \in Values(subs)}
    \cap {e \in Values(AliasesOf(subs)) \X Values(AliasesOf(subs)) :
            e[1] # e[2] /\
            \E a, b \in Values(subs) :
              /\ e = <<a.alias, b.alias>>
              /\ b.name \in Identifiers /\ Mentions(a.prose, b.name)}

\* The architecture of a component: it depends on known components only, and
\* if it is split, the split covers what the component has to do and can be
\* put in order.
CompArchPromise(doc, parents, siblings) ==
  /\ doc.deps \subseteq siblings
  /\ (doc.subs = <<>>) <=> (Values(doc.subs) = {})
  /\ doc.subs # <<>> =>
       /\ ClaimsCover(doc.subs, parents)
       /\ Distinct(NamesOf(doc.subs)) =>
            Acyclic(Values(AliasesOf(doc.subs)), doc.subDeps \cup Named(doc.subs))

\* Of subcomponents with different names each is found by its own.
LEMMA EligibleFacts ==
  ASSUME NEW subs, ComponentList(subs), Distinct(NamesOf(subs)),
         NEW i \in DOMAIN subs, subs[i].name \in Identifiers
  PROVE  /\ subs[i].name \in DOMAIN EligibleNames(subs)
         /\ EligibleNames(subs)[subs[i].name] = subs[i].alias
<1>1. PICK n : n = subs[i].name
  OBVIOUS
<1>2. n \in Values(NamesOf(subs)) \cap Identifiers
  BY <1>1 DEF NamesOf, Values
<1>3. PICK I : I = {h \in 1 .. Len(subs) : subs[h].name = n}
  OBVIOUS
<1>4. I = {i}
  <2>1. \A h \in DOMAIN subs : subs[h].name = n => h = i
    BY <1>1 DEF Distinct, IsInjective, NamesOf
  <2>2. QED
    BY <1>1, <1>3, <2>1 DEF ComponentList
<1>5. i \in Nat
  BY DEF ComponentList
<1>6. Max(I) = i
  BY <1>4, <1>5 DEF Max
<1>7. SelectLastInSeq(subs, LAMBDA s : s.name = n) = i
  BY <1>3, <1>4, <1>6 DEF SelectLastInSeq
<1>8. /\ DOMAIN EligibleNames(subs) = Values(NamesOf(subs)) \cap Identifiers
      /\ EligibleNames(subs)[n] = subs[SelectLastInSeq(subs, LAMBDA s : s.name = n)].alias
  BY <1>2 DEF EligibleNames
<1>9. QED
  BY <1>1, <1>2, <1>7, <1>8

\* Without an edge less there is no circle more.
LEMMA AcyclicShrinks ==
  ASSUME NEW nodes, NEW edges, Acyclic(nodes, edges), NEW fewer \in SUBSET edges
  PROVE  Acyclic(nodes, fewer)
BY DEF Acyclic

\* What the two searches of validate_arch_doc see together.
LEMMA SubOrderFacts ==
  ASSUME NEW subs, ComponentList(subs), Distinct(NamesOf(subs)),
         NEW ids, ids = Values(AliasesOf(subs)),
         NEW declared \in SUBSET (ids \X ids),
         ~DetectDepCycles(declared, ids), ~DetectUndeclaredCycles(subs, declared)
  PROVE  Acyclic(ids, declared \cup Named(subs))
<1>1. PICK implicit : implicit = ImplicitDeps(subs, declared)
  OBVIOUS
<1>2. PICK eligible : eligible = EligibleNames(subs)
  OBVIOUS
<1>3. IsFiniteSet(ids)
  BY AliasFacts
<1>4. implicit \in SUBSET (ids \X ids)
  BY <1>1 DEF ImplicitDeps
<1>5. ASSUME NEW e \in Named(subs), e \notin declared
      PROVE  e \in implicit
  <2>1. PICK a \in Values(subs), b \in Values(subs) :
          /\ e = <<a.alias, b.alias>> /\ e \in ids \X ids /\ e[1] # e[2]
          /\ b.name \in Identifiers /\ Mentions(a.prose, b.name)
    BY DEF Named
  <2>2. PICK i \in DOMAIN subs : b = subs[i]
    BY DEF Values
  <2>3. b.name \in DOMAIN eligible /\ eligible[b.name] = b.alias
    BY <1>2, <2>1, <2>2, EligibleFacts
  <2>4. e[1] = a.alias /\ e[2] = eligible[b.name] /\ e = <<a.alias, eligible[b.name]>>
    BY <2>1, <2>3
  <2>5. \E s \in Values(subs), n \in DOMAIN eligible :
          s.alias = e[1] /\ eligible[n] = e[2] /\ Mentions(s.prose, n)
    BY <2>1, <2>3, <2>4
  <2>6. e \in {<<s.alias, eligible[n]>> : s \in Values(subs), n \in DOMAIN eligible}
    BY <2>3, <2>4
  <2>7. QED
    BY <1>1, <1>2, <1>5, <2>1, <2>5, <2>6 DEF ImplicitDeps
<1>6. Acyclic(ids, declared \cup implicit)
  <2>1. CASE implicit = {}
    <3>1. Acyclic(ids, declared)
      BY <1>3, CycleSearchIsExact
    <3>2. declared \cup implicit = declared
      BY <2>1
    <3>3. QED
      BY <3>1, <3>2
  <2>2. CASE implicit # {}
    <3>1. ~DetectDepCycles(declared \cup implicit, ids)
      BY <1>1, <2>2 DEF DetectUndeclaredCycles
    <3>2. declared \cup implicit \in SUBSET (ids \X ids)
      BY <1>4
    <3>3. QED
      BY <1>3, <3>1, <3>2, CycleSearchIsExact
  <2>3. QED
    BY <2>1, <2>2
<1>7. declared \cup Named(subs) \in SUBSET (declared \cup implicit)
  BY <1>5
<1>8. QED
  BY <1>6, <1>7, AcyclicShrinks

\* What validate_arch_doc lets through.
LEMMA CompArchFacts ==
  ASSUME NEW raw \in Seq(TagNode), NEW tree, tree = ExtractTagTree(raw, "comparch"),
         NEW parents, NEW siblings, NEW ofFoundation,
         ValidArchDoc(tree, parents, siblings, ofFoundation)
  PROVE  CompArchPromise(CompArchOf(tree), parents, siblings)
<1>a. PICK doc : doc = CompArchOf(tree)
  OBVIOUS
<1>b. PICK ids : ids = Values(AliasesOf(doc.subs))
  OBVIOUS
<1>c. PICK node : node = Kid(tree, "subcomponents")
  OBVIOUS
<1>d. PICK links : links = Kid(tree, "sub-dependencies")
  OBVIOUS
<1>e. PICK order : order = <<"technical-specification", "public-surface", "private-surface",
                             "failure-surface", "policies", "dependencies",
                             "subcomponents", "sub-dependencies">>
  OBVIOUS
<1>1. /\ tree.tag = "comparch" /\ Sections(tree, order)
      /\ ValidExternalDependencies(Kid(tree, "dependencies"), siblings)
      /\ ValidSubcomponents(node, parents, ofFoundation)
  BY <1>c, <1>e DEF ValidArchDoc
<1>2. /\ ValidSubDependencies(links, ids)
      /\ doc.subs # <<>> => ~DetectDepCycles(doc.subDeps, ids)
                            /\ ~DetectUndeclaredCycles(doc.subs, doc.subDeps)
  BY <1>a, <1>b, <1>d DEF ValidArchDoc
<1>3. tree \in TagNode
  <2>1. NoTag.tag = ""
    BY DEF NoTag, Tag
  <2>2. tree # NoTag
    BY <1>1, <2>1
  <2>3. QED
    BY <2>2, ExtractFacts
<1>4. node \in TagNode /\ links \in TagNode
  <2>1. 7 \in DOMAIN order /\ 8 \in DOMAIN order
        /\ order[7] = "subcomponents" /\ order[8] = "sub-dependencies"
    BY <1>e
  <2>2. Kid(tree, order[7]) \in TagNode /\ Kid(tree, order[8]) \in TagNode
    BY <1>1, <1>3, <2>1, SectionFacts
  <2>3. QED
    BY <1>c, <1>d, <2>1, <2>2
<1>5. /\ doc.subs = SubcomponentsOf(node)
      /\ doc.deps = ExternalDepsOf(Kid(tree, "dependencies"))
      /\ doc.subDeps = EdgesOf(links)
  BY <1>a, <1>c, <1>d DEF CompArchOf
<1>6. doc.deps \subseteq siblings
  BY <1>1, <1>5 DEF ValidExternalDependencies, ExternalDepsOf, AttrsOf, Values
<1>7. /\ doc.subs \in Seq(Values(doc.subs))
      /\ (doc.subs = <<>>) <=> (node.kids = <<>>)
      /\ DOMAIN doc.subs = 1 .. Len(doc.subs) /\ Len(doc.subs) \in Nat
      /\ DOMAIN doc.subs = DOMAIN node.kids
      /\ \A i \in DOMAIN node.kids : doc.subs[i] = SubcomponentOf(node.kids[i])
  <2>1. node.kids \in Seq(TagNode)
    BY <1>4, KidFacts
  <2>2. doc.subs = [i \in DOMAIN node.kids |-> SubcomponentOf(node.kids[i])]
    BY <1>5 DEF SubcomponentsOf
  <2>3. doc.subs = [i \in DOMAIN node.kids |-> doc.subs[i]]
    BY <2>2
  <2>4. /\ doc.subs \in Seq(Values(doc.subs))
        /\ (doc.subs = <<>>) <=> (node.kids = <<>>)
        /\ DOMAIN doc.subs = 1 .. Len(doc.subs) /\ Len(doc.subs) \in Nat
    BY <2>1, <2>3, ImageFacts
  <2>5. QED
    BY <2>2, <2>4
<1>8. (doc.subs = <<>>) <=> (Values(doc.subs) = {})
  BY <1>7, ValuesFacts
<1>9. ASSUME doc.subs # <<>>
      PROVE  /\ ClaimsCover(doc.subs, parents)
             /\ Distinct(NamesOf(doc.subs)) =>
                  Acyclic(ids, doc.subDeps \cup Named(doc.subs))
  <2>1. Distinct(AliasesOf(doc.subs)) /\ ClaimsCover(doc.subs, parents)
    BY <1>1, <1>5, <1>7, <1>9 DEF ValidSubcomponents
  <2>2. ASSUME NEW i \in DOMAIN doc.subs
        PROVE  doc.subs[i].foundation \in BOOLEAN
    <3>1. PICK kid : kid = node.kids[i]
      OBVIOUS
    <3>2. SubcomponentOf(kid).foundation = IsFoundation(kid)
      BY DEF SubcomponentOf
    <3>3. doc.subs[i] = SubcomponentOf(kid)
      BY <1>7, <3>1
    <3>4. QED
      BY <3>2, <3>3 DEF IsFoundation
  <2>3. ComponentList(doc.subs)
    BY <1>7, <2>1, <2>2 DEF ComponentList
  <2>4. doc.subDeps \in SUBSET (ids \X ids)
    <3>1. \A e \in doc.subDeps : e = <<e[1], e[2]>>
      BY <1>4, <1>5, EdgeFacts
    <3>2. \A e \in doc.subDeps : e[1] \in ids /\ e[2] \in ids
      BY <1>2, <1>5 DEF ValidSubDependencies, ValidDependencies
    <3>3. QED
      BY <3>1, <3>2
  <2>5. ~DetectDepCycles(doc.subDeps, ids) /\ ~DetectUndeclaredCycles(doc.subs, doc.subDeps)
    BY <1>2, <1>9
  <2>6. Distinct(NamesOf(doc.subs)) => Acyclic(ids, doc.subDeps \cup Named(doc.subs))
    BY <1>b, <2>3, <2>4, <2>5, SubOrderFacts
  <2>7. QED
    BY <2>1, <2>6
<1>10. CompArchPromise(doc, parents, siblings)
  BY <1>b, <1>6, <1>8, <1>9 DEF CompArchPromise
<1>11. QED
  BY <1>a, <1>10

---------------------------------------------------------------------------
(* The inductive invariant                                                 *)
(*                                                                         *)
(* It is a predicate on the values of the variables: f the features    *)
(* asked about, r the responsibilities, s the system, a the architectures  *)
(* of its components, i and n the implementations and the fan-ins.         *)

IdsOf(s) == IF s = NoDoc THEN {} ELSE Values(AliasesOf(s.components))

NodeOf(components, c) == CHOOSE node \in Values(components) : node.alias = c

\* The responsibilities a component has to answer for, with their features.
TracedTo(r, components, c) ==
  [x \in {y.name : y \in {z \in Values(r) : z.name \in NodeOf(components, c).resps}} |->
    (CHOOSE y \in Values(r) : y.name = x).feats]

SubsOf(a, c) == IF a[c] = NoDoc THEN <<>> ELSE a[c].subs

IdsBelow(a, c) == {SubId(c, sub) : sub \in Values(SubsOf(a, c))}

\* The documents before the system are there, and cover each other.
BootInv(f, r, s) ==
  /\ r # <<>> => Distinct(NamesOf(r)) /\ Covered(r) = f
  /\ s # NoDoc => r # <<>>

\* The system is valid for the responsibilities, and what is below it is
\* there for its components only.
SystemInv(r, s, a, n) ==
  /\ s # NoDoc => SysarchPromise(s, Values(NamesOf(r))) /\ a = [c \in IdsOf(s) |-> a[c]]
  /\ s = NoDoc => n = {} /\ \A c \in DOMAIN a : a[c] = NoDoc

\* An architecture is valid for its component, and came after the fan-ins of
\* the domain parents.
ArchInv(r, s, a, n) ==
  \A c \in DOMAIN a :
    a[c] # NoDoc => /\ CompArchPromise(a[c], TracedTo(r, s.components, c), IdsOf(s) \ {c})
                    /\ TargetsFrom(s.parents, c) \subseteq n

\* A fan-in came after the implementations of the subcomponents.
FanInInv(a, i, n) ==
  \A d \in n : /\ d \in DOMAIN a /\ a[d] # NoDoc
               /\ IdsBelow(a, d) # {} /\ IdsBelow(a, d) \subseteq i

DocInv(f, r, s, a, i, n) ==
  BootInv(f, r, s) /\ SystemInv(r, s, a, n) /\ ArchInv(r, s, a, n) /\ FanInInv(a, i, n)

IInv == DocInv(asked, resps, system, arch, impls, fanins)

---------------------------------------------------------------------------
(* What each approval keeps of it *)

LEMMA RequirementsKeep ==
  ASSUME NEW f, NEW r, NEW s, NEW a, NEW i, NEW n, DocInv(f, r, s, a, i, n),
         r = <<>>, NEW r2, Distinct(NamesOf(r2))
  PROVE  DocInv(Covered(r2), r2, s, a, i, n)
<1>1. s = NoDoc
  BY DEF DocInv, BootInv
<1>2. n = {} /\ \A c \in DOMAIN a : a[c] = NoDoc
  BY <1>1 DEF DocInv, SystemInv
<1>3. BootInv(Covered(r2), r2, s)
  BY <1>1 DEF BootInv
<1>4. SystemInv(r2, s, a, n) /\ ArchInv(r2, s, a, n) /\ FanInInv(a, i, n)
  BY <1>1, <1>2 DEF SystemInv, ArchInv, FanInInv
<1>5. QED
  BY <1>3, <1>4 DEF DocInv

LEMMA SysarchKeeps ==
  ASSUME NEW f, NEW r, NEW s, NEW a, NEW i, NEW n, DocInv(f, r, s, a, i, n),
         r # <<>>, s = NoDoc, NEW s2, SysarchPromise(s2, Values(NamesOf(r))),
         NEW a2, a2 = [c \in Values(AliasesOf(s2.components)) |-> NoDoc]
  PROVE  DocInv(f, r, s2, a2, i, n)
<1>1. n = {}
  BY DEF DocInv, SystemInv
<1>2. \A c \in DOMAIN a2 : a2[c] = NoDoc
  OBVIOUS
<1>3. BootInv(f, r, s2)
  BY DEF DocInv, BootInv
<1>4. s2 # NoDoc => a2 = [c \in IdsOf(s2) |-> a2[c]]
  BY DEF IdsOf
<1>5. SystemInv(r, s2, a2, n)
  BY <1>1, <1>2, <1>4 DEF SystemInv
<1>6. ArchInv(r, s2, a2, n) /\ FanInInv(a2, i, n)
  BY <1>1, <1>2 DEF ArchInv, FanInInv
<1>7. QED
  BY <1>3, <1>5, <1>6 DEF DocInv

LEMMA CompArchKeeps ==
  ASSUME NEW f, NEW r, NEW s, NEW a, NEW i, NEW n, DocInv(f, r, s, a, i, n),
         s # NoDoc, NEW c \in IdsOf(s), a[c] = NoDoc, TargetsFrom(s.parents, c) \subseteq n,
         NEW doc, CompArchPromise(doc, TracedTo(r, s.components, c), IdsOf(s) \ {c}),
         NEW a2, a2 = [a EXCEPT ![c] = doc]
  PROVE  DocInv(f, r, s, a2, i, n)
<1>1. a = [x \in IdsOf(s) |-> a[x]] /\ SysarchPromise(s, Values(NamesOf(r)))
  BY DEF DocInv, SystemInv
<1>2. DOMAIN a2 = IdsOf(s) /\ DOMAIN a = IdsOf(s) /\ a2 = [x \in IdsOf(s) |-> a2[x]]
      /\ a2[c] = doc /\ \A x \in IdsOf(s) : x # c => a2[x] = a[x]
  BY <1>1
<1>3. SystemInv(r, s, a2, n)
  BY <1>1, <1>2 DEF SystemInv
<1>4. ArchInv(r, s, a2, n)
  BY <1>2 DEF DocInv, ArchInv
<1>5. ASSUME NEW d \in n
      PROVE  /\ d \in DOMAIN a2 /\ a2[d] # NoDoc
             /\ IdsBelow(a2, d) # {} /\ IdsBelow(a2, d) \subseteq i
  <2>1. d \in DOMAIN a /\ a[d] # NoDoc /\ IdsBelow(a, d) # {} /\ IdsBelow(a, d) \subseteq i
    BY DEF DocInv, FanInInv
  <2>2. d \in DOMAIN a2 /\ a2[d] = a[d]
    BY <1>2, <2>1
  <2>3. IdsBelow(a2, d) = IdsBelow(a, d)
    BY <2>2 DEF IdsBelow, SubsOf
  <2>4. QED
    BY <2>1, <2>2, <2>3
<1>6. QED
  BY <1>3, <1>4, <1>5 DEF DocInv, FanInInv

LEMMA ImplementationKeeps ==
  ASSUME NEW f, NEW r, NEW s, NEW a, NEW i, NEW n, DocInv(f, r, s, a, i, n),
         NEW i2, i \subseteq i2
  PROVE  DocInv(f, r, s, a, i2, n)
BY DEF DocInv, FanInInv

LEMMA FanInKeeps ==
  ASSUME NEW f, NEW r, NEW s, NEW a, NEW i, NEW n, DocInv(f, r, s, a, i, n),
         s # NoDoc, NEW d \in IdsOf(s), SubsOf(a, d) # <<>>, IdsBelow(a, d) \subseteq i,
         NEW n2, n2 = n \cup {d}
  PROVE  DocInv(f, r, s, a, i, n2)
<1>1. d \in DOMAIN a /\ a[d] # NoDoc
  BY DEF DocInv, SystemInv, SubsOf
<1>2. IdsBelow(a, d) # {}
  <2>1. Values(SubsOf(a, d)) # {}
    BY <1>1 DEF DocInv, ArchInv, CompArchPromise, SubsOf
  <2>2. QED
    BY <2>1 DEF IdsBelow
<1>3. SystemInv(r, s, a, n2)
  BY DEF DocInv, SystemInv
<1>4. ArchInv(r, s, a, n2)
  BY DEF DocInv, ArchInv
<1>5. FanInInv(a, i, n2)
  BY <1>1, <1>2 DEF DocInv, FanInInv
<1>6. QED
  BY <1>3, <1>4, <1>5 DEF DocInv

---------------------------------------------------------------------------
(* The state machine keeps it *)

\* The readers of the graph in the terms of the invariant.
LEMMA ReaderFacts ==
  /\ TopLevelIds = IdsOf(system)
  /\ \A c : ListSubcomponentsOf(c) = SubsOf(arch, c)
  /\ \A c : SubIdsOf(c) = IdsBelow(arch, c)
  /\ \A c : DomainParentsOf(c) = TargetsFrom(system.parents, c)
  /\ system # NoDoc =>
       \A c : /\ ComponentNode(c) = NodeOf(system.components, c)
             /\ GetComponentContext(c).parents = TracedTo(resps, system.components, c)
<1>1. TopLevelIds = IdsOf(system)
  <2>1. system = NoDoc => Values(AliasesOf(<<>>)) = {}
    BY DEF Values, AliasesOf
  <2>2. QED
    BY <2>1 DEF TopLevelIds, IdsOf, ListTopLevelComponents
<1>2. \A c : ListSubcomponentsOf(c) = SubsOf(arch, c)
  BY DEF ListSubcomponentsOf, SubsOf
<1>3. \A c : SubIdsOf(c) = IdsBelow(arch, c)
  BY <1>2 DEF SubIdsOf, IdsBelow
<1>4. \A c : DomainParentsOf(c) = TargetsFrom(system.parents, c)
  BY DEF DomainParentsOf, TargetsFrom
<1>5. ASSUME system # NoDoc, NEW c
      PROVE  /\ ComponentNode(c) = NodeOf(system.components, c)
             /\ GetComponentContext(c).parents = TracedTo(resps, system.components, c)
  <2>1. ComponentNode(c) = NodeOf(system.components, c)
    BY <1>5 DEF ComponentNode, NodeOf, ListTopLevelComponents
  <2>2. GetComponentContext(c).parents
          = [x \in {y.name : y \in TopLevelRespsAssignedTo(c)} |->
              (CHOOSE y \in Values(resps) : y.name = x).feats]
    BY DEF GetComponentContext
  <2>3. TopLevelRespsAssignedTo(c)
          = {z \in Values(resps) : z.name \in NodeOf(system.components, c).resps}
    BY <2>1 DEF TopLevelRespsAssignedTo
  <2>4. QED
    BY <2>1, <2>2, <2>3 DEF TracedTo
<1>6. QED
  BY <1>1, <1>2, <1>3, <1>4, <1>5

LEMMA OrderingFacts ==
  ASSUME IInv, system # NoDoc
  PROVE  /\ ComponentList(ListTopLevelComponents)
         /\ \A e \in OrderingEdges : e = <<e[1], e[2]>>
         /\ ListEdges.dependency \in SUBSET (TopLevelIds \X TopLevelIds)
<1>1. /\ TopLevelIds = IdsOf(system) /\ IdsOf(system) = Values(AliasesOf(system.components))
      /\ ListTopLevelComponents = system.components
  BY ReaderFacts DEF IdsOf, ListTopLevelComponents
<1>2. SysarchPromise(system, Values(NamesOf(resps))) /\ DOMAIN arch = TopLevelIds
  BY <1>1 DEF IInv, DocInv, SystemInv
<1>3. /\ ComponentList(system.components)
      /\ system.deps \in SUBSET (TopLevelIds \X TopLevelIds)
      /\ \A e \in system.parents : e = <<e[1], e[2]>>
  BY <1>1, <1>2 DEF SysarchPromise
<1>4. ASSUME NEW c \in TopLevelIds, arch[c] # NoDoc
      PROVE  {c} \X arch[c].deps \in SUBSET (TopLevelIds \X TopLevelIds)
  <2>1. arch[c].deps \subseteq TopLevelIds
    BY <1>1, <1>2, <1>4 DEF IInv, DocInv, ArchInv, CompArchPromise
  <2>2. QED
    BY <2>1
<1>5. /\ ListEdges.dependency = system.deps
           \cup UNION {{c} \X arch[c].deps : c \in {x \in TopLevelIds : arch[x] # NoDoc}}
      /\ ListEdges.domain_parent = system.parents
  BY DEF ListEdges
<1>6. ListEdges.dependency \in SUBSET (TopLevelIds \X TopLevelIds)
  BY <1>3, <1>4, <1>5
<1>7. \A e \in OrderingEdges : e = <<e[1], e[2]>>
  BY <1>3, <1>5, <1>6 DEF OrderingEdges
<1>8. QED
  BY <1>1, <1>3, <1>6, <1>7

\* Whatever is worked on is a component of the system.
LEMMA FirstWithoutFacts ==
  ASSUME IInv, NEW c \in Values(TopoSortComps)
  PROVE  system # NoDoc /\ c \in IdsOf(system)
<1>1. CASE system = NoDoc
  <2>1. ListTopLevelComponents = <<>> /\ Len(<<>>) = 0
    BY <1>1 DEF ListTopLevelComponents
  <2>2. TopoSortComps = <<>>
    <3>1. PICK start : start = [placed |-> <<>>, stuck |-> FALSE]
      OBVIOUS
    <3>2. Iterate(Place(<<>>, OrderingEdges), start, 0) = start
      BY IterateNot
    <3>3. QED
      BY <2>1, <3>1, <3>2 DEF TopoSortComps, TopoSort
  <2>3. QED
    BY <2>2 DEF Values
<1>2. CASE system # NoDoc
  <2>1. Values(TopoSortComps) = TopLevelIds
    BY <1>2, OrderingFacts, SortIsComplete DEF TopoSortComps, TopLevelIds
  <2>2. QED
    BY <1>2, <2>1, ReaderFacts
<1>3. QED
  BY <1>1, <1>2

LEMMA InitIInv ==
  ASSUME Init
  PROVE  IInv
<1>1. /\ asked = {} /\ resps = <<>> /\ system = NoDoc
      /\ arch = <<>> /\ impls = {} /\ fanins = {} /\ DOMAIN <<>> = {}
  BY DEF Init
<1>2. BootInv(asked, resps, system) /\ SystemInv(resps, system, arch, fanins)
      /\ ArchInv(resps, system, arch, fanins) /\ FanInInv(arch, impls, fanins)
  BY <1>1 DEF BootInv, SystemInv, ArchInv, FanInInv
<1>3. QED
  BY <1>2 DEF IInv, DocInv

\* The components that are worked on: FirstWithout picks from the build order.
LEMMA ChosenFacts ==
  ASSUME IInv, NEW Done(_), NEW c \in FirstWithout(Done)
  PROVE  system # NoDoc /\ c \in IdsOf(system)
<1>1. c \in Values(TopoSortComps)
  BY DEF FirstWithout, Values
<1>2. QED
  BY <1>1, FirstWithoutFacts

LEMMA NextIInv ==
  ASSUME IInv, [Next]_vars
  PROVE  IInv'
<1> USE DEF IInv
<1>1. CASE RecordReview \/ ApproveExpansion \/ ApproveReference \/ UNCHANGED vars
  <2>1. UNCHANGED <<asked, resps, system, arch, impls, fanins>>
    BY <1>1 DEF RecordReview, ApproveExpansion, ApproveReference, vars
  <2>2. QED
    BY <2>1
<1>3. CASE ApproveRequirements
  <2>1. PICK raw \in RequirementDocs, deferred \in SUBSET Values(NamesOf(features)) :
          LET tree == ExtractTagTree(raw, "requirements")
          IN  /\ ValidRequirements(tree, ListFeatures(deferred))
              /\ asked' = ListFeatures(deferred) /\ resps' = RequirementsOf(tree)
    BY <1>3 DEF ApproveRequirements
  <2>2. Distinct(NamesOf(resps')) /\ asked' = Covered(resps')
    BY <2>1, RequirementsFacts
  <2>3. resps = <<>> /\ UNCHANGED <<system, arch, impls, fanins>>
    BY <1>3 DEF ApproveRequirements
  <2>4. QED
    BY <2>2, <2>3, RequirementsKeep
<1>4. CASE ApproveSysarch
  <2>1. PICK raw \in SysarchDocs :
          LET tree == ExtractTagTree(raw, "sysarch")
          IN  /\ ValidSysarch(tree, ListTopLevelResponsibilities)
              /\ system' = SysarchOf(tree)
              /\ arch' = [c \in Values(AliasesOf(SysarchOf(tree).components)) |-> NoDoc]
    BY <1>4 DEF ApproveSysarch
  <2>2. raw \in Seq(TagNode)
    BY AnswersAssumption
  <2>3. SysarchPromise(system', Values(NamesOf(resps)))
    BY <2>1, <2>2, SysarchFacts DEF ListTopLevelResponsibilities
  <2>4. arch' = [c \in Values(AliasesOf(system'.components)) |-> NoDoc]
    BY <2>1
  <2>5. resps # <<>> /\ system = NoDoc /\ UNCHANGED <<asked, resps, impls, fanins>>
    BY <1>4 DEF ApproveSysarch
  <2>6. QED
    BY <2>3, <2>4, <2>5, SysarchKeeps
<1>5. ASSUME NEW c \in FirstWithout(Designed), ApproveDesign(c)
      PROVE  IInv'
  <2>1. system # NoDoc /\ c \in IdsOf(system)
    BY ChosenFacts
  <2>2. CASE ApproveSubrequirements(c) \/ ApplyPolicies(c)
    <3>1. UNCHANGED <<asked, resps, system, arch, impls, fanins>>
      BY <2>2 DEF ApproveSubrequirements, ApplyPolicies
    <3>2. QED
      BY <3>1
  <2>3. CASE ApproveCompArch(c)
    <3>1. PICK doc \in CompArchDocs :
            LET tree == ExtractTagTree(doc.raw, "comparch")
            IN  /\ ValidArchDoc(tree, GetComponentContext(c).parents, TopLevelIds \ {c},
                                ComponentNode(c).foundation)
                /\ arch' = [arch EXCEPT ![c] = CompArchOf(tree)]
      BY <2>3 DEF ApproveCompArch
    <3>2. PICK tree : tree = ExtractTagTree(doc.raw, "comparch")
      OBVIOUS
    <3>3. doc.raw \in Seq(TagNode)
      BY AnswersAssumption
    <3>4. GetComponentContext(c).parents = TracedTo(resps, system.components, c)
          /\ TopLevelIds = IdsOf(system) /\ DomainParentsOf(c) = TargetsFrom(system.parents, c)
      BY <2>1, ReaderFacts
    <3>5. CompArchPromise(CompArchOf(tree), TracedTo(resps, system.components, c),
                          IdsOf(system) \ {c})
      BY <3>1, <3>2, <3>3, <3>4, CompArchFacts
    <3>6. arch[c] = NoDoc /\ TargetsFrom(system.parents, c) \subseteq fanins
          /\ UNCHANGED <<asked, resps, system, impls, fanins>>
      BY <2>3, <3>4 DEF ApproveCompArch, AllDomainParentsHavePopulatedFanIn
    <3>7. arch' = [arch EXCEPT ![c] = CompArchOf(tree)]
      BY <3>1, <3>2
    <3>8. QED
      BY <2>1, <3>5, <3>6, <3>7, CompArchKeeps
  <2>4. QED
    BY <1>5, <2>2, <2>3 DEF ApproveDesign
<1>6. ASSUME NEW c \in FirstWithout(Built), ApproveBelow(c)
      PROVE  IInv'
  <2>1. system # NoDoc /\ c \in IdsOf(system)
    BY ChosenFacts
  <2>2. ASSUME NEW sub \in SubIdsOf(c), ApproveSubArch(c, sub)
        PROVE  IInv'
    <3>1. UNCHANGED <<asked, resps, system, arch, impls, fanins>>
      BY <2>2 DEF ApproveSubArch
    <3>2. QED
      BY <3>1
  <2>3. ASSUME NEW o \in OwnersOfImpls(c), ApproveImplementation(c, o)
        PROVE  IInv'
    <3>1. impls \subseteq impls' /\ UNCHANGED <<asked, resps, system, arch, fanins>>
      BY <2>3 DEF ApproveImplementation
    <3>2. QED
      BY <3>1, ImplementationKeeps
  <2>4. CASE ApproveFanIn(c)
    <3>1. ListSubcomponentsOf(c) # <<>> /\ SubIdsOf(c) \subseteq impls
          /\ fanins' = fanins \cup {c}
          /\ UNCHANGED <<asked, resps, system, arch, impls>>
      BY <2>4 DEF ApproveFanIn, HasFanIn, AllImplsPopulatedFor
    <3>2. SubsOf(arch, c) # <<>> /\ IdsBelow(arch, c) \subseteq impls
      BY <3>1, ReaderFacts
    <3>3. QED
      BY <2>1, <3>1, <3>2, FanInKeeps
  <2>5. QED
    BY <1>6, <2>2, <2>3, <2>4 DEF ApproveBelow
<1>7. QED
  BY <1>1, <1>3, <1>4, <1>5, <1>6 DEF Next

(* The documents in the graph keep what their validators promised, whatever *)
(* is approved in which order (the gates and the readers of queries.py).    *)
THEOREM DocumentsInvariance == Spec => []IInv
<1>1. Init => IInv
  BY InitIInv
<1>2. IInv /\ [Next]_vars => IInv'
  BY NextIInv
<1>3. QED
  BY <1>1, <1>2, PTL DEF Spec

---------------------------------------------------------------------------
(* What follows from it *)

\* A component is found by its alias, a responsibility by its name.
LEMMA NodeFacts ==
  ASSUME NEW components, ComponentList(components), NEW c \in Values(components)
  PROVE  /\ NodeOf(components, c.alias) = c
         /\ c.alias \in Values(AliasesOf(components))
<1>1. PICK i \in DOMAIN components : c = components[i]
  BY DEF Values
<1>2. c.alias \in Values(AliasesOf(components))
  BY <1>1, AliasFacts
<1>3. ASSUME NEW node \in Values(components), node.alias = c.alias
      PROVE  node = c
  <2>1. PICK j \in DOMAIN components : node = components[j]
    BY DEF Values
  <2>2. QED
    BY <1>1, <1>3, <2>1, AliasFacts
<1>4. QED
  BY <1>2, <1>3 DEF NodeOf

LEMMA NameFacts ==
  ASSUME NEW list, Distinct(NamesOf(list)), NEW r \in Values(list)
  PROVE  /\ (CHOOSE y \in Values(list) : y.name = r.name) = r
         /\ r.name \in Values(NamesOf(list))
<1>1. PICK i \in DOMAIN list : r = list[i]
  BY DEF Values
<1>2. r.name \in Values(NamesOf(list))
  BY <1>1 DEF Values, NamesOf
<1>3. ASSUME NEW y \in Values(list), y.name = r.name
      PROVE  y = r
  <2>1. PICK j \in DOMAIN list : y = list[j]
    BY DEF Values
  <2>2. QED
    BY <1>1, <1>3, <2>1 DEF Distinct, IsInjective, NamesOf
<1>4. QED
  BY <1>2, <1>3

\* What the invariant says once there is a system.
LEMMA SystemFacts ==
  ASSUME IInv, system # NoDoc
  PROVE  /\ SysarchPromise(system, Values(NamesOf(resps)))
         /\ ComponentList(system.components)
         /\ ListTopLevelComponents = system.components
         /\ TopLevelIds = Values(AliasesOf(system.components))
         /\ IdsOf(system) = TopLevelIds /\ DOMAIN arch = TopLevelIds
         /\ Distinct(NamesOf(resps)) /\ Covered(resps) = asked
<1>1. IdsOf(system) = Values(AliasesOf(system.components)) /\ TopLevelIds = IdsOf(system)
      /\ ListTopLevelComponents = system.components
  BY ReaderFacts DEF IdsOf, ListTopLevelComponents
<1>2. SysarchPromise(system, Values(NamesOf(resps))) /\ DOMAIN arch = IdsOf(system)
  BY DEF IInv, DocInv, SystemInv
<1>3. ComponentList(system.components)
  BY <1>2 DEF SysarchPromise
<1>4. Distinct(NamesOf(resps)) /\ Covered(resps) = asked
  BY DEF IInv, DocInv, SystemInv, BootInv
<1>5. QED
  BY <1>1, <1>2, <1>3, <1>4

LEMMA FeaturesAreTraced ==
  ASSUME IInv
  PROVE  FeaturesTraced
<1> SUFFICES ASSUME system # NoDoc
             PROVE  /\ Covered(resps) = asked
                    /\ \A r \in Values(resps) : \A f \in r.feats :
                         \E c \in Values(ListTopLevelComponents) :
                           /\ c.kind = <<"domain">> /\ r.name \in c.resps
                           /\ \/ ListSubcomponentsOf(c.alias) = <<>>
                              \/ \E sub \in Values(ListSubcomponentsOf(c.alias)) :
                                   r.name \in DOMAIN sub.owns /\ f \in sub.owns[r.name]
  BY DEF FeaturesTraced
<1>1. Covered(resps) = asked
  BY SystemFacts
<1>2. ASSUME NEW r \in Values(resps), NEW f \in r.feats
      PROVE  \E c \in Values(ListTopLevelComponents) :
               /\ c.kind = <<"domain">> /\ r.name \in c.resps
               /\ \/ ListSubcomponentsOf(c.alias) = <<>>
                  \/ \E sub \in Values(ListSubcomponentsOf(c.alias)) :
                       r.name \in DOMAIN sub.owns /\ f \in sub.owns[r.name]
  <2>1. /\ (CHOOSE y \in Values(resps) : y.name = r.name) = r
        /\ r.name \in Values(NamesOf(resps))
    BY SystemFacts, NameFacts
  <2>2. PICK owners : owners = OwnersOf(system.components, <<"domain">>, r.name)
    OBVIOUS
  <2>3. owners # {}
    <3>1. Cardinality(owners) = 1
      BY <2>1, <2>2, SystemFacts DEF SysarchPromise, ValidAssignment
    <3>2. QED
      BY <3>1, FS_EmptySet
  <2>4. PICK c \in Values(system.components) : c.kind = <<"domain">> /\ r.name \in c.resps
    BY <2>2, <2>3 DEF OwnersOf
  <2>5. NodeOf(system.components, c.alias) = c /\ c.alias \in DOMAIN arch
    BY <2>4, SystemFacts, NodeFacts
  <2>6. PICK subs : subs = SubsOf(arch, c.alias)
    OBVIOUS
  <2>7. PICK parents : parents = TracedTo(resps, system.components, c.alias)
    OBVIOUS
  <2>8. r.name \in DOMAIN parents /\ parents[r.name] = r.feats
    BY <2>1, <2>4, <2>5, <2>7 DEF TracedTo
  <2>9. ASSUME subs # <<>>
        PROVE  \E sub \in Values(subs) : r.name \in DOMAIN sub.owns /\ f \in sub.owns[r.name]
    <3>1. arch[c.alias] # NoDoc /\ subs = arch[c.alias].subs
      BY <2>6, <2>9 DEF SubsOf
    <3>2. ClaimsCover(subs, parents)
      BY <2>5, <2>7, <2>9, <3>1 DEF IInv, DocInv, ArchInv, CompArchPromise
    <3>3. f \in Claimed(subs, r.name)
      BY <1>2, <2>8, <3>2 DEF ClaimsCover
    <3>4. QED
      BY <3>3 DEF Claimed
  <2>10. ListSubcomponentsOf(c.alias) = subs /\ c \in Values(ListTopLevelComponents)
    BY <2>4, <2>6, ReaderFacts, SystemFacts
  <2>11. QED
    BY <2>4, <2>9, <2>10
<1>3. QED
  BY <1>1, <1>2

LEMMA ParentsArePresented ==
  ASSUME IInv
  PROVE  PresentsItsParents
<1> SUFFICES ASSUME system # NoDoc, NEW c \in Values(system.components),
                    c.kind = <<"presentational">>
             PROVE  /\ Cardinality(DomainParentsOf(c.alias)) \in 1 .. 2
                    /\ \A d \in DomainParentsOf(c.alias) :
                         /\ ComponentNode(d).kind = <<"domain">>
                         /\ c.alias \in PresentationalChildrenOf(d)
                    /\ c.resps \subseteq
                         UNION {ComponentNode(d).resps : d \in DomainParentsOf(c.alias)}
  BY DEF PresentsItsParents
<1>1. PICK parents : parents = DomainParentsOf(c.alias)
  OBVIOUS
<1>2. parents = TargetsFrom(system.parents, c.alias)
  BY <1>1, ReaderFacts
<1>3. c.alias \in Values(AliasesOf(system.components))
  BY SystemFacts, NodeFacts
<1>4. IsFiniteSet(parents) /\ Cardinality(parents) <= 2 /\ Cardinality(parents) \in Nat
  BY <1>2, <1>3, SystemFacts, FS_CardinalityType DEF SysarchPromise
<1>5. ASSUME NEW r \in c.resps
      PROVE  \E d \in parents : r \in ComponentNode(d).resps
  <2>1. r \in Values(NamesOf(resps))
    BY SystemFacts DEF SysarchPromise
  <2>2. PICK owners : owners = OwnersOf(system.components, <<"domain">>, r)
    OBVIOUS
  <2>3. PICK mirrors : mirrors = OwnersOf(system.components, <<"presentational">>, r)
    OBVIOUS
  <2>4. Cardinality(owners) = 1 /\ mirrors \X owners \subseteq system.parents
    BY <2>1, <2>2, <2>3, SystemFacts DEF SysarchPromise, ValidAssignment
  <2>5. owners # {}
    BY <2>4, FS_EmptySet
  <2>6. PICK x \in Values(system.components) :
          x.kind = <<"domain">> /\ r \in x.resps /\ x.alias \in owners
    BY <2>2, <2>5 DEF OwnersOf
  <2>7. c.alias \in mirrors
    BY <2>3 DEF OwnersOf
  <2>8. <<c.alias, x.alias>> \in system.parents
    BY <2>4, <2>6, <2>7
  <2>9. x.alias \in parents
    BY <1>2, <2>8 DEF TargetsFrom
  <2>10. ComponentNode(x.alias) = x
    BY <2>6, SystemFacts, NodeFacts, ReaderFacts
  <2>11. QED
    BY <2>6, <2>9, <2>10
<1>6. parents # {}
  BY <1>5, SystemFacts DEF SysarchPromise
<1>7. Cardinality(parents) # 0
  BY <1>4, <1>6, FS_EmptySet
<1>8. ASSUME NEW d \in parents
      PROVE  /\ ComponentNode(d).kind = <<"domain">>
             /\ c.alias \in PresentationalChildrenOf(d)
  <2>1. PICK e \in system.parents : e[1] = c.alias /\ e[2] = d
    BY <1>2 DEF TargetsFrom
  <2>2. IsOfKind(system.components, d, Domain)
    BY <2>1, SystemFacts DEF SysarchPromise
  <2>3. PICK x \in Values(system.components) : x.alias = d /\ x.kind = <<"domain">>
    BY <2>2 DEF IsOfKind, Domain
  <2>4. ComponentNode(d) = x
    BY <2>3, SystemFacts, NodeFacts, ReaderFacts
  <2>5. QED
    BY <2>1, <2>3, <2>4 DEF PresentationalChildrenOf
<1>9. QED
  BY <1>1, <1>4, <1>5, <1>7, <1>8

LEMMA SubOrdersExist ==
  ASSUME IInv
  PROVE  SubOrderExists
<1> SUFFICES ASSUME NEW c \in DOMAIN arch, NEW subs, subs = ListSubcomponentsOf(c),
                    subs # <<>>, Distinct(NamesOf(subs))
             PROVE  Acyclic(Values(AliasesOf(subs)), arch[c].subDeps \cup Named(subs))
  BY DEF SubOrderExists, Named
<1>1. arch[c] # NoDoc /\ subs = arch[c].subs
  BY DEF ListSubcomponentsOf
<1>2. QED
  BY <1>1 DEF IInv, DocInv, ArchInv, CompArchPromise

LEMMA FanInsSeeImplementations ==
  ASSUME IInv
  PROVE  FanInSeesImplementation
<1> SUFFICES ASSUME NEW c \in DOMAIN arch, arch[c] # NoDoc, NEW d \in DomainParentsOf(c)
             PROVE  /\ GetComponentContext(d).techspec = "comparch"
                    /\ d \in fanins
                    /\ SubIdsOf(d) # {} /\ SubIdsOf(d) \subseteq impls
  BY DEF FanInSeesImplementation
<1>1. d \in fanins
  BY ReaderFacts DEF IInv, DocInv, ArchInv
<1>2. arch[d] # NoDoc /\ IdsBelow(arch, d) # {} /\ IdsBelow(arch, d) \subseteq impls
  BY <1>1 DEF IInv, DocInv, FanInInv
<1>3. GetComponentContext(d).techspec = "comparch"
  BY <1>2 DEF GetComponentContext, BestLayeredFragment
<1>4. QED
  BY <1>1, <1>2, <1>3, ReaderFacts

LEMMA DependenciesAreFirst ==
  ASSUME IInv
  PROVE  DependenciesComeFirst
<1> SUFFICES ASSUME system # NoDoc,
                    NEW order, order = TopoSort(ListTopLevelComponents, system.deps)
             PROVE  /\ Acyclic(TopLevelIds, system.deps)
                    /\ Ordered(order, system.deps)
                    /\ ComponentNode(order[1]).foundation
                    /\ Values(TopoSortComps) = TopLevelIds
                    /\ Distinct(TopoSortComps)
                    /\ Acyclic(TopLevelIds, OrderingEdges) => Ordered(TopoSortComps, OrderingEdges)
  BY DEF DependenciesComeFirst
<1>1. /\ ComponentList(system.components) /\ ListTopLevelComponents = system.components
      /\ TopLevelIds = Values(AliasesOf(system.components))
  BY SystemFacts
<1>2. /\ system.deps \in SUBSET (TopLevelIds \X TopLevelIds) /\ Acyclic(TopLevelIds, system.deps)
      /\ EnforceFoundationDependency(system.components, system.deps)
  BY SystemFacts DEF SysarchPromise
<1>3. /\ order \in Seq(TopLevelIds) /\ Values(order) = TopLevelIds
      /\ Ordered(order, system.deps)
  BY <1>1, <1>2, SortIsComplete
<1>4. /\ Values(TopoSortComps) = TopLevelIds /\ Distinct(TopoSortComps)
      /\ Acyclic(TopLevelIds, OrderingEdges) => Ordered(TopoSortComps, OrderingEdges)
  BY <1>1, OrderingFacts, SortIsComplete DEF TopoSortComps
<1>5. ComponentNode(order[1]).foundation
  <2>1. PICK h \in FoundationsOf(system.components) :
          \A c \in Values(system.components) :
            c.foundation \/ <<c.alias, system.components[h].alias>> \in system.deps
    BY <1>2 DEF EnforceFoundationDependency
  <2>2. PICK x : x = system.components[h]
    OBVIOUS
  <2>3. x \in Values(system.components) /\ x.alias \in TopLevelIds
    BY <1>1, <2>1, <2>2, AliasFacts DEF FoundationsOf, Values
  <2>4. PICK j \in DOMAIN order : x.alias = order[j]
    BY <1>3, <2>3 DEF Values
  <2>5. DOMAIN order = 1 .. Len(order) /\ Len(order) \in Nat
    BY <1>3
  <2>6. 1 \in DOMAIN order /\ ~(j < 1)
    BY <2>4, <2>5
  <2>7. order[1] \in TopLevelIds
    BY <1>3, <2>6
  <2>8. PICK i \in DOMAIN system.components : order[1] = system.components[i].alias
    BY <1>1, <2>7, AliasFacts
  <2>9. PICK c : c = system.components[i]
    OBVIOUS
  <2>10. c \in Values(system.components) /\ order[1] = c.alias
    BY <2>8, <2>9 DEF Values
  <2>11. <<c.alias, x.alias>> \notin system.deps
    BY <1>3, <2>4, <2>6, <2>10 DEF Ordered
  <2>12. c.foundation
    BY <2>1, <2>2, <2>10, <2>11
  <2>13. ComponentNode(order[1]) = c
    BY <1>1, <2>10, NodeFacts, ReaderFacts
  <2>14. QED
    BY <2>12, <2>13
<1>6. QED
  BY <1>2, <1>3, <1>4, <1>5

(* No feature that is not deferred is lost between the expansion and the    *)
(* subcomponents of the components that answer for it, and no deferred one  *)
(* comes in (validate_requirements, validate_sysarch and validate_arch_doc  *)
(* together).                                                               *)
THEOREM FeaturesStayTraced == Spec => []FeaturesTraced
BY DocumentsInvariance, FeaturesAreTraced, PTL

(* A presentational component presents its one or two domain parents, and   *)
(* nothing else (validate_sysarch).                                         *)
THEOREM ParentsStayPresented == Spec => []PresentsItsParents
BY DocumentsInvariance, ParentsArePresented, PTL

(* The split of a component can be built in some order, the edges its prose *)
(* implies included (validate_arch_doc).                                    *)
THEOREM SubOrdersStay == Spec => []SubOrderExists
BY DocumentsInvariance, SubOrdersExist, PTL

(* A presentational component is specified when the implementations of its  *)
(* domain parents are all there (the gates of queries.py).                  *)
THEOREM GatesHold == Spec => []FanInSeesImplementation
BY DocumentsInvariance, FanInsSeeImplementations, PTL

(* What is valid can be sorted: every component is there once, the          *)
(* foundation first and none before what it depends on                      *)
(* (validators.py:_detect_dep_cycles, queries.py:topo_sort_comps).          *)
THEOREM BuildOrderIsSound == Spec => []DependenciesComeFirst
BY DocumentsInvariance, DependenciesAreFirst, PTL

=============================================================================
