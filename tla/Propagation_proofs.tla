------------------------- MODULE Propagation_proofs ------------------------
(***************************************************************************)
(* Propagations over any set of scopes, drained by any number of sessions  *)
(* at once: the worklist is the subtree of its source, and what a drain    *)
(* has brought up to date stays so to its end.                             *)
(***************************************************************************)
EXTENDS Propagation, FiniteSetTheorems, SequenceTheorems, TLAPS

---------------------------------------------------------------------------
(* Tiers and subtrees *)

\* The rank of a scope on the top-down chain.
LEMMA Ranks ==
  ASSUME NEW s, s.tier \in Tier, s.tier # "fanin"
  PROVE  /\ Rank(s) \in 1 .. 6
         /\ s.tier = "feature_expansion" => Rank(s) = 1
         /\ s.tier = "requirements" => Rank(s) = 2
         /\ s.tier = "sysarch" => Rank(s) = 3
         /\ s.tier = "comparch" => Rank(s) = 4
         /\ s.tier = "subcomparch" => Rank(s) = 5
         /\ s.tier = "impl" => Rank(s) = 6
<1> DEFINE c == TOP_DOWN_CHAIN
<1>1. /\ DOMAIN c = 1 .. 6 /\ c[1] = "feature_expansion" /\ c[2] = "requirements"
      /\ c[3] = "sysarch" /\ c[4] = "comparch" /\ c[5] = "subcomparch" /\ c[6] = "impl"
  BY DEF TOP_DOWN_CHAIN
<1> HIDE DEF c
<1>2. Rank(s) = CHOOSE i \in DOMAIN c : c[i] = s.tier
  BY DEF Rank, c
<1>3. \E i \in DOMAIN c : c[i] = s.tier
  BY DEF Tier, c
<1>4. Rank(s) \in DOMAIN c /\ c[Rank(s)] = s.tier
  BY <1>2, <1>3
<1>5. Rank(s) \in 1 .. 6
  BY <1>1, <1>4
<1>6. QED
  BY <1>1, <1>4, <1>5

\* compute_downstream_worklist walks the tree that the names draw.
LEMMA DownstreamIsBelow ==
  ASSUME NEW s \in Scope, NEW t \in Scope
  PROVE  IsDownstream(t, s) <=> s \in Ancestors(t)
<1>1. s.tier \in Tier /\ t.tier \in Tier
  BY ScopeAssumption
<1>2. \A u : u.tier \in Tier <=>
        u.tier \in {"feature_expansion", "requirements", "sysarch", "comparch",
                    "subcomparch", "impl", "fanin"}
  <2>1. Tier = {"feature_expansion", "requirements", "sysarch", "comparch",
                "subcomparch", "impl", "fanin"}
    BY DEF Tier, TOP_DOWN_CHAIN
  <2>2. QED
    BY <2>1
<1>3. CASE s.tier = "fanin" \/ t.tier = "fanin"
  BY <1>3 DEF IsDownstream, Below, Ancestors
<1>4. CASE s.tier # "fanin" /\ t.tier # "fanin"
  <2>1. /\ s.tier = "feature_expansion" => Rank(s) = 1
        /\ s.tier = "requirements" => Rank(s) = 2
        /\ s.tier = "sysarch" => Rank(s) = 3
        /\ s.tier = "comparch" => Rank(s) = 4
        /\ s.tier = "subcomparch" => Rank(s) = 5
        /\ s.tier = "impl" => Rank(s) = 6
    BY <1>1, <1>4, Ranks
  <2>2. /\ t.tier = "feature_expansion" => Rank(t) = 1
        /\ t.tier = "requirements" => Rank(t) = 2
        /\ t.tier = "sysarch" => Rank(t) = 3
        /\ t.tier = "comparch" => Rank(t) = 4
        /\ t.tier = "subcomparch" => Rank(t) = 5
        /\ t.tier = "impl" => Rank(t) = 6
    BY <1>1, <1>4, Ranks
  <2> HIDE DEF Rank
  <2>3. QED
    BY <1>1, <1>2, <1>4, <2>1, <2>2 DEF IsDownstream, Below, Ancestors, SubstrateRoots
<1>5. QED
  BY <1>3, <1>4

\* What is above a scope has a lower rank.
LEMMA AncestorsRank ==
  ASSUME NEW s \in Scope, NEW t \in Scope, s \in Ancestors(t)
  PROVE  /\ Rank(s) \in Nat /\ Rank(t) \in Nat /\ Rank(s) < Rank(t)
         /\ t.tier # "fanin"
<1>1. IsDownstream(t, s)
  BY DownstreamIsBelow
<1>2. s.tier \in Tier /\ t.tier \in Tier /\ s.tier # "fanin" /\ t.tier # "fanin"
  BY <1>1, ScopeAssumption DEF IsDownstream, Below
<1>3. Rank(s) \in 1 .. 6 /\ Rank(t) \in 1 .. 6
  BY <1>2, Ranks
<1>4. QED
  BY <1>1, <1>2, <1>3 DEF IsDownstream, Below

\* The worklist of open-propagation lists the scopes below, each once.
LEMMA DownstreamListsAll ==
  ASSUME NEW src, existing \subseteq Scope, NEW w \in Downstream(src)
  PROVE  /\ w \in Worklist
         /\ \A i \in DOMAIN w : /\ w[i].status = "pending" /\ w[i].scope \in existing
                                /\ IsDownstream(w[i].scope, src)
         /\ \A i, j \in DOMAIN w : i < j => /\ w[i].scope # w[j].scope
                                            /\ Rank(w[i].scope) <= Rank(w[j].scope)
         /\ \A s \in existing : IsDownstream(s, src) => \E i \in DOMAIN w : w[i].scope = s
<1> DEFINE stale == {s \in existing : IsDownstream(s, src)}
           n == Cardinality(stale)
           f == [i \in 1 .. n |-> w[i].scope]
<1>1. IsFiniteSet(stale) /\ n \in Nat
  <2>1. stale \in SUBSET Scope
    OBVIOUS
  <2>2. IsFiniteSet(stale)
    BY <2>1, ScopeAssumption, FS_Subset
  <2>3. QED
    BY <2>2, FS_CardinalityType
<1>2. /\ w \in [1 .. n -> [scope : stale, status : {"pending"}]]
      /\ \A i, j \in DOMAIN w : i < j => /\ w[i].scope # w[j].scope
                                         /\ Rank(w[i].scope) <= Rank(w[j].scope)
  BY DEF Downstream
<1> HIDE DEF n
<1>3. f \in Injection(1 .. n, stale)
  <2>1. f \in [1 .. n -> stale]
    BY <1>2
  <2>2. ASSUME NEW i \in 1 .. n, NEW j \in 1 .. n, f[i] = f[j] PROVE i = j
    <3>1. i \in DOMAIN w /\ j \in DOMAIN w /\ w[i].scope = w[j].scope
      BY <1>2, <2>2
    <3>2. ~ (i < j) /\ ~ (j < i)
      BY <1>2, <3>1
    <3>3. QED
      BY <1>1, <3>2
  <2> HIDE DEF f
  <2>3. QED
    BY <2>1, <2>2 DEF Injection, IsInjective
<1>4. f \in Surjection(1 .. n, stale)
  <2>1. IsFiniteSet(1 .. n) /\ Cardinality(1 .. n) = n
    BY <1>1, FS_Interval
  <2>2. IsFiniteSet(stale) /\ n = Cardinality(stale)
    BY <1>1 DEF n
  <2> HIDE DEF f, stale
  <2>3. Cardinality(1 .. n) = Cardinality(stale)
    BY <2>1, <2>2
  <2>4. QED
    BY <1>3, <2>2, <2>3, FS_Injection
<1>5. \A s \in stale : \E i \in DOMAIN w : w[i].scope = s
  BY <1>2, <1>4 DEF Surjection
<1>6. w \in Worklist
  <2>1. [scope : stale, status : {"pending"}] \subseteq Entry
    BY DEF Entry, EntryStatus
  <2>2. w \in [1 .. n -> Entry]
    BY <1>2, <2>1
  <2>3. QED
    BY <1>1, <2>2 DEF Worklist
<1>7. QED
  BY <1>2, <1>5, <1>6

---------------------------------------------------------------------------
(* The invariant *)

SameScopes(v, w) == DOMAIN v = DOMAIN w /\ \A i \in DOMAIN w : v[i].scope = w[i].scope

\* A record lists the scopes below its source, each once and after those
\* above it, all to be done; one that is gone is one that others touched.
ListInv(p) ==
  /\ source[p] = NoScope => DOMAIN opened[p] = {}
  /\ SameScopes(worklist[p], opened[p])
  /\ \A i \in DOMAIN opened[p] : /\ opened[p][i].status = "pending"
                                 /\ IsDownstream(opened[p][i].scope, source[p])
                                 /\ opened[p][i].scope \in existing \cup touched[p]
  /\ \A i, j \in DOMAIN opened[p] :
       i < j => /\ opened[p][i].scope # opened[p][j].scope
                /\ Rank(opened[p][i].scope) <= Rank(opened[p][j].scope)
  /\ \A s \in existing \ touched[p] :
       source[p] # NoScope /\ IsDownstream(s, source[p])
         => \E i \in DOMAIN opened[p] : opened[p][i].scope = s

\* Fresh and Passed, of values: scopes e, versions v and b, the scopes m that
\* others wrote, a session's hand h and its worklist w.
FreshIn(e, v, b, m, t) == \A u \in (e \cap Ancestors(t)) \ m : b[t][u] = v[u]
Behind(h, w) ==
  {i \in DOMAIN w :
     \/ i < h.i
     \/ i = h.i /\ h.at \in {"pick", "report", "settle"}}
BehindFresh(h, w, e, v, b, m) ==
  \A i \in Behind(h, w) : w[i].scope \in e => FreshIn(e, v, b, m, w[i].scope)

\* What a session has in hand is of a record that was opened, and all it has
\* passed is fresh.
HandOK(h, w, e, v, b, m) ==
  /\ h.at \in {"claim", "settle"} => SameScopes(h.copy, w)
  /\ h.at = "commit" => h.i = 0
  /\ h.at # "idle" => BehindFresh(h, w, e, v, b, m)

HandsOK ==
  \A k \in Session :
    /\ session[k].at # "idle" => session[k].prop <= opens
    /\ HandOK(session[k], opened[session[k].prop], existing, version, built, moved[k])

Inv ==
  /\ TypeOK
  /\ \A p \in Id : ListInv(p)
  /\ \A p \in atHead : p <= opens
  /\ HandsOK

---------------------------------------------------------------------------
(* Entries *)

\* update_entry changes statuses only.
LEMMA UpdateKeepsScopes ==
  ASSUME NEW w \in Worklist, NEW s, NEW st \in EntryStatus
  PROVE  UpdateEntry(w, s, st) \in Worklist /\ SameScopes(UpdateEntry(w, s, st), w)
<1> DEFINE u == UpdateEntry(w, s, st)
<1>1. DOMAIN w = 1 .. Len(w) /\ Len(w) \in Nat /\ \A j \in DOMAIN w : w[j] \in Entry
  BY DEF Worklist
<1>2. \A j \in DOMAIN w : /\ [w[j] EXCEPT !.status = st] \in Entry
                          /\ [w[j] EXCEPT !.status = st].scope = w[j].scope
  BY <1>1 DEF Entry
<1>3. /\ DOMAIN u = DOMAIN w /\ u = [j \in DOMAIN u |-> u[j]]
      /\ \A j \in DOMAIN w :
           u[j] = IF w[j].scope = s THEN [w[j] EXCEPT !.status = st] ELSE w[j]
  BY DEF UpdateEntry
<1> HIDE DEF u
<1>4. \A j \in DOMAIN w : u[j] \in Entry /\ u[j].scope = w[j].scope
  BY <1>1, <1>2, <1>3
<1>5. u \in [1 .. Len(w) -> Entry]
  BY <1>1, <1>3, <1>4
<1>6. u \in Worklist /\ SameScopes(u, w)
  BY <1>1, <1>3, <1>4, <1>5 DEF Worklist, SameScopes
<1>7. QED
  BY <1>6 DEF u

\* What a worklist holds.
LEMMA PositionsAreNumbers ==
  ASSUME NEW w \in Worklist
  PROVE  /\ DOMAIN w \subseteq Nat
         /\ \A i \in DOMAIN w : w[i].scope \in Scope /\ w[i].status \in EntryStatus
<1>1. DOMAIN w = 1 .. Len(w) /\ Len(w) \in Nat /\ \A i \in DOMAIN w : w[i] \in Entry
  BY DEF Worklist
<1>2. QED
  BY <1>1 DEF Entry

\* A session with nothing in hand.
LEMMA IdleIsHand == Idle \in Hand /\ Idle.at = "idle" /\ Idle.i = 0
<1>1. << >> \in Worklist
  BY DEF Worklist
<1>2. QED
  BY <1>1 DEF Idle, Hand, Step, EntryStatus, Terminal

\* An idle hand asks for nothing.
LEMMA IdleHandOK ==
  ASSUME NEW h, h.at = "idle", NEW w, NEW e, NEW v, NEW b, NEW m
  PROVE  HandOK(h, w, e, v, b, m)
BY DEF HandOK

---------------------------------------------------------------------------
(* Freshness *)

FreshKept(e, v, b, m, e2, v2, b2, n) ==
  \A t \in Scope :
    t \in e2 /\ (t \in e => FreshIn(e, v, b, m, t)) => FreshIn(e2, v2, b2, n, t)

\* Nothing goes stale when nothing is written.
LEMMA NoWriteKeepsFresh ==
  ASSUME NEW e, NEW v, NEW b, NEW m, NEW e2, NEW n, e2 \subseteq e, m \subseteq n
  PROVE  FreshKept(e, v, b, m, e2, v, b, n)
BY DEF FreshKept, FreshIn

\* Write, of values.
Rewrites(s, v, b, v2, b2) == v2 = [v EXCEPT ![s] = @ + 1] /\ b2 = [b EXCEPT ![s] = v]

\* A scope just written is fresh, and those that do not lie below it stay so.
LEMMA WriteKeepsOne ==
  ASSUME NEW e, NEW v \in [Scope -> Nat], NEW b \in [Scope -> [Scope -> Nat]], NEW m,
         NEW s \in Scope, NEW e2, e2 \subseteq e \cup {s}, NEW v2, NEW b2,
         Rewrites(s, v, b, v2, b2),
         NEW n, m \subseteq n, NEW t \in Scope, t = s \/ FreshIn(e, v, b, m, t),
         s \in Ancestors(t) => s \in n
  PROVE  FreshIn(e2, v2, b2, n, t)
<1>1. Ancestors(t) \subseteq Scope
  BY DEF Ancestors
<1>2. SUFFICES ASSUME NEW u \in Ancestors(t), u \in e2, u \notin n
               PROVE  b2[t][u] = v2[u]
  BY DEF FreshIn
<1>3. u \in Scope /\ u # s /\ u \in e /\ u \notin m
  <2>1. s \notin Ancestors(s)
    BY AncestorsRank
  <2>2. QED
    BY <1>1, <1>2, <2>1
<1>4. v2[u] = v[u] /\ b2[t] = IF t = s THEN v ELSE b[t]
  BY <1>3 DEF Rewrites
<1>5. QED
  BY <1>2, <1>3, <1>4 DEF FreshIn

\* To the sessions that know of the write nothing goes stale.
LEMMA WriteKeepsFresh ==
  ASSUME NEW e, NEW v \in [Scope -> Nat], NEW b \in [Scope -> [Scope -> Nat]], NEW m,
         NEW s \in Scope, NEW e2, e2 \subseteq e \cup {s}, NEW v2, NEW b2,
         Rewrites(s, v, b, v2, b2),
         NEW n, m \subseteq n, s \in n
  PROVE  FreshKept(e, v, b, m, e2, v2, b2, n)
<1>1. SUFFICES ASSUME NEW t \in Scope, t \in e2, t \in e => FreshIn(e, v, b, m, t)
               PROVE  FreshIn(e2, v2, b2, n, t)
  BY DEF FreshKept
<1>2. t = s \/ FreshIn(e, v, b, m, t)
  BY <1>1
<1>3. QED
  BY <1>1, <1>2, WriteKeepsOne

\* A hand that does not change stays in order when what it passed stays fresh.
LEMMA SameHand ==
  ASSUME NEW h, NEW w \in Worklist, NEW e, NEW v, NEW b, NEW m,
         NEW e2, NEW v2, NEW b2, NEW n,
         HandOK(h, w, e, v, b, m), FreshKept(e, v, b, m, e2, v2, b2, n)
  PROVE  HandOK(h, w, e2, v2, b2, n)
<1>1. \A i \in DOMAIN w : w[i].scope \in Scope
  BY PositionsAreNumbers
<1>2. ASSUME BehindFresh(h, w, e, v, b, m) PROVE BehindFresh(h, w, e2, v2, b2, n)
  BY <1>1, <1>2 DEF BehindFresh, Behind, FreshKept
<1>3. QED
  BY <1>2 DEF HandOK

---------------------------------------------------------------------------
(* Steps of a session *)

\* A session takes h in hand; the scopes and what was opened stay as they are.
LEMMA TakesInHand ==
  ASSUME Inv, NEW k \in Session, NEW h \in Hand,
         session' = [session EXCEPT ![k] = h],
         UNCHANGED <<bodies, source, opened, touched, opens>>,
         moved' \in [Session -> SUBSET Scope],
         \A j \in Session : j # k => moved'[j] = moved[j],
         worklist' \in [Id -> Worklist],
         \A p \in Id : SameScopes(worklist'[p], opened[p]),
         atHead' \subseteq Id, \A p \in atHead' : p <= opens,
         edits' \in Nat, fails' \in Nat, crashes' \in Nat, repeats' \in Nat,
         h.at # "idle" => h.prop \in Id /\ h.prop <= opens,
         h.at \in {"claim", "regen", "report", "settle"} => h.i \in DOMAIN opened[h.prop],
         HandOK(h, opened[h.prop], existing, version, built, moved'[k])
  PROVE  Inv'
<1>1. \A j \in Session : session'[j] = IF j = k THEN h ELSE session[j]
  BY DEF Inv, TypeOK
<1>2. TypeOK'
  <2>1. session' \in [Session -> Hand]
    BY DEF Inv, TypeOK
  <2>2. ASSUME NEW j \in Session
        PROVE  /\ session'[j].at # "idle" => session'[j].prop \in Id
               /\ session'[j].at \in {"claim", "regen", "report", "settle"}
                    => session'[j].i \in DOMAIN opened[session'[j].prop]
    BY <1>1 DEF Inv, TypeOK, At, Plan
  <2>3. QED
    BY <2>1, <2>2 DEF Inv, TypeOK, At, Plan, bodies
<1>3. \A p \in Id : ListInv(p)'
  BY DEF Inv, ListInv, bodies
<1>4. HandsOK'
  BY <1>1 DEF Inv, HandsOK, bodies
<1>5. QED
  BY <1>2, <1>3, <1>4 DEF Inv

\* What the session had in hand, and what a step need not say.
LEMMA InHand ==
  ASSUME Inv, NEW k \in Session, session[k].at # "idle",
         NEW g, g = session[k], NEW w, w = opened[g.prop]
  PROVE  /\ g \in Hand /\ g.prop \in Id /\ g.prop <= opens /\ w \in Worklist
         /\ g.at \in {"claim", "regen", "report", "settle"} => g.i \in DOMAIN w
         /\ HandOK(g, w, existing, version, built, moved[k])
         /\ Plan(k) = w /\ SameScopes(worklist[g.prop], w)
         /\ \A i \in DOMAIN w : w[i].status = "pending" /\ w[i].scope \in Scope
         /\ DOMAIN w \subseteq Nat \ {0}
<1>1. g \in Hand /\ g.prop \in Id /\ w \in Worklist
  BY DEF Inv, TypeOK, At
<1>2. DOMAIN w = 1 .. Len(w) /\ Len(w) \in Nat /\ \A i \in DOMAIN w : w[i] \in Entry
  BY <1>1 DEF Worklist
<1>3. ListInv(g.prop)
  BY <1>1 DEF Inv
<1>4. QED
  BY <1>1, <1>2, <1>3 DEF Inv, TypeOK, HandsOK, At, Plan, Entry, ListInv

\* The record that was opened is committed.
LEMMA CommitOK ==
  ASSUME Inv, NEW k \in Session, Commit(k)
  PROVE  Inv'
<1>0. PICK g : g = session[k]
  OBVIOUS
<1>1. PICK w : w = opened[g.prop]
  OBVIOUS
<1>2. g.at = "commit" /\ session[k].at # "idle"
  BY <1>0 DEF Commit, At
<1>3. /\ g \in Hand /\ g.prop \in Id /\ g.prop <= opens /\ w \in Worklist
      /\ HandOK(g, w, existing, version, built, moved[k])
      /\ DOMAIN w \subseteq Nat \ {0}
  BY <1>0, <1>1, <1>2, InHand
<1>4. PICK h : h = [g EXCEPT !.at = "pick"]
  OBVIOUS
<1>5. session' = [session EXCEPT ![k] = h]
  BY <1>0, <1>4 DEF Commit, Goto
<1>6. h \in Hand /\ h.at = "pick" /\ h.prop = g.prop /\ h.i = 0
  BY <1>2, <1>3, <1>4 DEF Hand, Step, HandOK
<1>7. Behind(h, w) = {}
  BY <1>3, <1>6 DEF Behind
<1>8. HandOK(h, opened[h.prop], existing, version, built, moved'[k])
  BY <1>1, <1>6, <1>7 DEF HandOK, BehindFresh
<1>9. /\ UNCHANGED <<bodies, source, opened, touched, opens, moved, worklist>>
      /\ edits' \in Nat /\ fails' \in Nat /\ crashes' \in Nat /\ repeats' \in Nat
      /\ atHead' = atHead \cup {g.prop}
  BY <1>0 DEF Commit, Inv, TypeOK, written, counters
<1>10. /\ moved' \in [Session -> SUBSET Scope] /\ worklist' \in [Id -> Worklist]
       /\ \A p \in Id : SameScopes(worklist'[p], opened[p])
       /\ atHead' \subseteq Id /\ \A p \in atHead' : p <= opens
  BY <1>3, <1>9 DEF Inv, TypeOK, ListInv
<1>11. QED
  BY <1>5, <1>6, <1>8, <1>9, <1>10, TakesInHand

\* The step of a session that leaves the scopes, the propagations and the
\* histories alone: it marks its entry or nothing.
LEMMA QuietStep ==
  ASSUME Inv, NEW k \in Session, NEW h \in Hand,
         session' = [session EXCEPT ![k] = h],
         UNCHANGED <<bodies, source, opened, atHead, written, opens>>,
         worklist' \in [Id -> Worklist],
         \A p \in Id : SameScopes(worklist'[p], opened[p]),
         edits' \in Nat, fails' \in Nat, crashes' \in Nat, repeats' \in Nat,
         h.at # "idle" => h.prop \in Id /\ h.prop <= opens,
         h.at \in {"claim", "regen", "report", "settle"} => h.i \in DOMAIN opened[h.prop],
         HandOK(h, opened[h.prop], existing, version, built, moved[k])
  PROVE  Inv'
<1>1. /\ moved' \in [Session -> SUBSET Scope] /\ moved' = moved
      /\ atHead' \subseteq Id /\ \A p \in atHead' : p <= opens
      /\ UNCHANGED <<bodies, source, opened, touched, opens>>
  BY DEF written, Inv, TypeOK
<1>2. QED
  BY <1>1, TakesInHand

\* What no step of these changes.
LEMMA RecordsStay ==
  ASSUME Inv
  PROVE  /\ worklist \in [Id -> Worklist] /\ \A p \in Id : SameScopes(worklist[p], opened[p])
         /\ opens \in Nat /\ edits \in Nat /\ fails \in Nat /\ crashes \in Nat /\ repeats \in Nat
BY DEF Inv, TypeOK, ListInv

\* The next entry is the first after those dealt with, and the record is read.
LEMMA PickOK ==
  ASSUME Inv, NEW k \in Session, Pick(k)
  PROVE  Inv'
<1>0. PICK g : g = session[k]
  OBVIOUS
<1>1. PICK w : w = opened[g.prop]
  OBVIOUS
<1>2. g.at = "pick" /\ session[k].at # "idle"
  BY <1>0 DEF Pick, At
<1>3. /\ g \in Hand /\ g.prop \in Id /\ g.prop <= opens /\ w \in Worklist
      /\ HandOK(g, w, existing, version, built, moved[k])
      /\ Plan(k) = w /\ SameScopes(worklist[g.prop], w)
      /\ \A i \in DOMAIN w : w[i].status = "pending"
      /\ DOMAIN w \subseteq Nat \ {0}
  BY <1>0, <1>1, <1>2, InHand
<1>4. Left(k) = {i \in DOMAIN w : i > g.i}
  BY <1>0, <1>3 DEF Left, Terminal
<1>5. PICK i \in Left(k) :
        /\ \A j \in Left(k) : i <= j
        /\ session' = [session EXCEPT ![k].at = "claim", ![k].i = i,
                                      ![k].copy = worklist[session[k].prop]]
  BY DEF Pick
<1>6. PICK h : h = [g EXCEPT !.at = "claim", !.i = i, !.copy = worklist[g.prop]]
  OBVIOUS
<1>7. session' = [session EXCEPT ![k] = h]
  BY <1>0, <1>5, <1>6
<1>8. worklist \in [Id -> Worklist] /\ \A p \in Id : SameScopes(worklist[p], opened[p])
  BY RecordsStay
<1>9. /\ h \in Hand /\ h.at = "claim" /\ h.prop = g.prop /\ h.i = i
      /\ h.copy = worklist[g.prop] /\ i \in DOMAIN w
  BY <1>3, <1>4, <1>5, <1>6, <1>8 DEF Hand, Step
<1>10. Behind(h, w) \subseteq Behind(g, w)
  <2>1. \A j \in DOMAIN w : j < i => j <= g.i
    BY <1>3, <1>4, <1>5, <1>9 DEF Hand
  <2>2. \A j \in DOMAIN w : j <= g.i => j < g.i \/ j = g.i
    BY <1>3 DEF Hand
  <2>3. QED
    BY <1>2, <1>9, <2>1, <2>2 DEF Behind
<1>11. HandOK(h, opened[h.prop], existing, version, built, moved[k])
  BY <1>1, <1>2, <1>3, <1>9, <1>10 DEF HandOK, BehindFresh
<1>12. UNCHANGED <<bodies, source, opened, atHead, written, opens, worklist,
                   edits, fails, crashes, repeats>>
  BY DEF Pick, record, counters
<1>13. QED
  BY <1>1, <1>3, <1>7, <1>8, <1>9, <1>11, <1>12, RecordsStay, QuietStep

\* The mark goes into the record the session read.
LEMMA MarkOK ==
  ASSUME Inv, NEW k \in Session, session[k].at \in {"claim", "settle"},
         NEW st \in EntryStatus, Mark(k, st)
  PROVE  worklist' \in [Id -> Worklist] /\ \A p \in Id : SameScopes(worklist'[p], opened[p])
<1>0. PICK g : g = session[k]
  OBVIOUS
<1>1. PICK w : w = opened[g.prop]
  OBVIOUS
<1>2. session[k].at # "idle"
  OBVIOUS
<1>3. g \in Hand /\ g.prop \in Id /\ HandOK(g, w, existing, version, built, moved[k])
  BY <1>0, <1>1, <1>2, InHand
<1>4. g.copy \in Worklist /\ SameScopes(g.copy, w)
  BY <1>0, <1>3 DEF Hand, HandOK
<1>5. PICK u : u = UpdateEntry(g.copy, Current(k), st)
  OBVIOUS
<1>6. u \in Worklist /\ SameScopes(u, g.copy)
  BY <1>4, <1>5, UpdateKeepsScopes
<1>7. SameScopes(u, w)
  BY <1>4, <1>6 DEF SameScopes
<1>8. worklist' = [worklist EXCEPT ![g.prop] = u]
  BY <1>0, <1>5 DEF Mark
<1>9. QED
  BY <1>1, <1>3, <1>6, <1>7, <1>8, RecordsStay

\* The entry is claimed.
LEMMA ClaimOK ==
  ASSUME Inv, NEW k \in Session, Claim(k)
  PROVE  Inv'
<1>0. PICK g : g = session[k]
  OBVIOUS
<1>1. PICK w : w = opened[g.prop]
  OBVIOUS
<1>2. g.at = "claim" /\ session[k].at # "idle"
  BY <1>0 DEF Claim, At
<1>3. /\ g \in Hand /\ g.prop \in Id /\ g.prop <= opens /\ g.i \in DOMAIN w
      /\ HandOK(g, w, existing, version, built, moved[k])
  BY <1>0, <1>1, <1>2, InHand
<1>4. PICK h : h = [g EXCEPT !.at = "regen"]
  OBVIOUS
<1>5. session' = [session EXCEPT ![k] = h]
  BY <1>0, <1>4 DEF Claim, Goto
<1>6. h \in Hand /\ h.at = "regen" /\ h.prop = g.prop /\ h.i = g.i
  BY <1>3, <1>4 DEF Hand, Step
<1>7. HandOK(h, opened[h.prop], existing, version, built, moved[k])
  BY <1>1, <1>2, <1>3, <1>6 DEF HandOK, BehindFresh, Behind
<1>8. worklist' \in [Id -> Worklist] /\ \A p \in Id : SameScopes(worklist'[p], opened[p])
  BY <1>0, <1>2, MarkOK DEF Claim, EntryStatus
<1>9. UNCHANGED <<bodies, source, opened, atHead, written, opens, edits, fails, crashes, repeats>>
  BY DEF Claim, counters
<1>10. QED
  BY <1>1, <1>3, <1>5, <1>6, <1>7, <1>8, <1>9, RecordsStay, QuietStep

\* The outcome goes into the record.
LEMMA SettleOK ==
  ASSUME Inv, NEW k \in Session, Settle(k)
  PROVE  Inv'
<1>0. PICK g : g = session[k]
  OBVIOUS
<1>1. PICK w : w = opened[g.prop]
  OBVIOUS
<1>2. g.at = "settle" /\ session[k].at # "idle"
  BY <1>0 DEF Settle, At
<1>3. /\ g \in Hand /\ g.prop \in Id /\ g.prop <= opens
      /\ HandOK(g, w, existing, version, built, moved[k])
  BY <1>0, <1>1, <1>2, InHand
<1>4. PICK h : h = [g EXCEPT !.at = "pick", !.failed = 0]
  OBVIOUS
<1>5. session' = [session EXCEPT ![k] = h]
  BY <1>0, <1>4 DEF Settle
<1>6. h \in Hand /\ h.at = "pick" /\ h.prop = g.prop /\ h.i = g.i
  BY <1>3, <1>4 DEF Hand, Step
<1>7. HandOK(h, opened[h.prop], existing, version, built, moved[k])
  BY <1>1, <1>2, <1>3, <1>6 DEF HandOK, BehindFresh, Behind
<1>8. worklist' \in [Id -> Worklist] /\ \A p \in Id : SameScopes(worklist'[p], opened[p])
  <2>1. g.to \in EntryStatus /\ Mark(k, g.to) /\ session[k].at \in {"claim", "settle"}
    BY <1>0, <1>2, <1>3 DEF Hand, Settle
  <2>2. QED
    BY <2>1, MarkOK
<1>9. UNCHANGED <<bodies, source, opened, atHead, written, opens, edits, fails, crashes, repeats>>
  BY DEF Settle, counters
<1>10. QED
  BY <1>1, <1>3, <1>5, <1>6, <1>7, <1>8, <1>9, RecordsStay, QuietStep

\* The record is read again before the outcome goes in.
LEMMA ReportOK ==
  ASSUME Inv, NEW k \in Session, Report(k)
  PROVE  Inv'
<1>0. PICK g : g = session[k]
  OBVIOUS
<1>1. PICK w : w = opened[g.prop]
  OBVIOUS
<1>2. g.at = "report" /\ session[k].at # "idle"
  BY <1>0 DEF Report, At
<1>3. /\ g \in Hand /\ g.prop \in Id /\ g.prop <= opens /\ g.i \in DOMAIN w
      /\ HandOK(g, w, existing, version, built, moved[k])
      /\ SameScopes(worklist[g.prop], w)
  BY <1>0, <1>1, <1>2, InHand
<1>4. PICK h : h = [g EXCEPT !.at = "settle", !.copy = worklist[g.prop]]
  OBVIOUS
<1>5. session' = [session EXCEPT ![k] = h]
  BY <1>0, <1>4 DEF Report
<1>6. worklist \in [Id -> Worklist]
  BY RecordsStay
<1>7. /\ h \in Hand /\ h.at = "settle" /\ h.prop = g.prop /\ h.i = g.i
      /\ h.copy = worklist[g.prop]
  BY <1>3, <1>4, <1>6 DEF Hand, Step
<1>8. HandOK(h, opened[h.prop], existing, version, built, moved[k])
  BY <1>1, <1>2, <1>3, <1>7 DEF HandOK, BehindFresh, Behind
<1>9. UNCHANGED <<bodies, source, opened, atHead, written, opens, worklist,
                  edits, fails, crashes, repeats>>
  BY DEF Report, record, counters
<1>10. QED
  BY <1>1, <1>3, <1>5, <1>7, <1>8, <1>9, RecordsStay, QuietStep

\* A scope that is gone need not be fresh.
LEMMA VanishedOK ==
  ASSUME Inv, NEW k \in Session, Vanished(k)
  PROVE  Inv'
<1>0. PICK g : g = session[k]
  OBVIOUS
<1>1. PICK w : w = opened[g.prop]
  OBVIOUS
<1>2. g.at = "regen" /\ session[k].at # "idle"
  BY <1>0 DEF Vanished, At
<1>3. /\ g \in Hand /\ g.prop \in Id /\ g.prop <= opens /\ g.i \in DOMAIN w
      /\ HandOK(g, w, existing, version, built, moved[k]) /\ Plan(k) = w
  BY <1>0, <1>1, <1>2, InHand
<1>4. PICK h : h = [g EXCEPT !.at = "report", !.to = "skipped"]
  OBVIOUS
<1>5. session' = [session EXCEPT ![k] = h]
  BY <1>0, <1>4 DEF Vanished
<1>6. h \in Hand /\ h.at = "report" /\ h.prop = g.prop /\ h.i = g.i
  BY <1>3, <1>4 DEF Hand, Step, EntryStatus, Terminal
<1>7. w[g.i].scope \notin existing
  BY <1>0, <1>3 DEF Vanished, Current
<1>8. Behind(h, w) \subseteq Behind(g, w) \cup {g.i}
  BY <1>6 DEF Behind
<1>9. HandOK(h, opened[h.prop], existing, version, built, moved[k])
  BY <1>1, <1>2, <1>3, <1>6, <1>7, <1>8 DEF HandOK, BehindFresh
<1>10. UNCHANGED <<bodies, source, opened, atHead, written, opens, worklist,
                   edits, fails, crashes, repeats>>
  BY DEF Vanished, record, counters
<1>11. QED
  BY <1>1, <1>3, <1>5, <1>6, <1>9, <1>10, RecordsStay, QuietStep

\* A session that lets go of all it has in hand.
LEMMA StopOK ==
  ASSUME Inv, NEW k \in Session, Stop(k),
         UNCHANGED <<bodies, record, written, opens>>,
         edits' \in Nat, fails' \in Nat, crashes' \in Nat, repeats' \in Nat
  PROVE  Inv'
<1>1. PICK h : h = Idle
  OBVIOUS
<1>2. h \in Hand /\ h.at = "idle" /\ session' = [session EXCEPT ![k] = h]
  BY <1>1, IdleIsHand DEF Stop
<1>3. HandOK(h, opened[h.prop], existing, version, built, moved[k])
  BY <1>2, IdleHandOK
<1>4. UNCHANGED <<bodies, source, opened, atHead, written, opens, worklist>>
  BY DEF record
<1>5. QED
  BY <1>2, <1>3, <1>4, RecordsStay, QuietStep

\* A session ends, or dies, with the record as it is.
LEMMA StopsOK ==
  ASSUME Inv, NEW k \in Session, Finish(k) \/ Crash(k)
  PROVE  Inv'
BY StopOK, RecordsStay DEF Finish, Crash, counters

\* A failure leaves the entry as it was claimed.
LEMMA RegenFailsOK ==
  ASSUME Inv, NEW k \in Session, RegenFails(k)
  PROVE  Inv'
<1>0. PICK g : g = session[k]
  OBVIOUS
<1>1. PICK w : w = opened[g.prop]
  OBVIOUS
<1>2. g.at = "regen" /\ session[k].at # "idle"
  BY <1>0 DEF RegenFails, At
<1>3. /\ UNCHANGED <<bodies, record, written, opens, edits, crashes, repeats>>
      /\ edits' \in Nat /\ fails' \in Nat /\ crashes' \in Nat /\ repeats' \in Nat
  BY RecordsStay DEF RegenFails
<1>4. CASE g.failed = MaxTries - 1
  <2>1. Stop(k)
    BY <1>0, <1>4 DEF RegenFails
  <2>2. QED
    BY <1>3, <2>1, StopOK
<1>5. CASE g.failed # MaxTries - 1
  <2>1. /\ g \in Hand /\ g.prop \in Id /\ g.prop <= opens /\ g.i \in DOMAIN w
        /\ HandOK(g, w, existing, version, built, moved[k])
    BY <1>0, <1>1, <1>2, InHand
  <2>2. PICK h : h = [g EXCEPT !.failed = g.failed + 1]
    OBVIOUS
  <2>3. session' = [session EXCEPT ![k] = h]
    BY <1>0, <1>5, <2>2 DEF RegenFails
  <2>4. h \in Hand /\ h.at = "regen" /\ h.prop = g.prop /\ h.i = g.i
    BY <1>2, <2>1, <2>2 DEF Hand
  <2>5. HandOK(h, opened[h.prop], existing, version, built, moved[k])
    BY <1>1, <1>2, <2>1, <2>4 DEF HandOK, BehindFresh, Behind
  <2>6. UNCHANGED <<bodies, source, opened, atHead, written, opens, worklist>>
    BY <1>3 DEF record
  <2>7. QED
    BY <1>1, <1>3, <2>1, <2>3, <2>4, <2>5, <2>6, RecordsStay, QuietStep
<1>6. QED
  BY <1>4, <1>5

\* A resumed drain has nothing behind it.
LEMMA ResumeOK ==
  ASSUME Inv, NEW k \in Session, NEW p \in Id, Resume(k, p)
  PROVE  Inv'
<1>1. PICK h : h = [Idle EXCEPT !.at = "pick", !.prop = p]
  OBVIOUS
<1>2. session' = [session EXCEPT ![k] = h]
  BY <1>1 DEF Resume
<1>3. h \in Hand /\ h.at = "pick" /\ h.prop = p /\ h.i = 0
  BY <1>1, IdleIsHand DEF Hand, Step
<1>4. p <= opens /\ opened[p] \in Worklist
  BY DEF Resume, Inv, TypeOK
<1>5. Behind(h, opened[p]) = {}
  <2>1. DOMAIN opened[p] = 1 .. Len(opened[p]) /\ Len(opened[p]) \in Nat
    BY <1>4 DEF Worklist
  <2>2. QED
    BY <1>3, <2>1 DEF Behind
<1>6. HandOK(h, opened[h.prop], existing, version, built, moved'[k])
  BY <1>3, <1>5 DEF HandOK, BehindFresh
<1>7. /\ UNCHANGED <<bodies, source, opened, touched, opens, worklist, atHead>>
      /\ edits' \in Nat /\ fails' \in Nat /\ crashes' \in Nat /\ repeats' \in Nat
      /\ moved' = [moved EXCEPT ![k] = {}]
  BY RecordsStay DEF Resume, record
<1>8. /\ moved' \in [Session -> SUBSET Scope]
      /\ \A j \in Session : j # k => moved'[j] = moved[j]
      /\ atHead' \subseteq Id /\ \A q \in atHead' : q <= opens
  BY <1>7 DEF Inv, TypeOK
<1>9. QED
  BY <1>2, <1>3, <1>4, <1>6, <1>7, <1>8, RecordsStay, TakesInHand

\* The scope is rewritten against what is there: nothing behind the session
\* lies below it, and the other sessions know of the write.
LEMMA RegenerateOK ==
  ASSUME Inv, NEW k \in Session, Regenerate(k)
  PROVE  Inv'
<1>0. PICK g, e, v, b : g = session[k] /\ e = existing /\ v = version /\ b = built
  OBVIOUS
<1>1. PICK w : w = opened[g.prop]
  OBVIOUS
<1>2. g.at = "regen" /\ session[k].at # "idle"
  BY <1>0 DEF Regenerate, At
<1>3. /\ g \in Hand /\ g.prop \in Id /\ g.prop <= opens /\ g.i \in DOMAIN w
      /\ w \in Worklist /\ HandOK(g, w, e, v, b, moved[k]) /\ Plan(k) = w
      /\ \A i \in DOMAIN w : w[i].scope \in Scope
      /\ DOMAIN w \subseteq Nat \ {0}
  BY <1>0, <1>1, <1>2, InHand
<1>4. PICK s : s = w[g.i].scope
  OBVIOUS
<1>5. /\ s \in Scope /\ s \in e /\ Current(k) = s
      /\ v \in [Scope -> Nat] /\ b \in [Scope -> [Scope -> Nat]]
  BY <1>0, <1>3, <1>4 DEF Regenerate, Current, Inv, TypeOK
<1>6. PICK v2, b2 : v2 = [v EXCEPT ![s] = @ + 1] /\ b2 = [b EXCEPT ![s] = v]
  OBVIOUS
<1>7. version' = v2 /\ built' = b2 /\ existing' = e
  BY <1>0, <1>5, <1>6 DEF Regenerate, Write
<1>8. PICK h : h = [g EXCEPT !.at = "report", !.to = "done"]
  OBVIOUS
<1>9. \A j \in Session : session'[j] = IF j = k THEN h ELSE session[j]
  BY <1>0, <1>8 DEF Regenerate, Inv, TypeOK
<1>10. h \in Hand /\ h.at = "report" /\ h.prop = g.prop /\ h.i = g.i
  BY <1>3, <1>8 DEF Hand, Step, EntryStatus, Terminal
<1>11. /\ UNCHANGED <<source, opened, worklist, atHead, touched, opens>>
       /\ \A j \in Session : moved'[j] = IF j = k THEN moved[j] ELSE moved[j] \cup {s}
       /\ moved' \in [Session -> SUBSET Scope]
  <2>1. moved' = [j \in Session |-> IF j = k THEN moved[j] ELSE moved[j] \cup {s}]
    BY <1>5 DEF Regenerate
  <2>2. QED
    BY <1>5, <2>1 DEF Regenerate, record, counters, Inv, TypeOK
<1>12. HandOK(h, w, e, v2, b2, moved[k])
  <2>1. PICK m : m = moved[k]
    OBVIOUS
  <2>2. ASSUME NEW i \in Behind(h, w), w[i].scope \in e
        PROVE  FreshIn(e, v2, b2, m, w[i].scope)
    <3>1. PICK t : t = w[i].scope
      OBVIOUS
    <3>2. i \in DOMAIN w /\ i <= g.i /\ t \in Scope /\ (i < g.i \/ i = g.i)
      BY <1>3, <1>10, <2>2, <3>1 DEF Behind, Hand
    <3>3. t = s \/ FreshIn(e, v, b, m, t)
      <4>1. CASE i = g.i
        BY <1>4, <3>1, <4>1
      <4>2. CASE i < g.i
        <5>1. i \in Behind(g, w)
          BY <3>2, <4>2 DEF Behind
        <5>2. QED
          BY <1>2, <1>3, <2>1, <2>2, <3>1, <5>1 DEF HandOK, BehindFresh
      <4>3. QED
        BY <3>2, <4>1, <4>2
    <3>4. s \notin Ancestors(t)
      <4>1. CASE i = g.i
        BY <1>4, <1>5, <3>1, <4>1, AncestorsRank
      <4>2. CASE i < g.i
        <5>1. Rank(t) <= Rank(s)
          BY <1>1, <1>3, <1>4, <3>1, <3>2, <4>2 DEF Inv, ListInv
        <5>2. QED
          BY <1>5, <3>2, <5>1, AncestorsRank
      <4>3. QED
        BY <3>2, <4>1, <4>2
    <3>5. FreshIn(e, v2, b2, m, t)
      <4>1. Rewrites(s, v, b, v2, b2)
        BY <1>6 DEF Rewrites
      <4>2. e \subseteq e \cup {s} /\ m \subseteq m
        OBVIOUS
      <4>3. QED
        BY <1>5, <3>2, <3>3, <3>4, <4>1, <4>2, WriteKeepsOne
    <3>6. QED
      BY <3>1, <3>5
  <2>3. QED
    BY <1>10, <2>1, <2>2 DEF HandOK, BehindFresh
<1>13. HandsOK'
  <2>1. ASSUME NEW j \in Session
        PROVE  /\ session'[j].at # "idle" => session'[j].prop <= opens'
               /\ HandOK(session'[j], opened'[session'[j].prop], existing', version',
                         built', moved'[j])
    <3>1. CASE j = k
      BY <1>1, <1>3, <1>7, <1>9, <1>10, <1>11, <1>12, <3>1
    <3>2. CASE j # k
      <4>1. PICK a, m, x : a = session[j] /\ m = moved[j] /\ x = opened[session[j].prop]
        OBVIOUS
      <4>2. CASE a.at = "idle"
        BY <1>9, <3>2, <4>1, <4>2, IdleHandOK
      <4>3. CASE a.at # "idle"
        <5>1. x \in Worklist /\ a.prop <= opens /\ HandOK(a, x, e, v, b, m)
          BY <1>0, <4>1, <4>3, InHand
        <5>2. FreshKept(e, v, b, m, e, v2, b2, m \cup {s})
          BY <1>5, <1>6, WriteKeepsFresh DEF Rewrites
        <5>3. HandOK(a, x, e, v2, b2, m \cup {s})
          BY <5>1, <5>2, SameHand
        <5>4. QED
          BY <1>7, <1>9, <1>11, <3>2, <4>1, <5>1, <5>3
      <4>4. QED
        BY <4>2, <4>3
    <3>3. QED
      BY <3>1, <3>2
  <2>2. QED
    BY <2>1 DEF HandsOK
<1>14. TypeOK'
  <2>1. session' \in [Session -> Hand]
    BY <1>0, <1>8, <1>10 DEF Regenerate, Inv, TypeOK
  <2>2. ASSUME NEW j \in Session
        PROVE  /\ session'[j].at # "idle" => session'[j].prop \in Id
               /\ session'[j].at \in {"claim", "regen", "report", "settle"}
                    => session'[j].i \in DOMAIN opened[session'[j].prop]
    BY <1>1, <1>3, <1>9, <1>10 DEF Inv, TypeOK, At, Plan
  <2>3. version' \in [Scope -> Nat] /\ built' \in [Scope -> [Scope -> Nat]]
    BY <1>5, <1>6, <1>7
  <2>4. opens' \in Nat /\ edits' \in Nat /\ fails' \in Nat /\ crashes' \in Nat /\ repeats' \in Nat
    BY RecordsStay DEF Regenerate, counters
  <2>5. QED
    BY <1>0, <1>7, <1>11, <2>1, <2>2, <2>3, <2>4 DEF Inv, TypeOK, At, Plan
<1>15. \A p \in Id : ListInv(p)'
  BY <1>0, <1>7, <1>11 DEF Inv, ListInv
<1>16. QED
  BY <1>11, <1>13, <1>14, <1>15 DEF Inv

---------------------------------------------------------------------------
(* Steps of others *)

\* The hands of all sessions stay in order through a step that is none of theirs.
LEMMA HandsStay ==
  ASSUME Inv, UNCHANGED <<session, opened, opens>>,
         NEW s \in Scope,
         \/ UNCHANGED <<version, built>> /\ existing' \subseteq existing
              /\ \A k \in Session : moved[k] \subseteq moved'[k]
         \/ Write(s) /\ existing' \subseteq existing \cup {s}
              /\ \A k \in Session : moved[k] \cup {s} \subseteq moved'[k]
  PROVE  HandsOK'
<1>1. SUFFICES ASSUME NEW k \in Session, session[k].at # "idle"
               PROVE  HandOK(session[k], opened[session[k].prop], existing', version',
                             built', moved'[k])
  <2>1. \A k \in Session : session[k].at # "idle" => session[k].prop <= opens
    BY DEF Inv, HandsOK
  <2>2. ASSUME NEW k \in Session, session[k].at = "idle"
        PROVE  HandOK(session[k], opened[session[k].prop], existing', version',
                      built', moved'[k])
    BY <2>2, IdleHandOK
  <2>3. QED
    BY <1>1, <2>1, <2>2 DEF HandsOK
<1>2. PICK a, m, x : a = session[k] /\ m = moved[k] /\ x = opened[session[k].prop]
  OBVIOUS
<1>3. PICK e, v, b : e = existing /\ v = version /\ b = built
  OBVIOUS
<1>4. PICK e2, v2, b2, n : e2 = existing' /\ v2 = version' /\ b2 = built' /\ n = moved'[k]
  OBVIOUS
<1>5. /\ x \in Worklist /\ HandOK(a, x, e, v, b, m)
      /\ v \in [Scope -> Nat] /\ b \in [Scope -> [Scope -> Nat]]
  BY <1>1, <1>2, <1>3, InHand DEF Inv, TypeOK
<1>6. FreshKept(e, v, b, m, e2, v2, b2, n)
  <2>1. CASE v2 = v /\ b2 = b /\ e2 \subseteq e /\ m \subseteq n
    BY <2>1, NoWriteKeepsFresh
  <2>2. CASE /\ v2 = [v EXCEPT ![s] = @ + 1] /\ b2 = [b EXCEPT ![s] = v]
             /\ e2 \subseteq e \cup {s} /\ m \subseteq n /\ s \in n
    BY <1>5, <2>2, WriteKeepsFresh DEF Rewrites
  <2>3. QED
    BY <1>2, <1>3, <1>4, <2>1, <2>2 DEF Write
<1>7. HandOK(a, x, e2, v2, b2, n)
  BY <1>5, <1>6, SameHand
<1>8. QED
  BY <1>2, <1>4, <1>7

\* The types of all that a step of others can leave alone.
LEMMA TypesStay ==
  ASSUME Inv, UNCHANGED <<record, session>>,
         existing' \subseteq Scope, version' \in [Scope -> Nat],
         built' \in [Scope -> [Scope -> Nat]],
         touched' \in [Id -> SUBSET Scope], moved' \in [Session -> SUBSET Scope],
         opens' \in Nat, edits' \in Nat, fails' \in Nat, crashes' \in Nat, repeats' \in Nat
  PROVE  TypeOK'
BY DEF Inv, TypeOK, record, At, Plan

\* A scope written by others is touched and known to have moved.
LEMMA EditOK ==
  ASSUME Inv, NEW s \in Scope, Edit(s)
  PROVE  Inv'
<1>1. /\ UNCHANGED <<record, session, opens, fails, crashes, repeats>> /\ edits' = edits + 1
      /\ Write(s) /\ existing' = existing \cup {s}
      /\ touched' = [p \in Id |-> touched[p] \cup {s}]
      /\ moved' = [k \in Session |-> moved[k] \cup {s}]
  BY DEF Edit
<1>2. /\ existing \subseteq Scope /\ version \in [Scope -> Nat]
      /\ built \in [Scope -> [Scope -> Nat]]
      /\ touched \in [Id -> SUBSET Scope] /\ moved \in [Session -> SUBSET Scope]
  BY DEF Inv, TypeOK
<1>3. version' \in [Scope -> Nat] /\ built' \in [Scope -> [Scope -> Nat]]
  BY <1>1, <1>2 DEF Write
<1>4. TypeOK'
  <2>1. /\ existing' \subseteq Scope
        /\ touched' \in [Id -> SUBSET Scope] /\ moved' \in [Session -> SUBSET Scope]
    BY <1>1, <1>2
  <2>2. QED
    BY <1>1, <1>3, <2>1, RecordsStay, TypesStay
<1>5. \A p \in Id : ListInv(p)'
  BY <1>1, <1>2 DEF Inv, ListInv, record
<1>6. HandsOK'
  <2>1. \A k \in Session : moved[k] \cup {s} \subseteq moved'[k]
    BY <1>1
  <2>2. QED
    BY <1>1, <2>1, HandsStay DEF record
<1>7. QED
  BY <1>1, <1>4, <1>5, <1>6 DEF Inv, record

\* A scope removed is touched.
LEMMA ResetOK ==
  ASSUME Inv, NEW s \in Scope, Reset(s)
  PROVE  Inv'
<1>1. /\ UNCHANGED <<record, session, opens, fails, crashes, repeats, version, built, moved>>
      /\ existing' = existing \ {s} /\ s \in existing /\ edits' = edits + 1
      /\ touched' = [p \in Id |-> touched[p] \cup {s}]
  BY DEF Reset
<1>2. /\ existing \subseteq Scope /\ version \in [Scope -> Nat]
      /\ built \in [Scope -> [Scope -> Nat]]
      /\ touched \in [Id -> SUBSET Scope] /\ moved \in [Session -> SUBSET Scope]
  BY DEF Inv, TypeOK
<1>3. TypeOK'
  <2>1. /\ existing' \subseteq Scope
        /\ touched' \in [Id -> SUBSET Scope] /\ moved' \in [Session -> SUBSET Scope]
        /\ version' \in [Scope -> Nat] /\ built' \in [Scope -> [Scope -> Nat]]
    BY <1>1, <1>2
  <2>2. QED
    BY <1>1, <2>1, RecordsStay, TypesStay
<1>4. \A p \in Id : ListInv(p)'
  BY <1>1, <1>2 DEF Inv, ListInv, record
<1>5. HandsOK'
  BY <1>1, HandsStay DEF record
<1>6. QED
  BY <1>1, <1>3, <1>4, <1>5 DEF Inv, record

\* What was not committed is gone; what was is as it was opened.
LEMMA RecloneOK ==
  ASSUME Inv, Reclone
  PROVE  Inv'
<1>1. /\ UNCHANGED <<bodies, atHead, written, opens, edits, fails, repeats>>
      /\ crashes' = crashes + 1
      /\ session' = [k \in Session |-> Idle]
      /\ source' = [p \in Id |-> IF p \in atHead THEN source[p] ELSE NoScope]
      /\ opened' = [p \in Id |-> IF p \in atHead THEN opened[p] ELSE << >>]
      /\ worklist' = [p \in Id |-> IF p \in atHead THEN opened[p] ELSE << >>]
  BY DEF Reclone
<1>2. << >> \in Worklist /\ DOMAIN << >> = {}
  BY DEF Worklist
<1>3. source' \in [Id -> Scope \cup {NoScope}] /\ opened' \in [Id -> Worklist]
      /\ worklist' \in [Id -> Worklist]
  BY <1>1, <1>2 DEF Inv, TypeOK
<1>4. session' \in [Session -> Hand] /\ \A k \in Session : session'[k].at = "idle"
  BY <1>1, IdleIsHand
<1>5. TypeOK'
  BY <1>1, <1>3, <1>4 DEF Inv, TypeOK, At, Plan, bodies, written
<1>6. ASSUME NEW p \in Id PROVE ListInv(p)'
  <2>1. CASE p \in atHead
    <3>1. /\ source'[p] = source[p] /\ opened'[p] = opened[p] /\ worklist'[p] = opened[p]
          /\ existing' = existing /\ touched' = touched /\ ListInv(p)
      BY <1>1, <2>1 DEF Inv, bodies, written
    <3>2. QED
      BY <3>1 DEF ListInv, SameScopes
  <2>2. CASE p \notin atHead
    <3>1. source'[p] = NoScope /\ DOMAIN opened'[p] = {} /\ DOMAIN worklist'[p] = {}
      BY <1>1, <1>2, <2>2
    <3>2. QED
      BY <3>1 DEF ListInv, SameScopes
  <2>3. QED
    BY <2>1, <2>2
<1>7. HandsOK'
  BY <1>4, IdleHandOK DEF HandsOK
<1>8. QED
  BY <1>1, <1>5, <1>6, <1>7 DEF Inv

\* A new record lists what is there below its source.
LEMMA OpenOK ==
  ASSUME Inv, NEW k \in Session, NEW src \in Scope, Open(k, src)
  PROVE  Inv'
<1>0. PICK p : p = opens + 1
  OBVIOUS
<1>1. PICK w \in Downstream(src) :
        /\ opened' = [opened EXCEPT ![p] = w]
        /\ worklist' = [worklist EXCEPT ![p] = w]
  BY <1>0 DEF Open
<1>2. /\ source' = [source EXCEPT ![p] = src]
      /\ session' = [session EXCEPT ![k] = [Idle EXCEPT !.at = "commit", !.prop = p]]
      /\ touched' = [touched EXCEPT ![p] = {}]
      /\ moved' = [moved EXCEPT ![k] = {}]
      /\ opens' = opens + 1 /\ opens < MaxOpens
      /\ UNCHANGED <<bodies, atHead, edits, fails, crashes, repeats>>
  BY <1>0 DEF Open
<1>3. /\ w \in Worklist
      /\ \A i \in DOMAIN w : /\ w[i].status = "pending" /\ w[i].scope \in existing
                             /\ IsDownstream(w[i].scope, src)
      /\ \A i, j \in DOMAIN w : i < j => /\ w[i].scope # w[j].scope
                                         /\ Rank(w[i].scope) <= Rank(w[j].scope)
      /\ \A s \in existing : IsDownstream(s, src) => \E i \in DOMAIN w : w[i].scope = s
  <2>1. existing \subseteq Scope
    BY DEF Inv, TypeOK
  <2>2. QED
    BY <2>1, DownstreamListsAll
<1>4. p \in Id /\ opens \in Nat /\ opens <= opens' /\ ~ (p <= opens)
  BY <1>0, <1>2, RecordsStay, BoundsAssumption DEF Id
<1>5. PICK h : h = [Idle EXCEPT !.at = "commit", !.prop = p]
  OBVIOUS
<1>6. h \in Hand /\ h.at = "commit" /\ h.prop = p /\ h.i = 0
  BY <1>4, <1>5, IdleIsHand DEF Hand, Step
<1>7. \A j \in Session : session'[j] = IF j = k THEN h ELSE session[j]
  BY <1>2, <1>5 DEF Inv, TypeOK
<1>8. /\ opened \in [Id -> Worklist] /\ worklist \in [Id -> Worklist]
      /\ source \in [Id -> Scope \cup {NoScope}] /\ touched \in [Id -> SUBSET Scope]
      /\ moved \in [Session -> SUBSET Scope] /\ session \in [Session -> Hand]
  BY DEF Inv, TypeOK
<1>9. TypeOK'
  <2>1. /\ opened' \in [Id -> Worklist] /\ worklist' \in [Id -> Worklist]
        /\ source' \in [Id -> Scope \cup {NoScope}] /\ touched' \in [Id -> SUBSET Scope]
        /\ moved' \in [Session -> SUBSET Scope] /\ session' \in [Session -> Hand]
    BY <1>1, <1>2, <1>3, <1>5, <1>6, <1>8
  <2>2. ASSUME NEW j \in Session
        PROVE  /\ session'[j].at # "idle" => session'[j].prop \in Id
               /\ session'[j].at \in {"claim", "regen", "report", "settle"}
                    => session'[j].i \in DOMAIN opened'[session'[j].prop]
    <3>1. CASE j = k
      BY <1>4, <1>6, <1>7, <3>1
    <3>2. CASE j # k
      <4>1. /\ session'[j] = session[j]
            /\ session[j].at # "idle" => session[j].prop \in Id /\ session[j].prop # p
        BY <1>4, <1>7, <3>2 DEF Inv, TypeOK, HandsOK, At
      <4>2. session[j].at \in {"claim", "regen", "report", "settle"}
              => session[j].i \in DOMAIN opened[session[j].prop]
        BY DEF Inv, TypeOK, Plan
      <4>3. QED
        BY <1>1, <1>8, <4>1, <4>2
    <3>3. QED
      BY <3>1, <3>2
  <2>3. /\ existing' \subseteq Scope /\ version' \in [Scope -> Nat]
        /\ built' \in [Scope -> [Scope -> Nat]] /\ atHead' \subseteq Id
        /\ opens' \in Nat /\ edits' \in Nat /\ fails' \in Nat /\ crashes' \in Nat /\ repeats' \in Nat
    BY <1>2 DEF Inv, TypeOK, bodies
  <2>4. QED
    BY <2>1, <2>2, <2>3 DEF TypeOK, At, Plan
<1>10. ASSUME NEW q \in Id PROVE ListInv(q)'
  <2>1. CASE q = p
    <3>1. /\ opened'[q] = w /\ worklist'[q] = w /\ source'[q] = src /\ touched'[q] = {}
          /\ existing' = existing /\ src # NoScope
      BY <1>1, <1>2, <1>4, <1>8, <2>1, NoScopeAssumption DEF bodies
    <3>2. QED
      BY <1>3, <3>1 DEF ListInv, SameScopes
  <2>2. CASE q # p
    <3>1. /\ opened'[q] = opened[q] /\ worklist'[q] = worklist[q] /\ source'[q] = source[q]
          /\ touched'[q] = touched[q] /\ existing' = existing /\ ListInv(q)
      BY <1>1, <1>2, <1>8, <2>2 DEF Inv, bodies
    <3>2. QED
      BY <3>1 DEF ListInv
  <2>3. QED
    BY <2>1, <2>2
<1>11. HandsOK'
  <2>1. ASSUME NEW j \in Session
        PROVE  /\ session'[j].at # "idle" => session'[j].prop <= opens'
               /\ HandOK(session'[j], opened'[session'[j].prop], existing', version',
                         built', moved'[j])
    <3>1. CASE j = k
      <4>1. opened'[p] = w /\ Behind(h, w) = {}
        <5>1. DOMAIN w \subseteq Nat \ {0}
          <6>1. DOMAIN w = 1 .. Len(w) /\ Len(w) \in Nat
            BY <1>3 DEF Worklist
          <6>2. QED
            BY <6>1
        <5>2. QED
          BY <1>1, <1>4, <1>6, <1>8, <5>1 DEF Behind
      <4>2. HandOK(h, w, existing', version', built', moved'[j])
        BY <1>6, <4>1 DEF HandOK, BehindFresh
      <4>3. h.prop <= opens'
        BY <1>0, <1>2, <1>4, <1>6
      <4>4. QED
        BY <1>6, <1>7, <3>1, <4>1, <4>2, <4>3
    <3>2. CASE j # k
      <4>1. CASE session[j].at = "idle"
        BY <1>7, <3>2, <4>1, IdleHandOK
      <4>2. CASE session[j].at # "idle"
        <5>1. session[j].prop \in Id /\ session[j].prop <= opens /\ session[j].prop # p
          BY <1>4, <4>2 DEF Inv, TypeOK, HandsOK, At
        <5>2. /\ session'[j] = session[j] /\ opened'[session[j].prop] = opened[session[j].prop]
              /\ moved'[j] = moved[j]
              /\ existing' = existing /\ version' = version /\ built' = built
          BY <1>1, <1>2, <1>7, <1>8, <3>2, <5>1 DEF bodies
        <5>3. HandOK(session[j], opened[session[j].prop], existing, version, built, moved[j])
          BY DEF Inv, HandsOK
        <5>4. session[j].prop <= opens'
          BY <1>2, <1>4, <5>1 DEF Id
        <5>5. QED
          BY <5>2, <5>3, <5>4
      <4>3. QED
        BY <4>1, <4>2
    <3>3. QED
      BY <3>1, <3>2
  <2>2. QED
    BY <2>1 DEF HandsOK
<1>12. \A q \in atHead' : q <= opens'
  BY <1>2, <1>4 DEF Inv, TypeOK, Id
<1>13. QED
  BY <1>9, <1>10, <1>11, <1>12 DEF Inv

---------------------------------------------------------------------------
(* Every step *)

\* Nothing is open at first.
LEMMA InitOK == Init => Inv
<1>1. SUFFICES ASSUME Init PROVE Inv
  OBVIOUS
<1>2. << >> \in Worklist /\ DOMAIN << >> = {}
  BY DEF Worklist
<1>3. \A k \in Session : session[k] = Idle
  BY <1>1 DEF Init
<1>4. TypeOK
  BY <1>1, <1>2, <1>3, IdleIsHand DEF Init, TypeOK, At
<1>5. \A p \in Id : ListInv(p)
  BY <1>1, <1>2 DEF Init, ListInv, SameScopes
<1>6. HandsOK
  BY <1>3, IdleIsHand, IdleHandOK DEF HandsOK
<1>7. QED
  BY <1>1, <1>4, <1>5, <1>6 DEF Init, Inv

\* Every step keeps the invariant.
LEMMA StepOK ==
  ASSUME Inv, [Next]_vars
  PROVE  Inv'
<1>1. ASSUME NEW k \in Session, Drain(k) PROVE Inv'
  BY <1>1, CommitOK, PickOK, StopsOK, ClaimOK, RegenerateOK, VanishedOK, ReportOK, SettleOK
     DEF Drain
<1>2. ASSUME NEW k \in Session, RegenFails(k) \/ Crash(k) PROVE Inv'
  BY <1>2, RegenFailsOK, StopsOK
<1>3. ASSUME NEW k \in Session, NEW p \in Id, Resume(k, p) PROVE Inv'
  BY <1>3, ResumeOK
<1>4. ASSUME NEW k \in Session, NEW s \in Scope, Open(k, s) PROVE Inv'
  BY <1>4, OpenOK
<1>5. ASSUME NEW s \in Scope, Edit(s) \/ Reset(s) PROVE Inv'
  BY <1>5, EditOK, ResetOK
<1>6. CASE UNCHANGED vars
  BY <1>6 DEF vars, bodies, record, written, counters, Inv, TypeOK, ListInv, HandsOK, At, Plan
<1>7. QED
  BY <1>1, <1>2, <1>3, <1>4, <1>5, <1>6, RecloneOK DEF Next

\* The invariant holds in every state, whatever the number of sessions.
LEMMA Invariance == Spec => []Inv
<1>1. Inv /\ [Next]_vars => Inv'
  BY StepOK
<1>2. QED
  BY <1>1, InitOK, PTL DEF Spec

---------------------------------------------------------------------------
(* What follows *)

\* Every variable keeps its type and what a session has in hand is an entry
\* of the propagation it drains.
THEOREM TypeCorrect == Spec => []TypeOK
<1>1. Inv => TypeOK
  BY DEF Inv
<1>2. QED
  BY <1>1, Invariance, PTL

\* A record in the tree lists the subtree of its source.
LEMMA SubtreeOK ==
  ASSUME Inv, NEW p \in Id, source[p] # NoScope
  PROVE  /\ \A i \in DOMAIN opened[p] : source[p] \in Ancestors(opened[p][i].scope)
         /\ \A s \in existing \ touched[p] :
              source[p] \in Ancestors(s) => \E i \in DOMAIN opened[p] : opened[p][i].scope = s
<1>1. PICK src, w : src = source[p] /\ w = opened[p]
  OBVIOUS
<1>2. src \in Scope /\ w \in Worklist /\ existing \subseteq Scope /\ ListInv(p)
  BY <1>1 DEF Inv, TypeOK
<1>3. \A i \in DOMAIN w : w[i].scope \in Scope /\ IsDownstream(w[i].scope, src)
  BY <1>1, <1>2, PositionsAreNumbers DEF ListInv
<1>4. \A i \in DOMAIN w : src \in Ancestors(w[i].scope)
  BY <1>2, <1>3, DownstreamIsBelow
<1>5. \A s \in existing : src \in Ancestors(s) => IsDownstream(s, src)
  BY <1>2, DownstreamIsBelow
<1>6. QED
  BY <1>1, <1>2, <1>4, <1>5 DEF ListInv

\* A worklist lists nothing but its source's subtree and all of it, but for
\* scopes that others created or removed.
THEOREM WorklistIsSubtreeHolds == Spec => []WorklistIsSubtree
<1>1. Inv => WorklistIsSubtree
  <2>1. SUFFICES ASSUME Inv, NEW p \in Id, source[p] # NoScope
                 PROVE  LET listed == {worklist[p][i].scope : i \in DOMAIN worklist[p]}
                        IN /\ \A s \in listed : source[p] \in Ancestors(s)
                           /\ \A s \in existing \ touched[p] :
                                source[p] \in Ancestors(s) => s \in listed
    BY DEF WorklistIsSubtree
  <2>2. SameScopes(worklist[p], opened[p])
    BY <2>1 DEF Inv, ListInv
  <2>3. QED
    BY <2>1, <2>2, SubtreeOK DEF SameScopes
<1>2. QED
  BY <1>1, Invariance, PTL

\* What a drain has passed.
LEMMA PassedOK == Inv => PassedIsFresh
<1>1. SUFFICES ASSUME Inv, NEW k \in Session, session[k].at # "idle",
                      NEW i \in Passed(k), Plan(k)[i].scope \in existing
               PROVE  Fresh(k, Plan(k)[i].scope)
  BY DEF PassedIsFresh, At
<1>2. PICK g, w : g = session[k] /\ w = opened[session[k].prop]
  OBVIOUS
<1>3. HandOK(g, w, existing, version, built, moved[k]) /\ Plan(k) = w
  BY <1>1, <1>2, InHand
<1>4. i \in Behind(g, w)
  BY <1>1, <1>2, <1>3 DEF Passed, Behind
<1>5. FreshIn(existing, version, built, moved[k], w[i].scope)
  BY <1>1, <1>2, <1>3, <1>4 DEF HandOK, BehindFresh
<1>6. QED
  BY <1>3, <1>5 DEF FreshIn, Fresh

\* Whatever number of sessions drain, die and are resumed, the scopes that a
\* drain has dealt with are fresh, but for what others wrote since it began.
THEOREM PassedIsFreshHolds == Spec => []PassedIsFresh
BY PassedOK, Invariance, PTL

\* A drain that is through has passed every entry.
LEMMA FinishedOK == Inv => FinishedIsFresh
<1>1. SUFFICES ASSUME Inv, NEW k \in Session, session[k].at = "pick", Left(k) = {},
                      NEW s \in existing \ touched[session[k].prop],
                      source[session[k].prop] \in Ancestors(s)
               PROVE  Fresh(k, s)
  BY DEF FinishedIsFresh, At
<1>2. PICK g, w : g = session[k] /\ w = opened[session[k].prop]
  OBVIOUS
<1>3. /\ g \in Hand /\ g.prop \in Id /\ Plan(k) = w
      /\ \A i \in DOMAIN w : w[i].status = "pending"
      /\ DOMAIN w \subseteq Nat \ {0}
  BY <1>1, <1>2, InHand
<1>4. source[g.prop] # NoScope
  BY <1>1, <1>2, NoScopeAssumption DEF Ancestors
<1>5. PICK i \in DOMAIN w : w[i].scope = s
  BY <1>1, <1>2, <1>3, <1>4, SubtreeOK
<1>6. ~ (i > g.i)
  BY <1>1, <1>2, <1>3 DEF Left, Terminal
<1>7. i \in Passed(k)
  BY <1>1, <1>2, <1>3, <1>6 DEF Passed, Hand
<1>8. QED
  BY <1>1, <1>3, <1>5, <1>7, PassedOK DEF PassedIsFresh, At

\* A drain that comes to its end has brought everything below the source up
\* to date, but for what others wrote meanwhile.
THEOREM FinishedIsFreshHolds == Spec => []FinishedIsFresh
BY FinishedOK, Invariance, PTL
=============================================================================
