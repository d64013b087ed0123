------------------------- MODULE Registration_proofs ------------------------
(* Registration and the reads of what was registered, for any number of     *)
(* checkouts, requests, readers, names and commits.                         *)
EXTENDS Registration, FiniteSetTheorems, SequenceTheorems, TLAPS

-----------------------------------------------------------------------------
(* The history of the remote *)

\* A sequence has its elements in its set.
LEMMA Elements ==
  ASSUME NEW S, NEW s \in Seq(S)
  PROVE  /\ Len(s) \in Nat /\ DOMAIN s = 1 .. Len(s)
         /\ \A i \in DOMAIN s : s[i] \in S
BY LenProperties, ElementOfSeq

\* What is appended comes last, and the rest stays where it is.
LEMMA Appended ==
  ASSUME NEW S, NEW s \in Seq(S), NEW e \in S
  PROVE  /\ Append(s, e) \in Seq(S)
         /\ Len(Append(s, e)) = Len(s) + 1
         /\ DOMAIN Append(s, e) = 1 .. Len(s) + 1
         /\ \A i \in DOMAIN s : Append(s, e)[i] = s[i]
         /\ Append(s, e)[Len(s) + 1] = e
BY AppendProperties, LenProperties

\* The remote's history is complete up to its end, and none of it came
\* before time began.
LEMMA CoversAll ==
  ASSUME ViewsTypeOK, NEW t
  PROVE  Covers(Len(main), t)
BY Elements DEF Covers, ViewsTypeOK

-----------------------------------------------------------------------------
(* A step of a read *)

LEMMA OpenViewStep ==
  ASSUME ViewsTypeOK, ViewsInv, UNCHANGED <<main, clock, booted>>,
         NEW r \in Reader, NEW p \in Path \cup {NoPath}, OpenView(r, p)
  PROVE  ViewsTypeOK' /\ ViewsInv'
<1>1. /\ reader \in [Reader -> Read] /\ clock \in Nat /\ clone \in Clone
      /\ main' = main /\ clock' = clock /\ clone' = clone /\ fetched' = fetched /\ lock' = lock
      /\ booted' = booted
  BY DEF ViewsTypeOK, OpenView
<1>2. reader'[r] \in Read /\ reader' \in [Reader -> Read]
  BY <1>1 DEF OpenView, NoRead, Read, ReadStep
<1>3. /\ reader'[r].at \in {"make", "fetch"} /\ reader'[r].began = clock
      /\ reader'[r].now = 0 /\ reader'[r].seen = 0
      /\ \A q \in Reader : q # r => reader'[q] = reader[q]
  BY <1>1 DEF OpenView, NoRead
<1>4. CloneInv'
  BY <1>1, <1>3 DEF ViewsInv, CloneInv, At
<1>5. ClockInv'
  BY <1>1, <1>3, Elements DEF ViewsInv, ViewsTypeOK, ClockInv
<1>6. FetchInv'
  BY <1>1, <1>3 DEF ViewsInv, FetchInv, Informed, Brings, Covers, Window, Awake, At
<1>7. QED
  BY <1>1, <1>2, <1>4, <1>5, <1>6 DEF ViewsTypeOK, ViewsInv

\* A read that goes on is still a read.
LEMMA ReadUpdate ==
  ASSUME NEW x \in Read, NEW a \in ReadStep, NEW n \in Nat, NEW o \in Nat, NEW s \in Nat, NEW h \in Nat
  PROVE  /\ [x EXCEPT !.at = a, !.now = n, !.old = o, !.seen = s] \in Read
         /\ [x EXCEPT !.at = a, !.seen = s] \in Read
         /\ [x EXCEPT !.at = a] \in Read /\ [x EXCEPT !.seen = s] \in Read
         /\ [x EXCEPT !.at = a, !.sha = h] \in Read
BY DEF Read

LEMMA ServeReadStep ==
  ASSUME ViewsTypeOK, ViewsInv, UNCHANGED <<main, clock, booted>>, NEW r \in Reader, ServeRead(r)
  PROVE  ViewsTypeOK' /\ ViewsInv'
<1>1. /\ reader \in [Reader -> Read] /\ clock \in Nat /\ clone \in Clone /\ fetched \in Int
      /\ lock \in Reader \cup {Nobody} /\ main' = main /\ clock' = clock
      /\ Debounce \in Nat \ {0} /\ main \in Seq(CommitRecord) /\ Len(main) \in Nat
      /\ booted \in Int /\ booted' = booted
  BY TimesAssumption, Elements DEF ViewsTypeOK
<1>2. CloneInv /\ ClockInv /\ FetchInv
  BY DEF ViewsInv
<1>3. NoRead \in Read /\ NoRead.at = "idle" /\ NoRead.began = 0 /\ NoRead.now = 0 /\ NoRead.seen = 0
  BY DEF NoRead, Read, ReadStep
<1>4. \A t : Covers(Len(main), t)
  BY CoversAll
<1>5. \A i \in DOMAIN main : i \in Nat /\ main[i].at \in Nat
  <2>1. \A i \in DOMAIN main : i \in Nat /\ main[i] \in CommitRecord
    BY <1>1, Elements
  <2>2. QED
    BY <2>1 DEF CommitRecord
<1>r. \A q \in Reader :
        /\ reader[q] \in Read
        /\ reader[q].began \in Nat /\ reader[q].now \in Nat /\ reader[q].old \in Nat
        /\ reader[q].seen \in Nat /\ reader[q].sha \in Nat
  BY <1>1 DEF Read
<1>c. clone.head \in Nat
  BY <1>1 DEF Clone
<1> USE DEF At
<1>6. CASE StartClone(r)
  <2>1. reader[r].at = "make" /\ clone.at = "none"
    BY <1>6 DEF StartClone
  <2>2. reader' \in [Reader -> Read] /\ \A q \in Reader : q # r => reader'[q] = reader[q]
    BY <1>1, <1>3, <1>r, <1>c, <1>6, ReadUpdate DEF StartClone, Goto, ReadStep
  <2>3. /\ reader'[r].at = "cloning" /\ reader'[r].began = reader[r].began /\ reader'[r].now = reader[r].now
        /\ reader'[r].old = reader[r].old /\ reader'[r].seen = reader[r].seen /\ reader'[r].sha = reader[r].sha
    BY <1>1, <1>3, <1>6 DEF StartClone, Goto, Read
  <2>4. /\ clone' \in Clone /\ clone'.at = "making" /\ clone'.head = clone.head
        /\ fetched' = fetched /\ lock' \in Reader \cup {Nobody} /\ fetched' \in Int
    BY <1>1, <1>6 DEF StartClone, Clone, Read
  <2>5. CloneInv'
    BY <1>1, <1>2, <2>1, <2>2, <2>3, <2>4 DEF CloneInv, ClockInv
  <2>6. ClockInv'
    <3>1. fetched' <= clock
      BY <1>2, <2>4 DEF ClockInv
    <3>2. \A q \in Reader : reader'[q].began <= clock /\ reader'[q].now <= clock /\ reader'[q].seen <= Len(main)
      BY <1>1, <1>2, <1>r, <2>2, <2>3 DEF ClockInv
    <3>3. QED
      BY <1>1, <1>2, <3>1, <3>2 DEF ClockInv
  <2>7. \A t \in Int : Brings(t) => Brings(t)'
    BY <1>1, <1>2, <1>4, <1>5, <1>r, <1>c, <2>1, <2>2, <2>3, <2>4 DEF FetchInv, CloneInv, Brings, Covers
  <2>8. (fetched = booted \/ Brings(fetched))'
    BY <1>1, <1>2, <1>4, <1>5, <1>r, <1>c, <2>1, <2>2, <2>3, <2>4, <2>7 DEF FetchInv, CloneInv, Brings, Covers
  <2>9. Informed(r)'
    BY <1>1, <1>2, <1>4, <1>5, <1>r, <1>c, <2>1, <2>2, <2>3, <2>4, <2>8 DEF FetchInv, Informed, CloneInv, ClockInv, Brings, Covers, Window, Awake
  <2>10. FetchInv'
    <3>1. ASSUME NEW q \in Reader, q # r PROVE Informed(q)'
      <4>1. reader'[q] = reader[q] /\ Window(q) \in Int /\ Informed(q)
        BY <1>1, <1>2, <1>r, <2>2, <3>1 DEF FetchInv, Window
      <4>2. QED
        BY <1>1, <2>7, <4>1 DEF Informed, Covers, Window, Awake
    <3>2. QED
      BY <2>8, <2>9, <3>1 DEF FetchInv
  <2>11. QED
    BY <1>1, <2>2, <2>4, <2>5, <2>6, <2>10 DEF ViewsTypeOK, ViewsInv
<1>7. CASE AskRemote(r)
  <2>1. reader[r].at = "cloning" /\ clone.at = "making"
    BY <1>7 DEF AskRemote
  <2>2. reader' \in [Reader -> Read] /\ \A q \in Reader : q # r => reader'[q] = reader[q]
    BY <1>1, <1>3, <1>r, <1>c, <1>7, ReadUpdate DEF AskRemote, ReadStep
  <2>3. /\ reader'[r].at = reader[r].at /\ reader'[r].began = reader[r].began /\ reader'[r].now = reader[r].now
        /\ reader'[r].old = reader[r].old /\ reader'[r].seen = Len(main) /\ reader'[r].sha = reader[r].sha
    BY <1>1, <1>3, <1>7 DEF AskRemote, Read
  <2>4. /\ clone' \in Clone /\ clone'.at = "filling" /\ clone'.head = clone.head
        /\ fetched' = fetched /\ lock' \in Reader \cup {Nobody} /\ fetched' \in Int
    BY <1>1, <1>7 DEF AskRemote, Clone, Read
  <2>5. CloneInv'
    BY <1>1, <1>2, <2>1, <2>2, <2>3, <2>4 DEF CloneInv, ClockInv
  <2>6. ClockInv'
    <3>1. fetched' <= clock
      BY <1>2, <2>4 DEF ClockInv
    <3>2. \A q \in Reader : reader'[q].began <= clock /\ reader'[q].now <= clock /\ reader'[q].seen <= Len(main)
      BY <1>1, <1>2, <1>r, <2>2, <2>3 DEF ClockInv
    <3>3. QED
      BY <1>1, <1>2, <3>1, <3>2 DEF ClockInv
  <2>7. \A t \in Int : Brings(t) => Brings(t)'
    BY <1>1, <1>2, <1>4, <1>5, <1>r, <1>c, <2>1, <2>2, <2>3, <2>4 DEF FetchInv, CloneInv, Brings, Covers
  <2>8. (fetched = booted \/ Brings(fetched))'
    BY <1>1, <1>2, <1>4, <1>5, <1>r, <1>c, <2>1, <2>2, <2>3, <2>4, <2>7 DEF FetchInv, CloneInv, Brings, Covers
  <2>9. Informed(r)'
    BY <1>1, <1>2, <1>4, <1>5, <1>r, <1>c, <2>1, <2>2, <2>3, <2>4, <2>8 DEF FetchInv, Informed, CloneInv, ClockInv, Brings, Covers, Window, Awake
  <2>10. FetchInv'
    <3>1. ASSUME NEW q \in Reader, q # r PROVE Informed(q)'
      <4>1. reader'[q] = reader[q] /\ Window(q) \in Int /\ Informed(q)
        BY <1>1, <1>2, <1>r, <2>2, <3>1 DEF FetchInv, Window
      <4>2. QED
        BY <1>1, <2>7, <4>1 DEF Informed, Covers, Window, Awake
    <3>2. QED
      BY <2>8, <2>9, <3>1 DEF FetchInv
  <2>11. QED
    BY <1>1, <2>2, <2>4, <2>5, <2>6, <2>10 DEF ViewsTypeOK, ViewsInv
<1>8. CASE FinishClone(r)
  <2>1. reader[r].at = "cloning" /\ clone.at = "filling"
    BY <1>8 DEF FinishClone
  <2>2. reader' \in [Reader -> Read] /\ \A q \in Reader : q # r => reader'[q] = reader[q]
    BY <1>1, <1>3, <1>r, <1>c, <1>8, ReadUpdate DEF FinishClone, ReadStep
  <2>3. /\ reader'[r].at = "fetch" /\ reader'[r].began = reader[r].began /\ reader'[r].now = reader[r].now
        /\ reader'[r].old = reader[r].old /\ reader'[r].seen = 0 /\ reader'[r].sha = reader[r].sha
    BY <1>1, <1>3, <1>8 DEF FinishClone, Read
  <2>4. /\ clone' \in Clone /\ clone'.at = "ready" /\ clone'.head = reader[r].seen
        /\ fetched' = fetched /\ lock' \in Reader \cup {Nobody} /\ fetched' \in Int
    BY <1>1, <1>8 DEF FinishClone, Clone, Read
  <2>5. CloneInv'
    BY <1>1, <1>2, <2>1, <2>2, <2>3, <2>4 DEF CloneInv, ClockInv
  <2>6. ClockInv'
    <3>1. fetched' <= clock
      BY <1>2, <2>4 DEF ClockInv
    <3>2. \A q \in Reader : reader'[q].began <= clock /\ reader'[q].now <= clock /\ reader'[q].seen <= Len(main)
      BY <1>1, <1>2, <1>r, <2>2, <2>3 DEF ClockInv
    <3>3. QED
      BY <1>1, <1>2, <3>1, <3>2 DEF ClockInv
  <2>7. \A t \in Int : Brings(t) => Brings(t)'
    BY <1>1, <1>2, <1>4, <1>5, <1>r, <1>c, <2>1, <2>2, <2>3, <2>4 DEF FetchInv, CloneInv, Brings, Covers
  <2>8. (fetched = booted \/ Brings(fetched))'
    BY <1>1, <1>2, <1>4, <1>5, <1>r, <1>c, <2>1, <2>2, <2>3, <2>4, <2>7 DEF FetchInv, CloneInv, Brings, Covers
  <2>9. Informed(r)'
    BY <1>1, <1>2, <1>4, <1>5, <1>r, <1>c, <2>1, <2>2, <2>3, <2>4, <2>8 DEF FetchInv, Informed, CloneInv, ClockInv, Brings, Covers, Window, Awake
  <2>10. FetchInv'
    <3>1. ASSUME NEW q \in Reader, q # r PROVE Informed(q)'
      <4>1. reader'[q] = reader[q] /\ Window(q) \in Int /\ Informed(q)
        BY <1>1, <1>2, <1>r, <2>2, <3>1 DEF FetchInv, Window
      <4>2. QED
        BY <1>1, <2>7, <4>1 DEF Informed, Covers, Window, Awake
    <3>2. QED
      BY <2>8, <2>9, <3>1 DEF FetchInv
  <2>11. QED
    BY <1>1, <2>2, <2>4, <2>5, <2>6, <2>10 DEF ViewsTypeOK, ViewsInv
<1>9. CASE FailClone(r)
  <2>1. reader[r].at = "cloning"
    BY <1>9 DEF FailClone
  <2>2. reader' \in [Reader -> Read] /\ \A q \in Reader : q # r => reader'[q] = reader[q]
    BY <1>1, <1>3, <1>r, <1>c, <1>9 DEF FailClone, EndRead, ReadStep
  <2>3. /\ reader'[r].at = "idle" /\ reader'[r].began = 0 /\ reader'[r].now = 0 /\ reader'[r].seen = 0
    BY <1>1, <1>3, <1>9 DEF FailClone, EndRead, Read
  <2>4. /\ clone' \in Clone /\ clone'.at = "none" /\ clone'.head = 0
        /\ fetched' = fetched /\ lock' \in Reader \cup {Nobody} /\ fetched' \in Int
    BY <1>1, <1>9 DEF FailClone, Clone, Read
  <2>5. CloneInv'
    BY <1>1, <1>2, <2>1, <2>2, <2>3, <2>4 DEF CloneInv, ClockInv
  <2>6. ClockInv'
    <3>1. fetched' <= clock
      BY <1>2, <2>4 DEF ClockInv
    <3>2. \A q \in Reader : reader'[q].began <= clock /\ reader'[q].now <= clock /\ reader'[q].seen <= Len(main)
      BY <1>1, <1>2, <1>r, <2>2, <2>3, SMTT(30) DEF ClockInv
    <3>3. QED
      BY <1>1, <1>2, <3>1, <3>2 DEF ClockInv
  <2>7. \A t \in Int : Brings(t) => Brings(t)'
    BY <1>1, <1>2, <1>4, <1>5, <1>r, <1>c, <2>1, <2>2, <2>3, <2>4 DEF FetchInv, CloneInv, Brings, Covers
  <2>8. (fetched = booted \/ Brings(fetched))'
    BY <1>1, <1>2, <1>4, <1>5, <1>r, <1>c, <2>1, <2>2, <2>3, <2>4, <2>7 DEF FetchInv, CloneInv, Brings, Covers
  <2>9. Informed(r)'
    BY <1>1, <1>2, <1>4, <1>5, <1>r, <1>c, <2>1, <2>2, <2>3, <2>4, <2>8 DEF FetchInv, Informed, CloneInv, ClockInv, Brings, Covers, Window, Awake
  <2>10. FetchInv'
    <3>1. ASSUME NEW q \in Reader, q # r PROVE Informed(q)'
      <4>1. reader'[q] = reader[q] /\ Window(q) \in Int /\ Informed(q)
        BY <1>1, <1>2, <1>r, <2>2, <3>1 DEF FetchInv, Window
      <4>2. QED
        BY <1>1, <2>7, <4>1 DEF Informed, Covers, Window, Awake
    <3>2. QED
      BY <2>8, <2>9, <3>1 DEF FetchInv
  <2>11. QED
    BY <1>1, <2>2, <2>4, <2>5, <2>6, <2>10 DEF ViewsTypeOK, ViewsInv
<1>10. CASE FetchAll(r)
  <2>1. reader[r].at = "fetch"
    BY <1>10 DEF FetchAll
  <2>2. reader' \in [Reader -> Read] /\ \A q \in Reader : q # r => reader'[q] = reader[q]
    BY <1>1, <1>3, <1>r, <1>c, <1>10 DEF FetchAll, EndRead, ReadStep
  <2>3. /\ reader'[r].at = "idle" /\ reader'[r].began = 0 /\ reader'[r].now = 0 /\ reader'[r].seen = 0
    BY <1>1, <1>3, <1>10 DEF FetchAll, EndRead, Read
  <2>4. /\ clone' \in Clone
        /\ clone' = clone \/ (clone.at = "ready" /\ clone'.at = "ready" /\ clone'.head = Len(main))
        /\ fetched' = fetched /\ lock' \in Reader \cup {Nobody} /\ fetched' \in Int
    BY <1>1, <1>10 DEF FetchAll, Clone, Read
  <2>5. CloneInv'
    BY <1>1, <1>2, <2>1, <2>2, <2>3, <2>4 DEF CloneInv, ClockInv
  <2>6. ClockInv'
    <3>1. fetched' <= clock
      BY <1>2, <2>4 DEF ClockInv
    <3>2. \A q \in Reader : reader'[q].began <= clock /\ reader'[q].now <= clock /\ reader'[q].seen <= Len(main)
      BY <1>1, <1>2, <1>r, <2>2, <2>3, SMTT(30) DEF ClockInv
    <3>3. QED
      BY <1>1, <1>2, <3>1, <3>2 DEF ClockInv
  <2>7. \A t \in Int : Brings(t) => Brings(t)'
    BY <1>1, <1>2, <1>4, <1>5, <1>r, <1>c, <2>1, <2>2, <2>3, <2>4 DEF FetchInv, CloneInv, Brings, Covers
  <2>8. (fetched = booted \/ Brings(fetched))'
    BY <1>1, <1>2, <1>4, <1>5, <1>r, <1>c, <2>1, <2>2, <2>3, <2>4, <2>7 DEF FetchInv, CloneInv, Brings, Covers
  <2>9. Informed(r)'
    BY <1>1, <1>2, <1>4, <1>5, <1>r, <1>c, <2>1, <2>2, <2>3, <2>4, <2>8 DEF FetchInv, Informed, CloneInv, ClockInv, Brings, Covers, Window, Awake
  <2>10. FetchInv'
    <3>1. ASSUME NEW q \in Reader, q # r PROVE Informed(q)'
      <4>1. reader'[q] = reader[q] /\ Window(q) \in Int /\ Informed(q)
        BY <1>1, <1>2, <1>r, <2>2, <3>1 DEF FetchInv, Window
      <4>2. QED
        BY <1>1, <2>7, <4>1 DEF Informed, Covers, Window, Awake
    <3>2. QED
      BY <2>8, <2>9, <3>1 DEF FetchInv
  <2>11. QED
    BY <1>1, <2>2, <2>4, <2>5, <2>6, <2>10 DEF ViewsTypeOK, ViewsInv
<1>11. CASE SkipFetch(r)
  <2>1. reader[r].at = "fetch" /\ clock - fetched < Debounce
    BY <1>11 DEF SkipFetch
  <2>2. reader' \in [Reader -> Read] /\ \A q \in Reader : q # r => reader'[q] = reader[q]
    BY <1>1, <1>3, <1>r, <1>c, <1>11, ReadUpdate DEF SkipFetch, Goto, ReadStep
  <2>3. /\ reader'[r].at = "resolve" /\ reader'[r].began = reader[r].began /\ reader'[r].now = reader[r].now
        /\ reader'[r].old = reader[r].old /\ reader'[r].seen = reader[r].seen /\ reader'[r].sha = reader[r].sha
    BY <1>1, <1>3, <1>11 DEF SkipFetch, Goto, Read
  <2>4. /\ clone' = clone
        /\ fetched' = fetched /\ lock' \in Reader \cup {Nobody} /\ fetched' \in Int
    BY <1>1, <1>11 DEF SkipFetch, Clone, Read
  <2>5. CloneInv'
    BY <1>1, <1>2, <2>1, <2>2, <2>3, <2>4 DEF CloneInv, ClockInv
  <2>6. ClockInv'
    <3>1. fetched' <= clock
      BY <1>2, <2>4 DEF ClockInv
    <3>2. \A q \in Reader : reader'[q].began <= clock /\ reader'[q].now <= clock /\ reader'[q].seen <= Len(main)
      BY <1>1, <1>2, <1>r, <2>2, <2>3 DEF ClockInv
    <3>3. QED
      BY <1>1, <1>2, <3>1, <3>2 DEF ClockInv
  <2>7. \A t \in Int : Brings(t) => Brings(t)'
    BY <1>1, <1>2, <1>4, <1>5, <1>r, <1>c, <2>1, <2>2, <2>3, <2>4 DEF FetchInv, CloneInv, Brings, Covers
  <2>8. (fetched = booted \/ Brings(fetched))'
    BY <1>1, <1>2, <1>4, <1>5, <1>r, <1>c, <2>1, <2>2, <2>3, <2>4, <2>7 DEF FetchInv, CloneInv, Brings, Covers
  <2>9. Informed(r)'
    <3>1. ASSUME Awake(r)' PROVE Brings(Window(r))'
      <4>1. Window(r)' = reader[r].began - Debounce + 1 /\ booted <= reader[r].began - Debounce
        BY <1>1, <2>3, <3>1 DEF Window, Awake
      <4>2. Window(r)' <= fetched' /\ fetched' # booted
        BY <1>1, <1>2, <1>r, <2>1, <2>4, <4>1 DEF ClockInv
      <4>3. Brings(fetched)'
        BY <1>1, <2>8, <4>2
      <4>4. Window(r)' \in Int /\ fetched' \in Int /\ \A i \in DOMAIN main' : main'[i].at \in Int
        BY <1>1, <1>5, <1>r, <2>4, <4>1
      <4>5. QED
        BY <4>2, <4>3, <4>4 DEF Brings, Covers
    <3>2. QED
      BY <2>3, <3>1 DEF Informed
  <2>10. FetchInv'
    <3>1. ASSUME NEW q \in Reader, q # r PROVE Informed(q)'
      <4>1. reader'[q] = reader[q] /\ Window(q) \in Int /\ Informed(q)
        BY <1>1, <1>2, <1>r, <2>2, <3>1 DEF FetchInv, Window
      <4>2. QED
        BY <1>1, <2>7, <4>1 DEF Informed, Covers, Window, Awake
    <3>2. QED
      BY <2>8, <2>9, <3>1 DEF FetchInv
  <2>11. QED
    BY <1>1, <2>2, <2>4, <2>5, <2>6, <2>10 DEF ViewsTypeOK, ViewsInv
<1>12. CASE BeginFetch(r)
  <2>1. reader[r].at = "fetch"
    BY <1>12 DEF BeginFetch
  <2>2. reader' \in [Reader -> Read] /\ \A q \in Reader : q # r => reader'[q] = reader[q]
    <3>1. "fetching" \in ReadStep
      BY DEF ReadStep
    <3>2. [reader[r] EXCEPT !.at = "fetching", !.now = clock, !.old = clone.head, !.seen = Len(main)] \in Read
      BY <1>1, <1>r, <1>c, <3>1, ReadUpdate
    <3>3. reader' = [reader EXCEPT ![r] =
            [reader[r] EXCEPT !.at = "fetching", !.now = clock, !.old = clone.head, !.seen = Len(main)]]
      BY <1>12, <1>1 DEF BeginFetch
    <3>4. QED
      BY <1>1, <3>2, <3>3
  <2>3. /\ reader'[r].at = "fetching" /\ reader'[r].began = reader[r].began /\ reader'[r].now = clock
        /\ reader'[r].old = clone.head /\ reader'[r].seen = Len(main) /\ reader'[r].sha = reader[r].sha
    BY <1>1, <1>3, <1>12 DEF BeginFetch, Read
  <2>4. /\ clone' = clone
        /\ fetched' = fetched /\ lock' \in Reader \cup {Nobody} /\ fetched' \in Int
    BY <1>1, <1>12 DEF BeginFetch, Clone, Read
  <2>5. CloneInv'
    BY <1>1, <1>2, <2>1, <2>2, <2>3, <2>4 DEF CloneInv, ClockInv
  <2>6. ClockInv'
    <3>1. fetched' <= clock
      BY <1>2, <2>4 DEF ClockInv
    <3>2. \A q \in Reader : reader'[q].began <= clock /\ reader'[q].now <= clock /\ reader'[q].seen <= Len(main)
      BY <1>1, <1>2, <1>r, <2>2, <2>3 DEF ClockInv
    <3>3. QED
      BY <1>1, <1>2, <3>1, <3>2 DEF ClockInv
  <2>7. \A t \in Int : Brings(t) => Brings(t)'
    BY <1>1, <1>2, <1>4, <1>5, <1>r, <1>c, <2>1, <2>2, <2>3, <2>4 DEF FetchInv, CloneInv, Brings, Covers
  <2>8. (fetched = booted \/ Brings(fetched))'
    BY <1>1, <1>2, <1>4, <1>5, <1>r, <1>c, <2>1, <2>2, <2>3, <2>4, <2>7 DEF FetchInv, CloneInv, Brings, Covers
  <2>9. Informed(r)'
    BY <1>1, <1>2, <1>4, <1>5, <1>r, <1>c, <2>1, <2>2, <2>3, <2>4, <2>8 DEF FetchInv, Informed, CloneInv, ClockInv, Brings, Covers, Window, Awake
  <2>10. FetchInv'
    <3>1. ASSUME NEW q \in Reader, q # r PROVE Informed(q)'
      <4>1. reader'[q] = reader[q] /\ Window(q) \in Int /\ Informed(q)
        BY <1>1, <1>2, <1>r, <2>2, <3>1 DEF FetchInv, Window
      <4>2. QED
        BY <1>1, <2>7, <4>1 DEF Informed, Covers, Window, Awake
    <3>2. QED
      BY <2>8, <2>9, <3>1 DEF FetchInv
  <2>11. QED
    BY <1>1, <2>2, <2>4, <2>5, <2>6, <2>10 DEF ViewsTypeOK, ViewsInv
<1>13. CASE EndFetch(r)
  <2>1. reader[r].at = "fetching" /\ clone.at = "ready" /\ clone.head = reader[r].old
    BY <1>13 DEF EndFetch
  <2>i. /\ Covers(reader[r].seen, reader[r].now)
        /\ reader[r].old <= reader[r].seen /\ reader[r].began <= reader[r].now
    BY <1>2, <2>1 DEF FetchInv, Informed
  <2>2. reader' \in [Reader -> Read] /\ \A q \in Reader : q # r => reader'[q] = reader[q]
    BY <1>1, <1>3, <1>r, <1>c, <1>13, ReadUpdate, ZenonT(30) DEF EndFetch, GotoResolve, ReadStep
  <2>3. /\ reader'[r].at = "resolve" /\ reader'[r].began = reader[r].began /\ reader'[r].now = 0
        /\ reader'[r].old = 0 /\ reader'[r].seen = 0 /\ reader'[r].sha = reader[r].sha
    BY <1>1, <1>3, <1>13 DEF EndFetch, GotoResolve, Read
  <2>4. /\ clone' \in Clone /\ clone'.at = "ready" /\ clone'.head = reader[r].seen
        /\ fetched' = reader[r].now /\ lock' \in Reader \cup {Nobody} /\ fetched' \in Int
    <3>1. /\ clone' = [clone EXCEPT !.head = reader[r].seen]
          /\ fetched' = reader[r].now /\ lock' = Nobody
      BY <1>13 DEF EndFetch
    <3>2. QED
      BY <1>1, <1>r, <2>1, <3>1 DEF Clone
  <2>5. CloneInv'
    BY <1>1, <1>2, <2>1, <2>2, <2>3, <2>4 DEF CloneInv, ClockInv
  <2>6. ClockInv'
    <3>1. fetched' <= clock
      BY <1>2, <2>4 DEF ClockInv
    <3>2. \A q \in Reader : reader'[q].began <= clock /\ reader'[q].now <= clock /\ reader'[q].seen <= Len(main)
      BY <1>1, <1>2, <1>r, <2>2, <2>3, SMTT(30) DEF ClockInv
    <3>3. QED
      BY <1>1, <1>2, <3>1, <3>2 DEF ClockInv
  <2>7. \A t \in Int : Brings(t) => Brings(t)'
    BY <1>1, <1>2, <1>4, <1>5, <1>r, <1>c, <2>1, <2>2, <2>3, <2>4, <2>i DEF CloneInv, Brings, Covers
  <2>8. (fetched = booted \/ Brings(fetched))'
    BY <1>1, <1>2, <1>4, <1>5, <1>r, <1>c, <2>1, <2>2, <2>3, <2>4, <2>i DEF CloneInv, Brings, Covers
  <2>9. Informed(r)'
    <3>1. ASSUME Awake(r)' PROVE Brings(Window(r))'
      <4>1. Window(r)' = reader[r].began - Debounce + 1 /\ booted <= reader[r].began - Debounce
        BY <1>1, <2>3, <3>1 DEF Window, Awake
      <4>2. Window(r)' <= fetched' /\ fetched' # booted
        BY <1>1, <1>2, <1>r, <2>1, <2>4, <4>1 DEF FetchInv, Informed
      <4>3. Brings(fetched)'
        BY <1>1, <2>8, <4>2
      <4>4. Window(r)' \in Int /\ fetched' \in Int /\ \A i \in DOMAIN main' : main'[i].at \in Int
        BY <1>1, <1>5, <1>r, <2>4, <4>1
      <4>5. QED
        BY <4>2, <4>3, <4>4 DEF Brings, Covers
    <3>2. QED
      BY <2>3, <3>1 DEF Informed
  <2>10. FetchInv'
    <3>1. ASSUME NEW q \in Reader, q # r PROVE Informed(q)'
      <4>1. reader'[q] = reader[q] /\ Window(q) \in Int /\ Informed(q)
        BY <1>1, <1>2, <1>r, <2>2, <3>1 DEF FetchInv, Window
      <4>2. QED
        BY <1>1, <2>7, <4>1 DEF Informed, Covers, Window, Awake
    <3>2. QED
      BY <2>8, <2>9, <3>1 DEF FetchInv
  <2>11. QED
    BY <1>1, <2>2, <2>4, <2>5, <2>6, <2>10 DEF ViewsTypeOK, ViewsInv
<1>14. CASE NoOriginYet(r)
  <2>1. reader[r].at = "fetching" /\ clone.at = "making"
    BY <1>14 DEF NoOriginYet
  <2>2. reader' \in [Reader -> Read] /\ \A q \in Reader : q # r => reader'[q] = reader[q]
    BY <1>1, <1>3, <1>r, <1>c, <1>14, ReadUpdate, ZenonT(30) DEF NoOriginYet, GotoResolve, ReadStep
  <2>3. /\ reader'[r].at = "resolve" /\ reader'[r].began = reader[r].began /\ reader'[r].now = 0
        /\ reader'[r].old = 0 /\ reader'[r].seen = 0 /\ reader'[r].sha = reader[r].sha
    BY <1>1, <1>3, <1>14 DEF NoOriginYet, GotoResolve, Read
  <2>4. /\ clone' = clone
        /\ fetched' = reader[r].now /\ lock' \in Reader \cup {Nobody} /\ fetched' \in Int
    BY <1>1, <1>14 DEF NoOriginYet, Clone, Read
  <2>5. CloneInv'
    BY <1>1, <1>2, <2>1, <2>2, <2>3, <2>4 DEF CloneInv, ClockInv
  <2>6. ClockInv'
    <3>1. fetched' <= clock
      BY <1>2, <2>4 DEF ClockInv
    <3>2. \A q \in Reader : reader'[q].began <= clock /\ reader'[q].now <= clock /\ reader'[q].seen <= Len(main)
      BY <1>1, <1>2, <1>r, <2>2, <2>3, SMTT(30) DEF ClockInv
    <3>3. QED
      BY <1>1, <1>2, <3>1, <3>2 DEF ClockInv
  <2>7. \A t \in Int : Brings(t) => Brings(t)'
    BY <1>1, <1>2, <1>4, <1>5, <1>r, <1>c, <2>1, <2>2, <2>3, <2>4 DEF FetchInv, CloneInv, Brings, Covers
  <2>8. (fetched = booted \/ Brings(fetched))'
    BY <1>1, <1>2, <1>4, <1>5, <1>r, <1>c, <2>1, <2>2, <2>3, <2>4, <2>7 DEF FetchInv, CloneInv, Brings, Covers
  <2>9. Informed(r)'
    <3>1. ASSUME Awake(r)' PROVE Brings(Window(r))'
      <4>1. Window(r)' = reader[r].began - Debounce + 1 /\ booted <= reader[r].began - Debounce
        BY <1>1, <2>3, <3>1 DEF Window, Awake
      <4>2. Window(r)' <= fetched' /\ fetched' # booted
        BY <1>1, <1>2, <1>r, <2>1, <2>4, <4>1 DEF FetchInv, Informed
      <4>3. Brings(fetched)'
        BY <1>1, <2>8, <4>2
      <4>4. Window(r)' \in Int /\ fetched' \in Int /\ \A i \in DOMAIN main' : main'[i].at \in Int
        BY <1>1, <1>5, <1>r, <2>4, <4>1
      <4>5. QED
        BY <4>2, <4>3, <4>4 DEF Brings, Covers
    <3>2. QED
      BY <2>3, <3>1 DEF Informed
  <2>10. FetchInv'
    <3>1. ASSUME NEW q \in Reader, q # r PROVE Informed(q)'
      <4>1. reader'[q] = reader[q] /\ Window(q) \in Int /\ Informed(q)
        BY <1>1, <1>2, <1>r, <2>2, <3>1 DEF FetchInv, Window
      <4>2. QED
        BY <1>1, <2>7, <4>1 DEF Informed, Covers, Window, Awake
    <3>2. QED
      BY <2>8, <2>9, <3>1 DEF FetchInv
  <2>11. QED
    BY <1>1, <2>2, <2>4, <2>5, <2>6, <2>10 DEF ViewsTypeOK, ViewsInv
<1>15. CASE Resolve(r)
  <2>1. reader[r].at = "resolve" /\ clone.at = "ready"
    BY <1>15 DEF Resolve
  <2>2. reader' \in [Reader -> Read] /\ \A q \in Reader : q # r => reader'[q] = reader[q]
    BY <1>1, <1>3, <1>r, <1>c, <1>15, ReadUpdate DEF Resolve, ReadStep
  <2>3. /\ reader'[r].at = "view" /\ reader'[r].began = reader[r].began /\ reader'[r].now = reader[r].now
        /\ reader'[r].old = reader[r].old /\ reader'[r].seen = reader[r].seen /\ reader'[r].sha = clone.head
    BY <1>1, <1>3, <1>15 DEF Resolve, Read
  <2>4. /\ clone' = clone
        /\ fetched' = fetched /\ lock' \in Reader \cup {Nobody} /\ fetched' \in Int
    BY <1>1, <1>15 DEF Resolve, Clone, Read
  <2>5. CloneInv'
    BY <1>1, <1>2, <2>1, <2>2, <2>3, <2>4 DEF CloneInv, ClockInv
  <2>6. ClockInv'
    <3>1. fetched' <= clock
      BY <1>2, <2>4 DEF ClockInv
    <3>2. \A q \in Reader : reader'[q].began <= clock /\ reader'[q].now <= clock /\ reader'[q].seen <= Len(main)
      BY <1>1, <1>2, <1>r, <2>2, <2>3 DEF ClockInv
    <3>3. QED
      BY <1>1, <1>2, <3>1, <3>2 DEF ClockInv
  <2>7. \A t \in Int : Brings(t) => Brings(t)'
    BY <1>1, <1>2, <1>4, <1>5, <1>r, <1>c, <2>1, <2>2, <2>3, <2>4 DEF FetchInv, CloneInv, Brings, Covers
  <2>8. (fetched = booted \/ Brings(fetched))'
    BY <1>1, <1>2, <1>4, <1>5, <1>r, <1>c, <2>1, <2>2, <2>3, <2>4, <2>7 DEF FetchInv, CloneInv, Brings, Covers
  <2>9. Informed(r)'
    BY <1>1, <1>2, <1>4, <1>5, <1>r, <1>c, <2>1, <2>2, <2>3, <2>4, <2>8 DEF FetchInv, Informed, CloneInv, ClockInv, Brings, Covers, Window, Awake
  <2>10. FetchInv'
    <3>1. ASSUME NEW q \in Reader, q # r PROVE Informed(q)'
      <4>1. reader'[q] = reader[q] /\ Window(q) \in Int /\ Informed(q)
        BY <1>1, <1>2, <1>r, <2>2, <3>1 DEF FetchInv, Window
      <4>2. QED
        BY <1>1, <2>7, <4>1 DEF Informed, Covers, Window, Awake
    <3>2. QED
      BY <2>8, <2>9, <3>1 DEF FetchInv
  <2>11. QED
    BY <1>1, <2>2, <2>4, <2>5, <2>6, <2>10 DEF ViewsTypeOK, ViewsInv
<1>16. CASE CloneTooLate(r) \/ FailFetch(r) \/ FailResolve(r) \/ ReadBody(r)
  <2>2. reader' \in [Reader -> Read] /\ \A q \in Reader : q # r => reader'[q] = reader[q]
    BY <1>1, <1>3, <1>r, <1>c, <1>16 DEF CloneTooLate, FailFetch, FailResolve, ReadBody, EndRead, ReadStep
  <2>3. /\ reader'[r].at = "idle" /\ reader'[r].began = 0 /\ reader'[r].now = 0 /\ reader'[r].seen = 0
    BY <1>1, <1>3, <1>16 DEF CloneTooLate, FailFetch, FailResolve, ReadBody, EndRead, Read
  <2>4. /\ clone' = clone
        /\ fetched' = fetched /\ lock' \in Reader \cup {Nobody} /\ fetched' \in Int
    BY <1>1, <1>16 DEF CloneTooLate, FailFetch, FailResolve, ReadBody, Clone, Read
  <2>5. CloneInv'
    BY <1>1, <1>2, <2>2, <2>3, <2>4 DEF CloneInv, ClockInv
  <2>6. ClockInv'
    <3>1. fetched' <= clock
      BY <1>2, <2>4 DEF ClockInv
    <3>2. \A q \in Reader : reader'[q].began <= clock /\ reader'[q].now <= clock /\ reader'[q].seen <= Len(main)
      BY <1>1, <1>2, <1>r, <2>2, <2>3, SMTT(30) DEF ClockInv
    <3>3. QED
      BY <1>1, <1>2, <3>1, <3>2 DEF ClockInv
  <2>7. \A t \in Int : Brings(t) => Brings(t)'
    BY <1>1, <1>2, <1>4, <1>5, <1>r, <1>c, <2>2, <2>3, <2>4 DEF FetchInv, CloneInv, Brings, Covers
  <2>8. (fetched = booted \/ Brings(fetched))'
    BY <1>1, <1>2, <1>4, <1>5, <1>r, <1>c, <2>2, <2>3, <2>4, <2>7 DEF FetchInv, CloneInv, Brings, Covers
  <2>9. Informed(r)'
    BY <1>1, <1>2, <1>4, <1>5, <1>r, <1>c, <2>2, <2>3, <2>4, <2>8 DEF FetchInv, Informed, CloneInv, ClockInv, Brings, Covers, Window, Awake
  <2>10. FetchInv'
    <3>1. ASSUME NEW q \in Reader, q # r PROVE Informed(q)'
      <4>1. reader'[q] = reader[q] /\ Window(q) \in Int /\ Informed(q)
        BY <1>1, <1>2, <1>r, <2>2, <3>1 DEF FetchInv, Window
      <4>2. QED
        BY <1>1, <2>7, <4>1 DEF Informed, Covers, Window, Awake
    <3>2. QED
      BY <2>8, <2>9, <3>1 DEF FetchInv
  <2>11. QED
    BY <1>1, <2>2, <2>4, <2>5, <2>6, <2>10 DEF ViewsTypeOK, ViewsInv
<1>17. QED
  BY <1>6, <1>7, <1>8, <1>9, <1>10, <1>11, <1>12, <1>13, <1>14, <1>15, <1>16 DEF ServeRead

\* The server starts again: no read, no fetch, and no clone half made.
LEMMA RestartStep ==
  ASSUME ViewsTypeOK, ViewsInv, UNCHANGED <<main, clock>>, Restart
  PROVE  ViewsTypeOK' /\ ViewsInv'
<1>1. /\ clock \in Nat /\ clone \in Clone /\ main' = main /\ clock' = clock
      /\ booted \in Int /\ booted <= clock
      /\ Debounce \in Nat \ {0} /\ Len(main) \in Nat
      /\ \A i \in DOMAIN main : main[i].at \in Nat
  <2>1. \A i \in DOMAIN main : main[i] \in CommitRecord
    BY Elements DEF ViewsTypeOK
  <2>2. QED
    BY <2>1, TimesAssumption, Elements DEF ViewsTypeOK, CommitRecord, ViewsInv, ClockInv
<1>2. /\ clone' \in Clone /\ clone'.head <= Len(main)
      /\ clone'.at \in {"none", "ready"}
      /\ booted' \in Int /\ booted' <= clock /\ fetched' = booted' /\ lock' = Nobody
  BY <1>1 DEF Restart, ViewsInv, CloneInv, Clone
<1>3. /\ reader' \in [Reader -> Read]
      /\ \A r \in Reader : /\ reader'[r].at = "idle"
                           /\ reader'[r].began = 0 /\ reader'[r].now = 0 /\ reader'[r].seen = 0
  BY DEF Restart, NoRead, Read, ReadStep
<1>4. CloneInv' /\ ClockInv'
  BY <1>1, <1>2, <1>3 DEF CloneInv, ClockInv, At, ViewsInv
<1>5. FetchInv'
  BY <1>1, <1>2, <1>3 DEF FetchInv, Informed, Brings, Covers, At
<1>6. QED
  BY <1>1, <1>2, <1>3, <1>4, <1>5 DEF ViewsTypeOK, ViewsInv

\* What arrives at the remote comes last, now.
LEMMA RemoteStep ==
  ASSUME ViewsTypeOK, ViewsInv, UNCHANGED <<clock, views>>,
         NEW e \in CommitRecord, e.at = clock, main' = Append(main, e)
  PROVE  ViewsTypeOK' /\ ViewsInv'
<1>1. /\ clock \in Nat /\ clock' = clock /\ clone' = clone /\ fetched' = fetched /\ lock' = lock
      /\ booted \in Int /\ booted' = booted
      /\ reader' = reader /\ fetched \in Int /\ Debounce \in Nat \ {0}
      /\ main \in Seq(CommitRecord) /\ Len(main) \in Nat /\ DOMAIN main = 1 .. Len(main)
  BY TimesAssumption, Elements DEF ViewsTypeOK, views
<1>2. /\ main' \in Seq(CommitRecord) /\ Len(main') = Len(main) + 1
      /\ DOMAIN main' = 1 .. Len(main) + 1
      /\ \A i \in DOMAIN main : main'[i] = main[i]
      /\ main'[Len(main) + 1].at = clock
  BY <1>1, Appended
<1>3. \A r \in Reader : /\ reader[r].began \in Nat /\ reader[r].now \in Nat
                        /\ reader[r].seen \in Nat /\ reader[r].sha \in Nat
  BY DEF ViewsTypeOK, Read
<1>4. clone.head \in Nat
  BY DEF ViewsTypeOK, Clone
<1>5. CloneInv'
  BY <1>1, <1>2, <1>4 DEF ViewsInv, CloneInv, At
<1>6. ClockInv'
  BY <1>1, <1>2, <1>3 DEF ViewsInv, ClockInv
<1>7. \A n \in Nat, t \in Int : t <= clock /\ Covers(n, t) => Covers(n, t)'
  BY <1>1, <1>2 DEF Covers
<1>8. \A t \in Int : t <= clock /\ Brings(t) => Brings(t)'
  BY <1>1, <1>3, <1>4, <1>7 DEF Brings, At
<1>9. \A r \in Reader : Window(r) \in Int /\ Window(r) <= clock
  BY <1>1, <1>3 DEF Window, ViewsInv, ClockInv
<1>10. FetchInv'
  <2>1. (fetched = booted \/ Brings(fetched))'
    BY <1>1, <1>8 DEF ViewsInv, FetchInv, ClockInv
  <2>2. ASSUME NEW r \in Reader
        PROVE  Informed(r)'
    <3>1. Window(r)' = Window(r)
      BY <1>1 DEF Window
    <3>2. At(r, "resolve")' /\ Awake(r)' => Brings(Window(r))'
      BY <1>1, <1>8, <1>9, <3>1 DEF ViewsInv, FetchInv, Informed, At, Awake
    <3>3. At(r, "view")' /\ Awake(r)' => Covers(reader[r].sha, Window(r))'
      BY <1>1, <1>3, <1>7, <1>9, <3>1 DEF ViewsInv, FetchInv, Informed, At, Awake
    <3>4. QED
      BY <1>1, <1>3, <1>7, <3>2, <3>3 DEF ViewsInv, FetchInv, Informed, ClockInv, At
  <2>3. QED
    BY <2>1, <2>2 DEF FetchInv
<1>11. QED
  BY <1>1, <1>2, <1>5, <1>6, <1>10 DEF ViewsTypeOK, ViewsInv

\* Time passes, or nothing that the reads know of happens.
LEMMA TimeStep ==
  ASSUME ViewsTypeOK, ViewsInv, UNCHANGED <<main, views>>, clock' \in Nat, clock <= clock'
  PROVE  ViewsTypeOK' /\ ViewsInv'
<1>1. /\ clock \in Nat /\ clone' = clone /\ fetched' = fetched /\ lock' = lock /\ main' = main
      /\ reader' = reader /\ fetched \in Int /\ booted \in Int /\ booted' = booted
      /\ \A r \in Reader : reader[r].began \in Nat /\ reader[r].now \in Nat
  BY DEF ViewsTypeOK, Read, views
<1>2. \A i \in DOMAIN main : main[i].at \in Nat
  <2>1. \A i \in DOMAIN main : main[i] \in CommitRecord
    BY Elements DEF ViewsTypeOK
  <2>2. QED
    BY <2>1 DEF CommitRecord
<1>3. ClockInv'
  BY <1>1, <1>2 DEF ViewsInv, ClockInv
<1>4. CloneInv' /\ FetchInv'
  BY <1>1 DEF ViewsInv, CloneInv, FetchInv, Informed, Brings, Covers, Window, Awake, At
<1>5. QED
  BY <1>1, <1>3, <1>4 DEF ViewsTypeOK, ViewsInv

-----------------------------------------------------------------------------
(* The bodies *)

\* A checkout's own commits reach the remote's history.
LEMMA ArriveStep ==
  ASSUME TypeOK, NEW s \in Session, Arrive(s)
  PROVE  /\ Bodies \subseteq Bodies'
         /\ repo' \in [Session -> Repo]
         /\ \E e \in CommitRecord : e.at = clock /\ main' = Append(main, e)
<1> DEFINE e == [at |-> clock, adds |-> repo[s].own]
<1>1. /\ repo \in [Session -> Repo] /\ main \in Seq(CommitRecord) /\ clock \in Nat
      /\ repo[s].own \in SUBSET Path
  BY DEF TypeOK, ViewsTypeOK, ClientsTypeOK, Repo
<1>2. e \in CommitRecord /\ e.at = clock /\ e.adds = repo[s].own /\ main' = Append(main, e)
  BY <1>1 DEF Arrive, CommitRecord
<1> HIDE DEF e
<1>3. /\ Len(main') = Len(main) + 1 /\ Len(main) \in Nat
      /\ \A i \in 1 .. Len(main) : main'[i] = main[i]
      /\ main'[Len(main) + 1] = e
  BY <1>1, <1>2, Appended, Elements
<1>4. /\ repo' \in [Session -> Repo]
      /\ \A q \in Session : q # s => repo'[q] = repo[q]
  BY <1>1, <1>3 DEF Arrive, Repo
<1>5. Tree(Len(main)) \subseteq Tree(Len(main))'
  BY <1>3 DEF Tree
<1>6. repo[s].own \subseteq Tree(Len(main))'
  BY <1>2, <1>3 DEF Tree
<1>7. Bodies \subseteq Bodies'
  BY <1>4, <1>5, <1>6 DEF Bodies
<1>8. QED
  BY <1>2, <1>4, <1>7

\* A body that is committed stays, on the remote or in a checkout.
LEMMA BodiesKept ==
  ASSUME UNCHANGED main, \A s \in Session : repo[s].own \subseteq repo'[s].own
  PROVE  Bodies \subseteq Bodies'
BY DEF Bodies, Tree

\* The rows that are registered.
LEMMA RowFacts ==
  ASSUME TypeOK
  PROVE  /\ rows \in Seq(Row) /\ Len(rows) \in Nat /\ DOMAIN rows = 1 .. Len(rows)
         /\ \A i \in DOMAIN rows : rows[i] \in Row /\ rows[i].id \in Id
<1>1. /\ rows \in Seq(Row) /\ Len(rows) \in Nat /\ DOMAIN rows = 1 .. Len(rows)
      /\ \A i \in DOMAIN rows : rows[i] \in Row
  BY Elements DEF TypeOK, ClientsTypeOK
<1>2. QED
  BY <1>1 DEF Row

-----------------------------------------------------------------------------
(* A step of a command *)

\* What a step that touches no request and no row has to show.
LEMMA CommandsKept ==
  ASSUME TypeOK, ClientsInv, UNCHANGED <<minted, request, rows>>, Bodies \subseteq Bodies',
         cli' \in [Session -> Command], repo' \in [Session -> Repo],
         \A s \in Session :
           \/ cli'[s].at = "idle"
           \/ /\ cli'[s].name = cli[s].name /\ cli'[s].id = cli[s].id
              /\ cli'[s].at = cli[s].at \/ (cli[s].at = "push" /\ cli'[s].at = "post")
  PROVE  ClientsTypeOK' /\ ClientsInv'
<1>1. /\ minted' = minted /\ request' = request /\ rows' = rows
      /\ \A x, n : PathOf(x, n)' = PathOf(x, n)
  BY DEF PathOf
<1>2. ClientsTypeOK'
  BY <1>1 DEF TypeOK, ClientsTypeOK
<1>3. CommandsInv'
  <2>1. ASSUME NEW s \in Session, cli'[s].at # "idle"
        PROVE  /\ cli'[s].id \in 1 .. minted'
               /\ cli'[s].name \in Name \cup Role
               /\ PathOf(cli'[s].name, cli'[s].id) \in Bodies'
               /\ cli'[s].at \in {"push", "post"} => request'[cli'[s].id].at = "none"
    BY <1>1, <2>1 DEF ClientsInv, CommandsInv, Doing
  <2>2. \A s, q \in Session :
          cli'[s].at \in {"push", "post"} /\ cli'[q].at \in {"push", "post"} /\ cli'[s].id = cli'[q].id
            => s = q
    BY DEF ClientsInv, CommandsInv
  <2>3. QED
    BY <1>1, <2>1, <2>2 DEF CommandsInv, Doing, PathOf
<1>4. RequestsInv' /\ DuplicatesOverlap' /\ RowHasBody'
  BY <1>1 DEF ClientsInv, RequestsInv, DuplicatesOverlap, RowHasBody
<1>5. QED
  BY <1>2, <1>3, <1>4 DEF ClientsInv

\* A command that commits its body under a fresh id.
LEMMA CommitBodyStep ==
  ASSUME TypeOK, ClientsInv, NEW s \in Session, NEW x \in Name \cup Role,
         cli[s].at = "idle", CommitBody(s, x), UNCHANGED <<main, request, rows>>
  PROVE  ClientsTypeOK' /\ ClientsInv'
<1> DEFINE id == minted + 1
<1>1. /\ cli \in [Session -> Command] /\ repo \in [Session -> Repo] /\ minted \in 0 .. MaxIds
      /\ MaxIds \in Nat \ {0} /\ request' = request /\ rows' = rows
  BY BoundsAssumption DEF TypeOK, ClientsTypeOK
<1>2. id \in Id /\ minted' = id /\ PathOf(x, id) \in Path
  BY <1>1, PathAssumption DEF CommitBody, Id, PathOf
<1>3. /\ cli' = [cli EXCEPT ![s] = [at |-> "push", name |-> x, id |-> id]]
      /\ repo' = [repo EXCEPT ![s].own = @ \cup {PathOf(x, id)}]
  BY DEF CommitBody
<1> HIDE DEF id
<1>4. [at |-> "push", name |-> x, id |-> id] \in Command
  BY <1>2 DEF Command, CliStep
<1>5. /\ cli' \in [Session -> Command]
      /\ cli'[s].at = "push" /\ cli'[s].name = x /\ cli'[s].id = id
      /\ \A q \in Session : q # s => cli'[q] = cli[q]
  BY <1>1, <1>3, <1>4
<1>6. /\ repo' \in [Session -> Repo]
      /\ repo'[s].own = repo[s].own \cup {PathOf(x, id)}
      /\ \A q \in Session : q # s => repo'[q] = repo[q]
  BY <1>1, <1>2, <1>3 DEF Repo
<1>7. Bodies \subseteq Bodies' /\ PathOf(x, id) \in Bodies'
  <2>1. Bodies \subseteq Bodies'
    BY <1>6, BodiesKept
  <2>2. QED
    BY <1>6, <2>1 DEF Bodies
<1>8. ClientsTypeOK'
  BY <1>1, <1>2, <1>5, <1>6 DEF TypeOK, ClientsTypeOK, Id
<1>9. id = minted + 1 /\ request[id].at = "none"
  BY <1>1, <1>2 DEF ClientsInv, RequestsInv, id
<1>10. CommandsInv'
  <2>1. ASSUME NEW q \in Session, cli'[q].at # "idle"
        PROVE  /\ cli'[q].id \in 1 .. minted'
               /\ cli'[q].name \in Name \cup Role
               /\ PathOf(cli'[q].name, cli'[q].id) \in Bodies'
               /\ cli'[q].at \in {"push", "post"} => request'[cli'[q].id].at = "none"
    BY <1>1, <1>2, <1>5, <1>7, <1>9, <2>1 DEF ClientsInv, CommandsInv, Doing
  <2>2. \A q \in Session : q # s /\ cli'[q].at # "idle" => cli'[q].id \in 1 .. minted
    BY <1>5 DEF ClientsInv, CommandsInv, Doing
  <2>3. \A p, q \in Session :
          cli'[p].at \in {"push", "post"} /\ cli'[q].at \in {"push", "post"} /\ cli'[p].id = cli'[q].id
            => p = q
    BY <1>1, <1>5, <1>9, <2>2 DEF ClientsInv, CommandsInv
  <2>4. QED
    BY <2>1, <2>3 DEF CommandsInv, Doing, PathOf
<1>11. RequestsInv'
  BY <1>1, <1>2, <1>7, <1>9 DEF ClientsInv, RequestsInv, Id
<1>12. DuplicatesOverlap' /\ RowHasBody'
  BY <1>1, <1>7 DEF ClientsInv, DuplicatesOverlap, RowHasBody
<1>13. QED
  BY <1>8, <1>10, <1>11, <1>12 DEF ClientsInv

\* A command that posts: its request is new.
LEMMA PostRequestStep ==
  ASSUME TypeOK, ClientsInv, NEW s \in Session, PostRequest(s), UNCHANGED main
  PROVE  ClientsTypeOK' /\ ClientsInv'
<1> DEFINE n == cli[s].id
           r == [NoRequest EXCEPT !.at = "check", !.name = cli[s].name,
                   !.path = PathOf(cli[s].name, cli[s].id), !.after = Len(rows)]
<1>1. /\ cli \in [Session -> Command] /\ repo' = repo /\ minted' = minted /\ rows' = rows
      /\ request \in [Id -> Request] /\ minted \in 0 .. MaxIds /\ rows \in Seq(Row)
      /\ MaxIds \in Nat \ {0} /\ Len(rows) \in Nat /\ DOMAIN rows = 1 .. Len(rows)
      /\ \A i \in DOMAIN rows : rows[i] \in Row
      /\ main' = main
  BY BoundsAssumption, Elements DEF TypeOK, ClientsTypeOK, PostRequest
<1>2. /\ cli[s].at = "post" /\ n \in 1 .. minted /\ cli[s].name \in Name \cup Role
      /\ PathOf(cli[s].name, n) \in Bodies /\ request[n].at = "none"
  BY DEF PostRequest, Doing, ClientsInv, CommandsInv
<1>3. n \in Id /\ PathOf(cli[s].name, n) \in Path
  BY <1>1, <1>2, PathAssumption DEF Id, PathOf
<1>4. /\ r.at = "check" /\ r.name = cli[s].name /\ r.path = PathOf(cli[s].name, n)
      /\ r.after = Len(rows) /\ r \in Request
  BY <1>1, <1>2, <1>3 DEF NoRequest, Request, RequestStep
<1>5. /\ request' = [request EXCEPT ![n] = r]
      /\ cli' = [cli EXCEPT ![s].at = "wait"]
  BY DEF PostRequest, Continue
<1> HIDE DEF n, r
<1>6. /\ request' \in [Id -> Request] /\ request'[n] = r
      /\ \A m \in Id : m # n => request'[m] = request[m]
  BY <1>1, <1>3, <1>4, <1>5
<1>7. /\ cli' \in [Session -> Command]
      /\ cli'[s].at = "wait" /\ cli'[s].name = cli[s].name /\ cli'[s].id = cli[s].id
      /\ \A q \in Session : q # s => cli'[q] = cli[q]
  BY <1>1, <1>5 DEF Command, CliStep
<1>8. Bodies' = Bodies
  BY <1>1 DEF Bodies, Tree
<1>9. ClientsTypeOK'
  BY <1>1, <1>6, <1>7 DEF TypeOK, ClientsTypeOK
<1>10. CommandsInv'
  <2>1. \A q \in Session : q # s /\ cli[q].at \in {"push", "post"} => cli[q].id \in Id /\ cli[q].id # n
    BY <1>1, <1>2 DEF ClientsInv, CommandsInv, Doing, Id, n
  <2>2. ASSUME NEW q \in Session, cli'[q].at # "idle"
        PROVE  /\ cli'[q].id \in 1 .. minted'
               /\ cli'[q].name \in Name \cup Role
               /\ PathOf(cli'[q].name, cli'[q].id) \in Bodies'
               /\ cli'[q].at \in {"push", "post"} => request'[cli'[q].id].at = "none"
    BY <1>1, <1>2, <1>6, <1>7, <1>8, <2>1, <2>2 DEF ClientsInv, CommandsInv, Doing
  <2>3. \A p, q \in Session :
          cli'[p].at \in {"push", "post"} /\ cli'[q].at \in {"push", "post"} /\ cli'[p].id = cli'[q].id
            => p = q
    BY <1>7 DEF ClientsInv, CommandsInv
  <2>4. QED
    BY <2>2, <2>3 DEF CommandsInv, Doing, PathOf
<1>11. \A i \in DOMAIN rows : rows[i].id \in Id /\ rows[i].id # n
  BY <1>1, <1>2 DEF ClientsInv, RequestsInv, Row
<1>12. RequestsInv'
  <2>1. n <= minted /\ r.after <= Len(rows) /\ r.name \in Name \cup Role /\ r.path \in Path \cap Bodies
    BY <1>1, <1>2, <1>3, <1>4
  <2>2. ASSUME NEW m \in Id, request'[m].at # "none"
        PROVE  /\ m <= minted'
               /\ request'[m].name \in Name \cup Role /\ request'[m].path \in Path \cap Bodies'
               /\ request'[m].after <= Len(rows')
    BY <1>1, <1>6, <1>8, <2>1, <2>2 DEF ClientsInv, RequestsInv
  <2>3. ASSUME NEW m \in Id, request'[m].at \in {"offset", "insert"}, request'[m].name \in Name
        PROVE  \A i \in DOMAIN rows' : rows'[i].name = request'[m].name => request'[m].after < i
    BY <1>1, <1>4, <1>6, <2>3 DEF ClientsInv, RequestsInv
  <2>4. \A i \in DOMAIN rows' : request'[rows'[i].id].at = "ok"
    BY <1>1, <1>6, <1>11 DEF ClientsInv, RequestsInv
  <2>5. QED
    BY <2>2, <2>3, <2>4 DEF RequestsInv
<1>13. DuplicatesOverlap' /\ RowHasBody'
  BY <1>1, <1>6, <1>8, <1>11 DEF ClientsInv, DuplicatesOverlap, RowHasBody
<1>14. QED
  BY <1>9, <1>10, <1>12, <1>13 DEF ClientsInv

-----------------------------------------------------------------------------
(* A step of a request *)

\* A request that moves on, or is refused, and registers nothing.
LEMMA RequestMoves ==
  ASSUME TypeOK, ClientsInv, NEW n \in Id, UNCHANGED <<main, cli, repo, minted, rows>>,
         request' \in [Id -> Request],
         \A m \in Id : m # n => request'[m] = request[m],
         request[n].at \in {"check", "offset", "insert"},
         request'[n].at \in {"offset", "insert", "refused"},
         request'[n].name = request[n].name, request'[n].path = request[n].path,
         request'[n].after = request[n].after,
         request'[n].at \in {"offset", "insert"} /\ request[n].name \in Name =>
           \A i \in DOMAIN rows : rows[i].name = request[n].name => request[n].after < i
  PROVE  ClientsTypeOK' /\ ClientsInv'
<1>1. /\ rows \in Seq(Row) /\ \A i \in DOMAIN rows : rows[i] \in Row /\ rows[i].id \in Id
      /\ Bodies' = Bodies /\ cli' = cli /\ minted' = minted /\ rows' = rows
  BY RowFacts DEF TypeOK, ClientsTypeOK, Bodies, Tree
<1>2. \A i \in DOMAIN rows : rows[i].id # n /\ request'[rows[i].id] = request[rows[i].id]
  BY <1>1 DEF ClientsInv, RequestsInv
<1>3. ClientsTypeOK'
  BY <1>1 DEF TypeOK, ClientsTypeOK
<1>4. CommandsInv'
  <2>1. ASSUME NEW s \in Session, cli[s].at \in {"push", "post"} PROVE request'[cli[s].id].at = "none"
    <3>1. cli[s].id \in Id /\ request[cli[s].id].at = "none"
      BY <2>1, BoundsAssumption DEF ClientsInv, CommandsInv, Doing, Id, TypeOK, ClientsTypeOK
    <3>2. QED
      BY <3>1
  <2>2. QED
    BY <1>1, <2>1 DEF ClientsInv, CommandsInv, Doing, PathOf
<1>5. RequestsInv'
  <2>1. ASSUME NEW m \in Id, request'[m].at # "none"
        PROVE  /\ m <= minted'
               /\ request'[m].name \in Name \cup Role /\ request'[m].path \in Path \cap Bodies'
               /\ request'[m].after <= Len(rows')
    BY <1>1, <2>1 DEF ClientsInv, RequestsInv
  <2>2. ASSUME NEW m \in Id, request'[m].at \in {"offset", "insert"}, request'[m].name \in Name
        PROVE  \A i \in DOMAIN rows' : rows'[i].name = request'[m].name => request'[m].after < i
    BY <1>1, <2>2 DEF ClientsInv, RequestsInv
  <2>3. QED
    BY <1>1, <1>2, <2>1, <2>2 DEF ClientsInv, RequestsInv
<1>6. DuplicatesOverlap' /\ RowHasBody'
  BY <1>1, <1>2 DEF ClientsInv, DuplicatesOverlap, RowHasBody
<1>7. QED
  BY <1>3, <1>4, <1>5, <1>6 DEF ClientsInv

\* A request that registers: its row comes last.
LEMMA RowInserted ==
  ASSUME TypeOK, ClientsInv, NEW n \in Id, UNCHANGED <<main, cli, repo, minted>>,
         request[n].at = "insert",
         request' = [request EXCEPT ![n].at = "ok", ![n].offset = 0],
         rows' = Append(rows, [name |-> request[n].name, path |-> request[n].path, id |-> n])
  PROVE  ClientsTypeOK' /\ ClientsInv'
<1> DEFINE row == [name |-> request[n].name, path |-> request[n].path, id |-> n]
<1>1. /\ request \in [Id -> Request] /\ rows \in Seq(Row) /\ Len(rows) \in Nat
      /\ DOMAIN rows = 1 .. Len(rows) /\ \A i \in DOMAIN rows : rows[i] \in Row /\ rows[i].id \in Id
      /\ Bodies' = Bodies /\ cli' = cli /\ minted' = minted
  BY RowFacts DEF TypeOK, ClientsTypeOK, Bodies, Tree
<1>2. /\ request[n].name \in Name \cup Role /\ request[n].path \in Path \cap Bodies
      /\ request[n].after <= Len(rows)
  BY DEF ClientsInv, RequestsInv
<1>3. /\ request' \in [Id -> Request]
      /\ request'[n].at = "ok" /\ request'[n].name = request[n].name
      /\ request'[n].path = request[n].path /\ request'[n].after = request[n].after
      /\ \A m \in Id : m # n => request'[m] = request[m]
  <2> DEFINE x == [request[n] EXCEPT !.at = "ok", !.offset = 0]
  <2>1. /\ x \in Request /\ x.at = "ok" /\ x.name = request[n].name
        /\ x.path = request[n].path /\ x.after = request[n].after
    BY <1>1 DEF Request, RequestStep
  <2>2. request' = [request EXCEPT ![n] = x]
    BY <1>1
  <2> HIDE DEF x
  <2>3. QED
    BY <1>1, <2>1, <2>2
<1>4. row \in Row /\ row.name = request[n].name /\ row.path = request[n].path /\ row.id = n
  BY <1>2 DEF Row
<1>5. rows' = Append(rows, row)
  OBVIOUS
<1> HIDE DEF row
<1>6. /\ rows' \in Seq(Row) /\ Len(rows') = Len(rows) + 1 /\ DOMAIN rows' = 1 .. Len(rows) + 1
      /\ \A i \in DOMAIN rows : rows'[i] = rows[i]
      /\ rows'[Len(rows) + 1] = row
  BY <1>1, <1>4, <1>5, Appended
<1>7. \A i \in DOMAIN rows' : i \in DOMAIN rows \/ i = Len(rows) + 1
  BY <1>1, <1>6
<1>8. \A i \in DOMAIN rows : rows[i].id # n /\ request'[rows[i].id] = request[rows[i].id]
  BY <1>1, <1>3 DEF ClientsInv, RequestsInv
<1>9. ClientsTypeOK'
  BY <1>1, <1>3, <1>6 DEF TypeOK, ClientsTypeOK
<1>10. CommandsInv'
  <2>1. ASSUME NEW s \in Session, cli[s].at \in {"push", "post"} PROVE request'[cli[s].id].at = "none"
    <3>1. cli[s].id \in Id /\ request[cli[s].id].at = "none"
      BY <2>1, BoundsAssumption DEF ClientsInv, CommandsInv, Doing, Id, TypeOK, ClientsTypeOK
    <3>2. QED
      BY <1>3, <3>1
  <2>2. QED
    BY <1>1, <2>1 DEF ClientsInv, CommandsInv, Doing, PathOf
<1>11. RequestsInv'
  <2>1. ASSUME NEW m \in Id, request'[m].at # "none"
        PROVE  /\ m <= minted'
               /\ request'[m].name \in Name \cup Role /\ request'[m].path \in Path \cap Bodies'
               /\ request'[m].after <= Len(rows')
    <3>1. /\ request[m].at # "none" /\ request'[m].name = request[m].name
          /\ request'[m].path = request[m].path /\ request'[m].after = request[m].after
      BY <1>3, <2>1
    <3>2. request[m].after \in Nat
      BY <1>1 DEF Request
    <3>3. QED
      BY <1>1, <1>6, <3>1, <3>2 DEF ClientsInv, RequestsInv
  <2>2. ASSUME NEW m \in Id, request'[m].at \in {"offset", "insert"}, request'[m].name \in Name,
               NEW i \in DOMAIN rows', rows'[i].name = request'[m].name
        PROVE  request'[m].after < i
    <3>1. m # n /\ request'[m] = request[m] /\ request[m].after \in Nat
      BY <1>1, <1>3, <2>2 DEF Request
    <3>2. CASE i \in DOMAIN rows
      BY <1>6, <2>2, <3>1, <3>2 DEF ClientsInv, RequestsInv
    <3>3. CASE i = Len(rows) + 1
      BY <1>1, <2>2, <3>1, <3>3 DEF ClientsInv, RequestsInv
    <3>4. QED
      BY <1>7, <2>2, <3>2, <3>3
  <2>3. \A i \in DOMAIN rows' : request'[rows'[i].id].at = "ok"
    <3>1. \A i \in DOMAIN rows : request'[rows'[i].id].at = "ok"
      BY <1>6, <1>8 DEF ClientsInv, RequestsInv
    <3>2. request'[rows'[Len(rows) + 1].id].at = "ok"
      BY <1>3, <1>4, <1>6
    <3>3. QED
      BY <1>7, <3>1, <3>2
  <2>4. QED
    BY <2>1, <2>2, <2>3 DEF RequestsInv
<1>12. DuplicatesOverlap'
  <2>1. SUFFICES ASSUME NEW i \in DOMAIN rows', NEW j \in DOMAIN rows', i < j,
                        rows'[i].name \in Name, rows'[j].name = rows'[i].name
                 PROVE  request'[rows'[j].id].after < i
    BY DEF DuplicatesOverlap
  <2>2. i \in DOMAIN rows
    BY <1>1, <1>6, <2>1
  <2>3. CASE j \in DOMAIN rows
    BY <1>6, <1>8, <2>1, <2>2, <2>3 DEF ClientsInv, DuplicatesOverlap
  <2>4. CASE j = Len(rows) + 1
    BY <1>3, <1>4, <1>6, <2>1, <2>2, <2>4 DEF ClientsInv, RequestsInv
  <2>5. QED
    BY <1>7, <2>1, <2>3, <2>4
<1>13. RowHasBody'
  BY <1>1, <1>2, <1>4, <1>6, <1>7 DEF ClientsInv, RowHasBody
<1>14. QED
  BY <1>9, <1>10, <1>11, <1>12, <1>13 DEF ClientsInv

LEMMA ServeRequestStep ==
  ASSUME TypeOK, ClientsInv, NEW n \in Id, ServeRequest(n), UNCHANGED main
  PROVE  ClientsTypeOK' /\ ClientsInv'
<1>1. /\ request \in [Id -> Request] /\ rows \in Seq(Row) /\ Len(rows) \in Nat
      /\ DOMAIN rows = 1 .. Len(rows) /\ request[n] \in Request
  BY Elements DEF TypeOK, ClientsTypeOK
<1>2. CASE CheckName(n)
  <2> DEFINE a == IF request[n].name \in Role THEN "insert"
                  ELSE IF Named(request[n].name) = {} THEN "offset" ELSE "refused"
  <2>1. /\ request' = [request EXCEPT ![n].at = a] /\ request[n].at = "check"
        /\ a \in {"offset", "insert", "refused"}
        /\ a \in {"offset", "insert"} /\ request[n].name \in Name => Named(request[n].name) = {}
    BY <1>2, NamesAssumption DEF CheckName
  <2> HIDE DEF a
  <2>2. /\ request' \in [Id -> Request] /\ request'[n].at = a
        /\ request'[n].name = request[n].name /\ request'[n].path = request[n].path
        /\ request'[n].after = request[n].after
        /\ \A m \in Id : m # n => request'[m] = request[m]
    BY <1>1, <2>1 DEF Request, RequestStep
  <2>3. a \in {"offset", "insert"} /\ request[n].name \in Name =>
          \A i \in DOMAIN rows : rows[i].name = request[n].name => request[n].after < i
    BY <2>1 DEF Named
  <2>4. QED
    BY <1>2, <2>1, <2>2, <2>3, RequestMoves DEF CheckName
<1>3. CASE ReadOffset(n)
  <2>1. Offset \in Nat
    <3>1. IsFiniteSet(DOMAIN rows)
      BY <1>1, FS_Interval
    <3>2. IsFiniteSet({i \in DOMAIN rows : rows[i].name \in Name})
      BY <3>1, FS_Subset
    <3>3. QED
      BY <3>2, FS_CardinalityType DEF Offset
  <2> DEFINE x == [request[n] EXCEPT !.at = "insert", !.offset = Offset]
  <2>2. /\ x \in Request /\ x.at = "insert" /\ x.name = request[n].name
        /\ x.path = request[n].path /\ x.after = request[n].after
    BY <1>1, <2>1 DEF Request, RequestStep
  <2>3. request' = [request EXCEPT ![n] = x] /\ request[n].at = "offset"
    BY <1>1, <1>3 DEF ReadOffset
  <2> HIDE DEF x
  <2>4. /\ request' \in [Id -> Request] /\ request'[n] = x
        /\ \A m \in Id : m # n => request'[m] = request[m]
    BY <1>1, <2>2, <2>3
  <2>5. request[n].name \in Name =>
          \A i \in DOMAIN rows : rows[i].name = request[n].name => request[n].after < i
    BY <2>3 DEF ClientsInv, RequestsInv
  <2>6. QED
    BY <1>3, <2>2, <2>3, <2>4, <2>5, RequestMoves DEF ReadOffset
<1>4. CASE InsertRow(n) /\ rows' = rows
  <2> DEFINE x == [request[n] EXCEPT !.at = "refused", !.offset = 0]
  <2>1. /\ x \in Request /\ x.at = "refused" /\ x.name = request[n].name
        /\ x.path = request[n].path /\ x.after = request[n].after
    BY <1>1 DEF Request, RequestStep
  <2>2. rows # Append(rows, [name |-> request[n].name, path |-> request[n].path, id |-> n])
    <3> DEFINE row == [name |-> request[n].name, path |-> request[n].path, id |-> n]
    <3>1. row \in Row
      BY <1>4 DEF InsertRow, ClientsInv, RequestsInv, Row
    <3> HIDE DEF row
    <3> DEFINE longer == Append(rows, row)
    <3>2. Len(longer) = Len(rows) + 1
      BY <1>1, <3>1, Appended
    <3> HIDE DEF longer
    <3>3. rows # longer
      BY <1>1, <3>2
    <3>4. QED
      BY <3>3 DEF row, longer
  <2>3. request' = [request EXCEPT ![n] = x] /\ request[n].at = "insert"
    BY <1>1, <1>4, <2>2 DEF InsertRow
  <2> HIDE DEF x
  <2>4. /\ request' \in [Id -> Request] /\ request'[n] = x
        /\ \A m \in Id : m # n => request'[m] = request[m]
    BY <1>1, <2>1, <2>3
  <2>5. QED
    BY <1>4, <2>1, <2>3, <2>4, RequestMoves DEF InsertRow
<1>5. CASE InsertRow(n) /\ rows' # rows
  BY <1>5, RowInserted DEF InsertRow
<1>6. QED
  BY <1>2, <1>3, <1>4, <1>5 DEF ServeRequest

-----------------------------------------------------------------------------
(* The theorems *)

\* Nothing is pushed, registered or cloned yet.
LEMMA InitInv == Init => Inv
<1> SUFFICES ASSUME Init PROVE Inv
  OBVIOUS
<1>1. /\ main = << >> /\ rows = << >> /\ clock = 0 /\ minted = 0
      /\ Len(main) = 0 /\ DOMAIN main = {} /\ DOMAIN rows = {}
      /\ main \in Seq(CommitRecord) /\ rows \in Seq(Row)
  BY EmptySeq DEF Init
<1>2. /\ clone = [at |-> "none", head |-> 0] /\ lock = Nobody
      /\ booted \in Int /\ booted <= 0 /\ fetched = booted
      /\ reader = [r \in Reader |-> NoRead] /\ Debounce \in Nat \ {0}
  BY TimesAssumption DEF Init, ViewsInit
<1>3. ViewsTypeOK
  BY <1>1, <1>2 DEF ViewsTypeOK, Clone, NoRead, Read, ReadStep
<1>4. ViewsInv
  <2>1. \A r \in Reader : reader[r].at = "idle" /\ reader[r].began = 0 /\ reader[r].now = 0 /\ reader[r].seen = 0
    BY <1>2 DEF NoRead
  <2>2. CloneInv /\ ClockInv
    BY <1>1, <1>2, <2>1 DEF CloneInv, ClockInv, At
  <2>3. FetchInv
    BY <1>1, <1>2, <2>1 DEF FetchInv, Informed, Brings, At
  <2>4. QED
    BY <2>2, <2>3 DEF ViewsInv
<1>5. /\ cli = [s \in Session |-> NoCommand] /\ repo = [s \in Session |-> [base |-> 0, own |-> {}]]
      /\ request = [n \in Id |-> NoRequest]
  BY DEF Init
<1>6. ClientsTypeOK
  <2>1. NoCommand \in Command /\ NoRequest \in Request /\ [base |-> 0, own |-> {}] \in Repo
    BY DEF NoCommand, Command, CliStep, NoRequest, Request, RequestStep, Repo
  <2>2. QED
    BY <1>1, <1>5, <2>1, BoundsAssumption DEF ClientsTypeOK
<1>7. ClientsInv
  <2>1. (\A s \in Session : cli[s].at = "idle") /\ (\A n \in Id : request[n].at = "none")
    BY <1>5 DEF NoCommand, NoRequest
  <2>2. QED
    BY <1>1, <2>1 DEF ClientsInv, CommandsInv, RequestsInv, DuplicatesOverlap, RowHasBody, Doing
<1>8. QED
  BY <1>3, <1>4, <1>6, <1>7 DEF Inv, TypeOK

\* A step that the commands and requests do not take.
LEMMA ClientsStutter ==
  ASSUME TypeOK, ClientsInv, UNCHANGED <<main, clients>>
  PROVE  ClientsTypeOK' /\ ClientsInv'
<1>1. Bodies' = Bodies /\ cli' = cli /\ repo' = repo /\ minted' = minted /\ request' = request /\ rows' = rows
  BY DEF Bodies, Tree, clients
<1>2. QED
  BY <1>1 DEF TypeOK, ClientsTypeOK, ClientsInv, CommandsInv, RequestsInv, DuplicatesOverlap,
     RowHasBody, Doing, PathOf

\* A step of a command that talks to nobody.
LEMMA LocalStep ==
  ASSUME TypeOK, ClientsInv, NEW s \in Session, Local(s), UNCHANGED main
  PROVE  ClientsTypeOK' /\ ClientsInv'
<1>1. cli \in [Session -> Command] /\ repo \in [Session -> Repo]
  BY DEF TypeOK, ClientsTypeOK
<1>2. ASSUME NEW x \in Name \cup Role, CreateRef(s, x) \/ AddInputDoc(s, x)
      PROVE  ClientsTypeOK' /\ ClientsInv'
  BY <1>2, CommitBodyStep DEF CreateRef, AddInputDoc, Doing
<1>3. CASE PostRequest(s)
  BY <1>3, PostRequestStep
<1>4. CASE PostFails(s) \/ Answered(s) \/ GiveUp(s)
  <2>1. /\ cli' = [cli EXCEPT ![s] = NoCommand]
        /\ UNCHANGED <<repo, minted, request, rows>>
    BY <1>4 DEF PostFails, Answered, GiveUp, End
  <2>2. NoCommand \in Command /\ NoCommand.at = "idle"
    BY DEF NoCommand, Command, CliStep
  <2>3. /\ cli' \in [Session -> Command] /\ repo' \in [Session -> Repo]
        /\ \A q \in Session : cli'[q].at = "idle" \/ cli'[q] = cli[q]
    BY <1>1, <2>1, <2>2
  <2>4. Bodies \subseteq Bodies'
    BY <2>1, BodiesKept
  <2>5. QED
    BY <2>1, <2>3, <2>4, CommandsKept
<1>5. QED
  BY <1>2, <1>3, <1>4 DEF Local

\* A step of a command that reaches the remote, or fails to.
LEMMA RemoteCommandStep ==
  ASSUME Inv, NEW s \in Session, Push(s) \/ NotPushed(s) \/ SyncByHand(s), UNCHANGED <<clock, views>>
  PROVE  Inv'
<1>1. /\ TypeOK /\ ViewsTypeOK /\ ViewsInv /\ ClientsInv
      /\ cli \in [Session -> Command] /\ repo \in [Session -> Repo]
  BY DEF Inv, TypeOK, ClientsTypeOK
<1>2. UNCHANGED <<minted, request, rows>>
  BY DEF Push, NotPushed, SyncByHand
<1>3. /\ cli' \in [Session -> Command]
      /\ \A q \in Session : /\ cli'[q].name = cli[q].name /\ cli'[q].id = cli[q].id
                            /\ cli'[q].at = cli[q].at \/ (cli[q].at = "push" /\ cli'[q].at = "post")
  <2>1. cli' = cli \/ (cli[s].at = "push" /\ cli' = [cli EXCEPT ![s].at = "post"])
    BY DEF Push, NotPushed, SyncByHand, Continue, Doing
  <2>2. QED
    BY <1>1, <2>1 DEF Command, CliStep
<1>4. CASE Arrive(s)
  <2>1. ViewsTypeOK' /\ ViewsInv'
    BY <1>1, <1>4, ArriveStep, RemoteStep
  <2>2. ClientsTypeOK' /\ ClientsInv'
    BY <1>1, <1>2, <1>3, <1>4, ArriveStep, CommandsKept
  <2>3. QED
    BY <2>1, <2>2 DEF Inv, TypeOK
<1>5. CASE ~ Arrive(s)
  <2>1. /\ main' = main
        /\ repo' = repo \/ repo' = [repo EXCEPT ![s].base = Len(main)]
    BY <1>5 DEF Push, NotPushed, SyncByHand
  <2>2. /\ repo' \in [Session -> Repo]
        /\ \A q \in Session : repo'[q].own = repo[q].own
    <3>1. Len(main) \in Nat
      BY <1>1, Elements DEF ViewsTypeOK
    <3>2. QED
      BY <1>1, <2>1, <3>1 DEF Repo
  <2>3. ViewsTypeOK' /\ ViewsInv'
    BY <1>1, <2>1, TimeStep DEF ViewsTypeOK
  <2>4. ClientsTypeOK' /\ ClientsInv'
    BY <1>1, <1>2, <1>3, <2>1, <2>2, BodiesKept, CommandsKept
  <2>5. QED
    BY <2>3, <2>4 DEF Inv, TypeOK
<1>6. QED
  BY <1>4, <1>5

\* Every step keeps the invariant.
LEMMA StepInv == Inv /\ [Next]_vars => Inv'
<1> SUFFICES ASSUME Inv, [Next]_vars PROVE Inv'
  OBVIOUS
<1>1. TypeOK /\ ViewsTypeOK /\ ViewsInv /\ ClientsInv /\ clock \in Nat
  BY DEF Inv, TypeOK, ViewsTypeOK
<1>2. UNCHANGED <<main, clock, views>> => ViewsTypeOK' /\ ViewsInv'
  BY <1>1, TimeStep
<1>3. ASSUME NEW s \in Session, Local(s), UNCHANGED <<main, clock, views>> PROVE Inv'
  BY <1>1, <1>2, <1>3, LocalStep DEF Inv, TypeOK
<1>4. ASSUME NEW s \in Session, Push(s) \/ NotPushed(s) \/ SyncByHand(s), UNCHANGED <<clock, views>>
      PROVE  Inv'
  BY <1>4, RemoteCommandStep
<1>5. ASSUME NEW n \in Id, ServeRequest(n), UNCHANGED <<main, clock, views>> PROVE Inv'
  BY <1>1, <1>2, <1>5, ServeRequestStep DEF Inv, TypeOK
<1>6. ASSUME UNCHANGED <<main, clients>>, ViewsTypeOK', ViewsInv' PROVE Inv'
  BY <1>1, <1>6, ClientsStutter DEF Inv, TypeOK
<1>7. ASSUME NEW r \in Reader, AskForBody(r) \/ AskForRefs(r) PROVE Inv'
  <2>1. PICK p \in Path \cup {NoPath} : OpenView(r, p)
    <3>1. \A i \in DOMAIN rows : rows[i].path \in Path
      BY <1>1, RowFacts DEF Row
    <3>2. QED
      BY <1>7, <3>1 DEF AskForBody, AskForRefs
  <2>2. UNCHANGED <<main, clock, booted, clients>>
    BY <1>7 DEF AskForBody, AskForRefs
  <2>3. QED
    BY <1>1, <1>6, <2>1, <2>2, OpenViewStep
<1>8. ASSUME NEW r \in Reader, ServeRead(r), UNCHANGED <<main, clock, booted, clients>> PROVE Inv'
  BY <1>1, <1>6, <1>8, ServeReadStep
<1>9. CASE Restart /\ UNCHANGED <<main, clock, clients>>
  BY <1>1, <1>6, <1>9, RestartStep
<1>10. CASE Tick
  <2>1. UNCHANGED <<main, views, clients>> /\ clock' \in Nat /\ clock <= clock'
    BY <1>1, <1>10 DEF Tick
  <2>2. QED
    BY <1>1, <1>6, <2>1, TimeStep
<1>11. CASE UNCHANGED vars
  BY <1>1, <1>2, <1>6, <1>11 DEF vars
<1>12. QED
  BY <1>3, <1>4, <1>5, <1>7, <1>8, <1>9, <1>10, <1>11 DEF Next

\* The inductive invariant holds in every state.
THEOREM Invariance == Spec => []Inv
<1>1. QED
  BY InitInv, StepInv, PTL DEF Spec

\* Commands, checkouts, requests, rows, clone and reads keep their types.
THEOREM TypeCorrect == Spec => []TypeOK
<1>1. Inv => TypeOK
  BY DEF Inv
<1>2. QED
  BY <1>1, Invariance, PTL

\* Two rows of one name were asked for at the same time: a create-ref sent
\* when the name was registered is refused, whatever was retried or lost.
THEOREM DuplicatesOnlyOverlap == Spec => []DuplicatesOverlap
<1>1. Inv => DuplicatesOverlap
  BY DEF Inv, ClientsInv
<1>2. QED
  BY <1>1, Invariance, PTL

\* What is registered is on the remote or in a checkout that can push it.
THEOREM RegisteredBodyExists == Spec => []RowHasBody
<1>1. Inv => RowHasBody
  BY DEF Inv, ClientsInv
<1>2. QED
  BY <1>1, Invariance, PTL

\* A read finds what had been pushed a debounce window before it began: what
\* fetch_ref skips, shares or fails to fetch never hides it.
THEOREM PushedIsFound == Spec => []PushedBodyFound
<1>1. Inv => PushedBodyFound
  <2> SUFFICES ASSUME Inv, NEW r \in Reader, At(r, "view"), Awake(r),
                      Pushed(reader[r].path, reader[r].began - Debounce)
               PROVE  reader[r].path \in Tree(reader[r].sha)
    BY DEF PushedBodyFound
  <2>1. Covers(reader[r].sha, Window(r))
    BY DEF Inv, ViewsInv, FetchInv, Informed
  <2>2. /\ reader[r].began \in Nat /\ reader[r].sha \in Nat /\ Debounce \in Nat
        /\ DOMAIN main = 1 .. Len(main) /\ \A i \in DOMAIN main : main[i] \in CommitRecord
    BY TimesAssumption, Elements DEF Inv, TypeOK, ViewsTypeOK, Read
  <2>3. PICK i \in DOMAIN main :
          reader[r].path \in main[i].adds /\ main[i].at <= reader[r].began - Debounce
    BY DEF Pushed
  <2>4. main[i].at \in Nat
    BY <2>2 DEF CommitRecord
  <2>5. i \in 1 .. reader[r].sha
    BY <2>1, <2>2, <2>3, <2>4, Elements DEF Covers, Window
  <2>6. QED
    BY <2>3, <2>5 DEF Tree
<1>2. QED
  BY <1>1, Invariance, PTL

=============================================================================
