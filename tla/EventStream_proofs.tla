------------------------- MODULE EventStream_proofs -------------------------
(* The event log and what is published of it, for any number of threads,   *)
(* clients and events, and for rings and queues of any size.               *)
EXTENDS EventStream, FiniteSetTheorems, SequenceTheorems, TLAPS

-----------------------------------------------------------------------------
(* Bounded sequences *)

\* A bounded sequence is a sequence that is not too long.
LEMMA BoundedSequence ==
  ASSUME NEW S, NEW n \in Nat, NEW s
  PROVE  s \in SeqOf(S, n) <=> s \in Seq(S) /\ Len(s) <= n
<1>1. ASSUME s \in SeqOf(S, n) PROVE s \in Seq(S) /\ Len(s) <= n
  <2>1. PICK m \in 0 .. n : s \in [1 .. m -> S]
    BY <1>1 DEF SeqOf
  <2>2. QED
    BY <2>1, IsASeq, LenProperties
<1>2. ASSUME s \in Seq(S), Len(s) <= n PROVE s \in SeqOf(S, n)
  <2>1. Len(s) \in 0 .. n /\ s \in [1 .. Len(s) -> S]
    BY <1>2, LenProperties
  <2>2. QED
    BY <2>1 DEF SeqOf
<1>3. QED
  BY <1>1, <1>2

\* Nothing is short enough.
LEMMA NothingBounded ==
  ASSUME NEW S, NEW n \in Nat
  PROVE  << >> \in SeqOf(S, n)
<1> DEFINE none == << >>
<1>1. none \in Seq(S) /\ Len(none) <= n
  BY EmptySeq
<1> HIDE DEF none
<1>2. none \in SeqOf(S, n)
  BY <1>1, BoundedSequence
<1>3. QED
  BY <1>2 DEF none

\* The elements of a sequence.
LEMMA RangeIn ==
  ASSUME NEW S, NEW s \in Seq(S)
  PROVE  Range(s) \subseteq S
<1>1. \A i \in DOMAIN s : s[i] \in S
  BY ElementOfSeq, LenProperties
<1>2. QED
  BY <1>1 DEF Range

\* What is appended to a sequence joins its elements.
LEMMA AppendRange ==
  ASSUME NEW S, NEW s \in Seq(S), NEW e \in S
  PROVE  Range(Append(s, e)) = Range(s) \cup {e}
<1>1. /\ DOMAIN s = 1 .. Len(s) /\ Len(s) \in Nat
      /\ DOMAIN Append(s, e) = 1 .. Len(s) + 1
      /\ \A i \in 1 .. Len(s) : Append(s, e)[i] = s[i]
      /\ Append(s, e)[Len(s) + 1] = e
  BY AppendProperties, LenProperties
<1>2. QED
  BY <1>1 DEF Range

\* What is left of a sequence has no other elements.
LEMMA RestRange ==
  ASSUME NEW S, NEW s \in Seq(S), NEW k \in 1 .. Len(s)
  PROVE  /\ SubSeq(s, k + 1, Len(s)) \in Seq(S)
         /\ Len(SubSeq(s, k + 1, Len(s))) <= Len(s)
         /\ Range(SubSeq(s, k + 1, Len(s))) \subseteq Range(s)
BY DEF Range

\* A tail has no other elements, and is shorter.
LEMMA TailRange ==
  ASSUME NEW S, NEW s \in Seq(S), s # << >>
  PROVE  /\ Tail(s) \in Seq(S) /\ Len(Tail(s)) = Len(s) - 1
         /\ Range(Tail(s)) \subseteq Range(s)
BY DEF Range

\* deque(maxlen) takes a message and keeps its bound.
LEMMA PushRingKeepsBound ==
  ASSUME RingMax \in Nat \ {0}, NEW S, NEW buf \in SeqOf(S, RingMax), NEW n \in S
  PROVE  /\ PushRing(buf, n) \in SeqOf(S, RingMax)
         /\ Range(PushRing(buf, n)) \subseteq Range(buf) \cup {n}
<1>1. buf \in Seq(S) /\ Len(buf) <= RingMax /\ Len(buf) \in Nat
  BY BoundedSequence
<1>2. CASE Len(buf) < RingMax
  <2>1. PushRing(buf, n) = Append(buf, n)
    BY <1>2 DEF PushRing
  <2>2. Append(buf, n) \in Seq(S) /\ Len(Append(buf, n)) <= RingMax
    BY <1>1, <1>2
  <2>3. Range(Append(buf, n)) = Range(buf) \cup {n}
    BY <1>1, AppendRange, Zenon
  <2>4. PushRing(buf, n) \in SeqOf(S, RingMax)
    BY <2>1, <2>2, BoundedSequence
  <2>5. QED
    BY <2>1, <2>3, <2>4
<1>3. CASE ~ (Len(buf) < RingMax)
  <2>1. PushRing(buf, n) = Append(Tail(buf), n) /\ buf # << >>
    BY <1>1, <1>3 DEF PushRing
  <2>2. Tail(buf) \in Seq(S) /\ Len(Tail(buf)) = Len(buf) - 1 /\ Range(Tail(buf)) \subseteq Range(buf)
    BY <1>1, <2>1, TailRange
  <2>3. Append(Tail(buf), n) \in Seq(S) /\ Len(Append(Tail(buf), n)) <= RingMax
    BY <1>1, <2>2
  <2>4. Range(Append(Tail(buf), n)) = Range(Tail(buf)) \cup {n}
    <3>1. \A s \in Seq(S) : Range(Append(s, n)) = Range(s) \cup {n}
      BY AppendRange, Zenon
    <3>2. Tail(buf) \in Seq(S)
      BY <2>2
    <3>3. QED
      BY <3>1, <3>2, Zenon
  <2>5. PushRing(buf, n) \in SeqOf(S, RingMax)
    BY <2>1, <2>3, BoundedSequence
  <2>6. QED
    BY <2>1, <2>2, <2>4, <2>5
<1>4. QED
  BY <1>2, <1>3
-----------------------------------------------------------------------------
(* Types *)

\* The project's set is one that no request and no generator holds: there
\* are more identities than holders.
LEMMA FreshSetType ==
  ASSUME TypeOK
  PROVE  FreshSet \in SetId /\ \A c \in Client : stream[c].subs # FreshSet
<1> DEFINE held == {stream[c].subs : c \in Client}
           iterated == {req[t].subs : t \in Thread}
           held_of == [c \in Client |-> stream[c].subs]
           iterated_of == [t \in Thread |-> req[t].subs]
<1>1. IsFiniteSet(held) /\ Cardinality(held) <= Cardinality(Client)
  <2>1. held_of \in Surjection(Client, held)
    BY DEF Surjection
  <2>2. QED
    BY <2>1, ClientsAssumption, FS_Surjection
<1>2. IsFiniteSet(iterated) /\ Cardinality(iterated) <= Cardinality(Thread)
  <2>1. iterated_of \in Surjection(Thread, iterated)
    BY DEF Surjection
  <2>2. QED
    BY <2>1, ThreadsAssumption, FS_Surjection
<1>3. /\ Cardinality(Client) \in Nat /\ Cardinality(Thread) \in Nat
      /\ Cardinality(held) \in Nat /\ Cardinality(iterated) \in Nat
  BY <1>1, <1>2, ClientsAssumption, ThreadsAssumption, FS_CardinalityType
<1>4. /\ IsFiniteSet(held \cup iterated)
      /\ Cardinality(held \cup iterated) <= Cardinality(Client) + Cardinality(Thread)
  <2>1. /\ IsFiniteSet(held \cup iterated)
        /\ Cardinality(held \cup iterated)
             = Cardinality(held) + Cardinality(iterated) - Cardinality(held \cap iterated)
    BY <1>1, <1>2, FS_Union
  <2>2. Cardinality(held \cap iterated) \in Nat
    BY <1>1, FS_Intersection, FS_CardinalityType
  <2>3. QED
    BY <1>1, <1>2, <1>3, <2>1, <2>2
<1>5. IsFiniteSet(SetId) /\ Cardinality(SetId) = Cardinality(Client) + Cardinality(Thread) + 1
  <2> DEFINE n == Cardinality(Client) + Cardinality(Thread) + 1
  <2>1. n \in Nat /\ n >= 1 /\ SetId = 1 .. n
    BY <1>3 DEF SetId
  <2> HIDE DEF n
  <2>2. IsFiniteSet(1 .. n) /\ Cardinality(1 .. n) = n
    BY <2>1, FS_Interval
  <2>3. QED
    BY <2>1, <2>2 DEF n
<1>6. ~ (SetId \subseteq held \cup iterated)
  <2>1. SUFFICES ASSUME SetId \subseteq held \cup iterated PROVE FALSE
    OBVIOUS
  <2>2. Cardinality(SetId) <= Cardinality(held \cup iterated)
    BY <1>4, <2>1, FS_Subset
  <2>3. Cardinality(held \cup iterated) \in Nat
    BY <1>4, FS_CardinalityType
  <2>4. QED
    BY <1>3, <1>4, <1>5, <2>2, <2>3
<1>7. \E s \in SetId : (\A c \in Client : stream[c].subs # s) /\ (\A t \in Thread : req[t].subs # s)
  BY <1>6
<1>8. QED
  BY <1>7 DEF FreshSet

\* A set of queues is no larger than the set of clients.
LEMMA MembersSize ==
  ASSUME NEW s
  PROVE  Members(s) \in SUBSET Client /\ Cardinality(Members(s)) \in 0 .. Cardinality(Client)
<1>1. Members(s) \in SUBSET Client
  BY DEF Members
<1>2. /\ IsFiniteSet(Members(s)) /\ Cardinality(Members(s)) <= Cardinality(Client)
      /\ Cardinality(Client) \in Nat
  BY <1>1, ClientsAssumption, FS_Subset, FS_CardinalityType
<1>3. QED
  BY <1>1, <1>2, FS_CardinalityType

\* There is a thread, so the ring holds something.
LEMMA RingHolds ==
  ASSUME NEW t \in Thread
  PROVE  RingMax \in Nat \ {0}
BY ThreadsAssumption, RingAssumption, FS_EmptySet, FS_CardinalityType

\* The records before a request and before a stream.
LEMMA NoRequestType == NoRequest \in Request
<1>1. 0 \in 0 .. Cardinality(Client)
  BY ClientsAssumption, FS_CardinalityType
<1>2. QED
  BY <1>1, LogAssumption DEF NoRequest, Request, ReqStep

LEMMA NoStreamType == NoStream \in Stream
<1> DEFINE none == << >>
<1>1. /\ none \in SeqOf(1 .. MaxLog, QueueMax) /\ none \in SeqOf(1 .. MaxLog, RingMax)
      /\ 0 \in 0 .. MaxLog
  BY NothingBounded, QueueAssumption, RingAssumption, LogAssumption
<1>2. NoStream = [at |-> "away", since |-> 0, fresh |-> FALSE, subs |-> 0, member |-> FALSE,
                  queue |-> none, replay |-> none]
  BY DEF NoStream
<1> HIDE DEF none
<1>3. QED
  BY <1>1, <1>2 DEF Stream, StreamStep

\* The empty log satisfies the inductive invariant.
LEMMA InitInv == Init => Inv
<1> SUFFICES ASSUME Init PROVE Inv
  OBVIOUS
<1>1. NoRequest.at = "idle" /\ NoStream.queue = << >> /\ NoStream.replay = << >>
  BY DEF NoRequest, NoStream
<1>2. TypeOK
  <2>1. /\ << >> \in SeqOf(Event, MaxLog)
        /\ << >> \in SeqOf(1 .. MaxLog, RingMax)
    BY NothingBounded, LogAssumption, RingAssumption
  <2>2. log \in SeqOf(Event, MaxLog) /\ ring \in SeqOf(1 .. MaxLog, RingMax)
    BY <2>1 DEF Init
  <2>3. QED
    BY <2>2, NoRequestType, NoStreamType DEF Init, TypeOK
<1>3. RequestsInv
  BY <1>1, ThreadsAssumption DEF Init, RequestsInv, At
<1>4. RoomInv
  <2>1. Unfinished = {} /\ Len(log) = 0
    BY <1>1 DEF Init, Unfinished
  <2>2. QED
    BY <2>1, FS_EmptySet, LogAssumption DEF RoomInv
<1>5. OffsetsDense /\ IdsRegisteredOnce
  BY DEF Init, OffsetsDense, IdsRegisteredOnce
<1>6. OnlyCommittedPublished
  BY <1>1 DEF Init, OnlyCommittedPublished, Range
<1>7. QED
  BY <1>2, <1>3, <1>4, <1>5, <1>6 DEF Inv

-----------------------------------------------------------------------------
\* What the invariant says of the log and of one offset to come.
LEMMA LogFacts ==
  ASSUME TypeOK
  PROVE  /\ log \in Seq(Event) /\ Len(log) \in Nat /\ Len(log) <= MaxLog
         /\ DOMAIN log = 1 .. Len(log)
<1>1. log \in Seq(Event) /\ Len(log) <= MaxLog
  BY BoundedSequence, LogAssumption DEF TypeOK
<1>2. QED
  BY <1>1, LenProperties

\* A request that may still commit has room for its event.
LEMMA RoomForOne ==
  ASSUME TypeOK, RoomInv, NEW t \in Thread, t \in Unfinished
  PROVE  Len(log) + 1 \in 1 .. MaxLog
<1>1. IsFiniteSet(Unfinished) /\ Cardinality(Unfinished) \in Nat
  BY ThreadsAssumption, FS_Subset, FS_CardinalityType DEF Unfinished
<1>2. Cardinality(Unfinished) >= 1
  BY <1>1, FS_EmptySet
<1>3. QED
  BY <1>1, <1>2, LogFacts, LogAssumption DEF RoomInv

\* Every step keeps the types.
LEMMA StepType == Inv /\ [Next]_vars => TypeOK'
<1> SUFFICES ASSUME Inv, [Next]_vars PROVE TypeOK'
  OBVIOUS
<1>0. TypeOK /\ RequestsInv /\ RoomInv
  BY DEF Inv
<1> USE DEF At
<1>1. ASSUME NEW t \in Thread, NEW r \in Ref, BeginRequest(t, r) PROVE TypeOK'
  <2>1. [NoRequest EXCEPT !.at = "append", !.ref = r] \in Request
    BY NoRequestType DEF Request, ReqStep, NoRequest
  <2>2. QED
    BY <1>0, <1>1, <2>1 DEF BeginRequest, TypeOK, server
<1>2. ASSUME NEW t \in Thread, ReadOffset(t) PROVE TypeOK'
  <2>1. Len(log) + 1 \in 0 .. MaxLog
    BY <1>0, <1>2, RoomForOne DEF ReadOffset, Unfinished
  <2>2. [req[t] EXCEPT !.at = "insert", !.offset = Len(log) + 1] \in Request
    BY <1>0, <2>1, ZenonT(30) DEF TypeOK, Request, ReqStep
  <2>3. QED
    BY <1>0, <1>2, <2>2 DEF ReadOffset, TypeOK, server
<1>3. ASSUME NEW t \in Thread, Insert(t) PROVE TypeOK'
  <2>1. [req[t] EXCEPT !.at = "commit"] \in Request
    BY <1>0 DEF TypeOK, Request, ReqStep
  <2>2. QED
    BY <1>0, <1>3, <2>1 DEF Insert, Goto, TypeOK
<1>4. ASSUME NEW t \in Thread, FailInsert(t) PROVE TypeOK'
  BY <1>0, <1>4, NoRequestType DEF FailInsert, Finish, TypeOK, server
<1>5. ASSUME NEW t \in Thread, Rollback(t) PROVE TypeOK'
  BY <1>0, <1>5, NoRequestType DEF Rollback, Finish, TypeOK
<1>6. ASSUME NEW t \in Thread, Commit(t) PROVE TypeOK'
  <2>1. /\ [offset |-> req[t].offset, ref |-> req[t].ref] \in Event
        /\ Len(log) + 1 <= MaxLog
    BY <1>0, <1>6, RoomForOne, LogFacts, LogAssumption DEF Commit, Unfinished, RequestsInv, TypeOK, Request, Event
  <2>2. log' \in SeqOf(Event, MaxLog)
    <3>1. log' \in Seq(Event) /\ Len(log') = Len(log) + 1
      BY <1>0, <1>6, <2>1, LogFacts DEF Commit
    <3>2. QED
      BY <2>1, <3>1, BoundedSequence, LogAssumption
  <2>3. [req[t] EXCEPT !.at = "ring"] \in Request
    BY <1>0, ZenonT(30) DEF TypeOK, Request, ReqStep
  <2>4. \A c \in Client : [stream[c] EXCEPT !.fresh = FALSE] \in Stream
    BY <1>0 DEF TypeOK, Stream
  <2>5. QED
    BY <1>0, <1>6, <2>2, <2>3, <2>4 DEF Commit, Goto, TypeOK
<1>7. ASSUME NEW t \in Thread, PublishRing(t) PROVE TypeOK'
  <2>1. req[t].offset \in 1 .. MaxLog
    BY <1>0, <1>7, LogFacts, LogAssumption DEF PublishRing, RequestsInv
  <2>2. ring' \in SeqOf(1 .. MaxLog, RingMax)
    BY <1>0, <1>7, <2>1, RingHolds, PushRingKeepsBound DEF PublishRing, TypeOK
  <2>3. [req[t] EXCEPT !.at = "subscribers"] \in Request
    BY <1>0, ZenonT(30) DEF TypeOK, Request, ReqStep
  <2>4. QED
    BY <1>0, <1>7, <2>2, <2>3 DEF PublishRing, Goto, TypeOK
<1>8. ASSUME NEW t \in Thread, FanOut(t) PROVE TypeOK'
  <2> DEFINE subs == IF current = 0 THEN {} ELSE Members(current)
  <2>1. CASE subs = {}
    BY <1>0, <1>8, <2>1, NoRequestType DEF FanOut, Finish, TypeOK, server
  <2>2. CASE subs # {}
    <3>1. subs \in SUBSET Client /\ Cardinality(subs) \in 0 .. Cardinality(Client)
      BY <2>2, MembersSize
    <3> HIDE DEF subs
    <3>2. [req[t] EXCEPT !.at = "fan", !.subs = current, !.size = Cardinality(subs), !.todo = subs] \in Request
      BY <1>0, <3>1, ZenonT(30) DEF TypeOK, Request, ReqStep
    <3>3. req' = [req EXCEPT ![t].at = "fan", ![t].subs = current,
                             ![t].size = Cardinality(subs), ![t].todo = subs]
      BY <1>8, <2>2 DEF FanOut, subs
    <3>4. QED
      BY <1>0, <1>8, <3>2, <3>3 DEF FanOut, TypeOK, server
  <2>3. QED
    BY <2>1, <2>2
<1>9. ASSUME NEW t \in Thread, Put(t) PROVE TypeOK'
  <2>1. PICK c \in Members(req[t].subs) \ req[t].done :
          IF Len(stream[c].queue) < QueueMax
          THEN /\ stream' = [stream EXCEPT ![c].queue = Append(@, req[t].offset)]
               /\ req' = [req EXCEPT ![t].done = @ \cup {c}]
               /\ UNCHANGED missed
          ELSE /\ req' = [req EXCEPT ![t].done = @ \cup {c}, ![t].full = @ \cup {c}]
               /\ missed' = [missed EXCEPT ![c] = @ \cup {"slow"}]
               /\ UNCHANGED stream
    BY <1>9 DEF Put
  <2>2. c \in Client /\ req[t].offset \in 1 .. MaxLog
    BY <1>0, <1>9, LogFacts, LogAssumption DEF Put, Members, RequestsInv
  <2>3. /\ [req[t] EXCEPT !.done = @ \cup {c}] \in Request
        /\ [req[t] EXCEPT !.done = @ \cup {c}, !.full = @ \cup {c}] \in Request
    BY <1>0, <2>2 DEF TypeOK, Request
  <2>4. CASE Len(stream[c].queue) < QueueMax
    <3>1. Append(stream[c].queue, req[t].offset) \in SeqOf(1 .. MaxLog, QueueMax)
      <4>1. stream[c].queue \in Seq(1 .. MaxLog)
        BY <1>0, <2>2, BoundedSequence, QueueAssumption DEF TypeOK, Stream
      <4>2. /\ Append(stream[c].queue, req[t].offset) \in Seq(1 .. MaxLog)
            /\ Len(Append(stream[c].queue, req[t].offset)) <= QueueMax
        BY <2>2, <2>4, <4>1, QueueAssumption
      <4>3. QED
        BY <4>2, BoundedSequence, QueueAssumption
    <3>2. [stream[c] EXCEPT !.queue = Append(@, req[t].offset)] \in Stream
      BY <1>0, <2>2, <3>1 DEF TypeOK, Stream
    <3>3. QED
      BY <1>0, <1>9, <2>1, <2>2, <2>3, <2>4, <3>2 DEF Put, TypeOK, server
  <2>5. CASE ~ (Len(stream[c].queue) < QueueMax)
    <3>1. missed[c] \cup {"slow"} \in SUBSET Cause
      BY <1>0, <2>2 DEF TypeOK, Cause
    <3>2. QED
      BY <1>0, <1>9, <2>1, <2>2, <2>3, <2>5, <3>1 DEF Put, TypeOK, server
  <2>6. QED
    BY <2>4, <2>5
<1>10. ASSUME NEW t \in Thread, CutShort(t) PROVE TypeOK'
  <2>1. missed' \in [Client -> SUBSET Cause]
    BY <1>0, <1>10 DEF CutShort, TypeOK, Cause
  <2>2. QED
    BY <1>0, <1>10, <2>1, NoRequestType DEF CutShort, Finish, TypeOK, server
<1>11. ASSUME NEW t \in Thread, EndFan(t) PROVE TypeOK'
  <2>1. \A c \in Client : [stream[c] EXCEPT !.member = FALSE] \in Stream
    BY <1>0 DEF TypeOK, Stream
  <2>2. QED
    BY <1>0, <1>11, <2>1, NoRequestType DEF EndFan, Finish, TypeOK, server
<1>12. ASSUME NEW c \in Client, ReadSnapshot(c) PROVE TypeOK'
  <2>1. Len(log) \in 0 .. MaxLog
    BY <1>0, LogFacts, LogAssumption
  <2>2. [NoStream EXCEPT !.at = "snapshot", !.since = Len(log), !.fresh = TRUE] \in Stream
    BY <2>1, NoStreamType DEF Stream, StreamStep, NoStream
  <2>3. QED
    BY <1>0, <1>12, <2>2 DEF ReadSnapshot, TypeOK, server
<1>13. ASSUME NEW c \in Client, Register(c) PROVE TypeOK'
  <2> DEFINE s == IF current # 0 THEN current ELSE FreshSet
  <2>1. s \in SetId
    BY <1>0, FreshSetType DEF TypeOK
  <2> HIDE DEF s
  <2>2. [stream[c] EXCEPT !.at = "registered", !.subs = s, !.member = TRUE] \in Stream
    BY <1>0, <2>1 DEF TypeOK, Stream, StreamStep
  <2>3. /\ current' = s
        /\ stream' = [stream EXCEPT ![c].at = "registered", ![c].subs = s, ![c].member = TRUE]
    BY <1>13 DEF Register, s
  <2>4. stream' \in [Client -> Stream] /\ current' \in SetId \cup {0}
    BY <1>0, <2>1, <2>2, <2>3 DEF TypeOK
  <2>5. QED
    BY <1>0, <1>13, <2>4 DEF Register, TypeOK, server
<1>14. ASSUME NEW c \in Client, CopyRing(c) PROVE TypeOK'
  <2>1. /\ [stream[c] EXCEPT !.at = "open", !.replay = ring] \in Stream
        /\ [stream[c] EXCEPT !.at = "open", !.since = 0] \in Stream
    <3>1. stream[c] \in Stream /\ ring \in SeqOf(1 .. MaxLog, RingMax) /\ 0 \in 0 .. MaxLog
      BY <1>0, LogAssumption DEF TypeOK
    <3>2. QED
      BY <3>1 DEF Stream, StreamStep
  <2>2. stream' \in [Client -> Stream]
    BY <1>0, <1>14, <2>1 DEF CopyRing, TypeOK
  <2>3. QED
    BY <1>0, <1>14, <2>2 DEF CopyRing, TypeOK, server
<1>15. ASSUME NEW c \in Client, Deliver(c) PROVE TypeOK'
  <2>1. /\ stream[c].queue \in Seq(1 .. MaxLog) /\ Len(stream[c].queue) <= QueueMax
        /\ stream[c].replay \in Seq(1 .. MaxLog) /\ Len(stream[c].replay) <= RingMax
    BY <1>0, BoundedSequence, QueueAssumption, RingAssumption DEF TypeOK, Stream
  <2>2. ASSUME NEW k \in DOMAIN stream[c].replay,
               stream' = [stream EXCEPT ![c] =
                 IF \E n \in Range(SubSeq(stream[c].replay, k + 1, Len(stream[c].replay))) : n > stream[c].since
                 THEN [@ EXCEPT !.replay = SubSeq(stream[c].replay, k + 1, Len(stream[c].replay)), !.fresh = TRUE]
                 ELSE [@ EXCEPT !.replay = << >>, !.since = 0, !.fresh = TRUE]]
        PROVE  TypeOK'
    <3> DEFINE rest == SubSeq(stream[c].replay, k + 1, Len(stream[c].replay))
    <3>1. rest \in SeqOf(1 .. MaxLog, RingMax) /\ << >> \in SeqOf(1 .. MaxLog, RingMax)
      <4>1. k \in 1 .. Len(stream[c].replay)
        BY <2>1, <2>2, LenProperties
      <4>2. /\ rest \in Seq(1 .. MaxLog) /\ Len(rest) <= Len(stream[c].replay)
        BY <2>1, <4>1, RestRange
      <4>3. Len(rest) <= RingMax
        BY <2>1, <4>2, RingAssumption, LenProperties
      <4>4. << >> \in SeqOf(1 .. MaxLog, RingMax)
        BY NothingBounded, RingAssumption
      <4>5. QED
        BY <4>2, <4>3, <4>4, BoundedSequence, RingAssumption
    <3> HIDE DEF rest
    <3>2. /\ [stream[c] EXCEPT !.replay = rest, !.fresh = TRUE] \in Stream
          /\ [stream[c] EXCEPT !.replay = << >>, !.since = 0, !.fresh = TRUE] \in Stream
      <4> DEFINE none == << >>
      <4>1. stream[c] \in Stream /\ none \in SeqOf(1 .. MaxLog, RingMax) /\ 0 \in 0 .. MaxLog
        BY <1>0, <3>1, LogAssumption DEF TypeOK
      <4> HIDE DEF none
      <4>2. /\ [stream[c] EXCEPT !.replay = rest, !.fresh = TRUE] \in Stream
            /\ [stream[c] EXCEPT !.replay = none, !.since = 0, !.fresh = TRUE] \in Stream
        BY <3>1, <4>1 DEF Stream
      <4>3. QED
        BY <4>2 DEF none
    <3>3. stream' \in [Client -> Stream]
      BY <1>0, <2>2, <3>2 DEF TypeOK, rest
    <3>4. QED
      BY <1>0, <1>15, <3>3 DEF Deliver, TypeOK, server
  <2>3. ASSUME stream[c].queue # << >>,
               stream' = [stream EXCEPT ![c].queue = Tail(@), ![c].fresh = TRUE]
        PROVE  TypeOK'
    <3>1. Tail(stream[c].queue) \in SeqOf(1 .. MaxLog, QueueMax)
      <4>1. Tail(stream[c].queue) \in Seq(1 .. MaxLog) /\ Len(Tail(stream[c].queue)) = Len(stream[c].queue) - 1
        BY <2>1, <2>3, TailRange
      <4>2. Len(Tail(stream[c].queue)) <= QueueMax
        BY <2>1, <4>1, QueueAssumption, LenProperties
      <4>3. QED
        BY <4>1, <4>2, BoundedSequence, QueueAssumption
    <3>2. [stream[c] EXCEPT !.queue = Tail(@), !.fresh = TRUE] \in Stream
      BY <1>0, <3>1 DEF TypeOK, Stream
    <3>3. QED
      BY <1>0, <1>15, <2>3, <3>2 DEF Deliver, TypeOK, server
  <2>4. QED
    BY <1>15, <2>2, <2>3 DEF Deliver
<1>16. ASSUME NEW c \in Client, Disconnect(c) PROVE TypeOK'
  <2>1. \A t \in Thread : [req[t] EXCEPT !.todo = @ \ {c}, !.done = @ \ {c}, !.full = @ \ {c}] \in Request
    BY <1>0 DEF TypeOK, Request
  <2>2. QED
    BY <1>0, <1>16, <2>1, NoStreamType DEF Disconnect, TypeOK, server
<1>17. CASE UNCHANGED vars
  BY <1>0, <1>17 DEF TypeOK, vars
<1>18. QED
  BY <1>1, <1>2, <1>3, <1>4, <1>5, <1>6, <1>7, <1>8, <1>9, <1>10, <1>11, <1>12, <1>13, <1>14,
     <1>15, <1>16, <1>17 DEF Next, Serve, Loop

-----------------------------------------------------------------------------
(* The requests *)

\* Who may still commit, who publishes.
LEMMA StepRequests == Inv /\ [Next]_vars => RequestsInv'
<1> SUFFICES ASSUME Inv, [Next]_vars PROVE RequestsInv'
  OBVIOUS
<1>0. TypeOK /\ RequestsInv /\ RoomInv /\ req \in [Thread -> Request]
  BY DEF Inv, TypeOK
<1> USE DEF At
<1>1. ASSUME NEW t \in Thread, NEW r \in Ref, BeginRequest(t, r) PROVE RequestsInv'
  BY <1>0, <1>1 DEF BeginRequest, RequestsInv, NoRequest, Committed, server
<1>2. ASSUME NEW t \in Thread, ReadOffset(t) PROVE RequestsInv'
  BY <1>0, <1>2 DEF ReadOffset, RequestsInv, Request, Committed, server
<1>3. ASSUME NEW t \in Thread, Insert(t) PROVE RequestsInv'
  <2>1. /\ req' = [req EXCEPT ![t].at = "commit"] /\ writer' = t /\ log' = log
        /\ req[t].at = "insert" /\ writer = NoThread
        /\ req[t].offset = Len(log) + 1 /\ req[t].ref \notin Committed
    BY <1>3 DEF Insert, Goto
  <2>2. Committed' = Committed
    BY <2>1 DEF Committed
  <2>3. ASSUME NEW u \in Thread, u # t PROVE req'[u] = req[u] /\ req[u].at # "commit"
    BY <1>0, <2>1, <2>3, ThreadsAssumption DEF RequestsInv
  <2>4. /\ req'[t].at = "commit" /\ req'[t].ref = req[t].ref /\ req'[t].offset = req[t].offset
        /\ req[t].ref \in Ref
    BY <1>0, <2>1 DEF RequestsInv, Request
  <2>5. QED
    BY <1>0, <2>1, <2>2, <2>3, <2>4 DEF RequestsInv
<1>4. ASSUME NEW t \in Thread, FailInsert(t) PROVE RequestsInv'
  BY <1>0, <1>4 DEF FailInsert, Finish, RequestsInv, NoRequest, Committed, server
<1>5. ASSUME NEW t \in Thread, Rollback(t) PROVE RequestsInv'
  BY <1>0, <1>5, ThreadsAssumption DEF Rollback, Finish, RequestsInv, NoRequest, Committed
<1>6. ASSUME NEW t \in Thread, Commit(t) PROVE RequestsInv'
  <2>1. /\ req' = [req EXCEPT ![t].at = "ring"] /\ writer' = NoThread /\ req[t].at = "commit"
    BY <1>6 DEF Commit, Goto
  <2>2. writer = t /\ req[t].offset = Len(log) + 1 /\ req[t].ref \in Ref
    BY <1>0, <2>1 DEF RequestsInv
  <2>3. Len(log') = Len(log) + 1 /\ Len(log) \in Nat
    <3>1. [offset |-> req[t].offset, ref |-> req[t].ref] \in Event
      BY <1>0, <2>2, <1>6, RoomForOne DEF Commit, Unfinished, Event
    <3>2. QED
      BY <1>0, <1>6, <3>1, LogFacts DEF Commit
  <2>4. ASSUME NEW u \in Thread, u # t PROVE req'[u] = req[u] /\ req[u].at # "commit"
    BY <1>0, <2>1, <2>2, <2>4 DEF RequestsInv
  <2>5. /\ req'[t].at = "ring" /\ req'[t].ref = req[t].ref /\ req'[t].offset = req[t].offset
    BY <1>0, <2>1 DEF Request
  <2>6. ASSUME NEW u \in Thread
        PROVE  /\ req'[u].at # "idle" => req'[u].ref \in Ref
               /\ req'[u].at # "commit" /\ writer' # u
               /\ req'[u].at \in {"ring", "subscribers", "fan"} => req'[u].offset \in 1 .. Len(log')
    BY <1>0, <2>1, <2>2, <2>3, <2>4, <2>5, ThreadsAssumption DEF RequestsInv
  <2>7. QED
    BY <2>6 DEF RequestsInv
<1>7. ASSUME NEW t \in Thread, PublishRing(t) PROVE RequestsInv'
  BY <1>0, <1>7 DEF PublishRing, Goto, RequestsInv, Request, Committed
<1>8. ASSUME NEW t \in Thread, FanOut(t) PROVE RequestsInv'
  <2> DEFINE subs == IF current = 0 THEN {} ELSE Members(current)
  <2>1. CASE req' = [req EXCEPT ![t] = NoRequest]
    BY <1>0, <1>8, <2>1 DEF FanOut, RequestsInv, NoRequest, Committed, server
  <2>2. CASE req' = [req EXCEPT ![t].at = "fan", ![t].subs = current,
                                ![t].size = Cardinality(subs), ![t].todo = subs]
    <3> HIDE DEF subs
    <3>1. /\ log' = log /\ writer' = writer /\ req[t].at = "subscribers"
      BY <1>8 DEF FanOut, server
    <3>2. /\ req'[t].at = "fan" /\ req'[t].ref = req[t].ref /\ req'[t].offset = req[t].offset
          /\ \A u \in Thread : u # t => req'[u] = req[u]
      BY <1>0, <2>2 DEF Request
    <3>3. QED
      BY <1>0, <3>1, <3>2 DEF RequestsInv, Committed
  <2>3. QED
    BY <1>8, <2>1, <2>2 DEF FanOut, Finish
<1>9. ASSUME NEW t \in Thread, Put(t) PROVE RequestsInv'
  <2>1. /\ log' = log /\ writer' = writer
        /\ \E c \in Client : \/ req' = [req EXCEPT ![t].done = @ \cup {c}]
                             \/ req' = [req EXCEPT ![t].done = @ \cup {c}, ![t].full = @ \cup {c}]
    BY <1>9 DEF Put, server, Members
  <2>2. \A u \in Thread : /\ req'[u].at = req[u].at /\ req'[u].ref = req[u].ref
                          /\ req'[u].offset = req[u].offset
    BY <1>0, <2>1 DEF Request
  <2>3. QED
    BY <1>0, <2>1, <2>2 DEF RequestsInv, Committed
<1>10. ASSUME NEW t \in Thread, CutShort(t) PROVE RequestsInv'
  BY <1>0, <1>10 DEF CutShort, Finish, RequestsInv, NoRequest, Committed, server
<1>11. ASSUME NEW t \in Thread, EndFan(t) PROVE RequestsInv'
  BY <1>0, <1>11 DEF EndFan, Finish, RequestsInv, NoRequest, Committed, server
<1>12. ASSUME NEW c \in Client, Disconnect(c) PROVE RequestsInv'
  <2>1. /\ log' = log /\ writer' = writer
        /\ \A u \in Thread : /\ req'[u].at = req[u].at /\ req'[u].ref = req[u].ref
                             /\ req'[u].offset = req[u].offset
    BY <1>0, <1>12 DEF Disconnect, server, Request
  <2>2. QED
    BY <1>0, <2>1 DEF RequestsInv, Committed
<1>13. CASE UNCHANGED <<log, writer, req>>
  BY <1>0, <1>13 DEF RequestsInv, Committed
<1>14. QED
  BY <1>1, <1>2, <1>3, <1>4, <1>5, <1>6, <1>7, <1>8, <1>9, <1>10, <1>11, <1>12, <1>13
  DEF Next, Serve, Loop, vars, server, ReadSnapshot, Register, CopyRing, Deliver

\* The requests begun still fit in the log.
LEMMA StepRoom == Inv /\ [Next]_vars => RoomInv'
<1> SUFFICES ASSUME Inv, [Next]_vars PROVE RoomInv'
  OBVIOUS
<1>0. TypeOK /\ RequestsInv /\ RoomInv /\ req \in [Thread -> Request] /\ Len(log) \in Nat
  BY LogFacts DEF Inv, TypeOK
<1>u. IsFiniteSet(Unfinished) /\ Cardinality(Unfinished) \in Nat
  BY ThreadsAssumption, FS_Subset, FS_CardinalityType DEF Unfinished
<1> USE DEF At
<1>1. ASSUME NEW t \in Thread, NEW r \in Ref, BeginRequest(t, r) PROVE RoomInv'
  <2>1. Unfinished' = Unfinished \cup {t} /\ t \notin Unfinished
    BY <1>0, <1>1 DEF BeginRequest, Unfinished, NoRequest
  <2>2. Cardinality(Unfinished') = Cardinality(Unfinished) + 1
    BY <1>u, <2>1, FS_AddElement
  <2>3. QED
    BY <1>0, <1>u, <1>1, <2>2, LogAssumption DEF BeginRequest, server, RoomInv
<1>2. ASSUME NEW t \in Thread, Commit(t) PROVE RoomInv'
  <2>1. t \in Unfinished /\ Unfinished' = Unfinished \ {t}
    BY <1>0, <1>2 DEF Commit, Goto, Unfinished, Request
  <2>2. Cardinality(Unfinished') = Cardinality(Unfinished) - 1
    BY <1>u, <2>1, FS_RemoveElement
  <2>3. Len(log') = Len(log) + 1
    <3>1. [offset |-> req[t].offset, ref |-> req[t].ref] \in Event
      BY <1>0, <1>2, <2>1, RoomForOne DEF Commit, RequestsInv, Event
    <3>2. QED
      BY <1>0, <1>2, <3>1, LogFacts DEF Commit
  <2>4. QED
    BY <1>0, <1>u, <2>2, <2>3, LogAssumption DEF RoomInv
<1>3. ASSUME Unfinished' \subseteq Unfinished, log' = log PROVE RoomInv'
  <2>1. Cardinality(Unfinished') <= Cardinality(Unfinished) /\ Cardinality(Unfinished') \in Nat
    BY <1>u, <1>3, FS_Subset, FS_CardinalityType
  <2>2. QED
    BY <1>0, <1>u, <1>3, <2>1, LogAssumption DEF RoomInv
<1>4. ASSUME NEW t \in Thread, Serve(t) PROVE RoomInv'
  <2>1. CASE ReadOffset(t) \/ Insert(t)
    BY <1>0, <1>3, <2>1 DEF ReadOffset, Insert, Goto, Unfinished, server, Request
  <2>2. CASE FailInsert(t) \/ Rollback(t) \/ CutShort(t) \/ EndFan(t)
    BY <1>0, <1>3, <2>2 DEF FailInsert, Rollback, CutShort, EndFan, Finish, Unfinished, server, NoRequest
  <2>3. CASE PublishRing(t)
    BY <1>0, <1>3, <2>3 DEF PublishRing, Goto, Unfinished, Request
  <2>4. CASE FanOut(t)
    <3> DEFINE subs == IF current = 0 THEN {} ELSE Members(current)
    <3>1. \/ req' = [req EXCEPT ![t] = NoRequest]
          \/ req' = [req EXCEPT ![t].at = "fan", ![t].subs = current,
                                ![t].size = Cardinality(subs), ![t].todo = subs]
      BY <2>4 DEF FanOut, Finish
    <3> HIDE DEF subs
    <3>2. /\ req'[t].at \in {"idle", "fan"}
          /\ \A u \in Thread : u # t => req'[u] = req[u]
      BY <1>0, <3>1 DEF NoRequest, Request
    <3>3. Unfinished' \subseteq Unfinished
      BY <3>2 DEF Unfinished
    <3>4. QED
      BY <1>3, <2>4, <3>3 DEF FanOut, server
  <2>5. CASE Put(t)
    <3>1. \E c \in Client : \/ req' = [req EXCEPT ![t].done = @ \cup {c}]
                            \/ req' = [req EXCEPT ![t].done = @ \cup {c}, ![t].full = @ \cup {c}]
      BY <2>5 DEF Put, Members
    <3>2. \A u \in Thread : req'[u].at = req[u].at
      BY <1>0, <3>1, SMTT(30) DEF Request
    <3>3. QED
      BY <1>3, <2>5, <3>2 DEF Put, Unfinished, server
  <2>6. QED
    BY <1>2, <1>4, <2>1, <2>2, <2>3, <2>4, <2>5 DEF Serve
<1>5. ASSUME NEW c \in Client, Disconnect(c) PROVE RoomInv'
  BY <1>0, <1>3, <1>5 DEF Disconnect, Unfinished, server, Request
<1>6. CASE UNCHANGED <<log, req>>
  BY <1>3, <1>6 DEF Unfinished
<1>7. QED
  BY <1>1, <1>4, <1>5, <1>6 DEF Next, Loop, vars, server, ReadSnapshot, Register, CopyRing, Deliver

-----------------------------------------------------------------------------
(* The log *)

\* Only a commit changes the log, by the event of the request that holds the
\* write lock.
LEMMA LogSteps ==
  ASSUME Inv, [Next]_vars
  PROVE  \/ log' = log
         \/ \E t \in Thread :
              /\ Commit(t)
              /\ req[t].offset = Len(log) + 1 /\ req[t].ref \notin Committed
              /\ [offset |-> req[t].offset, ref |-> req[t].ref] \in Event
              /\ Len(log') = Len(log) + 1
              /\ DOMAIN log' = 1 .. Len(log) + 1
              /\ \A i \in DOMAIN log : log'[i] = log[i]
              /\ log'[Len(log) + 1] = [offset |-> req[t].offset, ref |-> req[t].ref]
<1>0. TypeOK /\ RequestsInv /\ RoomInv
  BY DEF Inv
<1>1. ASSUME NEW t \in Thread, Commit(t)
      PROVE  /\ req[t].offset = Len(log) + 1 /\ req[t].ref \notin Committed
             /\ [offset |-> req[t].offset, ref |-> req[t].ref] \in Event
             /\ Len(log') = Len(log) + 1
             /\ DOMAIN log' = 1 .. Len(log) + 1
             /\ \A i \in DOMAIN log : log'[i] = log[i]
             /\ log'[Len(log) + 1] = [offset |-> req[t].offset, ref |-> req[t].ref]
  <2>1. /\ req[t].offset = Len(log) + 1 /\ req[t].ref \notin Committed
        /\ [offset |-> req[t].offset, ref |-> req[t].ref] \in Event
    BY <1>0, <1>1, RoomForOne DEF Commit, At, Unfinished, RequestsInv, Event
  <2> DEFINE e == [offset |-> req[t].offset, ref |-> req[t].ref]
  <2>2. log' = Append(log, e) /\ e \in Event /\ log \in Seq(Event)
    BY <1>0, <1>1, <2>1, LogFacts DEF Commit
  <2> HIDE DEF e
  <2>3. /\ Len(log') = Len(log) + 1 /\ DOMAIN log' = 1 .. Len(log) + 1
        /\ \A i \in 1 .. Len(log) : log'[i] = log[i]
        /\ log'[Len(log) + 1] = e
    BY <2>2, AppendProperties, LenProperties
  <2>4. QED
    BY <1>0, <2>1, <2>3, LogFacts DEF e
<1>2. ASSUME NEW t \in Thread, Serve(t), ~ Commit(t) PROVE log' = log
  BY <1>2 DEF Serve, ReadOffset, Insert, FailInsert, Rollback, PublishRing, FanOut, Put, CutShort,
     EndFan, server
<1>3. ASSUME NEW t \in Thread, NEW r \in Ref, BeginRequest(t, r) PROVE log' = log
  BY <1>3 DEF BeginRequest, server
<1>4. ASSUME NEW c \in Client, ReadSnapshot(c) \/ Loop(c) \/ Disconnect(c) PROVE log' = log
  BY <1>4 DEF ReadSnapshot, Loop, Register, CopyRing, Deliver, Disconnect, server
<1>5. CASE UNCHANGED vars
  BY <1>5 DEF vars
<1>6. QED
  BY <1>1, <1>2, <1>3, <1>4, <1>5 DEF Next

LEMMA StepOffsets == Inv /\ [Next]_vars => OffsetsDense'
<1> SUFFICES ASSUME Inv, [Next]_vars PROVE OffsetsDense'
  OBVIOUS
<1>1. OffsetsDense /\ DOMAIN log = 1 .. Len(log) /\ Len(log) \in Nat
  BY LogFacts DEF Inv
<1>2. CASE log' = log
  BY <1>1, <1>2 DEF OffsetsDense
<1>3. CASE log' # log
  <2>1. PICK t \in Thread :
          /\ req[t].offset = Len(log) + 1
          /\ DOMAIN log' = 1 .. Len(log) + 1
          /\ \A i \in DOMAIN log : log'[i] = log[i]
          /\ log'[Len(log) + 1] = [offset |-> req[t].offset, ref |-> req[t].ref]
    BY <1>3, LogSteps
  <2>2. log'[Len(log) + 1].offset = Len(log) + 1
    BY <2>1
  <2>3. \A i \in DOMAIN log' : i \in DOMAIN log \/ i = Len(log) + 1
    BY <1>1, <2>1
  <2>4. QED
    BY <1>1, <2>1, <2>2, <2>3 DEF OffsetsDense
<1>4. QED
  BY <1>2, <1>3

LEMMA StepIds == Inv /\ [Next]_vars => IdsRegisteredOnce'
<1> SUFFICES ASSUME Inv, [Next]_vars PROVE IdsRegisteredOnce'
  OBVIOUS
<1>1. IdsRegisteredOnce /\ DOMAIN log = 1 .. Len(log) /\ Len(log) \in Nat
  BY LogFacts DEF Inv
<1>2. CASE log' = log
  BY <1>1, <1>2 DEF IdsRegisteredOnce
<1>3. CASE log' # log
  <2>1. PICK t \in Thread :
          /\ req[t].ref \notin Committed
          /\ DOMAIN log' = 1 .. Len(log) + 1
          /\ \A i \in DOMAIN log : log'[i] = log[i]
          /\ log'[Len(log) + 1] = [offset |-> req[t].offset, ref |-> req[t].ref]
    BY <1>3, LogSteps
  <2>2. \A i \in DOMAIN log : log'[i].ref # req[t].ref
    BY <2>1 DEF Committed
  <2>3. SUFFICES ASSUME NEW i \in DOMAIN log', NEW j \in DOMAIN log', log'[i].ref = log'[j].ref
                 PROVE  i = j
    BY DEF IdsRegisteredOnce
  <2>4. (i \in DOMAIN log \/ i = Len(log) + 1) /\ (j \in DOMAIN log \/ j = Len(log) + 1)
    BY <1>1, <2>1, <2>3
  <2>5. QED
    BY <1>1, <2>1, <2>2, <2>3, <2>4 DEF IdsRegisteredOnce
<1>4. QED
  BY <1>2, <1>3

-----------------------------------------------------------------------------
(* What is published *)

\* Everything published: the ring, the queues, the histories being replayed.
LEMMA PublishedParts ==
  ASSUME NEW buf, NEW str, NEW n
  PROVE  (\A k \in Range(buf) \cup UNION {Range(str[c].queue) \cup Range(str[c].replay) : c \in Client} : k <= n)
         <=> /\ \A k \in Range(buf) : k <= n
             /\ \A c \in Client : \A k \in Range(str[c].queue) \cup Range(str[c].replay) : k <= n
OBVIOUS

\* A request publishes after its commit, a stream hands on what is published.
LEMMA StepPublished == Inv /\ [Next]_vars => OnlyCommittedPublished'
<1> SUFFICES ASSUME Inv, [Next]_vars PROVE OnlyCommittedPublished'
  OBVIOUS
<1> DEFINE Known(s, n) == \A k \in Range(s.queue) \cup Range(s.replay) : k <= n
<1>0. TypeOK /\ RequestsInv /\ stream \in [Client -> Stream] /\ req \in [Thread -> Request]
  BY DEF Inv, TypeOK
<1>1. /\ \A k \in Range(ring) : k <= Len(log)
      /\ \A c \in Client : Known(stream[c], Len(log))
  BY PublishedParts DEF Inv, OnlyCommittedPublished
<1>2. SUFFICES /\ \A k \in Range(ring') : k <= Len(log')
               /\ \A c \in Client : Known(stream'[c], Len(log'))
  BY PublishedParts DEF OnlyCommittedPublished
<1>3. Range(ring) \subseteq 1 .. MaxLog /\ Len(log) \in Nat
  <2>1. ring \in Seq(1 .. MaxLog)
    BY <1>0, BoundedSequence, RingAssumption DEF TypeOK
  <2>2. QED
    BY <1>0, <2>1, LogFacts, RangeIn
<1>4. \A c \in Client : /\ stream[c].queue \in Seq(1 .. MaxLog) /\ Len(stream[c].queue) \in Nat
                        /\ stream[c].replay \in Seq(1 .. MaxLog) /\ Len(stream[c].replay) \in Nat
  BY <1>0, BoundedSequence, QueueAssumption, RingAssumption, LenProperties DEF Stream
<1>5. Range(<< >>) = {}
  BY DEF Range
<1>6. Known(NoStream, Len(log))
  BY <1>5 DEF NoStream
<1>7. CASE log' # log
  <2>1. /\ Len(log') = Len(log) + 1 /\ ring' = ring
        /\ \A c \in Client : stream'[c] = [stream[c] EXCEPT !.fresh = FALSE]
    BY <1>7, LogSteps DEF Commit
  <2>2. \A c \in Client : /\ stream'[c].queue = stream[c].queue
                          /\ stream'[c].replay = stream[c].replay
    BY <1>0, <2>1 DEF Stream
  <2>3. \A c \in Client : Range(stream[c].queue) \cup Range(stream[c].replay) \subseteq 1 .. MaxLog
    BY <1>4, RangeIn
  <2>4. \A k \in 1 .. MaxLog : k <= Len(log) => k <= Len(log) + 1
    BY <1>3, LogAssumption
  <2>5. \A k \in Range(ring) : k <= Len(log) + 1
    BY <1>1, <1>3, <2>4
  <2>6. \A c \in Client : Known(stream[c], Len(log) + 1)
    BY <1>1, <2>3, <2>4
  <2>7. QED
    BY <2>1, <2>2, <2>5, <2>6
<1>8. ASSUME NEW t \in Thread, PublishRing(t)
      PROVE  /\ \A k \in Range(ring') : k <= Len(log')
             /\ \A c \in Client : Known(stream'[c], Len(log'))
  <2>1. req[t].offset \in 1 .. MaxLog /\ req[t].offset <= Len(log)
    BY <1>0, <1>3, <1>8, LogFacts, LogAssumption DEF PublishRing, At, RequestsInv
  <2>2. Range(ring') \subseteq Range(ring) \cup {req[t].offset}
    <3> DEFINE S == 1 .. MaxLog
               n == req[t].offset
    <3>1. ring \in SeqOf(S, RingMax) /\ n \in S /\ ring' = PushRing(ring, n)
      BY <1>0, <1>8, <2>1 DEF PublishRing, TypeOK
    <3>2. RingMax \in Nat \ {0}
      BY RingHolds
    <3> HIDE DEF S, n
    <3>3. Range(PushRing(ring, n)) \subseteq Range(ring) \cup {n}
      BY <3>1, <3>2, PushRingKeepsBound
    <3>4. QED
      BY <3>1, <3>3 DEF n
  <2>3. log' = log /\ stream' = stream
    BY <1>8 DEF PublishRing
  <2>4. QED
    BY <1>1, <2>1, <2>2, <2>3
<1>9. ASSUME NEW t \in Thread, Put(t) PROVE \A c \in Client : Known(stream'[c], Len(log))
  <2>1. req[t].offset \in 1 .. MaxLog /\ req[t].offset <= Len(log)
    BY <1>0, <1>3, <1>9, LogFacts, LogAssumption DEF Put, At, RequestsInv
  <2>2. CASE UNCHANGED stream
    BY <1>1, <2>2
  <2>3. CASE ~ UNCHANGED stream
    <3>1. PICK d \in Client : stream' = [stream EXCEPT ![d].queue = Append(@, req[t].offset)]
      BY <1>9, <2>3 DEF Put, Members
    <3>2. Range(Append(stream[d].queue, req[t].offset)) = Range(stream[d].queue) \cup {req[t].offset}
      <4>1. \A q \in Seq(1 .. MaxLog), e \in 1 .. MaxLog : Range(Append(q, e)) = Range(q) \cup {e}
        BY AppendRange, Zenon
      <4>2. stream[d].queue \in Seq(1 .. MaxLog)
        BY <1>4
      <4>3. QED
        BY <2>1, <4>1, <4>2, Zenon
    <3>3. /\ stream'[d].queue = Append(stream[d].queue, req[t].offset)
          /\ stream'[d].replay = stream[d].replay
          /\ \A c \in Client : c # d => stream'[c] = stream[c]
      BY <1>0, <3>1 DEF Stream
    <3>4. Known(stream'[d], Len(log))
      BY <1>1, <2>1, <3>2, <3>3
    <3>5. QED
      BY <1>1, <3>3, <3>4
  <2>4. QED
    BY <2>2, <2>3
<1>10. ASSUME NEW t \in Thread, EndFan(t) PROVE \A c \in Client : Known(stream'[c], Len(log))
  <2>1. \A c \in Client : /\ stream'[c].queue = stream[c].queue
                          /\ stream'[c].replay = stream[c].replay
    BY <1>0, <1>10 DEF EndFan, Stream
  <2>2. QED
    BY <1>1, <2>1
<1>11. ASSUME NEW d \in Client, ReadSnapshot(d) \/ Disconnect(d)
       PROVE  \A c \in Client : Known(stream'[c], Len(log))
  <2>1. stream'[d].queue = NoStream.queue /\ stream'[d].replay = NoStream.replay
    BY <1>0, <1>11 DEF ReadSnapshot, Disconnect, NoStream
  <2>2. \A c \in Client : c # d => stream'[c] = stream[c]
    BY <1>0, <1>11 DEF ReadSnapshot, Disconnect
  <2>3. QED
    BY <1>1, <1>6, <2>1, <2>2
<1>12. ASSUME NEW d \in Client, Register(d) PROVE \A c \in Client : Known(stream'[c], Len(log))
  <2>1. \A c \in Client : /\ stream'[c].queue = stream[c].queue
                          /\ stream'[c].replay = stream[c].replay
    BY <1>0, <1>12 DEF Register, Stream
  <2>2. QED
    BY <1>1, <2>1
<1>13. ASSUME NEW d \in Client, CopyRing(d) PROVE \A c \in Client : Known(stream'[c], Len(log))
  <2>1. /\ stream'[d].queue = stream[d].queue
        /\ stream'[d].replay = ring \/ stream'[d].replay = stream[d].replay
        /\ \A c \in Client : c # d => stream'[c] = stream[c]
    BY <1>0, <1>13 DEF CopyRing, Stream
  <2>2. QED
    BY <1>1, <2>1
<1>14. ASSUME NEW d \in Client, Deliver(d) PROVE \A c \in Client : Known(stream'[c], Len(log))
  <2>1. \/ /\ stream'[d].queue = stream[d].queue
           /\ \/ stream'[d].replay = << >>
              \/ \E k \in DOMAIN stream[d].replay :
                   stream'[d].replay = SubSeq(stream[d].replay, k + 1, Len(stream[d].replay))
        \/ /\ stream[d].queue # << >>
           /\ stream'[d].queue = Tail(stream[d].queue)
           /\ stream'[d].replay = stream[d].replay
    <3> DEFINE none == << >>
               Rest(k) == SubSeq(stream[d].replay, k + 1, Len(stream[d].replay))
    <3> HIDE DEF none, Rest
    <3>1. CASE stream[d].queue # << >> /\ stream' = [stream EXCEPT ![d].queue = Tail(@), ![d].fresh = TRUE]
      BY <1>0, <3>1 DEF Stream
    <3>2. CASE \E k \in DOMAIN stream[d].replay :
                 stream'[d] = IF \E n \in Range(Rest(k)) : n > stream[d].since
                              THEN [stream[d] EXCEPT !.replay = Rest(k), !.fresh = TRUE]
                              ELSE [stream[d] EXCEPT !.replay = none, !.since = 0, !.fresh = TRUE]
      <4>1. PICK k \in DOMAIN stream[d].replay :
              \/ stream'[d] = [stream[d] EXCEPT !.replay = Rest(k), !.fresh = TRUE]
              \/ stream'[d] = [stream[d] EXCEPT !.replay = none, !.since = 0, !.fresh = TRUE]
        BY <3>2
      <4>2. /\ stream'[d].queue = stream[d].queue
            /\ stream'[d].replay = Rest(k) \/ stream'[d].replay = none
        BY <1>0, <4>1 DEF Stream
      <4>3. QED
        BY <4>2 DEF Rest, none
    <3>3. \/ stream[d].queue # << >> /\ stream' = [stream EXCEPT ![d].queue = Tail(@), ![d].fresh = TRUE]
          \/ \E k \in DOMAIN stream[d].replay :
               stream'[d] = IF \E n \in Range(Rest(k)) : n > stream[d].since
                            THEN [stream[d] EXCEPT !.replay = Rest(k), !.fresh = TRUE]
                            ELSE [stream[d] EXCEPT !.replay = none, !.since = 0, !.fresh = TRUE]
      BY <1>0, <1>14 DEF Deliver, Rest, none
    <3>4. QED
      BY <3>1, <3>2, <3>3
  <2>2. \A c \in Client : c # d => stream'[c] = stream[c]
    BY <1>0, <1>14 DEF Deliver
  <2>3. /\ Range(stream'[d].queue) \subseteq Range(stream[d].queue)
        /\ Range(stream'[d].replay) \subseteq Range(stream[d].replay)
    <3>1. ASSUME NEW k \in DOMAIN stream[d].replay
          PROVE  Range(SubSeq(stream[d].replay, k + 1, Len(stream[d].replay))) \subseteq Range(stream[d].replay)
      <4>1. k \in 1 .. Len(stream[d].replay)
        BY <1>4, LenProperties
      <4>2. QED
        BY <1>4, <4>1, RestRange
    <3>2. stream[d].queue # << >> => Range(Tail(stream[d].queue)) \subseteq Range(stream[d].queue)
      BY <1>4, TailRange
    <3>3. QED
      BY <1>5, <2>1, <3>1, <3>2
  <2>4. QED
    BY <1>1, <2>2, <2>3
<1>15. CASE log' = log /\ ~ (\E t \in Thread : PublishRing(t))
  <2>1. ring' = ring
    BY <1>15 DEF Next, Serve, Loop, vars, server, BeginRequest, ReadOffset, Insert, FailInsert, Rollback,
       Commit, FanOut, Put, CutShort, EndFan, ReadSnapshot, Register, CopyRing, Deliver, Disconnect
  <2>2. ASSUME NEW t \in Thread, NEW r \in Ref, BeginRequest(t, r) PROVE UNCHANGED stream
    BY <2>2 DEF BeginRequest
  <2>3. ASSUME NEW t \in Thread,
               \/ ReadOffset(t) \/ Insert(t) \/ FailInsert(t) \/ Rollback(t) \/ FanOut(t) \/ CutShort(t)
        PROVE  UNCHANGED stream
    BY <2>3 DEF ReadOffset, Insert, FailInsert, Rollback, FanOut, CutShort
  <2>4. ASSUME NEW t \in Thread, Commit(t) PROVE FALSE
    <3>1. Len(Append(log, [offset |-> req[t].offset, ref |-> req[t].ref])) = Len(log) + 1
      BY <1>0, LogFacts
    <3>2. QED
      BY <1>3, <1>15, <2>4, <3>1 DEF Commit
  <2>5. CASE UNCHANGED stream
    BY <1>1, <1>15, <2>1, <2>5
  <2>6. CASE ~ UNCHANGED stream
    <3>1. \/ \E t \in Thread : Put(t) \/ EndFan(t)
          \/ \E c \in Client : ReadSnapshot(c) \/ Disconnect(c) \/ Register(c) \/ CopyRing(c) \/ Deliver(c)
      BY <1>15, <2>2, <2>3, <2>4, <2>6 DEF Next, Serve, Loop, vars
    <3>2. \A c \in Client : Known(stream'[c], Len(log))
      BY <1>9, <1>10, <1>11, <1>12, <1>13, <1>14, <3>1
    <3>3. QED
      BY <1>1, <1>15, <2>1, <3>2
  <2>7. QED
    BY <2>5, <2>6
<1>16. QED
  BY <1>7, <1>8, <1>15

-----------------------------------------------------------------------------
(* What is on its way to a client *)

\* The late threads: they have yet to put an offset up to s into the ring.
Late(s) == {t \in Thread : At(t, "ring") /\ req[t].offset <= s}

\* However many late offsets came after it, an offset beyond s is in the ring
\* or about to be.
RingInv ==
  \A s \in 0 .. Len(log) - 1 :
    \/ \E t \in Thread : At(t, "ring") /\ req[t].offset > s
    \/ \E p \in DOMAIN ring : /\ ring[p] > s
                              /\ Len(ring) - p + Cardinality(Late(s)) < Cardinality(Thread)

Attached == {c \in Client : stream[c].at \in {"registered", "open"}}

\* Only a fan-out has served queues, and the full ones missed a message.
FanInv ==
  \A t \in Thread :
    /\ ~ At(t, "fan") => req[t].done = {} /\ req[t].full = {}
    /\ \A c \in req[t].full : c \in Attached /\ missed[c] # {}

\* A queue that missed nothing is in its set.
QueueInv ==
  \A c \in Client :
    /\ stream[c].member => c \in Attached
    /\ c \in Attached => stream[c].subs # 0 /\ (missed[c] = {} => stream[c].member)

\* The offset asked for is the one of the snapshot.
SinceInv ==
  \A c \in Client :
    stream[c].at \in {"snapshot", "registered"} =>
      stream[c].since <= Len(log) /\ (~ stream[c].fresh => stream[c].since < Len(log))

\* The thread will put its message into the queue of the client.
Coming(t, c) ==
  \/ req[t].at \in {"ring", "subscribers"}
  \/ At(t, "fan") /\ req[t].subs = stream[c].subs /\ c \in req[t].todo \ req[t].done

\* A client that is behind has a message on its way, or lost one.
ComingInv ==
  \A c \in Client :
    stream[c].at = "open" /\ ~ stream[c].fresh /\ missed[c] = {} /\ stream[c].subs = current =>
      \/ stream[c].replay # << >> \/ stream[c].queue # << >>
      \/ \E t \in Thread : Coming(t, c)


\* The late threads are finitely many.
LEMMA LateSize ==
  ASSUME NEW s
  PROVE  IsFiniteSet(Late(s)) /\ Cardinality(Late(s)) \in Nat
BY ThreadsAssumption, FS_Subset, FS_CardinalityType DEF Late

\* A late offset that goes into the ring leaves one late thread fewer; the
\* ring holds more than all the late offsets.
LEMMA LatePush ==
  ASSUME TypeOK, NEW t \in Thread, PublishRing(t), req[t].offset \in 1 .. MaxLog,
         NEW s \in Nat, req[t].offset <= s,
         NEW p \in DOMAIN ring, ring[p] > s,
         Len(ring) - p + Cardinality(Late(s)) < Cardinality(Thread)
  PROVE  \E q \in DOMAIN ring' : /\ ring'[q] > s
                                 /\ Len(ring') - q + Cardinality(Late(s)') < Cardinality(Thread)
<1> DEFINE n == req[t].offset
<1>1. /\ ring \in Seq(1 .. MaxLog) /\ Len(ring) \in Nat /\ Len(ring) <= RingMax
      /\ DOMAIN ring = 1 .. Len(ring)
  BY BoundedSequence, RingAssumption, LenProperties DEF TypeOK
<1>2. ring' = PushRing(ring, n)
  BY DEF PublishRing
<1>3. /\ t \in Late(s) /\ Late(s)' = Late(s) \ {t}
  <2>1. /\ req'[t].at = "subscribers" /\ At(t, "ring")
        /\ \A u \in Thread : u # t => req'[u] = req[u]
    BY DEF PublishRing, Goto, TypeOK, At, Request
  <2>2. QED
    BY <2>1 DEF Late, At
<1>4. /\ Cardinality(Late(s)) \in Nat /\ Cardinality(Late(s)) >= 1
      /\ Cardinality(Late(s)') = Cardinality(Late(s)) - 1
  <2>1. PICK late : late = Late(s)
    OBVIOUS
  <2>2. IsFiniteSet(late) /\ Cardinality(late) \in Nat
    BY <2>1, LateSize
  <2>3. Cardinality(late \ {t}) = Cardinality(late) - 1 /\ Cardinality(late) # 0
    BY <1>3, <2>1, <2>2, FS_RemoveElement, FS_EmptySet
  <2>4. Late(s)' = late \ {t}
    BY <1>3, <2>1
  <2>5. QED
    BY <2>1, <2>2, <2>3, <2>4
<1>5. Cardinality(Thread) \in Nat /\ Cardinality(Thread) <= RingMax /\ RingMax \in Nat
  BY ThreadsAssumption, RingAssumption, FS_CardinalityType
<1> HIDE DEF n
<1>6. n \in 1 .. MaxLog
  BY DEF n
<1>7. CASE Len(ring) < RingMax
  <2>1. ring' = Append(ring, n)
    BY <1>2, <1>7 DEF PushRing
  <2>2. /\ Len(ring') = Len(ring) + 1 /\ DOMAIN ring' = 1 .. Len(ring) + 1
        /\ \A i \in 1 .. Len(ring) : ring'[i] = ring[i]
    BY <1>1, <1>6, <2>1, AppendProperties, LenProperties
  <2>3. p \in DOMAIN ring' /\ ring'[p] > s
    BY <1>1, <2>2
  <2>4. Len(ring') - p + Cardinality(Late(s)') < Cardinality(Thread)
    BY <1>1, <1>4, <1>5, <2>2
  <2>5. QED
    BY <2>3, <2>4
<1>8. CASE ~ (Len(ring) < RingMax)
  <2>1. ring' = Append(Tail(ring), n) /\ ring # << >> /\ Len(ring) = RingMax
    <3>1. RingMax # 0
      BY RingHolds
    <3>2. Len(ring) = RingMax
      BY <1>1, <1>5, <1>8
    <3>3. Len(ring) # 0
      BY <3>1, <3>2
    <3>4. ring # << >>
      BY <3>3
    <3>5. ring' = Append(Tail(ring), n)
      BY <1>2, <1>8, <3>3 DEF PushRing
    <3>6. QED
      BY <3>2, <3>4, <3>5
  <2>2. /\ Tail(ring) \in Seq(1 .. MaxLog) /\ Len(Tail(ring)) = Len(ring) - 1
        /\ \A i \in 1 .. Len(ring) - 1 : Tail(ring)[i] = ring[i + 1]
    BY <1>1, <2>1, HeadTailProperties
  <2>3. /\ Len(ring') = Len(ring) /\ DOMAIN ring' = 1 .. Len(ring)
        /\ \A i \in 1 .. Len(ring) - 1 : ring'[i] = ring[i + 1]
    <3> DEFINE r == Tail(ring)
    <3>1. r \in Seq(1 .. MaxLog) /\ Len(r) = Len(ring) - 1 /\ ring' = Append(r, n)
      BY <2>1, <2>2
    <3> HIDE DEF r
    <3>2. /\ Len(ring') = Len(r) + 1 /\ \A i \in 1 .. Len(r) : ring'[i] = r[i]
          /\ DOMAIN ring' = 1 .. Len(r) + 1
      BY <1>6, <3>1, AppendProperties, LenProperties
    <3>3. \A i \in 1 .. Len(ring) - 1 : r[i] = ring[i + 1]
      BY <2>2 DEF r
    <3>4. QED
      <4>1. Len(r) + 1 = Len(ring) /\ 1 .. Len(r) = 1 .. Len(ring) - 1
        BY <1>1, <3>1
      <4>2. QED
        BY <3>2, <3>3, <4>1
  <2>4. p - 1 \in 1 .. Len(ring) - 1
    BY <1>1, <1>4, <1>5, <2>1
  <2>5. ring'[p - 1] = ring[p] /\ p - 1 \in DOMAIN ring'
    BY <1>1, <2>3, <2>4
  <2>6. Len(ring') - (p - 1) + Cardinality(Late(s)') < Cardinality(Thread)
    BY <1>1, <1>4, <1>5, <2>3
  <2>7. QED
    BY <2>5, <2>6
<1>9. QED
  BY <1>7, <1>8
\* The message pushed is the last of the ring.
LEMMA PushedLast ==
  ASSUME TypeOK, NEW t \in Thread, NEW n \in 1 .. MaxLog, ring' = PushRing(ring, n)
  PROVE  \E q \in DOMAIN ring' : q = Len(ring') /\ ring'[q] = n /\ q \in Nat
<1>1. /\ ring \in Seq(1 .. MaxLog) /\ Len(ring) \in Nat /\ Len(ring) <= RingMax
  BY BoundedSequence, RingAssumption, LenProperties DEF TypeOK
<1>2. ASSUME NEW r \in Seq(1 .. MaxLog), ring' = Append(r, n)
      PROVE  \E q \in DOMAIN ring' : q = Len(ring') /\ ring'[q] = n /\ q \in Nat
  <2>1. /\ Len(r) \in Nat /\ Len(ring') = Len(r) + 1 /\ DOMAIN ring' = 1 .. Len(r) + 1
        /\ ring'[Len(r) + 1] = n
    BY <1>2, AppendProperties, LenProperties
  <2>2. QED
    BY <2>1
<1>3. CASE Len(ring) < RingMax
  BY <1>1, <1>2, <1>3 DEF PushRing
<1>4. CASE ~ (Len(ring) < RingMax)
  <2>1. RingMax # 0 /\ RingMax \in Nat
    BY RingHolds, RingAssumption
  <2>2. ring # << >>
    BY <1>1, <1>4, <2>1
  <2>3. Tail(ring) \in Seq(1 .. MaxLog)
    BY <1>1, <2>2, HeadTailProperties
  <2>4. QED
    BY <1>2, <1>4, <2>3 DEF PushRing
<1>5. QED
  BY <1>3, <1>4

\* A step that leaves the log, the ring and the late threads alone.
LEMMA SameRing ==
  ASSUME RingInv, log' = log, ring' = ring,
         \A u \in Thread : /\ req'[u].at = "ring" <=> req[u].at = "ring"
                           /\ req[u].at = "ring" => req'[u].offset = req[u].offset
  PROVE  RingInv'
<1>1. \A s : Late(s)' = Late(s)
  BY DEF Late, At
<1>2. ASSUME NEW s \in 0 .. Len(log) - 1
      PROVE  \/ \E t \in Thread : At(t, "ring")' /\ req'[t].offset > s
             \/ \E p \in DOMAIN ring : /\ ring[p] > s
                                       /\ Len(ring) - p + Cardinality(Late(s)') < Cardinality(Thread)
  <2>1. CASE \E t \in Thread : At(t, "ring") /\ req[t].offset > s
    BY <2>1 DEF At
  <2>2. CASE \E p \in DOMAIN ring :
               ring[p] > s /\ Len(ring) - p + Cardinality(Late(s)) < Cardinality(Thread)
    <3>1. Cardinality(Late(s)') = Cardinality(Late(s))
      BY <1>1
    <3>2. QED
      BY <2>2, <3>1
  <2>3. QED
    BY <2>1, <2>2 DEF RingInv
<1>3. QED
  BY <1>2 DEF RingInv

\* A thread that puts an offset into the ring is late for it no more, so the
\* ring holds what the late threads have yet to push out.
LEMMA StepRing == Inv /\ RingInv /\ [Next]_vars => RingInv'
<1> SUFFICES ASSUME Inv, RingInv, [Next]_vars PROVE RingInv'
  OBVIOUS
<1>0. TypeOK /\ RequestsInv /\ req \in [Thread -> Request] /\ Len(log) \in Nat
  BY LogFacts DEF Inv, TypeOK
<1>1. ASSUME NEW t \in Thread, Commit(t) PROVE RingInv'
  <2>1. Len(log') = Len(log) + 1
    BY <1>0, <1>1, AppendProperties, LogFacts, RoomForOne
       DEF Commit, Inv, At, Unfinished, RequestsInv, Event
  <2>2. req[t].offset = Len(log) + 1
    BY <1>0, <1>1 DEF Commit, RequestsInv
  <2>3. req'[t].at = "ring" /\ req'[t].offset = Len(log) + 1
    BY <1>0, <1>1, <2>2 DEF Commit, Goto, Request
  <2>4. \A s \in 0 .. Len(log') - 1 : At(t, "ring")' /\ req'[t].offset > s
    BY <1>0, <2>1, <2>3 DEF At
  <2>5. QED
    BY <2>4 DEF RingInv
<1>2. ASSUME NEW t \in Thread, PublishRing(t) PROVE RingInv'
  <2>1. /\ log' = log /\ req[t].offset \in 1 .. MaxLog /\ At(t, "ring")
        /\ req'[t].at = "subscribers" /\ ring' = PushRing(ring, req[t].offset)
        /\ \A u \in Thread : u # t => req'[u] = req[u]
    BY <1>0, <1>2, LogFacts, LogAssumption DEF PublishRing, Goto, At, RequestsInv, Request
  <2>2. ASSUME NEW s \in 0 .. Len(log) - 1
        PROVE  \/ \E u \in Thread : At(u, "ring")' /\ req'[u].offset > s
               \/ \E q \in DOMAIN ring' :
                    ring'[q] > s /\ Len(ring') - q + Cardinality(Late(s)') < Cardinality(Thread)
    <3>1. CASE req[t].offset > s
      <4>1. \E q \in DOMAIN ring' : q = Len(ring') /\ ring'[q] = req[t].offset /\ q \in Nat
        BY <1>0, <2>1, PushedLast
      <4>2. Cardinality(Late(s)') < Cardinality(Thread) /\ Cardinality(Late(s)') \in Nat
        <5>1. Late(s)' \in SUBSET (Thread \ {t})
          BY <2>1 DEF Late, At
        <5>2. PICK late : late = Late(s)'
          OBVIOUS
        <5>3. late \subseteq Thread \ {t} /\ IsFiniteSet(Thread \ {t})
              /\ Cardinality(Thread \ {t}) = Cardinality(Thread) - 1
          BY <5>1, <5>2, ThreadsAssumption, FS_RemoveElement
        <5>4. Cardinality(late) <= Cardinality(Thread \ {t}) /\ IsFiniteSet(late)
          BY <5>3, FS_Subset
        <5>5. Cardinality(late) \in Nat /\ Cardinality(Thread) \in Nat
          BY <5>4, ThreadsAssumption, FS_CardinalityType
        <5>6. QED
          BY <5>2, <5>3, <5>4, <5>5
      <4>3. Cardinality(Thread) \in Nat
        BY ThreadsAssumption, FS_CardinalityType
      <4>4. QED
        BY <3>1, <4>1, <4>2, <4>3
    <3>2. CASE req[t].offset <= s /\ \E u \in Thread : At(u, "ring") /\ req[u].offset > s
      <4>1. PICK u \in Thread : At(u, "ring") /\ req[u].offset > s
        BY <3>2
      <4>2. u # t
        BY <1>0, <3>2, <4>1, LogAssumption DEF Request
      <4>3. QED
        BY <2>1, <4>1, <4>2 DEF At
    <3>3. CASE req[t].offset <= s /\ ~ \E u \in Thread : At(u, "ring") /\ req[u].offset > s
      <4>1. PICK p \in DOMAIN ring :
              ring[p] > s /\ Len(ring) - p + Cardinality(Late(s)) < Cardinality(Thread)
        BY <3>3 DEF RingInv
      <4>2. s \in Nat
        BY <1>0
      <4>3. QED
        BY <1>0, <1>2, <2>1, <3>3, <4>1, <4>2, LatePush
    <3>4. QED
      BY <1>0, <2>1, <3>1, <3>2, <3>3
  <2>3. QED
    BY <2>1, <2>2 DEF RingInv
<1>3. ASSUME NEW t \in Thread, NEW r \in Ref, BeginRequest(t, r) PROVE RingInv'
  BY <1>0, <1>3, SameRing DEF BeginRequest, At, server, Request, NoRequest
<1>4. ASSUME NEW t \in Thread, ReadOffset(t) \/ Insert(t) \/ FailInsert(t) \/ Rollback(t)
      PROVE  RingInv'
  <2>1. /\ log' = log /\ ring' = ring /\ req[t].at \in {"append", "insert", "commit"}
        /\ req'[t].at \in {"insert", "commit", "idle"}
        /\ \A u \in Thread : u # t => req'[u] = req[u]
    BY <1>0, <1>4 DEF ReadOffset, Insert, FailInsert, Rollback, Goto, Finish, At, server, Request,
       NoRequest
  <2>2. QED
    BY <2>1, SameRing
<1>5. ASSUME NEW t \in Thread, FanOut(t) PROVE RingInv'
  <2>1. /\ log' = log /\ ring' = ring /\ req[t].at = "subscribers"
        /\ req'[t].at \in {"fan", "idle"}
        /\ \A u \in Thread : u # t => req'[u] = req[u]
    BY <1>0, <1>5 DEF FanOut, Finish, At, server, Request, NoRequest
  <2>2. QED
    BY <2>1, SameRing
<1>6. ASSUME NEW t \in Thread, Put(t) \/ CutShort(t) \/ EndFan(t) PROVE RingInv'
  <2>1. /\ log' = log /\ ring' = ring /\ req[t].at = "fan"
        /\ req'[t].at \in {"fan", "idle"}
        /\ \A u \in Thread : u # t => req'[u] = req[u]
    <3>1. CASE CutShort(t) \/ EndFan(t)
      BY <1>0, <3>1 DEF CutShort, EndFan, Finish, At, server, Request, NoRequest
    <3>2. CASE Put(t)
      <4>1. PICK c \in Client : \/ req' = [req EXCEPT ![t].done = @ \cup {c}]
                               \/ req' = [req EXCEPT ![t].done = @ \cup {c}, ![t].full = @ \cup {c}]
        BY <3>2 DEF Put, Members
      <4>2. req'[t].at = req[t].at /\ \A u \in Thread : u # t => req'[u] = req[u]
        BY <1>0, <4>1 DEF Request
      <4>3. QED
        BY <3>2, <4>2 DEF Put, At, server
    <3>3. QED
      BY <1>6, <3>1, <3>2
  <2>2. QED
    BY <2>1, SameRing
<1>7. ASSUME NEW c \in Client, ReadSnapshot(c) \/ Loop(c) PROVE RingInv'
  <2>1. log' = log /\ ring' = ring /\ req' = req
    BY <1>7 DEF ReadSnapshot, Loop, Register, CopyRing, Deliver, server
  <2>2. QED
    BY <2>1, SameRing
<1>8. ASSUME NEW c \in Client, Disconnect(c) PROVE RingInv'
  <2>1. log' = log /\ ring' = ring
    BY <1>8 DEF Disconnect, server
  <2>2. \A u \in Thread : req'[u].at = req[u].at /\ req'[u].offset = req[u].offset
    BY <1>0, <1>8 DEF Disconnect, Request
  <2>3. QED
    BY <2>1, <2>2, SameRing
<1>9. CASE UNCHANGED vars
  BY <1>9, SameRing DEF vars
<1>10. QED
  BY <1>1, <1>2, <1>3, <1>4, <1>5, <1>6, <1>7, <1>8, <1>9 DEF Next, Serve

\* The part of the invariant that is about the clients.
ClientInv == FanInv /\ QueueInv /\ SinceInv /\ ComingInv

\* A step of a request before its fan-out.
LEMMA RequestMoves ==
  ASSUME ClientInv, UNCHANGED <<log, stream, current, missed>>, NEW t \in Thread,
         \A u \in Thread : u # t => req'[u] = req[u],
         req[t].at # "fan", req'[t].at # "fan", req'[t].done = {}, req'[t].full = {},
         req[t].at \in {"ring", "subscribers"} => req'[t].at \in {"ring", "subscribers"}
  PROVE  ClientInv'
<1>1. FanInv'
  BY DEF ClientInv, FanInv, At, Attached
<1>2. QueueInv' /\ SinceInv'
  BY DEF ClientInv, QueueInv, SinceInv, Attached
<1>3. \A c \in Client, u \in Thread : Coming(u, c) => Coming(u, c)'
  BY DEF Coming, At
<1>4. ComingInv'
  BY <1>3 DEF ClientInv, ComingInv
<1>5. QED
  BY <1>1, <1>2, <1>4 DEF ClientInv

\* The steps of a request up to its fan-out, the commit apart.
LEMMA RequestsKeep ==
  ASSUME Inv, ClientInv, NEW t \in Thread,
         \/ \E r \in Ref : BeginRequest(t, r)
         \/ ReadOffset(t) \/ Insert(t) \/ FailInsert(t) \/ Rollback(t) \/ PublishRing(t)
  PROVE  ClientInv'
<1>0. req \in [Thread -> Request]
  BY DEF Inv, TypeOK
<1>1. UNCHANGED <<log, stream, current, missed>> /\ \A u \in Thread : u # t => req'[u] = req[u]
  BY <1>0 DEF BeginRequest, ReadOffset, Insert, FailInsert, Rollback, PublishRing, Goto, Finish, server
<1>2. req[t].at # "fan" /\ req[t].done = {} /\ req[t].full = {}
  BY DEF BeginRequest, ReadOffset, Insert, FailInsert, Rollback, PublishRing, At, ClientInv, FanInv
<1>3. CASE \E r \in Ref : BeginRequest(t, r)
  <2>1. PICK r \in Ref : req'[t] = [NoRequest EXCEPT !.at = "append", !.ref = r]
    BY <1>0, <1>3 DEF BeginRequest
  <2>2. req'[t].at = "append" /\ req'[t].done = {} /\ req'[t].full = {} /\ req[t].at = "idle"
    BY <1>3, <2>1 DEF NoRequest, BeginRequest, At
  <2>3. QED
    BY <1>1, <1>2, <2>2, RequestMoves
<1>4. CASE ReadOffset(t) \/ Insert(t) \/ PublishRing(t)
  <2>1. /\ req'[t].done = req[t].done /\ req'[t].full = req[t].full
        /\ \/ req[t].at \in {"append", "insert"} /\ req'[t].at \in {"insert", "commit"}
           \/ req[t].at = "ring" /\ req'[t].at = "subscribers"
    BY <1>0, <1>4 DEF ReadOffset, Insert, PublishRing, Goto, At, Request
  <2>2. QED
    BY <1>1, <1>2, <2>1, RequestMoves
<1>5. CASE FailInsert(t) \/ Rollback(t)
  <2>1. /\ req'[t].at = "idle" /\ req'[t].done = {} /\ req'[t].full = {}
        /\ req[t].at \in {"insert", "commit"}
    BY <1>0, <1>5 DEF FailInsert, Rollback, Finish, At, NoRequest
  <2>2. QED
    BY <1>1, <1>2, <2>1, RequestMoves
<1>6. QED
  BY <1>3, <1>4, <1>5

\* After a commit every client is behind and a message is on its way to all.
LEMMA CommitKeeps ==
  ASSUME Inv, ClientInv, NEW t \in Thread, Commit(t)
  PROVE  ClientInv'
<1>0. TypeOK /\ req \in [Thread -> Request] /\ stream \in [Client -> Stream] /\ Len(log) \in Nat
  BY LogFacts DEF Inv, TypeOK
<1>1. /\ UNCHANGED <<current, missed>> /\ req'[t].at = "ring" /\ At(t, "commit")
      /\ req'[t].done = req[t].done /\ req'[t].full = req[t].full
      /\ \A u \in Thread : u # t => req'[u] = req[u]
  BY <1>0 DEF Commit, Goto, At, Request
<1>2. \A c \in Client : /\ stream'[c].at = stream[c].at /\ stream'[c].since = stream[c].since
                        /\ stream'[c].subs = stream[c].subs /\ stream'[c].member = stream[c].member
  BY <1>0 DEF Commit, Stream
<1>3. Len(log') = Len(log) + 1
  BY <1>0, AppendProperties, LogFacts, RoomForOne DEF Commit, Inv, At, Unfinished, RequestsInv, Event
<1>4. FanInv'
  BY <1>1, <1>2 DEF ClientInv, FanInv, At, Attached
<1>5. QueueInv'
  BY <1>1, <1>2 DEF ClientInv, QueueInv, Attached
<1>6. SinceInv'
  <2>1. \A c \in Client : stream[c].since \in Nat
    BY <1>0, LogAssumption DEF Stream
  <2>2. QED
    BY <1>0, <1>2, <1>3, <2>1 DEF ClientInv, SinceInv
<1>7. ComingInv'
  BY <1>1 DEF ComingInv, Coming
<1>8. QED
  BY <1>4, <1>5, <1>6, <1>7 DEF ClientInv

\* The set of the project holds every queue that missed nothing.
LEMMA FanOutKeeps ==
  ASSUME Inv, ClientInv, NEW t \in Thread, FanOut(t)
  PROVE  ClientInv'
<1>0. req \in [Thread -> Request]
  BY DEF Inv, TypeOK
<1>1. /\ UNCHANGED <<log, stream, current, missed>> /\ req[t].at = "subscribers"
      /\ req[t].done = {} /\ req[t].full = {}
  BY DEF FanOut, server, At, ClientInv, FanInv
<1>2. \A u \in Thread : u # t => req'[u] = req[u]
  BY <1>0 DEF FanOut, Finish
<1>3. req'[t].done = {} /\ req'[t].full = {}
  BY <1>0, <1>1 DEF FanOut, Finish, NoRequest, Request
<1>4. ASSUME NEW c \in Client, stream[c].at = "open", missed[c] = {}, stream[c].subs = current
      PROVE  Coming(t, c)'
  <2>1. current # 0 /\ c \in Members(current)
    BY <1>4 DEF ClientInv, QueueInv, Attached, Members
  <2>2. req' = [req EXCEPT ![t].at = "fan", ![t].subs = current,
                           ![t].size = Cardinality(Members(current)), ![t].todo = Members(current)]
    BY <2>1 DEF FanOut
  <2>3. req'[t].at = "fan" /\ req'[t].subs = current /\ req'[t].todo = Members(current)
    BY <1>0, <2>2 DEF Request
  <2>4. QED
    BY <1>1, <1>3, <1>4, <2>1, <2>3 DEF Coming, At
<1>5. FanInv'
  BY <1>1, <1>2, <1>3 DEF ClientInv, FanInv, At, Attached
<1>6. QueueInv' /\ SinceInv'
  BY <1>1 DEF ClientInv, QueueInv, SinceInv, Attached
<1>7. ComingInv'
  BY <1>1, <1>4 DEF ComingInv
<1>8. QED
  BY <1>5, <1>6, <1>7 DEF ClientInv

\* Serving a queue marks it as served, and as full if the message was lost.
LEMMA ServedFields ==
  ASSUME NEW q \in Request, NEW c, NEW r, r = [q EXCEPT !.done = @ \cup {c}]
  PROVE  /\ r.at = q.at /\ r.subs = q.subs /\ r.todo = q.todo
         /\ r.done = q.done \cup {c} /\ r.full = q.full
BY DEF Request

\* A queue that took an offset holds it, and the rest of its stream is as it was.
LEMMA QueuedFields ==
  ASSUME NEW v \in Stream, NEW n \in 1 .. MaxLog, NEW w,
         w = [v EXCEPT !.queue = Append(@, n)]
  PROVE  /\ w.at = v.at /\ w.subs = v.subs /\ w.member = v.member
         /\ w.since = v.since /\ w.fresh = v.fresh /\ w.queue = Append(v.queue, n)
BY DEF Stream

\* A message goes into the queue or is missed.
LEMMA PutKeeps ==
  ASSUME Inv, ClientInv, NEW t \in Thread, Put(t)
  PROVE  ClientInv'
<1>0. /\ req \in [Thread -> Request] /\ stream \in [Client -> Stream]
      /\ missed \in [Client -> SUBSET Cause]
  BY DEF Inv, TypeOK
<1>1. PICK c \in Members(req[t].subs) \ req[t].done :
        IF Len(stream[c].queue) < QueueMax
        THEN /\ stream' = [stream EXCEPT ![c].queue = Append(@, req[t].offset)]
             /\ req' = [req EXCEPT ![t].done = @ \cup {c}]
             /\ UNCHANGED missed
        ELSE /\ req' = [req EXCEPT ![t].done = @ \cup {c}, ![t].full = @ \cup {c}]
             /\ missed' = [missed EXCEPT ![c] = @ \cup {"slow"}]
             /\ UNCHANGED stream
  BY DEF Put
<1>2. c \in Client /\ stream[c].member /\ c \in Attached
  BY <1>1 DEF Members, ClientInv, QueueInv
<1>3. /\ UNCHANGED <<log, current>> /\ req[t].at = "fan"
      /\ \A u \in Thread : u # t => req'[u] = req[u]
      /\ \A d \in Client : d # c => stream'[d] = stream[d] /\ missed'[d] = missed[d]
  BY <1>0, <1>1 DEF Put, At, server
<1>4. /\ req'[t].at = "fan" /\ req'[t].subs = req[t].subs /\ req'[t].todo = req[t].todo
      /\ req'[t].done = req[t].done \cup {c}
      /\ \/ req'[t].full = req[t].full
         \/ req'[t].full = req[t].full \cup {c} /\ missed'[c] # {}
  <2>1. CASE Len(stream[c].queue) < QueueMax
    <3>1. req' = [req EXCEPT ![t].done = @ \cup {c}]
      BY <1>1, <2>1
    <3>2. req'[t] = [req[t] EXCEPT !.done = @ \cup {c}]
      BY <1>0, <3>1
    <3>3. /\ req'[t].at = req[t].at /\ req'[t].subs = req[t].subs
          /\ req'[t].todo = req[t].todo /\ req'[t].done = req[t].done \cup {c}
          /\ req'[t].full = req[t].full
      <4>1. PICK q \in Request : q = req[t]
        BY <1>0
      <4>2. PICK r : r = req'[t]
        OBVIOUS
      <4>3. r = [q EXCEPT !.done = @ \cup {c}]
        BY <3>2, <4>1, <4>2
      <4>4. /\ r.at = q.at /\ r.subs = q.subs /\ r.todo = q.todo
            /\ r.done = q.done \cup {c} /\ r.full = q.full
        BY <4>3, ServedFields
      <4>5. QED
        BY <4>1, <4>2, <4>4
    <3>4. QED
      BY <1>3, <3>3
  <2>2. CASE ~ (Len(stream[c].queue) < QueueMax)
    <3>1. missed'[c] # {}
      BY <1>0, <1>1, <1>2, <2>2
    <3>2. req' = [req EXCEPT ![t].done = @ \cup {c}, ![t].full = @ \cup {c}]
      BY <1>1, <2>2
    <3>3. req'[t] = [req[t] EXCEPT !.done = @ \cup {c}, !.full = @ \cup {c}]
      BY <1>0, <3>2
    <3>4. /\ req'[t].at = req[t].at /\ req'[t].subs = req[t].subs
          /\ req'[t].todo = req[t].todo /\ req'[t].done = req[t].done \cup {c}
          /\ req'[t].full = req[t].full \cup {c}
      <4>1. PICK q \in Request : q = req[t]
        BY <1>0
      <4>2. PICK r : r = req'[t]
        OBVIOUS
      <4>3. r = [q EXCEPT !.done = @ \cup {c}, !.full = @ \cup {c}]
        BY <3>3, <4>1, <4>2
      <4>4. /\ r.at = q.at /\ r.subs = q.subs /\ r.todo = q.todo
            /\ r.done = q.done \cup {c} /\ r.full = q.full \cup {c}
        BY <4>3 DEF Request
      <4>5. QED
        BY <4>1, <4>2, <4>4
    <3>5. QED
      BY <1>3, <3>1, <3>4
  <2>3. QED
    BY <2>1, <2>2
<1>5. /\ stream'[c].at = stream[c].at /\ stream'[c].subs = stream[c].subs
      /\ stream'[c].member = stream[c].member /\ stream'[c].since = stream[c].since
      /\ stream'[c].fresh = stream[c].fresh
      /\ missed'[c] = {} => missed[c] = {} /\ stream'[c].queue # << >>
  <2>1. CASE Len(stream[c].queue) < QueueMax
    <3>1. req[t].offset \in 1 .. MaxLog
      BY <1>3, LogFacts, LogAssumption DEF Inv, RequestsInv
    <3>2. PICK v \in Stream, n \in 1 .. MaxLog : v = stream[c] /\ n = req[t].offset
      BY <1>0, <1>2, <3>1
    <3>3. PICK w : w = stream'[c]
      OBVIOUS
    <3>4. w = [v EXCEPT !.queue = Append(@, n)] /\ missed' = missed
      BY <1>0, <1>1, <1>2, <2>1, <3>2, <3>3
    <3>5. /\ w.at = v.at /\ w.subs = v.subs /\ w.member = v.member
          /\ w.since = v.since /\ w.fresh = v.fresh /\ w.queue = Append(v.queue, n)
      BY <3>2, <3>4, QueuedFields
    <3>6. v.queue \in Seq(1 .. MaxLog)
      BY BoundedSequence, QueueAssumption DEF Stream
    <3>7. w.queue # << >>
      BY <3>5, <3>6
    <3>8. QED
      BY <3>2, <3>3, <3>4, <3>5, <3>7
  <2>2. CASE ~ (Len(stream[c].queue) < QueueMax)
    <3>1. stream' = stream /\ missed'[c] # {}
      BY <1>0, <1>1, <1>2, <2>2
    <3>2. QED
      BY <3>1
  <2>3. QED
    BY <2>1, <2>2
<1>7. FanInv'
  <2>1. Attached' = Attached
    BY <1>3, <1>5 DEF Attached
  <2>2. \A d \in Client : missed[d] # {} => missed'[d] # {}
    BY <1>3, <1>5
  <2>3. Attached \subseteq Client
    BY DEF Attached
  <2>4. QED
    BY <1>2, <1>3, <1>4, <2>1, <2>2, <2>3 DEF ClientInv, FanInv, At
<1>8. QueueInv' /\ SinceInv'
  BY <1>3, <1>5 DEF ClientInv, QueueInv, SinceInv, Attached
<1>9. ComingInv'
  <2>1. ASSUME NEW d \in Client, d # c, NEW u \in Thread, Coming(u, d) PROVE Coming(u, d)'
    BY <1>3, <1>4, <2>1 DEF Coming, At
  <2>2. QED
    BY <1>3, <1>5, <2>1 DEF ClientInv, ComingInv
<1>10. QED
  BY <1>7, <1>8, <1>9 DEF ClientInv

\* A fan-out that is cut short counts as a loss for all it has not served.
LEMMA CutShortKeeps ==
  ASSUME Inv, ClientInv, NEW t \in Thread, CutShort(t)
  PROVE  ClientInv'
<1>0. req \in [Thread -> Request] /\ missed \in [Client -> SUBSET Cause]
  BY DEF Inv, TypeOK
<1>1. /\ UNCHANGED <<log, stream, current>> /\ req[t].at = "fan"
      /\ req'[t].at = "idle" /\ req'[t].done = {} /\ req'[t].full = {}
      /\ \A u \in Thread : u # t => req'[u] = req[u]
  BY <1>0 DEF CutShort, Finish, At, server, NoRequest
<1>2. \A c \in Client : /\ missed[c] \subseteq missed'[c]
                        /\ c \in Members(req[t].subs) \ req[t].done => missed'[c] # {}
  BY <1>0 DEF CutShort
<1>3. FanInv'
  BY <1>1, <1>2 DEF ClientInv, FanInv, At, Attached
<1>4. QueueInv' /\ SinceInv'
  BY <1>1, <1>2 DEF ClientInv, QueueInv, SinceInv, Attached
<1>5. ComingInv'
  <2>1. ASSUME NEW c \in Client, stream[c].at = "open", missed'[c] = {}, NEW u \in Thread,
               Coming(u, c)
        PROVE  Coming(u, c)'
    <3>1. stream[c].member
      BY <1>2, <2>1 DEF ClientInv, QueueInv, Attached
    <3>2. u # t
      BY <1>1, <1>2, <2>1, <3>1 DEF Coming, At, Members
    <3>3. QED
      BY <1>1, <2>1, <3>2 DEF Coming, At
  <2>2. \A c \in Client : missed'[c] = {} => missed[c] = {}
    BY <1>2
  <2>3. QED
    BY <1>1, <2>1, <2>2 DEF ClientInv, ComingInv
<1>6. QED
  BY <1>3, <1>4, <1>5 DEF ClientInv

\* A fan-out that ends has served everybody it began with who is still there.
LEMMA EndFanKeeps ==
  ASSUME Inv, ClientInv, NEW t \in Thread, EndFan(t)
  PROVE  ClientInv'
<1>0. req \in [Thread -> Request] /\ stream \in [Client -> Stream]
  BY DEF Inv, TypeOK
<1>1. /\ UNCHANGED <<log, missed, current>> /\ req[t].at = "fan"
      /\ req[t].todo \cap Members(req[t].subs) \subseteq req[t].done
      /\ req'[t].at = "idle" /\ req'[t].done = {} /\ req'[t].full = {}
      /\ \A u \in Thread : u # t => req'[u] = req[u]
  BY <1>0 DEF EndFan, Finish, At, server, NoRequest
<1>2. \A c \in Client :
        /\ stream'[c].at = stream[c].at /\ stream'[c].subs = stream[c].subs
        /\ stream'[c].since = stream[c].since /\ stream'[c].fresh = stream[c].fresh
        /\ stream'[c].queue = stream[c].queue /\ stream'[c].replay = stream[c].replay
        /\ stream'[c].member => stream[c].member
        /\ c \notin req[t].full => stream'[c].member = stream[c].member
  BY <1>0 DEF EndFan, Stream
<1>3. FanInv'
  BY <1>1, <1>2 DEF ClientInv, FanInv, At, Attached
<1>4. QueueInv'
  <2>1. Attached' = Attached
    BY <1>2 DEF Attached
  <2>2. \A c \in Client : missed[c] = {} => c \notin req[t].full
    BY DEF ClientInv, FanInv
  <2>3. QED
    BY <1>1, <1>2, <2>1, <2>2 DEF ClientInv, QueueInv
<1>5. SinceInv'
  BY <1>1, <1>2 DEF ClientInv, SinceInv
<1>6. ComingInv'
  <2>1. ASSUME NEW c \in Client, stream[c].at = "open", missed[c] = {}, NEW u \in Thread,
               Coming(u, c)
        PROVE  Coming(u, c)'
    <3>1. stream[c].member
      BY <2>1 DEF ClientInv, QueueInv, Attached
    <3>2. u # t
      BY <1>1, <2>1, <3>1 DEF Coming, At, Members
    <3>3. QED
      BY <1>1, <1>2, <2>1, <3>2 DEF Coming, At
  <2>2. QED
    BY <1>1, <1>2, <2>1 DEF ClientInv, ComingInv
<1>7. QED
  BY <1>3, <1>4, <1>5, <1>6 DEF ClientInv

\* A client that reads the snapshot is up to date.
LEMMA ReadSnapshotKeeps ==
  ASSUME Inv, ClientInv, NEW d \in Client, ReadSnapshot(d)
  PROVE  ClientInv'
<1>0. stream \in [Client -> Stream] /\ Len(log) \in Nat
  BY LogFacts DEF Inv, TypeOK
<1>1. /\ UNCHANGED <<log, req, current, missed>> /\ stream[d].at = "away"
      /\ \A c \in Client : c # d => stream'[c] = stream[c]
      /\ stream'[d] = [NoStream EXCEPT !.at = "snapshot", !.since = Len(log), !.fresh = TRUE]
  BY <1>0 DEF ReadSnapshot, server
<1>2. /\ stream'[d].at = "snapshot" /\ stream'[d].since = Len(log) /\ stream'[d].fresh
      /\ ~ stream'[d].member
  BY <1>1 DEF NoStream
<1>3. Attached' = Attached
  BY <1>1, <1>2 DEF Attached
<1>4. FanInv'
  BY <1>1, <1>3 DEF ClientInv, FanInv, At
<1>5. QueueInv'
  <2>1. d \notin Attached
    BY <1>1 DEF Attached
  <2>2. \A c \in Client : c # d => /\ stream'[c].member = stream[c].member
                                  /\ stream'[c].subs = stream[c].subs
    BY <1>1
  <2>3. ASSUME NEW c \in Client, stream'[c].member PROVE c \in Attached
    <3>1. c # d /\ stream[c].member
      BY <1>2, <2>2, <2>3
    <3>2. QED
      BY <3>1 DEF ClientInv, QueueInv
  <2>4. ASSUME NEW c \in Client, c \in Attached
        PROVE  stream'[c].subs # 0 /\ (missed'[c] = {} => stream'[c].member)
    <3>1. c # d /\ stream'[c] = stream[c] /\ missed'[c] = missed[c]
      BY <1>1, <2>1, <2>4
    <3>2. stream[c].subs # 0 /\ (missed[c] = {} => stream[c].member)
      BY <2>4 DEF ClientInv, QueueInv
    <3>3. QED
      BY <3>1, <3>2
  <2>5. QED
    BY <1>3, <2>3, <2>4 DEF QueueInv
<1>6. SinceInv'
  <2>1. Len(log') = Len(log)
    BY <1>1
  <2>2. stream'[d].since <= Len(log')
    BY <1>0, <1>2, <2>1
  <2>3. QED
    BY <1>1, <1>2, <2>1, <2>2 DEF ClientInv, SinceInv
<1>7. ComingInv'
  <2>1. \A c \in Client, u \in Thread : c # d /\ Coming(u, c) => Coming(u, c)'
    BY <1>1 DEF Coming, At
  <2>2. QED
    BY <1>1, <1>2, <2>1 DEF ClientInv, ComingInv
<1>8. QED
  BY <1>4, <1>5, <1>6, <1>7 DEF ClientInv

\* A new set is no set that an older stream has.
LEMMA RegisterKeeps ==
  ASSUME Inv, ClientInv, NEW d \in Client, Register(d)
  PROVE  ClientInv'
<1>0. TypeOK /\ stream \in [Client -> Stream] /\ missed \in [Client -> SUBSET Cause]
  BY DEF Inv, TypeOK
<1>1. PICK s : /\ s = IF current # 0 THEN current ELSE FreshSet
               /\ current' = s
               /\ stream' = [stream EXCEPT ![d].at = "registered", ![d].subs = s, ![d].member = TRUE]
  BY DEF Register
<1>2. /\ UNCHANGED <<log, req>> /\ stream[d].at = "snapshot"
      /\ missed'[d] = {} /\ \A c \in Client : c # d => missed'[c] = missed[c]
  BY <1>0 DEF Register, server
<1>3. /\ stream'[d].at = "registered" /\ stream'[d].subs = s /\ stream'[d].member
      /\ stream'[d].since = stream[d].since /\ stream'[d].fresh = stream[d].fresh
      /\ \A c \in Client : c # d => stream'[c] = stream[c]
  BY <1>0, <1>1 DEF Stream
<1>4. s # 0 /\ (\A c \in Client : stream[c].subs = s => s = current)
  BY <1>0, <1>1, FreshSetType DEF SetId
<1>5. d \notin Attached
  BY <1>2 DEF Attached
<1>6. FanInv'
  BY <1>2, <1>3, <1>5 DEF ClientInv, FanInv, At, Attached
<1>7. QueueInv'
  BY <1>2, <1>3, <1>4 DEF ClientInv, QueueInv, Attached
<1>8. SinceInv'
  BY <1>2, <1>3 DEF ClientInv, SinceInv
<1>9. ComingInv'
  <2>1. \A c \in Client, u \in Thread : c # d /\ Coming(u, c) => Coming(u, c)'
    BY <1>2, <1>3 DEF Coming, At
  <2>2. \A c \in Client : c # d /\ stream'[c].subs = current' => stream[c].subs = current
    BY <1>1, <1>3, <1>4
  <2>3. QED
    BY <1>2, <1>3, <2>1, <2>2 DEF ClientInv, ComingInv
<1>10. QED
  BY <1>6, <1>7, <1>8, <1>9 DEF ClientInv

\* What the client missed between its snapshot and its registration is in
\* the ring, or its thread has yet to look for the queues.
LEMMA CopyRingKeeps ==
  ASSUME Inv, RingInv, ClientInv, NEW d \in Client, CopyRing(d)
  PROVE  ClientInv'
<1>0. /\ stream \in [Client -> Stream] /\ Len(log) \in Nat
  BY LogFacts DEF Inv, TypeOK
<1>1. /\ UNCHANGED <<log, req, current, missed>> /\ stream[d].at = "registered"
      /\ \A c \in Client : c # d => stream'[c] = stream[c]
  BY <1>0 DEF CopyRing, server
<1>2. /\ stream'[d].at = "open" /\ stream'[d].subs = stream[d].subs
      /\ stream'[d].member = stream[d].member /\ stream'[d].fresh = stream[d].fresh
      /\ (\E n \in Range(ring) : n > stream[d].since) => stream'[d].replay = ring
  BY <1>0 DEF CopyRing, Stream
<1>3. Attached' = Attached
  BY <1>1, <1>2 DEF Attached
<1>4. FanInv'
  BY <1>1, <1>3 DEF ClientInv, FanInv, At
<1>5. QueueInv'
  BY <1>1, <1>2, <1>3 DEF ClientInv, QueueInv
<1>6. SinceInv'
  BY <1>1, <1>2 DEF ClientInv, SinceInv
<1>7. ComingInv'
  <2>1. \A c \in Client, u \in Thread : c # d /\ Coming(u, c) => Coming(u, c)'
    BY <1>1 DEF Coming, At
  <2>2. ASSUME ~ stream[d].fresh
        PROVE  stream'[d].replay # << >> \/ \E u \in Thread : Coming(u, d)'
    <3>1. stream[d].since \in 0 .. Len(log) - 1
      BY <1>0, <1>1, <2>2, LogAssumption DEF ClientInv, SinceInv, Stream
    <3>2. CASE \E u \in Thread : At(u, "ring") /\ req[u].offset > stream[d].since
      BY <1>1, <3>2 DEF Coming, At
    <3>3. CASE \E p \in DOMAIN ring : ring[p] > stream[d].since
      <4>1. \E n \in Range(ring) : n > stream[d].since
        BY <3>3 DEF Range
      <4>2. ring # << >>
        BY <3>3
      <4>3. QED
        BY <1>2, <4>1, <4>2
    <3>4. QED
      BY <3>1, <3>2, <3>3 DEF RingInv
  <2>3. QED
    BY <1>1, <1>2, <2>1, <2>2 DEF ClientInv, ComingInv
<1>8. QED
  BY <1>4, <1>5, <1>6, <1>7 DEF ClientInv

\* A client that gets a message reads the structure again.
LEMMA DeliverKeeps ==
  ASSUME Inv, ClientInv, NEW d \in Client, Deliver(d)
  PROVE  ClientInv'
<1>0. stream \in [Client -> Stream]
  BY DEF Inv, TypeOK
<1>1. /\ UNCHANGED <<log, req, current, missed>> /\ stream[d].at = "open"
      /\ \A c \in Client : c # d => stream'[c] = stream[c]
  BY <1>0 DEF Deliver, server
<1>2. /\ stream'[d].at = "open" /\ stream'[d].subs = stream[d].subs
      /\ stream'[d].member = stream[d].member /\ stream'[d].fresh
  <2> DEFINE none == << >>
             Rest(k) == SubSeq(stream[d].replay, k + 1, Len(stream[d].replay))
  <2>1. \/ stream' = [stream EXCEPT ![d].queue = Tail(@), ![d].fresh = TRUE]
        \/ \E k \in DOMAIN stream[d].replay :
             \/ stream'[d] = [stream[d] EXCEPT !.replay = Rest(k), !.fresh = TRUE]
             \/ stream'[d] = [stream[d] EXCEPT !.replay = none, !.since = 0, !.fresh = TRUE]
    BY <1>0 DEF Deliver
  <2> HIDE DEF none, Rest
  <2>2. QED
    BY <1>0, <1>1, <2>1 DEF Stream
<1>3. Attached' = Attached
  BY <1>1, <1>2 DEF Attached
<1>4. FanInv'
  BY <1>1, <1>3 DEF ClientInv, FanInv, At
<1>5. QueueInv'
  BY <1>1, <1>2, <1>3 DEF ClientInv, QueueInv
<1>6. SinceInv'
  BY <1>1, <1>2 DEF ClientInv, SinceInv
<1>7. ComingInv'
  <2>1. \A c \in Client, u \in Thread : c # d /\ Coming(u, c) => Coming(u, c)'
    BY <1>1 DEF Coming, At
  <2>2. QED
    BY <1>1, <1>2, <2>1 DEF ClientInv, ComingInv
<1>8. QED
  BY <1>4, <1>5, <1>6, <1>7 DEF ClientInv

\* A client that leaves is in no fan-out any more.
LEMMA DisconnectKeeps ==
  ASSUME Inv, ClientInv, NEW d \in Client, Disconnect(d)
  PROVE  ClientInv'
<1>0. /\ req \in [Thread -> Request] /\ stream \in [Client -> Stream]
      /\ missed \in [Client -> SUBSET Cause]
  BY DEF Inv, TypeOK
<1>1. /\ UNCHANGED log /\ current' \in {0, current}
      /\ stream'[d] = NoStream
      /\ \A c \in Client : c # d => stream'[c] = stream[c] /\ missed'[c] = missed[c]
  BY <1>0 DEF Disconnect, server
<1>2. stream'[d].at = "away" /\ ~ stream'[d].member
  BY <1>1 DEF NoStream
<1>3. \A u \in Thread :
        /\ req'[u].at = req[u].at /\ req'[u].subs = req[u].subs
        /\ req'[u].todo = req[u].todo \ {d} /\ req'[u].done = req[u].done \ {d}
        /\ req'[u].full = req[u].full \ {d}
  BY <1>0 DEF Disconnect, Request
<1>4. Attached' = Attached \ {d}
  BY <1>1, <1>2 DEF Attached
<1>5. FanInv'
  <2>1. \A u \in Thread : \A c \in req'[u].full : c \in Client /\ c # d
    BY <1>0, <1>3 DEF Request
  <2>2. QED
    BY <1>1, <1>3, <1>4, <2>1 DEF ClientInv, FanInv, At
<1>6. QueueInv'
  BY <1>1, <1>2, <1>4 DEF ClientInv, QueueInv
<1>7. SinceInv'
  BY <1>1, <1>2 DEF ClientInv, SinceInv
<1>8. ComingInv'
  <2>1. \A c \in Client, u \in Thread : c # d /\ Coming(u, c) => Coming(u, c)'
    BY <1>1, <1>3 DEF Coming, At
  <2>2. ASSUME NEW c \in Client, c # d, stream[c].at = "open", stream[c].subs = current'
        PROVE  stream[c].subs = current
    BY <1>1, <2>2 DEF ClientInv, QueueInv, Attached
  <2>3. QED
    BY <1>1, <1>2, <2>1, <2>2 DEF ClientInv, ComingInv
<1>9. QED
  BY <1>5, <1>6, <1>7, <1>8 DEF ClientInv

\* A stutter keeps it too.
LEMMA StayKeeps ==
  ASSUME ClientInv, UNCHANGED vars
  PROVE  ClientInv'
<1>1. UNCHANGED <<log, req, current, stream, missed>>
  BY DEF vars
<1>2. \A c, u : Coming(u, c)' <=> Coming(u, c)
  BY <1>1 DEF Coming, At
<1>3. ComingInv'
  BY <1>1, <1>2 DEF ClientInv, ComingInv
<1>4. QED
  BY <1>1, <1>3 DEF ClientInv, FanInv, QueueInv, SinceInv, At, Attached

\* Every step keeps what is on its way to a client.
LEMMA StepClients == Inv /\ RingInv /\ ClientInv /\ [Next]_vars => ClientInv'
<1> SUFFICES ASSUME Inv, RingInv, ClientInv, [Next]_vars PROVE ClientInv'
  OBVIOUS
<1>1. ASSUME NEW t \in Thread, (\E r \in Ref : BeginRequest(t, r)) \/ Serve(t)
      PROVE  ClientInv'
  BY <1>1, RequestsKeep, CommitKeeps, FanOutKeeps, PutKeeps, CutShortKeeps, EndFanKeeps DEF Serve
<1>2. ASSUME NEW c \in Client, ReadSnapshot(c) \/ Loop(c) \/ Disconnect(c)
      PROVE  ClientInv'
  BY <1>2, ReadSnapshotKeeps, RegisterKeeps, CopyRingKeeps, DeliverKeeps, DisconnectKeeps DEF Loop
<1>3. QED
  BY <1>1, <1>2, StayKeeps DEF Next

\* At the start nobody is attached and nothing is committed.
LEMMA InitClients == Init => RingInv /\ ClientInv
<1> SUFFICES ASSUME Init PROVE RingInv /\ ClientInv
  OBVIOUS
<1>1. /\ NoRequest.at = "idle" /\ NoRequest.done = {} /\ NoRequest.full = {}
      /\ NoStream.at = "away" /\ ~ NoStream.member
  BY DEF NoRequest, NoStream
<1>2. 0 .. Len(log) - 1 = {}
  BY DEF Init
<1>3. RingInv
  BY <1>2 DEF RingInv
<1>4. FanInv /\ QueueInv
  BY <1>1 DEF Init, FanInv, QueueInv, At, Attached
<1>5. SinceInv /\ ComingInv
  BY <1>1 DEF Init, SinceInv, ComingInv
<1>6. QED
  BY <1>3, <1>4, <1>5 DEF ClientInv

-----------------------------------------------------------------------------
(* The theorems *)

\* The inductive invariant holds in every state.
THEOREM Invariance == Spec => []Inv
<1>1. Init => Inv
  BY InitInv
<1>2. Inv /\ [Next]_vars => Inv'
  BY StepType, StepRequests, StepRoom, StepOffsets, StepIds, StepPublished DEF Inv
<1>3. QED
  BY <1>1, <1>2, PTL DEF Spec

\* Every variable keeps its type; the ring and the queues their bounds.
THEOREM TypeCorrect == Spec => []TypeOK
<1>1. Inv => TypeOK
  BY DEF Inv
<1>2. QED
  BY <1>1, Invariance, PTL

\* The n-th committed event has offset n, whatever threads raced for it:
\* append_event reads the next offset before its insert takes the lock.
THEOREM OffsetsAreDense == Spec => []OffsetsDense
<1>1. Inv => OffsetsDense
  BY DEF Inv
<1>2. QED
  BY <1>1, Invariance, PTL

\* No two committed events register one node id, though the duplicate check
\* of post_create_git_reference and the insert are separate statements.
THEOREM IdsAreRegisteredOnce == Spec => []IdsRegisteredOnce
<1>1. Inv => IdsRegisteredOnce
  BY DEF Inv
<1>2. QED
  BY <1>1, Invariance, PTL

\* No client and no ring holds the offset of an event that is not committed:
\* commit_and_publish publishes the stash after its commit.
THEOREM PublishAfterCommit == Spec => []OnlyCommittedPublished
<1>1. Inv => OnlyCommittedPublished
  BY DEF Inv
<1>2. QED
  BY <1>1, Invariance, PTL

\* A message that a client still needs is in its queue, in its replay or with
\* a thread that will put it there: publish_event_appended adds to the ring before
\* it looks for the queues, and event_generator registers before it copies the ring.
THEOREM DeliveryInvariance == Spec => [](RingInv /\ ClientInv)
<1>1. Inv /\ (RingInv /\ ClientInv) /\ [Next]_vars => (RingInv /\ ClientInv)'
  BY StepRing, StepClients
<1>2. QED
  BY <1>1, InitClients, Invariance, PTL DEF Spec

\* A client that shows an old structure while nothing is on its way to it has
\* lost a message, by a full queue or by a fan-out that was cut short.
THEOREM StaleOnlyWhenLost == Spec => []StaleOnlyIfLost
<1>1. ClientInv => StaleOnlyIfLost
  BY DEF ClientInv, ComingInv, StaleOnlyIfLost, Stale, Publishing, Coming, At
<1>2. QED
  BY <1>1, DeliveryInvariance, PTL

=============================================================================
