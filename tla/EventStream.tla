---------------------------- MODULE EventStream ----------------------------
(***************************************************************************)
(* The write path of the backend and the project's SSE stream:             *)
(* post_create_git_reference, append_event (backend/graph/reducer.py),     *)
(* commit_and_publish and ProjectBroadcaster (backend/graph/broadcast.py). *)
(*                                                                         *)
(* The routes are plain functions, so FastAPI runs each request on a       *)
(* worker thread; subscribe is an async generator on the event loop.  They *)
(* share the broadcaster's dictionaries without a lock: a step is what no  *)
(* other thread can come between.  SQLite lets one thread write at a time  *)
(* and a statement sees what is committed when it starts.                  *)
(*                                                                         *)
(* One project.  A message is its offset; event types, names and node ids  *)
(* are left out.  A client reads /structure, subscribes since its offset,  *)
(* and reads /structure again at every message (the external part).        *)
(***************************************************************************)
EXTENDS Integers, Sequences, FiniteSets, SequencesExt

CONSTANTS
  Ref,      \* the ids of the references that requests register
  Thread,   \* worker threads serving requests
  Client,   \* SSE clients
  RingMax,  \* _RING_BUFFER_MAXLEN
  QueueMax, \* _SUBSCRIBER_QUEUE_MAXSIZE
  MaxLog,   \* bound on the events committed
  NoThread, \* nobody holds SQLite's write lock
  NoRef     \* no request in hand

ASSUME ThreadsAssumption == IsFiniteSet(Thread) /\ NoThread \notin Thread
ASSUME ClientsAssumption == IsFiniteSet(Client)
ASSUME RefsAssumption == NoRef \notin Ref
\* The ring holds more than all the threads can publish late.
ASSUME RingAssumption == RingMax \in Nat /\ RingMax >= Cardinality(Thread)
ASSUME LogAssumption == MaxLog \in Nat
ASSUME QueueAssumption == QueueMax \in Nat \ {0}

VARIABLES
  log,     \* graph_events: the committed events, in commit order
  writer,  \* the thread holding SQLite's write lock
  req,     \* the request each thread serves
  ring,    \* _ring_buffers[project]
  current, \* the set object _subscribers maps the project to, 0 if none
  stream,  \* each client's subscribe() generator, and whether the client has
           \* read /structure since the last commit
  missed   \* history: per client, why a message did not reach it

vars == <<log, writer, req, ring, current, stream, missed>>
server == <<log, writer, ring>>
-----------------------------------------------------------------------------
\* A set object of queues; there are never more live ones than holders.
SetId == 1 .. Cardinality(Client) + Cardinality(Thread) + 1

ReqStep == {"idle", "append", "insert", "commit", "ring", "subscribers", "fan"}
StreamStep == {"away", "snapshot", "registered", "open"}
Cause == {"slow", "cut"}

Event == [offset : 1 .. MaxLog, ref : Ref]

\* A request: what it registers, the offset it read, the set it iterates
\* over with its size, and the queues still to be served, served, and full.
Request == [at : ReqStep, ref : Ref \cup {NoRef}, offset : 0 .. MaxLog,
            subs : SetId \cup {0}, size : 0 .. Cardinality(Client),
            todo : SUBSET Client, done : SUBSET Client, full : SUBSET Client]

Stream == [at : StreamStep, since : 0 .. MaxLog, fresh : BOOLEAN,
           subs : SetId \cup {0}, member : BOOLEAN,
           queue : SeqOf(1 .. MaxLog, QueueMax), replay : SeqOf(1 .. MaxLog, RingMax)]

TypeOK ==
  /\ log \in SeqOf(Event, MaxLog)
  /\ writer \in Thread \cup {NoThread}
  /\ req \in [Thread -> Request]
  /\ ring \in SeqOf(1 .. MaxLog, RingMax)
  /\ current \in SetId \cup {0}
  /\ stream \in [Client -> Stream]
  /\ missed \in [Client -> SUBSET Cause]

NoRequest == [at |-> "idle", ref |-> NoRef, offset |-> 0, subs |-> 0, size |-> 0,
              todo |-> {}, done |-> {}, full |-> {}]
NoStream == [at |-> "away", since |-> 0, fresh |-> FALSE, subs |-> 0, member |-> FALSE,
             queue |-> << >>, replay |-> << >>]

Init ==
  /\ log = << >>
  /\ writer = NoThread
  /\ req = [t \in Thread |-> NoRequest]
  /\ ring = << >>
  /\ current = 0
  /\ stream = [c \in Client |-> NoStream]
  /\ missed = [c \in Client |-> {}]
-----------------------------------------------------------------------------
(* A request: the duplicate checks, append_event, the commit *)

At(t, step) == req[t].at = step
Goto(t, step) == req' = [req EXCEPT ![t].at = step]
Finish(t) == req' = [req EXCEPT ![t] = NoRequest]

Committed == {log[i].ref : i \in DOMAIN log}

\* The requests that may still commit an event.
Unfinished == {t \in Thread : req[t].at \in {"append", "insert", "commit"}}

\* A request that repeats a known id is answered 409.
BeginRequest(t, r) ==
  /\ At(t, "idle")
  /\ Len(log) + Cardinality(Unfinished) < MaxLog
  /\ r \notin Committed
  /\ req' = [req EXCEPT ![t] = [NoRequest EXCEPT !.at = "append", !.ref = r]]
  /\ UNCHANGED <<server, current, stream, missed>>

\* append_event reads the next offset before it holds the write lock.
ReadOffset(t) ==
  /\ At(t, "append")
  /\ req' = [req EXCEPT ![t].at = "insert", ![t].offset = Len(log) + 1]
  /\ UNCHANGED <<server, current, stream, missed>>

\* Slips of the next definition: no unique (project, offset); no primary key.
InsertAnyOffset(t) ==
  /\ At(t, "insert")
  /\ writer = NoThread
  /\ req[t].ref \notin Committed
  /\ writer' = t
  /\ Goto(t, "commit")
  /\ UNCHANGED <<log, ring, current, stream, missed>>
InsertAnyId(t) ==
  /\ At(t, "insert")
  /\ writer = NoThread
  /\ req[t].offset = Len(log) + 1
  /\ writer' = t
  /\ Goto(t, "commit")
  /\ UNCHANGED <<log, ring, current, stream, missed>>

\* The flushes of the event row and of the node row it projects.
Insert(t) ==
  /\ At(t, "insert")
  /\ writer = NoThread
  /\ req[t].offset = Len(log) + 1
  /\ req[t].ref \notin Committed
  /\ writer' = t
  /\ Goto(t, "commit")
  /\ UNCHANGED <<log, ring, current, stream, missed>>

\* IntegrityError on either row, or the 30 s busy timeout: a 500, and the
\* session is closed with its stash.
FailInsert(t) ==
  /\ At(t, "insert")
  /\ \/ writer # NoThread
     \/ req[t].offset # Len(log) + 1
     \/ req[t].ref \in Committed
  /\ Finish(t)
  /\ UNCHANGED <<server, current, stream, missed>>

\* The request raises before its commit took effect.
Rollback(t) ==
  /\ At(t, "commit")
  /\ writer' = NoThread
  /\ Finish(t)
  /\ UNCHANGED <<log, ring, current, stream, missed>>

Commit(t) ==
  /\ At(t, "commit")
  /\ log' = Append(log, [offset |-> req[t].offset, ref |-> req[t].ref])
  /\ writer' = NoThread
  /\ stream' = [c \in Client |-> [stream[c] EXCEPT !.fresh = FALSE]]
  /\ Goto(t, "ring")
  /\ UNCHANGED <<ring, current, missed>>
-----------------------------------------------------------------------------
(* publish, on the request's thread *)

\* The queues of a set object.
Members(s) == {c \in Client : stream[c].subs = s /\ stream[c].member}

\* deque(maxlen): the oldest message makes room.
PushRing(buf, n) ==
  IF Len(buf) < RingMax THEN Append(buf, n) ELSE Append(Tail(buf), n)

\* A slip of the next definition: publishing before the commit.
PublishRingEarly(t) ==
  /\ req[t].at \in {"commit", "ring"}
  /\ ring' = PushRing(ring, req[t].offset)
  /\ IF At(t, "ring") THEN Goto(t, "subscribers") ELSE UNCHANGED req
  /\ UNCHANGED <<log, writer, current, stream, missed>>

PublishRing(t) ==
  /\ At(t, "ring")
  /\ ring' = PushRing(ring, req[t].offset)
  /\ Goto(t, "subscribers")
  /\ UNCHANGED <<log, writer, current, stream, missed>>

\* The project's set is looked up once, and iterated if it is not empty.
FanOut(t) ==
  /\ At(t, "subscribers")
  /\ LET subs == IF current = 0 THEN {} ELSE Members(current)
     IN IF subs = {}
        THEN Finish(t)
        ELSE req' = [req EXCEPT ![t].at = "fan", ![t].subs = current,
                                ![t].size = Cardinality(subs), ![t].todo = subs]
  /\ UNCHANGED <<server, current, stream, missed>>

\* What CPython checks at every step of an iteration over a set.
SizeKept(t) == Cardinality(Members(req[t].subs)) = req[t].size

\* A slip of the next definition: a full queue makes the publisher wait.
PutWaiting(t) ==
  /\ At(t, "fan")
  /\ SizeKept(t)
  /\ \E c \in Members(req[t].subs) \ req[t].done :
       /\ Len(stream[c].queue) < QueueMax
       /\ stream' = [stream EXCEPT ![c].queue = Append(@, req[t].offset)]
       /\ req' = [req EXCEPT ![t].done = @ \cup {c}]
  /\ UNCHANGED <<server, current, missed>>

\* put_nowait on the next queue of the set; a full queue loses the message
\* and is remembered.
Put(t) ==
  /\ At(t, "fan")
  /\ SizeKept(t)
  /\ \E c \in Members(req[t].subs) \ req[t].done :
       IF Len(stream[c].queue) < QueueMax
       THEN /\ stream' = [stream EXCEPT ![c].queue = Append(@, req[t].offset)]
            /\ req' = [req EXCEPT ![t].done = @ \cup {c}]
            /\ UNCHANGED missed
       ELSE /\ req' = [req EXCEPT ![t].done = @ \cup {c}, ![t].full = @ \cup {c}]
            /\ missed' = [missed EXCEPT ![c] = @ \cup {"slow"}]
            /\ UNCHANGED stream
  /\ UNCHANGED <<server, current>>

\* Iterating a set whose size changed raises RuntimeError, which
\* commit_and_publish logs: the queues left get nothing, none is discarded.
CutShort(t) ==
  /\ At(t, "fan")
  /\ ~ SizeKept(t)
  /\ missed' = [c \in Client |->
       IF c \in Members(req[t].subs) \ req[t].done THEN missed[c] \cup {"cut"} ELSE missed[c]]
  /\ Finish(t)
  /\ UNCHANGED <<server, current, stream>>

\* The iteration is over: the full queues are discarded from the set, which
\* stays in the dictionary even when it is empty now.
EndFan(t) ==
  /\ At(t, "fan")
  /\ SizeKept(t)
  /\ req[t].todo \cap Members(req[t].subs) \subseteq req[t].done
  /\ stream' = [c \in Client |->
       IF c \in req[t].full
       THEN [stream[c] EXCEPT !.member = FALSE] ELSE stream[c]]
  /\ Finish(t)
  /\ UNCHANGED <<server, current, missed>>
-----------------------------------------------------------------------------
(* subscribe, on the event loop, and its client *)

\* The client reads the snapshot and its offset.
ReadSnapshot(c) ==
  /\ stream[c].at = "away"
  /\ stream' = [stream EXCEPT ![c] = [NoStream EXCEPT !.at = "snapshot",
                                        !.since = Len(log), !.fresh = TRUE]]
  /\ UNCHANGED <<server, req, current, missed>>

\* setdefault: the project's set, or a new one.
FreshSet == CHOOSE s \in SetId : /\ \A c \in Client : stream[c].subs # s
                                 /\ \A t \in Thread : req[t].subs # s

Register(c) ==
  /\ stream[c].at = "snapshot"
  /\ LET s == IF current # 0 THEN current ELSE FreshSet
     IN /\ current' = s
        /\ stream' = [stream EXCEPT ![c].at = "registered", ![c].subs = s, ![c].member = TRUE]
  /\ missed' = [missed EXCEPT ![c] = {}]
  /\ UNCHANGED <<server, req>>

\* A slip of the next definition: the history is not replayed.
CopyNothing(c) ==
  /\ stream[c].at = "registered"
  /\ stream' = [stream EXCEPT ![c].at = "open", ![c].since = 0]
  /\ UNCHANGED <<server, req, current, missed>>

\* list(buf): the ring as it is now, unless the client knows all it holds.
\* The offset it asked for is not read again after the loop over the list.
CopyRing(c) ==
  /\ stream[c].at = "registered"
  /\ stream' = [stream EXCEPT ![c] =
       IF \E n \in Range(ring) : n > stream[c].since
       THEN [@ EXCEPT !.at = "open", !.replay = ring]
       ELSE [@ EXCEPT !.at = "open", !.since = 0]]
  /\ UNCHANGED <<server, req, current, missed>>

\* The place in the list of the next message the client does not know.
NextNew(c, k) ==
  /\ stream[c].replay[k] > stream[c].since
  /\ \A j \in 1 .. k - 1 : stream[c].replay[j] <= stream[c].since

\* The next message goes out, history first, and the client looks again.
Deliver(c) ==
  /\ stream[c].at = "open"
  /\ \/ \E k \in DOMAIN stream[c].replay :
          /\ NextNew(c, k)
          /\ LET rest == SubSeq(stream[c].replay, k + 1, Len(stream[c].replay))
             IN stream' = [stream EXCEPT ![c] =
                  IF \E n \in Range(rest) : n > stream[c].since
                  THEN [@ EXCEPT !.replay = rest, !.fresh = TRUE]
                  ELSE [@ EXCEPT !.replay = << >>, !.since = 0, !.fresh = TRUE]]
     \/ /\ stream[c].replay = << >> /\ stream[c].queue # << >>
        /\ stream' = [stream EXCEPT ![c].queue = Tail(@), ![c].fresh = TRUE]
  /\ UNCHANGED <<server, req, current, missed>>

\* The client goes away: the generator's finally.  It tests the set it
\* captured and pops whatever set the project has now.  Its queue is gone;
\* should the client come back, it is with another queue.
Disconnect(c) ==
  /\ stream[c].at \in {"registered", "open"}
  /\ stream' = [stream EXCEPT ![c] = NoStream]
  /\ current' = IF Members(stream[c].subs) \ {c} = {} THEN 0 ELSE current
  /\ missed' = [missed EXCEPT ![c] = {}]
  /\ req' = [t \in Thread |->
       [req[t] EXCEPT !.todo = @ \ {c}, !.done = @ \ {c}, !.full = @ \ {c}]]
  /\ UNCHANGED server
-----------------------------------------------------------------------------
Serve(t) ==
  \/ ReadOffset(t)
  \/ Insert(t)
  \/ FailInsert(t)
  \/ Rollback(t)
  \/ Commit(t)
  \/ PublishRing(t)
  \/ FanOut(t)
  \/ Put(t)
  \/ CutShort(t)
  \/ EndFan(t)

Loop(c) ==
  \/ Register(c)
  \/ CopyRing(c)
  \/ Deliver(c)

Next ==
  \/ \E t \in Thread : (\E r \in Ref : BeginRequest(t, r)) \/ Serve(t)
  \/ \E c \in Client : ReadSnapshot(c) \/ Loop(c) \/ Disconnect(c)

Spec == Init /\ [][Next]_vars

\* The event loop runs every generator that can go on.
FairSpec == Spec /\ \A c \in Client : WF_vars(Loop(c))
-----------------------------------------------------------------------------
(* Properties *)

\* Offsets are dense in commit order, though each thread computes its own
\* before it holds the lock (reducer.py: "Assign next offset").
OffsetsDense == \A i \in DOMAIN log : log[i].offset = i

\* A node id is registered once, though the check for it and the insert are
\* not one step.
IdsRegisteredOnce == \A i, j \in DOMAIN log : log[i].ref = log[j].ref => i = j

\* Publish after commit: no client is told of an event that could still be
\* rolled back.
OnlyCommittedPublished ==
  \A n \in Range(ring) \cup UNION {Range(stream[c].queue) \cup Range(stream[c].replay) : c \in Client} :
    n <= Len(log)

Publishing == \E t \in Thread : req[t].at \in {"ring", "subscribers", "fan"}

\* A client that is behind, with nothing on its way to it.
Stale(c) ==
  /\ stream[c].at = "open"
  /\ ~ stream[c].fresh
  /\ stream[c].replay = << >> /\ stream[c].queue = << >>
  /\ ~ Publishing

\* An open stream goes stale only for one of three reasons: its queue was
\* full, a fan-out was cut short, or its set left the dictionary.  No
\* interleaving of the snapshot, the registration, the replay and the
\* fan-out loses a message otherwise.
StaleOnlyIfLost == \A c \in Client : Stale(c) => missed[c] # {} \/ stream[c].subs # current

\* A slow subscriber never holds the publisher up, nor does a request wait
\* for another for ever: what a thread serves can always go on.
RequestsGoOn == \A t \in Thread : ~ At(t, "idle") => ENABLED Serve(t)

\* A stream does not stay open and stale: a dropped client gets an error
\* event, reconnects and reads the snapshot again.
StaleStreamEnds == \A c \in Client : Stale(c) ~> ~ Stale(c)
-----------------------------------------------------------------------------
(* The inductive invariant behind the safety properties of the log and of  *)
(* what is published.                                                      *)

\* A request under way has a reference; the one that holds the write lock
\* has the next offset and an id that is still free; one that publishes has
\* the offset of a committed event.
RequestsInv ==
  \A t \in Thread :
    /\ ~ At(t, "idle") => req[t].ref \in Ref
    /\ At(t, "commit") <=> writer = t
    /\ At(t, "commit") => req[t].offset = Len(log) + 1 /\ req[t].ref \notin Committed
    /\ req[t].at \in {"ring", "subscribers", "fan"} => req[t].offset \in 1 .. Len(log)

\* The requests begun still fit in the log.
RoomInv == Len(log) + Cardinality(Unfinished) <= MaxLog

Inv ==
  /\ TypeOK
  /\ RequestsInv
  /\ RoomInv
  /\ OffsetsDense
  /\ IdsRegisteredOnce
  /\ OnlyCommittedPublished
=============================================================================
