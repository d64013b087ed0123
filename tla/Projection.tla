----------------------------- MODULE Projection ----------------------------
(***************************************************************************)
(* The graph database of one project under concurrent requests: requests   *)
(* that append events (backend/graph/reducer.py), registrations that patch *)
(* the row they created (references_git_routes.py), review batches, their  *)
(* diffs and accepts (backend/graph/review.py, diff.py, routes.py).        *)
(*                                                                         *)
(* The database is SQLite in WAL mode: a request's first write takes the   *)
(* one write lock, it then works on its own copy, and the others read the  *)
(* last commit.  A request that ends without a commit is rolled back.      *)
(***************************************************************************)
EXTENDS Reducer, FiniteSets

CONSTANTS Sessions,       \* database sessions, one per request
          Batches,        \* review batch ids
          Bodies,         \* git shas of reference bodies
          History,        \* rows the retired pipeline left in the log
          OldMarkers,     \* staleness markers it left, [node, offset, reason]
          MaxEvents       \* bound on the length of the log

VARIABLES db,             \* what is committed
          ses,            \* each request: where it stands and its own copy
          lock,           \* who holds the write lock
          served          \* the last diff served, None at first
vars == <<db, ses, lock, served>>

(* A database holds the log, the tables, and what no event carries: the    *)
(* git coordinates of nodes, the write-frozen markers, the batches with    *)
(* their pinned offsets and the cached snapshots.  past[n], a history      *)
(* field, is the tables as they stood after offset n.                      *)

Idle == [at |-> "idle"]

---------------------------------------------------------------------------
(* The events a caller may append.  Ids are minted at random, so which     *)
(* unused id is taken is a matter of naming: the least one is.             *)

Unused(ids, used) == LET free == ids \ used
                     IN  {x \in free : \A y \in free : x <= y}

Minted(e) ==
  IF e.type = "NodeCreated" THEN {e.node}
  ELSE IF e.type = "NodeSplit" THEN e.dests \ {e.node}
  ELSE {}

\* The node ids that the first n rows mint.
MintedBy(rows, n) == UNION {Minted(rows[i]) : i \in 1 .. n}

NodesUsed(d) == MintedBy(d.log, Len(d.log))

ASSUME SessionsAssumption == None \notin Sessions

\* The rows of the retired pipeline took their ids in the same way.
ASSUME HistoryAssumption ==
  /\ History \in Seq(Event)
  /\ \A n \in 1 .. Len(History) : Minted(History[n]) \cap MintedBy(History, n - 1) = {}
  /\ \A m \in OldMarkers : m.offset \in Nat

NodeEvents(d) ==
  LET live == DOMAIN d.tables.nodes
      new  == Unused(Nodes, NodesUsed(d))
  IN  [type : {"NodeCreated"}, node : new, tier : Tiers, parent : live \cup {None},
       name : {"n"}, content : {Blank}]
  \cup [type : {"NodeReparented"}, node : live, parent : live \cup {None}]
  \cup [type : {"NodePromoted", "NodeDemoted"}, node : live, tier : Tiers]
  \cup [type : {"NodesMerged"}, sources : {s \in SUBSET live : Cardinality(s) = 2},
        dest : live, name : {"n"}]
  \cup [type : {"NodeSplit"}, node : live, dests : {{n, m} : n \in new, m \in live},
        name : {"n"}]
  \cup [type : {"NodeDeleted"}, node : live]

TextEvents(d) ==
  LET live == DOMAIN d.tables.nodes IN
       [type : {"NodeRenamed"}, node : live, name : Texts]
  \cup [type : {"NodeContentUpdated", "FanInContentUpdated"}, node : live, content : Texts]
  \cup [type : {"NodeDeferredUpdated"}, node : live, deferred : BOOLEAN]
  \cup [type : {"BootstrapNodeContentCleared", "FeedbackCleared", "ViewRecorded"}, node : live]
  \cup [type : {"EdgeCreated"}, edge : Unused(Edges, DOMAIN d.tables.edges),
        edgeType : EdgeTypes, source : live, target : live]
  \cup [type : {"EdgeDeleted"}, edge : Edges]

DraftEvents(d) ==
  LET live   == DOMAIN d.tables.nodes
      drafts == DOMAIN d.tables.drafts
      frags  == live \X Kinds
  IN  [type : {"DraftGenerated"}, draft : Unused(Drafts, drafts),
       target : {<<"node", n>> : n \in live} \cup {<<"fragment", f>> : f \in frags}, content : Texts]
  \cup [type : {"DraftEdited"}, draft : drafts, content : Texts]
  \cup [type : {"DraftApproved"}, draft : drafts]
  \cup [type : {"DraftDiscarded"}, draft : drafts, reason : {"user_regen", "auto_revision"}]
  \cup [type : {"DraftReviewUpdated"}, draft : drafts \cup {None}, node : live, review : Texts]
  \cup {[type |-> "FragmentUpdated", id |-> f, owner |-> f[1], kind |-> f[2], content |-> x] :
          f \in frags, x \in Texts}

Events(d) == NodeEvents(d) \cup TextEvents(d) \cup DraftEvents(d)

---------------------------------------------------------------------------
(* Requests that append.                                                   *)

Own(s) == IF ses[s].at = "idle" THEN db ELSE ses[s].copy

MayWrite(s) == /\ ses[s].at \in {"idle", "writing"}
               /\ lock \in {None, s}

\* The row, its effect on the tables, and on what they carry beside it: git
\* coordinates are columns of the node's row and go with it.
Appended(d, e, after) ==
  [d EXCEPT !.log = Append(d.log, e), !.tables = after,
            !.past = Put(d.past, Len(d.log) + 1, after),
            !.bodies = Restrict(d.bodies, DOMAIN d.bodies \cap DOMAIN after.nodes)]

Rollback(s) == /\ ses' = [ses EXCEPT ![s] = Idle]
               /\ lock' = None

\* Slip: a handler that raises leaves the row it was called for.
AppendEventNoRollback(s, e) ==
  /\ MayWrite(s)
  /\ Len(Own(s).log) < MaxEvents
  /\ \E after \in Apply(Own(s).tables, e) \cup {Own(s).tables} :
       ses' = [ses EXCEPT ![s] = [at |-> "writing", copy |-> Appended(Own(s), e, after)]]
  /\ lock' = s
  /\ UNCHANGED <<db, served>>

\* append_event: the row and its effect, or a rollback of everything the
\* request has done.
AppendEvent(s, e) ==
  LET outcome == Apply(Own(s).tables, e) IN
  /\ MayWrite(s)
  /\ Len(Own(s).log) < MaxEvents
  /\ IF outcome = {}
     THEN Rollback(s)
     ELSE \E after \in outcome :
            /\ ses' = [ses EXCEPT ![s] = [at   |-> "writing",
                                          copy |-> Appended(Own(s), e, after)]]
            /\ lock' = s
  /\ UNCHANGED <<db, served>>

\* post_create_git_reference: the creation event, then the git coordinates
\* on the row alone.
RegisterReference(s, sha) ==
  LET ids == Unused(Nodes, NodesUsed(db)) IN
  /\ ses[s].at = "idle" /\ lock = None
  /\ Len(db.log) < MaxEvents
  /\ \E n \in ids :
       LET e == [type |-> "NodeCreated", node |-> n, tier |-> "ref", parent |-> None,
                 name |-> "n", content |-> "git"] IN
       \E after \in Apply(db.tables, e) :
         ses' = [ses EXCEPT ![s] =
                   [at   |-> "writing",
                    copy |-> [Appended(db, e, after) EXCEPT !.bodies = Put(@, n, sha)]]]
  /\ lock' = s
  /\ UNCHANGED <<db, served>>

Commit(s) ==
  /\ ses[s].at = "writing"
  /\ db' = ses[s].copy
  /\ Rollback(s)
  /\ UNCHANGED served

\* Any failure after a write: the session is closed without a commit.
Fail(s) ==
  /\ ses[s].at = "writing"
  /\ Rollback(s)
  /\ UNCHANGED <<db, served>>

---------------------------------------------------------------------------
(* Review batches.  Opening, closing and accepting are one short           *)
(* transaction each.                                                       *)

Free == lock = None

OpenBatch(b) ==
  /\ Free /\ b \in Unused(Batches, DOMAIN db.batches)
  /\ db' = [db EXCEPT !.batches = Put(@, b, [pin |-> Len(db.log), closed |-> FALSE])]
  /\ UNCHANGED <<ses, lock, served>>

CloseBatch(b) ==
  /\ Free /\ b \in DOMAIN db.batches /\ ~db.batches[b].closed
  /\ db' = [db EXCEPT !.batches[b].closed = TRUE]
  /\ UNCHANGED <<ses, lock, served>>

\* Slip: the pin is ignored.
AcceptReviewAll(b, n) ==
  /\ Free /\ b \in DOMAIN db.batches /\ IsNode(db.tables, n)
  /\ db' = [db EXCEPT !.markers = {m \in @ : m.node # n}]
  /\ UNCHANGED <<ses, lock, served>>

\* accept_review: drop the node's markers up to the pin, in an open batch or not.
AcceptReview(b, n) ==
  /\ Free /\ b \in DOMAIN db.batches /\ IsNode(db.tables, n)
  /\ db' = [db EXCEPT !.markers =
              {m \in @ : ~(m.node = n /\ m.offset <= db.batches[b].pin)}]
  /\ UNCHANGED <<ses, lock, served>>

---------------------------------------------------------------------------
(* The diff of a reviewed node: the snapshot at the pin is looked up, and  *)
(* when it is missing the live tables are wiped and replayed inside a      *)
(* savepoint that is rolled back once they are serialised.                 *)

DiffOf(pin, before, d) ==
  [pin |-> pin, before |-> before, after |-> d.tables, at |-> Len(d.log)]

Wiped(d) == [d EXCEPT !.tables = EmptyTables, !.markers = {}, !.bodies = <<>>]

\* The diff of a live node; get_or_build_snapshot, up to the wipe.
RequestDiff(s, b) ==
  /\ ses[s].at = "idle" /\ Free /\ b \in DOMAIN db.batches
  /\ DOMAIN db.tables.nodes # {}
  /\ LET pin == db.batches[b].pin IN
     IF pin \in DOMAIN db.snaps
     THEN /\ served' = DiffOf(pin, db.snaps[pin], db)
          /\ UNCHANGED <<ses, lock>>
     ELSE /\ ses' = [ses EXCEPT ![s] = [at |-> "rebuilding", pin |-> pin,
                                        copy |-> Wiped(db), saved |-> db]]
          /\ lock' = s
          /\ UNCHANGED served
  /\ UNCHANGED db

\* Slip: the offset is not passed on.
UpToNow(d, offset) == d.log

UpTo(d, offset) == SubSeq(d.log, 1, offset)

\* The savepoint is rolled back and the snapshot row is added; a row that
\* cannot be read back ends the request.
BuildSnapshot(s) ==
  LET rebuilt == Rebuild(UpTo(ses[s].copy, ses[s].pin)) IN
  /\ ses[s].at = "rebuilding"
  /\ IF rebuilt = {}
     THEN Rollback(s) /\ UNCHANGED served
     ELSE \E view \in rebuilt :
            LET d == [ses[s].saved EXCEPT !.snaps = Put(@, ses[s].pin, view)] IN
            /\ ses' = [ses EXCEPT ![s] = [at |-> "diffed", copy |-> d]]
            /\ served' = DiffOf(ses[s].pin, view, d)
            /\ UNCHANGED lock
  /\ UNCHANGED db

\* The diff route answers and closes its session; it makes no commit.
EndDiff(s) ==
  /\ ses[s].at = "diffed"
  /\ Rollback(s)
  /\ UNCHANGED <<db, served>>

---------------------------------------------------------------------------
Init ==
  /\ \E t \in Replay(History, EventTypes)[Len(History)] :
       db = [log     |-> History,
             tables  |-> t,
             past    |-> [n \in 1..Len(History) |->
                            CHOOSE u \in Replay(History, EventTypes)[n] : TRUE],
             bodies  |-> <<>>,
             markers |-> OldMarkers,
             batches |-> <<>>,
             snaps   |-> <<>>]
  /\ ses = [s \in Sessions |-> Idle]
  /\ lock = None
  /\ served = None

Next ==
  \/ \E s \in Sessions :
       \/ \E e \in Events(Own(s)) : AppendEvent(s, e)
       \/ \E sha \in Bodies : RegisterReference(s, sha)
       \/ Commit(s) \/ Fail(s)
       \/ \E b \in Batches : RequestDiff(s, b)
       \/ BuildSnapshot(s) \/ EndDiff(s)
  \/ \E b \in Batches :
       \/ OpenBatch(b) \/ CloseBatch(b)
       \/ \E n \in Nodes : AcceptReview(b, n)

Spec == Init /\ [][Next]_vars

---------------------------------------------------------------------------
(* Properties.                                                             *)

\* What is committed implements GraphLog, whatever requests are half done
\* and whoever rebuilds the tables in place: a failed event leaves nothing,
\* and a rebuild agrees with the tables exactly when every row of the log can
\* be read back (reducer.py promises it "for any sequence of events"; of a
\* log with a DraftReviewUpdated row it is not true).
Log == INSTANCE GraphLog WITH Empty <- EmptyTables, log <- db.log, tables <- db.tables
ImplementsLog == Log!Spec

Past(offset) == IF offset = 0 THEN EmptyTables ELSE db.past[offset]

\* A diff sets the tables as they stood at the batch's pinned offset, not
\* some later or half-replayed state, against the live tables at the moment
\* of the answer (review.py, "the live projection is restored").
DiffIsOfThePin ==
  served # None => /\ served.before = Past(served.pin)
                   /\ served.after = Past(served.at)

\* What no event carries survives every request that appends or rebuilds:
\* the git coordinates of a registered node stay as long as its row does, and
\* a marker goes only by an accept of its node in a batch pinned at or after
\* it.
OffLogRowsKept ==
  [][/\ \A n \in DOMAIN db.bodies :
          IsNode(db'.tables, n) => n \in DOMAIN db'.bodies /\ db'.bodies[n] = db.bodies[n]
     /\ \A m \in db.markers \ db'.markers :
          /\ db'.log = db.log
          /\ \E b \in DOMAIN db.batches : db.batches[b].pin >= m.offset]_vars

\* A draft is settled once: when it is approved or discarded its status, its
\* content and its reason never change again, and a target never has two
\* pending drafts.
DraftsSettleOnce ==
  [][/\ \A d \in DOMAIN db.tables.drafts :
          db.tables.drafts[d].status # "pending" =>
            [db'.tables.drafts[d] EXCEPT !.review = db.tables.drafts[d].review]
              = db.tables.drafts[d]
     /\ \A d \in DOMAIN db'.tables.drafts :
          Cardinality(Pending(db'.tables, db'.tables.drafts[d].target)) <= 1]_vars

\* Depth of the component tree: no component sits under a component that
\* itself sits under one.
TwoLevels(t) ==
  \A n \in DOMAIN t.nodes : TierOf(t, n) = "comp" =>
     LET p == t.nodes[n].parent IN
     (IsNode(t, p) /\ TierOf(t, p) = "comp") =>
        LET g == t.nodes[p].parent IN ~(IsNode(t, g) /\ TierOf(t, g) = "comp")

\* "The structural component tree is hard-capped at two levels" holds as long
\* as nodes are created, split, merged and deleted; only a move of a
\* component that has components under it can break it.
Moves == {"NodeReparented", "NodePromoted", "NodeDemoted"}
CreationKeepsTwoLevels ==
  (\A i \in 1..Len(db.log) : db.log[i].type \notin Moves) => TwoLevels(db.tables)
=============================================================================
