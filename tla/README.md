# SiegeEngine in TLA+

SiegeEngine decomposes a project, tier by tier, from a feature expansion down to
implementation text. The artifacts live as files in the project's git tree and
are changed by a command-line writer that agents call; a server reads the tree
through clones and projects it; a second server keeps an older event-sourced
graph, still the registry of references, vocabulary and input documents, and
streams its events to browsers.

This directory holds TLA+ modules that follow that code, TLC configurations that
check them on small instances, and theorems TLAPS proves for every value of the
constants. Paths below are relative to `src/siege-engine/` unless they start
with `.claude-plugin/`, which stands beside it under `src/`. `PROJECT.json` maps
every definition to the lines it models.

## The system and its parts

### State, operations, interactions

| Component | Code | State it keeps | Operations that change it | Talks to |
|---|---|---|---|---|
| Scope lifecycle writer | `siege/cli.py`, `siege/state.py` | per scope: body, `review.md`, state JSON, ledger | write-draft, write-review, write-approval, repair-drift, mark-drafted, add/remove feature and responsibility | the tree; identity ledgers; editors and agents that write bodies |
| Identity ledgers | `siege/manifest.py` | `manifest.json`: handle to id | derive, dump | called by the writer and by git views |
| Phase registry, plan, minting | `siege/cli.py`, `siege/projection/plan.py` | `state/phases/*.json`, `state/plan.json`, impl stubs | add/remove phase, assign/unassign feature, mint-plan, drafting of a phase | the requirements, comparch and subcomparch tiers |
| Propagation records | `siege/propagation.py`, `siege/cli.py` | `state/propagations/<id>.json` | open, update entry, resume | list-propagations reads HEAD, updates go to the working tree |
| Batches and tier commands | `siege/cli.py`, `.claude-plugin/commands/` | the scopes a batch lists | continue, run-tier, scaffold | the writer |
| Git views and clone cache | `siege/git_view.py` | clones on disk, cached views, fetch times | clone, fetch, evict, ledger re-derivation | GitHub, read projections |
| Read projections and contexts | `siege/projection/`, `siege/tools.py` | none | none | git views; hand text to generators and reviewers |
| Siege HTTP server | `siege/server.py`, `siege/auth*.py` | the view cache | none on the tree | read projections |
| Git-backed registration | `siege/cli.py`, `siege/backend_client.py`, `backend/graph/*_git_routes.py` | files, plus rows in the backend | write, commit, push, register | the graph event log |
| Graph event log and write requests | `backend/graph/reducer.py`, `backend/database.py` | `graph_events`, one offset per event of a project | append_event inside a request's transaction | projections, broadcaster |
| Graph projections and replay | `backend/graph/reducer.py`, `events.py` | nodes, edges, fragments, drafts | one handler per event type, replay | the event log |
| SSE broadcaster | `backend/graph/broadcast.py`, `routes.py` | ring buffer and set of queues per project | publish, subscribe, drop a slow queue | write requests, browsers |
| Review batches and snapshots | `backend/graph/review.py`, `staleness.py` | batches, pinned offsets, snapshot cache | open, refresh, accept | replay in a savepoint |
| Backend git manager | `backend/git_manager/service.py` | one repository per project, a lock per project | commit_artifact, checkpoint_run, plain git calls | projects |
| Projects, accounts, GitHub, migrations | `backend/projects/`, `backend/auth/`, `backend/github/`, `backend/models/`, `alembic/` | rows | CRUD, OAuth, import | libraries and GitHub |
| Parsers and validators | `backend/graph/parsers/`, `siege/validate.py` | none | none: a document is let through or refused | what a document is checked against comes from the graph |
| Backend queries, diffs, prompts | `backend/graph/queries.py`, `diff.py`, `prompts*.py` | none | none | the projection tables; validators, generators |
| Frontend, samples, deployment | `frontend/`, `samples/`, ... | none | none | the two HTTP interfaces |

The parts meet in five places.

1. **The working tree.** Every CLI call is a process of its own. It reads files,
   then writes them one after the other. There is no lock, no transaction and no
   compare-and-swap; a merge or an agent's editor writes the same files.
2. **HEAD and the tree.** `list-*` and the contexts read a commit, updates read
   and write the working tree, so a record can be in two versions at once.
3. **The database.** SQLite in WAL mode serialises writers, but a request reads
   the next offset before it holds the write lock.
4. **Threads and the event loop.** The write routes are plain `def` functions,
   which FastAPI runs on worker threads; subscriptions live on the event loop.
   The broadcaster's sets and deques are shared by both.
5. **The remote.** A body is pushed by a client and registered at the backend in
   two calls; the server reads it through a clone that it fetches when it sees
   fit. Nothing ties the three together but the order in which they happen.

### What is hard, and what makes each part correct

* **Scope lifecycle.** A call may write from a copy that another call has made
  old; it may die after the state and before the ledger. Correct: a status is
  always backed by its blocks, no text is approved that no verdict was recorded on,
  a verdict is about the text it was given for, drift is repaired for good.
* **Identity ledgers.** Ids must survive regeneration, reordering, repeated
  handles, races and lost ledgers. Correct: ids are unique in a ledger, never
  rebound to another handle, and kept by a handle that stays.
* **Phasing.** A move of a feature rewrites several files; a plan is a fixpoint
  over a graph that may have cycles; built nodes must not be planned anew.
  Correct: a feature is in one phase at most, a node is never planned before
  what it requires, a phase delivers its features, minting agrees with the plan
  and never takes away what is built.
* **Propagation.** A long drain is interrupted, retried and resumed while others
  edit. Correct: the worklist is the subtree, a drain keeps fresh what it has behind it,
  a drain that comes to its end leaves nothing below its source stale, and one that
  is resumed comes to its end.
* **Event log and broadcaster.** Offsets race, messages arrive while a client is
  between snapshot and subscription, queues and the ring overflow. Correct:
  offsets are dense, ids are registered once, nothing uncommitted is published,
  no client misses a message in silence, no request waits for a client.
* **Projections, replay, review snapshots.** An event changes the tables when it
  is appended and again when the log is replayed; a snapshot wipes and replays the
  live tables inside a savepoint. Correct: the tables are a function of the log, a
  rebuild gives them again or fails, a diff is of the pinned offset, what is in no
  event survives a rebuild, a draft is settled once.
* **Documents.** Eleven kinds of documents are each validated against the one above.
  Correct: features are traced to the bottom, the dependency graphs can be sorted,
  what a document is written from is there.
* **Views.** Fetches, failures, readers and restarts meet on one clone. Correct: no
  read is older than the debounce window allows, and none waits for ever.
* **Registration.** Write, commit, push, register: each can fail after the one
  before took effect. Correct: a retry finds its way, a registered body exists, a
  name is taken once.
* **Git manager.** Two operations of the service take the project's lock, the
  others do not.

The complete list, each at its line with the properties that cover it or the
reason none does yet, is under "hazards" in `PROJECT.json`.

## The modules

```
IdentityLedger <-- ScopeLifecycle <-- MCScopeLifecycle
                         ^
               ScopeLifecycle_proofs           Propagation <-- MCPropagation
                                                    ^
PhasePlan <-- PhaseLoop <-- MCPhaseLoop        Propagation_proofs
   ^   ^          ^
   |   |          +-------------+              EventStream <-- MCEventStream
   |   PhasePlan_proofs <-- Phasing_proofs          ^
   +-- Phasing <-- MCPhasing    |              EventStream_proofs
          ^---------------------+

Reducer <-- Projection <-- MCProjection        GitViews <-- Registration <-- MCRegistration
                ^    :                                          ^
Projection_proofs    GraphLog (refinement)                Registration_proofs

TagTree <-+- BootstrapDocs <-- ArchDocs <-+
          +- LeafDocs <-------------------+- Documents <-- MCDocuments
                                                ^
                                          Documents_proofs
```

(`A <-- B` reads: B extends A. `Phasing_proofs` holds the theorems on the loop and those
on the registry, over the lemmas on plans, and so the loop's specification has names of
its own: `LoopInit`, `LoopNext`, `LoopSpec`. MC modules hold the constants of the
instances and nothing else.) In several modules the definition of an operation
stands beside a *slip* of it, a variant with a plausible mistake. No specification
uses a slip; each shows that some property depends on what the operation does.

### IdentityLedger and ScopeLifecycle

`IdentityLedger` is `siege/manifest.py`. A text declares handles in order;
`Derive` gives each the id the prior ledger binds to it, or a fresh one.
`TakesPrior` holds the two halves of the code's rule: the first entry wins
(`setdefault`), and an id already used in this body is not used again. A fresh
id is the number of its derivation and a position: `secrets.token_hex` never
repeats. Digests are injective, so a text stands for its own sha256.

`ScopeLifecycle` is one scope in the tree. `body`, `reviewFile`, `state` and
`ledger` are the four files; `op` is what every process has read and where it is.

| Code | Actions |
|---|---|
| `cmd_write_draft` | `BeginDraft`, `WriteDraftState`, `WriteLedger` |
| `cmd_write_review`, `cmd_write_approval` | `BeginReview`, `WriteReviewState`; `BeginApproval`, `WriteApprovalState` |
| `cmd_repair_drift` | `BeginRepair`, `RepairLedger`, `RepairState` (ledger first, state only if a digest moved) |
| `cmd_mark_drafted`, `_resync_drafted_state` | `BeginMarkDrafted`, `Resync`, `WriteLedger` |
| `cmd_add_feature`, `cmd_remove_feature`, and the responsibility pair | `BeginEdit`, `WriteBody`, `Resync`, `WriteLedger` |
| editors, drafting agents, merges | `HandEdit`, which also deletes |
| the skills' commits, which make HEAD | `CommitTree` |
| the review skill | `FetchReviewContext`, `ComposeReview` |
| a process dies | `Crash` |

A step is all the reads a call starts with, or one file write with the reads
directly before it. `repair-drift` reads the body twice, for the digest
(`siege/cli.py:289`) and for the ledger (`:326`): `BeginRepair` and `RepairLedger`.
`offered` is the body a reviewer finds at HEAD, `Drift` is `drift_for` with both of
its cases, and `vetted` is history: the texts a verdict was ever recorded on, by
write-review or by a repair under a verdict. Left out: nonces, timestamps, scores,
the `from` of a ledger entry and free metadata, which no later guard of this
component reads.

### PhasePlan, PhaseLoop, Phasing

`PhasePlan` is `compute_plan` as operators: the assigned phase of a component,
the fixpoint's intended result (`Earliest`), the phase of each responsibility
with its pull floor, the nodes and their closures, and the edges the build order
of a phase is sorted by. `Requirers` is reachability stated as the least closed
set, so that it needs no recursion and can be reasoned about.

`PhaseLoop` is the fixpoint loop as it runs, one pulling edge at a time, in every
order. Its reference is `Earliest`; the plan computed from its result is checked
against what a plan is for.

`Phasing` is the registry and what is built from it. The CLI registry calls are
`AddPhase`, `RemovePhase`, `Unassign`, and `BeginAssign`/`StripOther`/
`WriteTarget` (a move strips the feature from the other files one by one, then
writes the target). mint-plan is `BeginMint`, `MintNode`, `EndMint`; run-phase is
`RunPhase`, `BuildNode`, `EndBuild`; regen-impl-with-feedback is `Regen`. Any of
them can die between two files. Left out: commits between skills (the plan is
computed from the files in the tree), review and approval of nodes, fan-in.

### Propagation

Any number of propagations, each with its record: `opened` is the worklist as
open-propagation wrote it, `worklist` the one in the working tree, and `atHead` holds
the propagations whose record was committed. `Open` snapshots the existing scopes
downstream of the source, tier by tier, and `Commit` is the commit that step 3 of
`/propagate-downstream` asks for. It is the only one. The updates of an entry are
written to the working tree, the regen skills stage the files of their scope, and
so HEAD shows a propagation as it was opened for as long as it exists.

A session picks the next entry of its plan, claims it, regenerates the scope and
reports (`Pick`, `Claim`, `Regenerate` or `Vanished` or `RegenFails`, `Report`,
`Settle`); each update of the record is its read and its write apart, as two calls
may interleave. `Resume` takes the plan from HEAD, as `list-propagations` shows it,
and so goes through every entry again, over bodies that earlier drains have
regenerated or not. `Crash` ends a session, `Reclone` loses the checkout with what
was not committed. `Edit` and `Reset` are everybody else. A body carries the versions
of the bodies above it that it was generated against, which is what "stale" means.

Left out: `add_entries`, which nothing calls, and worklists handed in as JSON. The
command asks not to open a second propagation over one subtree; the code does not
check it, and neither does `Open`.

### EventStream

Worker threads serve registrations, clients hold streams on the event loop. A
request is `BeginRequest` (the duplicate checks), `ReadOffset`, `Insert` (the
flush that takes SQLite's write lock, where the unique constraints bite),
`Commit` or `Rollback`, and then `publish`: `PublishRing`, `FanOut`, `Put` for
each queue, `EndFan` or `CutShort`. `subscribe` is `Register` and `CopyRing`,
then `Deliver`; `Disconnect` is the generator's `finally`. The dictionary of sets
is modelled down to set identity, because the `finally` tests the set it captured
and pops whichever set the project has by then. A client (external: the frontend
has none yet) reads a snapshot, subscribes since its offset, and looks again at
every message.

### Reducer, GraphLog, Projection

`Reducer` is `backend/graph/reducer.py`: each `_apply_*` function is an operator from
the tables and an event to the set of tables it may leave, which is empty when the
handler or a constraint of the database raises. `Apply` is the dispatch, `Rebuild` is
`rebuild_projections`, which goes through `ApplyRow`. `RowTypes` is the table that turns
a stored row back into an event, which misses `DraftReviewUpdated`. Foreign keys are not
enforced, as no PRAGMA turns them on: a deleted node leaves its edges, fragments and
children behind.

`GraphLog` is the promise of the docstrings: the log only grows, whole
transactions at a time, and the tables are what its events lead to, one after the
other, from nothing (`Applied`). `Rebuilt` is the second way, from the rows as they are
read back, and `Agree` says what is true of the two: the rebuild gives the same tables
when every row can be read back, and fails, leaving nothing, when one cannot. The
docstring of the reducer leaves the second half out. What an event does, what its row
does, and which rows are readable are parameters; `Projection` gives it the reducer's.

`Projection` is the database of one project under concurrent requests. `db` is
what is committed, `ses` each request with its own copy, `lock` the write lock of
SQLite, `served` the last diff that was answered. The git coordinates of a node
(`bodies`) are columns of its row: they go when a deletion, a merge or a split takes the
row, and a rebuild makes the row without them.

| Code | Actions |
|---|---|
| `append_event` in a request | `AppendEvent`, then more events, `Commit` or `Fail` |
| `post_create_git_reference` | `RegisterReference`: the event, and the coordinates on the row |
| `open_batch`, `close_batch`, `accept_review` | `OpenBatch`, `CloseBatch`, `AcceptReview` |
| the diff route, `get_or_build_snapshot`, `rebuild_projections` in a savepoint | `RequestDiff` (the wipe), `BuildSnapshot`, `EndDiff` |

The diff request really loses the snapshot it cached: the route makes no commit
(see the disagreements below). The setting of staleness markers has no caller
any more; there are some at the start.

### TagTree, BootstrapDocs, ArchDocs, LeafDocs, Documents

`TagTree` is what the lenient extractor makes of a raw answer: a tree of tags
with texts, attributes and children; a text is a sequence of words. The next
three hold `backend/graph/parsers/validators.py` and `review_xml.py`, one
predicate `ValidX` and one parse `XOf` for each document, in the order of the
checks where the order matters: features, vocabulary, requirements and
subrequirements; the three architectures with the cycle searches on their
dependency graphs; policy applications, references, implementations, fan-ins and
reviews.

`Documents` composes them. Each `Approve` action takes a raw answer, extracts it,
validates it against what `queries.py` reads from the approved documents before
it, and keeps what the minting keeps. `TopoSort` and `WouldCreateCycle` are
`topo_sort_comps` and `would_create_cycle`; the gates on fan-ins and
implementations are guards. A deferred feature is left out of the list the requirements
are validated against; the flag is flipped at any time and read there, so
`ApproveRequirements` chooses the flags, and `asked` keeps what had to be covered.
The functions have no caller in the repository except
the tests, so who calls them in which order is external, taken from the docstrings.
Left out: the tokenising of XML and the text of error messages.

The loops and recursions of this code are `Iterate(step, start, n)`: `step` is a
function on the states of the loop (`Find`, `Search`, `Place`, `SearchBack`, `WayBack`),
one round of it a turn of the code's loop or one entry or exit of its recursive call,
and `n` as many rounds as it can take; a round after the last changes nothing. The
path and the colours of `_dfs`, the stack, the visited set and the parents of
`would_create_cycle` are fields of those states. No RECURSIVE operator is needed,
and the searches can be reasoned about. `TagNode` is the set of tags that answers
are made of, and `MaxTags` the most that one answer has, which bounds `Find`.

### GitViews and Registration

`GitViews` is `_ProjectClone` and `GitViewCache.get_view`. `main` is the history
of the remote's branch, `clone` the clone on disk with its `origin/main`,
`fetched` and `lock` the debounce, `reader` what each worker thread is doing. The stamp
starts at 0.0 against `time.monotonic()`, whose zero on Linux is the start of the
machine: `booted` is that moment, and `fetched` begins there. A
read is `OpenView` (`ensure_cloned` looks for `.git`), `StartClone`, `AskRemote`,
`FinishClone` or `FailClone` or `CloneTooLate`; `SkipFetch`, or `BeginFetch` and
`EndFetch` or `FailFetch` or `NoOriginYet`; `Resolve` or `FailResolve`; `ReadBody`.
What a clone or a fetch brings is fixed when git asks the remote, and arrives
later. `FetchAll` is `list_refs`, which takes no lock. `Restart` is the server's, with
its machine or without.

`Registration` adds the clients and the backend. `CreateRef` is create-ref and
create-vocab up to the commit, `AddInputDoc` is add-input-doc; then `Push` or
`NotPushed`, `PostRequest` or `PostFails`, `Answered` or `GiveUp` (the 30 seconds
of `urlopen`, after which the request lives on). `SyncByHand` is a user's pull or
push. A request is `CheckName`, `ReadOffset`, `InsertRow`. Rows name paths, and
reads ask for them through `GitViews`.

Left out: eviction (a view never changes), the random ids of a view, and a kill
of the server in the middle of one git call.

## The runs

| Run | Instance | Shows |
|---|---|---|
| `scope_serial` | one call at a time, 2 handles, 4 texts, 3 body writes, 3 minting derivations, 1 crash | the state machine, ledger stability, drift repair |
| `scope_stale_review` (violation) | one call, a reviewer | a review of a text that is not the draft |
| `event_stream` | 2 threads, 2 clients, ring of 2, queues of 1, 3 events | log, ring, fan-out and subscriptions |
| `stream_dropped` (violation) | 1 thread, 1 slow client | a dropped subscriber keeps a silent stream |
| `propagation` | 6 scopes, 1 session, 1 propagation, 1 edit, 2 failures, 1 session or checkout lost, 1 drain over a complete record | what a drain keeps fresh behind it and leaves at its end, and that it ends |
| `phase_loop` | every graph on 3 components, every phasing of 3 features in 3 phases | the fixpoint, and what a plan promises |
| `phasing` | 2 features, 2 phases, 3 graphs, 6 registry edits, 2 drafts, 1 crash | registry, mint and build together |
| `phase_regen` (violation) | the same without crashes | the closure error that cannot be cleared |
| `projection` | 2 requests, 4 nodes, 4 tiers, 1 edge, 2 drafts, 1 batch, a log of 5 that starts with 3 | the log and its tables, diffs, accepts |
| `documents` | 4 components, 2 features, 2 levels; base documents, catalogs of edge sets, every one-edit variant | what the validators let through together |
| `registration` | 2 checkouts, 2 reader threads, a reference and an input document, 2 attempts, 2 commits | duplicates, lost bodies, old reads, waits |
| `registration_retry` (violation) | 1 checkout, 1 input document | a repeated command that never registers |

What the passing runs check:

* *Scopes.* `StateShape`: a status is backed by its blocks. `LedgerIdsUnique`,
  `IdNeverRebound`, `HandleKeepsId`: ids are unique, never name another handle,
  and stay with a handle that stays. `ApprovedWasVetted`: a text is approved only after a
  verdict was recorded on it, though calls write from copies. `OnlyRepairMovesVerdict`,
  and the liveness property `DriftIsRepaired`, for every drift but that of a body
  that is gone.
* *Streams.* `OffsetsDense`, `IdsRegisteredOnce`: the unique constraints repair
  what the unlocked reads leave open. `OnlyCommittedPublished`: publishing follows
  the commit. `StaleOnlyIfLost`: no interleaving of snapshot, registration, replay
  and fan-out loses a message, except through a full queue, a fan-out cut short,
  or a set that left the dictionary. `RequestsGoOn`: no request waits for a client.
* *Propagation.* `WorklistIsSubtree`; `PassedIsFresh`: what a drain has dealt with was
  generated against everything above it as it is now, but for what others wrote
  since the drain began, whatever earlier drains had done when they died;
  `FinishedIsFresh`: at its end nothing below the source is stale; `DrainCompletes`.
* *Phases.* `ScheduleIsEarliest`, `PlanBuildsOnFinishedWork`, `PlanDelivers`,
  `LoopEnds`; `AtMostOnePhase` (in the middle of a move too),
  `BuiltPhasesDeliver`, `MintSettles`, `DraftFollowsPlan`, `BuiltNodesKept`.
* *Projection.* `ImplementsLog` is the refinement: what is committed implements
  `GraphLog`, whatever requests are half done and whoever rebuilds the tables in place,
  and a rebuild agrees with the tables exactly when every row is readable.
  `DiffIsOfThePin`: a diff sets the tables at the pinned offset against the live ones,
  for every order of appends, failures and rebuilds. `OffLogRowsKept`: the git
  coordinates of a node that stays, and the markers, survive all of that.
  `DraftsSettleOnce`. `CreationKeepsTwoLevels`: the depth cap holds through creations,
  splits, merges and deletions; only a move of a component with components under it
  breaks it.
* *Documents.* `DependenciesComeFirst`: the validator's search for cycles and the sort
  of the build order agree. `FeaturesTraced` (what is not deferred when the requirements
  are written is in them, and whatever is in them reaches a domain component and its
  subcomponents), `PresentsItsParents`, `SubOrderExists`, `FanInSeesImplementation`:
  what four documents, each checked against the one above, promise together.
* *Registration.* `DuplicatesOverlap`: two rows share a name only when their requests
  overlapped, whatever answers were lost. `RowHasBody`: a registered body is on the
  remote or in a checkout that can still push it. `PushedBodyFound`: a body that was on
  the remote a debounce window before a read began is found, unless git failed or the
  machine was started within that window. `ReadsGoOn`: no read waits for ever.

Type invariants are proved where there are proofs (below), and not run again.

### Bounds, and why they are enough

Counters of edits, crashes, mints, drafts, failures, opens, attempts and events exist
only to keep the state space finite; each is a guard of the action that counts, and is
named in the module's CONSTANTS.

* *Scopes*: two handles give addition, removal, reordering and re-adding; three
  body writes let a text change, change back and change again; one crash
  can fall between any two writes, and a second one meets a state the first run
  of calls can also leave.
* *Streams*: a queue of one and a ring of two are exceeded by three events, so
  both limits and the cases on either side occur. Two clients are needed for a
  set that changes while it is iterated, two threads for racing offsets and for
  messages published out of order. `RingAssumption` asks the ring to hold at
  least one message per thread (256 in the code).
* *Propagation*: six scopes in five tiers contain two components with a
  subcomponent of the same name, and a fan-in that must stay out. Two failures reach
  the limit of failures in a row (the command says three; the bound is a constant); one
  loss can fall between any two steps, of the session alone or with its checkout, and
  the drain that follows starts from HEAD. A record that is complete in the working
  tree can be drained once more (`MaxRepeats`), since HEAD does not show that it is.
  Several sessions and propagations are in the theorems.
* *Phasing*: three components make every shape of pull including cycles, chains
  and pulls that meet; a responsibility with two features and one with none, a
  component with two subcomponents. With the registry, two phases and two
  features are enough for a move, an empty phase, a pulled component and a plan
  that changes under built nodes.
* *Projection*: the project starts with a component, a component under it and a
  pending draft, and markers before and after the pins that can be set. Two more
  events of every kind and two requests make every pair of events meet, a
  transaction of two, a failure in its middle, and a diff that rebuilds while
  another request has to wait. Four nodes are enough for a third level and
  for a split or a merge under it.
* *Documents*: a foundation, two domain components and a presentational one, one
  component with two and one with three subcomponents, give every check of the
  graphs a case on either side; the catalogs try all subsets of five more edges,
  and the one-edit variants drop, double, move, blank and rename every tag of a
  document once. With the 40 rounds of `MaxTags` every search for a tag meets it or comes
  to the end of the answer. The theorems hold for any answers and any number of components.
* *Registration*: two checkouts fall behind each other, two attempts race for one
  name, two readers meet at one lock; a clock of one with a window of one gives
  reads inside and outside the window, and a machine that was up for one or not. The
  theorems hold for any number.

### Fairness

* `ScopeLifecycle`: weak fairness of every call's next step (a process that runs
  is scheduled) and strong fairness of starting a repair while drift is reported
  (the repair skill is run as long as get-state shows drift; another call can
  keep occupying the slot in between). Edits are finite by their bound, which is
  what "once the tree is left alone" means.
* `Propagation`: weak fairness of draining and of resuming each propagation. The
  command resumes whatever shows as open. Failures, deaths and lost checkouts are not
  fair: they may happen or not.
* `PhaseLoop`: weak fairness of the loop, a sequential program.
* `EventStream`: weak fairness of each generator, which the event loop gives.
  Nothing is assumed of clients or requests.
* `Registration` (`RetrySpec`, for the retry run alone): the user repeats the
  command (weak), what a command began it ends (weak), the backend is reached
  now and then (strong), and a request that arrived is served (weak). These are
  the skill's words: set the token and retry. Even so the document is never registered.

## Where the code and its documents disagree

Each of the violation runs checks one sentence of the repository.

* `scope_stale_review`: the review skill says that `--draft-sha` guards against
  reviewing a stale draft. The digest compared and the digest passed both come
  from the state file (`siege/projection/_base.py:272`); the text is the body at HEAD.
* `stream_dropped`: `broadcast.py:30-34` says that a dropped subscriber
  reconnects on the next error event. There is none; its stream stays open and
  goes on pinging.
* `phase_regen`: the plan error asks for a node to be regenerated; drafting it
  carries the old closure forward, and mint-plan leaves built nodes alone.
* `registration_retry`: the add-input-doc skill says to set the token and retry.
  The body is already committed, `git commit` has nothing to commit and fails, and
  the command ends before the registration (`siege/cli.py:1313`), every time.

Seen while modelling, with no run of their own:

* *Writer.* `cmd_write_approval` (`siege/cli.py:270`) writes back a record it read
  earlier. With two calls at once a newer draft is overwritten, and the scope goes from
  drafted to approved, which mark-approved's skill calls "a no"; what is approved is the
  older text, on which a verdict was recorded (`ApprovedWasVetted`), and the newer
  body shows as drift. A handle that a body repeats gets
  a fresh id at every derivation, although repair-drift's docstring
  (`siege/cli.py:316`) calls it idempotent. A body that is gone is reported as drift
  (`missing_body`, `siege/git_view.py:446`) for ever: repair-drift leaves the record of
  a missing file as it is (`siege/cli.py:288`).
* *Propagation.* `/propagate-downstream` says in lines 10-12 that a run resumes by
  gap-fill and that done and skipped entries stay put, and in step 5 that the
  propagation rolls up to complete. Its only commit is that of the record as opened, and
  `list-propagations` reads HEAD (`siege/cli.py:529`): there every entry stays pending
  and the propagation open, also when all is done, and a resume drains every entry again.
  While it does, the record in the working tree may call an entry done, or the whole
  complete, whose body is stale again.
* *Phasing.* A mint that died leaves stubs of two plans, which run-phase does not
  notice (`DraftFollowsPlan` excludes that history by `torn`); the sort of a phase
  loses a requirement that passes through a component without subcomponents (the
  proviso of `SortSeesEveryRequirement`).
* *Stream.* `broadcast.py:169-173` says that everything happens on the event loop;
  the publishers run on worker threads, and a client that joins during a fan-out
  cuts it short.
* *Projection.* The diff route never commits the snapshot it built
  (`backend/graph/routes.py:936`), so the cache of `review.py:109-113` stays
  empty. `backend/graph/reducer.py:13` promises "for any sequence of events" that
  rebuilding from the log gives what applying them gave; a log with a
  `DraftReviewUpdated` row cannot be rebuilt, as `event_from_row`
  (`backend/graph/events.py:449`) raises a `KeyError` for it.
* *Documents.* `v2-rearchitecture.md` puts presentational nodes strictly after
  domain nodes, lets a notifications component have no domain parent, has fan-ins
  only for components with subcomponents, the implementation of the others being read
  directly, and checks cycles when an edge is created. `validate_sysarch` lets a
  domain component depend on a presentational one, so ordering edges can form a
  cycle, which `topo_sort_comps` breaks by document order; it refuses a
  presentational component without a domain parent; the gate of `queries.py:205`
  waits for the fan-in of a childless domain parent for ever; and
  `would_create_cycle` has no caller, so components' own dependencies can form a cycle.
  Its docstring (`queries.py:1076`) gives the path as `[source_id, ..., target_id,
  source_id]`; the code gives it from the target, through the source, to the target. A
  feature that is deferred when the requirements are written and un-deferred later is
  in no document, by the design of `models/node.py:150`, and nothing reports it.
* *Registration.* A body that is not pushed is answered with a placeholder and
  200, where the docs say 404. Two rows of one name make every later lookup of it
  answer 500. A kill inside `git clone` leaves a directory that passes for a clone. On a
  machine that has just been started, the first fetch is skipped as if one had been made
  at its start (`siege/git_view.py:60`).

## What is proved

Every theorem holds for all values of the constants that satisfy the named
assumptions. Eight modules hold them.

**ScopeLifecycle_proofs.** First the ledger: for any prior ledger with unique ids, all
minted before, `Derive` gives a well-typed ledger with unique ids, whose ids are old
bindings or fresh, and keeps the id of a handle that both bind. Then, for any number of
concurrent calls: `TypeCorrect`, `ShapeKept` (`StateShape`), `IdsUnique`
(`LedgerIdsUnique`), `IdsNeverRebound` (`IdNeverRebound`) and `ApprovedWasVettedHolds`
(`ApprovedWasVetted`), from the inductive invariant `Inv` (`Invariance`). None of the
four is inductive alone: a call writes from a copy. So `CopiesInv` says that a copy in
hand has a proper shape and was taken in the status the call's guard asked for,
`VettedInv` that a record with a verdict, on disk or in hand, is of a text a verdict was
recorded on, and `LedgersInv` that ledgers on disk and in hand bind distinct ids, that
everything they bind is in the history, and that every id in the history comes from a
derivation already counted, which is why a new one is fresh. With a single worker (an
ASSUME of those theorems), a copy in hand equals the file: `SerialVerdictKept` and
`SerialHandlesKeepIds` prove `OnlyRepairMovesVerdict` and `HandleKeepsId`.

**PhasePlan_proofs.** Lemmas on least elements and on requirers (closed, least,
transitive) and, for any schedule with `effective = Earliest`, that a plan builds
in order, delivers on time, and sorts a phase by every requirement.

**Phasing_proofs, the loop.** `LoopTypeCorrect`, and `ScheduleCorrect`: when the loop
ends, its result is `Earliest`, for every graph, cycles included, and every order of
visits. The invariant (`LoopInvariance`: `EffectiveInv`, `DoneInv`) says that an
effective phase is always the assigned phase of some requirer and never later than the
component's own; at the end nothing pulls, so a component's phase is no later than that
of anything that requires it, and the least of their assigned phases is reached. From it
`BuildsOnFinishedWork`, `DeliversFeatures`, `SortsPhases`.

**Phasing_proofs, the registry.** Every property the `phasing` run checks.
`BuiltPhasesAreDone` follows from the types alone, through the lemmas of the plan: with
no plan error, the node of every responsibility of a feature is in a listed phase no
later than the feature's. `BuiltIsKept` looks at what a step writes. The others need to
know what a call in progress may rely on, which is the invariant `Inv`: an assignment
holds the target file as it is on disk, still without the feature (`AssignInv`); a mint
wrote the plan that is still the live one, and has settled every node it no longer
lists, while the built ones agreed when it began (`MintInv`, where the guard on plan
errors is used); what a phase builds is in the plan file and in the live plan
(`BuildInv`); and unless a mint died, the stubs of the plan file have its closures
(`StubsInv`).

**EventStream_proofs.** For any number of threads, clients and events, and any
sizes of ring and queues: `TypeCorrect`, `OffsetsAreDense` (`OffsetsDense`),
`IdsAreRegisteredOnce` (`IdsRegisteredOnce`), `PublishAfterCommit`
(`OnlyCommittedPublished`). The reads of a request are unlocked, so none of them
survives a step alone. `RequestsInv` says what the holder of the write lock knows:
its offset is the next one and its id is free, as the constraints have just been
tested and nobody else can commit; and that whoever publishes has an offset that
is committed. `RoomInv` keeps the log, the ring and the queues within their sizes.

`StaleOnlyWhenLost` (`StaleOnlyIfLost`) is the delivery of messages, and rests on
`DeliveryInvariance`. `RingInv`: for every offset *s* below the end of the log, some
later offset is in the ring, or its thread is about to put it there. What can push
it out are the messages of *late* threads, those that still hold an offset up to *s*;
the entry's distance from the end of the ring and the number of late threads stay
together below the number of threads, and the ring has room for that many. This
count is the reason for `RingAssumption`. `ClientInv`: an attached queue that missed
nothing is in its set (`QueueInv`); the offset a client asks for is not beyond the
log, and before its end when the client is behind (`SinceInv`); and a client that
shows an old structure and lost nothing has a replay, a queued message, or a thread
whose fan-out will still reach it (`ComingInv`). `CopyRing` is the step where the
two meet: the replay brings what the fan-outs before the registration did not.

**Propagation_proofs.** For any finite set of scopes and any number of sessions and
propagations at once, two sessions on one record included: `TypeCorrect`,
`WorklistIsSubtreeHolds` (`WorklistIsSubtree`), `PassedIsFreshHolds` (`PassedIsFresh`)
and `FinishedIsFreshHolds` (`FinishedIsFresh`). They rest on the lemmas that to be
downstream of a scope, by the comparison of names in `IsDownstream`, is to have it among
one's `Ancestors`, and that ancestors are of earlier tiers. The invariant (`Inv`) says of
each record that it lists the scopes below its source, each once and after those above
it, and nothing but statuses ever changes in it (`ListInv`); and of each session
that whatever is behind it in its plan is fresh (`HandsOK`). A regeneration writes
one scope: what is behind the session comes earlier in the order of tiers, so that
scope is not among its ancestors, and stays fresh; what it is for the other
sessions is an edit by somebody else, which `moved` records. The argument does not look at
the marks, which is why it survives sessions that lose each other's updates.

**Projection_proofs.** For any nodes, drafts and texts, any number of requests and any
length of the log: every property of the `projection` run. It goes bottom up. An event
that is applied leaves well-formed tables, adds no id but its own, leads to no third
level unless it is a move, leaves settled drafts alone and no target with two pending
ones (`Effect`, one lemma for each group of handlers). `Replay` is a recursive function
of the length of the log; what is said of a replay, that it depends on the prefix alone
and leads to `Sound` tables when ids are minted once (`FreshRows`), is proved from the
least length at which it fails. `DbOK` says that a copy of the database holds the tables
its own log leads to, now and at each earlier offset, and that its snapshots are those
of their pins. `Inv` says it of what is committed (`DbOK(db)`) and of what a request has
not committed yet, which moreover only adds to it (`CopiesInv`); that only the holder of
the lock has such a copy (`SessionsInv`); that a rebuild, which puts other tables in
place, has saved what it will roll back to; and that the last diff answered is of its
two offsets (`ServedInv`). From it follow `Refinement` (`ImplementsLog`: a step is one
of `GraphLog` or a stutter, and a rebuild from the rows agrees or fails as `Agree`
says), `DiffIsOfThePinHolds`, `CreationKeepsTwoLevelsHolds`, `OffLogRowsKeptHolds` and
`DraftsSettleOnceHolds`, the last with `ReplayOfPrefix` over all the events of one
commit.

**Registration_proofs.** For any number of sessions, readers, names, attempts and
debounce windows: `TypeCorrect`, `DuplicatesOnlyOverlap` (`DuplicatesOverlap`),
`RegisteredBodyExists` (`RowHasBody`), `PushedIsFound` (`PushedBodyFound`).
`CommandsInv` and `RequestsInv` say that a command past its commit has its body in a
tree that can reach the remote, that an attempt has one request, and that a request past
its check was sent before any row of its name. For the reads, `Covers(n, t)` says that
the first *n* commits hold all that arrived before *t*, and `Brings(t)` that the clone,
as it is or as the one who makes it will leave it, covers *t*. `FetchInv` is the
argument: the last stamp is covered; a fetch under way has seen what arrived before the
clock it noted; a read that was let through, by its own fetch or by another's within the
window, covers its own `Window` (`Informed`), if the machine had been up for a window
when it began (`Awake`): until the first fetch, the stamp is `booted`. That git compares
before it moves a ref, and that a fetch that fails leaves no stamp, are the two places
where it would break. TLC confirmed each invariant on the instance of its run first.

**Documents_proofs.** For any set of answers, any number of features, components and
subcomponents, and any edges between them: every property of the `documents` run. A loop is
reasoned about through `IterateKeeps`: a family of sets `Inv[k]`, the states allowed
after *k* rounds, is carried from the start to the result. The rounds are counted in the
invariant, which is how a search is shown to have ended.

* `CycleSearchIsExact`. The path runs along edges and has no node twice; no edge leaves
  what is black, which is acyclic; and twice the black nodes plus those on the path is at
  least the number of rounds (`SearchInv`). After two rounds for each alias all are
  black. A successor on the path closes a cycle (`SearchCloses`), and a node that turns
  black adds none (`AcyclicGrows`).
* `SortIsComplete`. Each round places one component that was not placed yet; as long as
  nothing was stuck, what a placed component depends on was placed before it (`SortInv`);
  on a graph without a cycle there is always one that is ready.
* `NewEdgeCheckIsExact`. What the search back has seen it came to from the target, along
  edges, through nodes visited earlier (`Rooted`): so the parents lead back, one earlier
  node a round (`WayInv`). And unless the source was found, whatever an edge of a visited
  node leads to is visited or on the stack, and stack and rounds together are no more
  than the edges out of visited nodes and one (`Pending`). With one round more than there
  are edges the stack is empty, what is visited is closed, and an edge into it from
  outside closes nothing (`ClosedStaysAcyclic`).

Then the documents. Each validator is shown to promise something of the document it lets
through (`SysarchPromise`, `CompArchPromise`, `RequirementsFacts`), with
`CycleSearchIsExact` where it searches for cycles. None of the run's invariants is inductive
alone: `FeaturesTraced` is about four documents, each of which was checked
against the one above as it was then. So `IInv` (`DocumentsInvariance`) keeps what each
promised: the requirements have distinct names and cover the features they were asked for
(`BootInv`);
the system is valid for the responsibilities, and nothing is kept for what is not a
component of it (`SystemInv`); an architecture is valid for its component's
responsibilities as they are now, and its domain parents have their fan-ins (`ArchInv`);
and below a fan-in there are subcomponents, all implemented (`FanInInv`). From
it follow `FeaturesStayTraced`, `ParentsStayPresented`, `SubOrdersStay`, `GatesHold`
and `BuildOrderIsSound`; TLC confirmed `IInv` on the run's instance
first. What is not proved is that `Find` meets every tag of an answer within `MaxTags`
rounds: that is an induction over the tree, and no theorem depends on it, as a document
that is not found is not valid.

Assumptions used: `OrderAssumption` (phases are positive, any nonempty set of them has a
last one), `MissingFilesAssumption` (a file that is not there is no record), the types
of the tier relations, a slice is part of its component's responsibilities, valid texts
are texts; finitely many threads, clients and scopes, a ring with room for each thread,
queues of at least one; a window of at least one tick; the bounds are numbers; the
placeholder values (`NoThread`, `NoScope`, `None`, `Nobody`, `NoPath`, `NoName`) are
none of the things they stand in for, and paths are ids and roles; tiers, edge types and
texts are strings (`NamesAssumption`); what is nested in a tag is a tag
(`TagNodeAssumption`), and answers are sequences of tags (`AnswersAssumption`); the log
that is there at the start has events with fresh ids (`HistoryAssumption`). The one
hypothesis in a theorem is the single worker of the two serial theorems of
`ScopeLifecycle_proofs`.

**Only model-checked.** The liveness properties `DriftIsRepaired`, `DrainCompletes`
and `LoopEnds`, which need fairness, and `RequestsGoOn` and `ReadsGoOn`, which are
about ENABLED. Every other property of a passing run is proved.

## Limits of the models

* One file write is atomic. A torn JSON file would be rejected by its next reader.
* Digests are injective and random tokens never repeat.
* The reads at the start of a CLI call are one step. A single write that falls
  between two of them has the effect of one before or after them all; two
  writes of different files inside that window are not covered.
* `EventStream` follows one project, and a client that comes back has a new queue.
* `Phasing` runs one call at a time. Two registry calls at once would break
  `AtMostOnePhase`; the code claims nothing about that.
* `Propagation` has one session and one propagation in the run. That two sessions on one
  record lose each other's marks is in the model, and no property excludes it. A commit
  of the whole tree by somebody else, which would put the marks of a record into HEAD, is
  not.
* `Projection` takes events as they come: which of them still have a route that
  writes them, and which are left in old logs, makes no difference to it. SQLite's
  write lock is held from a request's first write; readers see the last commit.
* `Documents` approves a document once: one that is edited and approved again under
  what was approved below it is not covered. Components are taken in build order.
  What the handlers of approval keep is known from their readers' docstrings only.
* `GitViews` follows one project and one branch. A git call happens in two steps,
  the question to the remote and the arrival, and dies between them at most by failing.

## Not modelled

* *Backend git manager* (`backend/git_manager/service.py`): two of its operations
  take the project's lock and the others do not; planned.
* *Batches and tier commands*: a batch is resumed by gap-fill; the commands are
  texts for an agent. Planned.
* *Siege HTTP server, accounts, GitHub*: routing, sessions and an OAuth exchange;
  no state of their own but a view cache that changes no answer.
* *Projects, import, migration, database models*: rows created, listed and
  deleted; archive extraction; schema declarations.
* *Prompts, text diffs, read projections*: text from one view, nothing changed.
* *Frontend, samples, deployment*.

## Plan

Done, in this order: scope lifecycle with ledgers, event log and broadcaster,
propagation, phasing; then the reducer and its projections with review batches,
the document validators, and registration with the git views; the proofs of the
event stream and of registration; then those of the propagation, of the
projections with their refinement, and of the delivery of messages; last those of the
documents, with the searches and the sort. What is left:

1. *GraphLog* with the snapshot cache, and `ImplementsLog` extended to it: that a cached
   snapshot is what an uncached one would be is now a part of `DbOK` alone.
2. *Propagation* with the marks: what a record in the working tree still tells when
   two sessions drain it.
3. *GitManager*, locked and unlocked calls on one repository, with projects; and
   *Batches*, as gap-fill over scopes.
4. *Phasing* with fan-in, review and the commits between skills.
