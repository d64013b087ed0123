------------------------------ MODULE GitViews -----------------------------
(***************************************************************************)
(* siege/git_view.py: how a read of the server reaches a commit of the     *)
(* project.  _ProjectClone clones once and fetches at most once per        *)
(* debounce window, under a lock per ref.  The views that GitViewCache     *)
(* keeps are immutable, one per commit: its evictions change no answer     *)
(* about a body and are left out.                                          *)
(*                                                                         *)
(* One project, one ref (main).  A commit is its place in the history of   *)
(* the remote, a tree the set of the paths in it.  git itself is external: *)
(* a clone or a fetch brings what the remote has when it asks, or fails.   *)
(***************************************************************************)
EXTENDS Integers, Sequences, FiniteSets, SequencesExt

CONSTANTS
  Reader,   \* worker threads that serve reads
  Path,     \* the paths of bodies
  Debounce, \* git_fetch_debounce_seconds
  MaxClock, \* bound on the time that passes
  Nobody,   \* nobody holds the fetch lock
  NoPath    \* nothing read yet

ASSUME ReadersAssumption == Nobody \notin Reader
ASSUME PathsAssumption == NoPath \notin Path
ASSUME TimesAssumption == Debounce \in Nat \ {0} /\ MaxClock \in Nat

VARIABLES
  main,    \* the commits of the remote's branch: when each arrived, what it adds
  clock,   \* the time
  booted,  \* when the server's machine started: the zero of time.monotonic()
  clone,   \* the clone on disk: how far it is made, and its origin/main
  fetched, \* _FetchDebounce.last_fetched_at
  lock,    \* _FetchDebounce.lock
  reader   \* the read each thread serves

views == <<booted, clone, fetched, lock, reader>>
-----------------------------------------------------------------------------
ReadStep == {"idle", "make", "cloning", "fetch", "fetching", "resolve", "view"}

NoRead == [at |-> "idle", path |-> NoPath, began |-> 0, now |-> 0,
           old |-> 0, seen |-> 0, sha |-> 0]

CommitRecord == [at : Nat, adds : SUBSET Path]
Clone == [at : {"none", "making", "filling", "ready"}, head : Nat]
Read == [at : ReadStep, path : Path \cup {NoPath}, began : Nat, now : Nat,
         old : Nat, seen : Nat, sha : Nat]

ViewsTypeOK ==
  /\ main \in Seq(CommitRecord)
  /\ clock \in Nat
  /\ booted \in Int
  /\ clone \in Clone
  /\ fetched \in Int
  /\ lock \in Reader \cup {Nobody}
  /\ reader \in [Reader -> Read]

\* last_fetched_at begins as 0.0, which time.monotonic() counts from: until
\* the first fetch, the window is that of the machine's start.
ViewsInit ==
  /\ booted \in 0 - Debounce .. 0
  /\ clone = [at |-> "none", head |-> 0]
  /\ fetched = booted
  /\ lock = Nobody
  /\ reader = [r \in Reader |-> NoRead]

\* The tree of the n-th commit.
Tree(n) == UNION {main[i].adds : i \in 1 .. n}

At(r, step) == reader[r].at = step
Goto(r, step) == reader' = [reader EXCEPT ![r].at = step]

\* The read ends: with the body, or with a GitViewError.
EndRead(r) == reader' = [reader EXCEPT ![r] = NoRead]
-----------------------------------------------------------------------------
(* GitViewCache.get_view *)

\* A request for the body at a path.  ensure_cloned looks for .git, which a
\* clone in the making already has.
OpenView(r, p) ==
  /\ At(r, "idle")
  /\ reader' = [reader EXCEPT ![r] =
       [NoRead EXCEPT !.at = IF clone.at = "none" THEN "make" ELSE "fetch",
                      !.path = p, !.began = clock]]
  /\ UNCHANGED <<clone, fetched, lock>>

StartClone(r) ==
  /\ At(r, "make")
  /\ clone.at = "none"
  /\ clone' = [clone EXCEPT !.at = "making"]
  /\ Goto(r, "cloning")
  /\ UNCHANGED <<fetched, lock>>

\* The new clone has its origin and asks it for the branch.
AskRemote(r) ==
  /\ At(r, "cloning")
  /\ clone.at = "making"
  /\ clone' = [clone EXCEPT !.at = "filling"]
  /\ reader' = [reader EXCEPT ![r].seen = Len(main)]
  /\ UNCHANGED <<fetched, lock>>

\* Another request made the directory in between.
CloneTooLate(r) ==
  /\ At(r, "make")
  /\ clone.at # "none"
  /\ EndRead(r)
  /\ UNCHANGED <<clone, fetched, lock>>

FinishClone(r) ==
  /\ At(r, "cloning")
  /\ clone.at = "filling"
  /\ clone' = [at |-> "ready", head |-> reader[r].seen]
  /\ reader' = [reader EXCEPT ![r].at = "fetch", ![r].seen = 0]
  /\ UNCHANGED <<fetched, lock>>

\* git removes what a failed clone leaves.
FailClone(r) ==
  /\ At(r, "cloning")
  /\ clone' = [at |-> "none", head |-> 0]
  /\ EndRead(r)
  /\ UNCHANGED <<fetched, lock>>

\* list_refs, the read of no path, fetches everything or fails: no lock, no
\* window.
FetchAll(r) ==
  /\ At(r, "fetch")
  /\ reader[r].path = NoPath
  /\ \/ clone.at = "ready" /\ clone' = [clone EXCEPT !.head = Len(main)]
     \/ UNCHANGED clone
  /\ EndRead(r)
  /\ UNCHANGED <<fetched, lock>>

\* fetch_ref within the window of the last fetch.
SkipFetch(r) ==
  /\ At(r, "fetch")
  /\ reader[r].path # NoPath
  /\ lock = Nobody
  /\ clock - fetched < Debounce
  /\ Goto(r, "resolve")
  /\ UNCHANGED <<clone, fetched, lock>>

BeginFetch(r) ==
  /\ At(r, "fetch")
  /\ reader[r].path # NoPath
  /\ lock = Nobody
  /\ clock - fetched >= Debounce
  /\ lock' = r
  /\ reader' = [reader EXCEPT ![r].at = "fetching", ![r].now = clock,
                  ![r].old = clone.head, ![r].seen = Len(main)]
  /\ UNCHANGED <<clone, fetched>>

GotoResolve(r) ==
  reader' = [reader EXCEPT ![r].at = "resolve", ![r].now = 0, ![r].old = 0, ![r].seen = 0]

\* The remote-tracking ref moves to what the remote had, unless somebody
\* moved it meanwhile: git compares.
EndFetch(r) ==
  /\ At(r, "fetching")
  /\ clone.at = "ready" /\ clone.head = reader[r].old
  /\ clone' = [clone EXCEPT !.head = reader[r].seen]
  /\ fetched' = reader[r].now
  /\ lock' = Nobody
  /\ GotoResolve(r)

\* A slip of the next definition: the window starts with the attempt.
FailFetchStamped(r) ==
  /\ At(r, "fetching")
  /\ fetched' = reader[r].now
  /\ lock' = Nobody
  /\ EndRead(r)
  /\ UNCHANGED clone

\* A slip of the next definition: the lock is not given back.
FailFetchHolding(r) ==
  /\ At(r, "fetching")
  /\ EndRead(r)
  /\ UNCHANGED <<clone, fetched, lock>>

\* The fetch fails, as it does in a clone that is still being made.
FailFetch(r) ==
  /\ At(r, "fetching")
  /\ lock' = Nobody
  /\ EndRead(r)
  /\ UNCHANGED <<clone, fetched>>

\* git remote names no origin yet in a clone that has just begun: the window
\* starts and nothing is fetched.
NoOriginYet(r) ==
  /\ At(r, "fetching")
  /\ clone.at = "making"
  /\ fetched' = reader[r].now
  /\ lock' = Nobody
  /\ GotoResolve(r)
  /\ UNCHANGED clone

Resolve(r) ==
  /\ At(r, "resolve")
  /\ clone.at = "ready" /\ clone.head > 0
  /\ reader' = [reader EXCEPT ![r].at = "view", ![r].sha = clone.head]
  /\ UNCHANGED <<clone, fetched, lock>>

FailResolve(r) ==
  /\ At(r, "resolve")
  /\ ~ (clone.at = "ready" /\ clone.head > 0)
  /\ EndRead(r)
  /\ UNCHANGED <<clone, fetched, lock>>

\* The view of the commit, and the body in it if it has one at the path.
ReadBody(r) ==
  /\ At(r, "view")
  /\ EndRead(r)
  /\ UNCHANGED <<clone, fetched, lock>>

\* The server stops and starts, alone or with its machine.  The clone stays,
\* unless it was being made.
Restart ==
  /\ booted' \in {booted, clock}
  /\ clone' = IF clone.at \in {"making", "filling"} THEN [at |-> "none", head |-> 0] ELSE clone
  /\ fetched' = booted'
  /\ lock' = Nobody
  /\ reader' = [r \in Reader |-> NoRead]

ServeRead(r) ==
  \/ StartClone(r)
  \/ AskRemote(r)
  \/ CloneTooLate(r)
  \/ FinishClone(r)
  \/ FailClone(r)
  \/ FetchAll(r)
  \/ SkipFetch(r)
  \/ BeginFetch(r)
  \/ EndFetch(r)
  \/ FailFetch(r)
  \/ NoOriginYet(r)
  \/ Resolve(r)
  \/ FailResolve(r)
  \/ ReadBody(r)
-----------------------------------------------------------------------------
(* Properties *)

Pushed(p, t) == \E i \in DOMAIN main : p \in main[i].adds /\ main[i].at <= t

\* The window that a restart leaves is over: no fetch is skipped any more
\* because the machine has just started.
Awake(r) == booted <= reader[r].began - Debounce

\* A body that had been on the remote for a debounce window when a read of
\* it began is found, unless git failed or the machine has just started:
\* neither the window, nor a fetch of another thread, nor one that failed,
\* nor a restart of the server leaves an older tree to be served.
PushedBodyFound ==
  \A r \in Reader :
    At(r, "view") /\ Awake(r) /\ Pushed(reader[r].path, reader[r].began - Debounce)
      => reader[r].path \in Tree(reader[r].sha)

\* No read waits for ever: it can go on, or waits for the fetch of another
\* that can, however the clone and the fetches before it ended.
ReadsGoOn ==
  \A r \in Reader :
    At(r, "idle") \/ ENABLED ServeRead(r) \/ (lock \in Reader /\ ENABLED ServeRead(lock))
-----------------------------------------------------------------------------
(* The inductive invariant behind PushedBodyFound *)

\* The first n commits hold all that arrived before t.
Covers(n, t) == \A i \in DOMAIN main : main[i].at < t => i <= n

\* A clone that is there, or that has asked the remote already, has all that
\* arrived before t; one that has still to ask will have it.
Brings(t) ==
  /\ clone.at = "ready" => Covers(clone.head, t)
  /\ \A r \in Reader : At(r, "cloning") /\ clone.at = "filling" => Covers(reader[r].seen, t)

\* The first moment a read of r need not know of.
Window(r) == reader[r].began - Debounce + 1

\* One thread at most makes the clone.
CloneInv ==
  /\ clone.head <= Len(main)
  /\ \A r \in Reader : At(r, "cloning") => clone.at \in {"making", "filling"}
  /\ \A r, q \in Reader : At(r, "cloning") /\ At(q, "cloning") => r = q

\* What has been read of the clock and of the remote is not from the future.
ClockInv ==
  /\ \A i \in DOMAIN main : main[i].at <= clock
  /\ booted <= clock /\ fetched <= clock
  /\ \A r \in Reader :
       reader[r].began <= clock /\ reader[r].now <= clock /\ reader[r].seen <= Len(main)

\* What the fetch under way has seen, and what a read past its own gets.
Informed(r) ==
  /\ At(r, "fetching") => /\ Covers(reader[r].seen, reader[r].now)
                         /\ reader[r].old <= reader[r].seen
                         /\ reader[r].began <= reader[r].now
  /\ At(r, "resolve") /\ Awake(r) => Brings(Window(r))
  /\ At(r, "view") /\ Awake(r) => Covers(reader[r].sha, Window(r))

FetchInv ==
  /\ fetched = booted \/ Brings(fetched)
  /\ \A r \in Reader : Informed(r)

ViewsInv == CloneInv /\ ClockInv /\ FetchInv
=============================================================================
