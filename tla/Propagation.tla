----------------------------- MODULE Propagation -----------------------------
(***************************************************************************)
(* Top-down regeneration of everything below a changed scope               *)
(* (siege/propagation.py, the propagation subcommands of siege/cli.py and  *)
(* the /propagate_downstream command that drives them).                    *)
(*                                                                         *)
(* open-propagation snapshots the existing downstream scopes as a worklist *)
(* in state/propagations/<id>.json, and the session commits that file.  It *)
(* then walks the worklist: mark the entry in_progress, regenerate the     *)
(* scope, mark it done.  These marks go to the record in the working tree, *)
(* and nobody commits them: what list-propagations reads at HEAD stays the *)
(* record as it was opened.  A session can die anywhere, with the checkout *)
(* or without; another resumes from HEAD, so it goes through every entry   *)
(* again.  Meanwhile scopes are edited, created and reset by others, and   *)
(* other propagations are opened over the same scopes.                     *)
(*                                                                         *)
(* A body is its version number and the versions of the scopes above it it *)
(* was generated against.  Left out: notes, op_type, threshold, meta,      *)
(* counts, and the worklists handed in as JSON.                            *)
(***************************************************************************)
EXTENDS Integers, Sequences, FiniteSets

CONSTANTS
  Scope,     \* the scopes of the project, as records
  Session,   \* the orchestrators that can be draining
  NoScope,   \* stands for no source
  MaxTries,  \* the failures in a row that stop a drain; the command says 3
  MaxOpens,  \* bound on the propagations opened
  MaxEdits,  \* bound on the edits, creations and resets by others
  MaxFails,  \* bound on the regenerations that fail
  MaxCrashes, \* bound on the sessions and checkouts that are lost
  MaxRepeats \* bound on the drains begun once the tree's record is complete

\* TOP_DOWN_CHAIN; fanin is left out of it by design.
TOP_DOWN_CHAIN == <<"feature_expansion", "requirements", "sysarch", "comparch",
                    "subcomparch", "impl">>
SubstrateRoots == {"feature_expansion", "requirements", "sysarch"}
Tier == {TOP_DOWN_CHAIN[i] : i \in DOMAIN TOP_DOWN_CHAIN} \cup {"fanin"}

ASSUME ScopeAssumption ==
  /\ IsFiniteSet(Scope)
  /\ \A s \in Scope : s.tier \in Tier /\ DOMAIN s = {"tier", "comp", "parent", "sub", "phase"}
ASSUME NoScopeAssumption == NoScope \notin Scope
ASSUME TriesAssumption == MaxTries \in Nat \ {0}
ASSUME BoundsAssumption ==
  /\ MaxOpens \in Nat /\ MaxEdits \in Nat /\ MaxFails \in Nat
  /\ MaxCrashes \in Nat /\ MaxRepeats \in Nat

VARIABLES
  existing,  \* the scopes that have a state file
  version,   \* how often each scope's body was written
  built,     \* for each scope, the versions of all bodies when it was written
  source,    \* for each propagation, the scope it was opened for
  opened,    \* the worklist of its record as opened: what HEAD shows if committed
  worklist,  \* the worklist of its record in the working tree
  atHead,    \* the propagations whose record was committed
  session,   \* what each orchestrator has in hand
  touched,   \* history: the scopes others wrote since the propagation opened
  moved,     \* history: the scopes others wrote since the session's drain began
  opens, edits, fails, crashes, repeats  \* counters behind the bounds

bodies == <<existing, version, built>>
record == <<source, opened, worklist, atHead>>
written == <<touched, moved>>
counters == <<opens, edits, fails, crashes, repeats>>
vars == <<bodies, record, session, written, counters>>
-----------------------------------------------------------------------------
(* Worklists *)

Terminal == {"done", "skipped"}
EntryStatus == {"pending", "in_progress"} \cup Terminal
Entry == [scope : Scope, status : EntryStatus]
Worklist == Seq(Entry)

\* The rolled-up status: an empty worklist is complete.
Complete(w) == \A i \in DOMAIN w : w[i].status \in Terminal

\* update_entry: the entries whose key is the scope's take the status.
UpdateEntry(w, s, st) ==
  [i \in DOMAIN w |-> IF w[i].scope = s THEN [w[i] EXCEPT !.status = st] ELSE w[i]]

Rank(s) == CHOOSE i \in DOMAIN TOP_DOWN_CHAIN : TOP_DOWN_CHAIN[i] = s.tier
Below(t, s) == t.tier # "fanin" /\ s.tier # "fanin" /\ Rank(t) > Rank(s)

\* A slip of the next definition: a subcomponent's name taken as unique.
IsDownstreamBySub(t, s) ==
  /\ Below(t, s)
  /\ \/ s.tier \in SubstrateRoots
     \/ s.tier = "comparch" /\ t.parent = s.comp
     \/ s.tier = "subcomparch" /\ t.sub = s.sub

\* _is_downstream: t is in the top-down subtree of s.
IsDownstream(t, s) ==
  /\ Below(t, s)
  /\ \/ s.tier \in SubstrateRoots
     \/ s.tier = "comparch" /\ t.parent = s.comp
     \/ s.tier = "subcomparch" /\ t.parent = s.parent /\ t.sub = s.sub

\* Slips of the next definition: the tiers walked bottom-up; one tier only.
DownstreamBottomUp(src) ==
  LET stale == {s \in existing : IsDownstream(s, src)}
  IN {w \in [1 .. Cardinality(stale) -> [scope : stale, status : {"pending"}]] :
        \A i, j \in DOMAIN w : i < j => /\ w[i].scope # w[j].scope
                                        /\ Rank(w[i].scope) >= Rank(w[j].scope)}
DownstreamNextTier(src) ==
  LET stale == {s \in existing : IsDownstream(s, src) /\ Rank(s) = Rank(src) + 1}
  IN {w \in [1 .. Cardinality(stale) -> [scope : stale, status : {"pending"}]] :
        \A i, j \in DOMAIN w : i < j => w[i].scope # w[j].scope}

\* compute_downstream_worklist: the existing downstream scopes, tier after
\* tier; inside a tier the order is that of the files in the tree.
Downstream(src) ==
  LET stale == {s \in existing : IsDownstream(s, src)}
  IN {w \in [1 .. Cardinality(stale) -> [scope : stale, status : {"pending"}]] :
        \A i, j \in DOMAIN w : i < j => /\ w[i].scope # w[j].scope
                                        /\ Rank(w[i].scope) <= Rank(w[j].scope)}
-----------------------------------------------------------------------------
(* Sessions *)

Step == {"idle", "commit", "pick", "claim", "regen", "report", "settle"}
Id == 1 .. MaxOpens
Hand == [at : Step, prop : Id \cup {0}, i : Nat, copy : Worklist, to : EntryStatus,
         failed : Nat]
Idle == [at |-> "idle", prop |-> 0, i |-> 0, copy |-> << >>, to |-> "pending",
         failed |-> 0]

At(k, step) == session[k].at = step
Goto(k, step) == session' = [session EXCEPT ![k].at = step]
Stop(k) == session' = [session EXCEPT ![k] = Idle]

\* The worklist the session goes by, and the scope it is working on.
Plan(k) == opened[session[k].prop]
Current(k) == Plan(k)[session[k].i].scope

TypeOK ==
  /\ existing \subseteq Scope
  /\ version \in [Scope -> Nat]
  /\ built \in [Scope -> [Scope -> Nat]]
  /\ source \in [Id -> Scope \cup {NoScope}]
  /\ opened \in [Id -> Worklist] /\ worklist \in [Id -> Worklist]
  /\ atHead \subseteq Id
  /\ session \in [Session -> Hand]
  /\ touched \in [Id -> SUBSET Scope] /\ moved \in [Session -> SUBSET Scope]
  /\ opens \in Nat /\ edits \in Nat /\ fails \in Nat /\ crashes \in Nat /\ repeats \in Nat
  /\ \A k \in Session :
       /\ ~ At(k, "idle") => session[k].prop \in Id
       /\ session[k].at \in {"claim", "regen", "report", "settle"}
            => session[k].i \in DOMAIN Plan(k)

\* Every scope was written before everything above it changed.
Init ==
  /\ existing = Scope
  /\ version = [s \in Scope |-> 1]
  /\ built = [s \in Scope |-> [u \in Scope |-> 0]]
  /\ source = [p \in Id |-> NoScope]
  /\ opened = [p \in Id |-> << >>]
  /\ worklist = [p \in Id |-> << >>]
  /\ atHead = {}
  /\ session = [k \in Session |-> Idle]
  /\ touched = [p \in Id |-> {}]
  /\ moved = [k \in Session |-> {}]
  /\ opens = 0 /\ edits = 0 /\ fails = 0 /\ crashes = 0 /\ repeats = 0
-----------------------------------------------------------------------------
(* Opening and resuming *)

\* open-propagation --from-source-scope-json writes a new record.
Open(k, src) ==
  /\ At(k, "idle")
  /\ opens < MaxOpens
  /\ src \in existing
  /\ LET p == opens + 1 IN
     /\ \E w \in Downstream(src) :
          /\ opened' = [opened EXCEPT ![p] = w]
          /\ worklist' = [worklist EXCEPT ![p] = w]
     /\ source' = [source EXCEPT ![p] = src]
     /\ session' = [session EXCEPT ![k] = [Idle EXCEPT !.at = "commit", !.prop = p]]
     /\ touched' = [touched EXCEPT ![p] = {}]
  /\ moved' = [moved EXCEPT ![k] = {}]
  /\ opens' = opens + 1
  /\ UNCHANGED <<bodies, atHead, edits, fails, crashes, repeats>>

\* Git add + commit of that file before draining.
Commit(k) ==
  /\ At(k, "commit")
  /\ atHead' = atHead \cup {session[k].prop}
  /\ Goto(k, "pick")
  /\ UNCHANGED <<bodies, source, opened, worklist, written, counters>>

\* A resumed run works from what list-propagations shows: HEAD.
Resume(k, p) ==
  /\ At(k, "idle")
  /\ p \in atHead
  /\ ~ Complete(opened[p])
  /\ IF Complete(worklist[p])
     THEN repeats < MaxRepeats /\ repeats' = repeats + 1
     ELSE repeats' = repeats
  /\ session' = [session EXCEPT ![k] = [Idle EXCEPT !.at = "pick", !.prop = p]]
  /\ moved' = [moved EXCEPT ![k] = {}]
  /\ UNCHANGED <<bodies, record, touched, opens, edits, fails, crashes>>

\* Gap-fill: the entries still to be retried, done and skipped stay put.
Left(k) ==
  {i \in DOMAIN Plan(k) : i > session[k].i /\ Plan(k)[i].status \notin Terminal}

\* The next entry in worklist order; update-propagation-entry reads the record.
Pick(k) ==
  /\ At(k, "pick")
  /\ \E i \in Left(k) :
       /\ \A j \in Left(k) : i <= j
       /\ session' = [session EXCEPT ![k].at = "claim", ![k].i = i,
                                     ![k].copy = worklist[session[k].prop]]
  /\ UNCHANGED <<bodies, record, written, counters>>

Finish(k) ==
  /\ At(k, "pick")
  /\ Left(k) = {}
  /\ Stop(k)
  /\ UNCHANGED <<bodies, record, written, counters>>
-----------------------------------------------------------------------------
(* One entry *)

\* The record as it was read goes back with the entry's status.
Mark(k, st) ==
  worklist' = [worklist EXCEPT
                 ![session[k].prop] = UpdateEntry(session[k].copy, Current(k), st)]

Claim(k) ==
  /\ At(k, "claim")
  /\ Mark(k, "in_progress")
  /\ Goto(k, "regen")
  /\ UNCHANGED <<bodies, source, opened, atHead, written, counters>>

\* A body is written against the bodies that are there.
Write(s) ==
  /\ version' = [version EXCEPT ![s] = @ + 1]
  /\ built' = [built EXCEPT ![s] = version]

\* The per-tier regen skill drafts a new body and commits it.
Regenerate(k) ==
  /\ At(k, "regen")
  /\ Current(k) \in existing
  /\ Write(Current(k))
  /\ session' = [session EXCEPT ![k].at = "report", ![k].to = "done"]
  /\ moved' = [j \in Session |-> IF j = k THEN moved[j] ELSE moved[j] \cup {Current(k)}]
  /\ UNCHANGED <<existing, record, touched, counters>>

\* A slip of the next definition: a vanished candidate passed over in silence.
VanishedUnmarked(k) ==
  /\ At(k, "regen")
  /\ Current(k) \notin existing
  /\ Goto(k, "pick")
  /\ UNCHANGED <<bodies, record, written, counters>>

\* A candidate that disappeared is skipped.
Vanished(k) ==
  /\ At(k, "regen")
  /\ Current(k) \notin existing
  /\ session' = [session EXCEPT ![k].at = "report", ![k].to = "skipped"]
  /\ UNCHANGED <<bodies, record, written, counters>>

\* The last failure allowed in a row stops the drain; the entry stays in_progress.
RegenFails(k) ==
  /\ At(k, "regen")
  /\ fails < MaxFails
  /\ fails' = fails + 1
  /\ IF session[k].failed = MaxTries - 1
     THEN Stop(k)
     ELSE session' = [session EXCEPT ![k].failed = @ + 1]
  /\ UNCHANGED <<bodies, record, written, opens, edits, crashes, repeats>>

\* update-propagation-entry reads the record, then rewrites it.
Report(k) ==
  /\ At(k, "report")
  /\ session' = [session EXCEPT ![k].at = "settle", ![k].copy = worklist[session[k].prop]]
  /\ UNCHANGED <<bodies, record, written, counters>>

Settle(k) ==
  /\ At(k, "settle")
  /\ Mark(k, session[k].to)
  /\ session' = [session EXCEPT ![k].at = "pick", ![k].failed = 0]
  /\ UNCHANGED <<bodies, source, opened, atHead, written, counters>>

Crash(k) ==
  /\ ~ At(k, "idle")
  /\ crashes < MaxCrashes
  /\ crashes' = crashes + 1
  /\ Stop(k)
  /\ UNCHANGED <<bodies, record, written, opens, edits, fails, repeats>>

\* The checkout is lost with its sessions and cloned again: the records are
\* those at HEAD.
Reclone ==
  /\ crashes < MaxCrashes
  /\ crashes' = crashes + 1
  /\ session' = [k \in Session |-> Idle]
  /\ source' = [p \in Id |-> IF p \in atHead THEN source[p] ELSE NoScope]
  /\ opened' = [p \in Id |-> IF p \in atHead THEN opened[p] ELSE << >>]
  /\ worklist' = [p \in Id |-> IF p \in atHead THEN opened[p] ELSE << >>]
  /\ UNCHANGED <<bodies, atHead, written, opens, edits, fails, repeats>>
-----------------------------------------------------------------------------
(* Everybody else *)

\* A scope is drafted, modified or drafted again outside the propagation.
Edit(s) ==
  /\ edits < MaxEdits
  /\ Write(s)
  /\ existing' = existing \cup {s}
  /\ touched' = [p \in Id |-> touched[p] \cup {s}]
  /\ moved' = [k \in Session |-> moved[k] \cup {s}]
  /\ edits' = edits + 1
  /\ UNCHANGED <<record, session, opens, fails, crashes, repeats>>

\* A scope's state file is removed.
Reset(s) ==
  /\ edits < MaxEdits
  /\ s \in existing
  /\ existing' = existing \ {s}
  /\ touched' = [p \in Id |-> touched[p] \cup {s}]
  /\ edits' = edits + 1
  /\ UNCHANGED <<version, built, record, session, moved, opens, fails, crashes, repeats>>

Drain(k) ==
  Commit(k) \/ Pick(k) \/ Finish(k) \/ Claim(k) \/ Regenerate(k) \/ Vanished(k)
    \/ Report(k) \/ Settle(k)

Next ==
  \/ \E k \in Session :
       \/ Drain(k) \/ RegenFails(k) \/ Crash(k)
       \/ \E p \in Id : Resume(k, p)
       \/ \E s \in Scope : Open(k, s)
  \/ Reclone
  \/ \E s \in Scope : Edit(s) \/ Reset(s)

Spec == Init /\ [][Next]_vars

\* A session that drains is not abandoned for ever, and a propagation that
\* shows as open is resumed.
FairSpec ==
  Spec /\ \A k \in Session : WF_vars(Drain(k)) /\ \A p \in Id : WF_vars(Resume(k, p))
-----------------------------------------------------------------------------
(* Properties *)

\* Every scope above t, read off the parts of its name.
Ancestors(t) ==
  {s \in Scope :
    /\ s.tier # "fanin" /\ t.tier # "fanin" /\ s # t
    /\ \/ s.tier \in SubstrateRoots /\ t.tier \notin SubstrateRoots
       \/ s.tier \in SubstrateRoots /\ t.tier \in SubstrateRoots /\ Rank(s) < Rank(t)
       \/ s.tier = "comparch" /\ t.tier \in {"subcomparch", "impl"} /\ s.comp = t.parent
       \/ s.tier = "subcomparch" /\ t.tier = "impl" /\ <<s.parent, s.sub>> = <<t.parent, t.sub>>}

\* s was written against the current version of every body above it, but for
\* those that others wrote since the drain of session k began.
Fresh(k, s) ==
  \A u \in (existing \cap Ancestors(s)) \ moved[k] : built[s][u] = version[u]

\* The worklist is the subtree below the source as its names draw it, for
\* what existed when it was opened: no sibling component, no fanin, and
\* nothing missing.
WorklistIsSubtree ==
  \A p \in Id :
    LET listed == {worklist[p][i].scope : i \in DOMAIN worklist[p]}
    IN source[p] # NoScope =>
         /\ \A s \in listed : source[p] \in Ancestors(s)
         /\ \A s \in existing \ touched[p] : source[p] \in Ancestors(s) => s \in listed

\* The entries a drain has dealt with so far.
Passed(k) ==
  {i \in DOMAIN Plan(k) :
     \/ i < session[k].i
     \/ i = session[k].i /\ session[k].at \in {"pick", "report", "settle"}}

\* What a drain has brought up to date stays so to its end: the entries it
\* still has to go through never make one behind it stale, whichever drains
\* died before it, whatever they had done, and whatever others do meanwhile.
PassedIsFresh ==
  \A k \in Session : ~ At(k, "idle") =>
    \A i \in Passed(k) : Plan(k)[i].scope \in existing => Fresh(k, Plan(k)[i].scope)

\* A drain that has come to its end leaves no scope below its source stale:
\* the promise of /propagate_downstream, first time or resumed.
FinishedIsFresh ==
  \A k \in Session : At(k, "pick") /\ Left(k) = {} =>
    LET p == session[k].prop
    IN \A s \in existing \ touched[p] : source[p] \in Ancestors(s) => Fresh(k, s)

\* A propagation that was committed is drained to the end, whatever dies,
\* fails or is lost on the way, as long as somebody resumes it.
DrainCompletes ==
  \A p \in Id : p \in atHead /\ ~ Complete(worklist[p]) ~> Complete(worklist[p])
=============================================================================
