--------------------------- MODULE ScopeLifecycle ---------------------------
(***************************************************************************)
(* One scope of a decomposing tier in a working tree, as the writer CLI    *)
(* (siege/cli.py) changes it.  Four files make the scope: the body, the    *)
(* review.md beside it, the state JSON and the identity ledger.  Every CLI *)
(* call is a process of its own: it reads the files, then writes the ones  *)
(* it owns one after the other, with no lock and no transaction.  Other    *)
(* calls, editors and reviewers act between its steps, and it can die      *)
(* there.                                                                  *)
(*                                                                         *)
(* One step of a call is: all the reads it starts with; or one file write  *)
(* together with the reads immediately before it.  A write of one file is  *)
(* atomic here.  Left out: nonces, timestamps, scores, edges, meta,        *)
(* is_foundation and prior_review_text, which no later guard reads.        *)
(***************************************************************************)
EXTENDS IdentityLedger

CONSTANTS
  Valid,      \* the texts validate_artifact accepts
  Worker,     \* the CLI calls that can be in progress together
  MaxEdits,   \* bound on the writes of the body by hand, agent or edit command
  MaxCrashes, \* bound on the calls that die half-way
  MaxMints    \* bound on the derivations that mint an id

ASSUME ValidAssumption == Valid \subseteq Body
ASSUME BoundsAssumption == MaxEdits \in Nat /\ MaxCrashes \in Nat /\ MaxMints \in Nat

VARIABLES
  body,       \* the body file
  reviewFile, \* the review file: the text its review discusses
  state,      \* the state JSON
  ledger,     \* the identity ledger
  op,         \* what each CLI call has in hand
  offered,    \* the text HEAD has for a reviewer: a committed draft, or NoFile
  context,    \* the text a reviewer has been given and is writing about
  mints,      \* how many derivations minted an id
  edits,      \* how many times the body was written
  crashes,    \* how many calls died
  bound,      \* history: every entry a ledger file ever held
  vetted      \* history: the texts a verdict was ever recorded on

files == <<body, reviewFile, state, ledger>>
review == <<offered, context>>
history == <<bound, vetted>>
vars == <<files, op, review, mints, edits, crashes, history>>
-----------------------------------------------------------------------------
File == Body \cup {NoFile}
Status == {"absent", "drafted", "reviewed", "approved"}

State == [status : Status, draft : File, review : File, approval : BOOLEAN]

NoState == [status |-> "absent", draft |-> NoFile, review |-> NoFile, approval |-> FALSE]

\* Slips of the next definition: the old review, or the whole verdict, kept.
DraftedKeepingReview(b) ==
  [status |-> "drafted", draft |-> b, review |-> state.review, approval |-> FALSE]
DraftedKeepingVerdict(b) ==
  [state EXCEPT !.draft = b, !.status = IF @ = "absent" THEN "drafted" ELSE @]

\* The record a draft leaves: review and approval are cleared.
Drafted(b) == [status |-> "drafted", draft |-> b, review |-> NoFile, approval |-> FALSE]

\* Where a call is, and the copies it works from.
Step == {"idle", "draft", "body", "resync", "ledger", "review", "approval",
         "repairLedger", "repairState"}
WithBytes == {"draft", "body", "resync", "ledger"}
Op == [at : Step, bytes : File, prior : State, rev : File, led : Ledger \cup {NoLedger}]
Idle == [at |-> "idle", bytes |-> NoFile, prior |-> NoState, rev |-> NoFile,
         led |-> NoLedger]

\* Every variable has its type, and a call that will derive or write from
\* body bytes holds a text that existed.
TypeOK ==
  /\ body \in File
  /\ reviewFile \in File
  /\ state \in State
  /\ ledger \in Ledger \cup {NoLedger}
  /\ op \in [Worker -> Op]
  /\ offered \in File /\ context \in File
  /\ mints \in Nat
  /\ edits \in Nat
  /\ crashes \in Nat
  /\ bound \in SUBSET Entry /\ vetted \in SUBSET File
  /\ \A w \in Worker : op[w].at \in WithBytes => op[w].bytes \in Body

Init ==
  /\ body = NoFile
  /\ reviewFile = NoFile
  /\ state = NoState
  /\ ledger = NoLedger
  /\ op = [w \in Worker |-> Idle]
  /\ offered = NoFile /\ context = NoFile
  /\ mints = 0
  /\ edits = 0
  /\ crashes = 0
  /\ bound = {} /\ vetted = {}
-----------------------------------------------------------------------------
(* Calls in progress *)

At(w, step) == op[w].at = step

\* Every call starts from the four files as it finds them.
Start(w, step) ==
  /\ At(w, "idle")
  /\ op' = [op EXCEPT ![w] = [at |-> step, bytes |-> body, prior |-> state,
                              rev |-> reviewFile, led |-> ledger]]

Goto(w, step) == op' = [op EXCEPT ![w].at = step]

\* A call that has written the state loads the ledger it will derive from.
GotoLedger(w) == op' = [op EXCEPT ![w].at = "ledger", ![w].led = ledger]

Return(w) == op' = [op EXCEPT ![w] = Idle]

\* derive_manifest of a text against a ledger, then write_manifest.
PutLedger(text, prior) ==
  LET new == Derive(text, prior, mints)
      fresh == \E i \in DOMAIN new.nodes : new.nodes[i].id[1] = mints
  IN /\ fresh => mints < MaxMints
     /\ ledger' = new
     /\ mints' = IF fresh THEN mints + 1 ELSE mints
     /\ bound' = bound \cup Bindings(new)
-----------------------------------------------------------------------------
(* cmd_write_draft *)

BeginDraft(w) ==
  /\ body \in Valid
  /\ Start(w, "draft")
  /\ UNCHANGED <<files, review, mints, edits, crashes, history>>

WriteDraftState(w) ==
  /\ At(w, "draft")
  /\ state' = Drafted(op[w].bytes)
  /\ GotoLedger(w)
  /\ UNCHANGED <<body, reviewFile, ledger, review, mints, edits, crashes, history>>

\* The last step of write-draft, mark-drafted and the substrate edits.
WriteLedger(w) ==
  /\ At(w, "ledger")
  /\ PutLedger(op[w].bytes, op[w].led)
  /\ Return(w)
  /\ UNCHANGED <<body, reviewFile, state, review, edits, crashes, vetted>>
-----------------------------------------------------------------------------
(* cmd_write_review and cmd_write_approval *)

BeginReview(w) ==
  /\ reviewFile # NoFile
  /\ state.status = "drafted"
  /\ Start(w, "review")
  /\ UNCHANGED <<files, review, mints, edits, crashes, history>>

WriteReviewState(w) ==
  /\ At(w, "review")
  /\ state' = [op[w].prior EXCEPT !.status = "reviewed", !.review = op[w].rev,
                                  !.approval = FALSE]
  /\ vetted' = vetted \cup {op[w].prior.draft}
  /\ Return(w)
  /\ UNCHANGED <<body, reviewFile, ledger, review, mints, edits, crashes, bound>>

\* A slip of the next definition: a scope approved straight from its draft.
BeginApprovalUnreviewed(w) ==
  /\ state.status \in {"drafted", "reviewed"}
  /\ Start(w, "approval")
  /\ UNCHANGED <<files, review, mints, edits, crashes, history>>

BeginApproval(w) ==
  /\ state.status = "reviewed"
  /\ Start(w, "approval")
  /\ UNCHANGED <<files, review, mints, edits, crashes, history>>

WriteApprovalState(w) ==
  /\ At(w, "approval")
  /\ state' = [op[w].prior EXCEPT !.status = "approved", !.approval = TRUE]
  /\ Return(w)
  /\ UNCHANGED <<body, reviewFile, ledger, review, mints, edits, crashes, history>>
-----------------------------------------------------------------------------
(* cmd_repair_drift: the ledger first, then the state if a digest moved *)

\* A slip of the next definition: only the review's digest is recomputed.
RepairedReviewOnly(w) ==
  [op[w].prior EXCEPT !.review = IF @ # NoFile /\ op[w].rev # NoFile THEN op[w].rev ELSE @]

\* The state with the digests of the files as the call read them; a file
\* that is missing, or a block the state lacks, is left alone.
Repaired(w) ==
  LET prior == op[w].prior
  IN [prior EXCEPT
        !.draft = IF op[w].bytes # NoFile THEN op[w].bytes ELSE @,
        !.review = IF @ # NoFile /\ op[w].rev # NoFile THEN op[w].rev ELSE @]

BeginRepair(w) ==
  /\ state # NoState
  /\ Start(w, "repairLedger")
  /\ UNCHANGED <<files, review, mints, edits, crashes, history>>

\* The body and the ledger are read again; the digest the state will record
\* is that of the bytes read first.
RepairLedger(w) ==
  /\ At(w, "repairLedger")
  /\ IF body = NoFile THEN UNCHANGED <<ledger, mints, bound>> ELSE PutLedger(body, ledger)
  /\ Goto(w, "repairState")
  /\ UNCHANGED <<body, reviewFile, state, review, edits, crashes, vetted>>

RepairState(w) ==
  /\ At(w, "repairState")
  /\ state' = IF Repaired(w) # op[w].prior THEN Repaired(w) ELSE state
  /\ vetted' = IF op[w].prior.status = "drafted" THEN vetted
               ELSE vetted \cup {Repaired(w).draft}
  /\ Return(w)
  /\ UNCHANGED <<body, reviewFile, ledger, review, mints, edits, crashes, bound>>
-----------------------------------------------------------------------------
(* cmd_mark_drafted, and the edits: cmd_add_feature, cmd_remove_feature,   *)
(* cmd_add_responsibility, cmd_remove_responsibility                       *)

BeginMarkDrafted(w) ==
  /\ state # NoState
  /\ body # NoFile
  /\ Start(w, "resync")
  /\ UNCHANGED <<files, review, mints, edits, crashes, history>>

\* add-*: a handle the body lacks, appended before the closing tag.
Adds(b, h, b2) ==
  /\ h \notin {Nodes[b][i] : i \in DOMAIN Nodes[b]}
  /\ Nodes[b2] = Append(Nodes[b], h)

\* remove-*: the only block with the handle; two matches are ambiguous.
Removes(b, h, b2) ==
  \E i \in DOMAIN Nodes[b] :
    /\ \A j \in DOMAIN Nodes[b] : Nodes[b][j] = h <=> j = i
    /\ Nodes[b2] = SubSeq(Nodes[b], 1, i - 1) \o SubSeq(Nodes[b], i + 1, Len(Nodes[b]))

BeginEdit(w) ==
  /\ state # NoState
  /\ body # NoFile
  /\ edits < MaxEdits
  /\ At(w, "idle")
  /\ \E h \in Handle, b2 \in Body :
       /\ Adds(body, h, b2) \/ Removes(body, h, b2)
       /\ op' = [op EXCEPT ![w] = [Idle EXCEPT !.at = "body", !.bytes = b2]]
  /\ edits' = edits + 1
  /\ UNCHANGED <<files, review, mints, crashes, history>>

WriteBody(w) ==
  /\ At(w, "body")
  /\ body' = op[w].bytes
  /\ Goto(w, "resync")
  /\ UNCHANGED <<reviewFile, state, ledger, review, mints, edits, crashes, history>>

\* _resync_drafted_state: the prior state is read again and must be there.
Resync(w) ==
  /\ At(w, "resync")
  /\ state # NoState
  /\ state' = Drafted(op[w].bytes)
  /\ GotoLedger(w)
  /\ UNCHANGED <<body, reviewFile, ledger, review, mints, edits, crashes, history>>
-----------------------------------------------------------------------------
(* The other writers of the working tree *)

\* A drafting agent, a modify-* skill, a merge or a user writes the body, or
\* deletes it.
HandEdit(b) ==
  /\ edits < MaxEdits
  /\ b # body
  /\ body' = b
  /\ edits' = edits + 1
  /\ UNCHANGED <<reviewFile, state, ledger, op, review, mints, crashes, history>>

\* The tree is committed: get-state and get-review-context read HEAD.
CommitTree ==
  /\ offered' = IF state.status = "drafted" THEN body ELSE NoFile
  /\ UNCHANGED <<files, op, context, mints, edits, crashes, history>>

\* get-state then get-review-context: the recorded digest is compared with
\* the recorded digest, and the text handed out is the body at HEAD.
FetchReviewContext ==
  /\ offered # NoFile
  /\ context' = offered
  /\ UNCHANGED <<files, op, offered, mints, edits, crashes, history>>

\* The review skill writes review.md about the text it was given.
ComposeReview ==
  /\ context # NoFile
  /\ reviewFile' = context
  /\ context' = NoFile
  /\ UNCHANGED <<body, state, ledger, op, offered, mints, edits, crashes, history>>

\* A call dies between two of its writes.
Crash(w) ==
  /\ ~ At(w, "idle")
  /\ crashes < MaxCrashes
  /\ crashes' = crashes + 1
  /\ Return(w)
  /\ UNCHANGED <<files, review, mints, edits, history>>
-----------------------------------------------------------------------------
\* drift_for: what get-state and its readers are told of this tree, a body
\* that is missing included.  A stale ledger is not part of it.
Drift == state # NoState /\ state.draft # body

Begin(w) ==
  \/ BeginDraft(w)
  \/ BeginReview(w)
  \/ BeginApproval(w)
  \/ BeginRepair(w)
  \/ BeginMarkDrafted(w)
  \/ BeginEdit(w)

Continue(w) ==
  \/ WriteDraftState(w)
  \/ WriteLedger(w)
  \/ WriteReviewState(w)
  \/ WriteApprovalState(w)
  \/ RepairLedger(w)
  \/ RepairState(w)
  \/ WriteBody(w)
  \/ Resync(w)

Next ==
  \/ \E w \in Worker : Begin(w) \/ Continue(w) \/ Crash(w)
  \/ \E b \in File : HandEdit(b)
  \/ CommitTree
  \/ FetchReviewContext
  \/ ComposeReview

Spec == Init /\ [][Next]_vars

\* A call that was started is scheduled until it returns; and whoever keeps
\* the tree runs repair-drift as long as get-state keeps reporting drift.
FairSpec ==
  /\ Spec
  /\ \A w \in Worker : WF_vars(Continue(w)) /\ SF_vars(Drift /\ BeginRepair(w))
-----------------------------------------------------------------------------
(* Properties *)

Shape(s) ==
  /\ s.status = "absent" <=> s.draft = NoFile
  /\ s.status \in {"reviewed", "approved"} <=> s.review # NoFile
  /\ s.status = "approved" <=> s.approval

\* The status a state file claims is backed by the blocks it carries: a
\* review exactly from `reviewed` on, an approval exactly when approved.  It
\* must survive calls that write from a copy read several steps earlier.
StateShape == Shape(state)

\* No two nodes of a ledger share an id, even when a body declares one
\* handle twice and derivations race or die.
LedgerIdsUnique == UniqueIds(ledger)

\* An id, once persisted, never names another handle: not after a removal,
\* a later re-add, a crash, or two derivations from the same prior ledger.
IdNeverRebound == \A e, f \in bound : e.id = f.id => e.handle = f.handle

\* Ids are stable across regenerations: a handle that both the old and the
\* new ledger file bind keeps its id (siege/manifest.py: carry forward).
HandleKeepsId ==
  [][\A h \in Handle : Binds(ledger, h) /\ Binds(ledger', h) =>
       ledger'.nodes[FirstEntry(ledger', h)].id = ledger.nodes[FirstEntry(ledger, h)].id]_vars

\* A text is approved only after a verdict was recorded on it: a review of a
\* state that recorded the text, or a repair-drift that put it under a review
\* given before.  It must hold through approvals written from old copies.
ApprovedWasVetted == state.status = "approved" => state.draft \in vetted

\* Under a verdict the recorded text moves only by repair-drift: any other
\* call that changes it drops the review and the approval with it.
OnlyRepairMovesVerdict ==
  [][\/ state'.draft = state.draft
     \/ state'.status = "drafted"
     \/ \E w \in Worker : At(w, "repairState")]_vars

\* What was reviewed is what was drafted: the review of a scope discusses
\* the text the scope records.
ReviewIsOfTheDraft == state.review # NoFile => state.review = state.draft

\* Once the tree is left alone the recorded digest comes back to the body
\* for good, whatever was interrupted before.  Only a body that is gone stays
\* reported for ever: repair-drift leaves the record of a missing file alone.
DriftIsRepaired == <>[](Drift => body = NoFile)

-----------------------------------------------------------------------------
(* The inductive invariant behind StateShape, LedgerIdsUnique,             *)
(* IdNeverRebound and ApprovedWasVetted: what the copies in hand satisfy.  *)

\* A call works from a well-shaped copy, taken in the status its guard asks.
CopiesInv ==
  \A w \in Worker :
    /\ Shape(op[w].prior)
    /\ At(w, "review") => op[w].prior.status = "drafted" /\ op[w].rev # NoFile
    /\ At(w, "approval") => op[w].prior.status = "reviewed"
    /\ op[w].at \in {"repairLedger", "repairState"} => op[w].prior.status # "absent"

\* A record that carries a verdict, on disk or in hand, is of a vetted text.
VettedInv ==
  LET OK(s) == s.status \in {"reviewed", "approved"} => s.draft \in vetted
  IN OK(state) /\ \A w \in Worker : OK(op[w].prior)

\* Ledgers on disk and in hand bind distinct ids, all of them recorded; a
\* recorded id was minted by a derivation already counted.
LedgersInv ==
  /\ UniqueIds(ledger) /\ Bindings(ledger) \subseteq bound
  /\ \A w \in Worker : UniqueIds(op[w].led) /\ Bindings(op[w].led) \subseteq bound
  /\ \A e \in bound : e.id[1] < mints

Inv == TypeOK /\ StateShape /\ CopiesInv /\ VettedInv /\ LedgersInv /\ IdNeverRebound
=============================================================================
