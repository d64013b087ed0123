---------------------------- MODULE Registration ---------------------------
(***************************************************************************)
(* create-ref, create-vocab and add-input-doc (siege/cli.py) as clients:   *)
(* look the name up, commit the body, push it, register it at the backend  *)
(* (references_git_routes.py, vocabulary_git_routes.py,                    *)
(* input_documents_routes.py).  Each step can fail, an answer can be lost  *)
(* and the command be repeated.  Composed with the reads of GitViews,      *)
(* through which resolve_ref_body serves a registered body.                *)
(*                                                                         *)
(* A session works in a clone of its own.  A reference or a vocabulary     *)
(* entry is a name: both commands do the same.  Each attempt mints an id,  *)
(* which is the path of its body; the path of an input document is its     *)
(* role.                                                                   *)
(***************************************************************************)
EXTENDS GitViews

CONSTANTS
  Session,    \* checkouts in which commands run
  Name,       \* names of references
  Role,       \* roles of input documents
  MaxIds,     \* bound on the attempts that get as far as a commit
  MaxCommits, \* bound on the commits of the remote
  NoName      \* no command in hand

ASSUME BoundsAssumption == MaxIds \in Nat \ {0} /\ MaxCommits \in Nat \ {0}
ASSUME NamesAssumption == Name \cap Role = {} /\ NoName \notin Name \cup Role
ASSUME PathAssumption == Path = (1 .. MaxIds) \cup Role

VARIABLES
  cli,     \* the command each session runs
  repo,    \* each session's checkout: the commits of the remote it has, and its own
  minted,  \* the attempts so far
  request, \* the registration each attempt posts
  rows     \* the registered rows, in commit order

clients == <<cli, repo, minted, request, rows>>
vars == <<main, clock, views, clients>>
-----------------------------------------------------------------------------
CliStep == {"idle", "push", "post", "wait"}
RequestStep == {"none", "check", "offset", "insert", "ok", "refused"}

Id == 1 .. MaxIds
Row == [name : Name \cup Role, path : Path, id : Id]
Command == [at : CliStep, name : Name \cup Role \cup {NoName}, id : {0} \cup Id]
Repo == [base : Nat, own : SUBSET Path]
Request == [at : RequestStep, name : Name \cup Role \cup {NoName}, path : Path \cup {NoPath},
            offset : Nat, after : Nat]

NoCommand == [at |-> "idle", name |-> NoName, id |-> 0]
NoRequest == [at |-> "none", name |-> NoName, path |-> NoPath, offset |-> 0, after |-> 0]

ClientsTypeOK ==
  /\ cli \in [Session -> Command]
  /\ repo \in [Session -> Repo]
  /\ minted \in 0 .. MaxIds
  /\ request \in [Id -> Request]
  /\ rows \in Seq(Row)

TypeOK == ViewsTypeOK /\ ClientsTypeOK

Init ==
  /\ main = << >>
  /\ clock = 0
  /\ ViewsInit
  /\ cli = [s \in Session |-> NoCommand]
  /\ repo = [s \in Session |-> [base |-> 0, own |-> {}]]
  /\ minted = 0
  /\ request = [n \in Id |-> NoRequest]
  /\ rows = << >>

Doing(s, step) == cli[s].at = step
Continue(s, step) == cli' = [cli EXCEPT ![s].at = step]
End(s) == cli' = [cli EXCEPT ![s] = NoCommand]

Named(x) == {i \in DOMAIN rows : rows[i].name = x}
-----------------------------------------------------------------------------
(* The commands *)

\* The body's path: that of a fresh id, or that of the role.
PathOf(x, id) == IF x \in Role THEN x ELSE id

Checkout(s) == Tree(repo[s].base) \cup repo[s].own

\* A fresh id, write_bytes, git add, git commit.
CommitBody(s, x) ==
  LET id == minted + 1
  IN /\ minted < MaxIds
     /\ PathOf(x, id) \notin Checkout(s)
     /\ minted' = id
     /\ repo' = [repo EXCEPT ![s].own = @ \cup {PathOf(x, id)}]
     /\ cli' = [cli EXCEPT ![s] = [at |-> "push", name |-> x, id |-> id]]

\* A slip of the next definition: the body is written and not committed.
CreateRefUncommitted(s, x) ==
  /\ Doing(s, "idle")
  /\ Named(x) = {}
  /\ minted < MaxIds
  /\ minted' = minted + 1
  /\ cli' = [cli EXCEPT ![s] = [at |-> "push", name |-> x, id |-> minted + 1]]
  /\ UNCHANGED <<repo, request, rows>>

\* create-ref, create-vocab: by-name knows the name and the command ends, or
\* the body is committed.
CreateRef(s, x) ==
  /\ Doing(s, "idle")
  /\ Named(x) = {}
  /\ CommitBody(s, x)
  /\ UNCHANGED <<request, rows>>

\* add-input-doc looks nothing up.
AddInputDoc(s, x) ==
  /\ Doing(s, "idle")
  /\ CommitBody(s, x)
  /\ UNCHANGED <<request, rows>>

Arrive(s) ==
  /\ Len(main) < MaxCommits
  /\ main' = Append(main, [at |-> clock, adds |-> repo[s].own])
  /\ repo' = [repo EXCEPT ![s] = [base |-> Len(main) + 1, own |-> {}]]

\* git push takes along what earlier commands left; the remote refuses it
\* when it has commits the checkout misses.
Push(s) ==
  /\ Doing(s, "push")
  /\ repo[s].base = Len(main)
  /\ Arrive(s)
  /\ Continue(s, "post")
  /\ UNCHANGED <<minted, request, rows>>

\* Refused, failed, or --no-push: a warning at most.
NotPushed(s) ==
  /\ Doing(s, "push")
  /\ Continue(s, "post")
  /\ UNCHANGED <<main, repo, minted, request, rows>>

PostRequest(s) ==
  /\ Doing(s, "post")
  /\ request' = [request EXCEPT ![cli[s].id] =
       [NoRequest EXCEPT !.at = "check", !.name = cli[s].name,
          !.path = PathOf(cli[s].name, cli[s].id), !.after = Len(rows)]]
  /\ Continue(s, "wait")
  /\ UNCHANGED <<repo, minted, rows>>

\* No token, or no backend: exit 3, with the commit made.
PostFails(s) ==
  /\ Doing(s, "post")
  /\ End(s)
  /\ UNCHANGED <<repo, minted, request, rows>>

Answered(s) ==
  /\ Doing(s, "wait")
  /\ request[cli[s].id].at \in {"ok", "refused"}
  /\ End(s)
  /\ UNCHANGED <<repo, minted, request, rows>>

\* The 30 s of urlopen are over, or the session dies; the request lives on.
GiveUp(s) ==
  /\ cli[s].at \in {"push", "wait"}
  /\ End(s)
  /\ UNCHANGED <<repo, minted, request, rows>>

\* The user pulls, and pushes what is not pushed yet.
SyncByHand(s) ==
  /\ Doing(s, "idle")
  /\ \/ /\ repo[s].own # {}
        /\ Arrive(s)
     \/ /\ repo[s].own = {} /\ repo[s].base < Len(main)
        /\ repo' = [repo EXCEPT ![s].base = Len(main)]
        /\ UNCHANGED main
  /\ UNCHANGED <<cli, minted, request, rows>>
-----------------------------------------------------------------------------
(* The backend *)

\* A slip of the next definition: only the id is checked, which is fresh.
CheckId(n) ==
  /\ request[n].at = "check"
  /\ request' = [request EXCEPT ![n].at = "offset"]
  /\ UNCHANGED <<cli, repo, minted, rows>>

\* The refusal of a known name; input documents are not checked.
CheckName(n) ==
  /\ request[n].at = "check"
  /\ request' = [request EXCEPT ![n].at =
       IF request[n].name \in Role THEN "insert"
       ELSE IF Named(request[n].name) = {} THEN "offset" ELSE "refused"]
  /\ UNCHANGED <<cli, repo, minted, rows>>

Offset == Cardinality({i \in DOMAIN rows : rows[i].name \in Name}) + 1

\* append_event reads the next offset.
ReadOffset(n) ==
  /\ request[n].at = "offset"
  /\ request' = [request EXCEPT ![n].at = "insert", ![n].offset = Offset]
  /\ UNCHANGED <<cli, repo, minted, rows>>

\* The row, its coordinates and the commit; the unique offset refuses the
\* second of two events that read the same.  An input document has no event.
InsertRow(n) ==
  /\ request[n].at = "insert"
  /\ IF request[n].name \in Name /\ request[n].offset # Offset
     THEN /\ request' = [request EXCEPT ![n].at = "refused", ![n].offset = 0]
          /\ UNCHANGED rows
     ELSE /\ request' = [request EXCEPT ![n].at = "ok", ![n].offset = 0]
          /\ rows' = Append(rows, [name |-> request[n].name, path |-> request[n].path, id |-> n])
  /\ UNCHANGED <<cli, repo, minted>>

ServeRequest(n) ==
  \/ CheckName(n)
  \/ ReadOffset(n)
  \/ InsertRow(n)
-----------------------------------------------------------------------------
Tick ==
  /\ clock < MaxClock
  /\ clock' = clock + 1
  /\ UNCHANGED <<main, views, clients>>

\* A read of a row: resolve_ref_body.
AskForBody(r) ==
  /\ \E i \in DOMAIN rows : rows[i].name \in Name /\ OpenView(r, rows[i].path)
  /\ UNCHANGED <<main, clock, booted, clients>>

\* The list of the branches: list_refs.
AskForRefs(r) ==
  /\ OpenView(r, NoPath)
  /\ UNCHANGED <<main, clock, booted, clients>>

Local(s) ==
  \/ \E x \in Name : CreateRef(s, x)
  \/ \E x \in Role : AddInputDoc(s, x)
  \/ PostRequest(s)
  \/ PostFails(s)
  \/ Answered(s)
  \/ GiveUp(s)

Next ==
  \/ \E s \in Session : Local(s) /\ UNCHANGED <<main, clock, views>>
  \/ \E s \in Session : (Push(s) \/ NotPushed(s) \/ SyncByHand(s)) /\ UNCHANGED <<clock, views>>
  \/ \E n \in Id : ServeRequest(n) /\ UNCHANGED <<main, clock, views>>
  \/ \E r \in Reader : AskForBody(r) \/ AskForRefs(r) \/ (ServeRead(r) /\ UNCHANGED <<main, clock, booted, clients>>)
  \/ Restart /\ UNCHANGED <<main, clock, clients>>
  \/ Tick

Spec == Init /\ [][Next]_vars

\* A user repeats add-input-doc until it succeeds, the backend answers in
\* time now and then, and what it began it ends.
RetrySpec ==
  /\ Spec
  /\ \A s \in Session :
       /\ WF_vars(\E x \in Role : AddInputDoc(s, x) /\ UNCHANGED <<main, clock, views>>)
       /\ WF_vars((Push(s) \/ NotPushed(s)) /\ UNCHANGED <<clock, views>>)
       /\ WF_vars((PostRequest(s) \/ PostFails(s) \/ Answered(s)) /\ UNCHANGED <<main, clock, views>>)
       /\ SF_vars(PostRequest(s) /\ UNCHANGED <<main, clock, views>>)
  /\ \A n \in Id : WF_vars(ServeRequest(n) /\ UNCHANGED <<main, clock, views>>)
-----------------------------------------------------------------------------
(* Properties *)

\* Two rows have one name only when their requests overlapped: a request
\* sent after the row was there is refused, whoever sends it and whatever
\* answers were lost (references_git_routes.py: "Refuse duplicate name").
DuplicatesOverlap ==
  \A i, j \in DOMAIN rows :
    i < j /\ rows[i].name \in Name /\ rows[j].name = rows[i].name => request[rows[j].id].after < i

\* An input document whose registration failed is registered when the
\* command is repeated (skills/add-input-doc: "Run that export in the same
\* shell, then retry").
RetryRegisters ==
  \A x \in Role : (\E s \in Session : cli[s].name = x /\ Doing(s, "post")) ~> Named(x) # {}

\* The bodies on the remote, and those a checkout can still push.
Bodies == Tree(Len(main)) \cup UNION {repo[s].own : s \in Session}

\* A registered body is not lost: it is on the remote, or in a checkout
\* that can still push it.
RowHasBody == \A i \in DOMAIN rows : rows[i].path \in Bodies
-----------------------------------------------------------------------------
(* The inductive invariant of the commands and the requests *)

\* A command past its commit has a body of its own; until it posts, its id
\* is its own too and unknown to the backend.
CommandsInv ==
  /\ \A s \in Session : ~ Doing(s, "idle") =>
       /\ cli[s].id \in 1 .. minted
       /\ cli[s].name \in Name \cup Role
       /\ PathOf(cli[s].name, cli[s].id) \in Bodies
  /\ \A s \in Session : cli[s].at \in {"push", "post"} => request[cli[s].id].at = "none"
  /\ \A s, q \in Session :
       cli[s].at \in {"push", "post"} /\ cli[q].at \in {"push", "post"} /\ cli[s].id = cli[q].id
         => s = q

\* A request past its check was sent before any row of its name; a row is
\* that of the request that made it.
RequestsInv ==
  /\ \A n \in Id : request[n].at # "none" =>
       /\ n <= minted
       /\ request[n].name \in Name \cup Role /\ request[n].path \in Path \cap Bodies
       /\ request[n].after <= Len(rows)
  /\ \A n \in Id : request[n].at \in {"offset", "insert"} /\ request[n].name \in Name =>
       \A i \in DOMAIN rows : rows[i].name = request[n].name => request[n].after < i
  /\ \A i \in DOMAIN rows : request[rows[i].id].at = "ok"

ClientsInv == CommandsInv /\ RequestsInv /\ DuplicatesOverlap /\ RowHasBody

Inv == TypeOK /\ ViewsInv /\ ClientsInv
=============================================================================
