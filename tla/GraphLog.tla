------------------------------ MODULE GraphLog -----------------------------
(***************************************************************************)
(* What the event log of one project promises, after the docstrings of the *)
(* reducer (backend/graph/reducer.py): the log only grows, a transaction   *)
(* adds its events whole or not at all, and the projection tables are at   *)
(* every moment what the events, applied one after the other, lead to.     *)
(* Rebuilding them from the rows of the log gives the same, but for one    *)
(* case the docstring does not name: a log with a row that cannot be read  *)
(* back cannot be rebuilt at all.  Projection is shown to implement this   *)
(* under concurrent requests, failing events and the rebuilds that review  *)
(* diffs make in place.                                                    *)
(***************************************************************************)
EXTENDS Naturals, SequencesExt

CONSTANTS Empty,            \* the tables before any event
          ApplyEvent(_, _), \* the tables an event may leave, none if it fails
          Reread(_, _),     \* the same for an event that is read back from its row
          Readable(_)       \* the rows that turn back into their event

VARIABLES log,              \* the events committed, in order of offset
          tables            \* the projection tables as other requests read them

\* The incremental way: each event is applied to what the last one left.
Applied(rows) ==
  LET after[n \in 0 .. Len(rows)] ==
        IF n = 0 THEN {Empty} ELSE UNION {ApplyEvent(t, rows[n]) : t \in after[n - 1]}
  IN  after[Len(rows)]

\* The rebuild: each row is read back before it is applied.
Rebuilt(rows) ==
  LET after[n \in 0 .. Len(rows)] ==
        IF n = 0 THEN {Empty} ELSE UNION {Reread(t, rows[n]) : t \in after[n - 1]}
  IN  after[Len(rows)]

Agree ==
  /\ Applied(log) = {tables}
  /\ Rebuilt(log) = IF \A i \in 1 .. Len(log) : Readable(log[i]) THEN {tables} ELSE {}

Init == Agree

AppendEvents == IsStrictPrefix(log, log') /\ Agree'

Spec == Init /\ [][AppendEvents]_<<log, tables>>

=============================================================================
