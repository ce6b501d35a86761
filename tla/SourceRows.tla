------------------------------ MODULE SourceRows ------------------------------
(***************************************************************************)
(* The rows behind PulseStream's commits, for one query over one source    *)
(* table: what the table holds after every commit, what the query's result *)
(* is there, and how the merge core (shared/pulse-merge-core.ts) follows   *)
(* the table from the row events of its commits.                           *)
(***************************************************************************)
EXTENDS PulseStream

CONSTANTS
  Source,         \* the query's table
  Keys,           \* its primary keys
  Values,         \* row contents
  Matching,       \* those the resolved WHERE admits
  NoRow,          \* no row under this key
  OtherRows       \* rows outside the query's result keep the table from emptying

ASSUME SourceAssumption ==
  /\ Source \in Tables
  /\ Matching \subseteq Values
  /\ NoRow \notin Values
  /\ OtherRows \in BOOLEAN

VARIABLE history  \* history[i + 1]: the source table after commit i

Content == [Keys -> Values \union {NoRow}]

Empty == [k \in Keys |-> NoRow]

SourceInit == Init /\ history = <<Empty>>

\* A commit that changes rows of the source table.
RowChange(rows) ==
  /\ rows # history[Len(history)]
  /\ Commit({Source})
  /\ history' = Append(history, rows)

RowsAt(i) == history[i + 1]

\* The query's result for one row.
Shown(row) == IF row \in Matching THEN row ELSE NoRow

\* The query's result at commit i.
ViewAt(i) == [k \in Keys |-> Shown(RowsAt(i)[k])]

\* The tables a baseline read at commit i finds a row to seed from.
SeededBy(i) == IF OtherRows \/ RowsAt(i) # Empty THEN {Source} ELSE {}

(***************************************************************************)
(* The merge core.                                                         *)
(***************************************************************************)
\* A row that leaves the result is overwritten with its redacted new side.
Mut2_Merged(current, old, new) ==
  IF old \in Matching /\ new \notin Matching /\ new # NoRow THEN "redacted"
  ELSE IF new \in Matching THEN new ELSE current

\* A row that leaves the result is kept.
Mut_Merged(current, old, new) ==
  CASE old = new \/ new \in Matching -> new
    [] new = NoRow /\ old \in Matching -> NoRow
    [] OTHER -> current

\* buildTapEvent and applyEvents for one key whose row went from old to new
\* while the core holds current.
Merged(current, old, new) ==
  CASE old = new -> current
    [] old = NoRow /\ new # NoRow ->
         IF new \in Matching /\ current = NoRow THEN new ELSE current
    [] new = NoRow /\ old # NoRow ->
         IF old \in Matching THEN NoRow ELSE current
    [] OTHER ->
         IF new \in Matching THEN new
         ELSE IF old \in Matching THEN NoRow ELSE current

\* The core after the events of commit i.
Applied(i, content) ==
  [k \in Keys |-> Merged(content[k], RowsAt(i - 1)[k], RowsAt(i)[k])]

\* A row on its way from a baseline read at commit base to the query's result
\* at commit i: the commits up to i, some of which the baseline may contain
\* already, have been applied to it.
Follows(row, k, i, base) ==
  /\ row \in {ViewAt(i)[k], ViewAt(base)[k]}
  /\ base <= i => row = ViewAt(i)[k]
=============================================================================
