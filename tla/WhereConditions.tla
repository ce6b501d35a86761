---------------------------- MODULE WhereConditions ----------------------------
(***************************************************************************)
(* One row of a table and two subscribers to a query with a WHERE          *)
(* condition: an HTTP client, for which SQL decides at every step          *)
(* (server/sdk.ts), and an embedded collection, whose baselines SQL reads  *)
(* and whose events JavaScript filters (client/embedded/tap-events.ts).    *)
(*                                                                         *)
(* Both follow the same sequence of changes without gaps, which is what    *)
(* PullProtocol and EmbeddedCollection are about; here the condition is    *)
(* what varies.                                                            *)
(***************************************************************************)
EXTENDS ConditionNodes, Sequences

CONSTANTS
  Queries,     \* registered queries
  Condition,   \* Condition[q]: the clause that the query function returns
  Nesting,     \* Nesting[c]: the levels below c, for these clauses and those in them
  Rows,        \* contents of the row
  NoRow,       \* the row does not exist, or is not shown
  MaxChanges   \* bound: changes of the row

Conditions == DOMAIN Nesting

ASSUME WhereAssumption ==
  /\ DOMAIN Condition = Queries /\ \A q \in Queries : Condition[q] \in Conditions
  /\ Nesting \in [Conditions -> Nat]
  /\ \A c \in Conditions :
       /\ c.columns \subseteq Filter
       /\ \A d \in Children(c) : d \in Conditions /\ Nesting[d] < Nesting[c]
  /\ Rows \subseteq [Columns -> Scalars \union {Null}]
  /\ NoRow \notin Rows

VARIABLES
  query,    \* the subscribers' query
  changes,  \* the row's contents so far, the current one last
  pulled,   \* the HTTP client: the changes it has seen, and the row it shows
  tapped,   \* the embedded collection, likewise
  received  \* auxiliary: the contents each has been sent

vars == <<query, changes, pulled, tapped, received>>

Subscriber == [at : Nat, row : Rows \union {NoRow}]
Absent     == [at |-> 0, row |-> NoRow]

------------------------------------------------------------------------------
(***************************************************************************)
(* Whole conditions.                                                       *)
(***************************************************************************)
\* evaluateCondition
Evaluate(c, row) ==
  LET value[d \in Conditions] == EvalNode(d, row, value) IN value[c]

\* buildWhereClausePredicate
Clause(c, row) ==
  LET clause[d \in Conditions] == SqlNode(d, row, clause) IN clause[c]

Throws(c) ==
  LET throws[d \in Conditions] == Refused(d) \/ \E e \in Children(d) : throws[e]
  IN  throws[c]

Regular(c, row) ==
  LET regular[d \in Conditions] ==
        /\ RegularNode(d, row, [e \in Children(d) |-> Clause(e, row)])
        /\ \A e \in Children(d) : regular[e]
  IN  regular[c]

\* What the two say of every row: fixed by the constants.
SqlSays  == [q \in Queries |-> [row \in Rows |-> Clause(Condition[q], row)]]
TapSays  == [q \in Queries |-> [row \in Rows |-> Evaluate(Condition[q], row)]]
Agreeing == [q \in Queries |-> {row \in Rows : Regular(Condition[q], row)}]
Built    == {q \in Queries : ~Throws(Condition[q])}

\* The row is in the query's result, and so the tap finds.
InResult(row) == row # NoRow /\ Admits(SqlSays[query][row])
InTap(row)    == row # NoRow /\ TapSays[query][row]

Result(row) == IF InResult(row) THEN row ELSE NoRow

\* The two evaluations agree on all the contents the row has had.
RegularSoFar == \A i \in DOMAIN changes : changes[i] \in Agreeing[query] \union {NoRow}

Row == changes[Len(changes)]

------------------------------------------------------------------------------
(***************************************************************************)
(* The subscribers.                                                        *)
(***************************************************************************)
Change(row) ==
  /\ Len(changes) <= MaxChanges
  /\ row # Row
  /\ changes' = Append(changes, row)
  /\ UNCHANGED <<query, pulled, tapped, received>>

\* The rows that a read by SQL sends, or the statement cannot be built.
Baseline == [at |-> Len(changes), row |-> Result(Row)]

\* subscribe, and the reset of a pull.
Subscribe ==
  /\ query \in Built
  /\ pulled' = Baseline
  /\ received' = [received EXCEPT !.pulled = @ \union ({Result(Row)} \ {NoRow})]
  /\ UNCHANGED <<query, changes, tapped>>

\* The baseline of a new collection, and of a rebaseline.
Rebaseline ==
  /\ query \in Built
  /\ tapped' = Baseline
  /\ received' = [received EXCEPT !.tapped = @ \union ({Result(Row)} \ {NoRow})]
  /\ UNCHANGED <<query, changes, pulled>>

\* The event of the change after `at`: is each side one of the matching rows?
Sides(at, matching) ==
  [new |-> changes[at + 1] \in matching, old |-> changes[at] \in matching]

\* The merge core, for an event that is delivered when one of the sides its
\* kind looks at matches: an insert does not replace a row that is shown.
Merge(s, sides) ==
  LET old == changes[s.at] new == changes[s.at + 1] IN
  CASE old = NoRow -> IF sides.new /\ s.row = NoRow THEN new ELSE s.row
    [] new = NoRow -> IF sides.old THEN NoRow ELSE s.row
    [] OTHER       -> IF sides.new THEN new ELSE IF sides.old THEN NoRow ELSE s.row

\* Both sides of an event travel when one of them matches.
Mut_Shipped(s, sides) ==
  IF sides.new \/ sides.old THEN {changes[s.at], changes[s.at + 1]} ELSE {}

\* The contents that the event carries: each side that matches.
Shipped(s, sides) ==
  (IF sides.new THEN {changes[s.at + 1]} ELSE {}) \union (IF sides.old THEN {changes[s.at]} ELSE {})

\* What is unknown of a side counts as a match.
Mut_Pull ==
  /\ pulled.at \in 1..(Len(changes) - 1)
  /\ LET sides == Sides(pulled.at, {r \in Rows : SqlSays[query][r] # "false"}) IN
     /\ pulled' = [at |-> pulled.at + 1, row |-> Merge(pulled, sides)]
     /\ received' = [received EXCEPT !.pulled = @ \union Shipped(pulled, sides)]
  /\ UNCHANGED <<query, changes, tapped>>

\* An event of a pull: $matches_new and $matches_old are computed by SQL.
Pull ==
  /\ pulled.at \in 1..(Len(changes) - 1)
  /\ LET sides == Sides(pulled.at, {r \in Rows : InResult(r)}) IN
     /\ pulled' = [at |-> pulled.at + 1, row |-> Merge(pulled, sides)]
     /\ received' = [received EXCEPT !.pulled = @ \union Shipped(pulled, sides)]
  /\ UNCHANGED <<query, changes, tapped>>

\* buildTapEvent: both sides are evaluated in JavaScript.
Tap ==
  /\ tapped.at \in 1..(Len(changes) - 1)
  /\ LET sides == Sides(tapped.at, {r \in Rows : InTap(r)}) IN
     /\ tapped' = [at |-> tapped.at + 1, row |-> Merge(tapped, sides)]
     /\ received' = [received EXCEPT !.tapped = @ \union Shipped(tapped, sides)]
  /\ UNCHANGED <<query, changes, pulled>>

------------------------------------------------------------------------------
Init ==
  /\ query \in Queries
  /\ changes \in {<<row>> : row \in Rows \union {NoRow}}
  /\ pulled = Absent
  /\ tapped = Absent
  /\ received = [pulled |-> {}, tapped |-> {}]

Next ==
  \/ \E row \in Rows \union {NoRow} : Change(row)
  \/ Subscribe
  \/ Rebaseline
  \/ Pull
  \/ Tap

Spec == Init /\ [][Next]_vars

------------------------------------------------------------------------------
(***************************************************************************)
(* Properties.                                                             *)
(***************************************************************************)
CaughtUp(s) == s.at = Len(changes)

\* Every variable keeps to its type: a subscriber shows a content the row has had.
ConditionTypeOK ==
  /\ query \in Queries
  /\ changes \in Seq(Rows \union {NoRow})
  /\ pulled \in Subscriber /\ tapped \in Subscriber
  /\ \A s \in {pulled, tapped} : s.row = NoRow \/ \E i \in 1..s.at : changes[i] = s.row
  /\ received \in [pulled : SUBSET Rows, tapped : SUBSET Rows]

\* An HTTP client that has applied every event shows the row exactly when the
\* source query would, whatever the condition: NULLs, clauses that drop out and
\* text that reads as a number included.
PulledMatchesSql == CaughtUp(pulled) => pulled.row = Result(Row)

\* So does an embedded collection, although its events are filtered in
\* JavaScript, for every condition on which the two evaluations node by node
\* have nothing to differ on (RegularNode).
TappedMatchesSql == CaughtUp(tapped) /\ RegularSoFar => tapped.row = Result(Row)

\* tap-events.ts:20-22 and sdk.ts:682: no content of a row reaches a subscriber
\* while the row is outside the query's result, as the old or new side of an
\* event that the other side caused.
NothingOutOfScope ==
  /\ \A row \in received.pulled : InResult(row)
  /\ RegularSoFar => \A row \in received.tapped : InResult(row)

\* filter-ast.ts:242-244: evaluateCondition "Returns the same boolean the SQL
\* predicate built by `buildWhereClausePredicate` would produce, including: ...
\* NOT/AND/OR composition".
SqlParity == Row # NoRow /\ query \in Built => InTap(Row) = InResult(Row)


------------------------------------------------------------------------------
(***************************************************************************)
(* The inductive invariant behind these properties.                        *)
(***************************************************************************)
\* What a subscriber shows is the query's result after the changes it has seen.
Shows(s) == s.at # 0 => s.row = Result(changes[s.at])

ConditionInv ==
  /\ ConditionTypeOK /\ NothingOutOfScope
  /\ changes # <<>> /\ pulled.at <= Len(changes) /\ tapped.at <= Len(changes)
  /\ Shows(pulled)
  /\ RegularSoFar => Shows(tapped)
=============================================================================
