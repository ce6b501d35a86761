---------------------------- MODULE ConditionNodes ----------------------------
(***************************************************************************)
(* One node of a query's WHERE condition, evaluated twice: in JavaScript,  *)
(* by evaluateCondition (shared/filter-ast.ts), which decides what the     *)
(* embedded tap delivers, and in SQL's three-valued logic, by the          *)
(* predicate of buildWhereClausePredicate (server/drizzle-utils.ts), which *)
(* decides what a baseline, a page or a pull contains.                     *)
(*                                                                         *)
(* A node's children enter as functions from the child to its value;       *)
(* WhereConditions closes the recursion.                                   *)
(***************************************************************************)
EXTENDS Integers, FiniteSets

CONSTANTS
  Columns,    \* the table's columns
  Selected,   \* those of selectedColumns, which a condition may name
  ColumnType, \* "text", "numeric" or another one ("other"), whose values
              \* JavaScript does not order (booleans, JSON, dates)
  Scalars,    \* the values of columns and of operators' arguments
  Null

\* What the comparisons tell apart of a value: its place among strings if it is
\* a string, the number it reads as, if any (`'10'` and `10` both do), and
\* its place in the order of a type that is neither text nor numeric.
Scalar == [text : SUBSET Int, number : SUBSET Int, rank : Int]

ASSUME ConditionAssumption ==
  /\ Selected \subseteq Columns
  /\ ColumnType \in [Columns -> {"text", "numeric", "other"}]
  /\ \A v \in Scalars :
       /\ v \in Scalar /\ v # Null
       /\ Cardinality(v.text) <= 1 /\ Cardinality(v.number) <= 1

------------------------------------------------------------------------------
(***************************************************************************)
(* The clauses a query may be given.  A column's filter is a set of        *)
(* operators with their arguments, all of which must hold: `{col: v}` is   *)
(* eq, `{col: null}` is isNull, and `{col: undefined}` is "undefined".     *)
(* AND, OR and NOT are sets with the property's value as the only member,  *)
(* if the property is there; the value is the set of the children.         *)
(***************************************************************************)
OperatorNames ==
  {"eq", "ne", "gt", "gte", "lt", "lte", "in", "isNull", "isNotNull", "undefined"}

Operator == [op : OperatorNames, args : SUBSET (Scalars \union {Null})]
Filter   == [column : Columns, operators : SUBSET Operator]

\* null or undefined: every row.  A clause that is not an object: no row.
NoCondition == [kind |-> "always-true", columns |-> {}, AND |-> {}, OR |-> {}, NOT |-> {}]
NotAnObject == [NoCondition EXCEPT !.kind = "always-false"]

Group(columns, and, or, not) ==
  [kind |-> "group", columns |-> columns, AND |-> and, OR |-> or, NOT |-> not]

Children(c) == UNION (c.AND \union c.OR \union c.NOT)

\* validateLogicalNodeShape
ValidShape(c) ==
  LET logical == {s \in {"AND", "OR", "NOT"} : c[s] # {}} IN
  /\ Cardinality(logical) <= 1
  /\ logical # {} => c.columns = {}

------------------------------------------------------------------------------
(***************************************************************************)
(* JavaScript: compareScalarValues, evalColumn and evalAst.                *)
(***************************************************************************)
IsNumericLike(v) == v # Null /\ v.number # {}
IsString(v)      == v # Null /\ v.text # {}

\* compareScalarValues(a, b) === 0
Same(a, b) ==
  IF IsNumericLike(a) /\ IsNumericLike(b) THEN a.number = b.number ELSE a = b

\* compareScalarValues(a, b) < 0; the comparison of values of which neither
\* both read as numbers nor both are strings is null.
Less(a, b) ==
  IF IsNumericLike(a) /\ IsNumericLike(b)
  THEN \E x \in a.number, y \in b.number : x < y
  ELSE IsString(a) /\ IsString(b) /\ \E x \in a.text, y \in b.text : x < y

\* NULL differs from everything.
Mut_OperatorHolds(o, v) ==
  CASE o.op = "eq"        -> \E a \in o.args : a # Null /\ Same(v, a)
    [] o.op = "ne"        -> \A a \in o.args : ~Same(v, a)
    [] o.op = "gt"        -> \E a \in o.args : Less(a, v)
    [] o.op = "gte"       -> \E a \in o.args : Less(a, v) \/ Same(v, a)
    [] o.op = "lt"        -> \E a \in o.args : Less(v, a)
    [] o.op = "lte"       -> \E a \in o.args : Less(v, a) \/ Same(v, a)
    [] o.op = "in"        -> v # Null /\ \E a \in o.args : Same(v, a)
    [] o.op = "isNull"    -> v = Null
    [] o.op = "isNotNull" -> v # Null
    [] OTHER              -> FALSE

\* One operator of evalColumn for a column that holds v.
OperatorHolds(o, v) ==
  CASE o.op = "eq"        -> \E a \in o.args : a # Null /\ Same(v, a)
    [] o.op = "ne"        -> v # Null /\ \A a \in o.args : ~Same(v, a)
    [] o.op = "gt"        -> \E a \in o.args : Less(a, v)
    [] o.op = "gte"       -> \E a \in o.args : Less(a, v) \/ Same(v, a)
    [] o.op = "lt"        -> \E a \in o.args : Less(v, a)
    [] o.op = "lte"       -> \E a \in o.args : Less(v, a) \/ Same(v, a)
    [] o.op = "in"        -> v # Null /\ \E a \in o.args : Same(v, a)
    [] o.op = "isNull"    -> v = Null
    [] o.op = "isNotNull" -> v # Null
    [] OTHER              -> FALSE

\* evalColumn
EvalColumn(f, row) == \A o \in f.operators : OperatorHolds(o, row[f.column])

\* evalAst, the children's values given.
EvalNode(c, row, value) ==
  /\ c.kind # "always-false"
  /\ \A f \in c.columns : EvalColumn(f, row)
  /\ \A children \in c.AND : \A d \in children : value[d]
  /\ \A children \in c.OR : children # {} => \E d \in children : value[d]
  /\ \A children \in c.NOT : \A d \in children : ~value[d]

------------------------------------------------------------------------------
(***************************************************************************)
(* SQL: what the predicate of a clause is for a row.  "none": the clause   *)
(* adds nothing to the statement.                                          *)
(***************************************************************************)
Truth(b) == IF b THEN "true" ELSE "false"

And(values) ==
  IF "false" \in values THEN "false" ELSE IF "unknown" \in values THEN "unknown" ELSE "true"

Or(values) ==
  IF "true" \in values THEN "true" ELSE IF "unknown" \in values THEN "unknown" ELSE "false"

Not(value) ==
  CASE value = "true" -> "false" [] value = "false" -> "true" [] OTHER -> value

\* and(...) and or(...) of Drizzle: absent clauses drop out.
Conjunction(clauses) == LET some == clauses \ {"none"} IN IF some = {} THEN "none" ELSE And(some)
Disjunction(clauses) == LET some == clauses \ {"none"} IN IF some = {} THEN "none" ELSE Or(some)

\* The column type's own comparison.
SqlSame(column, a, b) ==
  CASE ColumnType[column] = "numeric" -> a.number = b.number
    [] ColumnType[column] = "text"    -> a.text = b.text
    [] OTHER                          -> a.rank = b.rank

SqlLess(column, a, b) ==
  CASE ColumnType[column] = "numeric" -> \E x \in a.number, y \in b.number : x < y
    [] ColumnType[column] = "text"    -> \E x \in a.text, y \in b.text : x < y
    [] OTHER                          -> a.rank < b.rank

SqlComparison(op, column, v, a) ==
  IF v = Null \/ a = Null THEN "unknown"
  ELSE Truth(CASE op = "eq"  -> SqlSame(column, v, a)
               [] op = "ne"  -> ~SqlSame(column, v, a)
               [] op = "gt"  -> SqlLess(column, a, v)
               [] op = "gte" -> SqlLess(column, a, v) \/ SqlSame(column, v, a)
               [] op = "lt"  -> SqlLess(column, v, a)
               [] OTHER      -> SqlLess(column, v, a) \/ SqlSame(column, v, a))

\* One operator of buildColumnFilterPredicate.
SqlOperator(o, column, v) ==
  CASE o.op = "undefined" -> "none"
    [] o.op = "isNull"    -> Truth(v = Null)
    [] o.op = "isNotNull" -> Truth(v # Null)
    [] o.op = "in"        -> Or({SqlComparison("eq", column, v, a) : a \in o.args})
    [] OTHER              -> And({SqlComparison(o.op, column, v, a) : a \in o.args})

\* buildColumnFilterPredicate
SqlColumn(f, row) == Conjunction({SqlOperator(o, f.column, row[f.column]) : o \in f.operators})

\* buildWhereAstPredicate, the children's clauses given.
SqlNode(c, row, clause) ==
  Conjunction({SqlColumn(f, row) : f \in c.columns}
     \union (UNION {{clause[d] : d \in children} : children \in c.AND})
     \union {Disjunction({clause[d] : d \in children}) : children \in c.OR}
     \union (UNION {{Not(clause[d]) : d \in children} : children \in c.NOT}))

\* buildWhereAstPredicate and getColumn throw.
Refused(c) ==
  \/ c.kind = "always-false"
  \/ ~ValidShape(c)
  \/ \E f \in c.columns :
       f.column \notin Selected /\ \A o \in f.operators : o.op # "undefined"

\* What a WHERE clause lets through.
Admits(clause) == clause \in {"true", "none"}

------------------------------------------------------------------------------
(***************************************************************************)
(* Where the two agree.                                                    *)
(***************************************************************************)
\* JavaScript compares v and a as the column does.  It does not where a text
\* column holds text that reads as a number, nor where it has no order.
Comparable(column, v, a) ==
  v # Null =>
    /\ Same(v, a) <=> SqlSame(column, v, a)
    /\ Less(v, a) <=> SqlLess(column, v, a)
    /\ Less(a, v) <=> SqlLess(column, a, v)

\* An operator with the arguments its type allows.
RegularOperator(o, column, v) ==
  /\ o.op # "undefined"
  /\ o.op \in {"eq", "ne", "gt", "gte", "lt", "lte"} => \E a \in o.args : o.args = {a}
  /\ Null \notin o.args
  /\ \A a \in o.args : Comparable(column, v, a)

RegularColumns(c, row) ==
  \A f \in c.columns : \A o \in f.operators : RegularOperator(o, f.column, row[f.column])

\* A node at which a row cannot make the two differ, given what SQL says of the
\* children: NOT of what is unknown stays unknown in SQL and holds in
\* JavaScript, and a child that adds no clause drops out of NOT and OR in SQL.
RegularNode(c, row, clause) ==
  /\ c.kind # "always-false"
  /\ RegularColumns(c, row)
  /\ \A children \in c.OR :
       \/ \A d \in children : clause[d] # "none"
       \/ \A d \in children : clause[d] = "none"
  /\ \A children \in c.NOT : \A d \in children : clause[d] \in {"true", "false"}
=============================================================================
