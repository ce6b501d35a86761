---------------------------- MODULE ConditionProofs ----------------------------
(***************************************************************************)
(* Proofs about ConditionNodes and WhereConditions: at every regular node  *)
(* JavaScript and SQL agree, if they do at its children; so they agree on  *)
(* whole conditions, and so subscribers show what the query selects.       *)
(***************************************************************************)
EXTENDS WhereConditions, NatLemmas

\* What a clause may be for a row.
Clauses == {"true", "false", "unknown", "none"}

\* and(...) lets a row through when each of its clauses does.
LEMMA ConjunctionAdmits ==
  ASSUME NEW S \in SUBSET Clauses
  PROVE  /\ Conjunction(S) \in Clauses
         /\ Admits(Conjunction(S)) <=> \A s \in S : Admits(s)
BY DEF Clauses, Conjunction, And, Admits

\* or(...) of clauses that are all there lets a row through when one of them does.
LEMMA DisjunctionAdmits ==
  ASSUME NEW S \in SUBSET Clauses, (\A s \in S : s # "none") \/ (\A s \in S : s = "none")
  PROVE  /\ Disjunction(S) \in Clauses
         /\ Admits(Disjunction(S)) <=> (S # {} => \E s \in S : Admits(s))
<1>1. CASE \A s \in S : s # "none"
  <2>1. S \ {"none"} = S
    BY <1>1
  <2>2. CASE S = {}
    BY <2>2 DEF Clauses, Disjunction, Admits
  <2>3. CASE S # {}
    BY <1>1, <2>1, <2>3 DEF Clauses, Disjunction, Or, Admits
  <2>4. QED
    BY <2>2, <2>3
<1>2. CASE \A s \in S : s = "none"
  BY <1>2 DEF Clauses, Disjunction, Admits
<1>3. QED
  BY <1>1, <1>2

\* A comparison with a value that is there, by a column that has one.
LEMMA ComparisonParity ==
  ASSUME NEW column, NEW v, NEW a, v # Null, a # Null, Comparable(column, v, a)
  PROVE  /\ SqlComparison("eq", column, v, a) = Truth(Same(v, a))
         /\ SqlComparison("ne", column, v, a) = Truth(~Same(v, a))
         /\ SqlComparison("gt", column, v, a) = Truth(Less(a, v))
         /\ SqlComparison("gte", column, v, a) = Truth(Less(a, v) \/ Same(v, a))
         /\ SqlComparison("lt", column, v, a) = Truth(Less(v, a))
         /\ SqlComparison("lte", column, v, a) = Truth(Less(v, a) \/ Same(v, a))
BY DEF SqlComparison, Comparable, Truth

\* NULL is neither the same as, less than nor greater than a value.
LEMMA NullCompares ==
  ASSUME NEW a, a # Null
  PROVE  ~Same(Null, a) /\ ~Less(Null, a) /\ ~Less(a, Null)
BY DEF Same, Less, IsNumericLike, IsString

\* One operator of a column's filter.
LEMMA OperatorParity ==
  ASSUME NEW o \in Operator, NEW column, NEW v, RegularOperator(o, column, v)
  PROVE  /\ SqlOperator(o, column, v) \in Clauses
         /\ OperatorHolds(o, v) <=> Admits(SqlOperator(o, column, v))
<1>1. /\ o.op # "undefined" /\ \A a \in o.args : a # Null
      /\ \A a \in o.args : Comparable(column, v, a)
  BY DEF RegularOperator
<1>2. CASE o.op \in {"isNull", "isNotNull"}
  BY <1>2 DEF SqlOperator, OperatorHolds, Truth, Clauses, Admits
<1>3. CASE o.op = "in"
  <2> DEFINE S == {SqlComparison("eq", column, v, a) : a \in o.args}
  <2>1. SqlOperator(o, column, v) = Or(S) /\ Or(S) \in {"true", "false", "unknown"}
    BY <1>3 DEF SqlOperator, Or
  <2>2. Admits(Or(S)) <=> "true" \in S
    BY DEF Or, Admits
  <2>3. CASE v = Null
    <3>1. \A a \in o.args : SqlComparison("eq", column, v, a) = "unknown"
      BY <2>3 DEF SqlComparison
    <3>2. QED
      BY <1>3, <2>1, <2>2, <2>3, <3>1 DEF OperatorHolds, Clauses
  <2>4. CASE v # Null
    <3>1. \A a \in o.args : SqlComparison("eq", column, v, a) = Truth(Same(v, a))
      BY <1>1, <2>4, ComparisonParity
    <3>2. "true" \in S <=> \E a \in o.args : Same(v, a)
      BY <3>1 DEF Truth
    <3>3. OperatorHolds(o, v) <=> \E a \in o.args : Same(v, a)
      BY <1>3, <2>4 DEF OperatorHolds
    <3>4. QED
      BY <2>1, <2>2, <3>2, <3>3 DEF Clauses
  <2>5. QED
    BY <2>3, <2>4
<1>4. CASE o.op \in {"eq", "ne", "gt", "gte", "lt", "lte"}
  <2>1. PICK a \in o.args : o.args = {a}
    BY <1>4 DEF RegularOperator
  <2>2. SqlOperator(o, column, v) = And({SqlComparison(o.op, column, v, a)})
    BY <1>4, <2>1 DEF SqlOperator
  <2>3. SqlComparison(o.op, column, v, a) \in {"true", "false", "unknown"}
    BY DEF SqlComparison, Truth
  <2>4. SqlOperator(o, column, v) = SqlComparison(o.op, column, v, a)
    BY <2>2, <2>3 DEF And
  <2>5. CASE v = Null
    <3>1. SqlComparison(o.op, column, v, a) = "unknown"
      BY <2>5 DEF SqlComparison
    <3>2. ~OperatorHolds(o, v)
      BY <1>1, <1>4, <2>1, <2>5, NullCompares DEF OperatorHolds
    <3>3. QED
      BY <2>4, <3>1, <3>2 DEF Admits, Clauses
  <2>6. CASE v # Null
    <3>1. a # Null /\ Comparable(column, v, a)
      BY <1>1
    <3>2. Admits(SqlComparison(o.op, column, v, a)) <=> OperatorHolds(o, v)
      BY <1>4, <2>1, <2>6, <3>1, ComparisonParity DEF OperatorHolds, Truth, Admits
    <3>3. QED
      BY <2>3, <2>4, <3>2 DEF Clauses
  <2>7. QED
    BY <2>5, <2>6
<1>5. QED
  BY <1>1, <1>2, <1>3, <1>4 DEF Operator, OperatorNames

\* A column's filter.
LEMMA ColumnParity ==
  ASSUME NEW f \in Filter, NEW row,
         \A o \in f.operators : RegularOperator(o, f.column, row[f.column])
  PROVE  /\ SqlColumn(f, row) \in Clauses
         /\ EvalColumn(f, row) <=> Admits(SqlColumn(f, row))
<1> DEFINE S == {SqlOperator(o, f.column, row[f.column]) : o \in f.operators}
<1>1. f.operators \subseteq Operator
  BY DEF Filter
<1>2. S \in SUBSET Clauses
  BY <1>1, OperatorParity
<1>3. SqlColumn(f, row) = Conjunction(S)
  BY DEF SqlColumn
<1>4. Conjunction(S) \in Clauses /\ (Admits(Conjunction(S)) <=> \A s \in S : Admits(s))
  <2> HIDE DEF S
  <2>1. QED
    BY <1>2, ConjunctionAdmits
<1>5. (\A s \in S : Admits(s)) <=> \A o \in f.operators : OperatorHolds(o, row[f.column])
  BY <1>1, OperatorParity
<1>6. QED
  BY <1>3, <1>4, <1>5 DEF EvalColumn

\* The embedded tap and the database agree on a row at every regular node of a
\* condition, if they agree at its children: what evaluateCondition says is what
\* the predicate of buildWhereClausePredicate lets through, for any columns,
\* operators, values, NULLs and children.
THEOREM NodeParity ==
  ASSUME NEW c, NEW row, NEW value, NEW clause,
         c.columns \subseteq Filter,
         RegularNode(c, row, clause),
         \A d \in Children(c) : clause[d] \in Clauses /\ (value[d] <=> Admits(clause[d]))
  PROVE  /\ SqlNode(c, row, clause) \in Clauses
         /\ EvalNode(c, row, value) <=> Admits(SqlNode(c, row, clause))
<1> DEFINE OfColumns == {SqlColumn(f, row) : f \in c.columns}
<1> DEFINE OfAnd == UNION {{clause[d] : d \in children} : children \in c.AND}
<1> DEFINE OfOr  == {Disjunction({clause[d] : d \in children}) : children \in c.OR}
<1> DEFINE OfNot == UNION {{Not(clause[d]) : d \in children} : children \in c.NOT}
<1>1. /\ \A children \in c.AND : \A d \in children : d \in Children(c)
      /\ \A children \in c.OR : \A d \in children : d \in Children(c)
      /\ \A children \in c.NOT : \A d \in children : d \in Children(c)
  BY DEF Children
<1>2. \A f \in c.columns : SqlColumn(f, row) \in Clauses /\ (EvalColumn(f, row) <=> Admits(SqlColumn(f, row)))
  <2>1. TAKE f \in c.columns
  <2>2. f \in Filter /\ \A o \in f.operators : RegularOperator(o, f.column, row[f.column])
    BY DEF RegularNode, RegularColumns
  <2>3. QED
    BY <2>2, ColumnParity
<1>3. /\ OfColumns \in SUBSET Clauses
      /\ (\A s \in OfColumns : Admits(s)) <=> \A f \in c.columns : EvalColumn(f, row)
  BY <1>2
<1>4. /\ OfAnd \in SUBSET Clauses
      /\ (\A s \in OfAnd : Admits(s)) <=> \A children \in c.AND : \A d \in children : value[d]
  BY <1>1
<1>5. ASSUME NEW children \in c.OR
      PROVE  /\ Disjunction({clause[d] : d \in children}) \in Clauses
             /\ Admits(Disjunction({clause[d] : d \in children}))
                  <=> (children # {} => \E d \in children : value[d])
  <2> DEFINE S == {clause[d] : d \in children}
  <2>1. S \in SUBSET Clauses
    BY <1>1
  <2>2. (\A s \in S : s # "none") \/ (\A s \in S : s = "none")
    BY DEF RegularNode
  <2>3. (S = {} <=> children = {}) /\ ((\E s \in S : Admits(s)) <=> \E d \in children : value[d])
    BY <1>1
  <2> HIDE DEF S
  <2>4. Disjunction(S) \in Clauses /\ (Admits(Disjunction(S)) <=> (S # {} => \E s \in S : Admits(s)))
    BY <2>1, <2>2, DisjunctionAdmits
  <2>5. Disjunction(S) \in Clauses /\ (Admits(Disjunction(S)) <=> (children # {} => \E d \in children : value[d]))
    BY <2>3, <2>4
  <2>6. QED
    BY <2>5 DEF S
<1>6. /\ OfOr \in SUBSET Clauses
      /\ (\A s \in OfOr : Admits(s))
           <=> \A children \in c.OR : children # {} => \E d \in children : value[d]
  BY <1>5
<1>7. /\ OfNot \in SUBSET Clauses
      /\ (\A s \in OfNot : Admits(s)) <=> \A children \in c.NOT : \A d \in children : ~value[d]
  <2>1. ASSUME NEW children \in c.NOT, NEW d \in children
        PROVE  Not(clause[d]) \in Clauses /\ (Admits(Not(clause[d])) <=> ~value[d])
    <3>1. clause[d] \in {"true", "false"} /\ (value[d] <=> Admits(clause[d]))
      BY <1>1 DEF RegularNode
    <3>2. QED
      BY <3>1 DEF Not, Admits, Clauses
  <2>2. QED
    BY <2>1
<1>8. SqlNode(c, row, clause) = Conjunction(OfColumns \union OfAnd \union OfOr \union OfNot)
  BY DEF SqlNode
<1> HIDE DEF OfColumns, OfAnd, OfOr, OfNot
<1>9. OfColumns \union OfAnd \union OfOr \union OfNot \in SUBSET Clauses
  BY <1>3, <1>4, <1>6, <1>7
<1>10. /\ SqlNode(c, row, clause) \in Clauses
       /\ Admits(SqlNode(c, row, clause))
            <=> \A s \in OfColumns \union OfAnd \union OfOr \union OfNot : Admits(s)
  BY <1>8, <1>9, ConjunctionAdmits
<1>11. c.kind # "always-false"
  BY DEF RegularNode
<1>12. QED
  BY <1>3, <1>4, <1>6, <1>7, <1>10, <1>11 DEF EvalNode


(***************************************************************************)
(* Whole conditions.                                                       *)
(***************************************************************************)
\* Clauses are nested finitely deep.
LEMMA NestingFacts ==
  /\ Nesting \in [Conditions -> Nat]
  /\ \A c \in Conditions :
       /\ c.columns \subseteq Filter
       /\ \A d \in Children(c) : d \in Conditions /\ Nesting[d] < Nesting[c]
BY WhereAssumption

\* Whatever the filter, a column's predicate is a clause.
LEMMA SqlColumnClause ==
  ASSUME NEW f, NEW row
  PROVE  SqlColumn(f, row) \in Clauses
<1>1. \A o : SqlOperator(o, f.column, row[f.column]) \in Clauses
  BY DEF SqlOperator, Truth, And, Or, Clauses
<1>2. {SqlOperator(o, f.column, row[f.column]) : o \in f.operators} \in SUBSET Clauses
  BY <1>1
<1> QED BY <1>2, ConjunctionAdmits DEF SqlColumn

\* What a node's predicate is made of.
Parts(c, row, clause) ==
  {SqlColumn(f, row) : f \in c.columns}
     \union (UNION {{clause[d] : d \in children} : children \in c.AND})
     \union {Disjunction({clause[d] : d \in children}) : children \in c.OR}
     \union (UNION {{Not(clause[d]) : d \in children} : children \in c.NOT})

\* A node's predicate is a clause if those of its children are.
LEMMA SqlNodeClause ==
  ASSUME NEW c, NEW row, NEW clause, \A d \in Children(c) : clause[d] \in Clauses
  PROVE  SqlNode(c, row, clause) \in Clauses
<1>1. \A children \in c.AND \union c.OR \union c.NOT : \A d \in children : clause[d] \in Clauses
  BY DEF Children
<1>2. {SqlColumn(f, row) : f \in c.columns} \in SUBSET Clauses
  BY SqlColumnClause
<1>3. UNION {{clause[d] : d \in children} : children \in c.AND} \in SUBSET Clauses
  BY <1>1
<1>4. {Disjunction({clause[d] : d \in children}) : children \in c.OR} \in SUBSET Clauses
  <2>1. \A S : Disjunction(S) \in Clauses
    BY DEF Disjunction, Or, Clauses
  <2> QED BY <2>1
<1>5. UNION {{Not(clause[d]) : d \in children} : children \in c.NOT} \in SUBSET Clauses
  <2>1. \A v \in Clauses : Not(v) \in Clauses
    BY DEF Not, Clauses
  <2> QED BY <1>1, <2>1
<1>6. Parts(c, row, clause) \in SUBSET Clauses
  BY <1>2, <1>3, <1>4, <1>5 DEF Parts
<1>7. SqlNode(c, row, clause) = Conjunction(Parts(c, row, clause))
  BY DEF SqlNode, Parts
<1> QED BY <1>6, <1>7, ConjunctionAdmits

\* A node looks at its children only.
LEMMA SqlNodeLocal ==
  ASSUME NEW c, NEW row, NEW f, NEW g, \A d \in Children(c) : f[d] = g[d]
  PROVE  SqlNode(c, row, f) = SqlNode(c, row, g)
<1>1. \A children \in c.AND \union c.OR \union c.NOT : \A d \in children : f[d] = g[d]
  BY DEF Children
<1>2. UNION {{f[d] : d \in children} : children \in c.AND}
        = UNION {{g[d] : d \in children} : children \in c.AND}
  BY <1>1
<1>3. UNION {{Not(f[d]) : d \in children} : children \in c.NOT}
        = UNION {{Not(g[d]) : d \in children} : children \in c.NOT}
  BY <1>1
<1>4. {Disjunction({f[d] : d \in children}) : children \in c.OR}
        = {Disjunction({g[d] : d \in children}) : children \in c.OR}
  <2>1. \A children \in c.OR : {f[d] : d \in children} = {g[d] : d \in children}
    BY <1>1
  <2> QED BY <2>1
<1> QED BY <1>2, <1>3, <1>4 DEF SqlNode

LEMMA EvalNodeLocal ==
  ASSUME NEW c, NEW row, NEW f, NEW g, \A d \in Children(c) : f[d] = g[d]
  PROVE  EvalNode(c, row, f) = EvalNode(c, row, g)
<1>1. \A children \in c.AND \union c.OR \union c.NOT : \A d \in children : f[d] = g[d]
  BY DEF Children
<1> QED BY <1>1 DEF EvalNode

\* buildWhereClausePredicate unfolds, node by node.
LEMMA ClauseUnfolds ==
  ASSUME NEW row
  PROVE  \E clause \in [Conditions -> Clauses] :
           \A c \in Conditions : /\ Clause(c, row) = clause[c]
                                 /\ clause[c] = SqlNode(c, row, clause)
<1> DEFINE Body(f) == [d \in Conditions |-> SqlNode(d, row, f)]
           step == [f \in [Conditions -> Clauses] |-> Body(f)]
<1>1. ASSUME NEW f \in [Conditions -> Clauses] PROVE Body(f) \in [Conditions -> Clauses]
  BY NestingFacts, SqlNodeClause
<1>2. step \in [[Conditions -> Clauses] -> [Conditions -> Clauses]]
  BY <1>1
<1>3. ASSUME NEW f \in [Conditions -> Clauses], NEW g \in [Conditions -> Clauses],
             NEW c \in Conditions,
             \A d \in Conditions : Nesting[d] < Nesting[c] => f[d] = g[d]
      PROVE  step[f][c] = step[g][c]
  <2>1. step[f][c] = SqlNode(c, row, f) /\ step[g][c] = SqlNode(c, row, g)
    OBVIOUS
  <2>2. \A d \in Children(c) : f[d] = g[d]
    BY <1>3, NestingFacts
  <2> QED BY <2>1, <2>2, SqlNodeLocal
<1>4. PICK f \in [Conditions -> Clauses] : Solves(f, Conditions, step)
  <2>1. Clauses # {}
    BY DEF Clauses
  <2>2. LooksDown(Conditions, Clauses, Nesting, step)
    <3> HIDE DEF step
    <3> QED BY <1>3 DEF LooksDown
  <2> HIDE DEF step
  <2>3. Nesting \in [Conditions -> Nat]
    BY NestingFacts
  <2> QED BY <1>2, <2>1, <2>2, <2>3, RecursionExists
<1>5. f = Body(f)
  BY <1>4 DEF Solves
<1> DEFINE clause == CHOOSE g : g = Body(g)
<1>6. clause = Body(clause)
  <2> HIDE DEF Body
  <2> QED BY <1>5
<1>7. \A c : Clause(c, row) = clause[c]
  BY DEF Clause

<1> HIDE DEF clause
<1>8. \A c \in Conditions : clause[c] = SqlNode(c, row, clause)
  BY <1>6
<1>9. Conditions \subseteq {c \in Conditions : clause[c] \in Clauses}
  <2>1. ASSUME NEW c \in Conditions,
               \A d \in Conditions : Nesting[d] < Nesting[c] => clause[d] \in Clauses
        PROVE  clause[c] \in Clauses
    <3>1. \A d \in Children(c) : clause[d] \in Clauses
      BY <2>1, NestingFacts
    <3> QED BY <1>8, <3>1, SqlNodeClause
  <2> DEFINE T == {c \in Conditions : clause[c] \in Clauses}
  <2>2. \A c \in Conditions :
          (\A d \in Conditions : Nesting[d] < Nesting[c] => d \in T) => c \in T
    BY <2>1
  <2> HIDE DEF T
  <2>3. Conditions \subseteq T
    BY <2>2, NestingFacts, RankInduction
  <2> QED BY <2>3 DEF T
<1>10. clause \in [Conditions -> Clauses]
  BY <1>6, <1>9
<1> QED BY <1>7, <1>8, <1>10


\* evaluateCondition unfolds, node by node.
LEMMA EvaluateUnfolds ==
  ASSUME NEW row
  PROVE  \E value : \A c \in Conditions : /\ Evaluate(c, row) = value[c]
                                          /\ value[c] = EvalNode(c, row, value)
<1> DEFINE Body(f) == [d \in Conditions |-> EvalNode(d, row, f)]
           step == [f \in [Conditions -> BOOLEAN] |-> Body(f)]
<1>1. ASSUME NEW f \in [Conditions -> BOOLEAN] PROVE Body(f) \in [Conditions -> BOOLEAN]
  BY DEF EvalNode
<1>2. step \in [[Conditions -> BOOLEAN] -> [Conditions -> BOOLEAN]]
  BY <1>1
<1>3. ASSUME NEW f \in [Conditions -> BOOLEAN], NEW g \in [Conditions -> BOOLEAN],
             NEW c \in Conditions,
             \A d \in Conditions : Nesting[d] < Nesting[c] => f[d] = g[d]
      PROVE  step[f][c] = step[g][c]
  <2>1. step[f][c] = EvalNode(c, row, f) /\ step[g][c] = EvalNode(c, row, g)
    OBVIOUS
  <2>2. \A d \in Children(c) : f[d] = g[d]
    BY <1>3, NestingFacts
  <2> QED BY <2>1, <2>2, EvalNodeLocal
<1>4. PICK f \in [Conditions -> BOOLEAN] : Solves(f, Conditions, step)
  <2>1. BOOLEAN # {}
    OBVIOUS
  <2>2. LooksDown(Conditions, BOOLEAN, Nesting, step)
    <3> HIDE DEF step
    <3> QED BY <1>3 DEF LooksDown
  <2> HIDE DEF step
  <2>3. Nesting \in [Conditions -> Nat]
    BY NestingFacts
  <2> QED BY <1>2, <2>1, <2>2, <2>3, RecursionExists
<1>5. f = Body(f)
  BY <1>4 DEF Solves
<1> DEFINE value == CHOOSE g : g = Body(g)
<1>6. value = Body(value)
  <2> HIDE DEF Body
  <2> QED BY <1>5
<1>7. \A c : Evaluate(c, row) = value[c]
  BY DEF Evaluate
<1> HIDE DEF value
<1>8. \A c \in Conditions : value[c] = EvalNode(c, row, value)
  BY <1>6
<1> QED BY <1>7, <1>8

\* A condition is regular for a row at every node.
LEMMA RegularUnfolds ==
  ASSUME NEW row
  PROVE  \A c \in Conditions : Regular(c, row) =>
           /\ RegularNode(c, row, [e \in Children(c) |-> Clause(e, row)])
           /\ \A e \in Children(c) : Regular(e, row)
<1> DEFINE Node(d) == RegularNode(d, row, [e \in Children(d) |-> Clause(e, row)])
           Body(f) == [d \in Conditions |-> Node(d) /\ \A e \in Children(d) : f[e]]
           step == [f \in [Conditions -> BOOLEAN] |-> Body(f)]
<1> HIDE DEF Node
<1>1. ASSUME NEW f \in [Conditions -> BOOLEAN] PROVE Body(f) \in [Conditions -> BOOLEAN]
  OBVIOUS
<1>2. step \in [[Conditions -> BOOLEAN] -> [Conditions -> BOOLEAN]]
  BY <1>1
<1>3. ASSUME NEW f \in [Conditions -> BOOLEAN], NEW g \in [Conditions -> BOOLEAN],
             NEW c \in Conditions,
             \A d \in Conditions : Nesting[d] < Nesting[c] => f[d] = g[d]
      PROVE  step[f][c] = step[g][c]
  <2>1. /\ step[f][c] = (Node(c) /\ \A e \in Children(c) : f[e])
        /\ step[g][c] = (Node(c) /\ \A e \in Children(c) : g[e])
    OBVIOUS
  <2>2. \A d \in Children(c) : f[d] = g[d]
    BY <1>3, NestingFacts
  <2> QED BY <2>1, <2>2
<1>4. PICK f \in [Conditions -> BOOLEAN] : Solves(f, Conditions, step)
  <2>1. BOOLEAN # {}
    OBVIOUS
  <2>2. LooksDown(Conditions, BOOLEAN, Nesting, step)
    <3> HIDE DEF step
    <3> QED BY <1>3 DEF LooksDown
  <2> HIDE DEF step
  <2>3. Nesting \in [Conditions -> Nat]
    BY NestingFacts
  <2> QED BY <1>2, <2>1, <2>2, <2>3, RecursionExists
<1>5. f = Body(f)
  BY <1>4 DEF Solves
<1> DEFINE regular == CHOOSE g : g = Body(g)
<1>6. regular = Body(regular)
  <2> HIDE DEF Body
  <2> QED BY <1>5
<1>7. \A c : Regular(c, row) = regular[c]
  BY DEF Regular, Node
<1> HIDE DEF regular
<1>8. \A c \in Conditions : regular[c] = (Node(c) /\ \A e \in Children(c) : regular[e])
  BY <1>6
<1> SUFFICES ASSUME NEW c \in Conditions, Regular(c, row)
             PROVE  Node(c) /\ \A e \in Children(c) : Regular(e, row)
  BY DEF Node
<1> QED BY <1>7, <1>8

\* The embedded tap and the database agree on every condition that is regular for
\* a row at each of its nodes: evaluateCondition returns what the predicate of
\* buildWhereClausePredicate lets through, however the condition is nested.
THEOREM ConditionParity ==
  ASSUME NEW row
  PROVE  \A c \in Conditions :
           Regular(c, row) => (Evaluate(c, row) <=> Admits(Clause(c, row)))
<1>1. PICK clause \in [Conditions -> Clauses] :
        \A c \in Conditions : /\ Clause(c, row) = clause[c]
                              /\ clause[c] = SqlNode(c, row, clause)
  BY ClauseUnfolds
<1>2. PICK value : \A c \in Conditions : /\ Evaluate(c, row) = value[c]
                                         /\ value[c] = EvalNode(c, row, value)
  BY EvaluateUnfolds
<1> DEFINE T == {c \in Conditions : Regular(c, row) => (value[c] <=> Admits(clause[c]))}
<1>3. ASSUME NEW c \in Conditions,
             \A d \in Conditions : Nesting[d] < Nesting[c] => d \in T
      PROVE  c \in T
  <2> SUFFICES ASSUME Regular(c, row) PROVE value[c] <=> Admits(clause[c])
    OBVIOUS
  <2> DEFINE below == [e \in Children(c) |-> Clause(e, row)]
  <2>1. RegularNode(c, row, below) /\ \A e \in Children(c) : Regular(e, row)
    BY RegularUnfolds
  <2>2. \A d \in Children(c) : d \in Conditions /\ d \in T
    BY <1>3, NestingFacts
  <2>3. \A d \in Children(c) : below[d] = clause[d] /\ below[d] \in Clauses
    BY <1>1, <2>2
  <2>4. \A d \in Children(c) : value[d] <=> Admits(below[d])
    BY <2>1, <2>2, <2>3
  <2> HIDE DEF below
  <2>5. EvalNode(c, row, value) <=> Admits(SqlNode(c, row, below))
    BY <2>1, <2>3, <2>4, NestingFacts, NodeParity
  <2>6. SqlNode(c, row, below) = SqlNode(c, row, clause)
    BY <2>3, SqlNodeLocal
  <2> QED BY <1>1, <1>2, <2>5, <2>6
<1>4. Conditions \subseteq T
  <2>1. \A c \in Conditions :
          (\A d \in Conditions : Nesting[d] < Nesting[c] => d \in T) => c \in T
    BY <1>3
  <2> HIDE DEF T
  <2> QED BY <2>1, NestingFacts, RankInduction
<1> QED BY <1>1, <1>2, <1>4


(***************************************************************************)
(* The subscribers.                                                        *)
(***************************************************************************)
\* On a content at which the two evaluations agree the tap finds what SQL finds.
LEMMA TapIsSql ==
  ASSUME query \in Queries, NEW row \in Agreeing[query]
  PROVE  row \in Rows /\ (InTap(row) <=> InResult(row))
<1>1. row \in Rows /\ Regular(Condition[query], row) /\ Condition[query] \in Conditions
  BY WhereAssumption DEF Agreeing
<1>2. /\ SqlSays[query][row] = Clause(Condition[query], row)
      /\ TapSays[query][row] = Evaluate(Condition[query], row)
  BY <1>1 DEF SqlSays, TapSays
<1>3. Evaluate(Condition[query], row) <=> Admits(Clause(Condition[query], row))
  BY <1>1, ConditionParity
<1> QED BY <1>1, <1>2, <1>3 DEF InTap, InResult

\* The typed state, field by field.
LEMMA ConditionTypes ==
  ASSUME ConditionTypeOK
  PROVE  /\ query \in Queries /\ Len(changes) \in Nat
         /\ \A i \in 1..Len(changes) : changes[i] \in Rows \union {NoRow}
         /\ pulled.at \in Nat /\ tapped.at \in Nat
         /\ pulled.row \in Rows \union {NoRow} /\ tapped.row \in Rows \union {NoRow}
         /\ received.pulled \in SUBSET Rows /\ received.tapped \in SUBSET Rows
         /\ received = [pulled |-> received.pulled, tapped |-> received.tapped]
<1>1. changes \in Seq(Rows \union {NoRow})
  BY DEF ConditionTypeOK
<1>2. pulled \in Subscriber /\ tapped \in Subscriber
  BY DEF ConditionTypeOK
<1>3. received \in [pulled : SUBSET Rows, tapped : SUBSET Rows]
  BY DEF ConditionTypeOK
<1>4. query \in Queries
  BY DEF ConditionTypeOK
<1> QED BY <1>1, <1>2, <1>3, <1>4 DEF Subscriber

\* The merge core on one event, whose sides are those of the result: from the
\* result before the change it leads to the result after it.
LEMMA MergeFollows ==
  ASSUME NEW old, NEW new, NEW s, NEW sides, NEW matching,
         changes[s.at] = old, changes[s.at + 1] = new, NoRow \notin matching,
         sides.new = (new \in matching), sides.old = (old \in matching),
         s.row = IF old \in matching THEN old ELSE NoRow
  PROVE  Merge(s, sides) = IF new \in matching THEN new ELSE NoRow
BY DEF Merge

\* A read by SQL.
LEMMA ReadByResult ==
  ASSUME ConditionInv
  PROVE  /\ Baseline.at = Len(changes) /\ Baseline.at \in 1..Len(changes)
         /\ Baseline.row = Result(changes[Len(changes)])
         /\ Baseline \in Subscriber
         /\ Baseline.row = NoRow \/ changes[Len(changes)] = Baseline.row
         /\ \A row \in {Result(Row)} \ {NoRow} : row \in Rows /\ InResult(row)
<1>1. Len(changes) \in 1..Len(changes) /\ Row \in Rows \union {NoRow}
  <2>1. changes \in Seq(Rows \union {NoRow}) /\ changes # <<>>
    BY DEF ConditionInv, ConditionTypeOK
  <2>2. Len(changes) \in Nat /\ Len(changes) # 0
    BY <2>1
  <2>3. Len(changes) \in 1..Len(changes)
    BY <2>2
  <2> QED BY <2>3, ConditionTypes DEF ConditionInv, Row
<1>2. Result(Row) = NoRow \/ (Result(Row) = Row /\ InResult(Row) /\ Row \in Rows)
  BY <1>1 DEF Result, InResult
<1>3. Baseline = [at |-> Len(changes), row |-> Result(Row)]
  BY DEF Baseline
<1>4. Result(Row) \in Rows \union {NoRow}
  BY <1>1, <1>2
<1> QED BY <1>1, <1>2, <1>3, <1>4 DEF Subscriber, Row


\* What a subscriber shows of an event whose sides it looks up in `matching`.
AfterEvent(s, matching) == [at |-> s.at + 1, row |-> Merge(s, Sides(s.at, matching))]

ShowsIn(s, matching) ==
  s.row = IF changes[s.at] \in matching THEN changes[s.at] ELSE NoRow

\* A subscriber shows a content that the row has had.
HadBy(s) == s.row = NoRow \/ \E i \in 1..s.at : changes[i] = s.row

\* The merge core on one event.
LEMMA EventStep ==
  ASSUME ConditionInv, NEW s \in Subscriber, s.at \in 1..(Len(changes) - 1), HadBy(s),
         NEW matching \in SUBSET Rows
  PROVE  /\ AfterEvent(s, matching) \in Subscriber /\ HadBy(AfterEvent(s, matching))
         /\ AfterEvent(s, matching).at \in 1..Len(changes)
         /\ Shipped(s, Sides(s.at, matching)) \subseteq matching
         /\ ShowsIn(s, matching) => ShowsIn(AfterEvent(s, matching), matching)
<1> DEFINE old == changes[s.at]
           new == changes[s.at + 1]
           sides == Sides(s.at, matching)
           row == Merge(s, sides)
<1>1. s.at \in Nat /\ Len(changes) \in Nat /\ s.row \in Rows \union {NoRow}
  BY ConditionTypes DEF ConditionInv, Subscriber
<1>2. s.at \in 1..Len(changes) /\ s.at + 1 \in 1..Len(changes)
  BY <1>1
<1>3. old \in Rows \union {NoRow} /\ new \in Rows \union {NoRow}
  BY <1>2, ConditionTypes DEF ConditionInv
<1>4. sides.new = (new \in matching) /\ sides.old = (old \in matching)
  BY DEF Sides
<1>5. row = new \/ row = NoRow \/ row = s.row
  BY DEF Merge
<1>6. NoRow \notin matching
  BY WhereAssumption
<1> DEFINE after == AfterEvent(s, matching)
<1>7. after = [at |-> s.at + 1, row |-> row] /\ after.at = s.at + 1 /\ after.row = row
  BY DEF AfterEvent
<1>8. after \in Subscriber
  BY <1>1, <1>3, <1>5, <1>7 DEF Subscriber
<1>9. HadBy(after)
  <2>1. CASE row = new
    <3>1. s.at + 1 \in 1..after.at
      BY <1>1, <1>7
    <3> QED BY <1>7, <2>1, <3>1 DEF HadBy
  <2>2. CASE row = NoRow
    BY <1>7, <2>2 DEF HadBy
  <2>3. CASE row = s.row
    <3>1. \A i \in 1..s.at : i \in 1..after.at
      BY <1>1, <1>7
    <3> QED BY <1>7, <2>3, <3>1 DEF HadBy
  <2> QED BY <1>5, <2>1, <2>2, <2>3
<1>10. Shipped(s, sides) \subseteq matching
  BY <1>4 DEF Shipped
<1>11. ShowsIn(s, matching) => row = IF new \in matching THEN new ELSE NoRow
  <2> HIDE DEF sides, row
  <2>1. row = Merge(s, sides)
    BY DEF row
  <2> QED BY <1>4, <1>6, <2>1, MergeFollows DEF ShowsIn
<1>12. ShowsIn(s, matching) => ShowsIn(after, matching)
  BY <1>7, <1>11 DEF ShowsIn
<1> QED BY <1>2, <1>7, <1>8, <1>9, <1>10, <1>12

LEMMA ConditionInit == Init => ConditionInv
<1> SUFFICES ASSUME Init PROVE ConditionInv
  OBVIOUS
<1>1. PICK row \in Rows \union {NoRow} : changes = <<row>>
  BY DEF Init
<1>2. changes \in Seq(Rows \union {NoRow}) /\ Len(changes) = 1 /\ changes # <<>>
  BY <1>1
<1>3. Absent \in Subscriber /\ Absent.at = 0 /\ Absent.row = NoRow
  BY DEF Absent, Subscriber
<1> QED BY <1>2, <1>3
        DEF Init, ConditionInv, ConditionTypeOK, NothingOutOfScope, Shows

\* The row changes.
LEMMA ChangeKeeps ==
  ASSUME ConditionInv, NEW row \in Rows \union {NoRow}, Change(row)
  PROVE  ConditionInv'
<1>1. /\ Len(changes) \in Nat /\ pulled.at \in Nat /\ tapped.at \in Nat
      /\ changes \in Seq(Rows \union {NoRow})
  BY ConditionTypes DEF ConditionInv, ConditionTypeOK
<1>2. /\ changes' \in Seq(Rows \union {NoRow}) /\ Len(changes') = Len(changes) + 1
      /\ \A i \in 1..Len(changes) : changes'[i] = changes[i]
      /\ UNCHANGED <<query, pulled, tapped, received>>
  BY <1>1 DEF Change
<1>3. changes' # <<>>
  BY <1>1, <1>2
<1>4. RegularSoFar' => RegularSoFar
  <2>1. DOMAIN changes = 1..Len(changes) /\ DOMAIN changes' = 1..Len(changes')
    BY <1>1, <1>2
  <2>2. Agreeing' = Agreeing
    BY DEF Agreeing
  <2> QED BY <1>1, <1>2, <2>1, <2>2 DEF RegularSoFar
<1>5. \A r : InResult(r)' = InResult(r) /\ Result(r)' = Result(r)
  BY <1>2 DEF InResult, Result, SqlSays
<1>6. ASSUME NEW s, s.at \in Nat, s.at <= Len(changes)
      PROVE  /\ s.at <= Len(changes')
             /\ s.at # 0 => changes'[s.at] = changes[s.at]
             /\ \A i \in 1..s.at : changes'[i] = changes[i]
  BY <1>1, <1>2, <1>6
<1>7. Shows(pulled)' /\ (RegularSoFar' => Shows(tapped)')
  BY <1>1, <1>2, <1>4, <1>5, <1>6 DEF ConditionInv, Shows
<1>8. ConditionTypeOK'
  BY <1>1, <1>2, <1>6 DEF ConditionInv, ConditionTypeOK
<1>9. NothingOutOfScope'
  BY <1>2, <1>4, <1>5 DEF ConditionInv, NothingOutOfScope
<1>10. pulled'.at <= Len(changes') /\ tapped'.at <= Len(changes')
  BY <1>1, <1>2 DEF ConditionInv
<1> QED BY <1>3, <1>7, <1>8, <1>9, <1>10 DEF ConditionInv


\* What depends on the query and the changes stays when they do.
LEMMA QueryKept ==
  ASSUME UNCHANGED <<query, changes>>
  PROVE  /\ RegularSoFar' = RegularSoFar
         /\ \A r : InResult(r)' = InResult(r) /\ Result(r)' = Result(r)
BY DEF RegularSoFar, Agreeing, InResult, Result, SqlSays

\* A subscriber loads the result, or a collection its baseline.
LEMMA ReadKeeps ==
  ASSUME ConditionInv, Subscribe \/ Rebaseline
  PROVE  ConditionInv'
<1>1. UNCHANGED <<query, changes>>
  BY DEF Subscribe, Rebaseline
<1>2. /\ RegularSoFar' = RegularSoFar
      /\ \A r : InResult(r)' = InResult(r) /\ Result(r)' = Result(r)
  BY <1>1, QueryKept
<1> DEFINE sent == {Result(Row)} \ {NoRow}
<1>3. /\ Baseline.at = Len(changes) /\ Baseline.at \in 1..Len(changes)
      /\ Baseline.row = Result(changes[Len(changes)]) /\ Baseline \in Subscriber
      /\ Baseline.row = NoRow \/ changes[Len(changes)] = Baseline.row
      /\ \A row \in sent : row \in Rows /\ InResult(row)
  BY ReadByResult
<1>4. HadBy(Baseline)
  BY <1>3 DEF HadBy
<1>5. /\ query \in Queries /\ changes \in Seq(Rows \union {NoRow}) /\ changes # <<>>
      /\ pulled \in Subscriber /\ tapped \in Subscriber
      /\ HadBy(pulled) /\ HadBy(tapped)
      /\ received.pulled \in SUBSET Rows /\ received.tapped \in SUBSET Rows
      /\ received = [pulled |-> received.pulled, tapped |-> received.tapped]
  BY ConditionTypes DEF ConditionInv, ConditionTypeOK, HadBy
<1> HIDE DEF sent
<1>6. CASE Subscribe
  <2>1. pulled' = Baseline /\ tapped' = tapped
    BY <1>6 DEF Subscribe
  <2>2. received' = [pulled |-> received.pulled \union sent, tapped |-> received.tapped]
    BY <1>5, <1>6 DEF Subscribe, sent
  <2>3. ConditionTypeOK'
    BY <1>1, <1>3, <1>4, <1>5, <2>1, <2>2 DEF ConditionTypeOK, HadBy
  <2>4. NothingOutOfScope'
    BY <1>2, <1>3, <2>2 DEF ConditionInv, NothingOutOfScope
  <2>5. Shows(pulled)' /\ (RegularSoFar' => Shows(tapped)')
    BY <1>1, <1>2, <1>3, <2>1 DEF ConditionInv, Shows
  <2> QED BY <1>1, <1>3, <1>5, <2>1, <2>3, <2>4, <2>5 DEF ConditionInv
<1>7. CASE Rebaseline
  <2>1. tapped' = Baseline /\ pulled' = pulled
    BY <1>7 DEF Rebaseline
  <2>2. received' = [pulled |-> received.pulled, tapped |-> received.tapped \union sent]
    BY <1>5, <1>7 DEF Rebaseline, sent
  <2>3. ConditionTypeOK'
    BY <1>1, <1>3, <1>4, <1>5, <2>1, <2>2 DEF ConditionTypeOK, HadBy
  <2>4. NothingOutOfScope'
    BY <1>2, <1>3, <2>2 DEF ConditionInv, NothingOutOfScope
  <2>5. Shows(pulled)' /\ (RegularSoFar' => Shows(tapped)')
    BY <1>1, <1>2, <1>3, <2>1 DEF ConditionInv, Shows
  <2> QED BY <1>1, <1>3, <1>5, <2>1, <2>3, <2>4, <2>5 DEF ConditionInv
<1> QED BY <1>6, <1>7

\* The rows that SQL selects, and those that JavaScript does.
Selecting == {r \in Rows : InResult(r)}
Tapping   == {r \in Rows : InTap(r)}

\* An HTTP client pulls an event.
LEMMA PullKeeps ==
  ASSUME ConditionInv, Pull
  PROVE  ConditionInv'
<1>1. UNCHANGED <<query, changes, tapped>> /\ pulled.at \in 1..(Len(changes) - 1)
  BY DEF Pull
<1>2. /\ RegularSoFar' = RegularSoFar
      /\ \A r : InResult(r)' = InResult(r) /\ Result(r)' = Result(r)
  BY <1>1, QueryKept
<1>3. /\ query \in Queries /\ changes \in Seq(Rows \union {NoRow}) /\ changes # <<>>
      /\ pulled \in Subscriber /\ tapped \in Subscriber
      /\ HadBy(pulled) /\ HadBy(tapped)
      /\ received.pulled \in SUBSET Rows /\ received.tapped \in SUBSET Rows
      /\ received = [pulled |-> received.pulled, tapped |-> received.tapped]
  BY ConditionTypes DEF ConditionInv, ConditionTypeOK, HadBy
<1> DEFINE after == AfterEvent(pulled, Selecting)
           shipped == Shipped(pulled, Sides(pulled.at, Selecting))
<1>4. Selecting \in SUBSET Rows
  BY DEF Selecting
<1>5. /\ after \in Subscriber /\ HadBy(after) /\ after.at \in 1..Len(changes)
      /\ shipped \subseteq Selecting
      /\ ShowsIn(pulled, Selecting) => ShowsIn(after, Selecting)
  BY <1>1, <1>3, <1>4, EventStep
<1>6. pulled' = after
  BY DEF Pull, AfterEvent, Selecting
<1>7. received' = [pulled |-> received.pulled \union shipped, tapped |-> received.tapped]
  BY <1>3 DEF Pull, Selecting
<1> HIDE DEF after, shipped
<1>8. ASSUME NEW s, s.at \in 1..Len(changes)
      PROVE  ShowsIn(s, Selecting) <=> s.row = Result(changes[s.at])
  <2>1. changes[s.at] \in Rows \union {NoRow}
    BY <1>3, <1>8
  <2>2. NoRow \notin Rows
    BY WhereAssumption
  <2> QED BY <2>1, <2>2 DEF ShowsIn, Selecting, Result, InResult
<1>9. pulled.at \in 1..Len(changes) /\ pulled.at # 0 /\ after.at # 0
  BY <1>1, <1>3, <1>5
<1>10. Shows(after)
  BY <1>5, <1>8, <1>9 DEF ConditionInv, Shows
<1>11. ConditionTypeOK'
  BY <1>1, <1>3, <1>4, <1>5, <1>6, <1>7 DEF ConditionTypeOK, HadBy
<1>12. NothingOutOfScope'
  BY <1>2, <1>5, <1>7 DEF ConditionInv, NothingOutOfScope, Selecting
<1>13. Shows(pulled)' /\ (RegularSoFar' => Shows(tapped)')
  BY <1>1, <1>2, <1>6, <1>10 DEF ConditionInv, Shows
<1> QED BY <1>1, <1>3, <1>5, <1>6, <1>11, <1>12, <1>13 DEF ConditionInv

\* The tap hands an event to the collection.
LEMMA TapKeeps ==
  ASSUME ConditionInv, Tap
  PROVE  ConditionInv'
<1>1. UNCHANGED <<query, changes, pulled>> /\ tapped.at \in 1..(Len(changes) - 1)
  BY DEF Tap
<1>2. /\ RegularSoFar' = RegularSoFar
      /\ \A r : InResult(r)' = InResult(r) /\ Result(r)' = Result(r)
  BY <1>1, QueryKept
<1>3. /\ query \in Queries /\ changes \in Seq(Rows \union {NoRow}) /\ changes # <<>>
      /\ pulled \in Subscriber /\ tapped \in Subscriber
      /\ HadBy(pulled) /\ HadBy(tapped)
      /\ received.pulled \in SUBSET Rows /\ received.tapped \in SUBSET Rows
      /\ received = [pulled |-> received.pulled, tapped |-> received.tapped]
  BY ConditionTypes DEF ConditionInv, ConditionTypeOK, HadBy
<1> DEFINE after == AfterEvent(tapped, Tapping)
           shipped == Shipped(tapped, Sides(tapped.at, Tapping))
<1>4. Tapping \in SUBSET Rows
  BY DEF Tapping
<1>5. /\ after \in Subscriber /\ HadBy(after) /\ after.at \in 1..Len(changes)
      /\ shipped \subseteq Tapping
      /\ ShowsIn(tapped, Tapping) => ShowsIn(after, Tapping)
  BY <1>1, <1>3, <1>4, EventStep
<1>6. tapped' = after
  BY DEF Tap, AfterEvent, Tapping
<1>7. received' = [pulled |-> received.pulled, tapped |-> received.tapped \union shipped]
  BY <1>3 DEF Tap, Tapping
<1>8. shipped \subseteq {changes[tapped.at], changes[tapped.at + 1]}
  BY DEF Shipped
<1> HIDE DEF after, shipped
<1>9. after.at = tapped.at + 1
  BY DEF after, AfterEvent
<1>10. ASSUME RegularSoFar, NEW i \in 1..Len(changes)
       PROVE  changes[i] \in Tapping <=> InResult(changes[i])
  <2>1. changes[i] \in Agreeing[query] \union {NoRow}
    BY <1>3, <1>10 DEF RegularSoFar
  <2>2. NoRow \notin Rows
    BY WhereAssumption
  <2> QED BY <1>3, <2>1, <2>2, TapIsSql DEF Tapping, InResult
<1>11. ASSUME RegularSoFar, NEW s, s.at \in 1..Len(changes)
       PROVE  ShowsIn(s, Tapping) <=> s.row = Result(changes[s.at])
  BY <1>10, <1>11 DEF ShowsIn, Result
<1>12. /\ tapped.at \in 1..Len(changes) /\ tapped.at # 0 /\ after.at # 0
       /\ tapped.at + 1 \in 1..Len(changes)
  BY <1>1, <1>3, <1>5, <1>9
<1>13. RegularSoFar => Shows(after)
  BY <1>5, <1>11, <1>12 DEF ConditionInv, Shows
<1>14. ConditionTypeOK'
  BY <1>1, <1>3, <1>4, <1>5, <1>6, <1>7 DEF ConditionTypeOK, HadBy
<1>15. RegularSoFar => \A row \in shipped : InResult(row)
  BY <1>5, <1>8, <1>10, <1>12
<1>16. NothingOutOfScope'
  BY <1>2, <1>7, <1>15 DEF ConditionInv, NothingOutOfScope
<1>17. Shows(pulled)' /\ (RegularSoFar' => Shows(tapped)')
  BY <1>1, <1>2, <1>6, <1>13 DEF ConditionInv, Shows
<1> QED BY <1>1, <1>3, <1>5, <1>6, <1>14, <1>16, <1>17 DEF ConditionInv

LEMMA ConditionStep == ConditionInv /\ [Next]_vars => ConditionInv'
<1> SUFFICES ASSUME ConditionInv, [Next]_vars PROVE ConditionInv'
  OBVIOUS
<1>1. ASSUME NEW row \in Rows \union {NoRow}, Change(row) PROVE ConditionInv'
  BY <1>1, ChangeKeeps
<1>2. CASE Subscribe \/ Rebaseline
  BY <1>2, ReadKeeps
<1>3. CASE Pull
  BY <1>3, PullKeeps
<1>4. CASE Tap
  BY <1>4, TapKeeps
<1>5. CASE UNCHANGED vars
  <2>1. UNCHANGED <<query, changes, pulled, tapped, received>>
    BY <1>5 DEF vars
  <2>2. /\ RegularSoFar' = RegularSoFar
        /\ \A r : InResult(r)' = InResult(r) /\ Result(r)' = Result(r)
    BY <2>1, QueryKept
  <2>3. ConditionTypeOK' /\ NothingOutOfScope'
    BY <2>1, <2>2 DEF ConditionInv, ConditionTypeOK, NothingOutOfScope
  <2>4. Shows(pulled)' /\ (RegularSoFar' => Shows(tapped)')
    BY <2>1, <2>2 DEF ConditionInv, Shows
  <2> QED BY <2>1, <2>3, <2>4 DEF ConditionInv
<1> QED BY <1>1, <1>2, <1>3, <1>4, <1>5 DEF Next

\* The inductive invariant holds in every behaviour.
THEOREM ConditionInvariant == Spec => []ConditionInv
BY ConditionInit, ConditionStep, PTL DEF Spec

\* Subscribers show contents that the row has had, and are sent no others.
THEOREM ConditionTypeCorrect == Spec => []ConditionTypeOK
<1>1. ConditionInv => ConditionTypeOK
  BY DEF ConditionInv
<1> QED BY <1>1, ConditionInvariant, PTL

\* An HTTP client that has applied every event shows the row exactly when the
\* source query would, for every condition, row and sequence of changes.
THEOREM PulledRows == Spec => []PulledMatchesSql
<1>1. ConditionInv => PulledMatchesSql
  <2> SUFFICES ASSUME ConditionInv, CaughtUp(pulled) PROVE pulled.row = Result(Row)
    BY DEF PulledMatchesSql
  <2>1. changes \in Seq(Rows \union {NoRow}) /\ changes # <<>>
    BY DEF ConditionInv, ConditionTypeOK
  <2>2. Len(changes) # 0
    BY <2>1
  <2> QED BY <2>2 DEF ConditionInv, CaughtUp, Shows, Row
<1> QED BY <1>1, ConditionInvariant, PTL

\* So does a collection fed by the tap, as long as the row has had contents on
\* which the two evaluations have nothing to differ on, at any node.
THEOREM TappedRows == Spec => []TappedMatchesSql
<1>1. ConditionInv => TappedMatchesSql
  <2> SUFFICES ASSUME ConditionInv, CaughtUp(tapped), RegularSoFar
               PROVE  tapped.row = Result(Row)
    BY DEF TappedMatchesSql
  <2>1. changes \in Seq(Rows \union {NoRow}) /\ changes # <<>>
    BY DEF ConditionInv, ConditionTypeOK
  <2>2. Len(changes) # 0
    BY <2>1
  <2> QED BY <2>2 DEF ConditionInv, CaughtUp, Shows, Row
<1> QED BY <1>1, ConditionInvariant, PTL

\* No content leaves the server while it is outside the query's result.
THEOREM ScopeKept == Spec => []NothingOutOfScope
<1>1. ConditionInv => NothingOutOfScope
  BY DEF ConditionInv
<1> QED BY <1>1, ConditionInvariant, PTL
=============================================================================
