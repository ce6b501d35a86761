-------------------------- MODULE MCWhereConditions --------------------------
(***************************************************************************)
(* Instances of WhereConditions for TLC: a table with a text column and a  *)
(* numeric one, both nullable, and one column that the query leaves out.   *)
(***************************************************************************)
EXTENDS WhereConditions, FiniteSetsExt, TLC

CONSTANTS Name, Size, Secret

MCColumnType == [c \in Columns |-> IF c = Size THEN "numeric" ELSE "text"]

\* '10' sorts before '9' as text and after it as a number.
Ten  == [text |-> {1}, number |-> {10}, rank |-> 0]
Nine == [text |-> {2}, number |-> {9}, rank |-> 0]
Word == [text |-> {3}, number |-> {}, rank |-> 0]
One  == [text |-> {}, number |-> {1}, rank |-> 0]
Two  == [text |-> {}, number |-> {2}, rank |-> 0]

MCScalars == {Ten, Nine, Word, One, Two}

Content(name, size) == [c \in Columns |-> CASE c = Name -> name [] c = Size -> size [] OTHER -> Null]

MCRows == {Content(Ten, One), Content(Word, Null), Content(Null, Two)}

Op(op, args)       == [op |-> op, args |-> args]
On(column, ops)    == [column |-> column, operators |-> ops]
Where(filters)     == Group(filters, {}, {}, {})
AllOf(children)    == Group({}, {children}, {}, {})
AnyOf(children)    == Group({}, {}, {children}, {})
Negation(children) == Group({}, {}, {}, {children})

Filters == <<
  On(Name, {Op("eq", {Word})}), On(Name, {Op("ne", {Ten})}), On(Name, {Op("gt", {Nine})}),
  On(Name, {Op("in", {})}), On(Name, {Op("in", {Ten, Null})}), On(Name, {Op("isNull", {})}),
  On(Name, {Op("undefined", {})}), On(Name, {}),
  On(Size, {Op("gte", {One}), Op("lt", {Two})}), On(Size, {Op("lte", {Two})}),
  On(Size, {Op("isNotNull", {})}), On(Secret, {Op("eq", {Word})}) >>

Leaf == [i \in DOMAIN Filters |-> Where({Filters[i]})]

Degenerate == <<
  NoCondition, NotAnObject, Where({}), AllOf({}), AnyOf({}), Negation({}),
  Negation({Where({})}), AnyOf({NoCondition, Leaf[1]}), Negation({Negation({Leaf[1]})}),
  Group({Filters[1]}, {}, {}, {{}}), Group({}, {{}}, {{}}, {}) >>

\* The degenerate conditions, the single filters, and every pair of filters
\* under the combinations of two and three levels.
MCQueries ==
  LET leaves == DOMAIN Leaf IN
  ({"degenerate"} \X (DOMAIN Degenerate) \X {0}) \union ({"leaf"} \X leaves \X {0})
  \union ({"and", "or not", "not and", "not or"} \X leaves \X leaves)

MCCondition ==
  [q \in MCQueries |->
     CASE q[1] = "degenerate" -> Degenerate[q[2]]
       [] q[1] = "leaf"       -> Leaf[q[2]]
       [] q[1] = "and"        -> AllOf({Leaf[q[2]], Leaf[q[3]]})
       [] q[1] = "or not"     -> AnyOf({Leaf[q[2]], Negation({Leaf[q[3]]})})
       [] q[1] = "not and"    -> Negation({AllOf({Leaf[q[2]], Leaf[q[3]]})})
       [] OTHER               -> Negation({AnyOf({Leaf[q[2]], Leaf[q[3]]})})]

RECURSIVE Levels(_)
Levels(c) == IF Children(c) = {} THEN 0 ELSE 1 + Max({Levels(d) : d \in Children(c)})

RECURSIVE Nested(_)
Nested(S) == IF S = {} THEN {} ELSE S \union Nested(UNION {Children(c) : c \in S})

MCNesting == [c \in Nested({Condition[q] : q \in Queries}) |-> Levels(c)]

\* A single operator, alone and under NOT.
MCNegation == << Leaf[1], Negation({Leaf[1]}) >>
=============================================================================
