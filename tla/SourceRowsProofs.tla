--------------------------- MODULE SourceRowsProofs ---------------------------
(***************************************************************************)
(* What the merge core does with the row events of a commit, for all       *)
(* tables, contents and queries: the step on which every delivery surface  *)
(* (collections, pulled queries) rests.                                    *)
(***************************************************************************)
EXTENDS SourceRows, TLAPS

Cell == Values \union {NoRow}

\* A row the query does not show is shown as no row.
LEMMA ShownNoRow == Shown(NoRow) = NoRow
BY SourceAssumption DEF Shown

\* A core that shows a row as it was before a commit shows it as it is after it.
LEMMA MergedFollows ==
  ASSUME NEW old \in Cell, NEW new \in Cell
  PROVE  Merged(Shown(old), old, new) = Shown(new)
<1>1. CASE old = new
  BY <1>1 DEF Merged
<1>2. CASE old # new /\ old = NoRow
  <2>1. Merged(Shown(old), old, new) = IF new \in Matching THEN new ELSE NoRow
    BY <1>2, ShownNoRow DEF Merged
  <2> QED BY <2>1 DEF Shown
<1>3. CASE old # new /\ old # NoRow /\ new = NoRow
  <2>1. Merged(Shown(old), old, new) = IF old \in Matching THEN NoRow ELSE Shown(old)
    BY <1>3 DEF Merged
  <2> QED BY <2>1, <1>3, ShownNoRow DEF Shown
<1>4. CASE old # new /\ old # NoRow /\ new # NoRow
  <2>1. Merged(Shown(old), old, new) =
          IF new \in Matching THEN new ELSE IF old \in Matching THEN NoRow ELSE Shown(old)
    BY <1>4 DEF Merged
  <2> QED BY <2>1 DEF Shown
<1> QED BY <1>1, <1>2, <1>3, <1>4

\* A core that holds a later baseline of a row, while commits from before that
\* baseline are replayed, shows the row either as the replay or as the baseline
\* has it.
LEMMA MergedConverges ==
  ASSUME NEW old \in Cell, NEW new \in Cell, NEW base,
         NEW current \in {Shown(old), base}
  PROVE  Merged(current, old, new) \in {Shown(new), base}
<1>1. CASE current = Shown(old)
  BY <1>1, MergedFollows
<1>2. CASE current = base /\ old = new
  BY <1>2 DEF Merged
<1>3. CASE current = base /\ old # new /\ old = NoRow
  <2>1. Merged(current, old, new) =
          IF new \in Matching /\ current = NoRow THEN new ELSE current
    BY <1>3 DEF Merged
  <2> QED BY <2>1, <1>3 DEF Shown
<1>4. CASE current = base /\ old # new /\ old # NoRow /\ new = NoRow
  <2>1. Merged(current, old, new) = IF old \in Matching THEN NoRow ELSE current
    BY <1>4 DEF Merged
  <2> QED BY <2>1, <1>4, ShownNoRow
<1>5. CASE current = base /\ old # new /\ old # NoRow /\ new # NoRow
  <2>1. Merged(current, old, new) =
          IF new \in Matching THEN new ELSE IF old \in Matching THEN NoRow ELSE current
    BY <1>5 DEF Merged
  <2> QED BY <2>1, <1>5 DEF Shown
<1> QED BY <1>1, <1>2, <1>3, <1>4, <1>5

\* The table and the query's result have a cell for every key.
LEMMA ViewCells ==
  ASSUME history \in Seq(Content), NEW i \in Nat, i < Len(history), NEW k \in Keys
  PROVE  RowsAt(i)[k] \in Cell /\ ViewAt(i)[k] = Shown(RowsAt(i)[k])
<1>1. RowsAt(i) \in Content
  BY DEF RowsAt
<1> QED BY <1>1 DEF Content, Cell, ViewAt

\* Following the table: from the query's result at a commit, the events of the
\* next commit lead to the query's result there (applyEvents, buildTapEvent).
THEOREM AppliedFollows ==
  ASSUME history \in Seq(Content), NEW i \in Nat \ {0}, i < Len(history)
  PROVE  Applied(i, ViewAt(i - 1)) = ViewAt(i)
<1>1. ASSUME NEW k \in Keys
      PROVE  Merged(ViewAt(i - 1)[k], RowsAt(i - 1)[k], RowsAt(i)[k]) = ViewAt(i)[k]
  <2>1. i - 1 \in Nat /\ i - 1 < Len(history)
    OBVIOUS
  <2> QED BY <2>1, ViewCells, MergedFollows
<1>2. ViewAt(i) = [k \in Keys |-> ViewAt(i)[k]]
  BY DEF ViewAt
<1> QED BY <1>1, <1>2 DEF Applied

\* Replaying onto a baseline: a commit the baseline may contain already leaves
\* every row as the replayed commit or as the baseline has it, so the replay
\* ends at the table once it reaches the commit the baseline was read at.
THEOREM ReplayConverges ==
  ASSUME history \in Seq(Content), NEW i \in Nat \ {0}, i < Len(history),
         NEW base, NEW content,
         \A k \in Keys : content[k] \in {ViewAt(i - 1)[k], base[k]}
  PROVE  \A k \in Keys : Applied(i, content)[k] \in {ViewAt(i)[k], base[k]}
<1> SUFFICES ASSUME NEW k \in Keys
             PROVE  Applied(i, content)[k] \in {ViewAt(i)[k], base[k]}
  OBVIOUS
<1>1. i - 1 \in Nat /\ i - 1 < Len(history)
  OBVIOUS
<1>2. Applied(i, content)[k] = Merged(content[k], RowsAt(i - 1)[k], RowsAt(i)[k])
  BY DEF Applied
<1>3. RowsAt(i - 1)[k] \in Cell /\ ViewAt(i - 1)[k] = Shown(RowsAt(i - 1)[k])
  BY <1>1, ViewCells
<1>4. RowsAt(i)[k] \in Cell /\ ViewAt(i)[k] = Shown(RowsAt(i)[k])
  BY ViewCells
<1>5. content[k] \in {Shown(RowsAt(i - 1)[k]), base[k]}
  BY <1>3
<1> QED BY <1>2, <1>3, <1>4, <1>5, MergedConverges

\* Applying the next commit takes a row one commit further on its way.
LEMMA FollowsStep ==
  ASSUME history \in Seq(Content), NEW i \in Nat \ {0}, i < Len(history),
         NEW base \in Nat, NEW content, NEW k \in Keys,
         Follows(content[k], k, i - 1, base)
  PROVE  Follows(Applied(i, content)[k], k, i, base)
<1>1. i - 1 \in Nat /\ i - 1 < Len(history)
  OBVIOUS
<1>2. Applied(i, content)[k] = Merged(content[k], RowsAt(i - 1)[k], RowsAt(i)[k])
  BY DEF Applied
<1>3. RowsAt(i - 1)[k] \in Cell /\ ViewAt(i - 1)[k] = Shown(RowsAt(i - 1)[k])
  BY <1>1, ViewCells
<1>4. RowsAt(i)[k] \in Cell /\ ViewAt(i)[k] = Shown(RowsAt(i)[k])
  BY ViewCells
<1>5. Applied(i, content)[k] \in {ViewAt(i)[k], ViewAt(base)[k]}
  <2>1. content[k] \in {Shown(RowsAt(i - 1)[k]), ViewAt(base)[k]}
    BY <1>3 DEF Follows
  <2> QED BY <1>2, <1>3, <1>4, <2>1, MergedConverges
<1>6. ASSUME base <= i PROVE Applied(i, content)[k] = ViewAt(i)[k]
  <2>1. CASE base <= i - 1
    <3>1. content[k] = Shown(RowsAt(i - 1)[k])
      BY <2>1, <1>3 DEF Follows
    <3> QED BY <1>2, <1>3, <1>4, <3>1, MergedFollows
  <2>2. CASE base = i
    BY <1>5, <2>2
  <2> QED BY <1>6, <2>1, <2>2
<1> QED BY <1>5, <1>6 DEF Follows

(***************************************************************************)
(* Contents.                                                               *)
(***************************************************************************)
\* The source's history, as a fact to be opened only where it is needed.
HistoryTyped == history \in Seq(Content)

\* The query's result is a content, at every commit.
LEMMA ViewContent == ASSUME NEW i PROVE ViewAt(i) \in Content
BY SourceAssumption DEF ViewAt, Shown, Content

\* Applying a commit's events leaves a content.
LEMMA AppliedContent ==
  ASSUME NEW i, NEW content \in Content
  PROVE  Applied(i, content) \in Content
<1> SUFFICES ASSUME NEW k \in Keys
             PROVE  Merged(content[k], RowsAt(i - 1)[k], RowsAt(i)[k])
                      \in Values \union {NoRow}
  BY DEF Applied, Content
<1>1. content[k] \in Values \union {NoRow}
  BY DEF Content
<1> QED BY <1>1, SourceAssumption DEF Merged

\* A source without rows is a content.
LEMMA EmptyContent == Empty \in Content
BY DEF Empty, Content

\* The tables a baseline finds rows for are registered ones.
LEMMA SeededTables == ASSUME NEW i PROVE SeededBy(i) \in SUBSET Tables
BY SourceAssumption DEF SeededBy
=============================================================================
