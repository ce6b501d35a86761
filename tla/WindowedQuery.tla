---------------------------- MODULE WindowedQuery ----------------------------
(***************************************************************************)
(* One query with `orderBy` and `limit` over HTTP: the window the client   *)
(* has loaded (client/pulse-query.ts, shared/ranged-merge-core.ts), the    *)
(* page that loadMore fetches behind it, and the pulls that keep it        *)
(* current (server/sdk.ts), each request in flight beside the other.       *)
(*                                                                         *)
(* The server side of the stream is EventsLog, which PulseStream           *)
(* implements.  A handler reads in one step; the order of its own reads is *)
(* the subject of PullProtocol.                                            *)
(***************************************************************************)
EXTENDS EventsLog, FiniteSetsExt, SequencesExt

CONSTANTS
  Source,          \* the query's table
  Keys,            \* its primary keys, comparable as numbers
  Values,          \* row contents
  Matching,        \* those the resolved WHERE admits
  NoRow,           \* no row under this key
  Initial,         \* the table before the first commit
  Order,           \* "asc" or "desc"
  Limit,           \* rows per page
  PullEventLimit,  \* config `pull.eventLimit`
  LateInserts,     \* a key may be committed after keys ahead of it
  MaxCommits,      \* bound: commits
  MaxResets        \* bound: incarnations of the events table

ASSUME WindowAssumption ==
  /\ Source \in Tables
  /\ Keys \subseteq Nat \ {0} /\ IsFiniteSet(Keys)
  /\ Matching \subseteq Values /\ NoRow \notin Values
  /\ Initial \in [Keys -> Values \union {NoRow}]
  /\ Order \in {"asc", "desc"}
  /\ Limit \in Nat \ {0} /\ PullEventLimit \in Nat
  /\ LateInserts \in BOOLEAN

VARIABLES
  history,    \* history[i + 1]: the source table after commit i
  entries,    \* the merge core: the loaded rows, in the order shown
  range,      \* rangeStart and rangeEnd of the merge core
  hasMore,    \* the state's flag: rows behind the window are left to load
  token,      \* the client's cursor
  pull,       \* the subscribe or pull in flight
  page,       \* the loadMore in flight (isLoadingMore)
  overtaken,  \* auxiliary: loaded by a page older than the cursor
  jumps,      \* auxiliary: loaded where the window was not contiguous
  narrowed    \* auxiliary: an answer has left out rows behind its range

window  == <<entries, range, hasMore, token, overtaken, jumps, narrowed>>
allVars == <<vars, history, window, pull, page>>

Content == [Keys -> Values \union {NoRow}]

NoPk    == 0
NoRange == [start |-> NoPk, end |-> NoPk]
NoToken == [epoch |-> -1, snapshot |-> 0]

Pks(seq) == {seq[i].pk : i \in DOMAIN seq}
Shown    == Pks(entries)

\* A request: what the client sent, overwritten by what the answer carries.
NoRequest ==
  [stage |-> "none", kind |-> "pull", range |-> NoRange, hasMore |-> FALSE,
   token |-> NoToken, cursor |-> NoPk, pos |-> 0, pks |-> {}, batch |-> {}]

PkRange == [start : Keys \union {NoPk}, end : Keys \union {NoPk}]
Token   == [epoch : Int, snapshot : Nat]
Request ==
  [stage : {"none", "sent", "answered"},
   kind : {"subscribe", "pull", "reset", "page"},
   range : PkRange, hasMore : BOOLEAN, token : Token, cursor : Keys \union {NoPk},
   pos : Nat, pks : SUBSET Keys,    \* rows carried, and the commit they were read at
   batch : SUBSET Nat]              \* commits whose events are carried

------------------------------------------------------------------------------
(***************************************************************************)
(* Keys and rows.                                                          *)
(***************************************************************************)
\* comparePkValues under the query's order: a is shown before b.
Ahead(a, b) == IF Order = "desc" THEN a > b ELSE a < b

RowsAt(i) == history[i + 1]
RowsNow   == history[Len(history)]
Result(i) == {k \in Keys : RowsAt(i)[k] \in Matching}

\* ORDER BY the key.
InOrder(pks) ==
  CHOOSE seq \in [1..Cardinality(pks) -> pks] :
    \A m, n \in DOMAIN seq : m < n => Ahead(seq[m], seq[n])

RowsOf(pks, i) ==
  LET seq == InOrder(pks) IN [n \in DOMAIN seq |-> [pk |-> seq[n], row |-> RowsAt(i)[seq[n]]]]

\* The first n of the keys.
First(pks, n) == {k \in pks : Cardinality({l \in pks : Ahead(l, k)}) < n}

Bounds(pks) == IF pks = {} THEN NoRange ELSE [start |-> Min(pks), end |-> Max(pks)]

\* computeUpdatedRange, and updatedRangeStart, updatedRangeEnd of loadMore
Widened(r, pks) == Bounds(pks \union ({r.start, r.end} \ {NoPk}))

\* The end of the range behind which the next page starts, and the one that new
\* rows must be ahead of.
Trailing(r) == IF Order = "desc" THEN r.start ELSE r.end
Leading(r)  == IF Order = "desc" THEN r.end ELSE r.start

\* The order is mixed up: rows ahead of the window are refused.
Mut_IsInsertPrepend(pk, r) ==
  r.start = NoPk \/ r.end = NoPk \/ Ahead(Trailing(r), pk)

\* isInsertPrepend, and acceptInsert of the client
IsInsertPrepend(pk, r) ==
  r.start = NoPk \/ r.end = NoPk \/ Ahead(pk, Leading(r))

------------------------------------------------------------------------------
(***************************************************************************)
(* The events of the log.                                                  *)
(***************************************************************************)
Key(i) == CHOOSE k \in Keys : RowsAt(i)[k] # RowsAt(i - 1)[k]

Event(i) ==
  LET k == Key(i) old == RowsAt(i - 1)[k] new == RowsAt(i)[k] IN
  [pk |-> k, row |-> new, matchesNew |-> new \in Matching,
   op |-> IF old = NoRow THEN "insert" ELSE IF new = NoRow THEN "delete" ELSE "update"]

\* The events query: past the cursor, one of the sides admitted by the WHERE.
Delivered(since) ==
  {i \in log[Source] : /\ i > since
                       /\ {RowsAt(i)[Key(i)], RowsAt(i - 1)[Key(i)]} \cap Matching # {}}

Latest == Max(log[Source] \union {0})

CurrentToken(snapshot) == [epoch |-> generation[Source], snapshot |-> snapshot]

------------------------------------------------------------------------------
(***************************************************************************)
(* The merge core.                                                         *)
(***************************************************************************)
\* The binary search of insertSorted.
SlotFor(seq, pk) ==
  LET f[b \in (0..Len(seq)) \X (0..Len(seq))] ==
        LET low == b[1] high == b[2] mid == (low + high) \div 2 IN
        IF low >= high THEN low
        ELSE IF Ahead(pk, seq[mid + 1].pk) THEN f[<<low, mid>>] ELSE f[<<mid + 1, high>>]
  IN  f[<<0, Len(seq)>>]

InsertSorted(seq, entry) == InsertAt(seq, SlotFor(seq, entry.pk) + 1, entry)

\* A removed row leaves a hole under its key.
Mut_Without(seq, pk) ==
  [n \in DOMAIN seq |-> IF seq[n].pk = pk THEN [seq[n] EXCEPT !.row = NoRow] ELSE seq[n]]

\* The splice of applyEvents that removes a row.
Without(seq, pk) ==
  IF pk \in Pks(seq) THEN RemoveAt(seq, CHOOSE n \in DOMAIN seq : seq[n].pk = pk) ELSE seq

\* An update of a row that is not loaded is ignored.
Mut_ApplyEvent(seq, e, r) ==
  LET entry == [pk |-> e.pk, row |-> e.row]
      known == e.pk \in Pks(seq)
  IN  CASE e.op = "insert" ->
             IF ~known /\ IsInsertPrepend(e.pk, r) THEN InsertSorted(seq, entry) ELSE seq
        [] e.op = "update" ->
             IF known /\ e.matchesNew
             THEN [n \in DOMAIN seq |-> IF seq[n].pk = e.pk THEN entry ELSE seq[n]]
             ELSE Without(seq, e.pk)
        [] OTHER -> Without(seq, e.pk)

\* A row that no longer matches stays.
Mut2_ApplyEvent(seq, e, r) ==
  LET entry == [pk |-> e.pk, row |-> e.row]
      known == e.pk \in Pks(seq)
  IN  CASE e.op = "insert" ->
             IF ~known /\ IsInsertPrepend(e.pk, r) THEN InsertSorted(seq, entry) ELSE seq
        [] e.op = "update" /\ e.matchesNew ->
             IF known
             THEN [n \in DOMAIN seq |-> IF seq[n].pk = e.pk THEN entry ELSE seq[n]]
             ELSE InsertSorted(seq, entry)
        [] e.op = "update" -> seq
        [] OTHER -> Without(seq, e.pk)

\* applyEvents for one event, the core's range being r.
ApplyEvent(seq, e, r) ==
  LET entry == [pk |-> e.pk, row |-> e.row]
      known == e.pk \in Pks(seq)
  IN  CASE e.op = "insert" ->
             IF ~known /\ IsInsertPrepend(e.pk, r) THEN InsertSorted(seq, entry) ELSE seq
        [] e.op = "update" /\ e.matchesNew ->
             IF known
             THEN [n \in DOMAIN seq |-> IF seq[n].pk = e.pk THEN entry ELSE seq[n]]
             ELSE InsertSorted(seq, entry)
        [] OTHER -> Without(seq, e.pk)

\* applyEvents: the events of the batch, in commit order.
ApplyBatch(batch) ==
  LET after[i \in 0..Len(commits)] ==
        IF i = 0 THEN entries
        ELSE IF i \in batch THEN ApplyEvent(after[i - 1], Event(i), range) ELSE after[i - 1]
  IN  after[Len(commits)]

\* A row that is loaded already is appended once more.
Mut_AppendRows(pks, i) == entries \o RowsOf(pks, i)

\* appendRows
AppendRows(pks, i) == entries \o RowsOf(pks \ Pks(entries), i)

------------------------------------------------------------------------------
(***************************************************************************)
(* The source table and the stream.                                        *)
(***************************************************************************)
Used(k) == \E i \in DOMAIN history : history[i][k] # NoRow

\* k was inserted when it, or a key ahead of it, had been used before.
Late(k) ==
  \E i \in 1..Len(commits) :
    /\ RowsAt(i - 1)[k] = NoRow /\ RowsAt(i)[k] # NoRow
    /\ \E j \in 1..i, l \in Keys : ~Ahead(k, l) /\ history[j][l] # NoRow

\* A transaction changes one row; without LateInserts keys grow monotonically
\* in commit order (the precondition of isInsertPrepend).
Write(k, row) ==
  /\ Len(commits) < MaxCommits
  /\ row # RowsNow[k]
  /\ RowsNow[k] = NoRow /\ ~LateInserts => \A l \in Keys : Used(l) => Ahead(k, l)
  /\ AppendCommit /\ commits' = Append(commits, {Source})
  /\ history' = Append(history, [RowsNow EXCEPT ![k] = row])
  /\ UNCHANGED <<window, pull, page>>

Cover == Publish /\ UNCHANGED <<history, window, pull, page>>

\* The events table starts over: recreated, or rotated with a new slot.
Restart ==
  /\ generation[Source] < MaxResets
  /\ \/ generation' = [generation EXCEPT ![Source] = @ + 1] /\ Recreate
     \/ generation' = [t \in Tables |-> generation[t] + 1] /\ Resync
  /\ UNCHANGED <<history, window, pull, page>>

------------------------------------------------------------------------------
(***************************************************************************)
(* PulseQuery sends.                                                       *)
(***************************************************************************)
Subscribe ==
  /\ token = NoToken /\ pull = NoRequest
  /\ pull' = [NoRequest EXCEPT !.stage = "sent", !.kind = "subscribe"]
  /\ UNCHANGED <<vars, history, window, page>>

\* pollNow, with buildPullEntry.
Poll ==
  /\ token # NoToken /\ pull = NoRequest
  /\ pull' = [NoRequest EXCEPT !.stage = "sent", !.range = range,
                               !.hasMore = hasMore, !.token = token]
  /\ UNCHANGED <<vars, history, window, page>>

\* The last visible key, or the end of the range when nothing is visible.
Cursor ==
  IF entries = <<>> THEN Trailing(range)
  ELSE CHOOSE k \in Pks(entries) : \A l \in Pks(entries) \ {k} : Ahead(l, k)

LoadMore ==
  /\ token # NoToken /\ page = NoRequest
  /\ Cursor # NoPk
  /\ page' = [NoRequest EXCEPT !.stage = "sent", !.kind = "page",
                               !.range = range, !.cursor = Cursor]
  /\ UNCHANGED <<vars, history, window, pull>>

------------------------------------------------------------------------------
(***************************************************************************)
(* PulseRequestHandler.                                                    *)
(***************************************************************************)
Now == Len(commits)

\* A full first page: hasMore is claimed without looking for a further row.
Mut_HandleSubscribe ==
  /\ pull.stage = "sent" /\ pull.kind = "subscribe"
  /\ LET pks == First(Result(Now), Limit) IN
     pull' = [pull EXCEPT !.stage = "answered", !.pos = Now, !.pks = pks,
                !.range = Bounds(pks), !.hasMore = Cardinality(Result(Now)) > Limit + 1,
                !.token = CurrentToken(Latest)]
  /\ UNCHANGED <<vars, history, window, page>>

\* subscribe: the first page, looking one row further for hasMore.
HandleSubscribe ==
  /\ pull.stage = "sent" /\ pull.kind = "subscribe"
  /\ LET pks == First(Result(Now), Limit) IN
     pull' = [pull EXCEPT !.stage = "answered", !.pos = Now, !.pks = pks,
                !.range = Bounds(pks), !.hasMore = Cardinality(Result(Now)) > Limit,
                !.token = CurrentToken(Latest)]
  /\ UNCHANGED <<vars, history, window, page>>

\* buildResetWhereClause
InWindow(k, r) == Trailing(r) = NoPk \/ ~Ahead(Trailing(r), k)

\* buildResetResponse: every row of the loaded range, whatever the limit.
Reset ==
  LET pks == {k \in Result(Now) : InWindow(k, pull.range)} IN
  pull' = [pull EXCEPT !.stage = "answered", !.kind = "reset", !.pos = Now, !.pks = pks,
             !.range = Bounds(pks), !.token = CurrentToken(Latest)]

\* The keys of the inserts that the gate lets through.
Prepends(found) ==
  {Key(i) : i \in {j \in found : Event(j).op = "insert" /\ IsInsertPrepend(Key(j), pull.range)}}

\* The events the answer carries: not the inserts that the gate refuses.
Sent(found) ==
  {i \in found : Event(i).op = "insert" => IsInsertPrepend(Key(i), pull.range)}

\* The answer's cursor covers every event found, the refused inserts included.
Incremental(found) ==
  pull' = [pull EXCEPT !.stage = "answered", !.batch = Sent(found),
             !.range = Widened(pull.range, Prepends(found)),
             !.token = CurrentToken(Max(found \union {pull.token.snapshot}))]

\* A batch beyond the limit is cut: the cursor covers what was not sent.
Mut_HandlePull ==
  /\ pull.stage = "sent" /\ pull.kind = "pull"
  /\ LET found == Delivered(pull.token.snapshot) IN
     IF pull.token.epoch # generation[Source] THEN Reset
     ELSE IF Cardinality(found) > PullEventLimit
     THEN pull' = [pull EXCEPT !.stage = "answered", !.token = CurrentToken(Latest)]
     ELSE Incremental(found)
  /\ UNCHANGED <<vars, history, window, page>>

\* pull: a token of another incarnation, or more events than the limit, reset.
HandlePull ==
  /\ pull.stage = "sent" /\ pull.kind = "pull"
  /\ LET found == Delivered(pull.token.snapshot) IN
     IF pull.token.epoch # generation[Source] \/ Cardinality(found) > PullEventLimit
     THEN Reset
     ELSE Incremental(found)
  /\ UNCHANGED <<vars, history, window, page>>

\* loadMore: the page behind the cursor.
HandleLoadMore ==
  /\ page.stage = "sent"
  /\ LET behind == {k \in Result(Now) : Ahead(page.cursor, k)}
         pks == First(behind, Limit)
     IN page' = [page EXCEPT !.stage = "answered", !.pos = Now, !.pks = pks,
                   !.range = Widened(page.range, pks),
                   !.hasMore = Cardinality(behind) > Limit]
  /\ UNCHANGED <<vars, history, window, pull>>

------------------------------------------------------------------------------
(***************************************************************************)
(* PulseQuery receives.                                                    *)
(***************************************************************************)
\* A reset reads the loaded range only, and returns the request's hasMore.
Omits == pull.kind = "reset" /\ ~pull.hasMore /\ Result(pull.pos) # pull.pks

\* subscribe's answer, and applyPullResult of a reset: rebuildFromRows.
ReceiveRows ==
  /\ pull.stage = "answered" /\ pull.kind \in {"subscribe", "reset"}
  /\ entries' = RowsOf(pull.pks, pull.pos)
  /\ range' = pull.range
  /\ hasMore' = pull.hasMore
  /\ token' = pull.token
  /\ pull' = NoRequest
  /\ overtaken' = {}
  /\ jumps' = {}
  /\ narrowed' = (narrowed \/ Omits)
  /\ UNCHANGED <<vars, history, page>>

\* The shown rows ahead of everything that has jumped.
Contiguous == {l \in Shown : \A g \in jumps : Ahead(l, g)}

\* Rows that enter the window behind its contiguous part.
Jumped(batch) ==
  LET left == {Key(i) : i \in {j \in batch : ~Event(j).matchesNew}} IN
  {k \in Pks(ApplyBatch(batch)) \ (Shown \ left) : \A l \in Contiguous : Ahead(l, k)}

\* Keys that the batch brings up to date: an insert of a loaded row is ignored.
Caught(batch) ==
  {Key(i) : i \in {j \in batch : Event(j).op # "insert" \/ Key(j) \notin Shown}}

\* applyPullResult of events.  The range becomes the answer's.
ReceiveEvents ==
  /\ pull.stage = "answered" /\ pull.kind = "pull"
  /\ entries' = ApplyBatch(pull.batch)
  /\ jumps' = jumps \union Jumped(pull.batch)
  /\ range' = pull.range
  /\ token' = pull.token
  /\ pull' = NoRequest
  /\ overtaken' = overtaken \ Caught(pull.batch)
  /\ UNCHANGED <<vars, history, hasMore, narrowed, page>>

\* A pull with this token, or one after it, will read commit i.
Pending(i, tok) == i \notin covered \/ (i \in log[Source] /\ i > tok.snapshot)

\* Commits after pos that the client's cursor has left behind.
Missed(pos) == {i \in (pos + 1)..Len(commits) : ~Pending(i, token)}

\* The answer of loadMore: appendRows.
ReceivePage ==
  /\ page.stage = "answered"
  /\ LET new == page.pks \ Shown IN
     /\ entries' = AppendRows(page.pks, page.pos)
     /\ overtaken' = overtaken \union ({Key(i) : i \in Missed(page.pos)} \ Shown)
     /\ jumps' = IF entries # <<>> /\ page.cursor = Cursor THEN jumps ELSE jumps \union new
  /\ range' = page.range
  /\ hasMore' = page.hasMore
  /\ page' = NoRequest
  /\ narrowed' = (narrowed \/ page.cursor \notin Shown)
  /\ UNCHANGED <<vars, history, token, pull>>

\* A request or its answer is lost: an error, and nothing else changes.
PullFails == pull # NoRequest /\ pull' = NoRequest /\ UNCHANGED <<vars, history, window, page>>
PageFails == page # NoRequest /\ page' = NoRequest /\ UNCHANGED <<vars, history, window, pull>>

------------------------------------------------------------------------------
WindowInit ==
  /\ Init
  /\ history = <<Initial>>
  /\ entries = <<>>
  /\ range = NoRange
  /\ hasMore = FALSE
  /\ token = NoToken
  /\ pull = NoRequest
  /\ page = NoRequest
  /\ overtaken = {}
  /\ jumps = {}
  /\ narrowed = FALSE

WindowNext ==
  \/ \E k \in Keys, row \in Values \union {NoRow} : Write(k, row)
  \/ Cover
  \/ Restart
  \/ Subscribe
  \/ Poll
  \/ LoadMore
  \/ HandleSubscribe
  \/ HandlePull
  \/ HandleLoadMore
  \/ ReceiveRows
  \/ ReceiveEvents
  \/ ReceivePage
  \/ PullFails
  \/ PageFails

WindowSpec == WindowInit /\ [][WindowNext]_allVars

------------------------------------------------------------------------------
(***************************************************************************)
(* Properties.                                                             *)
(***************************************************************************)
\* Every variable keeps to its type: what is loaded are rows of the source
\* under comparable keys, what is in flight is a request of the protocol.
WindowTypeOK ==
  /\ history \in Seq(Content)
  /\ entries \in Seq([pk : Keys, row : Values])
  /\ range \in PkRange
  /\ hasMore \in BOOLEAN
  /\ token \in Token
  /\ pull \in Request /\ page \in Request
  /\ overtaken \subseteq Keys /\ jumps \subseteq Keys
  /\ narrowed \in BOOLEAN

\* The cursor is accepted, covers every commit, and nothing is left to pull.
Settled ==
  /\ token # NoToken /\ token.epoch = generation[Source]
  /\ covered = 1..Len(commits)
  /\ Delivered(token.snapshot) = {}

\* A settled client shows no row that is gone and no row's old content, except
\* where a page older than the client's cursor was appended after the pull that
\* carried the change (loadMore's answer is not compared with the cursor).
RowsAreCurrent ==
  Settled => \A n \in DOMAIN entries :
    \/ entries[n].pk \in overtaken
    \/ entries[n].row = RowsNow[entries[n].pk] /\ entries[n].row \in Matching

\* A settled client's window has no gap: it shows every row ahead of a row it
\* shows, except those that an out-of-window update, or a page whose cursor row
\* has left the window meanwhile, has jumped over, and late inserts.
WindowIsContiguous ==
  Settled => \A j \in Shown, k \in Result(Now) \ Shown :
    Ahead(k, j) => \/ Late(k) \/ k \in overtaken
                   \/ \E g \in jumps : Ahead(k, g) /\ (g = j \/ Ahead(g, j))

\* When a settled client is told there is no more to load, it shows everything,
\* unless an answer has left out rows behind its range before, or the row was
\* jumped over or inserted late.
NoMoreMeansAll ==
  Settled /\ ~hasMore /\ ~narrowed =>
    \A k \in Result(Now) \ Shown :
      Late(k) \/ k \in overtaken \/ \E g \in jumps : Ahead(k, g)

\* Pages and events that carry the same row show it once, and in the query's
\* order, except around a row that jumped over the window.
EachRowOnceInOrder ==
  \A a, b \in DOMAIN entries :
    a < b => \/ Ahead(entries[a].pk, entries[b].pk)
             \/ /\ entries[a].pk # entries[b].pk
                /\ {entries[a].pk, entries[b].pk} \cap jumps # {}

\* pk-utils.ts:34: "even if range boundaries lag temporarily due to removals,
\* valid prepend inserts are not hidden": the rows ahead of everything that was
\* loaded are shown by a settled client, whatever answers crossed.
PrependsAreShown ==
  Settled => \A k \in Result(Now) \ Shown :
    (\A l \in Keys \ {k} : Used(l) => Ahead(k, l)) => Late(k)

------------------------------------------------------------------------------
(***************************************************************************)
(* The inductive invariant behind these properties.                        *)
(***************************************************************************)
\* Commit i changes the row under k.
Changes(i, k) == RowsAt(i)[k] # RowsAt(i - 1)[k]

\* Commit i took k into the result, out of it, or changed it there.
Touches(i, k) ==
  Changes(i, k) /\ (RowsAt(i)[k] \in Matching \/ RowsAt(i - 1)[k] \in Matching)

\* A commit changes one row, the stream has covered a prefix of the commits,
\* and the events table holds the last of those.
LogInv ==
  /\ commits \in Seq({{Source}})
  /\ Len(history) = Len(commits) + 1
  /\ \A i \in 1..Len(commits) : \E k \in Keys :
       \A l \in Keys : Changes(i, l) <=> l = k
  /\ \E c \in 0..Len(commits) : covered = 1..c
  /\ log \in [Tables -> SUBSET covered]
  /\ \A i \in log[Source], j \in covered : i < j => j \in log[Source]
  /\ generation \in [Tables -> Nat]

UsedBy(i) == {k \in Keys : \E j \in 0..i : RowsAt(j)[k] # NoRow}

\* The keys at or behind one that was used by commit i.
Reached(i) == {k \in Keys : \E l \in UsedBy(i) : ~Ahead(k, l)}

Current(tok) == tok.epoch = generation[Source]

TokenOK(tok) ==
  /\ tok.epoch <= generation[Source]
  /\ Current(tok) => tok.snapshot \in covered \union {0}

RangeKeys(r) == {r.start, r.end} \ {NoPk}
PageKeys     == RangeKeys(page.range) \union page.pks \union ({page.cursor} \ {NoPk})
ClientKeys   == Shown \union RangeKeys(range) \union PageKeys

\* What is in flight, by the stage it has reached.
FlightInv ==
  /\ TokenOK(token) /\ TokenOK(pull.token)
  /\ pull.stage = "none" <=> pull = NoRequest
  /\ pull.stage = "sent" => pull.kind \in {"subscribe", "pull"} /\ pull.pks = {} /\ pull.batch = {}
  /\ pull.stage = "sent" /\ pull.kind = "pull" => pull.token = token
  /\ pull.kind # "page" /\ pull.pos <= Len(commits)
  /\ pull.kind = "pull" => RangeKeys(pull.range) \subseteq Reached(Len(commits))
  /\ ClientKeys \subseteq Reached(Len(commits))
  /\ page.stage = "none" <=> page = NoRequest
  /\ page.stage # "none" => page.cursor \in Keys
  /\ page.pos <= Len(commits)
  /\ page.stage = "sent" => page.pks = {}

\* An answer of rows is the front of the result, and newer than all the client has.
RowsAnswer ==
  pull.stage = "answered" /\ pull.kind \in {"subscribe", "reset"} =>
    /\ pull.pks \subseteq Result(pull.pos) /\ pull.range = Bounds(pull.pks)
    /\ ClientKeys \subseteq Reached(pull.pos)
    /\ Current(pull.token) => \A i \in (pull.pos + 1)..Len(commits) : Pending(i, pull.token)
    /\ \A k \in Result(pull.pos) \ pull.pks :
         /\ \A j \in pull.pks : Ahead(j, k)
         /\ \E l \in UsedBy(pull.pos) : Ahead(l, k)
         /\ pull.hasMore \/ pull.kind = "reset"

\* An answer of events carries what lies between the two cursors.
EventsAnswer ==
  pull.stage = "answered" /\ pull.kind = "pull" =>
    /\ \A i \in pull.batch : i \in 1..Len(commits) /\ Touches(i, Key(i))
    /\ Current(pull.token) =>
         /\ Current(token) /\ token.snapshot <= pull.token.snapshot
         /\ \A i \in pull.batch :
              i \in log[Source] /\ token.snapshot < i /\ i <= pull.token.snapshot

\* A page is the front of what the result had behind the cursor row.
PageAnswer ==
  page.stage = "answered" =>
    /\ page.pks \subseteq {k \in Result(page.pos) : Ahead(page.cursor, k)}
    /\ page.cursor \in Reached(page.pos)
    /\ \A k \in Result(page.pos) \ page.pks :
         Ahead(page.cursor, k) => page.hasMore /\ \A j \in page.pks : Ahead(j, k)

\* Rows are in order up to the first that has jumped, and what follows that
\* has jumped or is in order with the rest.
OrderInv ==
  \A m, n \in DOMAIN entries : m < n =>
    LET a == entries[m].pk b == entries[n].pk IN
    /\ a # b
    /\ b \in Contiguous => Ahead(a, b)
    /\ Ahead(a, b) \/ a \in jumps \/ b \in jumps

\* A loaded row is one the table had, and what changed it since is still to come.
Follows(e) ==
  \E p \in 0..Len(commits) :
    /\ e.row = RowsAt(p)[e.pk] /\ e.row \in Matching
    /\ \A i \in (p + 1)..Len(commits) : Changes(i, e.pk) => Pending(i, token)

RowsInv ==
  Current(token) => \A n \in DOMAIN entries : entries[n].pk \in overtaken \/ Follows(entries[n])

\* k was not in the result, and what has changed it since is still to come; an
\* insert will pass the gate, since no range holds a key newer than commit ground.
Absent(k, ground) ==
  \E p \in 0..Len(commits) :
    /\ RowsAt(p)[k] \notin Matching
    /\ \A i \in (p + 1)..Len(commits) :
         Changes(i, k) => Pending(i, token) /\ (RowsAt(i - 1)[k] = NoRow => i > ground)

Excused(k, j) == \E g \in jumps : Ahead(k, g) /\ (g = j \/ Ahead(g, j))

NotForemost(k) == \E l \in UsedBy(Len(commits)) : Ahead(l, k)

\* k is behind the window, or the window has jumped over it.
Behind(k) ==
  /\ NotForemost(k)
  /\ \A j \in Shown : Ahead(k, j) => Excused(k, j)
  /\ hasMore \/ narrowed \/ \E g \in jumps : Ahead(k, g)

\* k was read before a change that the cursor has left behind.
Passed(k) ==
  /\ NotForemost(k)
  /\ k \in overtaken
  /\ \E i \in covered : Changes(i, k) /\ ~Pending(i, token)

AbsentInv ==
  Current(token) => \E ground \in 0..Len(commits) :
    /\ ClientKeys \subseteq Reached(ground)
    /\ pull.kind = "pull" /\ pull.stage = "sent" => RangeKeys(pull.range) \subseteq Reached(ground)
    /\ pull.kind = "pull" /\ pull.stage = "answered" /\ Current(pull.token) =>
         /\ RangeKeys(pull.range) \subseteq Reached(ground) \union Reached(pull.token.snapshot)
         /\ \A i \in log[Source] \ pull.batch, k \in Keys :
              token.snapshot < i /\ i <= pull.token.snapshot /\ Touches(i, k) =>
                RowsAt(i - 1)[k] = NoRow /\ (i <= ground \/ Late(k))
    /\ \A k \in Keys \ Shown : Late(k) \/ Absent(k, ground) \/ Behind(k) \/ Passed(k)

WindowInv ==
  /\ WindowTypeOK /\ LogInv /\ FlightInv /\ RowsAnswer /\ EventsAnswer /\ PageAnswer
  /\ OrderInv /\ RowsInv /\ AbsentInv
=============================================================================
