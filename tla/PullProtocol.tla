----------------------------- MODULE PullProtocol -----------------------------
(***************************************************************************)
(* One client query over HTTP polling: subscribe and pull of               *)
(* PulseRequestHandler (server/sdk.ts), the cursor token, and the query's  *)
(* side (client/pulse-query.ts, client/create-client.ts), on top of the    *)
(* stream of PulseStream.                                                  *)
(*                                                                         *)
(* A handler is one step per query it awaits; the cursor token is minted   *)
(* in a step of its own, from the runtime's epochs at that moment.  The    *)
(* query has no limit: every matching row is in its window.  PullClient    *)
(* has at most one request in flight.  A pull changes nothing on the       *)
(* server, so a lost request and a lost response are one step.             *)
(***************************************************************************)
EXTENDS SourceRows, FiniteSetsExt

CONSTANT PullEventLimit  \* config `pull.eventLimit`

ASSUME PullProtocolAssumption == PullEventLimit \in Nat /\ PullEnabled

VARIABLES
  rows,      \* the client's merge core: the row under each key, or NoRow
  token,     \* the client's cursor, NoToken: not subscribed
  request    \* the request in flight

client  == <<rows, token, request>>
allVars == <<vars, history, client>>

NoToken == [epoch |-> -1, snapshot |-> 0]

Stages == {"none", "check", "latest", "events", "resetLatest", "rows", "mint", "answered"}

Request ==
  [kind : {"subscribe", "pull"}, stage : Stages,
   since : Nat,               \* the pull's cursor
   next : Nat,                \* the snapshot the answer's token carries
   full : BOOLEAN,            \* the answer carries all rows, not events
   pos : Nat,                 \* the commit those rows were read at
   batch : SUBSET Nat,        \* the commits whose events it carries
   epoch : Int]               \* the answer's minted epoch; the pull's before

NoRequest == [kind |-> "pull", stage |-> "none", since |-> 0, next |-> 0,
              full |-> FALSE, pos |-> 0, batch |-> {}, epoch |-> -1]

\* Every variable keeps to its type: a client's rows are rows of the source, a
\* request only carries what its handler has read.
PullTypeOK ==
  /\ history \in Seq(Content)
  /\ rows \in Content
  /\ token \in [epoch : Int, snapshot : Nat]
  /\ request \in Request

PullInit ==
  /\ SourceInit
  /\ rows = Empty
  /\ token = NoToken
  /\ request = NoRequest

(***************************************************************************)
(* Client requests.                                                        *)
(***************************************************************************)
Send(r) == request' = r /\ UNCHANGED <<vars, history, rows, token>>

\* PulseQuery.subscribe, called by the application.
Subscribe ==
  /\ token = NoToken /\ request = NoRequest
  /\ phase # "stopped"
  /\ Send([NoRequest EXCEPT !.kind = "subscribe", !.stage = "latest", !.full = TRUE])

\* PullClient.pollNow, with the cursor of buildPullEntry.
Poll ==
  /\ token # NoToken /\ request = NoRequest
  /\ phase # "stopped"
  /\ Send([NoRequest EXCEPT !.stage = "check", !.since = token.snapshot,
                            !.epoch = token.epoch])

(***************************************************************************)
(* The handlers.                                                           *)
(***************************************************************************)
Advance(r) == request' = r /\ UNCHANGED <<vars, history, rows, token>>

Mut_CheckEpoch ==
  /\ request.stage = "check"
  /\ Advance([request EXCEPT !.stage = "latest"])

\* pull: a token of another incarnation of the events table resets.
CheckEpoch ==
  /\ request.stage = "check"
  /\ Advance([request EXCEPT !.stage =
       IF request.epoch = eventsEpochs[Source] THEN "latest" ELSE "resetLatest"])

\* getLatestSnapshot
Latest == Max({r.snapshot : r \in events[Source]} \union {0})

\* The three callers of getLatestSnapshot: subscribe and resetOrError go on to
\* the source rows, buildIncrementalResponse to the events if there are newer.
ReadLatest ==
  /\ phase # "stopped"
  /\ request.stage \in {"latest", "resetLatest"}
  /\ Advance(
       IF request.kind = "subscribe" \/ request.stage = "resetLatest"
       THEN [request EXCEPT !.next = Latest, !.full = TRUE, !.stage = "rows"]
       ELSE IF request.since >= Latest
       THEN [request EXCEPT !.next = request.since, !.stage = "mint"]
       ELSE [request EXCEPT !.stage = "events"])

\* The rows of the events query: past the cursor, and a seed row or a change
\* one of whose sides the WHERE admits.
Concerns(i) ==
  \E k \in Keys : /\ RowsAt(i)[k] # RowsAt(i - 1)[k]
                  /\ {RowsAt(i)[k], RowsAt(i - 1)[k]} \cap Matching # {}
Delivered(since) ==
  {r \in events[Source] :
     r.snapshot > since /\ (r.op = "change" => Concerns(r.commit))}

\* An answer that does not fit is cut at the limit, the cursor unmoved.
Mut_ReadEvents ==
  /\ phase # "stopped"
  /\ request.stage = "events"
  /\ LET found == Delivered(request.since) IN
     Advance(
       IF \E r \in found : r.op = "snapshot"
       THEN [request EXCEPT !.stage = "resetLatest"]
       ELSE IF Cardinality(found) > PullEventLimit
       THEN [request EXCEPT !.next = request.since, !.stage = "mint"]
       ELSE [request EXCEPT !.batch = {r.commit : r \in found}, !.stage = "mint",
              !.next = Max({r.snapshot : r \in found} \union {request.since})])

\* buildIncrementalResponse: too many events, or a seed row among them, reset.
ReadEvents ==
  /\ phase # "stopped"
  /\ request.stage = "events"
  /\ LET found == Delivered(request.since) IN
     Advance(
       IF Cardinality(found) > PullEventLimit \/ \E r \in found : r.op = "snapshot"
       THEN [request EXCEPT !.stage = "resetLatest"]
       ELSE [request EXCEPT !.batch = {r.commit : r \in found}, !.stage = "mint",
              !.next = Max({r.snapshot : r \in found} \union {request.since})])

\* The source SELECT of subscribe and of buildResetResponse.
ReadRows ==
  /\ request.stage = "rows"
  /\ Advance([request EXCEPT !.pos = Len(wal), !.stage = "mint"])

\* token()
MintToken ==
  /\ request.stage = "mint"
  /\ Advance([request EXCEPT !.epoch = eventsEpochs[Source], !.stage = "answered"])

(***************************************************************************)
(* The client takes the answer: rebuildFromRows or applyEvents, and the    *)
(* new cursor.  A failed request leaves rows and cursor alone.             *)
(***************************************************************************)
Merge(batch) ==
  LET after[n \in 0..Len(wal)] ==
        IF n = 0 THEN rows
        ELSE IF n \in batch THEN Applied(n, after[n - 1]) ELSE after[n - 1]
  IN  after[Len(wal)]

Receive ==
  /\ request.stage = "answered"
  /\ rows' = IF request.full THEN ViewAt(request.pos) ELSE Merge(request.batch)
  /\ token' = [epoch |-> request.epoch, snapshot |-> request.next]
  /\ request' = NoRequest
  /\ UNCHANGED <<vars, history>>

RequestFails ==
  /\ Fault
  /\ request # NoRequest
  /\ request' = NoRequest
  /\ UNCHANGED <<database, runtime, phase, history, rows, token>>

(***************************************************************************)
(* The source database and the stream.                                     *)
(***************************************************************************)
Write(next) == RowChange(next) /\ UNCHANGED client

StreamProgress ==
  /\ \/ Start({})
     \/ CreateSlot
     \/ RotateAndSeed(SeededBy(slot \div 2))
     \/ AdoptRotation
     \/ ResumeRecreate
     \/ ResumeAdopt({t \in SeededBy(Len(wal)) : events[t] = {}})
     \/ OpenStream
     \/ SkipReplay
     \/ Ingest
     \/ Emit
  /\ UNCHANGED <<history, client>>

StreamFault ==
  /\ SlotLost \/ BackfillFails \/ Disconnect \/ Stop
  /\ UNCHANGED <<history, client>>

Acknowledge == AckArrives /\ UNCHANGED <<history, client>>

\* A new deployment finds another schema: no request of the old one is left.
Redeploy ==
  /\ request = NoRequest
  /\ Start({Source})
  /\ UNCHANGED <<history, client>>

\* The process's requests die with it.
CrashProcess ==
  /\ Crash
  /\ request' = NoRequest
  /\ UNCHANGED <<history, rows, token>>

HandlerProgress ==
  CheckEpoch \/ ReadLatest \/ ReadEvents \/ ReadRows \/ MintToken

PullNext ==
  \/ \E next \in Content : Write(next)
  \/ StreamProgress
  \/ StreamFault
  \/ Acknowledge
  \/ Redeploy
  \/ CrashProcess
  \/ Subscribe
  \/ Poll
  \/ CheckEpoch
  \/ ReadLatest
  \/ ReadEvents
  \/ ReadRows
  \/ MintToken
  \/ Receive
  \/ RequestFails

PullSpec == PullInit /\ [][PullNext]_allVars

\* The timer of a subscribed client polls, requests are answered, the stream
\* progresses.  Nothing subscribes a client whose subscribe has failed.
FairPullSpec ==
  /\ PullSpec
  /\ WF_allVars(StreamProgress)
  /\ WF_allVars(Poll)
  /\ WF_allVars(HandlerProgress)
  /\ WF_allVars(Receive)

------------------------------------------------------------------------------
(***************************************************************************)
(* Properties.                                                             *)
(***************************************************************************)
\* A pull with the client's cursor would neither reset nor deliver anything.
UpToDate ==
  /\ token # NoToken /\ request = NoRequest
  /\ token.epoch = eventsEpochs[Source]
  /\ Delivered(token.snapshot) = {}

\* A client whose cursor is accepted and has nothing left to pull, over a stream
\* that has persisted every commit, shows exactly the query's result: no event
\* is skipped or kept from it by a recreated or rotated events table, a cursor
\* of an earlier incarnation, a reset, the event limit, or the order in which a
\* handler reads the events, the rows and the epoch (subscribe, pull, token).
PullIsExact ==
  UpToDate /\ phase = "streaming" /\ sent = Len(wal) => rows = ViewAt(Len(wal))

\* Once the faults and the writes are over, a client whose subscribe was answered
\* shows the query's result, whatever resets its cursor, and whichever of its pulls
\* are lost, on the way.  (One whose subscribe failed has no timer, and stays
\* without rows unless the application subscribes again.)
ClientCatchesUp == []<>(token # NoToken => rows = ViewAt(Len(wal)))

\* server/cursor.ts:1-3: a cursor "minted before the table was dropped/recreated"
\* is "detectable: the epoch won't match the current one".  A client whose cursor
\* the runtime accepts shows no row that is gone from the table, unless an event
\* is still to come.
StaleTokenDetectable ==
  UpToDate /\ phase = "streaming" /\ sent = Len(wal) =>
    \A k \in Keys : rows[k] # NoRow => RowsAt(Len(wal))[k] # NoRow
------------------------------------------------------------------------------
(***************************************************************************)
(* The inductive invariant behind PullIsExact.                             *)
(***************************************************************************)
\* The source's history is recorded commit by commit, and only commits of the
\* source table are modelled.
HistoryInv ==
  /\ Len(history) = Len(wal) + 1
  /\ \A i \in 1..Len(wal) : wal[i] = {Source}

\* The runtime's epoch of the source is never ahead of the stored one; a process
\* without one serves no request.
EpochsInv ==
  /\ nextSnapshot[Source] >= 1
  /\ eventsEpochs[Source] <= epoch[Source]
  /\ eventsEpochs[Source] = 0 => phase = "stopped" /\ request.stage = "none"

\* A seed row lies past the cursor: pulling with it resets.
ResetAhead(s) == \E r \in events[Source] : r.op = "snapshot" /\ r.snapshot > s

\* Cursor s stands after commit p: the changes it has passed are those up to p,
\* and what the events table does not describe any more lies before it.
StandsAt(s, p) ==
  /\ CommitLsn(p) <= watermark
  /\ \A i \in 1..Len(wal) : CommitLsn(i) <= floor[Source] => i <= p
  /\ \A r \in Changes(Source) : r.snapshot <= s <=> r.commit <= p

\* A cursor that vouches for the client's rows.
GoodCursor(s) ==
  /\ s < nextSnapshot[Source]
  /\ \/ ResetAhead(s)
     \/ \E p, base \in 0..Len(wal) :
          StandsAt(s, p) /\ \A k \in Keys : Follows(rows[k], k, p, base)

\* A token that the next epoch check refuses.
StaleToken(e) ==
  \/ e < eventsEpochs[Source]
  \/ eventsEpochs[Source] = 0 /\ e < epoch[Source]

TokenInv ==
  token # NoToken =>
    /\ 1 <= token.epoch /\ token.epoch <= epoch[Source]
    /\ GoodCursor(token.snapshot) \/ StaleToken(token.epoch)

\* An answer with all rows: they were read after the cursor it carries.
FullAnswer(next, pos) ==
  /\ next < nextSnapshot[Source] /\ pos <= Len(wal)
  /\ \/ ResetAhead(next)
     \/ /\ \A i \in 1..Len(wal) : CommitLsn(i) <= floor[Source] => i <= pos
        /\ \A r \in Changes(Source) : r.snapshot <= next => r.commit <= pos

\* An answer with events: all that concern the query between two cursors.
EventsAnswer(since, next, batch) ==
  /\ since <= next /\ next < nextSnapshot[Source]
  /\ GoodCursor(since)
  /\ \/ ResetAhead(next)
     \/ /\ ~ResetAhead(since)
        /\ batch = {r.commit : r \in {c \in Changes(Source) :
                      c.snapshot > since /\ c.snapshot <= next /\ Concerns(c.commit)}}

\* What a request in flight has established, stage by stage.
RequestInv ==
  LET r == request IN
  /\ r.stage = "none" => r = NoRequest
  /\ r.kind = "subscribe" =>
       r.full /\ r.stage \notin {"check", "events", "resetLatest"}
  /\ r.kind = "pull" /\ r.stage \in {"check", "latest", "events", "resetLatest"} =>
       ~r.full /\ r.batch = {}
  /\ r.stage = "check" =>
       token # NoToken /\ r.since = token.snapshot /\ r.epoch = token.epoch
  /\ r.kind = "pull" /\ r.stage \in {"latest", "events"} => GoodCursor(r.since)
  /\ r.stage = "rows" => r.full /\ r.next < nextSnapshot[Source]
  /\ r.stage \in {"mint", "answered"} =>
       IF r.full THEN FullAnswer(r.next, r.pos) ELSE EventsAnswer(r.since, r.next, r.batch)
  /\ r.stage = "answered" => 1 <= r.epoch /\ r.epoch <= epoch[Source]

\* The inductive invariant: what pulls rest on needs rotations that leave a seed
\* row behind.
PullInv ==
  /\ StreamInv /\ HistoryInv /\ EpochsInv
  /\ OtherRows => TokenInv /\ RequestInv
=============================================================================
