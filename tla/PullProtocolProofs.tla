-------------------------- MODULE PullProtocolProofs --------------------------
(***************************************************************************)
(* Proofs about PullProtocol: its inductive invariant, and the exactness   *)
(* of a client that has nothing left to pull, which follows from it.       *)
(***************************************************************************)
EXTENDS PullProtocol, PulseStreamProofs, SourceRowsProofs, NatLemmas

\* A set of naturals below a bound has its Max.
LEMMA MaxOfBounded ==
  ASSUME NEW S \in SUBSET Nat, S # {}, NEW b \in Nat, \A k \in S : k <= b
  PROVE  Max(S) \in S /\ \A k \in S : k <= Max(S)
<1>1. \E m \in S : \A k \in S : k <= m
  BY GreatestElement
<1>2. \E m \in S : \A k \in S : m >= k
  BY <1>1
<1>3. Max(S) \in S /\ \A k \in S : Max(S) >= k
  BY <1>2 DEF Max
<1> QED BY <1>3

(***************************************************************************)
(* The stream under the client.                                            *)
(***************************************************************************)
\* Every step of the composed system is one of the stream, or a fault that only
\* the client notices.
LEMMA StreamUnderneath ==
  ASSUME [PullNext]_allVars
  PROVE  [Next]_vars \/ (Fault /\ UNCHANGED <<database, runtime, phase>>)
<1>1. ASSUME NEW next \in Content, Write(next) PROVE Next
  <2>1. Commit({Source}) /\ {Source} \in SUBSET Tables
    BY <1>1, SourceAssumption DEF Write, RowChange
  <2> QED BY <2>1 DEF Next
<1>2. CASE StreamProgress
  <2>1. CASE Start({})
    BY <2>1 DEF Next
  <2>2. CASE RotateAndSeed(SeededBy(slot \div 2))
    BY <2>2, SeededTables DEF Next
  <2>3. CASE ResumeAdopt({t \in SeededBy(Len(wal)) : events[t] = {}})
    <3> DEFINE S == {t \in SeededBy(Len(wal)) : events[t] = {}}
    <3>1. S \in SUBSET Tables
      BY SeededTables
    <3>2. ResumeAdopt(S)
      BY <2>3
    <3> HIDE DEF S
    <3> QED BY <3>1, <3>2 DEF Next
  <2>4. CASE Emit
    BY <2>4, PullProtocolAssumption DEF Next, EmitStep
  <2>5. CASE CreateSlot \/ AdoptRotation \/ ResumeRecreate \/ OpenStream \/ SkipReplay
             \/ Ingest
    BY <2>5 DEF Next
  <2> QED BY <1>2, <2>1, <2>2, <2>3, <2>4, <2>5 DEF StreamProgress
<1>3. CASE StreamFault
  BY <1>3 DEF StreamFault, Next
<1>4. CASE Acknowledge
  BY <1>4 DEF Acknowledge, Next
<1>5. CASE Redeploy
  <2>1. Start({Source}) /\ {Source} \in SUBSET Tables
    BY <1>5, SourceAssumption DEF Redeploy
  <2> QED BY <2>1 DEF Next
<1>6. CASE CrashProcess
  BY <1>6 DEF CrashProcess, Next
<1>7. CASE Subscribe \/ Poll \/ CheckEpoch \/ ReadLatest \/ ReadEvents \/ ReadRows
           \/ MintToken \/ Receive
  BY <1>7 DEF Subscribe, Poll, CheckEpoch, ReadLatest, ReadEvents, ReadRows, MintToken,
              Receive, Send, Advance
<1>8. CASE RequestFails
  BY <1>8 DEF RequestFails
<1>9. CASE UNCHANGED allVars
  BY <1>9 DEF allVars
<1> QED
  BY <1>1, <1>2, <1>3, <1>4, <1>5, <1>6, <1>7, <1>8, <1>9 DEF PullNext

\* The stream's invariant holds under the client.
LEMMA StreamKept ==
  TypeOK /\ StreamInv /\ [PullNext]_allVars => TypeOK' /\ StreamInv'
BY StreamUnderneath, TypeStep, StreamInvStep, FaultKeepsStream

(***************************************************************************)
(* Merging a batch of events.                                              *)
(***************************************************************************)
\* A batch is merged one commit at a time.
LEMMA MergeSteps ==
  ASSUME Len(wal) \in Nat, rows \in Content, NEW batch
  PROVE  \E after \in [0..Len(wal) -> Content] :
           /\ after[0] = rows
           /\ \A n \in 1..Len(wal) :
                after[n] = IF n \in batch THEN Applied(n, after[n - 1]) ELSE after[n - 1]
           /\ Merge(batch) = after[Len(wal)]
<1> DEFINE Next1(n, c) == IF n \in batch THEN Applied(n, c) ELSE c
           Takes == [n \in 1..Len(wal) |-> [c \in Content |-> Next1(n, c)]]
           Merging(g) == g = [n \in 0..Len(wal) |->
                               IF n = 0 THEN rows
                               ELSE IF n \in batch THEN Applied(n, g[n - 1])
                               ELSE g[n - 1]]
<1>1. Takes \in [1..Len(wal) -> [Content -> Content]]
  BY AppliedContent
<1>2. PICK f \in [0..Len(wal) -> Content] :
        f[0] = rows /\ \A i \in 1..Len(wal) : f[i] = Takes[i][f[i - 1]]
  <2> HIDE DEF Takes
  <2> QED BY <1>1, IterationExists
<1>3. ASSUME NEW n \in 1..Len(wal)
      PROVE  f[n - 1] \in Content /\ f[n] = Next1(n, f[n - 1])
  <2>1. n - 1 \in 0..Len(wal) /\ f[n] = Takes[n][f[n - 1]]
    BY <1>2
  <2> QED BY <2>1
<1>4. Merging(f)
  BY <1>2, <1>3
<1> DEFINE after == CHOOSE g : Merging(g)
<1>5. Merging(after)
  <2> HIDE DEF Merging
  <2> QED BY <1>4
<1>6. Merge(batch) = after[Len(wal)]
  BY DEF Merge
<1> HIDE DEF after
<1>7. after[0] = rows /\ \A n \in 1..Len(wal) : after[n] = Next1(n, after[n - 1])
  <2>1. 0 \in 0..Len(wal)
    OBVIOUS
  <2>2. after[0] = rows
    BY <1>5, <2>1
  <2>3. ASSUME NEW n \in 1..Len(wal) PROVE after[n] = Next1(n, after[n - 1])
    <3>1. n \in 0..Len(wal) /\ n # 0
      OBVIOUS
    <3> QED BY <1>5, <3>1
  <2> QED BY <2>2, <2>3
<1>8. after \in [0..Len(wal) -> Content]
  <2> DEFINE S == {n \in 0..Len(wal) : after[n] \in Content}
  <2>1. 0 \in S
    BY <1>7
  <2>2. ASSUME NEW n \in (0 + 1)..Len(wal), n - 1 \in S PROVE n \in S
    <3>1. after[n] = Next1(n, after[n - 1]) /\ after[n - 1] \in Content
      BY <1>7, <2>2
    <3>2. Next1(n, after[n - 1]) \in Content
      BY <3>1, AppliedContent
    <3> QED BY <3>1, <3>2
  <2>3. 0..Len(wal) \subseteq S
    <3>1. \A n \in (0 + 1)..Len(wal) : n - 1 \in S => n \in S
      BY <2>2
    <3>2. 0 \in Int /\ Len(wal) \in Int /\ 0 <= Len(wal)
      OBVIOUS
    <3> HIDE DEF S
    <3> QED BY <2>1, <3>1, <3>2, RangeInduction
  <2>4. \A n \in 0..Len(wal) : after[n] \in Content
    BY <2>3
  <2> QED BY <1>5, <2>4
<1> QED BY <1>6, <1>7, <1>8

\* A merged batch is a content.
LEMMA MergeContent ==
  ASSUME Len(wal) \in Nat, rows \in Content, NEW batch
  PROVE  Merge(batch) \in Content
<1>1. Len(wal) \in 0..Len(wal)
  OBVIOUS
<1> QED BY <1>1, MergeSteps

(***************************************************************************)
(* Types.                                                                  *)
(***************************************************************************)
\* getLatestSnapshot returns a snapshot that was drawn, at or above all visible.
LEMMA LatestBounds ==
  ASSUME TypeOK, IdentityInv
  PROVE  /\ Latest \in Nat
         /\ Latest = 0 \/ Latest < nextSnapshot[Source]
         /\ \A r \in events[Source] : r.snapshot <= Latest
<1> DEFINE S == {r.snapshot : r \in events[Source]} \union {0}
<1>1. events[Source] \subseteq Row /\ nextSnapshot[Source] \in Nat
  BY SourceAssumption DEF TypeOK
<1>2. S \in SUBSET Nat /\ 0 \in S
  BY <1>1 DEF Row
<1>3. \A r \in events[Source] : r.snapshot < nextSnapshot[Source]
  BY SourceAssumption DEF IdentityInv
<1>4. \A k \in S : k <= nextSnapshot[Source]
  BY <1>1, <1>3 DEF Row
<1>5. Max(S) \in S /\ \A k \in S : k <= Max(S)
  <2> HIDE DEF S
  <2> QED BY <1>1, <1>2, <1>4, MaxOfBounded
<1> DEFINE m == Max(S)
<1>6. m \in Nat /\ m \in S /\ (\A k \in S : k <= m) /\ Latest = m
  BY <1>2, <1>5 DEF Latest
<1> HIDE DEF m
<1>7. m = 0 \/ \E r \in events[Source] : m = r.snapshot
  BY <1>6
<1>8. m = 0 \/ m < nextSnapshot[Source]
  BY <1>3, <1>7
<1>9. \A r \in events[Source] : r.snapshot <= m
  BY <1>6
<1> QED BY <1>6, <1>8, <1>9

\* What the events query returns is a set of rows whose snapshots were drawn, and
\* the cursor of the answer is one of them, or the client's, and above them all.
NextCursor(since) ==
  Max({r.snapshot : r \in Delivered(since)} \union {since})

LEMMA NextCursorBounds ==
  ASSUME TypeOK, IdentityInv, NEW since \in Nat
  PROVE  /\ NextCursor(since) \in Nat /\ since <= NextCursor(since)
         /\ NextCursor(since) = since \/ NextCursor(since) < nextSnapshot[Source]
         /\ \A r \in Delivered(since) : r.snapshot <= NextCursor(since)
<1> DEFINE S == {r.snapshot : r \in Delivered(since)} \union {since}
<1>1. events[Source] \subseteq Row /\ nextSnapshot[Source] \in Nat
  BY SourceAssumption DEF TypeOK
<1>0. Delivered(since) \subseteq events[Source]
  BY DEF Delivered
<1>2. S \in SUBSET Nat /\ since \in S
  BY <1>0, <1>1 DEF Row
<1>3. \A r \in events[Source] : r.snapshot < nextSnapshot[Source]
  BY SourceAssumption DEF IdentityInv
<1>4. \A k \in S : k <= nextSnapshot[Source] + since
  BY <1>0, <1>1, <1>3 DEF Row
<1>5. Max(S) \in S /\ \A k \in S : k <= Max(S)
  <2>1. nextSnapshot[Source] + since \in Nat /\ S # {}
    BY <1>1, <1>2
  <2> HIDE DEF S
  <2> QED BY <1>2, <1>4, <2>1, MaxOfBounded
<1>6. NextCursor(since) = Max(S)
  BY DEF NextCursor
<1> DEFINE m == Max(S)
<1>7. m \in Nat /\ m \in S /\ (\A k \in S : k <= m) /\ NextCursor(since) = m
  BY <1>2, <1>5, <1>6
<1> HIDE DEF m
<1>8. m = since \/ \E r \in Delivered(since) : m = r.snapshot
  BY <1>7
<1>9. m = since \/ m < nextSnapshot[Source]
  BY <1>0, <1>3, <1>8
<1>10. since <= m /\ \A r \in Delivered(since) : r.snapshot <= m
  BY <1>7
<1> QED BY <1>7, <1>9, <1>10

\* The fields of a request, one by one.
LEMMA RequestFields ==
  ASSUME PullTypeOK
  PROVE  /\ request.kind \in {"subscribe", "pull"} /\ request.stage \in Stages
         /\ request.since \in Nat /\ request.next \in Nat /\ request.full \in BOOLEAN
         /\ request.pos \in Nat /\ request.batch \in SUBSET Nat /\ request.epoch \in Int
BY DEF PullTypeOK, Request

\* No request is a request.
LEMMA NoRequestType ==
  /\ NoRequest \in Request
  /\ NoRequest.kind = "pull" /\ NoRequest.stage = "none" /\ NoRequest.full = FALSE
  /\ NoRequest.batch = {}
BY DEF NoRequest, Request, Stages

LEMMA PullTypeInit == PullInit => PullTypeOK
<1> SUFFICES ASSUME PullInit PROVE PullTypeOK
  OBVIOUS
<1>1. history \in Seq(Content)
  BY EmptyContent DEF PullInit, SourceInit
<1>2. token \in [epoch : Int, snapshot : Nat]
  BY DEF PullInit, NoToken
<1> QED BY <1>1, <1>2, EmptyContent, NoRequestType DEF PullInit, PullTypeOK

\* What a step of the client or of a handler leaves alone.
RequestFrame == UNCHANGED <<vars, history, rows, token>>

\* A request is sent.
LEMMA SentRequest ==
  ASSUME PullTypeOK, Subscribe \/ Poll
  PROVE  /\ RequestFrame /\ request = NoRequest /\ phase # "stopped"
         /\ request' \in Request
         /\ request'.next = 0 /\ request'.batch = {}
         /\ \/ /\ token = NoToken
               /\ request'.kind = "subscribe" /\ request'.stage = "latest"
               /\ request'.full = TRUE
            \/ /\ token # NoToken
               /\ request'.kind = "pull" /\ request'.stage = "check"
               /\ request'.full = FALSE
               /\ request'.since = token.snapshot /\ request'.epoch = token.epoch
<1>1. CASE Subscribe
  BY <1>1, NoRequestType DEF Subscribe, Send, RequestFrame, Request, Stages, NoRequest
<1>2. CASE Poll
  <2>1. token.snapshot \in Nat /\ token.epoch \in Int
    BY DEF PullTypeOK
  <2> QED BY <1>2, <2>1, NoRequestType
          DEF Poll, Send, RequestFrame, Request, Stages, NoRequest
<1> QED BY <1>1, <1>2

\* The epoch check.
LEMMA CheckedRequest ==
  ASSUME PullTypeOK, CheckEpoch
  PROVE  /\ RequestFrame /\ request.stage = "check" /\ request' \in Request
         /\ request' = [request EXCEPT !.stage = request'.stage]
         /\ \/ request'.stage = "latest" /\ request.epoch = eventsEpochs[Source]
            \/ request'.stage = "resetLatest"
<1>1. request \in Request
  BY DEF PullTypeOK
<1> QED BY <1>1 DEF CheckEpoch, Advance, RequestFrame, Request, Stages

\* The latest snapshot has been read.
LEMMA LatestRequest ==
  ASSUME TypeOK, IdentityInv, PullTypeOK, ReadLatest
  PROVE  /\ RequestFrame /\ request.stage \in {"latest", "resetLatest"}
         /\ request' \in Request
         /\ \/ request' = [request EXCEPT !.next = Latest, !.full = TRUE, !.stage = "rows"]
            \/ /\ request.kind = "pull" /\ request.stage = "latest"
               /\ request' = [request EXCEPT !.next = request.since, !.stage = "mint"]
            \/ /\ request.kind = "pull" /\ request.stage = "latest"
               /\ request' = [request EXCEPT !.stage = "events"]
<1>1. request \in Request /\ Latest \in Nat
  BY LatestBounds DEF PullTypeOK
<1>2. request.kind \in {"subscribe", "pull"}
  BY RequestFields
<1>3. RequestFrame /\ request.stage \in {"latest", "resetLatest"}
  BY DEF ReadLatest, Advance, RequestFrame
<1>4. \/ request' = [request EXCEPT !.next = Latest, !.full = TRUE, !.stage = "rows"]
      \/ /\ request.kind = "pull" /\ request.stage = "latest"
         /\ request' = [request EXCEPT !.next = request.since, !.stage = "mint"]
      \/ /\ request.kind = "pull" /\ request.stage = "latest"
         /\ request' = [request EXCEPT !.stage = "events"]
  BY <1>2 DEF ReadLatest, Advance
<1>5. request' \in Request
  BY <1>1, <1>4 DEF Request, Stages
<1> QED BY <1>3, <1>4, <1>5

\* The events have been read.
LEMMA EventsRequest ==
  ASSUME TypeOK, IdentityInv, PullTypeOK, ReadEvents
  PROVE  /\ RequestFrame /\ request.stage = "events" /\ request' \in Request
         /\ \/ request' = [request EXCEPT !.stage = "resetLatest"]
            \/ /\ \A r \in Delivered(request.since) : r.op # "snapshot"
               /\ request' = [request EXCEPT
                    !.batch = {r.commit : r \in Delivered(request.since)},
                    !.stage = "mint", !.next = NextCursor(request.since)]
<1>1. request \in Request /\ request.since \in Nat
  BY RequestFields DEF PullTypeOK
<1>2. NextCursor(request.since) \in Nat
  BY <1>1, NextCursorBounds
<1>3. {r.commit : r \in Delivered(request.since)} \in SUBSET Nat
  <2>1. events[Source] \subseteq Row
    BY SourceAssumption DEF TypeOK
  <2> QED BY <2>1 DEF Delivered, Row
<1>4. RequestFrame /\ request.stage = "events"
  BY DEF ReadEvents, Advance, RequestFrame
<1>5. \/ request' = [request EXCEPT !.stage = "resetLatest"]
      \/ /\ \A r \in Delivered(request.since) : r.op # "snapshot"
         /\ request' = [request EXCEPT
              !.batch = {r.commit : r \in Delivered(request.since)},
              !.stage = "mint", !.next = NextCursor(request.since)]
  BY DEF ReadEvents, Advance, NextCursor
<1>6. request' \in Request
  <2> DEFINE batch == {r.commit : r \in Delivered(request.since)}
  <2>1. batch \in SUBSET Nat
    BY <1>3
  <2>2. \/ request' = [request EXCEPT !.stage = "resetLatest"]
        \/ request' = [request EXCEPT !.batch = batch, !.stage = "mint",
                                      !.next = NextCursor(request.since)]
    BY <1>5
  <2> HIDE DEF batch
  <2> QED BY <1>1, <1>2, <2>1, <2>2 DEF Request, Stages
<1> QED BY <1>4, <1>5, <1>6

\* The rows have been read, or the epoch.
LEMMA RowsRequest ==
  ASSUME TypeOK, PullTypeOK, ReadRows
  PROVE  /\ RequestFrame /\ request.stage = "rows" /\ request' \in Request
         /\ request' = [request EXCEPT !.pos = Len(wal), !.stage = "mint"]
<1>1. request \in Request /\ Len(wal) \in Nat
  BY DEF PullTypeOK, TypeOK
<1> QED BY <1>1 DEF ReadRows, Advance, RequestFrame, Request, Stages

LEMMA MintedRequest ==
  ASSUME TypeOK, PullTypeOK, MintToken
  PROVE  /\ RequestFrame /\ request.stage = "mint" /\ request' \in Request
         /\ request' = [request EXCEPT !.epoch = eventsEpochs[Source],
                                       !.stage = "answered"]
<1>1. request \in Request /\ eventsEpochs[Source] \in Int
  BY SourceAssumption DEF PullTypeOK, TypeOK
<1> QED BY <1>1 DEF MintToken, Advance, RequestFrame, Request, Stages

\* Steps of the source and the stream leave the client alone, or lose its request.
LEMMA ClientKept ==
  ASSUME [PullNext]_allVars
  PROVE  \/ Subscribe \/ Poll \/ CheckEpoch \/ ReadLatest \/ ReadEvents \/ ReadRows
         \/ MintToken \/ Receive
         \/ /\ UNCHANGED <<rows, token>> /\ request' \in {request, NoRequest}
            /\ (\E next \in Content : history' = Append(history, next)) \/ UNCHANGED history
<1>1. ASSUME NEW next \in Content, Write(next)
      PROVE  /\ UNCHANGED <<rows, token>> /\ request' \in {request, NoRequest}
             /\ \E n \in Content : history' = Append(history, n)
  BY <1>1 DEF Write, RowChange, client
<1>2. CASE StreamProgress \/ StreamFault \/ Acknowledge \/ Redeploy
  BY <1>2 DEF StreamProgress, StreamFault, Acknowledge, Redeploy, client
<1>3. CASE CrashProcess \/ RequestFails
  BY <1>3 DEF CrashProcess, RequestFails
<1>4. CASE UNCHANGED allVars
  BY <1>4 DEF allVars, client
<1> QED BY <1>1, <1>2, <1>3, <1>4 DEF PullNext

\* Every step keeps the client's variables in their types.
LEMMA PullTypeStep ==
  TypeOK /\ IdentityInv /\ PullTypeOK /\ [PullNext]_allVars => PullTypeOK'
<1> SUFFICES ASSUME TypeOK, IdentityInv, PullTypeOK, [PullNext]_allVars
             PROVE  PullTypeOK'
  OBVIOUS
<1>1. ASSUME RequestFrame, request' \in Request PROVE PullTypeOK'
  BY <1>1 DEF PullTypeOK, RequestFrame
<1>2. CASE Subscribe \/ Poll
  BY <1>1, <1>2, SentRequest
<1>3. CASE CheckEpoch
  BY <1>1, <1>3, CheckedRequest
<1>4. CASE ReadLatest
  BY <1>1, <1>4, LatestRequest
<1>5. CASE ReadEvents
  BY <1>1, <1>5, EventsRequest
<1>6. CASE ReadRows
  BY <1>1, <1>6, RowsRequest
<1>7. CASE MintToken
  BY <1>1, <1>7, MintedRequest
<1>8. CASE Receive
  <2>1. rows' \in Content
    <3>1. Len(wal) \in Nat /\ rows \in Content
      BY DEF TypeOK, PullTypeOK
    <3>2. Merge(request.batch) \in Content
      BY <3>1, MergeContent
    <3> QED BY <1>8, <3>2, ViewContent DEF Receive
  <2>2. token' \in [epoch : Int, snapshot : Nat]
    BY <1>8, RequestFields DEF Receive
  <2>3. request' \in Request
    BY <1>8, NoRequestType DEF Receive
  <2>4. history' \in Seq(Content)
    BY <1>8 DEF Receive, PullTypeOK
  <2> QED BY <2>1, <2>2, <2>3, <2>4 DEF PullTypeOK
<1>9. CASE /\ UNCHANGED <<rows, token>> /\ request' \in {request, NoRequest}
           /\ (\E next \in Content : history' = Append(history, next))
                \/ UNCHANGED history
  <2>1. history' \in Seq(Content)
    BY <1>9 DEF PullTypeOK
  <2> QED BY <1>9, <2>1, NoRequestType DEF PullTypeOK
<1> QED BY <1>2, <1>3, <1>4, <1>5, <1>6, <1>7, <1>8, <1>9, ClientKept

\* The stream's invariant, under the client.
THEOREM StreamUnderPull == PullSpec => [](TypeOK /\ StreamInv)
<1>1. PullInit => TypeOK /\ StreamInv
  BY TypeInit, StreamInit DEF PullInit, SourceInit
<1> QED BY <1>1, StreamKept, PTL DEF PullSpec

\* The client, its cursor and its request keep to their types.
THEOREM PullTypeCorrect == PullSpec => []PullTypeOK
<1>1. StreamInv => IdentityInv
  BY DEF StreamInv
<1> QED BY <1>1, PullTypeInit, PullTypeStep, StreamUnderPull, PTL DEF PullSpec

(***************************************************************************)
(* The history and the epochs.                                             *)
(***************************************************************************)
\* What the data of a pull rests on.
SafeInv == TypeOK /\ StreamInv /\ PullTypeOK /\ HistoryInv /\ EpochsInv

\* Only a write extends the source's history.
LEMMA HistoryKept ==
  ASSUME [PullNext]_allVars
  PROVE  (\E next \in Content : Write(next)) \/ UNCHANGED <<wal, history>>
<1> USE DEF database, vars
<1>1. CASE StreamProgress
  BY <1>1 DEF StreamProgress, Start, CreateSlot, RotateAndSeed, AdoptRotation,
              ResumeRecreate, ResumeAdopt, OpenStream, SkipReplay, Ingest, Emit
<1>2. CASE StreamFault \/ Acknowledge \/ Redeploy \/ CrashProcess
  BY <1>2 DEF StreamFault, SlotLost, BackfillFails, Disconnect, Stop, Acknowledge,
              AckArrives, Redeploy, Start, CrashProcess, Crash
<1>3. CASE Subscribe \/ Poll \/ CheckEpoch \/ ReadLatest \/ ReadEvents \/ ReadRows
           \/ MintToken \/ Receive \/ RequestFails
  BY <1>3 DEF Subscribe, Poll, CheckEpoch, ReadLatest, ReadEvents, ReadRows, MintToken,
              Receive, RequestFails, Send, Advance
<1>4. CASE UNCHANGED allVars
  BY <1>4 DEF allVars
<1> QED BY <1>1, <1>2, <1>3, <1>4 DEF PullNext

\* What a write does to the history.
LEMMA HistoryExtended ==
  ASSUME TypeOK, PullTypeOK, HistoryInv, NEW next \in Content, Write(next)
  PROVE  /\ UNCHANGED <<client, slot, events, nextSnapshot, epoch, watermark, floor,
                        runtime, phase>>
         /\ Len(wal) \in Nat /\ Len(wal') = Len(wal) + 1 /\ Len(history') = Len(history) + 1
         /\ \A i \in 1..Len(wal) : wal'[i] = wal[i]
         /\ wal'[Len(wal) + 1] = {Source}
         /\ \A i \in 1..Len(history) : history'[i] = history[i]
<1>1. wal' = Append(wal, {Source}) /\ wal \in Seq(SUBSET Tables)
  BY DEF Write, RowChange, Commit, TypeOK
<1>2. history' = Append(history, next) /\ history \in Seq(Content)
  BY DEF Write, RowChange, PullTypeOK
<1>3. UNCHANGED <<client, slot, events, nextSnapshot, epoch, watermark, floor,
                  runtime, phase>>
  BY DEF Write, RowChange, Commit
<1>4. {Source} \in SUBSET Tables
  BY SourceAssumption
<1>5. /\ Len(wal) \in Nat /\ Len(wal') = Len(wal) + 1
      /\ \A i \in 1..Len(wal) : wal'[i] = wal[i]
      /\ wal'[Len(wal) + 1] = {Source}
  BY <1>1, <1>4
<1>6. /\ Len(history') = Len(history) + 1
      /\ \A i \in 1..Len(history) : history'[i] = history[i]
  BY <1>2
<1> QED BY <1>3, <1>5, <1>6

LEMMA HistoryStep ==
  ASSUME TypeOK, PullTypeOK, HistoryInv, [PullNext]_allVars
  PROVE  HistoryInv'
<1>1. ASSUME NEW next \in Content, Write(next) PROVE HistoryInv'
  <2>1. /\ Len(wal) \in Nat /\ Len(wal') = Len(wal) + 1
        /\ Len(history') = Len(history) + 1
        /\ \A i \in 1..Len(wal) : wal'[i] = wal[i]
        /\ wal'[Len(wal) + 1] = {Source}
    BY <1>1, HistoryExtended
  <2> QED BY <2>1 DEF HistoryInv
<1>2. CASE UNCHANGED <<wal, history>>
  BY <1>2 DEF HistoryInv
<1> QED BY <1>1, <1>2, HistoryKept

\* Steps of the stream keep EpochsInv; the epochs are only ever those stored.
LEMMA EpochsStep ==
  ASSUME TypeOK, PullTypeOK, EpochsInv, [PullNext]_allVars
  PROVE  EpochsInv'
<1>t. /\ nextSnapshot[Source] \in Nat /\ epoch[Source] \in Nat
      /\ eventsEpochs[Source] \in Nat /\ Source \in Tables
  BY SourceAssumption DEF TypeOK
<1>1. ASSUME UNCHANGED <<nextSnapshot, epoch, eventsEpochs>>,
             phase' = "stopped" => phase = "stopped" \/ eventsEpochs[Source] # 0,
             eventsEpochs[Source] = 0 => phase' = "stopped" /\ request'.stage = "none"
      PROVE  EpochsInv'
  BY <1>1 DEF EpochsInv
<1>2. ASSUME NEW S \in SUBSET Tables, Start(S), UNCHANGED request PROVE EpochsInv'
  <2> DEFINE recreated == S \union {t \in Tables : epoch[t] = 0}
  <2>1. /\ nextSnapshot' = [t \in Tables |-> IF t \in recreated THEN 1
                                             ELSE nextSnapshot[t]]
        /\ epoch' = Rotated(recreated) /\ eventsEpochs' = epoch'
    BY <1>2, PullProtocolAssumption DEF Start
  <2>2. epoch'[Source] = IF Source \in recreated THEN epoch[Source] + 1 ELSE epoch[Source]
    BY <1>t, <2>1 DEF Rotated
  <2>3. /\ epoch'[Source] \in Nat /\ epoch'[Source] >= 1
        /\ nextSnapshot'[Source] \in Nat /\ nextSnapshot'[Source] >= 1
    BY <1>t, <2>1, <2>2 DEF EpochsInv
  <2> QED BY <1>t, <2>1, <2>3 DEF EpochsInv
<1>3. ASSUME NEW S \in SUBSET Tables, RotateAndSeed(S), UNCHANGED request
      PROVE  EpochsInv'
  <2>1. /\ epoch'[Source] = epoch[Source] + 1
        /\ nextSnapshot'[Source] \in Nat /\ nextSnapshot'[Source] >= nextSnapshot[Source]
    BY <1>3, <1>t DEF RotateAndSeed, Rotated, Drawn
  <2>2. UNCHANGED eventsEpochs /\ phase # "stopped"
    BY <1>3 DEF RotateAndSeed, runtime
  <2>3. eventsEpochs[Source] # 0
    BY <2>2 DEF EpochsInv
  <2> QED BY <1>t, <2>1, <2>2, <2>3 DEF EpochsInv
<1>4. ASSUME NEW S \in SUBSET Tables, ResumeAdopt(S), UNCHANGED request
      PROVE  EpochsInv'
  <2>1. nextSnapshot'[Source] \in Nat /\ nextSnapshot'[Source] >= nextSnapshot[Source]
    BY <1>4, <1>t DEF ResumeAdopt, Drawn
  <2>2. UNCHANGED <<epoch, eventsEpochs>> /\ phase # "stopped"
    BY <1>4 DEF ResumeAdopt
  <2>3. eventsEpochs[Source] # 0
    BY <2>2 DEF EpochsInv
  <2> QED BY <1>t, <2>1, <2>2, <2>3, <1>4 DEF EpochsInv
<1>5. CASE AdoptRotation /\ UNCHANGED request
  <2>1. /\ eventsEpochs' = epoch /\ UNCHANGED <<epoch, nextSnapshot>>
        /\ phase # "stopped"
    BY <1>5 DEF AdoptRotation, database
  <2>2. eventsEpochs[Source] # 0
    BY <2>1 DEF EpochsInv
  <2> QED BY <1>t, <2>1, <2>2 DEF EpochsInv
<1>6. CASE Ingest /\ UNCHANGED request
  <2>1. nextSnapshot'[Source] \in Nat /\ nextSnapshot'[Source] >= nextSnapshot[Source]
    BY <1>6, <1>t DEF Ingest, Drawn
  <2>2. UNCHANGED <<epoch, eventsEpochs>> /\ phase # "stopped"
    BY <1>6 DEF Ingest, runtime
  <2>3. eventsEpochs[Source] # 0
    BY <2>2 DEF EpochsInv
  <2> QED BY <1>t, <2>1, <2>2, <2>3, <1>6 DEF EpochsInv
<1>7. CASE StreamProgress
  <2>1. UNCHANGED request
    BY <1>7 DEF StreamProgress, client
  <2>2. CASE Start({})
    BY <1>2, <2>1, <2>2
  <2>3. CASE RotateAndSeed(SeededBy(slot \div 2))
    BY <1>3, <2>1, <2>3, SeededTables
  <2>4. CASE ResumeAdopt({t \in SeededBy(Len(wal)) : events[t] = {}})
    <3> DEFINE S == {t \in SeededBy(Len(wal)) : events[t] = {}}
    <3>1. S \in SUBSET Tables /\ ResumeAdopt(S)
      BY <2>4, SeededTables
    <3> HIDE DEF S
    <3> QED BY <1>4, <2>1, <3>1
  <2>5. CASE CreateSlot \/ ResumeRecreate \/ OpenStream \/ SkipReplay \/ Emit
    <3>1. UNCHANGED <<nextSnapshot, epoch, eventsEpochs>> /\ phase # "stopped"
      BY <2>5 DEF CreateSlot, ResumeRecreate, OpenStream, SkipReplay, Emit, database,
                  runtime
    <3>2. eventsEpochs[Source] # 0
      BY <3>1 DEF EpochsInv
    <3> QED BY <1>1, <3>1, <3>2
  <2> QED BY <1>5, <1>6, <1>7, <2>1, <2>2, <2>3, <2>4, <2>5 DEF StreamProgress
<1>8. CASE StreamFault \/ Acknowledge
  <2>1. UNCHANGED <<nextSnapshot, epoch, eventsEpochs, request>>
    BY <1>8 DEF StreamFault, SlotLost, BackfillFails, Disconnect, Stop, Acknowledge,
                AckArrives, runtime, client
  <2>2. phase # "stopped" \/ phase' = phase
    BY <1>8 DEF StreamFault, SlotLost, BackfillFails, Disconnect, Stop, Acknowledge,
                AckArrives
  <2> QED BY <2>1, <2>2 DEF EpochsInv
<1>9. CASE Redeploy
  <2>1. {Source} \in SUBSET Tables /\ Start({Source}) /\ UNCHANGED request
    BY <1>9, SourceAssumption DEF Redeploy, client
  <2> QED BY <1>2, <2>1
<1>10. CASE CrashProcess
  <2>1. /\ UNCHANGED <<nextSnapshot, epoch>> /\ phase' = "stopped"
        /\ request' = NoRequest /\ eventsEpochs'[Source] = 0
    BY <1>10, <1>t DEF CrashProcess, Crash
  <2> QED BY <1>t, <2>1, NoRequestType DEF EpochsInv
<1>11. ASSUME UNCHANGED <<vars, history>>, phase # "stopped" \/ request.stage # "none"
              \/ request'.stage = request.stage \/ request' = NoRequest
       PROVE  EpochsInv'
  BY <1>11, NoRequestType DEF EpochsInv, vars, database, runtime
<1>12. CASE Subscribe \/ Poll
  BY <1>11, <1>12, SentRequest DEF RequestFrame
<1>13. CASE CheckEpoch \/ ReadLatest \/ ReadEvents \/ ReadRows \/ MintToken \/ Receive
  <2>1. UNCHANGED <<vars, history>> /\ request.stage # "none"
    BY <1>13 DEF CheckEpoch, ReadLatest, ReadEvents, ReadRows, MintToken, Receive, Advance
  <2> QED BY <1>11, <2>1
<1>14. CASE RequestFails
  BY <1>14, NoRequestType DEF RequestFails, EpochsInv, database, runtime
<1>15. CASE UNCHANGED allVars
  BY <1>11, <1>15 DEF allVars, client
<1>16. ASSUME NEW next \in Content, Write(next) PROVE EpochsInv'
  <2>1. UNCHANGED <<nextSnapshot, epoch, eventsEpochs, phase, request>>
    BY <1>16 DEF Write, RowChange, Commit, runtime, client
  <2> QED BY <2>1 DEF EpochsInv
<1> QED
  BY <1>7, <1>8, <1>9, <1>10, <1>12, <1>13, <1>14, <1>15, <1>16 DEF PullNext

\* The part of the invariant that needs nothing of the seeded rows.
THEOREM PullSafeInvariant == PullSpec => []SafeInv
<1>1. PullInit => HistoryInv /\ EpochsInv
  <2> SUFFICES ASSUME PullInit PROVE HistoryInv /\ EpochsInv
    OBVIOUS
  <2>1. Len(wal) = 0 /\ Len(history) = 1
    BY DEF PullInit, SourceInit, Init
  <2>2. /\ nextSnapshot[Source] = 1 /\ eventsEpochs[Source] = 0 /\ epoch[Source] = 0
        /\ phase = "stopped" /\ request.stage = "none"
    BY SourceAssumption, NoRequestType DEF PullInit, SourceInit, Init
  <2> QED BY <2>1, <2>2 DEF HistoryInv, EpochsInv
<1>2. TypeOK /\ PullTypeOK /\ HistoryInv /\ EpochsInv /\ [PullNext]_allVars
        => HistoryInv' /\ EpochsInv'
  BY HistoryStep, EpochsStep
<1>3. PullSpec => [](HistoryInv /\ EpochsInv)
  BY <1>1, <1>2, StreamUnderPull, PullTypeCorrect, PTL DEF PullSpec
<1>4. TypeOK /\ StreamInv /\ PullTypeOK /\ HistoryInv /\ EpochsInv => SafeInv
  BY DEF SafeInv
<1> QED BY <1>3, <1>4, StreamUnderPull, PullTypeCorrect, PTL

(***************************************************************************)
(* What the stream does under a cursor.                                    *)
(***************************************************************************)
\* A step after which every cursor stands where it stood, or has a seed row ahead.
CursorsKept ==
  /\ watermark <= watermark' /\ Len(wal') \in Nat /\ Len(wal) <= Len(wal')
  /\ \A i \in 1..Len(history) : history'[i] = history[i]
  /\ nextSnapshot'[Source] \in Nat /\ nextSnapshot[Source] <= nextSnapshot'[Source]
  /\ \/ \E r \in events'[Source] :
          r.op = "snapshot" /\ r.snapshot >= nextSnapshot[Source]
     \/ /\ floor'[Source] = floor[Source]
        /\ \A i \in 1..Len(wal') : CommitLsn(i) <= floor[Source] => i <= Len(wal)
        /\ events[Source] \subseteq events'[Source]
        /\ \A r \in events'[Source] \ events[Source] :
             /\ r.op = "change" /\ r.snapshot >= nextSnapshot[Source]
             /\ watermark < CommitLsn(r.commit)

\* The types of what a cursor is compared with.
LEMMA SourceTypes ==
  ASSUME TypeOK
  PROVE  /\ Source \in Tables /\ Len(wal) \in Nat /\ watermark \in Int /\ slot \in Int
         /\ sent \in Nat /\ lastPersisted \in Int
         /\ nextSnapshot[Source] \in Nat /\ floor[Source] \in Int
         /\ epoch[Source] \in Nat /\ eventsEpochs[Source] \in Nat
         /\ \A r \in events[Source] : r.snapshot \in Nat /\ r.commit \in Nat
BY SourceAssumption DEF TypeOK, Row

\* Nothing a cursor depends on changes.
LEMMA CursorsQuiet ==
  ASSUME TypeOK, UNCHANGED <<wal, history, watermark>>,
         nextSnapshot'[Source] = nextSnapshot[Source],
         events'[Source] = events[Source], floor'[Source] = floor[Source]
  PROVE  CursorsKept
BY SourceTypes DEF CursorsKept

\* A commit lies past every position there is.
LEMMA CursorsAfterWrite ==
  ASSUME TypeOK, StreamInv, PullTypeOK, HistoryInv, NEW next \in Content, Write(next)
  PROVE  CursorsKept
<1>1. /\ UNCHANGED <<events, nextSnapshot, watermark, floor>>
      /\ Len(wal') = Len(wal) + 1
      /\ \A i \in 1..Len(history) : history'[i] = history[i]
  BY HistoryExtended
<1>2. floor[Source] <= watermark /\ watermark <= 2 * Len(wal)
  BY SourceAssumption DEF StreamInv, PositionInv, EndLsn
<1>3. \A i \in 1..Len(wal') : CommitLsn(i) <= floor[Source] => i <= Len(wal)
  BY <1>1, <1>2, SourceTypes DEF CommitLsn
<1> QED BY <1>1, <1>3, SourceTypes DEF CursorsKept

\* A rotation leaves a seed row past every cursor.
LEMMA CursorsAfterRotation ==
  ASSUME TypeOK, StreamInv, NEW S \in SUBSET Tables, Source \in S, RotateAndSeed(S),
         UNCHANGED history
  PROVE  CursorsKept
<1>1. watermark <= slot
  BY DEF StreamInv, SessionInv, RotateAndSeed
<1>2. watermark' = slot /\ UNCHANGED wal
  BY DEF RotateAndSeed, consistentPoint
<1>3. events'[Source] = {SeedRow(Source)} /\ nextSnapshot'[Source] = nextSnapshot[Source] + 1
  BY SourceAssumption DEF RotateAndSeed, Drawn
<1>4. /\ SeedRow(Source) \in events'[Source] /\ SeedRow(Source).op = "snapshot"
      /\ SeedRow(Source).snapshot = nextSnapshot[Source]
  BY <1>3 DEF SeedRow
<1>5. \E r \in events'[Source] : r.op = "snapshot" /\ r.snapshot >= nextSnapshot[Source]
  BY <1>4, SourceTypes
<1> QED BY <1>1, <1>2, <1>3, <1>5, SourceTypes DEF CursorsKept

\* A resume seeds an empty table, past every cursor, or leaves it alone.
LEMMA CursorsAfterResume ==
  ASSUME TypeOK, NEW S \in SUBSET Tables, ResumeAdopt(S), UNCHANGED history
  PROVE  CursorsKept
<1>1. UNCHANGED <<wal, watermark, floor>>
  BY DEF ResumeAdopt
<1>2. CASE Source \in S
  <2>1. /\ events'[Source] = {SeedRow(Source)}
        /\ nextSnapshot'[Source] = nextSnapshot[Source] + 1
    BY <1>2, SourceAssumption DEF ResumeAdopt, Drawn
  <2>2. /\ SeedRow(Source) \in events'[Source] /\ SeedRow(Source).op = "snapshot"
        /\ SeedRow(Source).snapshot = nextSnapshot[Source]
    BY <2>1 DEF SeedRow
  <2>3. \E r \in events'[Source] : r.op = "snapshot" /\ r.snapshot >= nextSnapshot[Source]
    BY <2>2, SourceTypes
  <2> QED BY <1>1, <2>1, <2>3, SourceTypes DEF CursorsKept
<1>3. CASE Source \notin S
  <2>1. /\ events'[Source] = events[Source]
        /\ nextSnapshot'[Source] = nextSnapshot[Source]
    BY <1>3, SourceAssumption DEF ResumeAdopt, Drawn
  <2> QED BY <1>1, <2>1, CursorsQuiet
<1> QED BY <1>2, <1>3

\* An ingest adds one change, past every cursor and every covered commit.
LEMMA CursorsAfterIngest ==
  ASSUME TypeOK, StreamInv, HistoryInv, Ingest, UNCHANGED history
  PROVE  CursorsKept
<1>1. UNCHANGED <<wal, floor>> /\ watermark' = CommitLsn(sent + 1)
  BY DEF Ingest
<1>2. sent + 1 \in 1..Len(wal)
  BY SourceTypes DEF Ingest
<1>3. watermark < CommitLsn(sent + 1)
  <2>1. lastPersisted = watermark
    BY DEF Ingest, StreamInv, SessionInv
  <2> QED BY <2>1, SourceTypes DEF Ingest, IsReplay, NoLsn, CommitLsn
<1>4. Source \in wal[sent + 1]
  BY <1>2 DEF HistoryInv
<1>5. /\ events'[Source] = events[Source] \union {ChangeRow(Source, sent + 1)}
      /\ nextSnapshot'[Source] = nextSnapshot[Source] + 1
  BY <1>4, SourceAssumption DEF Ingest, Ingested, Drawn
<1>6. /\ ChangeRow(Source, sent + 1).op = "change"
      /\ ChangeRow(Source, sent + 1).snapshot = nextSnapshot[Source]
      /\ ChangeRow(Source, sent + 1).commit = sent + 1
  BY DEF ChangeRow
<1>7. \A r \in events'[Source] \ events[Source] :
         /\ r.op = "change" /\ r.snapshot >= nextSnapshot[Source]
         /\ watermark < CommitLsn(r.commit)
  BY <1>3, <1>5, <1>6, SourceTypes
<1>8. watermark <= watermark'
  BY <1>1, <1>3, SourceTypes DEF CommitLsn
<1> QED BY <1>1, <1>5, <1>7, <1>8, SourceTypes DEF CursorsKept

\* A process that starts finds the table as it was, unless it recreates it.
LEMMA CursorsAfterStart ==
  ASSUME TypeOK, NEW S \in SUBSET Tables, Start(S), UNCHANGED history,
         Source \notin S, epoch[Source] # 0
  PROVE  /\ CursorsKept /\ UNCHANGED wal
         /\ epoch'[Source] = epoch[Source] /\ eventsEpochs'[Source] = epoch[Source]
<1> DEFINE recreated == IF PullEnabled
                        THEN S \union {t \in Tables : epoch[t] = 0} ELSE {}
<1>1. Source \in Tables /\ Source \notin recreated
  BY SourceAssumption
<1>2. /\ UNCHANGED <<wal, watermark>> /\ epoch' = Rotated(recreated)
      /\ eventsEpochs' = epoch'
      /\ events' = [t \in Tables |-> IF t \in recreated THEN {} ELSE events[t]]
      /\ nextSnapshot' =
           [t \in Tables |-> IF t \in recreated THEN 1 ELSE nextSnapshot[t]]
      /\ floor' = [t \in Tables |-> IF t \in recreated THEN watermark ELSE floor[t]]
  BY DEF Start
<1> HIDE DEF recreated
<1>3. /\ events'[Source] = events[Source] /\ nextSnapshot'[Source] = nextSnapshot[Source]
      /\ floor'[Source] = floor[Source] /\ epoch'[Source] = epoch[Source]
  BY <1>1, <1>2 DEF Rotated
<1> QED BY <1>2, <1>3, CursorsQuiet

\* Every step keeps the cursors, unless it recreates the events table.
Recreates == Redeploy \/ (Start({}) /\ epoch[Source] = 0)

LEMMA CursorsStep ==
  ASSUME SafeInv, OtherRows, [PullNext]_allVars
  PROVE  CursorsKept \/ Recreates
<1> USE DEF SafeInv
<1>1. ASSUME NEW next \in Content, Write(next) PROVE CursorsKept
  BY <1>1, CursorsAfterWrite
<1>2. ASSUME UNCHANGED <<wal, history, watermark, nextSnapshot, events, floor>>
      PROVE  CursorsKept
  BY <1>2, CursorsQuiet
<1>3. CASE StreamProgress
  <2>1. UNCHANGED history
    BY <1>3 DEF StreamProgress
  <2>2. CASE Start({}) /\ epoch[Source] # 0
    <3>1. {} \in SUBSET Tables /\ Source \notin {}
      OBVIOUS
    <3> QED BY <2>1, <2>2, <3>1, CursorsAfterStart
  <2>3. CASE RotateAndSeed(SeededBy(slot \div 2))
    <3>1. Source \in SeededBy(slot \div 2)
      BY DEF SeededBy
    <3> QED BY <2>1, <2>3, <3>1, SeededTables, CursorsAfterRotation
  <2>4. CASE ResumeAdopt({t \in SeededBy(Len(wal)) : events[t] = {}})
    <3> DEFINE S == {t \in SeededBy(Len(wal)) : events[t] = {}}
    <3>1. S \in SUBSET Tables /\ ResumeAdopt(S)
      BY <2>4, SeededTables
    <3> HIDE DEF S
    <3> QED BY <2>1, <3>1, CursorsAfterResume
  <2>5. CASE Ingest
    BY <2>1, <2>5, CursorsAfterIngest
  <2>6. CASE CreateSlot \/ AdoptRotation \/ ResumeRecreate \/ OpenStream \/ SkipReplay
             \/ Emit
    <3>1. UNCHANGED <<wal, watermark, nextSnapshot, events, floor>>
      BY <2>6 DEF CreateSlot, AdoptRotation, ResumeRecreate, OpenStream, SkipReplay, Emit,
                  database
    <3> QED BY <1>2, <2>1, <3>1
  <2> QED BY <1>3, <2>2, <2>3, <2>4, <2>5, <2>6 DEF StreamProgress, Recreates
<1>4. CASE StreamFault \/ Acknowledge \/ CrashProcess
  <2>1. UNCHANGED <<wal, history, watermark, nextSnapshot, events, floor>>
    BY <1>4 DEF StreamFault, SlotLost, BackfillFails, Disconnect, Stop, Acknowledge,
                AckArrives, CrashProcess, Crash
  <2> QED BY <1>2, <2>1
<1>5. CASE Subscribe \/ Poll \/ CheckEpoch \/ ReadLatest \/ ReadEvents \/ ReadRows
           \/ MintToken \/ Receive \/ RequestFails
  <2>1. UNCHANGED <<wal, history, watermark, nextSnapshot, events, floor>>
    BY <1>5 DEF Subscribe, Poll, CheckEpoch, ReadLatest, ReadEvents, ReadRows, MintToken,
                Receive, RequestFails, Send, Advance, vars, database
  <2> QED BY <1>2, <2>1
<1>6. CASE UNCHANGED allVars
  <2>1. UNCHANGED <<wal, history, watermark, nextSnapshot, events, floor>>
    BY <1>6 DEF allVars, vars, database
  <2> QED BY <1>2, <2>1
<1> QED BY <1>1, <1>3, <1>4, <1>5, <1>6 DEF PullNext, Recreates

(***************************************************************************)
(* A cursor, and an answer, over a step that keeps the cursors.            *)
(***************************************************************************)
\* The source's past stays as it was.
LEMMA PastKept ==
  ASSUME TypeOK, HistoryInv, CursorsKept, NEW i \in 0..Len(wal)
  PROVE  RowsAt(i)' = RowsAt(i) /\ ViewAt(i)' = ViewAt(i)
<1>1. i + 1 \in 1..Len(history)
  BY SourceTypes DEF HistoryInv
<1>2. history'[i + 1] = history[i + 1]
  BY <1>1 DEF CursorsKept
<1> QED BY <1>2 DEF RowsAt, ViewAt

LEMMA FollowsKept ==
  ASSUME TypeOK, HistoryInv, CursorsKept, NEW p \in 0..Len(wal), NEW base \in 0..Len(wal),
         NEW k \in Keys, UNCHANGED rows, Follows(rows[k], k, p, base)
  PROVE  Follows(rows[k], k, p, base)'
<1>1. ViewAt(p)' = ViewAt(p) /\ ViewAt(base)' = ViewAt(base)
  BY PastKept
<1> QED BY <1>1 DEF Follows

\* What a table's changes describe of the source's past.
LEMMA ChangesFacts ==
  ASSUME SafeInv
  PROVE  /\ \A r \in Changes(Source) :
              /\ r \in events[Source] /\ r.snapshot \in Nat /\ r.commit \in 1..Len(wal)
              /\ floor[Source] < CommitLsn(r.commit) /\ CommitLsn(r.commit) <= watermark
         /\ \A i \in 1..Len(wal) :
              floor[Source] < CommitLsn(i) /\ CommitLsn(i) <= watermark =>
                \E r \in Changes(Source) : r.commit = i
         /\ \A r, s \in Changes(Source) : r.commit < s.commit <=> r.snapshot < s.snapshot
         /\ \A r \in events[Source] : r.snapshot < nextSnapshot[Source]
<1>1. Source \in Tables /\ LogIsExact /\ IdentityInv
  BY SourceAssumption DEF SafeInv, StreamInv
<1>2. \A r \in Changes(Source) : r.commit \in 1..Len(wal) /\ InScope(Source, r.commit)
  BY <1>1 DEF LogIsExact
<1>3. \A r \in Changes(Source) : r \in events[Source] /\ r.snapshot \in Nat
  BY SourceTypes DEF Changes, SafeInv
<1>4. \A i \in 1..Len(wal) : InScope(Source, i) => \E r \in Changes(Source) : r.commit = i
  BY <1>1 DEF LogIsExact
<1>5. \A i \in 1..Len(wal) : floor[Source] < CommitLsn(i) /\ CommitLsn(i) <= watermark
                               => InScope(Source, i)
  BY DEF InScope, SafeInv, HistoryInv
<1>6. \A r, s \in Changes(Source) : r.commit < s.commit <=> r.snapshot < s.snapshot
  BY <1>1 DEF LogIsExact
<1>7. \A r \in events[Source] : r.snapshot < nextSnapshot[Source]
  BY <1>1 DEF IdentityInv
<1> QED BY <1>2, <1>3, <1>4, <1>5, <1>6, <1>7 DEF InScope

\* Either every cursor has a seed row ahead, or the step kept all that is known of
\* a cursor below the identity counter.
LEMMA SeededOrGrown ==
  ASSUME SafeInv, TypeOK', CursorsKept
  PROVE  \/ \A s \in Nat : s < nextSnapshot[Source] => ResetAhead(s)'
         \/ /\ floor'[Source] = floor[Source]
            /\ \A i \in 1..Len(wal') : CommitLsn(i) <= floor[Source] => i <= Len(wal)
            /\ \A s \in Nat : s < nextSnapshot[Source] => (ResetAhead(s)' <=> ResetAhead(s))
            /\ Changes(Source) \subseteq Changes(Source)'
            /\ \A r \in Changes(Source)' \ Changes(Source) :
                 r.snapshot >= nextSnapshot[Source] /\ watermark < CommitLsn(r.commit)
<1>t. nextSnapshot[Source] \in Nat
  BY SourceTypes DEF SafeInv
<1>1. CASE \E r \in events'[Source] :
             r.op = "snapshot" /\ r.snapshot >= nextSnapshot[Source]
  <2>1. PICK r \in events'[Source] : r.op = "snapshot" /\ r.snapshot >= nextSnapshot[Source]
    BY <1>1
  <2>2. r.snapshot \in Nat
    BY <2>1, SourceAssumption DEF TypeOK, Row
  <2>3. ASSUME NEW s \in Nat, s < nextSnapshot[Source] PROVE ResetAhead(s)'
    <3>1. r.snapshot > s
      BY <1>t, <2>1, <2>2, <2>3
    <3> QED BY <2>1, <3>1 DEF ResetAhead
  <2> QED BY <2>3
<1>2. CASE /\ floor'[Source] = floor[Source]
           /\ \A i \in 1..Len(wal') : CommitLsn(i) <= floor[Source] => i <= Len(wal)
           /\ events[Source] \subseteq events'[Source]
           /\ \A r \in events'[Source] \ events[Source] :
                /\ r.op = "change" /\ r.snapshot >= nextSnapshot[Source]
                /\ watermark < CommitLsn(r.commit)
  <2>1. \A s \in Nat : ResetAhead(s)' <=> ResetAhead(s)
    BY <1>2 DEF ResetAhead
  <2>2. /\ Changes(Source) \subseteq Changes(Source)'
        /\ \A r \in Changes(Source)' \ Changes(Source) :
             r.snapshot >= nextSnapshot[Source] /\ watermark < CommitLsn(r.commit)
    BY <1>2 DEF Changes
  <2> QED BY <1>2, <2>1, <2>2
<1> QED BY <1>1, <1>2 DEF CursorsKept

\* A cursor that vouches for the client's rows goes on doing so.
LEMMA GoodCursorKept ==
  ASSUME SafeInv, TypeOK', CursorsKept, UNCHANGED rows, NEW s \in Nat, GoodCursor(s)
  PROVE  GoodCursor(s)'
<1>t. /\ nextSnapshot[Source] \in Nat /\ Len(wal) \in Nat /\ watermark \in Int
      /\ TypeOK /\ HistoryInv
  BY SourceTypes DEF SafeInv
<1>1. s < nextSnapshot[Source] /\ s < nextSnapshot'[Source]
  BY <1>t DEF GoodCursor, CursorsKept
<1>2. CASE ResetAhead(s)'
  BY <1>1, <1>2 DEF GoodCursor
<1>3. CASE ~ResetAhead(s)'
  <2>1. /\ floor'[Source] = floor[Source]
        /\ \A i \in 1..Len(wal') : CommitLsn(i) <= floor[Source] => i <= Len(wal)
        /\ ~ResetAhead(s)
        /\ Changes(Source) \subseteq Changes(Source)'
        /\ \A r \in Changes(Source)' \ Changes(Source) :
             r.snapshot >= nextSnapshot[Source] /\ watermark < CommitLsn(r.commit)
    BY <1>1, <1>3, SeededOrGrown
  <2>2. PICK p \in 0..Len(wal), base \in 0..Len(wal) :
          StandsAt(s, p) /\ \A k \in Keys : Follows(rows[k], k, p, base)
    BY <2>1 DEF GoodCursor
  <2>3. p \in 0..Len(wal') /\ base \in 0..Len(wal')
    BY <1>t DEF CursorsKept
  <2>4. StandsAt(s, p)'
    <3>1. CommitLsn(p) <= watermark'
      <4>1. CommitLsn(p) <= watermark /\ watermark <= watermark'
        BY <2>2 DEF StandsAt, CursorsKept
      <4>2. watermark' \in Int /\ CommitLsn(p) \in Int
        BY DEF TypeOK, CommitLsn
      <4> QED BY <1>t, <4>1, <4>2
    <3>2. \A i \in 1..Len(wal') : CommitLsn(i) <= floor'[Source] => i <= p
      BY <1>t, <2>1, <2>2 DEF StandsAt
    <3>3. ASSUME NEW r \in Changes(Source)', r \notin Changes(Source)
          PROVE  ~(r.snapshot <= s) /\ ~(r.commit <= p)
      <4>1. r.snapshot >= nextSnapshot[Source] /\ watermark < CommitLsn(r.commit)
        BY <2>1, <3>3
      <4>2. r.snapshot \in Nat /\ r.commit \in Nat
        BY <3>3, SourceAssumption DEF Changes, TypeOK, Row
      <4>3. CommitLsn(p) <= watermark
        BY <2>2 DEF StandsAt
      <4> QED BY <1>t, <1>1, <4>1, <4>2, <4>3 DEF CommitLsn
    <3>4. \A r \in Changes(Source) : r.snapshot <= s <=> r.commit <= p
      BY <2>2 DEF StandsAt
    <3>5. \A r \in Changes(Source)' : r.snapshot <= s <=> r.commit <= p
      BY <3>3, <3>4
    <3> QED BY <3>1, <3>2, <3>5 DEF StandsAt
  <2>5. \A k \in Keys : Follows(rows[k], k, p, base)'
    BY <1>t, <2>2, FollowsKept
  <2> QED BY <1>1, <2>3, <2>4, <2>5 DEF GoodCursor
<1> QED BY <1>2, <1>3

\* An answer with all rows stays read after the cursor it carries.
LEMMA FullAnswerKept ==
  ASSUME SafeInv, TypeOK', CursorsKept, NEW next \in Nat, NEW pos \in Nat,
         FullAnswer(next, pos)
  PROVE  FullAnswer(next, pos)'
<1>t. nextSnapshot[Source] \in Nat /\ Len(wal) \in Nat
  BY SourceTypes DEF SafeInv
<1>1. next < nextSnapshot[Source] /\ next < nextSnapshot'[Source] /\ pos <= Len(wal')
  BY <1>t DEF FullAnswer, CursorsKept
<1>2. CASE ResetAhead(next)'
  BY <1>1, <1>2 DEF FullAnswer
<1>3. CASE ~ResetAhead(next)'
  <2>1. /\ floor'[Source] = floor[Source]
        /\ \A i \in 1..Len(wal') : CommitLsn(i) <= floor[Source] => i <= Len(wal)
        /\ ~ResetAhead(next)
        /\ \A r \in Changes(Source)' \ Changes(Source) :
             r.snapshot >= nextSnapshot[Source]
    BY <1>1, <1>3, SeededOrGrown
  <2>2. /\ \A i \in 1..Len(wal) : CommitLsn(i) <= floor[Source] => i <= pos
        /\ \A r \in Changes(Source) : r.snapshot <= next => r.commit <= pos
    BY <2>1 DEF FullAnswer
  <2>3. ASSUME NEW r \in Changes(Source)', r \notin Changes(Source)
        PROVE  ~(r.snapshot <= next)
    <3>1. r.snapshot \in Nat /\ r.snapshot >= nextSnapshot[Source]
      BY <2>1, <2>3, SourceAssumption DEF Changes, TypeOK, Row
    <3> QED BY <1>t, <1>1, <3>1
  <2>4. /\ \A i \in 1..Len(wal') : CommitLsn(i) <= floor'[Source] => i <= pos
        /\ \A r \in Changes(Source)' : r.snapshot <= next => r.commit <= pos
    BY <1>t, <2>1, <2>2, <2>3
  <2> QED BY <1>1, <2>4 DEF FullAnswer
<1> QED BY <1>2, <1>3

\* Whether a commit concerns the query does not change.
LEMMA ConcernsKept ==
  ASSUME TypeOK, HistoryInv, CursorsKept, NEW i \in 1..Len(wal)
  PROVE  Concerns(i)' <=> Concerns(i)
<1>1. i \in 0..Len(wal) /\ i - 1 \in 0..Len(wal)
  BY SourceTypes
<1>2. RowsAt(i)' = RowsAt(i) /\ RowsAt(i - 1)' = RowsAt(i - 1)
  BY <1>1, PastKept
<1> QED BY <1>2 DEF Concerns

\* The commits whose events an answer between two cursors has to carry.
Due(since, next) ==
  {r.commit : r \in {c \in Changes(Source) :
     c.snapshot > since /\ c.snapshot <= next /\ Concerns(c.commit)}}

\* An answer with events stays complete.
LEMMA EventsAnswerKept ==
  ASSUME SafeInv, TypeOK', CursorsKept, UNCHANGED rows, NEW since \in Nat,
         NEW next \in Nat, NEW batch, EventsAnswer(since, next, batch)
  PROVE  EventsAnswer(since, next, batch)'
<1>t. nextSnapshot[Source] \in Nat /\ TypeOK /\ HistoryInv
  BY SourceTypes DEF SafeInv
<1>1. /\ since <= next /\ since < nextSnapshot[Source]
      /\ next < nextSnapshot[Source] /\ next < nextSnapshot'[Source]
  BY <1>t DEF EventsAnswer, CursorsKept
<1>2. GoodCursor(since)'
  BY GoodCursorKept DEF EventsAnswer
<1>3. CASE ResetAhead(next)'
  BY <1>1, <1>2, <1>3 DEF EventsAnswer
<1>4. CASE ~ResetAhead(next)'
  <2>1. /\ ~ResetAhead(next) /\ (ResetAhead(since)' <=> ResetAhead(since))
        /\ Changes(Source) \subseteq Changes(Source)'
        /\ \A r \in Changes(Source)' \ Changes(Source) :
             r.snapshot >= nextSnapshot[Source]
    BY <1>1, <1>4, SeededOrGrown
  <2>2. ~ResetAhead(since)' /\ batch = Due(since, next)
    BY <2>1 DEF EventsAnswer, Due
  <2>3. ASSUME NEW r \in Changes(Source)', r \notin Changes(Source)
        PROVE  ~(r.snapshot <= next)
    <3>1. r.snapshot \in Nat /\ r.snapshot >= nextSnapshot[Source]
      BY <2>1, <2>3, SourceAssumption DEF Changes, TypeOK, Row
    <3> QED BY <1>t, <1>1, <3>1
  <2>4. \A r \in Changes(Source) : Concerns(r.commit)' <=> Concerns(r.commit)
    BY <1>t, ChangesFacts, ConcernsKept
  <2>5. Due(since, next)' = Due(since, next)
    BY <2>1, <2>3, <2>4 DEF Due
  <2> QED BY <1>1, <1>2, <2>2, <2>5 DEF EventsAnswer, Due
<1> QED BY <1>3, <1>4

(***************************************************************************)
(* What a client makes of an answer.                                       *)
(***************************************************************************)
\* Every cursor stands after some commit, no later than any that bounds what it has
\* passed.
LEMMA StandingPosition ==
  ASSUME SafeInv, NEW s \in Nat, NEW pos \in 0..Len(wal),
         \A i \in 1..Len(wal) : CommitLsn(i) <= floor[Source] => i <= pos,
         \A r \in Changes(Source) : r.snapshot <= s => r.commit <= pos
  PROVE  \E p \in 0..pos : StandsAt(s, p)
<1>t. /\ Len(wal) \in Nat /\ watermark \in Int /\ floor[Source] \in Int
      /\ floor[Source] <= watermark /\ watermark >= -1
  BY SourceTypes DEF SafeInv, StreamInv, PositionInv, NoLsn
<1> DEFINE Bounds == {p \in Nat : /\ \A i \in 1..Len(wal) : CommitLsn(i) <= floor[Source] => i <= p
                                  /\ \A r \in Changes(Source) : r.snapshot <= s => r.commit <= p}
<1>1. pos \in Bounds
  OBVIOUS
<1>2. PICK p \in Bounds : \A b \in Bounds : p <= b
  <2>1. Bounds \in SUBSET Nat /\ Bounds # {}
    BY <1>1
  <2> HIDE DEF Bounds
  <2> QED BY <2>1, LeastElement
<1>3. p \in 0..pos
  <2>1. p \in Nat /\ p <= pos
    BY <1>1, <1>2
  <2> QED BY <2>1
<1>4. \/ p = 0
      \/ p \in 1..Len(wal) /\ CommitLsn(p) <= floor[Source]
      \/ \E r \in Changes(Source) : r.snapshot <= s /\ r.commit = p
  <2> SUFFICES ASSUME p # 0, ~(p \in 1..Len(wal) /\ CommitLsn(p) <= floor[Source]),
                      ~\E r \in Changes(Source) : r.snapshot <= s /\ r.commit = p
               PROVE  FALSE
    OBVIOUS
  <2>1. p - 1 \in Nat
    BY <1>3
  <2>2. \A i \in 1..Len(wal) : CommitLsn(i) <= floor[Source] => i <= p - 1
    <3> SUFFICES ASSUME NEW i \in 1..Len(wal), CommitLsn(i) <= floor[Source]
                 PROVE  i <= p - 1
      OBVIOUS
    <3>1. i <= p /\ i # p
      BY <1>2
    <3> QED BY <1>3, <3>1
  <2>3. \A r \in Changes(Source) : r.snapshot <= s => r.commit <= p - 1
    <3> SUFFICES ASSUME NEW r \in Changes(Source), r.snapshot <= s
                 PROVE  r.commit <= p - 1
      OBVIOUS
    <3>1. r.commit <= p /\ r.commit # p
      BY <1>2
    <3>2. r.commit \in 1..Len(wal)
      BY ChangesFacts
    <3> QED BY <1>3, <3>1, <3>2
  <2>4. p - 1 \in Bounds
    BY <2>1, <2>2, <2>3
  <2>5. p <= p - 1
    BY <1>2, <2>4
  <2> QED BY <1>3, <2>5
<1>5. CommitLsn(p) <= watermark
  <2>1. CASE p = 0
    BY <1>t, <2>1 DEF CommitLsn
  <2>2. CASE p \in 1..Len(wal) /\ CommitLsn(p) <= floor[Source]
    BY <1>t, <2>2 DEF CommitLsn
  <2>3. CASE \E r \in Changes(Source) : r.snapshot <= s /\ r.commit = p
    BY <2>3, ChangesFacts
  <2> QED BY <1>4, <2>1, <2>2, <2>3
<1>6. ASSUME NEW r \in Changes(Source), r.commit <= p PROVE r.snapshot <= s
  <2>1. /\ r.commit \in 1..Len(wal) /\ floor[Source] < CommitLsn(r.commit)
        /\ r.snapshot \in Nat
    BY ChangesFacts
  <2>2. CASE p = 0
    BY <1>6, <2>1, <2>2
  <2>3. CASE p \in 1..Len(wal) /\ CommitLsn(p) <= floor[Source]
    BY <1>t, <1>6, <2>1, <2>3 DEF CommitLsn
  <2>4. CASE \E q \in Changes(Source) : q.snapshot <= s /\ q.commit = p
    <3>1. PICK q \in Changes(Source) : q.snapshot <= s /\ q.commit = p
      BY <2>4
    <3>2. q.commit < r.commit <=> q.snapshot < r.snapshot
      BY ChangesFacts
    <3>3. q.commit \in 1..Len(wal) /\ q.snapshot \in Nat
      BY ChangesFacts
    <3> QED BY <1>6, <2>1, <3>1, <3>2, <3>3
  <2> QED BY <1>4, <2>2, <2>3, <2>4
<1>7. StandsAt(s, p)
  BY <1>2, <1>5, <1>6 DEF StandsAt
<1> QED BY <1>3, <1>7

\* A cursor that has passed more stands no earlier.
LEMMA StandsInOrder ==
  ASSUME SafeInv, NEW s \in Nat, NEW u \in Nat, s <= u,
         NEW p \in 0..Len(wal), NEW q \in 0..Len(wal), StandsAt(s, p), StandsAt(u, q)
  PROVE  p <= q
<1>t. Len(wal) \in Nat /\ watermark \in Int /\ floor[Source] \in Int
  BY SourceTypes DEF SafeInv
<1>1. CASE p = 0
  BY <1>1
<1>2. CASE p # 0 /\ CommitLsn(p) <= floor[Source]
  BY <1>2 DEF StandsAt
<1>3. CASE p # 0 /\ ~(CommitLsn(p) <= floor[Source])
  <2>1. p \in 1..Len(wal) /\ floor[Source] < CommitLsn(p) /\ CommitLsn(p) <= watermark
    BY <1>t, <1>3 DEF StandsAt, CommitLsn
  <2>2. PICK r \in Changes(Source) : r.commit = p
    BY <2>1, ChangesFacts
  <2>3. r.snapshot <= s /\ r.snapshot \in Nat
    BY <2>2, ChangesFacts DEF StandsAt
  <2>4. r.snapshot <= u
    BY <2>3
  <2> QED BY <2>2, <2>4 DEF StandsAt
<1> QED BY <1>1, <1>2, <1>3

\* The rows of an answer with all rows are those of its cursor's commit, or later.
LEMMA FullIsGood ==
  ASSUME SafeInv, NEW next \in Nat, NEW pos \in Nat, FullAnswer(next, pos)
  PROVE  \/ ResetAhead(next)
         \/ \E p, base \in 0..Len(wal) :
              StandsAt(next, p) /\ \A k \in Keys : Follows(ViewAt(pos)[k], k, p, base)
<1> SUFFICES ASSUME ~ResetAhead(next)
             PROVE  \E p, base \in 0..Len(wal) :
                      StandsAt(next, p) /\ \A k \in Keys : Follows(ViewAt(pos)[k], k, p, base)
  OBVIOUS
<1>1. Len(wal) \in Nat /\ pos \in 0..Len(wal)
  BY SourceTypes DEF SafeInv, FullAnswer
<1>2. PICK p \in 0..pos : StandsAt(next, p)
  BY <1>1, StandingPosition DEF FullAnswer
<1>3. \A k \in Keys : Follows(ViewAt(pos)[k], k, p, pos)
  <2>1. pos <= p => p = pos
    BY <1>2
  <2> QED BY <2>1 DEF Follows
<1>4. p \in 0..Len(wal)
  BY <1>1, <1>2
<1> QED BY <1>1, <1>2, <1>3, <1>4

\* A commit that does not concern the query leaves its result alone.
LEMMA UnconcernedKeepsView ==
  ASSUME NEW n, ~Concerns(n), NEW k \in Keys
  PROVE  ViewAt(n)[k] = ViewAt(n - 1)[k]
<1>1. RowsAt(n)[k] = RowsAt(n - 1)[k]
      \/ (RowsAt(n)[k] \notin Matching /\ RowsAt(n - 1)[k] \notin Matching)
  BY DEF Concerns
<1> QED BY <1>1 DEF ViewAt, Shown

\* A row that follows the table still does after a commit that does not concern it.
LEMMA FollowsUnconcerned ==
  ASSUME NEW n \in Nat \ {0}, ~Concerns(n), NEW k \in Keys, NEW base \in Nat, NEW row,
         Follows(row, k, n - 1, base)
  PROVE  Follows(row, k, n, base)
<1>1. ViewAt(n)[k] = ViewAt(n - 1)[k]
  BY UnconcernedKeepsView
<1>2. row \in {ViewAt(n)[k], ViewAt(base)[k]}
  BY <1>1 DEF Follows
<1>3. ASSUME base <= n PROVE row = ViewAt(n)[k]
  <2>1. CASE base <= n - 1
    BY <1>1, <2>1 DEF Follows
  <2>2. CASE base = n
    BY <1>2, <2>2
  <2> QED BY <1>3, <2>1, <2>2
<1> QED BY <1>2, <1>3 DEF Follows

\* The commits between two cursors are those of the changes between them.
LEMMA CommitsBetween ==
  ASSUME SafeInv, NEW s \in Nat, NEW u \in Nat,
         NEW p \in 0..Len(wal), NEW q \in 0..Len(wal), StandsAt(s, p), StandsAt(u, q),
         NEW n \in 1..Len(wal)
  PROVE  /\ n \in Due(s, u) => p < n /\ n <= q
         /\ p < n /\ n <= q /\ n \notin Due(s, u) => ~Concerns(n)
<1>t. Len(wal) \in Nat /\ watermark \in Int /\ floor[Source] \in Int
  BY SourceTypes DEF SafeInv
<1>1. ASSUME n \in Due(s, u) PROVE p < n /\ n <= q
  <2>1. PICK r \in Changes(Source) : r.snapshot > s /\ r.snapshot <= u /\ r.commit = n
    BY <1>1 DEF Due
  <2>2. r.snapshot \in Nat
    BY ChangesFacts
  <2>3. ~(r.snapshot <= s)
    BY <2>1, <2>2
  <2>4. ~(n <= p) /\ n <= q
    BY <2>1, <2>3 DEF StandsAt
  <2> QED BY <1>t, <2>4
<1>2. ASSUME p < n, n <= q, n \notin Due(s, u) PROVE ~Concerns(n)
  <2>1. CommitLsn(n) <= watermark
    BY <1>t, <1>2 DEF StandsAt, CommitLsn
  <2>2. floor[Source] < CommitLsn(n)
    BY <1>t, <1>2 DEF StandsAt, CommitLsn
  <2>3. PICK r \in Changes(Source) : r.commit = n
    BY <2>1, <2>2, ChangesFacts
  <2>4. r.snapshot \in Nat /\ (r.snapshot <= s <=> n <= p) /\ (r.snapshot <= u <=> n <= q)
    BY <2>3, ChangesFacts DEF StandsAt
  <2>5. r.snapshot > s /\ r.snapshot <= u
    BY <1>t, <1>2, <2>4
  <2> QED BY <1>2, <2>3, <2>5 DEF Due
<1> QED BY <1>1, <1>2

\* Merging all that lies between two cursors takes every row from one to the other.
LEMMA MergeRow ==
  ASSUME HistoryTyped, NEW len \in Nat, Len(history) = len + 1,
         NEW p \in 0..len, NEW q \in 0..len, p <= q,
         NEW base \in Nat, NEW k \in Keys, NEW batch, NEW after,
         \A n \in 1..len :
           /\ after[n] = IF n \in batch THEN Applied(n, after[n - 1]) ELSE after[n - 1]
           /\ n \in batch => p < n /\ n <= q
           /\ p < n /\ n <= q /\ n \notin batch => ~Concerns(n),
         Follows(after[0][k], k, p, base)
  PROVE  Follows(after[len][k], k, q, base)
<1> DEFINE At(n) == IF n <= p THEN p ELSE IF n <= q THEN n ELSE q
           S == {n \in 0..len : Follows(after[n][k], k, At(n), base)}
<1>1. 0 \in S
  <2>1. At(0) = p
    OBVIOUS
  <2> QED BY <2>1
<1>2. ASSUME NEW n \in (0 + 1)..len, n - 1 \in S PROVE n \in S
  <2>1. Follows(after[n - 1][k], k, At(n - 1), base) /\ n \in 1..len
    BY <1>2
  <2>2. CASE n <= p \/ n > q
    <3>1. n \notin batch
      BY <2>1, <2>2
    <3>2. At(n) = At(n - 1) /\ after[n] = after[n - 1]
      BY <2>1, <2>2, <3>1
    <3>3. Follows(after[n][k], k, At(n), base)
      BY <2>1, <3>2
    <3> QED BY <3>3
  <2>3. CASE n > p /\ n <= q
    <3>1. At(n) = n /\ At(n - 1) = n - 1
      BY <2>3
    <3>2. Follows(after[n - 1][k], k, n - 1, base)
      BY <2>1, <3>1
    <3>3. n \in Nat \ {0} /\ n < Len(history)
      OBVIOUS
    <3>4. CASE n \in batch
      <4>1. after[n] = Applied(n, after[n - 1])
        BY <3>4
      <4>2. Follows(after[n][k], k, n, base)
        BY <3>2, <3>3, <4>1, FollowsStep DEF HistoryTyped
      <4> QED BY <3>1, <4>2
    <3>5. CASE n \notin batch
      <4>1. after[n] = after[n - 1] /\ ~Concerns(n)
        BY <2>3, <3>5
      <4>2. Follows(after[n][k], k, n, base)
        BY <3>2, <3>3, <4>1, FollowsUnconcerned
      <4> QED BY <3>1, <4>2
    <3> QED BY <3>4, <3>5
  <2> QED BY <2>2, <2>3
<1>3. 0..len \subseteq S
  <2>1. \A n \in (0 + 1)..len : n - 1 \in S => n \in S
    BY <1>2
  <2>2. 0 \in Int /\ len \in Int /\ 0 <= len
    OBVIOUS
  <2> HIDE DEF S
  <2> QED BY <1>1, <2>1, <2>2, RangeInduction
<1>4. len \in S
  BY <1>3
<1>5. At(len) = q
  OBVIOUS
<1>6. Follows(after[len][k], k, At(len), base)
  BY <1>4
<1> HIDE DEF At
<1> QED BY <1>5, <1>6

\* The rows after an answer with events are those of its cursor's commit.
LEMMA EventsAreGood ==
  ASSUME SafeInv, NEW since \in Nat, NEW next \in Nat, NEW batch,
         EventsAnswer(since, next, batch)
  PROVE  \/ ResetAhead(next)
         \/ \E p, base \in 0..Len(wal) :
              StandsAt(next, p) /\ \A k \in Keys : Follows(Merge(batch)[k], k, p, base)
<1> SUFFICES ASSUME ~ResetAhead(next)
             PROVE  \E p, base \in 0..Len(wal) :
                      /\ StandsAt(next, p)
                      /\ \A k \in Keys : Follows(Merge(batch)[k], k, p, base)
  OBVIOUS
<1>t. Len(wal) \in Nat /\ rows \in Content /\ HistoryTyped /\ Len(history) = Len(wal) + 1
  BY SourceTypes DEF SafeInv, PullTypeOK, HistoryInv, HistoryTyped
<1>1. /\ since <= next /\ GoodCursor(since) /\ ~ResetAhead(since)
      /\ batch = Due(since, next)
  BY DEF EventsAnswer, Due
<1>2. PICK p \in 0..Len(wal), base \in 0..Len(wal) :
        StandsAt(since, p) /\ \A k \in Keys : Follows(rows[k], k, p, base)
  BY <1>1 DEF GoodCursor
<1>3. PICK q \in 0..Len(wal) : StandsAt(next, q)
  <2>1. Len(wal) \in 0..Len(wal) /\ \A i \in 1..Len(wal) : i <= Len(wal)
    BY <1>t
  <2>2. \A r \in Changes(Source) : r.commit <= Len(wal)
    BY <2>1, ChangesFacts
  <2> QED BY <2>1, <2>2, StandingPosition
<1>4. p <= q
  BY <1>1, <1>2, <1>3, StandsInOrder
<1>5. PICK after \in [0..Len(wal) -> Content] :
        /\ after[0] = rows
        /\ \A n \in 1..Len(wal) :
             after[n] = IF n \in batch THEN Applied(n, after[n - 1]) ELSE after[n - 1]
        /\ Merge(batch) = after[Len(wal)]
  BY <1>t, MergeSteps
<1>6. \A n \in 1..Len(wal) : /\ n \in batch => p < n /\ n <= q
                             /\ p < n /\ n <= q /\ n \notin batch => ~Concerns(n)
  BY <1>1, <1>2, <1>3, CommitsBetween
<1>7. ASSUME NEW k \in Keys PROVE Follows(after[Len(wal)][k], k, q, base)
  <2>1. Follows(after[0][k], k, p, base)
    BY <1>2, <1>5
  <2>2. base \in Nat
    BY <1>t
  <2> QED BY <1>t, <1>4, <1>5, <1>6, <2>1, <2>2, MergeRow
<1> QED BY <1>3, <1>5, <1>7

(***************************************************************************)
(* The client's cursor.                                                    *)
(***************************************************************************)
\* How a step moves the epochs: the stored one never back, the runtime's to the
\* stored one, or to none when the process dies.
EpochsKept ==
  /\ epoch'[Source] \in Nat /\ eventsEpochs'[Source] \in Nat
  /\ epoch[Source] <= epoch'[Source]
  /\ \/ eventsEpochs'[Source] = eventsEpochs[Source]
     \/ eventsEpochs'[Source] = epoch'[Source]
     \/ eventsEpochs'[Source] = 0

LEMMA EpochsMove ==
  ASSUME TypeOK, [PullNext]_allVars
  PROVE  EpochsKept
<1>t. epoch[Source] \in Nat /\ eventsEpochs[Source] \in Nat /\ Source \in Tables
  BY SourceTypes
<1>1. ASSUME UNCHANGED <<epoch, eventsEpochs>> PROVE EpochsKept
  BY <1>1, <1>t DEF EpochsKept
<1>2. ASSUME NEW S \in SUBSET Tables, Start(S) PROVE EpochsKept
  <2>1. \E R : epoch' = Rotated(R) /\ eventsEpochs' = epoch'
    BY <1>2 DEF Start
  <2> QED BY <1>t, <2>1 DEF Rotated, EpochsKept
<1>3. ASSUME NEW S, RotateAndSeed(S) PROVE EpochsKept
  BY <1>3, <1>t DEF RotateAndSeed, Rotated, runtime, EpochsKept
<1>4. CASE AdoptRotation
  BY <1>4, <1>t DEF AdoptRotation, database, EpochsKept
<1>5. CASE StreamProgress
  <2>1. CASE Start({})
    BY <1>2, <2>1
  <2>2. CASE RotateAndSeed(SeededBy(slot \div 2))
    BY <1>3, <2>2
  <2>3. CASE CreateSlot \/ ResumeRecreate \/ OpenStream \/ SkipReplay \/ Ingest \/ Emit
             \/ ResumeAdopt({t \in SeededBy(Len(wal)) : events[t] = {}})
    <3>1. UNCHANGED <<epoch, eventsEpochs>>
      BY <2>3 DEF CreateSlot, ResumeRecreate, OpenStream, SkipReplay, Ingest, Emit,
                  ResumeAdopt, database, runtime
    <3> QED BY <1>1, <3>1
  <2> QED BY <1>4, <1>5, <2>1, <2>2, <2>3 DEF StreamProgress
<1>6. CASE CrashProcess
  <2>1. UNCHANGED epoch /\ eventsEpochs'[Source] = 0
    BY <1>6, <1>t DEF CrashProcess, Crash
  <2> QED BY <1>t, <2>1 DEF EpochsKept
<1>7. CASE Redeploy
  <2>1. {Source} \in SUBSET Tables /\ Start({Source})
    BY <1>7, <1>t DEF Redeploy
  <2> QED BY <1>2, <2>1
<1>8. CASE StreamFault \/ Acknowledge
  <2>1. UNCHANGED <<epoch, eventsEpochs>>
    BY <1>8 DEF StreamFault, SlotLost, BackfillFails, Disconnect, Stop, Acknowledge,
                AckArrives, runtime
  <2> QED BY <1>1, <2>1
<1>9. CASE Subscribe \/ Poll \/ CheckEpoch \/ ReadLatest \/ ReadEvents \/ ReadRows
           \/ MintToken \/ Receive \/ RequestFails
  <2>1. UNCHANGED <<epoch, eventsEpochs>>
    BY <1>9 DEF Subscribe, Poll, CheckEpoch, ReadLatest, ReadEvents, ReadRows, MintToken,
                Receive, RequestFails, Send, Advance, vars, database, runtime
  <2> QED BY <1>1, <2>1
<1>10. CASE UNCHANGED allVars
  BY <1>1, <1>10 DEF allVars, vars, database, runtime
<1>11. ASSUME NEW next \in Content, Write(next) PROVE EpochsKept
  <2>1. UNCHANGED <<epoch, eventsEpochs>>
    BY <1>11 DEF Write, RowChange, Commit, runtime
  <2> QED BY <1>1, <2>1
<1> QED BY <1>5, <1>6, <1>7, <1>8, <1>9, <1>10, <1>11 DEF PullNext

\* A token that the next check refuses is refused for good.
LEMMA StaleKept ==
  ASSUME TypeOK, EpochsInv, EpochsKept, NEW e \in Int, StaleToken(e)
  PROVE  StaleToken(e)'
<1>1. epoch[Source] \in Nat /\ eventsEpochs[Source] \in Nat
  BY SourceTypes
<1> QED BY <1>1 DEF StaleToken, EpochsInv, EpochsKept

\* What recreating the events table means for the epochs: no client or request
\* holds an accepted one.
LEMMA Recreated ==
  ASSUME SafeInv, TokenInv, RequestInv, [PullNext]_allVars, Recreates
  PROVE  /\ request = NoRequest /\ UNCHANGED <<rows, token, request>>
         /\ token # NoToken => token.epoch < eventsEpochs'[Source]
                               /\ token.epoch <= epoch'[Source]
<1>t. /\ epoch[Source] \in Nat /\ eventsEpochs[Source] \in Nat /\ Source \in Tables
      /\ token.epoch \in Int /\ EpochsInv
  BY SourceTypes DEF SafeInv, PullTypeOK
<1>1. CASE Redeploy
  <2>1. request = NoRequest /\ UNCHANGED <<rows, token, request>> /\ Start({Source})
    BY <1>1 DEF Redeploy, client
  <2>2. epoch'[Source] = epoch[Source] + 1 /\ eventsEpochs' = epoch'
    BY <1>t, <2>1, PullProtocolAssumption DEF Start, Rotated
  <2>3. token # NoToken => token.epoch <= epoch[Source]
    BY DEF TokenInv
  <2> QED BY <1>t, <2>1, <2>2, <2>3
<1>2. CASE Start({}) /\ epoch[Source] = 0 /\ ~Redeploy
  <2>1. eventsEpochs[Source] = 0
    BY <1>t, <1>2 DEF EpochsInv
  <2>2. request = NoRequest
    BY <1>t, <2>1 DEF EpochsInv, RequestInv
  <2>3. token = NoToken
    BY <1>t, <1>2 DEF TokenInv
  <2>4. phase = "stopped" /\ phase' = "connecting"
    BY <1>2 DEF Start
  <2>5. UNCHANGED <<rows, token, request>>
    <3>1. CASE StreamProgress \/ StreamFault \/ Acknowledge
      BY <3>1 DEF StreamProgress, StreamFault, Acknowledge, client
    <3>2. CASE CrashProcess
      BY <2>4, <3>2 DEF CrashProcess, Crash
    <3>3. CASE Subscribe \/ Poll \/ CheckEpoch \/ ReadLatest \/ ReadEvents \/ ReadRows
               \/ MintToken \/ Receive
      BY <2>4, <3>3 DEF Subscribe, Poll, CheckEpoch, ReadLatest, ReadEvents, ReadRows,
                        MintToken, Receive, Send, Advance, vars
    <3>4. CASE RequestFails
      BY <2>4, <3>4 DEF RequestFails
    <3>5. CASE UNCHANGED allVars
      BY <3>5 DEF allVars, client
    <3>6. ASSUME NEW next \in Content, Write(next) PROVE UNCHANGED <<rows, token, request>>
      BY <3>6 DEF Write, client
    <3> QED BY <1>2, <3>1, <3>2, <3>3, <3>4, <3>5, <3>6 DEF PullNext
  <2> QED BY <2>2, <2>3, <2>5
<1> QED BY <1>1, <1>2 DEF Recreates

\* The client's cursor, while it is not replaced.
LEMMA TokenKept ==
  ASSUME SafeInv, TypeOK', TokenInv, CursorsKept, EpochsKept, UNCHANGED <<rows, token>>
  PROVE  TokenInv'
<1> SUFFICES ASSUME token # NoToken PROVE TokenInv'
  BY DEF TokenInv
<1>1. PICK s \in Nat, e \in Int : s = token.snapshot /\ e = token.epoch
  BY DEF SafeInv, PullTypeOK
<1>2. 1 <= e /\ e <= epoch[Source] /\ (GoodCursor(s) \/ StaleToken(e))
  BY <1>1 DEF TokenInv
<1>3. e <= epoch'[Source]
  BY <1>2, SourceTypes DEF EpochsKept, SafeInv
<1>4. GoodCursor(s)' \/ StaleToken(e)'
  BY <1>2, GoodCursorKept, StaleKept DEF SafeInv
<1>5. token'.snapshot = s /\ token'.epoch = e
  BY <1>1
<1> QED BY <1>2, <1>3, <1>4, <1>5 DEF TokenInv

\* The client's cursor, when it comes with an answer.
LEMMA TokenReceived ==
  ASSUME SafeInv, TypeOK', RequestInv, Receive
  PROVE  TokenInv'
<1>1. /\ request.stage = "answered" /\ UNCHANGED <<vars, history>>
      /\ rows' = IF request.full THEN ViewAt(request.pos) ELSE Merge(request.batch)
      /\ token' = [epoch |-> request.epoch, snapshot |-> request.next]
  BY DEF Receive
<1>2. PICK next \in Nat, pos \in Nat, since \in Nat, batch \in SUBSET Nat :
        next = request.next /\ pos = request.pos /\ since = request.since
        /\ batch = request.batch
  BY RequestFields DEF SafeInv
<1>3. 1 <= request.epoch /\ request.epoch <= epoch[Source]
  BY <1>1 DEF RequestInv
<1>4. next < nextSnapshot[Source]
  BY <1>1, <1>2 DEF RequestInv, FullAnswer, EventsAnswer
<1>5. \/ ResetAhead(next)
      \/ \E p, base \in 0..Len(wal) :
           StandsAt(next, p) /\ \A k \in Keys : Follows(rows'[k], k, p, base)
  <2>1. CASE request.full
    <3>1. FullAnswer(next, pos) /\ rows' = ViewAt(pos)
      BY <1>1, <1>2, <2>1 DEF RequestInv
    <3> QED BY <3>1, FullIsGood
  <2>2. CASE ~request.full
    <3>1. EventsAnswer(since, next, batch) /\ rows' = Merge(batch)
      BY <1>1, <1>2, <2>2 DEF RequestInv
    <3> QED BY <3>1, EventsAreGood
  <2> QED BY <2>1, <2>2
<1>6. GoodCursor(next)'
  <2>1. UNCHANGED <<wal, events, nextSnapshot, watermark, floor, history>>
    BY <1>1 DEF vars, database
  <2>2. CASE ResetAhead(next)
    BY <1>4, <2>1, <2>2 DEF GoodCursor, ResetAhead
  <2>3. CASE \E p, base \in 0..Len(wal) :
               StandsAt(next, p) /\ \A k \in Keys : Follows(rows'[k], k, p, base)
    <3>1. PICK p \in 0..Len(wal), base \in 0..Len(wal) :
            StandsAt(next, p) /\ \A k \in Keys : Follows(rows'[k], k, p, base)
      BY <2>3
    <3>2. StandsAt(next, p)'
      BY <2>1, <3>1 DEF StandsAt, Changes
    <3>3. \A k \in Keys : Follows(rows[k], k, p, base)'
      BY <2>1, <3>1 DEF Follows, ViewAt, RowsAt
    <3> QED BY <1>4, <2>1, <3>2, <3>3 DEF GoodCursor
  <2> QED BY <1>5, <2>2, <2>3
<1>7. token'.snapshot = next /\ token'.epoch = request.epoch /\ UNCHANGED epoch
  BY <1>1, <1>2 DEF vars, database
<1> QED BY <1>3, <1>6, <1>7 DEF TokenInv

\* The client's cursor, over every step.
LEMMA TokenStep ==
  ASSUME SafeInv, TypeOK', OtherRows, TokenInv, RequestInv, [PullNext]_allVars
  PROVE  TokenInv'
<1>1. CASE Recreates
  <2>1. /\ UNCHANGED token
        /\ token # NoToken => token.epoch < eventsEpochs'[Source]
                              /\ token.epoch <= epoch'[Source]
    BY <1>1, Recreated
  <2> QED BY <2>1 DEF TokenInv, StaleToken
<1>2. CASE CursorsKept /\ ~Receive
  <2>1. EpochsKept
    BY EpochsMove DEF SafeInv
  <2>2. UNCHANGED <<rows, token>>
    <3>1. Subscribe \/ Poll \/ CheckEpoch \/ ReadLatest \/ ReadEvents \/ ReadRows \/ MintToken
            => UNCHANGED <<rows, token>>
      BY DEF Subscribe, Poll, CheckEpoch, ReadLatest, ReadEvents, ReadRows, MintToken, Send,
             Advance
    <3> QED BY <1>2, <3>1, ClientKept
  <2> QED BY <1>2, <2>1, <2>2, TokenKept
<1>3. CASE Receive
  BY <1>3, TokenReceived
<1> QED BY <1>1, <1>2, <1>3, CursorsStep

(***************************************************************************)
(* The request in flight.                                                  *)
(***************************************************************************)
\* Nothing is claimed of no request.
LEMMA NoRequestInv == request = NoRequest => RequestInv
BY NoRequestType DEF RequestInv

\* A handler's step leaves cursors and epochs alone.
LEMMA FrameFacts ==
  ASSUME SafeInv, TypeOK', RequestFrame
  PROVE  /\ CursorsKept /\ UNCHANGED <<rows, token, epoch, eventsEpochs, nextSnapshot>>
         /\ token.snapshot \in Nat
<1>1. UNCHANGED <<wal, history, events, nextSnapshot, watermark, floor, epoch,
                  eventsEpochs, rows, token>>
  BY DEF RequestFrame, vars, database, runtime
<1>2. CursorsKept
  BY <1>1, CursorsQuiet DEF SafeInv
<1>3. token.snapshot \in Nat
  BY DEF SafeInv, PullTypeOK
<1> QED BY <1>1, <1>2, <1>3

\* A request in flight, while its handler waits.
LEMMA RequestKept ==
  ASSUME SafeInv, TypeOK', RequestInv, CursorsKept, EpochsKept,
         UNCHANGED <<rows, token, request>>
  PROVE  RequestInv'
<1>1. PICK since \in Nat, next \in Nat, pos \in Nat, batch \in SUBSET Nat :
        /\ since = request.since /\ next = request.next /\ pos = request.pos
        /\ batch = request.batch
  BY RequestFields DEF SafeInv
<1>t. /\ nextSnapshot[Source] \in Nat /\ nextSnapshot'[Source] \in Nat
      /\ epoch[Source] \in Nat /\ epoch'[Source] \in Nat /\ request.epoch \in Int
  BY SourceTypes, RequestFields DEF SafeInv, CursorsKept, EpochsKept
<1>2. request.kind = "pull" /\ request.stage \in {"latest", "events"} => GoodCursor(since)'
  BY <1>1, GoodCursorKept DEF RequestInv
<1>3. request.stage = "rows" => request.full /\ next < nextSnapshot'[Source]
  BY <1>1, <1>t DEF RequestInv, CursorsKept
<1>4. request.stage \in {"mint", "answered"} /\ request.full => FullAnswer(next, pos)'
  BY <1>1, FullAnswerKept DEF RequestInv
<1>5. request.stage \in {"mint", "answered"} /\ ~request.full
        => EventsAnswer(since, next, batch)'
  BY <1>1, EventsAnswerKept DEF RequestInv
<1>6. request.stage = "answered" => 1 <= request.epoch /\ request.epoch <= epoch'[Source]
  BY <1>t DEF RequestInv, EpochsKept
<1>7. /\ request'.since = since /\ request'.next = next /\ request'.pos = pos
      /\ request'.batch = batch /\ UNCHANGED <<token, request>>
  BY <1>1
<1> QED BY <1>2, <1>3, <1>4, <1>5, <1>6, <1>7 DEF RequestInv

\* The epoch check lets a cursor pass that vouches for the client's rows.
LEMMA RequestAfterCheck ==
  ASSUME SafeInv, TypeOK', TokenInv, RequestInv, CheckEpoch
  PROVE  RequestInv'
<1>1. /\ RequestFrame /\ request.stage = "check" /\ request \in Request
      /\ request' = [request EXCEPT !.stage = request'.stage]
      /\ \/ request'.stage = "latest" /\ request.epoch = eventsEpochs[Source]
         \/ request'.stage = "resetLatest"
  BY CheckedRequest DEF SafeInv, PullTypeOK
<1>2. /\ request'.kind = request.kind /\ request'.full = request.full
      /\ request'.batch = request.batch /\ request'.since = request.since
  BY <1>1 DEF Request
<1>3. /\ request.kind = "pull" /\ ~request.full /\ request.batch = {}
      /\ token # NoToken /\ request.since = token.snapshot /\ request.epoch = token.epoch
  BY <1>1, RequestFields DEF SafeInv, RequestInv
<1>4. PICK s \in Nat : s = token.snapshot
  BY DEF SafeInv, PullTypeOK
<1>5. request'.stage = "latest" => GoodCursor(s)'
  <2> SUFFICES ASSUME request'.stage = "latest" PROVE GoodCursor(s)'
    OBVIOUS
  <2>1. token.epoch = eventsEpochs[Source]
    BY <1>1, <1>3
  <2>2. eventsEpochs[Source] # 0 /\ eventsEpochs[Source] \in Nat
    BY <1>1, SourceTypes DEF SafeInv, EpochsInv
  <2>3. GoodCursor(s)
    BY <1>3, <1>4, <2>1, <2>2 DEF TokenInv, StaleToken
  <2> QED BY <1>1, <2>3, FrameFacts, GoodCursorKept
<1>6. request'.since = s
  BY <1>2, <1>3, <1>4
<1> QED BY <1>1, <1>2, <1>3, <1>5, <1>6 DEF RequestInv

\* A reset takes the latest snapshot before it reads the rows; a pull past it has
\* nothing to merge.
LEMMA RequestAfterLatest ==
  ASSUME SafeInv, TypeOK', RequestInv, ReadLatest
  PROVE  RequestInv'
<1>t. /\ TypeOK /\ IdentityInv /\ PullTypeOK /\ HistoryInv /\ EpochsInv
      /\ request \in Request /\ nextSnapshot[Source] \in Nat
  BY SourceTypes DEF SafeInv, StreamInv, PullTypeOK
<1>1. /\ RequestFrame /\ request.stage \in {"latest", "resetLatest"}
      /\ \/ request' = [request EXCEPT !.next = Latest, !.full = TRUE, !.stage = "rows"]
         \/ /\ request.kind = "pull" /\ request.stage = "latest"
            /\ request' = [request EXCEPT !.next = request.since, !.stage = "mint"]
         \/ /\ request.kind = "pull" /\ request.stage = "latest"
            /\ request' = [request EXCEPT !.stage = "events"]
  BY <1>t, LatestRequest
<1>2. PICK since \in Nat : since = request.since
  BY RequestFields DEF SafeInv
<1>3. CursorsKept /\ UNCHANGED <<rows, nextSnapshot>>
  BY <1>1, FrameFacts
<1>4. request.kind = "pull" /\ request.stage = "latest" =>
        GoodCursor(since)' /\ GoodCursor(since) /\ ~request.full /\ request.batch = {}
  BY <1>2, <1>3, GoodCursorKept DEF RequestInv
<1>5. CASE request' = [request EXCEPT !.next = Latest, !.full = TRUE, !.stage = "rows"]
  <2>1. /\ request'.kind = request.kind /\ request'.stage = "rows" /\ request'.full = TRUE
        /\ request'.next = Latest
    BY <1>t, <1>5 DEF Request
  <2>2. Latest < nextSnapshot'[Source]
    BY <1>t, <1>3, LatestBounds DEF EpochsInv
  <2> QED BY <2>1, <2>2 DEF RequestInv
<1>6. CASE /\ request.kind = "pull" /\ request.stage = "latest"
           /\ request' = [request EXCEPT !.next = request.since, !.stage = "mint"]
  <2>1. /\ request'.kind = "pull" /\ request'.stage = "mint" /\ request'.full = request.full
        /\ request'.batch = {} /\ request'.since = since /\ request'.next = since
    BY <1>t, <1>2, <1>4, <1>6 DEF Request
  <2>2. Due(since, since) = {}
    BY ChangesFacts DEF Due
  <2>3. EventsAnswer(since, since, {})
    <3>1. since < nextSnapshot[Source]
      BY <1>4, <1>6 DEF GoodCursor
    <3> QED BY <1>4, <1>6, <2>2, <3>1 DEF EventsAnswer, Due
  <2>4. EventsAnswer(since, since, {})'
    BY <1>3, <2>3, EventsAnswerKept
  <2> QED BY <1>4, <1>6, <2>1, <2>4 DEF RequestInv
<1>7. CASE /\ request.kind = "pull" /\ request.stage = "latest"
           /\ request' = [request EXCEPT !.stage = "events"]
  <2>1. /\ request'.kind = "pull" /\ request'.stage = "events"
        /\ request'.full = request.full /\ request'.batch = request.batch
        /\ request'.since = since
    BY <1>t, <1>2, <1>7 DEF Request
  <2> QED BY <1>4, <1>7, <2>1 DEF RequestInv
<1> QED BY <1>1, <1>5, <1>6, <1>7

\* The events of one query are all that lies between the cursor and the one the
\* answer takes from them.
LEMMA RequestAfterEvents ==
  ASSUME SafeInv, TypeOK', RequestInv, ReadEvents
  PROVE  RequestInv'
<1>t. /\ TypeOK /\ IdentityInv /\ PullTypeOK /\ HistoryInv /\ EpochsInv
      /\ request \in Request /\ nextSnapshot[Source] \in Nat
  BY SourceTypes DEF SafeInv, StreamInv, PullTypeOK
<1>1. /\ RequestFrame /\ request.stage = "events"
      /\ \/ request' = [request EXCEPT !.stage = "resetLatest"]
         \/ /\ \A r \in Delivered(request.since) : r.op # "snapshot"
            /\ request' = [request EXCEPT
                 !.batch = {r.commit : r \in Delivered(request.since)},
                 !.stage = "mint", !.next = NextCursor(request.since)]
  BY <1>t, EventsRequest
<1>2. PICK since \in Nat : since = request.since
  BY RequestFields DEF SafeInv
<1>3. CursorsKept /\ UNCHANGED <<rows, nextSnapshot>>
  BY <1>1, FrameFacts
<1>4. /\ request.kind = "pull" /\ ~request.full /\ request.batch = {}
      /\ GoodCursor(since)
  BY <1>1, <1>2, RequestFields DEF RequestInv, SafeInv
<1>5. CASE request' = [request EXCEPT !.stage = "resetLatest"]
  <2>1. /\ request'.kind = "pull" /\ request'.stage = "resetLatest"
        /\ request'.full = request.full /\ request'.batch = request.batch
    BY <1>t, <1>4, <1>5 DEF Request
  <2> QED BY <1>4, <2>1 DEF RequestInv
<1>6. CASE /\ \A r \in Delivered(request.since) : r.op # "snapshot"
           /\ request' = [request EXCEPT
                !.batch = {r.commit : r \in Delivered(request.since)},
                !.stage = "mint", !.next = NextCursor(request.since)]
  <2>1. {r.commit : r \in Delivered(since)} \in SUBSET Nat /\ NextCursor(since) \in Nat
    <3>1. events[Source] \subseteq Row
      BY <1>t, SourceAssumption DEF TypeOK
    <3>2. NextCursor(since) \in Nat
      BY <1>t, NextCursorBounds
    <3> QED BY <3>1, <3>2 DEF Delivered, Row
  <2>2. PICK next \in Nat, batch \in SUBSET Nat :
          next = NextCursor(since) /\ batch = {r.commit : r \in Delivered(since)}
    BY <2>1
  <2>3. /\ request'.kind = "pull" /\ request'.stage = "mint" /\ request'.full = request.full
        /\ request'.batch = batch /\ request'.since = since /\ request'.next = next
    BY <1>t, <1>2, <1>4, <1>6, <2>2 DEF Request
  <2>4. /\ since <= next /\ next < nextSnapshot[Source]
        /\ \A r \in Delivered(since) : r.snapshot <= next
    BY <1>t, <1>4, <2>2, NextCursorBounds DEF GoodCursor
  <2>5. ~ResetAhead(since)
    BY <1>2, <1>6 DEF Delivered, ResetAhead
  <2>6. batch = Due(since, next)
    <3>1. \A r \in Delivered(since) : r.op = "change"
      <4>1. \A r \in events[Source] : r.op \in {"snapshot", "change"}
        BY <1>t, SourceAssumption DEF TypeOK, Row
      <4> QED BY <1>2, <1>6, <4>1 DEF Delivered
    <3>2. Delivered(since) = {c \in Changes(Source) : c.snapshot > since
                                /\ c.snapshot <= next /\ Concerns(c.commit)}
      BY <2>4, <3>1 DEF Delivered, Changes
    <3> QED BY <2>2, <3>2 DEF Due
  <2>7. EventsAnswer(since, next, batch)
    BY <1>4, <2>4, <2>5, <2>6 DEF EventsAnswer, Due
  <2>8. EventsAnswer(since, next, batch)'
    BY <1>3, <2>7, EventsAnswerKept
  <2> QED BY <1>4, <2>3, <2>8 DEF RequestInv
<1> QED BY <1>1, <1>5, <1>6

\* The rows are read after the cursor that goes with them.
LEMMA RequestAfterRows ==
  ASSUME SafeInv, TypeOK', RequestInv, ReadRows
  PROVE  RequestInv'
<1>t. /\ TypeOK /\ PullTypeOK /\ request \in Request /\ Len(wal) \in Nat
  BY SourceTypes DEF SafeInv, PullTypeOK
<1>1. /\ RequestFrame /\ request.stage = "rows"
      /\ request' = [request EXCEPT !.pos = Len(wal), !.stage = "mint"]
  BY <1>t, RowsRequest
<1>2. PICK next \in Nat, pos \in Nat : next = request.next /\ pos = Len(wal)
  BY <1>t, RequestFields
<1>3. /\ request'.kind = request.kind /\ request'.stage = "mint"
      /\ request'.full = request.full /\ request'.next = next /\ request'.pos = pos
  BY <1>t, <1>1, <1>2 DEF Request
<1>4. request.full /\ next < nextSnapshot[Source]
  BY <1>1, <1>2 DEF RequestInv
<1>5. FullAnswer(next, pos)
  <2>1. \A r \in Changes(Source) : r.commit <= Len(wal)
    BY ChangesFacts
  <2> QED BY <1>t, <1>2, <1>4, <2>1 DEF FullAnswer
<1>6. FullAnswer(next, pos)'
  BY <1>1, <1>5, FrameFacts, FullAnswerKept
<1> QED BY <1>3, <1>4, <1>6 DEF RequestInv

\* The token of an answer is minted from an epoch the runtime has.
LEMMA RequestAfterMint ==
  ASSUME SafeInv, TypeOK', RequestInv, MintToken
  PROVE  RequestInv'
<1>t. /\ TypeOK /\ PullTypeOK /\ EpochsInv /\ request \in Request
      /\ epoch[Source] \in Nat /\ eventsEpochs[Source] \in Nat
  BY SourceTypes DEF SafeInv, PullTypeOK
<1>1. /\ RequestFrame /\ request.stage = "mint"
      /\ request' = [request EXCEPT !.epoch = eventsEpochs[Source], !.stage = "answered"]
  BY <1>t, MintedRequest
<1>2. PICK since \in Nat, next \in Nat, pos \in Nat, batch \in SUBSET Nat :
        /\ since = request.since /\ next = request.next /\ pos = request.pos
        /\ batch = request.batch
  BY <1>t, RequestFields
<1>3. /\ request'.kind = request.kind /\ request'.stage = "answered"
      /\ request'.full = request.full /\ request'.next = next /\ request'.pos = pos
      /\ request'.since = since /\ request'.batch = batch
      /\ request'.epoch = eventsEpochs[Source]
  BY <1>t, <1>1, <1>2 DEF Request
<1>4. CursorsKept /\ UNCHANGED <<rows, epoch>>
  BY <1>1, FrameFacts
<1>5. 1 <= request'.epoch /\ request'.epoch <= epoch'[Source]
  BY <1>t, <1>1, <1>3, <1>4 DEF EpochsInv
<1>6. request.full => FullAnswer(next, pos)'
  BY <1>1, <1>2, <1>4, FullAnswerKept DEF RequestInv
<1>7. ~request.full => EventsAnswer(since, next, batch)'
  BY <1>1, <1>2, <1>4, EventsAnswerKept DEF RequestInv
<1>8. request.kind = "subscribe" => request.full
  BY DEF RequestInv
<1> QED BY <1>3, <1>5, <1>6, <1>7, <1>8 DEF RequestInv

\* The request in flight, over every step.
LEMMA RequestStep ==
  ASSUME SafeInv, TypeOK', OtherRows, TokenInv, RequestInv, [PullNext]_allVars
  PROVE  RequestInv'
<1>n. request' = NoRequest => RequestInv'
  <2>1. (request = NoRequest)' => RequestInv'
    BY NoRequestInv, PTL
  <2> QED BY <2>1 DEF NoRequest
<1>1. CASE Subscribe \/ Poll
  <2>1. /\ RequestFrame
        /\ \/ /\ request'.kind = "subscribe" /\ request'.stage = "latest"
              /\ request'.full = TRUE
           \/ /\ token # NoToken
              /\ request'.kind = "pull" /\ request'.stage = "check"
              /\ request'.full = FALSE /\ request'.batch = {}
              /\ request'.since = token.snapshot /\ request'.epoch = token.epoch
    BY <1>1, SentRequest DEF SafeInv
  <2>2. UNCHANGED token
    BY <2>1 DEF RequestFrame
  <2> QED BY <2>1, <2>2 DEF RequestInv
<1>2. CASE CheckEpoch
  BY <1>2, RequestAfterCheck
<1>3. CASE ReadLatest
  BY <1>3, RequestAfterLatest
<1>4. CASE ReadEvents
  BY <1>4, RequestAfterEvents
<1>5. CASE ReadRows
  BY <1>5, RequestAfterRows
<1>6. CASE MintToken
  BY <1>6, RequestAfterMint
<1>7. CASE Receive
  BY <1>7, <1>n DEF Receive
<1>8. CASE Recreates
  BY <1>8, <1>n, Recreated
<1>9. CASE /\ UNCHANGED <<rows, token>> /\ request' \in {request, NoRequest}
           /\ CursorsKept
  <2>1. EpochsKept
    BY EpochsMove DEF SafeInv
  <2> QED BY <1>9, <1>n, <2>1, RequestKept
<1> QED
  BY <1>1, <1>2, <1>3, <1>4, <1>5, <1>6, <1>7, <1>8, <1>9, ClientKept, CursorsStep

(***************************************************************************)
(* The theorems.                                                           *)
(***************************************************************************)
\* The inductive invariant holds in every behaviour.
THEOREM PullInvariant == PullSpec => []PullInv
<1>1. PullInit => TokenInv /\ RequestInv
  BY NoRequestInv DEF PullInit, TokenInv
<1>2. /\ SafeInv /\ SafeInv' /\ (OtherRows => TokenInv /\ RequestInv)
      /\ [PullNext]_allVars
      => (OtherRows => TokenInv /\ RequestInv)'
  BY TokenStep, RequestStep DEF SafeInv
<1>3. PullInit => (OtherRows => TokenInv /\ RequestInv)
  BY <1>1
<1>4. PullSpec => [](OtherRows => TokenInv /\ RequestInv)
  BY <1>2, <1>3, PullSafeInvariant, PTL DEF PullSpec
<1>5. SafeInv /\ (OtherRows => TokenInv /\ RequestInv) => PullInv
  BY DEF SafeInv, PullInv
<1> QED BY <1>4, <1>5, PullSafeInvariant, PTL

\* A client that has nothing left to pull shows the table, once the stream has
\* persisted it all.
LEMMA ExactWhenUpToDate ==
  ASSUME SafeInv, TokenInv
  PROVE  PullIsExact
<1> SUFFICES ASSUME UpToDate, phase = "streaming", sent = Len(wal)
             PROVE  rows = ViewAt(Len(wal))
  BY DEF PullIsExact
<1>t. /\ Len(wal) \in Nat /\ watermark \in Int /\ floor[Source] \in Int
      /\ eventsEpochs[Source] \in Nat /\ HistoryInv /\ EpochsInv
  BY SourceTypes DEF SafeInv
<1>1. PICK s \in Nat : s = token.snapshot
  BY DEF SafeInv, PullTypeOK
<1>2. Delivered(s) = {} /\ token # NoToken /\ token.epoch = eventsEpochs[Source]
  BY <1>1 DEF UpToDate
<1>3. GoodCursor(s)
  <2>1. eventsEpochs[Source] # 0
    BY DEF SafeInv, EpochsInv
  <2> QED BY <1>1, <1>2, <1>t, <2>1 DEF TokenInv, StaleToken
<1>4. ~ResetAhead(s)
  BY <1>2 DEF Delivered, ResetAhead
<1>5. PICK p \in 0..Len(wal), base \in 0..Len(wal) :
        StandsAt(s, p) /\ \A k \in Keys : Follows(rows[k], k, p, base)
  BY <1>3, <1>4 DEF GoodCursor
<1>6. CommitLsn(Len(wal)) <= watermark
  BY PullProtocolAssumption DEF SafeInv, StreamInv, SessionInv
<1>7. ASSUME NEW n \in (p + 1)..Len(wal) PROVE ~Concerns(n)
  <2>1. n \in 1..Len(wal) /\ CommitLsn(n) <= watermark
    BY <1>t, <1>6 DEF CommitLsn
  <2>2. floor[Source] < CommitLsn(n)
    BY <1>t, <1>5, <2>1 DEF StandsAt, CommitLsn
  <2>3. PICK r \in Changes(Source) : r.commit = n
    BY <2>1, <2>2, ChangesFacts
  <2>4. r.snapshot \in Nat /\ ~(r.snapshot <= s)
    BY <1>5, <2>3, ChangesFacts DEF StandsAt
  <2>5. r \in events[Source] /\ r.op = "change" /\ r.snapshot > s
    BY <2>4 DEF Changes
  <2> QED BY <1>2, <2>3, <2>5 DEF Delivered
<1>8. ASSUME NEW k \in Keys PROVE Follows(rows[k], k, Len(wal), base)
  <2> DEFINE S == {n \in p..Len(wal) : Follows(rows[k], k, n, base)}
  <2>1. p \in S
    BY <1>5
  <2>2. ASSUME NEW n \in (p + 1)..Len(wal), n - 1 \in S PROVE n \in S
    <3>1. n \in Nat \ {0} /\ base \in Nat /\ Follows(rows[k], k, n - 1, base)
      BY <2>2
    <3> QED BY <1>7, <3>1, FollowsUnconcerned
  <2>3. p..Len(wal) \subseteq S
    <3>1. \A n \in (p + 1)..Len(wal) : n - 1 \in S => n \in S
      BY <2>2
    <3>2. p \in Int /\ Len(wal) \in Int /\ p <= Len(wal)
      BY <1>t
    <3> HIDE DEF S
    <3> QED BY <2>1, <3>1, <3>2, RangeInduction
  <2>4. Len(wal) \in p..Len(wal)
    BY <1>t
  <2> QED BY <2>3, <2>4
<1>9. \A k \in Keys : rows[k] = ViewAt(Len(wal))[k]
  BY <1>8 DEF Follows
<1>10. rows \in Content /\ ViewAt(Len(wal)) \in Content
  BY ViewContent DEF SafeInv, PullTypeOK
<1> QED BY <1>9, <1>10 DEF Content

\* A pulled query is exact: whatever resets, rotations, drift, faults and restarts
\* come between its requests and inside them, a client whose cursor is accepted and
\* has nothing left to pull shows the query's result, for any tables, keys,
\* contents, query and event limit.  A rotation has to leave a seed row behind
\* (OtherRows): an emptied table leaves none for a cursor to notice.
THEOREM PullExactness ==
  ASSUME OtherRows
  PROVE  PullSpec => []PullIsExact
<1>1. PullInv => TokenInv
  BY DEF PullInv
<1>2. SafeInv /\ TokenInv => PullIsExact
  BY ExactWhenUpToDate
<1> QED BY <1>1, <1>2, PullSafeInvariant, PullInvariant, PTL
=============================================================================
