----------------------- MODULE EmbeddedCollectionProofs -----------------------
(***************************************************************************)
(* Proofs about EmbeddedCollection: its inductive invariant, and the       *)
(* exactness of a live collection that follows from it.                    *)
(***************************************************************************)
EXTENDS EmbeddedCollection, PulseStreamProofs, SourceRowsProofs, NatLemmas

(***************************************************************************)
(* Contents.                                                               *)
(***************************************************************************)
\* Draining takes the buffered commits one at a time.
LEMMA DrainedSteps ==
  ASSUME Len(buffer) \in Nat, NEW content \in Content, NEW from
  PROVE  \E after \in [0..Len(buffer) -> Content] :
           /\ after[0] = content
           /\ \A n \in 1..Len(buffer) :
                after[n] = IF BelowWatermark(buffer[n], from) THEN after[n - 1]
                           ELSE Applied(buffer[n], after[n - 1])
           /\ Drained(content, from) = after[Len(buffer)]
<1> DEFINE Next1(n, c) == IF BelowWatermark(buffer[n], from) THEN c
                          ELSE Applied(buffer[n], c)
           Takes == [n \in 1..Len(buffer) |-> [c \in Content |-> Next1(n, c)]]
           Drain(g) == g = [n \in 0..Len(buffer) |->
                             IF n = 0 THEN content
                             ELSE IF BelowWatermark(buffer[n], from) THEN g[n - 1]
                             ELSE Applied(buffer[n], g[n - 1])]
<1>1. Takes \in [1..Len(buffer) -> [Content -> Content]]
  BY AppliedContent
<1>2. PICK f \in [0..Len(buffer) -> Content] :
        f[0] = content /\ \A i \in 1..Len(buffer) : f[i] = Takes[i][f[i - 1]]
  <2> HIDE DEF Takes
  <2> QED BY <1>1, IterationExists
<1>3. ASSUME NEW n \in 1..Len(buffer)
      PROVE  f[n - 1] \in Content /\ f[n] = Next1(n, f[n - 1])
  <2>1. n - 1 \in 0..Len(buffer) /\ f[n] = Takes[n][f[n - 1]]
    BY <1>2
  <2> QED BY <2>1
<1>4. Drain(f)
  BY <1>2, <1>3
<1> DEFINE after == CHOOSE g : Drain(g)
<1>5. Drain(after)
  <2> HIDE DEF Drain
  <2> QED BY <1>4
<1>6. Drained(content, from) = after[Len(buffer)]
  BY DEF Drained
<1> HIDE DEF after
<1>7. after[0] = content /\ \A n \in 1..Len(buffer) : after[n] = Next1(n, after[n - 1])
  <2>1. 0 \in 0..Len(buffer)
    OBVIOUS
  <2>2. after[0] = content
    BY <1>5, <2>1
  <2>3. ASSUME NEW n \in 1..Len(buffer) PROVE after[n] = Next1(n, after[n - 1])
    <3>1. n \in 0..Len(buffer) /\ n # 0
      OBVIOUS
    <3> QED BY <1>5, <3>1
  <2> QED BY <2>2, <2>3
<1>8. after \in [0..Len(buffer) -> Content]
  <2> DEFINE S == {n \in 0..Len(buffer) : after[n] \in Content}
  <2>1. 0 \in S
    BY <1>7
  <2>2. ASSUME NEW n \in (0 + 1)..Len(buffer), n - 1 \in S PROVE n \in S
    <3>1. after[n] = Next1(n, after[n - 1]) /\ after[n - 1] \in Content
      BY <1>7, <2>2
    <3>2. Next1(n, after[n - 1]) \in Content
      BY <3>1, AppliedContent
    <3> QED BY <3>1, <3>2
  <2>3. 0..Len(buffer) \subseteq S
    <3>1. \A n \in (0 + 1)..Len(buffer) : n - 1 \in S => n \in S
      BY <2>2
    <3>2. 0 \in Int /\ Len(buffer) \in Int /\ 0 <= Len(buffer)
      OBVIOUS
    <3> HIDE DEF S
    <3> QED BY <2>1, <3>1, <3>2, RangeInduction
  <2>4. \A n \in 0..Len(buffer) : after[n] \in Content
    BY <2>3
  <2> QED BY <1>5, <2>4
<1> QED BY <1>6, <1>7, <1>8

\* A drained baseline is a content.
LEMMA DrainedContent ==
  ASSUME buffer \in Seq(Nat), NEW content \in Content, NEW from
  PROVE  Drained(content, from) \in Content
<1>1. Len(buffer) \in 0..Len(buffer)
  OBVIOUS
<1> QED BY <1>1, DrainedSteps

\* Draining commits b + 1, b + 2, ... onto a baseline with watermark w takes a
\* row on its way to the last of them, or leaves it at w if that is further.
LEMMA DrainedRow ==
  ASSUME HistoryTyped, NEW n \in Nat, NEW w \in Nat, w < Len(history),
         NEW b \in Nat, b <= w, b + n < Len(history),
         NEW base \in Nat, NEW k \in Keys, NEW after,
         \A j \in 1..n : after[j] = IF CommitLsn(b + j) < EndLsn(w) THEN after[j - 1]
                                    ELSE Applied(b + j, after[j - 1]),
         Follows(after[0][k], k, w, base)
  PROVE  Follows(after[n][k], k, IF w > b + n THEN w ELSE b + n, base)
<1> DEFINE Up(j) == IF w > b + j THEN w ELSE b + j
           S == {j \in 0..n : Follows(after[j][k], k, Up(j), base)}
<1>2. 0 \in S
  <2>1. Up(0) = w
    OBVIOUS
  <2> QED BY <2>1
<1>3. ASSUME NEW j \in (0 + 1)..n, j - 1 \in S PROVE j \in S
  <2>1. Follows(after[j - 1][k], k, Up(j - 1), base)
    BY <1>3
  <2>2. CASE b + j <= w
    <3>1. Up(j) = w /\ Up(j - 1) = w
      BY <2>2
    <3>2. CommitLsn(b + j) < EndLsn(w)
      BY <2>2 DEF CommitLsn, EndLsn
    <3>3. after[j] = after[j - 1]
      BY <3>2
    <3>4. Follows(after[j][k], k, Up(j), base)
      BY <2>1, <3>1, <3>3
    <3> QED BY <3>4
  <2>3. CASE b + j > w
    <3>1. Up(j) = b + j /\ Up(j - 1) = (b + j) - 1
      BY <2>3
    <3>2. ~(CommitLsn(b + j) < EndLsn(w))
      BY <2>3 DEF CommitLsn, EndLsn
    <3>3. after[j] = Applied(b + j, after[j - 1])
      BY <3>2
    <3>4. b + j \in Nat \ {0} /\ b + j < Len(history)
      BY <2>3
    <3>5. Follows(after[j - 1][k], k, (b + j) - 1, base)
      BY <2>1, <3>1
    <3>6. Follows(after[j][k], k, b + j, base)
      BY <3>3, <3>4, <3>5, FollowsStep DEF HistoryTyped
    <3> QED BY <3>1, <3>6
  <2> QED BY <2>2, <2>3
<1>4. 0..n \subseteq S
  <2>1. \A j \in (0 + 1)..n : j - 1 \in S => j \in S
    BY <1>3
  <2>2. 0 \in Int /\ n \in Int /\ 0 <= n
    OBVIOUS
  <2> HIDE DEF S
  <2> QED BY <1>2, <2>1, <2>2, RangeInduction
<1>5. n \in S
  BY <1>4
<1> QED BY <1>5

\* The same of Drained, whose buffer is the run of commits after b.
LEMMA DrainedFollows ==
  ASSUME HistoryTyped, Len(buffer) \in Nat, NEW content \in Content, NEW from
  PROVE  \A w, b, base \in Nat, k \in Keys :
           /\ w < Len(history) /\ from = EndLsn(w)
           /\ b <= w /\ b + Len(buffer) < Len(history)
           /\ \A j \in 1..Len(buffer) : buffer[j] = b + j
           /\ Follows(content[k], k, w, base)
           => Follows(Drained(content, from)[k], k,
                      IF w > b + Len(buffer) THEN w ELSE b + Len(buffer), base)
<1>1. PICK after \in [0..Len(buffer) -> Content] :
        /\ after[0] = content
        /\ \A n \in 1..Len(buffer) :
             after[n] = IF BelowWatermark(buffer[n], from) THEN after[n - 1]
                        ELSE Applied(buffer[n], after[n - 1])
        /\ Drained(content, from) = after[Len(buffer)]
  BY DrainedSteps
<1> SUFFICES ASSUME NEW w \in Nat, NEW b \in Nat, NEW base \in Nat, NEW k \in Keys,
                    w < Len(history), from = EndLsn(w),
                    b <= w, b + Len(buffer) < Len(history),
                    \A j \in 1..Len(buffer) : buffer[j] = b + j,
                    Follows(content[k], k, w, base)
             PROVE  Follows(Drained(content, from)[k], k,
                            IF w > b + Len(buffer) THEN w ELSE b + Len(buffer), base)
  OBVIOUS
<1>2. \A j \in 1..Len(buffer) :
         after[j] = IF CommitLsn(b + j) < EndLsn(w) THEN after[j - 1]
                    ELSE Applied(b + j, after[j - 1])
  BY <1>1 DEF BelowWatermark
<1>3. Follows(after[0][k], k, w, base)
  BY <1>1
<1>4. Follows(after[Len(buffer)][k], k,
              IF w > b + Len(buffer) THEN w ELSE b + Len(buffer), base)
  BY <1>2, <1>3, DrainedRow
<1> QED BY <1>1, <1>4

(***************************************************************************)
(* The stream under the collection.                                        *)
(***************************************************************************)
\* Every step of the composed system is one of the stream, or a fault that only
\* the collection notices.
LEMMA StreamUnderneath ==
  ASSUME TypeOK, SessionInv, [CollectionNext]_allVars
  PROVE  [Next]_vars \/ (Fault /\ UNCHANGED <<database, runtime, phase>>)
<1>1. ASSUME NEW rows \in Content, Write(rows) PROVE Next
  <2>1. Commit({Source}) /\ {Source} \in SUBSET Tables
    BY <1>1, SourceAssumption DEF Write, RowChange
  <2> QED BY <2>1 DEF Next
<1>2. CASE BecomeVisible
  BY <1>2 DEF BecomeVisible
<1>3. CASE StreamStep
  <2>1. CASE \E S \in SUBSET Tables : Start(S)
    BY <2>1 DEF Next
  <2>2. CASE RotateAndSeed(SeededBy(slot \div 2))
    BY <2>2, SeededTables DEF Next
  <2>3. CASE SlotLost \/ ResumeRecreate \/ SkipReplay \/ Ingest \/ AckArrives
    BY <2>3 DEF Next
  <2> QED BY <1>3, <2>1, <2>2, <2>3 DEF StreamStep
<1>4. CASE BackfillReached
  <2>1. AdoptRotation \/ CreateSlot
    BY <1>4 DEF BackfillReached
  <2> QED BY <2>1 DEF Next
<1>5. CASE CreateDurableSlot
  BY <1>5 DEF CreateDurableSlot, Next
<1>6. CASE LaunchRebaseline
  BY <1>6 DEF LaunchRebaseline
<1>7. CASE Resume
  <2> DEFINE S == {t \in SeededBy(visible) : events[t] = {}}
  <2>1. ResumeAdopt(S) /\ S \in SUBSET Tables
    BY <1>7, SeededTables DEF Resume
  <2> HIDE DEF S
  <2> QED BY <2>1 DEF Next
<1>8. CASE OpenStreamAndReady
  BY <1>8 DEF OpenStreamAndReady, Next
<1>9. CASE Deliver
  <2>1. EmitStep
    BY <1>9 DEF Deliver, Emit, EmitOnly, EmitStep, SessionInv
  <2> QED BY <2>1 DEF Next
<1>10. CASE BackfillAborts
  BY <1>10 DEF BackfillAborts, Next
<1>11. CASE Disconnected
  BY <1>11 DEF Disconnected, Next
<1>12. CASE StopRuntime
  BY <1>12 DEF StopRuntime, Next
<1>13. CASE CrashProcess
  BY <1>13 DEF CrashProcess, Next
<1>14. CASE Create \/ ReadWatermark \/ SelectBaseline \/ FinishHandshake \/ Dispose
  BY <1>14 DEF Create, ReadWatermark, SelectBaseline, FinishHandshake, Dispose
<1>15. CASE FailHandshake
  BY <1>15 DEF FailHandshake
<1>16. CASE UNCHANGED allVars
  BY <1>16 DEF allVars
<1> QED
  BY <1>1, <1>2, <1>3, <1>4, <1>5, <1>6, <1>7, <1>8, <1>9, <1>10, <1>11, <1>12,
     <1>13, <1>14, <1>15, <1>16 DEF CollectionNext

\* The stream's invariant holds under the collection.
LEMMA StreamKept ==
  TypeOK /\ StreamInv /\ [CollectionNext]_allVars => TypeOK' /\ StreamInv'
<1>1. StreamInv => SessionInv
  BY DEF StreamInv
<1> QED BY <1>1, StreamUnderneath, TypeStep, StreamInvStep, FaultKeepsStream

(***************************************************************************)
(* Types.                                                                  *)
(***************************************************************************)
\* The commit a position is the end of.
LEMMA EndOfCommit ==
  ASSUME NEW i \in Int
  PROVE  EndLsn(i) \in Int /\ EndLsn(i) \div 2 = i
BY DEF EndLsn

\* A slot that stands at the end of a commit names one of the source's commits.
LEMMA SlotCommit ==
  ASSUME TypeOK, PositionInv, ConnectionInv, slot # NoLsn
  PROVE  slot \div 2 \in 0..Len(wal) /\ slot = EndLsn(slot \div 2)
<1>1. Len(wal) \in Nat /\ slot \in Int
  BY DEF TypeOK
<1>2. slot = 2 * (slot \div 2) /\ 0 <= slot /\ slot <= 2 * Len(wal) /\ slot \div 2 \in Int
  BY <1>1 DEF ConnectionInv, PositionInv, EndLsn, NoLsn
<1> QED BY <1>1, <1>2 DEF EndLsn

\* A query moves a read to its next stage.
LEMMA RereadType ==
  ASSUME reads \subseteq Read, NEW r \in reads, NEW s \in Read, Reread(r, s)
  PROVE  reads' \subseteq Read
BY DEF Reread

\* A collection starts in its type, with an empty core.
LEMMA CollectionTypeInit == CollectionInit => CollectionTypeOK
<1> SUFFICES ASSUME CollectionInit PROVE CollectionTypeOK
  OBVIOUS
<1>1. history \in Seq(Content)
  BY EmptyContent DEF CollectionInit, SourceInit
<1>2. buffer \in Seq(Nat) /\ core \in Content
  BY EmptyContent DEF CollectionInit
<1>3. /\ visible \in Nat /\ round \in Nat /\ handshakeGen \in Nat /\ watermarkFloor \in Int
      /\ basePos \in Nat /\ lagFrom \in Nat
  BY DEF CollectionInit, NoLsn
<1>4. /\ started \in BOOLEAN /\ captured \in BOOLEAN /\ disposed \in BOOLEAN
      /\ baselining \in BOOLEAN /\ synced \in BOOLEAN /\ reads \subseteq Read
      /\ promise \in {"none", "pending", "resolved", "rejected"}
  BY DEF CollectionInit
<1> QED BY <1>1, <1>2, <1>3, <1>4 DEF CollectionTypeOK

\* A handshake begins with every variable in its type.
LEMMA BeginType ==
  ASSUME TypeOK, CollectionTypeOK, NEW kind \in {"initial", "rebaseline"},
         NEW exported \in BOOLEAN, exported => slot \div 2 \in Nat,
         BeginHandshake(kind, exported),
         UNCHANGED <<history, visible, started, promise, disposed>>,
         round' \in Nat, captured' \in BOOLEAN
  PROVE  CollectionTypeOK'
<1> DEFINE r == [gen |-> handshakeGen', kind |-> kind,
                 stage |-> IF exported THEN "answered" ELSE "watermark",
                 watermark |-> IF exported THEN slot ELSE NoLsn,
                 seen |-> IF exported THEN slot \div 2 ELSE 0,
                 pos |-> IF exported THEN slot \div 2 ELSE 0]
<1>1. handshakeGen' \in Nat /\ baselining' = TRUE /\ reads' = reads \union {r}
  BY DEF CollectionTypeOK, BeginHandshake
<1>2. r \in Read
  BY <1>1 DEF TypeOK, Read, NoLsn
<1>3. buffer' \in Seq(Nat)
  BY DEF BeginHandshake
<1>4. reads' \subseteq Read
  <2> HIDE DEF r
  <2> QED BY <1>1, <1>2 DEF CollectionTypeOK
<1> QED BY <1>1, <1>3, <1>4 DEF CollectionTypeOK, BeginHandshake

\* Steps that leave the collection's own variables alone.
LEMMA QuietType ==
  ASSUME CollectionTypeOK, UNCHANGED collection, history' \in Seq(Content),
         visible' \in Nat, started' \in BOOLEAN, captured' \in BOOLEAN, round' \in Nat
  PROVE  CollectionTypeOK'
BY DEF CollectionTypeOK, collection, handshake

\* Every step keeps every variable in its type.
LEMMA CollectionTypeStep ==
  ASSUME TypeOK, TypeOK', PositionInv, ConnectionInv, CollectionTypeOK,
         [CollectionNext]_allVars
  PROVE  CollectionTypeOK'
<1>h. history \in Seq(Content)
  BY DEF CollectionTypeOK
<1>t. /\ visible \in Nat /\ started \in BOOLEAN
      /\ captured \in BOOLEAN /\ round \in Nat /\ handshakeGen \in Nat
      /\ Len(wal) \in Nat /\ Len(wal') \in Nat /\ sent \in Nat
  BY DEF TypeOK, CollectionTypeOK
<1>p. /\ promise \in {"none", "pending", "resolved", "rejected"}
      /\ disposed \in BOOLEAN /\ reads \subseteq Read
      /\ synced \in BOOLEAN /\ baselining \in BOOLEAN
  BY DEF CollectionTypeOK
<1>1. ASSUME NEW rows \in Content, Write(rows) PROVE CollectionTypeOK'
  <2>1. history' \in Seq(Content)
    BY <1>1, <1>h DEF Write, RowChange
  <2> QED BY <1>1, <1>t, <1>h, <2>1, QuietType DEF Write, rounds
<1>2. CASE BecomeVisible
  BY <1>2, <1>t, <1>h, QuietType DEF BecomeVisible, rounds
<1>3. CASE StreamStep
  BY <1>3, <1>t, <1>h, QuietType DEF StreamStep, rounds, database2
<1>4. CASE BackfillReached
  <2>1. captured' \in BOOLEAN
    BY <1>4 DEF BackfillReached, TypeOK, Registered, CollectionTypeOK
  <2> QED BY <1>4, <1>t, <1>h, <2>1, QuietType DEF BackfillReached, database2
<1>5. CASE CreateDurableSlot
  BY <1>5, <1>t, <1>h, QuietType DEF CreateDurableSlot, rounds, database2
<1>6. CASE LaunchRebaseline
  <2>1. slot \div 2 \in Nat
    BY <1>6, SlotCommit DEF LaunchRebaseline, ConnectionInv
  <2>2. UNCHANGED <<history, visible, started, promise, disposed>>
    BY <1>6 DEF LaunchRebaseline, database2
  <2>3. round' \in Nat
    BY <1>6, <1>t DEF LaunchRebaseline
  <2>4. captured' \in BOOLEAN
    BY <1>6 DEF LaunchRebaseline
  <2>5. BeginHandshake("rebaseline", TRUE)
    BY <1>6 DEF LaunchRebaseline
  <2> QED BY <2>1, <2>2, <2>3, <2>4, <2>5, BeginType
<1>7. CASE Resume
  <2>1. UNCHANGED <<history, visible, started, captured, promise, disposed>>
    BY <1>7 DEF Resume, database2
  <2>2. CASE hasStreamed /\ Registered
    <3>1. round' = handshakeGen + 1 /\ BeginHandshake("rebaseline", FALSE)
      BY <1>7, <2>2 DEF Resume
    <3>2. round' \in Nat
      BY <1>t, <3>1
    <3> QED BY <1>t, <1>h, <2>1, <3>1, <3>2, BeginType
  <2>3. CASE ~(hasStreamed /\ Registered)
    BY <1>7, <1>t, <1>h, <2>1, <2>3, QuietType DEF Resume, collection
  <2> QED BY <2>2, <2>3
<1>8. CASE OpenStreamAndReady
  BY <1>8, <1>t, <1>h, QuietType DEF OpenStreamAndReady, database2
<1>9. CASE Deliver
  <2>1. HandleTap(sent + 1)
        /\ UNCHANGED <<history, visible, started, captured, round, promise, disposed>>
    BY <1>9 DEF Deliver, database2, rounds
  <2>2. core' \in Content
    BY <2>1, AppliedContent DEF HandleTap, CollectionTypeOK
  <2>3. buffer' \in Seq(Nat)
    BY <1>t, <2>1 DEF HandleTap, CollectionTypeOK
  <2> QED BY <2>1, <2>2, <2>3 DEF HandleTap, CollectionTypeOK
<1>10. CASE BackfillAborts
  BY <1>10, <1>t, <1>h, QuietType DEF BackfillAborts, database2
<1>11. CASE Disconnected
  BY <1>11, <1>t, <1>h, QuietType DEF Disconnected, database2
<1>12. CASE StopRuntime
  BY <1>12 DEF StopRuntime, database2, rounds, handshake, CollectionTypeOK, Registered
<1>13. CASE CrashProcess
  <2>1. buffer' \in Seq(Nat) /\ core' \in Content
    BY <1>13, EmptyContent DEF CrashProcess, NoCollection, Empty, Content
  <2>2. /\ promise' = "none" /\ disposed' = FALSE /\ baselining' = FALSE
        /\ synced' = FALSE /\ handshakeGen' = 0 /\ watermarkFloor' = -1
        /\ basePos' = 0 /\ lagFrom' = 0 /\ reads' = {}
        /\ started' = FALSE /\ captured' = FALSE /\ round' = 0
        /\ UNCHANGED <<history, visible>>
    BY <1>13 DEF CrashProcess, NoCollection, database2, NoLsn
  <2>3. /\ handshakeGen' \in Nat /\ watermarkFloor' \in Int /\ round' \in Nat
        /\ basePos' \in Nat /\ lagFrom' \in Nat /\ reads' \subseteq Read
    BY <2>2
  <2> QED BY <1>t, <1>h, <2>1, <2>2, <2>3 DEF CollectionTypeOK
<1>14. CASE Create
  <2>1. buffer' \in Seq(Nat) /\ core' \in Content
    BY <1>14, EmptyContent DEF Create
  <2>2. reads' \subseteq Read
    BY <1>14 DEF Create, Read, NoLsn
  <2>3. /\ promise' = "pending" /\ disposed' = FALSE /\ baselining' = TRUE
        /\ synced' = FALSE /\ handshakeGen' = 1 /\ watermarkFloor' = -1
        /\ basePos' = 0 /\ lagFrom' = 0
        /\ UNCHANGED <<history, visible, started, captured, round>>
    BY <1>14 DEF Create, database2, rounds, NoLsn
  <2>4. /\ handshakeGen' \in Nat /\ watermarkFloor' \in Int
        /\ basePos' \in Nat /\ lagFrom' \in Nat
    BY <2>3
  <2> QED BY <1>t, <1>h, <2>1, <2>2, <2>3, <2>4 DEF CollectionTypeOK
<1>15. CASE ReadWatermark
  <2>1. PICK r \in reads :
          Reread(r, [r EXCEPT !.stage = "select", !.watermark = EndLsn(Len(wal)),
                              !.seen = visible])
    BY <1>15 DEF ReadWatermark
  <2>2. [r EXCEPT !.stage = "select", !.watermark = EndLsn(Len(wal)), !.seen = visible]
          \in Read
    <3>1. EndLsn(Len(wal)) \in Int /\ r \in Read
      BY <1>t, <1>p DEF EndLsn
    <3> QED BY <1>t, <3>1 DEF Read
  <2>3. reads' \subseteq Read
    BY <2>1, <2>2, RereadType DEF CollectionTypeOK
  <2> QED BY <1>15, <2>3 DEF ReadWatermark, database2, rounds, CollectionTypeOK
<1>16. CASE SelectBaseline
  <2>1. PICK r \in reads : Reread(r, [r EXCEPT !.stage = "answered", !.pos = visible])
    BY <1>16 DEF SelectBaseline
  <2>2. [r EXCEPT !.stage = "answered", !.pos = visible] \in Read
    BY <1>t, <1>p DEF Read
  <2>3. reads' \subseteq Read
    BY <2>1, <2>2, RereadType DEF CollectionTypeOK
  <2> QED BY <1>16, <2>3 DEF SelectBaseline, database2, rounds, CollectionTypeOK
<1>17. CASE FinishHandshake
  <2>1. PICK r \in reads :
          /\ reads' = reads \ {r} /\ Settled(r, "resolved")
          /\ IF Superseded(r)
             THEN UNCHANGED <<core, baselining, buffer, watermarkFloor, basePos, lagFrom,
                              synced>>
             ELSE /\ core' = Drained(ViewAt(r.pos), r.watermark)
                  /\ baselining' = FALSE /\ buffer' = <<>>
                  /\ watermarkFloor' = r.watermark
                  /\ basePos' = r.pos /\ lagFrom' = r.seen /\ synced' = TRUE
    BY <1>17 DEF FinishHandshake
  <2>2. promise' \in {"none", "pending", "resolved", "rejected"}
    BY <2>1, <1>p DEF Settled
  <2>3. UNCHANGED <<history, visible, started, captured, round, disposed, handshakeGen>>
    BY <1>17 DEF FinishHandshake, database2, rounds
  <2>4. Drained(ViewAt(r.pos), r.watermark) \in Content
    BY ViewContent, DrainedContent DEF CollectionTypeOK
  <2>5. r.watermark \in Int /\ r.pos \in Nat /\ r.seen \in Nat
    BY DEF CollectionTypeOK, Read
  <2>6. buffer' \in Seq(Nat)
    <3>1. buffer' = buffer \/ buffer' = <<>>
      BY <2>1
    <3>2. <<>> \in Seq(Nat) /\ buffer \in Seq(Nat)
      BY DEF CollectionTypeOK
    <3> QED BY <3>1, <3>2, Zenon
  <2> QED BY <2>1, <2>2, <2>3, <2>4, <2>5, <2>6 DEF CollectionTypeOK
<1>18. CASE FailHandshake
  <2>1. PICK r \in reads :
          /\ reads' = reads \ {r} /\ Settled(r, "rejected")
          /\ disposed' = (disposed \/ r.kind = "initial")
          /\ \/ UNCHANGED <<baselining, buffer, synced>>
             \/ baselining' = FALSE /\ buffer' = <<>> /\ synced' = FALSE
          /\ UNCHANGED <<core, watermarkFloor, basePos, lagFrom>>
    BY <1>18 DEF FailHandshake
  <2>2. promise' \in {"none", "pending", "resolved", "rejected"}
    BY <2>1, <1>p DEF Settled
  <2>3. UNCHANGED <<history, visible, started, captured, round, handshakeGen>>
    BY <1>18 DEF FailHandshake, database2, rounds
  <2>4. buffer' \in Seq(Nat)
    <3>1. buffer' = buffer \/ buffer' = <<>>
      BY <2>1
    <3>2. <<>> \in Seq(Nat) /\ buffer \in Seq(Nat)
      BY DEF CollectionTypeOK
    <3> QED BY <3>1, <3>2, Zenon
  <2> QED BY <2>1, <2>2, <2>3, <2>4 DEF CollectionTypeOK
<1>19. CASE Dispose
  BY <1>19 DEF Dispose, database2, rounds, handshake, CollectionTypeOK
<1>20. CASE UNCHANGED allVars
  BY <1>20, <1>t, <1>h, QuietType DEF allVars, database2, rounds
<1> QED
  BY <1>1, <1>2, <1>3, <1>4, <1>5, <1>6, <1>7, <1>8, <1>9, <1>10, <1>11, <1>12, <1>13,
     <1>14, <1>15, <1>16, <1>17, <1>18, <1>19, <1>20 DEF CollectionNext

(***************************************************************************)
(* What the collection's own steps do to its reads.                        *)
(***************************************************************************)
\* The fields of a read in flight.
LEMMA ReadFields ==
  ASSUME CollectionTypeOK, NEW r \in reads
  PROVE  /\ r \in Read /\ r.gen \in Nat /\ r.kind \in {"initial", "rebaseline"}
         /\ r.stage \in {"watermark", "select", "answered"}
         /\ r.watermark \in Int /\ r.seen \in Nat /\ r.pos \in Nat
BY DEF CollectionTypeOK, Read

\* What is left alone when a query of a handshake is answered.
QueryFrame ==
  UNCHANGED <<vars, history, visible, started, captured, round, promise, disposed, core,
              baselining, buffer, handshakeGen, watermarkFloor, basePos, lagFrom, synced>>

\* The answer to SELECT pg_current_wal_lsn().
LEMMA WatermarkAnswer ==
  ASSUME TypeOK, CollectionTypeOK, ReadWatermark
  PROVE  /\ QueryFrame
         /\ \E r \in reads, s \in Read :
              /\ reads' = (reads \ {r}) \union {s}
              /\ s.gen = r.gen /\ s.kind = r.kind
              /\ s.stage = "select" /\ s.watermark = EndLsn(Len(wal)) /\ s.seen = visible
<1>1. PICK r \in reads :
        Reread(r, [r EXCEPT !.stage = "select", !.watermark = EndLsn(Len(wal)),
                            !.seen = visible])
  BY DEF ReadWatermark
<1> DEFINE s == [r EXCEPT !.stage = "select", !.watermark = EndLsn(Len(wal)),
                          !.seen = visible]
<1>2. EndLsn(Len(wal)) \in Int /\ visible \in Nat /\ r \in Read
  BY DEF TypeOK, CollectionTypeOK, EndLsn
<1>3. /\ s \in Read /\ s.gen = r.gen /\ s.kind = r.kind
      /\ s.stage = "select" /\ s.watermark = EndLsn(Len(wal)) /\ s.seen = visible
  BY <1>2 DEF Read
<1>4. reads' = (reads \ {r}) \union {s}
  BY <1>1 DEF Reread
<1>5. QueryFrame
  BY DEF ReadWatermark, QueryFrame, database2, rounds
<1> HIDE DEF s
<1> QED BY <1>3, <1>4, <1>5

\* The answer to the baseline SELECT.
LEMMA SelectAnswer ==
  ASSUME CollectionTypeOK, SelectBaseline
  PROVE  /\ QueryFrame
         /\ \E r \in reads, s \in Read :
              /\ reads' = (reads \ {r}) \union {s}
              /\ r.stage = "select"
              /\ s.gen = r.gen /\ s.kind = r.kind
              /\ s.stage = "answered" /\ s.watermark = r.watermark /\ s.seen = r.seen
              /\ s.pos = visible
<1>1. PICK r \in reads :
        /\ r.stage = "select"
        /\ Reread(r, [r EXCEPT !.stage = "answered", !.pos = visible])
  BY DEF SelectBaseline
<1> DEFINE s == [r EXCEPT !.stage = "answered", !.pos = visible]
<1>2. visible \in Nat /\ r \in Read
  BY DEF CollectionTypeOK
<1>3. /\ s \in Read /\ s.gen = r.gen /\ s.kind = r.kind
      /\ s.stage = "answered" /\ s.watermark = r.watermark /\ s.seen = r.seen
      /\ s.pos = visible
  BY <1>2 DEF Read
<1>4. reads' = (reads \ {r}) \union {s}
  BY <1>1 DEF Reread
<1>5. QueryFrame
  BY DEF SelectBaseline, QueryFrame, database2, rounds
<1> HIDE DEF s
<1> QED BY <1>1, <1>3, <1>4, <1>5

\* Either answer leaves every read its generation and kind.
LEMMA QueryAnswer ==
  ASSUME TypeOK, CollectionTypeOK, ReadWatermark \/ SelectBaseline
  PROVE  /\ QueryFrame
         /\ \E r \in reads, s \in Read :
              reads' = (reads \ {r}) \union {s} /\ s.gen = r.gen /\ s.kind = r.kind
<1>1. CASE ReadWatermark
  BY <1>1, WatermarkAnswer
<1>2. CASE SelectBaseline
  BY <1>2, SelectAnswer
<1> QED BY <1>1, <1>2

\* What is left alone when a handshake ends.
EndFrame ==
  UNCHANGED <<database, runtime, phase, history, visible, started, captured, round,
              handshakeGen>>

\* The end of a handshake, applied.
LEMMA HandshakeFinished ==
  ASSUME FinishHandshake
  PROVE  /\ EndFrame /\ UNCHANGED disposed
         /\ \E r \in reads :
              /\ r.stage = "answered" /\ reads' = reads \ {r} /\ Settled(r, "resolved")
              /\ \/ /\ r.gen # handshakeGen
                    /\ UNCHANGED <<core, baselining, buffer, watermarkFloor, basePos, lagFrom,
                                   synced>>
                 \/ /\ r.gen = handshakeGen
                    /\ core' = Drained(ViewAt(r.pos), r.watermark)
                    /\ baselining' = FALSE /\ buffer' = <<>> /\ synced' = TRUE
                    /\ watermarkFloor' = r.watermark /\ basePos' = r.pos
                    /\ lagFrom' = r.seen
<1>1. EndFrame /\ UNCHANGED disposed
  BY DEF FinishHandshake, EndFrame, vars, database2, rounds
<1>2. PICK r \in reads :
        /\ r.stage = "answered" /\ reads' = reads \ {r} /\ Settled(r, "resolved")
        /\ IF Superseded(r)
           THEN UNCHANGED <<core, baselining, buffer, watermarkFloor, basePos, lagFrom,
                            synced>>
           ELSE /\ core' = Drained(ViewAt(r.pos), r.watermark)
                /\ baselining' = FALSE /\ buffer' = <<>>
                /\ watermarkFloor' = r.watermark
                /\ basePos' = r.pos /\ lagFrom' = r.seen /\ synced' = TRUE
  BY DEF FinishHandshake
<1> QED BY <1>1, <1>2 DEF Superseded

\* The end of a handshake, failed.
LEMMA HandshakeFailed ==
  ASSUME FailHandshake
  PROVE  /\ EndFrame /\ UNCHANGED <<core, watermarkFloor, basePos, lagFrom>>
         /\ \E r \in reads :
              /\ reads' = reads \ {r} /\ Settled(r, "rejected")
              /\ disposed' = (disposed \/ r.kind = "initial")
              /\ \/ r.gen # handshakeGen /\ UNCHANGED <<baselining, buffer, synced>>
                 \/ /\ r.gen = handshakeGen
                    /\ baselining' = FALSE /\ buffer' = <<>> /\ synced' = FALSE
<1>1. EndFrame /\ UNCHANGED <<core, watermarkFloor, basePos, lagFrom>>
  BY DEF FailHandshake, EndFrame, database2, rounds
<1>2. PICK r \in reads :
        /\ reads' = reads \ {r} /\ Settled(r, "rejected")
        /\ disposed' = (disposed \/ r.kind = "initial")
        /\ IF Superseded(r) THEN UNCHANGED <<baselining, buffer, synced>>
           ELSE baselining' = FALSE /\ buffer' = <<>> /\ synced' = FALSE
  BY DEF FailHandshake
<1> QED BY <1>1, <1>2 DEF Superseded

(***************************************************************************)
(* The frame of the invariant, one part at a time.                         *)
(***************************************************************************)
\* Only a commit extends the source's history.
LEMMA HistoryKept ==
  ASSUME [CollectionNext]_allVars
  PROVE  \/ \E rows \in Content : Write(rows)
         \/ /\ UNCHANGED <<wal, history>>
            /\ visible' = visible \/ visible' = Len(wal)
<1> USE DEF database, vars, database2
<1>3. CASE StreamStep
  BY <1>3 DEF StreamStep, SlotLost, Start, ResumeRecreate, RotateAndSeed, SkipReplay,
              Ingest, AckArrives
<1>4. CASE BackfillReached \/ CreateDurableSlot \/ OpenStreamAndReady \/ Deliver
  BY <1>4 DEF BackfillReached, AdoptRotation, CreateSlot, CreateDurableSlot,
              OpenStreamAndReady, OpenStream, Deliver, Emit, EmitOnly
<1>5. CASE Resume
  BY <1>5 DEF Resume, ResumeAdopt
<1>6. CASE BackfillAborts \/ Disconnected \/ StopRuntime \/ CrashProcess
  BY <1>6 DEF BackfillAborts, BackfillFails, Disconnected, Disconnect, StopRuntime, Stop,
              CrashProcess, Crash
<1>7. CASE BecomeVisible \/ LaunchRebaseline \/ Create \/ ReadWatermark
           \/ SelectBaseline \/ FinishHandshake \/ FailHandshake \/ Dispose
  BY <1>7 DEF BecomeVisible, LaunchRebaseline, Create, ReadWatermark, SelectBaseline,
              FinishHandshake, FailHandshake, Dispose
<1>8. CASE UNCHANGED allVars
  BY <1>8 DEF allVars
<1> QED BY <1>3, <1>4, <1>5, <1>6, <1>7, <1>8 DEF CollectionNext

\* The history is recorded commit by commit, and only its last commit may be
\* invisible.
LEMMA HistoryStep ==
  ASSUME TypeOK, CollectionTypeOK, HistoryInv, [CollectionNext]_allVars
  PROVE  HistoryInv'
<1>1. Len(wal) \in Nat /\ visible \in Nat
  BY DEF TypeOK, CollectionTypeOK
<1>2. ASSUME NEW rows \in Content, Write(rows) PROVE HistoryInv'
  <2>1. wal' = Append(wal, {Source}) /\ history' = Append(history, rows)
    BY <1>2 DEF Write, RowChange, Commit
  <2>2. Len(wal') = Len(wal) + 1 /\ Len(history') = Len(history) + 1
    BY <2>1 DEF TypeOK, CollectionTypeOK
  <2>3. visible = Len(wal) /\ (visible' = visible \/ visible' = Len(wal'))
    BY <1>2 DEF Write
  <2> QED BY <1>1, <2>2, <2>3 DEF HistoryInv
<1>3. CASE UNCHANGED <<wal, history>> /\ (visible' = visible \/ visible' = Len(wal))
  BY <1>1, <1>3 DEF HistoryInv
<1> QED BY <1>2, <1>3, HistoryKept

\* A slot stands at the end of a commit, a connect past its slot has one, and
\* the commit that is being emitted is no replay (IsReplay's guard on Ingest).
LEMMA ConnectionStep ==
  ASSUME TypeOK, PositionInv, SessionInv, ConnectionInv, [Next]_vars
  PROVE  ConnectionInv'
<1>t. Len(wal) \in Nat /\ sent \in Nat /\ slot \in Int /\ lastPersisted \in Int
  BY DEF TypeOK
<1> USE <1>t DEF ConnectionInv, NoLsn, EndLsn, CommitLsn
<1>1. ASSUME NEW S \in SUBSET Tables, Commit(S) PROVE ConnectionInv'
  BY <1>1 DEF Commit, runtime
<1>2. CASE SlotLost
  BY <1>2 DEF SlotLost, runtime
<1>3. ASSUME NEW S \in SUBSET Tables, Start(S) PROVE ConnectionInv'
  BY <1>3 DEF Start
<1>4. CASE CreateSlot
  BY <1>4 DEF CreateSlot, runtime
<1>5. ASSUME NEW S \in SUBSET Tables, RotateAndSeed(S) PROVE ConnectionInv'
  BY <1>5 DEF RotateAndSeed, runtime
<1>6. CASE AdoptRotation
  BY <1>6 DEF AdoptRotation, database
<1>7. CASE ResumeRecreate
  BY <1>7 DEF ResumeRecreate, runtime
<1>8. ASSUME NEW S \in SUBSET Tables, ResumeAdopt(S) PROVE ConnectionInv'
  BY <1>8 DEF ResumeAdopt
<1>9. CASE OpenStream
  BY <1>9 DEF OpenStream, database
<1>10. CASE SkipReplay
  BY <1>10 DEF SkipReplay, database
<1>11. CASE Ingest
  BY <1>11 DEF Ingest, IsReplay, runtime
<1>12. CASE EmitStep
  BY <1>12 DEF EmitStep, Emit, EmitOnly, database
<1>13. CASE AckArrives
  BY <1>13 DEF AckArrives, runtime
<1>14. CASE BackfillFails \/ Disconnect
  BY <1>14 DEF BackfillFails, Disconnect, SlotAfterClose, runtime
<1>15. CASE Stop
  BY <1>15 DEF Stop, runtime
<1>16. CASE Crash
  BY <1>16 DEF Crash, SlotAfterClose
<1>17. CASE UNCHANGED vars
  BY <1>17 DEF vars, database, runtime
<1> QED
  BY <1>1, <1>2, <1>3, <1>4, <1>5, <1>6, <1>7, <1>8, <1>9, <1>10, <1>11, <1>12, <1>13,
     <1>14, <1>15, <1>16, <1>17 DEF Next

\* A handshake ends while its owner has the collection or has disposed it; it
\* cannot bring a collection to life.
LEMMA SettledOwner ==
  ASSUME CollectionTypeOK, OwnerInv, NEW r \in reads, NEW outcome \in {"resolved", "rejected"},
         Settled(r, outcome), disposed' = disposed \/ disposed' = TRUE
  PROVE  /\ promise # "none" /\ promise' # "none"
         /\ Registered' => Registered
<1>1. promise \in {"none", "pending", "resolved", "rejected"} /\ disposed \in BOOLEAN
  BY DEF CollectionTypeOK
<1>2. promise # "none" /\ (promise = "rejected" => disposed)
  BY DEF OwnerInv
<1> QED BY <1>1, <1>2 DEF Settled, Registered

\* The owner's promise, the reads in flight and the runtime agree on how far the
\* collection is: one that exists has been created by a stream that opened, when
\* clients wait for start().
LEMMA OwnerStep ==
  ASSUME TypeOK, CollectionTypeOK, OwnerInv, [CollectionNext]_allVars
  PROVE  OwnerInv'
<1>p. /\ promise \in {"none", "pending", "resolved", "rejected"}
      /\ disposed \in BOOLEAN /\ hasStreamed \in BOOLEAN
      /\ started \in BOOLEAN /\ captured \in BOOLEAN /\ AwaitStart \in BOOLEAN
  BY CollectionAssumption DEF TypeOK, CollectionTypeOK
<1> DEFINE Kept == UNCHANGED <<promise, disposed, reads, captured, hasStreamed, started>>
<1>0. Kept => OwnerInv'
  BY DEF OwnerInv, Registered
<1>1. ASSUME NEW rows \in Content, Write(rows) PROVE Kept
  BY <1>1 DEF Write, RowChange, Commit, runtime, rounds, collection, handshake
<1>2. CASE BecomeVisible
  <2>1. Kept
    BY <1>2 DEF BecomeVisible, vars, runtime, rounds, collection, handshake
  <2> QED BY <2>1, <1>0
<1>3. CASE StreamStep
  <2>1. UNCHANGED hasStreamed
    BY <1>3 DEF StreamStep, SlotLost, Start, ResumeRecreate, RotateAndSeed, SkipReplay,
                Ingest, AckArrives, runtime
  <2>2. Kept
    BY <1>3, <2>1 DEF StreamStep, rounds, collection, handshake
  <2> QED BY <2>2, <1>0
<1>4. CASE BackfillReached
  <2>1. UNCHANGED <<promise, disposed, reads, hasStreamed, started>>
    BY <1>4 DEF BackfillReached, AdoptRotation, CreateSlot, runtime, collection, handshake
  <2>2. captured' = (hasStreamed /\ Registered)
    BY <1>4 DEF BackfillReached
  <2> QED BY <1>p, <2>1, <2>2 DEF OwnerInv, Registered
<1>5. CASE CreateDurableSlot
  <2>1. Kept
    BY <1>5 DEF CreateDurableSlot, CreateSlot, runtime, rounds, collection, handshake
  <2> QED BY <2>1, <1>0
<1>6. CASE LaunchRebaseline
  <2>1. /\ UNCHANGED <<promise, disposed, hasStreamed, started>>
        /\ captured /\ captured' = FALSE
    BY <1>6 DEF LaunchRebaseline, vars, runtime
  <2> QED BY <1>p, <2>1 DEF OwnerInv, Registered
<1>7. CASE Resume
  <2>1. UNCHANGED <<promise, disposed, hasStreamed, started, captured>>
    BY <1>7 DEF Resume, ResumeAdopt
  <2>2. \/ UNCHANGED reads
        \/ hasStreamed /\ Registered
    BY <1>7 DEF Resume, handshake
  <2> QED BY <1>p, <2>1, <2>2 DEF OwnerInv, Registered
<1>8. CASE OpenStreamAndReady
  <2>1. UNCHANGED <<promise, disposed, reads, captured>> /\ hasStreamed' = TRUE
    BY <1>8 DEF OpenStreamAndReady, OpenStream, collection, handshake
  <2> QED BY <1>p, <2>1 DEF OwnerInv, Registered
<1>9. CASE Deliver
  <2>1. Kept
    BY <1>9 DEF Deliver, Emit, EmitOnly, HandleTap, rounds
  <2> QED BY <2>1, <1>0
<1>10. CASE BackfillAborts
  <2>1. UNCHANGED <<promise, disposed, reads, hasStreamed, started>> /\ captured' = FALSE
    BY <1>10 DEF BackfillAborts, BackfillFails, runtime, collection, handshake
  <2> QED BY <2>1 DEF OwnerInv, Registered
<1>11. CASE Disconnected
  <2>1. Kept
    BY <1>11 DEF Disconnected, Disconnect, runtime, collection, handshake
  <2> QED BY <2>1, <1>0
<1>12. CASE StopRuntime
  <2>1. /\ UNCHANGED <<promise, reads, hasStreamed, captured>>
        /\ started' = FALSE /\ disposed' = (disposed \/ Registered)
    BY <1>12 DEF StopRuntime, Stop, runtime, rounds, handshake
  <2> QED BY <1>p, <2>1 DEF OwnerInv, Registered
<1>13. CASE CrashProcess
  <2>1. promise' = "none" /\ reads' = {} /\ captured' = FALSE /\ started' = FALSE
    BY <1>13 DEF CrashProcess, NoCollection
  <2> QED BY <2>1 DEF OwnerInv, Registered
<1>14. CASE Create
  <2>1. /\ promise' = "pending" /\ disposed' = FALSE
        /\ UNCHANGED <<hasStreamed, captured, started>>
        /\ AwaitStart => started
        /\ ~captured
    BY <1>14 DEF Create, OwnerInv, vars, runtime, rounds
  <2>2. \A r \in reads' : r.kind = "initial"
    BY <1>14 DEF Create
  <2> QED BY <1>p, <2>1, <2>2 DEF OwnerInv, Registered
<1>15. CASE ReadWatermark \/ SelectBaseline
  <2>1. UNCHANGED <<promise, disposed, captured, hasStreamed, started>>
    BY <1>15, QueryAnswer DEF QueryFrame, vars, runtime
  <2>2. PICK r \in reads, s \in Read :
          reads' = (reads \ {r}) \union {s} /\ s.kind = r.kind
    BY <1>15, QueryAnswer
  <2> QED BY <1>p, <2>1, <2>2 DEF OwnerInv, Registered
<1>16. CASE FinishHandshake
  <2>1. PICK r \in reads : reads' = reads \ {r} /\ Settled(r, "resolved")
    BY <1>16, HandshakeFinished
  <2>2. UNCHANGED <<hasStreamed, captured, started, disposed>>
    BY <1>16, HandshakeFinished DEF EndFrame, runtime
  <2>3. promise' # "none" /\ (Registered' => Registered)
    BY <2>1, <2>2, SettledOwner
  <2>4. promise' = "rejected" => disposed
    BY <2>1 DEF Settled, OwnerInv
  <2> QED BY <1>p, <2>1, <2>2, <2>3, <2>4 DEF OwnerInv
<1>17. CASE FailHandshake
  <2>1. PICK r \in reads :
          /\ reads' = reads \ {r} /\ Settled(r, "rejected")
          /\ disposed' = (disposed \/ r.kind = "initial")
    BY <1>17, HandshakeFailed
  <2>2. UNCHANGED <<hasStreamed, captured, started>>
    BY <1>17, HandshakeFailed DEF EndFrame, runtime
  <2>3. promise' # "none" /\ (Registered' => Registered)
    BY <1>p, <2>1, <2>2, SettledOwner
  <2>4. promise' = "rejected" => disposed'
    BY <1>p, <2>1 DEF Settled, OwnerInv
  <2> QED BY <1>p, <2>1, <2>2, <2>3, <2>4 DEF OwnerInv
<1>18. CASE Dispose
  <2>1. /\ UNCHANGED <<promise, reads, captured, hasStreamed, started>>
        /\ disposed' = TRUE
    BY <1>18 DEF Dispose, vars, runtime, rounds, handshake
  <2> QED BY <2>1 DEF OwnerInv, Registered
<1>19. CASE UNCHANGED allVars
  <2>1. Kept
    BY <1>19 DEF allVars, vars, runtime, rounds, collection, handshake
  <2> QED BY <2>1, <1>0
<1> QED
  BY <1>0, <1>1, <1>2, <1>3, <1>4, <1>5, <1>6, <1>7, <1>8, <1>9, <1>10, <1>11, <1>12, <1>13,
     <1>14, <1>15, <1>16, <1>17, <1>18, <1>19 DEF CollectionNext

\* Nothing a handshake's ownership depends on has changed, or only towards a
\* connect that has not come to its round.
LEMMA HandshakeFrame ==
  ASSUME HandshakeInv, UNCHANGED <<reads, handshakeGen, baselining>>,
         Registered' => Registered,
         \/ UNCHANGED <<phase, captured, round>>
         \/ phase' \in {"stopped", "connecting", "rotating", "adopting"}
         \/ ~Registered'
  PROVE  HandshakeInv'
BY DEF HandshakeInv, InitialLoad

\* A read that is answered may be the factory's own.
LEMMA InitialLoadAnswer ==
  ASSUME InitialLoad, NEW r \in reads, NEW s \in Read,
         reads' = (reads \ {r}) \union {s}, s.gen = r.gen, s.kind = r.kind,
         UNCHANGED handshakeGen
  PROVE  InitialLoad'
<1>1. PICK q \in reads : q.kind = "initial" /\ q.gen = handshakeGen
  BY DEF InitialLoad
<1>2. CASE q = r
  BY <1>1, <1>2 DEF InitialLoad
<1>3. CASE q # r
  BY <1>1, <1>3 DEF InitialLoad
<1> QED BY <1>2, <1>3

\* A read that is answered keeps its handshake.
LEMMA HandshakeAnswer ==
  ASSUME CollectionTypeOK, HandshakeInv, NEW r \in reads, NEW s \in Read,
         reads' = (reads \ {r}) \union {s}, s.gen = r.gen, s.kind = r.kind,
         UNCHANGED <<handshakeGen, baselining, phase, captured, round, promise, disposed>>
  PROVE  HandshakeInv'
<1>1. InitialLoad => InitialLoad'
  BY InitialLoadAnswer
<1>2. \A q \in reads' : q.gen <= handshakeGen'
  BY DEF HandshakeInv
<1>3. baselining => \E q \in reads' : q.gen = handshakeGen
  <2> SUFFICES ASSUME NEW q \in reads, q.gen = handshakeGen
               PROVE  \E p \in reads' : p.gen = handshakeGen
    BY DEF HandshakeInv
  <2>1. CASE q = r
    BY <2>1
  <2>2. CASE q # r
    BY <2>2
  <2> QED BY <2>1, <2>2
<1>4. (\E q \in reads' : q.gen = handshakeGen) => baselining
  BY DEF HandshakeInv
<1>5. \A p, q \in reads' : p.gen = q.gen => p = q
  <2>1. \A p, q \in reads \ {r} : p.gen = q.gen => p = q
    BY DEF HandshakeInv
  <2>2. \A q \in reads \ {r} : q.gen # s.gen
    BY DEF HandshakeInv
  <2> QED BY <2>1, <2>2
<1> QED BY <1>1, <1>2, <1>3, <1>4, <1>5 DEF HandshakeInv, Registered

\* A handshake that ends without owning the collection leaves its owner's read.
LEMMA HandshakeSuperseded ==
  ASSUME HandshakeInv, NEW r \in reads, reads' = reads \ {r}, r.gen # handshakeGen,
         UNCHANGED <<handshakeGen, baselining, phase, captured, round>>,
         Registered' => Registered
  PROVE  HandshakeInv'
<1>1. InitialLoad => InitialLoad'
  BY DEF InitialLoad
<1>2. baselining => \E q \in reads' : q.gen = handshakeGen
  BY DEF HandshakeInv
<1> QED BY <1>1, <1>2 DEF HandshakeInv

\* A handshake that begins owns the collection; the one a connect's round began
\* is awaited by it.
LEMMA HandshakeBegun ==
  ASSUME CollectionTypeOK, HandshakeInv, NEW kind, NEW exported \in BOOLEAN,
         BeginHandshake(kind, exported), round' = handshakeGen + 1,
         phase' \in {"rebaselining", "resyncing"}
  PROVE  HandshakeInv'
<1>1. handshakeGen \in Nat /\ handshakeGen' = handshakeGen + 1
  BY DEF CollectionTypeOK, BeginHandshake
<1>2. PICK s : s.gen = handshakeGen' /\ reads' = reads \union {s}
  BY DEF BeginHandshake
<1>3. \A q \in reads : q.gen \in Nat /\ q.gen <= handshakeGen /\ q.gen # handshakeGen'
  BY <1>1, ReadFields DEF HandshakeInv
<1>4. \A q \in reads' : q.gen <= handshakeGen'
  BY <1>1, <1>2, <1>3
<1>5. \A p, q \in reads' : p.gen = q.gen => p = q
  BY <1>2, <1>3 DEF HandshakeInv
<1>6. baselining' = TRUE /\ \E q \in reads' : q.gen = handshakeGen'
  BY <1>2 DEF BeginHandshake
<1> QED BY <1>1, <1>4, <1>5, <1>6 DEF HandshakeInv

\* A collection that buffers has the read that will end it; once a connect has
\* come to its round it is the round's, or the factory's own, so the stream never
\* opens over a rebaseline (RoundSettled).
LEMMA HandshakeStep ==
  ASSUME TypeOK, CollectionTypeOK, SessionInv, OwnerInv, HandshakeInv,
         [CollectionNext]_allVars
  PROVE  HandshakeInv'
<1>p. /\ promise \in {"none", "pending", "resolved", "rejected"}
      /\ disposed \in BOOLEAN /\ hasStreamed \in BOOLEAN /\ baselining \in BOOLEAN
      /\ captured \in BOOLEAN /\ handshakeGen \in Nat
  BY DEF TypeOK, CollectionTypeOK
<1>o. ~hasStreamed /\ baselining => InitialLoad
  BY DEF OwnerInv, HandshakeInv, InitialLoad
<1> DEFINE Kept == UNCHANGED <<promise, disposed, reads, handshakeGen, baselining>>
<1>0. Kept => (Registered' = Registered)
  BY DEF Registered
<1>1. ASSUME NEW rows \in Content, Write(rows) PROVE HandshakeInv'
  <2>1. Kept /\ UNCHANGED <<phase, captured, round>>
    BY <1>1 DEF Write, RowChange, Commit, rounds, collection, handshake
  <2> QED BY <2>1, <1>0, HandshakeFrame
<1>2. CASE BecomeVisible
  <2>1. Kept /\ UNCHANGED <<phase, captured, round>>
    BY <1>2 DEF BecomeVisible, vars, rounds, collection, handshake
  <2> QED BY <2>1, <1>0, HandshakeFrame
<1>3. CASE StreamStep
  <2>1. Kept /\ UNCHANGED <<captured, round>>
    BY <1>3 DEF StreamStep, rounds, collection, handshake
  <2>2. CASE SlotLost \/ ResumeRecreate \/ SkipReplay \/ AckArrives
    <3>1. UNCHANGED phase
      BY <2>2 DEF SlotLost, ResumeRecreate, SkipReplay, AckArrives
    <3> QED BY <2>1, <3>1, <1>0, HandshakeFrame
  <2>3. CASE (\E S \in SUBSET Tables : Start(S)) \/ RotateAndSeed(SeededBy(slot \div 2))
    <3>1. phase' \in {"connecting", "adopting"}
      BY <2>3 DEF Start, RotateAndSeed
    <3> QED BY <2>1, <3>1, <1>0, HandshakeFrame
  <2>4. CASE Ingest
    <3>1. phase = "streaming" /\ phase' = "emitting"
      BY <2>4 DEF Ingest
    <3> QED BY <2>1, <3>1, <1>0 DEF HandshakeInv, InitialLoad
  <2> QED BY <1>3, <2>2, <2>3, <2>4 DEF StreamStep
<1>4. CASE BackfillReached
  <2>1. Kept /\ captured' = (hasStreamed /\ Registered) /\ UNCHANGED round
    BY <1>4 DEF BackfillReached, collection, handshake
  <2>2. phase' \in {"rotating", "rebaselining"}
    BY <1>4 DEF BackfillReached, AdoptRotation, CreateSlot
  <2>3. baselining /\ Registered => InitialLoad' \/ captured'
    BY <1>o, <2>1 DEF InitialLoad
  <2> QED BY <1>0, <2>1, <2>2, <2>3 DEF HandshakeInv
<1>5. CASE CreateDurableSlot
  <2>1. Kept /\ phase' = "rotating"
    BY <1>5 DEF CreateDurableSlot, CreateSlot, collection, handshake
  <2> QED BY <2>1, <1>0, HandshakeFrame
<1>6. CASE LaunchRebaseline
  <2>1. /\ BeginHandshake("rebaseline", TRUE) /\ round' = handshakeGen + 1
        /\ phase' = "rebaselining"
    BY <1>6 DEF LaunchRebaseline, vars
  <2> QED BY <2>1, HandshakeBegun
<1>7. CASE Resume
  <2>1. phase' = "resyncing" /\ UNCHANGED <<promise, disposed>>
    BY <1>7 DEF Resume, ResumeAdopt
  <2>2. CASE hasStreamed /\ Registered
    <3>1. BeginHandshake("rebaseline", FALSE) /\ round' = handshakeGen + 1
      BY <1>7, <2>2 DEF Resume
    <3> QED BY <2>1, <3>1, HandshakeBegun
  <2>3. CASE ~(hasStreamed /\ Registered)
    <3>1. Kept
      BY <1>7, <2>1, <2>3 DEF Resume, handshake
    <3>2. baselining /\ Registered => InitialLoad'
      BY <1>o, <2>3, <3>1 DEF InitialLoad
    <3> QED BY <1>0, <2>1, <3>1, <3>2 DEF HandshakeInv
  <2> QED BY <2>2, <2>3
<1>8. CASE OpenStreamAndReady
  <2>1. Kept /\ ~captured /\ \A r \in reads : r.gen # round
    BY <1>8 DEF OpenStreamAndReady, RoundSettled, collection, handshake
  <2>2. phase \in {"rebaselining", "resyncing"}
    BY <1>8 DEF OpenStreamAndReady, OpenStream
  <2>3. baselining /\ Registered => InitialLoad'
    BY <2>1, <2>2 DEF HandshakeInv, InitialLoad
  <2> QED BY <1>0, <2>1, <2>3 DEF HandshakeInv
<1>9. CASE Deliver
  <2>1. Kept
    BY <1>9 DEF Deliver, HandleTap
  <2>2. phase \in {"streaming", "emitting"}
    BY <1>9 DEF Deliver, Emit, EmitOnly
  <2>3. baselining /\ Registered => InitialLoad'
    BY <2>1, <2>2 DEF HandshakeInv, InitialLoad
  <2> QED BY <1>0, <2>1, <2>3 DEF HandshakeInv
<1>10. CASE BackfillAborts
  <2>1. Kept /\ phase' = "connecting"
    BY <1>10 DEF BackfillAborts, BackfillFails, collection, handshake
  <2> QED BY <2>1, <1>0, HandshakeFrame
<1>11. CASE Disconnected
  <2>1. Kept /\ phase' = "connecting"
    BY <1>11 DEF Disconnected, Disconnect, collection, handshake
  <2> QED BY <2>1, <1>0, HandshakeFrame
<1>12. CASE StopRuntime
  <2>1. /\ UNCHANGED <<reads, handshakeGen, baselining, promise>> /\ phase' = "stopped"
        /\ disposed' = (disposed \/ Registered)
    BY <1>12 DEF StopRuntime, Stop, handshake
  <2>2. Registered' => Registered
    BY <1>p, <2>1 DEF Registered
  <2> QED BY <2>1, <2>2, HandshakeFrame
<1>13. CASE CrashProcess
  <2>1. reads' = {} /\ baselining' = FALSE
    BY <1>13 DEF CrashProcess, NoCollection
  <2> QED BY <2>1 DEF HandshakeInv
<1>14. CASE Create
  <2>1. handshakeGen' = 1
    BY <1>14 DEF Create
  <2>2. PICK s : s.gen = 1 /\ s.kind = "initial" /\ reads' = {s}
    BY <1>14 DEF Create
  <2>3. baselining' = TRUE /\ InitialLoad'
    BY <1>14, <2>1, <2>2 DEF Create, InitialLoad
  <2> QED BY <2>1, <2>2, <2>3 DEF HandshakeInv
<1>15. CASE ReadWatermark \/ SelectBaseline
  <2>1. UNCHANGED <<handshakeGen, baselining, phase, captured, round, promise, disposed>>
    BY <1>15, QueryAnswer DEF QueryFrame, vars
  <2> QED BY <1>15, <2>1, QueryAnswer, HandshakeAnswer
<1>16. CASE FinishHandshake
  <2>1. PICK r \in reads :
          /\ reads' = reads \ {r} /\ Settled(r, "resolved")
          /\ \/ r.gen # handshakeGen /\ UNCHANGED baselining
             \/ r.gen = handshakeGen /\ baselining' = FALSE
    BY <1>16, HandshakeFinished
  <2>2. UNCHANGED <<handshakeGen, phase, captured, round, disposed>>
    BY <1>16, HandshakeFinished DEF EndFrame
  <2>3. Registered' => Registered
    BY <2>1, <2>2, SettledOwner
  <2>4. CASE r.gen # handshakeGen /\ UNCHANGED baselining
    BY <2>1, <2>2, <2>3, <2>4, HandshakeSuperseded
  <2>5. CASE r.gen = handshakeGen /\ baselining' = FALSE
    BY <2>1, <2>2, <2>5 DEF HandshakeInv
  <2> QED BY <2>1, <2>4, <2>5
<1>17. CASE FailHandshake
  <2>1. PICK r \in reads :
          /\ reads' = reads \ {r} /\ Settled(r, "rejected")
          /\ disposed' = (disposed \/ r.kind = "initial")
          /\ \/ r.gen # handshakeGen /\ UNCHANGED baselining
             \/ r.gen = handshakeGen /\ baselining' = FALSE
    BY <1>17, HandshakeFailed
  <2>2. UNCHANGED <<handshakeGen, phase, captured, round>>
    BY <1>17, HandshakeFailed DEF EndFrame
  <2>3. Registered' => Registered
    BY <1>p, <2>1, <2>2, SettledOwner
  <2>4. CASE r.gen # handshakeGen /\ UNCHANGED baselining
    BY <2>1, <2>2, <2>3, <2>4, HandshakeSuperseded
  <2>5. CASE r.gen = handshakeGen /\ baselining' = FALSE
    BY <2>1, <2>2, <2>5 DEF HandshakeInv
  <2> QED BY <2>1, <2>4, <2>5
<1>18. CASE Dispose
  <2>1. /\ UNCHANGED <<reads, handshakeGen, baselining, phase, captured, round>>
        /\ disposed' = TRUE
    BY <1>18 DEF Dispose, vars, rounds, handshake
  <2> QED BY <2>1, HandshakeFrame DEF Registered
<1>19. CASE UNCHANGED allVars
  <2>1. Kept /\ UNCHANGED <<phase, captured, round>>
    BY <1>19 DEF allVars, vars, rounds, collection, handshake
  <2> QED BY <2>1, <1>0, HandshakeFrame
<1> QED
  BY <1>1, <1>2, <1>3, <1>4, <1>5, <1>6, <1>7, <1>8, <1>9, <1>10, <1>11, <1>12, <1>13,
     <1>14, <1>15, <1>16, <1>17, <1>18, <1>19 DEF CollectionNext

\* The steps that touch the collection's closure.
LEMMA HandshakeKept ==
  ASSUME [CollectionNext]_allVars
  PROVE  \/ UNCHANGED handshake
         \/ LaunchRebaseline \/ (Resume /\ hasStreamed /\ Registered) \/ Deliver
         \/ CrashProcess \/ Create
         \/ ReadWatermark \/ SelectBaseline \/ FinishHandshake \/ FailHandshake
<1>1. ASSUME NEW rows \in Content, Write(rows) PROVE UNCHANGED handshake
  BY <1>1 DEF Write, collection
<1>2. CASE BecomeVisible \/ StreamStep \/ BackfillReached \/ CreateDurableSlot
           \/ OpenStreamAndReady \/ BackfillAborts \/ Disconnected
  BY <1>2 DEF BecomeVisible, StreamStep, BackfillReached, CreateDurableSlot,
              OpenStreamAndReady, BackfillAborts, Disconnected, collection
<1>3. CASE StopRuntime \/ Dispose
  BY <1>3 DEF StopRuntime, Dispose
<1>4. CASE Resume /\ ~(hasStreamed /\ Registered)
  BY <1>4 DEF Resume
<1>5. CASE UNCHANGED allVars
  BY <1>5 DEF allVars, collection
<1> QED BY <1>1, <1>2, <1>3, <1>4, <1>5 DEF CollectionNext

\* Only the factory's own handshake finds commits in its buffer: events arrive
\* once the stream is open, and then no rebaseline is under way.
LEMMA BuffersStep ==
  ASSUME TypeOK, CollectionTypeOK, HandshakeInv, RebaselineNeverBuffers,
         [CollectionNext]_allVars
  PROVE  RebaselineNeverBuffers'
<1> SUFFICES ASSUME baselining', buffer' # <<>> PROVE InitialLoad'
  BY DEF RebaselineNeverBuffers, InitialLoad
<1>i. baselining /\ buffer # <<>> => InitialLoad
  BY DEF RebaselineNeverBuffers, InitialLoad
<1>1. CASE UNCHANGED handshake
  BY <1>1, <1>i DEF handshake, InitialLoad
<1>2. CASE LaunchRebaseline \/ (Resume /\ hasStreamed /\ Registered)
  BY <1>2 DEF LaunchRebaseline, Resume, BeginHandshake
<1>3. CASE Deliver
  <2>1. /\ HandleTap(sent + 1)
        /\ phase \in {"streaming", "emitting"}
    BY <1>3 DEF Deliver, Emit, EmitOnly
  <2>2. UNCHANGED <<reads, handshakeGen, baselining>>
    BY <2>1 DEF HandleTap
  <2>3. InitialLoad
    <3>1. CASE Registered
      BY <2>1, <2>2, <3>1 DEF HandshakeInv
    <3>2. CASE ~Registered
      BY <1>i, <2>1, <2>2, <3>2 DEF HandleTap
    <3> QED BY <3>1, <3>2
  <2> QED BY <2>2, <2>3 DEF InitialLoad
<1>4. CASE CrashProcess \/ Create
  BY <1>4 DEF CrashProcess, NoCollection, Create
<1>5. CASE ReadWatermark \/ SelectBaseline
  <2>1. UNCHANGED <<handshakeGen, baselining, buffer>>
    BY <1>5, QueryAnswer DEF QueryFrame
  <2> QED BY <1>5, <1>i, <2>1, QueryAnswer, InitialLoadAnswer
<1>6. CASE FinishHandshake
  <2>1. PICK r \in reads :
          /\ reads' = reads \ {r}
          /\ r.gen # handshakeGen /\ UNCHANGED <<baselining, buffer>>
    BY <1>6, HandshakeFinished
  <2>2. UNCHANGED handshakeGen
    BY <1>6, HandshakeFinished DEF EndFrame
  <2> QED BY <1>i, <2>1, <2>2 DEF InitialLoad
<1>7. CASE FailHandshake
  <2>1. PICK r \in reads :
          /\ reads' = reads \ {r}
          /\ r.gen # handshakeGen /\ UNCHANGED <<baselining, buffer>>
    BY <1>7, HandshakeFailed
  <2>2. UNCHANGED handshakeGen
    BY <1>7, HandshakeFailed DEF EndFrame
  <2> QED BY <1>i, <2>1, <2>2 DEF InitialLoad
<1> QED BY <1>1, <1>2, <1>3, <1>4, <1>5, <1>6, <1>7, HandshakeKept

\* A watermark stays one when commits follow it.
LEMMA WatermarkKept ==
  ASSUME NEW from \in Int, NEW seen \in Nat, Watermark(from, seen),
         Len(wal) \in Nat, Len(wal') \in Nat, Len(wal) <= Len(wal')
  PROVE  Watermark(from, seen)'
BY DEF Watermark, EndLsn

\* What one read in flight may show.
GoodRead(r) ==
  /\ r.stage # "watermark" => Watermark(r.watermark, r.seen)
  /\ r.stage = "select" => r.seen <= visible
  /\ r.stage = "answered" => r.seen <= r.pos /\ r.pos <= Len(wal)

\* What the last applied one shows.
GoodBaseline ==
  synced => /\ Watermark(watermarkFloor, lagFrom)
            /\ lagFrom <= basePos /\ basePos <= Len(wal)

\* Rows are never older than what was visible as their watermark was read: the
\* SELECT follows the watermark (readCollectionBaseline), an exported snapshot is
\* the slot's own.
LEMMA ReadStep ==
  ASSUME TypeOK, TypeOK', PositionInv, CollectionTypeOK, CollectionTypeOK', HistoryInv,
         ConnectionInv, ReadInv, [CollectionNext]_allVars
  PROVE  ReadInv'
<1>t. /\ Len(wal) \in Nat /\ Len(wal') \in Nat /\ visible \in Nat /\ visible' \in Nat
      /\ watermarkFloor \in Int /\ lagFrom \in Nat /\ basePos \in Nat
  <2>1. Len(wal) \in Nat /\ Len(wal') \in Nat
    BY DEF TypeOK
  <2>2. visible \in Nat /\ visible' \in Nat
    BY DEF CollectionTypeOK
  <2> QED BY <2>1, <2>2 DEF CollectionTypeOK
<1>g. (\A r \in reads : GoodRead(r)) /\ GoodBaseline
  BY DEF ReadInv, GoodRead, GoodBaseline
<1>s. SUFFICES (\A r \in reads' : GoodRead(r)') /\ GoodBaseline'
  BY DEF ReadInv, GoodRead, GoodBaseline
<1>w. Len(wal) <= Len(wal') /\ visible <= visible'
  <2>1. ASSUME NEW rows \in Content, Write(rows) PROVE Len(wal) <= Len(wal') /\ visible <= visible'
    <3>1. Len(wal') = Len(wal) + 1
      BY <2>1 DEF Write, RowChange, Commit, TypeOK
    <3>2. visible = Len(wal) /\ (visible' = visible \/ visible' = Len(wal'))
      BY <2>1 DEF Write
    <3> QED BY <1>t, <3>1, <3>2
  <2>2. CASE UNCHANGED wal /\ (visible' = visible \/ visible' = Len(wal))
    BY <1>t, <2>2 DEF HistoryInv
  <2> QED BY <2>1, <2>2, HistoryKept
<1>r. ASSUME NEW r \in reads PROVE GoodRead(r)'
  <2>1. /\ r.watermark \in Int /\ r.seen \in Nat /\ r.pos \in Nat /\ GoodRead(r)
    BY <1>g, ReadFields
  <2>2. r.stage # "watermark" => Watermark(r.watermark, r.seen)'
    BY <1>t, <1>w, <2>1, WatermarkKept DEF GoodRead
  <2> QED BY <1>t, <1>w, <2>1, <2>2 DEF GoodRead
<1>b. UNCHANGED <<synced, watermarkFloor, lagFrom, basePos>> => GoodBaseline'
  <2> SUFFICES ASSUME synced, UNCHANGED <<watermarkFloor, lagFrom, basePos>>
               PROVE  /\ Watermark(watermarkFloor, lagFrom)'
                      /\ lagFrom <= basePos /\ basePos <= Len(wal')
    BY DEF GoodBaseline
  <2>1. Watermark(watermarkFloor, lagFrom)'
    BY <1>g, <1>t, <1>w DEF GoodBaseline, Watermark, EndLsn
  <2> QED BY <1>g, <1>t, <1>w, <2>1 DEF GoodBaseline
<1>1. CASE UNCHANGED handshake
  BY <1>1, <1>r, <1>b DEF handshake
<1>2. CASE LaunchRebaseline
  <2>1. UNCHANGED <<synced, watermarkFloor, lagFrom, basePos, wal, slot, visible>>
    BY <1>2 DEF LaunchRebaseline, BeginHandshake, vars, database, database2
  <2>2. PICK s : /\ reads' = reads \union {s} /\ s.stage = "answered"
                 /\ s.watermark = slot /\ s.seen = slot \div 2 /\ s.pos = slot \div 2
    <3> DEFINE q == [gen |-> handshakeGen', kind |-> "rebaseline", stage |-> "answered",
                     watermark |-> slot, seen |-> slot \div 2, pos |-> slot \div 2]
    <3>1. reads' = reads \union {q}
      BY <1>2 DEF LaunchRebaseline, BeginHandshake
    <3>2. /\ q.stage = "answered" /\ q.watermark = slot
          /\ q.seen = slot \div 2 /\ q.pos = slot \div 2
      OBVIOUS
    <3> HIDE DEF q
    <3> QED BY <3>1, <3>2
  <2>3. slot \div 2 \in 0..Len(wal) /\ slot = EndLsn(slot \div 2)
    BY <1>2, SlotCommit DEF LaunchRebaseline, ConnectionInv
  <2>4. GoodRead(s)'
    BY <1>t, <2>1, <2>2, <2>3 DEF GoodRead, Watermark, EndLsn
  <2> QED BY <1>r, <1>b, <2>1, <2>2, <2>4
<1>3. CASE Resume /\ hasStreamed /\ Registered
  <2>1. UNCHANGED <<synced, watermarkFloor, lagFrom, basePos>>
    BY <1>3 DEF Resume, BeginHandshake
  <2>2. PICK s : reads' = reads \union {s} /\ s.stage = "watermark"
    <3> DEFINE q == [gen |-> handshakeGen', kind |-> "rebaseline", stage |-> "watermark",
                     watermark |-> NoLsn, seen |-> 0, pos |-> 0]
    <3>1. reads' = reads \union {q}
      BY <1>3 DEF Resume, BeginHandshake
    <3>2. q.stage = "watermark"
      OBVIOUS
    <3> HIDE DEF q
    <3> QED BY <3>1, <3>2
  <2>3. GoodRead(s)'
    BY <2>2 DEF GoodRead
  <2> QED BY <1>r, <1>b, <2>1, <2>2, <2>3
<1>4. CASE Deliver
  BY <1>4, <1>r, <1>b DEF Deliver, HandleTap
<1>5. CASE CrashProcess
  <2>1. reads' = {} /\ synced' = FALSE
    BY <1>5 DEF CrashProcess, NoCollection
  <2> QED BY <2>1 DEF GoodBaseline
<1>6. CASE Create
  <2>1. synced' = FALSE
    BY <1>6 DEF Create
  <2>2. PICK s : reads' = {s} /\ s.stage = "watermark"
    <3> DEFINE q == [gen |-> 1, kind |-> "initial", stage |-> "watermark",
                     watermark |-> NoLsn, seen |-> 0, pos |-> 0]
    <3>1. reads' = {q}
      BY <1>6 DEF Create
    <3>2. q.stage = "watermark"
      OBVIOUS
    <3> HIDE DEF q
    <3> QED BY <3>1, <3>2
  <2>3. GoodRead(s)'
    BY <2>2 DEF GoodRead
  <2> QED BY <2>1, <2>2, <2>3 DEF GoodBaseline
<1>7. CASE ReadWatermark
  <2>1. UNCHANGED <<synced, watermarkFloor, lagFrom, basePos, wal, visible>>
    BY <1>7, WatermarkAnswer DEF QueryFrame, vars, database
  <2>2. PICK r \in reads, s \in Read :
          /\ reads' = (reads \ {r}) \union {s}
          /\ s.stage = "select" /\ s.watermark = EndLsn(Len(wal)) /\ s.seen = visible
    BY <1>7, WatermarkAnswer
  <2>3. EndLsn(Len(wal)) \div 2 = Len(wal)
    <3>1. Len(wal) \in Int
      BY <1>t
    <3> QED BY <3>1, EndOfCommit
  <2>4. GoodRead(s)'
    BY <1>t, <2>1, <2>2, <2>3 DEF GoodRead, Watermark, HistoryInv, EndLsn
  <2> QED BY <1>r, <1>b, <2>1, <2>2, <2>4
<1>8. CASE SelectBaseline
  <2>1. UNCHANGED <<synced, watermarkFloor, lagFrom, basePos, wal, visible>>
    BY <1>8, SelectAnswer DEF QueryFrame, vars, database
  <2>2. PICK r \in reads, s \in Read :
          /\ reads' = (reads \ {r}) \union {s} /\ r.stage = "select"
          /\ s.stage = "answered" /\ s.watermark = r.watermark /\ s.seen = r.seen
          /\ s.pos = visible
    BY <1>8, SelectAnswer
  <2>3. GoodRead(r)' /\ r.seen <= visible
    BY <1>g, <1>r, <2>2 DEF GoodRead
  <2>4. GoodRead(s)'
    BY <1>t, <2>1, <2>2, <2>3 DEF GoodRead, HistoryInv, Watermark
  <2> QED BY <1>r, <1>b, <2>1, <2>2, <2>4
<1>9. CASE FinishHandshake
  <2>1. PICK r \in reads :
          /\ r.stage = "answered" /\ reads' = reads \ {r}
          /\ \/ UNCHANGED <<watermarkFloor, basePos, lagFrom, synced>>
             \/ /\ watermarkFloor' = r.watermark /\ basePos' = r.pos
                /\ lagFrom' = r.seen /\ synced' = TRUE
    BY <1>9, HandshakeFinished
  <2>2. CASE UNCHANGED <<watermarkFloor, basePos, lagFrom, synced>>
    BY <1>r, <1>b, <2>1, <2>2
  <2>3. CASE watermarkFloor' = r.watermark /\ basePos' = r.pos /\ lagFrom' = r.seen
    <3>1. GoodRead(r)'
      BY <1>r
    <3>2. UNCHANGED wal
      BY <1>9, HandshakeFinished DEF EndFrame, database
    <3>3. GoodBaseline'
      BY <2>1, <2>3, <3>1, <3>2 DEF GoodRead, GoodBaseline, Watermark
    <3> QED BY <1>r, <2>1, <3>3
  <2> QED BY <2>1, <2>2, <2>3
<1>10. CASE FailHandshake
  <2>1. UNCHANGED <<watermarkFloor, basePos, lagFrom>> /\ reads' \subseteq reads
    BY <1>10, HandshakeFailed
  <2>2. UNCHANGED synced \/ synced' = FALSE
    BY <1>10, HandshakeFailed
  <2>3. GoodBaseline'
    BY <1>b, <2>1, <2>2 DEF GoodBaseline
  <2> QED BY <1>r, <2>1, <2>3
<1> QED BY <1>1, <1>2, <1>3, <1>4, <1>5, <1>6, <1>7, <1>8, <1>9, <1>10, HandshakeKept

\* The parts together: at the start, and along every step.
LEMMA FrameInit == CollectionInit => FrameInv
<1> SUFFICES ASSUME CollectionInit PROVE FrameInv
  OBVIOUS
<1>1. HistoryInv
  BY DEF CollectionInit, SourceInit, Init, HistoryInv
<1>2. ConnectionInv
  BY DEF CollectionInit, SourceInit, Init, ConnectionInv
<1>3. OwnerInv
  BY DEF CollectionInit, SourceInit, Init, OwnerInv, Registered
<1>4. HandshakeInv /\ ReadInv /\ RebaselineNeverBuffers
  BY DEF CollectionInit, HandshakeInv, ReadInv, RebaselineNeverBuffers
<1> QED BY <1>1, <1>2, <1>3, <1>4 DEF FrameInv

\* What holds whenever collections are created.
SafeInv == TypeOK /\ CollectionTypeOK /\ StreamInv /\ FrameInv

LEMMA SafeStep == SafeInv /\ [CollectionNext]_allVars => SafeInv'
<1> SUFFICES ASSUME SafeInv, [CollectionNext]_allVars PROVE SafeInv'
  OBVIOUS
<1>1. /\ TypeOK /\ CollectionTypeOK /\ StreamInv /\ PositionInv /\ SessionInv
      /\ HistoryInv /\ ConnectionInv /\ OwnerInv /\ HandshakeInv /\ ReadInv
      /\ RebaselineNeverBuffers
  BY DEF SafeInv, FrameInv, StreamInv
<1>2. TypeOK' /\ StreamInv'
  BY <1>1, StreamKept
<1>3. CollectionTypeOK'
  BY <1>1, <1>2, CollectionTypeStep
<1>4. ConnectionInv'
  <2>1. CASE [Next]_vars
    BY <1>1, <2>1, ConnectionStep
  <2>2. CASE UNCHANGED <<database, runtime, phase>>
    BY <1>1, <2>2 DEF ConnectionInv, database, runtime
  <2> QED BY <1>1, <2>1, <2>2, StreamUnderneath
<1>5. HistoryInv' /\ OwnerInv' /\ HandshakeInv' /\ RebaselineNeverBuffers'
  BY <1>1, HistoryStep, OwnerStep, HandshakeStep, BuffersStep
<1>6. ReadInv'
  BY <1>1, <1>2, <1>3, ReadStep
<1> QED BY <1>2, <1>3, <1>4, <1>5, <1>6 DEF SafeInv, FrameInv

LEMMA SafeInvariant == CollectionSpec => []SafeInv
<1>1. CollectionInit => SafeInv
  BY TypeInit, StreamInit, CollectionTypeInit, FrameInit
     DEF SafeInv, CollectionInit, SourceInit
<1> QED BY <1>1, SafeStep, PTL DEF CollectionSpec

\* Every variable of the collection keeps to its type, under every interleaving
\* of handshakes, events, faults and calls of its owner.
THEOREM CollectionTypeCorrect == CollectionSpec => []CollectionTypeOK
<1>1. SafeInv => CollectionTypeOK
  BY DEF SafeInv
<1> QED BY <1>1, SafeInvariant, PTL

\* While events arrive, only the factory's own handshake finds them in the
\* buffer: a collection is never rebuilding itself under an open stream.
THEOREM NoRebaselineUnderStream == CollectionSpec => []RebaselineNeverBuffers
<1>1. SafeInv => RebaselineNeverBuffers
  BY DEF SafeInv, FrameInv
<1> QED BY <1>1, SafeInvariant, PTL

\* The stream's guarantees survive the collections that listen to it.
THEOREM StreamUnderCollection == CollectionSpec => []StreamInv
<1>1. SafeInv => StreamInv
  BY DEF SafeInv
<1> QED BY <1>1, SafeInvariant, PTL

(***************************************************************************)
(* The commits a collection holds, when clients wait for start().          *)
(***************************************************************************)
\* The numbers the proofs below calculate with.
Numbers ==
  /\ Len(wal) \in Nat /\ Len(buffer) \in Nat /\ Len(history) = Len(wal) + 1
  /\ sent \in Nat /\ slot \in Int /\ lastPersisted \in Int
  /\ watermarkFloor \in Int /\ basePos \in Nat /\ lagFrom \in Nat
  /\ handshakeGen \in Nat

LEMMA NumbersHold == SafeInv => Numbers
BY DEF SafeInv, FrameInv, HistoryInv, TypeOK, CollectionTypeOK, Numbers

\* A live connection stands at one of the source's commits, and has nothing to
\* skip above the last of them.
LEMMA LivePosition ==
  ASSUME SafeInv, Live
  PROVE  Handed \in 0..Len(wal) /\ lastPersisted <= EndLsn(Len(wal))
<1>1. TypeOK /\ PositionInv /\ SessionInv /\ ConnectionInv /\ Numbers
  BY NumbersHold DEF SafeInv, StreamInv, FrameInv
<1>2. CASE phase \in {"rebaselining", "resyncing"}
  <2>1. slot # NoLsn
    BY <1>1, <1>2 DEF ConnectionInv
  <2>2. Handed \in 0..Len(wal)
    BY <1>1, <1>2, <2>1, SlotCommit DEF Handed
  <2>3. lastPersisted = NoLsn \/ lastPersisted = watermark
    BY <1>1, <1>2, PullAssumption DEF SessionInv
  <2>4. watermark \in Int
    BY <1>1 DEF TypeOK
  <2> QED BY <1>1, <2>2, <2>3, <2>4 DEF PositionInv, NoLsn, EndLsn, Numbers
<1>3. CASE phase \in {"streaming", "emitting"}
  <2>1. sent <= Len(wal) /\ Handed = sent
    BY <1>1, <1>3 DEF SessionInv, Handed, Numbers
  <2>2. \/ lastPersisted = NoLsn
        \/ lastPersisted = watermark
        \/ phase = "emitting" /\ lastPersisted < CommitLsn(sent + 1)
    BY <1>1, <1>3, PullAssumption DEF SessionInv, ConnectionInv
  <2>3. watermark \in Int /\ (phase = "emitting" => sent < Len(wal))
    BY <1>1 DEF TypeOK, SessionInv
  <2> QED BY <1>1, <2>1, <2>2, <2>3 DEF PositionInv, NoLsn, EndLsn, CommitLsn, Numbers
<1> QED BY <1>2, <1>3 DEF Live

LEMMA LiveHanded == SafeInv => (Live => Handed \in Nat)
<1>1. SafeInv /\ Live => Numbers
  BY NumbersHold
<1> QED BY <1>1, LivePosition DEF Numbers

\* A row is where it was when nothing it depends on has changed.
ExactRow(k) == OutsideLag(k) => Follows(core[k], k, Reached, basePos)

LEMMA ExactRowKept ==
  ASSUME NEW k \in Keys, ExactRow(k), Reached' = Reached,
         UNCHANGED <<history, core, watermarkFloor, basePos, lagFrom>>
  PROVE  ExactRow(k)'
BY DEF ExactRow, OutsideLag, Follows, ViewAt, RowsAt

LEMMA ReachedKept ==
  ASSUME UNCHANGED watermarkFloor, Handed' = Handed
  PROVE  Reached' = Reached
BY DEF Reached

\* The data invariant, row by row.
LEMMA DataRows ==
  DataInv <=>
    /\ BufferInv /\ CoverInv
    /\ Live /\ Registered /\ synced /\ ~baselining =>
         /\ lastPersisted <= watermarkFloor \/ lastPersisted <= EndLsn(Handed)
         /\ \A k \in Keys : ExactRow(k)
BY DEF DataInv, ExactInv, ExactRow

\* A step that leaves the collection and its place in the stream alone.
LEMMA DataKept ==
  ASSUME DataInv,
         UNCHANGED <<handshake, lastPersisted, history>>, Handed' = Handed,
         Live' => Live, Registered' => Registered,
         phase \in {"streaming", "emitting"} => phase' \in {"streaming", "emitting"}
  PROVE  DataInv'
<1>1. UNCHANGED <<core, baselining, buffer, handshakeGen, watermarkFloor, reads, basePos,
                  lagFrom, synced>>
  BY DEF handshake
<1>2. BufferInv' /\ CoverInv'
  BY <1>1 DEF DataInv, BufferInv, CoverInv
<1>3. ASSUME (Live /\ Registered /\ synced /\ ~baselining)'
      PROVE  /\ (lastPersisted <= watermarkFloor \/ lastPersisted <= EndLsn(Handed))'
             /\ \A k \in Keys : ExactRow(k)'
  <2>1. Live /\ Registered /\ synced /\ ~baselining
    BY <1>1, <1>3
  <2>2. Reached' = Reached
    BY <1>1, ReachedKept
  <2>3. \A k \in Keys : ExactRow(k)
    BY <2>1, DataRows
  <2>4. \A k \in Keys : ExactRow(k)'
    BY <1>1, <2>2, <2>3, ExactRowKept
  <2> QED BY <1>1, <2>1, <2>4 DEF DataInv, ExactInv
<1> QED BY <1>2, <1>3 DEF DataInv, ExactInv, ExactRow

\* A collection that is not on a live connection promises nothing.
LEMMA DataVacuous ==
  ASSUME ~(Live /\ Registered)'
  PROVE  DataInv'
BY DEF DataInv, BufferInv, CoverInv, ExactInv

\* The rows of the recorded commits stay when a commit follows them.
LEMMA RowsKept ==
  ASSUME HistoryTyped, NEW rows, history' = Append(history, rows),
         NEW i \in Nat, i < Len(history)
  PROVE  RowsAt(i)' = RowsAt(i)
BY DEF HistoryTyped, RowsAt

LEMMA ExactRowAfterCommit ==
  ASSUME NEW k \in Keys, ExactRow(k), Reached' = Reached, Numbers,
         UNCHANGED <<core, watermarkFloor, basePos, lagFrom>>,
         Reached \in 0..Len(wal), basePos <= Len(wal),
         watermarkFloor \div 2 \in 0..Len(wal),
         \A i \in 0..Len(wal) : RowsAt(i)' = RowsAt(i)
  PROVE  ExactRow(k)'
<1>1. SUFFICES ASSUME OutsideLag(k)' PROVE Follows(core[k], k, Reached, basePos)'
  BY DEF ExactRow
<1>2. OutsideLag(k)
  <2> SUFFICES ASSUME NEW i \in 1..(watermarkFloor \div 2), lagFrom < i, basePos < i
               PROVE  RowsAt(i)[k] = RowsAt(i - 1)[k]
    BY DEF OutsideLag
  <2>1. i \in 0..Len(wal) /\ i - 1 \in 0..Len(wal)
    BY DEF Numbers
  <2>2. RowsAt(i)'[k] = RowsAt(i - 1)'[k]
    BY <1>1 DEF OutsideLag
  <2> QED BY <2>1, <2>2
<1>3. Follows(core[k], k, Reached, basePos)
  BY <1>2 DEF ExactRow
<1>4. basePos \in 0..Len(wal)
  BY DEF Numbers
<1>5. ViewAt(Reached)'[k] = ViewAt(Reached)[k] /\ ViewAt(basePos)'[k] = ViewAt(basePos)[k]
  BY <1>4 DEF ViewAt
<1> QED BY <1>3, <1>5 DEF Follows

\* A commit of the source changes no row the collection was compared with.
LEMMA DataAfterWrite ==
  ASSUME SafeInv, DataInv, NEW rows \in Content, Write(rows)
  PROVE  DataInv'
<1>1. /\ history' = Append(history, rows) /\ UNCHANGED <<collection, captured>>
      /\ UNCHANGED <<phase, slot, sent, lastPersisted>>
  BY DEF Write, RowChange, Commit, runtime, rounds
<1>2. /\ UNCHANGED <<core, baselining, buffer, handshakeGen, watermarkFloor, reads, basePos,
                    lagFrom, synced, promise, disposed>>
      /\ Live' = Live /\ Registered' = Registered /\ Handed' = Handed
  BY <1>1 DEF collection, handshake, Live, Registered, Handed
<1>3. BufferInv' /\ CoverInv'
  BY <1>1, <1>2 DEF DataInv, BufferInv, CoverInv
<1>4. ASSUME (Live /\ Registered /\ synced /\ ~baselining)'
      PROVE  /\ (lastPersisted <= watermarkFloor \/ lastPersisted <= EndLsn(Handed))'
             /\ \A k \in Keys : ExactRow(k)'
  <2>1. Live /\ Registered /\ synced /\ ~baselining
    BY <1>2, <1>4
  <2>2. Reached' = Reached
    BY <1>2, ReachedKept
  <2>3. Numbers /\ Handed \in 0..Len(wal)
    BY <2>1, NumbersHold, LivePosition
  <2>4. Watermark(watermarkFloor, lagFrom) /\ basePos <= Len(wal)
    BY <2>1 DEF SafeInv, FrameInv, ReadInv
  <2>5. watermarkFloor \div 2 \in 0..Len(wal)
    BY <2>3, <2>4 DEF Watermark, Numbers, EndLsn
  <2>6. Reached \in 0..Len(wal)
    BY <2>3, <2>5 DEF Reached
  <2>7. \A i \in 0..Len(wal) : RowsAt(i)' = RowsAt(i)
    BY <1>1, <2>3, RowsKept DEF HistoryTyped, SafeInv, CollectionTypeOK, Numbers
  <2>8. \A k \in Keys : ExactRow(k)
    BY <2>1, DataRows
  <2>9. \A k \in Keys : ExactRow(k)'
    BY <1>2, <2>2, <2>3, <2>4, <2>5, <2>6, <2>7, <2>8, ExactRowAfterCommit
  <2> QED BY <1>1, <1>2, <2>1, <2>9 DEF DataInv, ExactInv
<1> QED BY <1>3, <1>4 DEF DataInv, ExactInv, ExactRow

\* A skipped replay lies below the watermark of whoever has not seen it, so the
\* collection has it already (IsReplay, handleTapEvent's watermark filter).
LEMMA DataAfterSkip ==
  ASSUME SafeInv, DataInv, SkipReplay, UNCHANGED <<history, rounds, collection>>
  PROVE  DataInv'
<1>1. /\ phase = "streaming" /\ sent' = sent + 1 /\ CommitLsn(sent + 1) <= lastPersisted
      /\ UNCHANGED <<phase, slot, lastPersisted, captured>>
  BY DEF SkipReplay, IsReplay, database, rounds
<1>2. UNCHANGED <<core, baselining, buffer, handshakeGen, watermarkFloor, reads, basePos,
                  lagFrom, synced, promise, disposed>>
  BY DEF collection, handshake
<1>3. /\ Live' = Live /\ Live /\ Registered' = Registered
      /\ Handed = sent /\ Handed' = sent + 1
  BY <1>1, <1>2 DEF Live, Registered, Handed
<1>n. Numbers /\ CollectionTypeOK /\ ReadInv
  BY NumbersHold DEF SafeInv, FrameInv
<1>4. ASSUME Registered, baselining PROVE buffer = <<>>
  BY <1>1, <1>3, <1>4, <1>n DEF DataInv, BufferInv, Numbers, EndLsn, CommitLsn
<1>5. BufferInv'
  <2> SUFFICES ASSUME Registered, baselining
               PROVE  /\ Len(buffer) <= Handed'
                      /\ \A j \in 1..Len(buffer) : buffer[j] = Handed' - Len(buffer) + j
                      /\ buffer = <<>>
    BY <1>1, <1>2, <1>3 DEF BufferInv
  <2>1. buffer = <<>> /\ Len(buffer) = 0
    BY <1>4
  <2> QED BY <1>3, <1>n, <2>1 DEF Numbers
<1>6. CoverInv'
  <2> SUFFICES ASSUME Registered, baselining, NEW r \in reads, r.gen = handshakeGen,
                      r.stage # "watermark"
               PROVE  /\ EndLsn(Handed' - Len(buffer)) <= r.watermark
                      /\ lastPersisted <= r.watermark
    BY <1>1, <1>2, <1>3 DEF CoverInv
  <2>1. Len(buffer) = 0
    BY <1>4
  <2>2. lastPersisted <= r.watermark \/ lastPersisted <= EndLsn(sent)
    BY <1>3 DEF DataInv, CoverInv
  <2>3. r.watermark \in Int /\ r.watermark = EndLsn(r.watermark \div 2)
    BY <1>n, ReadFields DEF ReadInv, Watermark
  <2> QED BY <1>1, <1>3, <1>n, <2>1, <2>2, <2>3 DEF Numbers, EndLsn, CommitLsn
<1>7. ASSUME Registered, synced, ~baselining
      PROVE  /\ lastPersisted <= watermarkFloor
             /\ \A k \in Keys : ExactRow(k)'
  <2>1. lastPersisted <= watermarkFloor \/ lastPersisted <= EndLsn(sent)
    BY <1>3, <1>7 DEF DataInv, ExactInv
  <2>2. watermarkFloor \in Int /\ watermarkFloor = EndLsn(watermarkFloor \div 2)
    BY <1>7, <1>n DEF ReadInv, Watermark, Numbers
  <2>3. /\ lastPersisted <= watermarkFloor /\ EndLsn(sent) < watermarkFloor
        /\ EndLsn(sent + 1) <= watermarkFloor
    BY <1>1, <1>n, <2>1, <2>2 DEF Numbers, EndLsn, CommitLsn
  <2>4. Reached' = Reached
    BY <1>2, <1>3, <1>n, <2>2, <2>3 DEF Reached, Numbers, EndLsn
  <2>5. \A k \in Keys : ExactRow(k)
    BY <1>3, <1>7, DataRows
  <2> QED BY <1>2, <2>3, <2>4, <2>5, ExactRowKept
<1>8. ExactInv'
  BY <1>1, <1>2, <1>3, <1>7 DEF ExactInv, ExactRow
<1> QED BY <1>5, <1>6, <1>8 DEF DataInv

\* A rebaseline from an exported snapshot starts where the stream will.
LEMMA DataAfterLaunch ==
  ASSUME SafeInv, DataInv, LaunchRebaseline
  PROVE  DataInv'
<1>1. /\ phase = "rebaselining" /\ BeginHandshake("rebaseline", TRUE)
      /\ UNCHANGED <<phase, slot, sent, lastPersisted>>
  BY DEF LaunchRebaseline, vars, database, runtime
<1>2. baselining' = TRUE /\ buffer' = <<>> /\ handshakeGen' = handshakeGen + 1
  BY <1>1 DEF BeginHandshake
<1>3. PICK s : reads' = reads \union {s} /\ s.watermark = slot
  <2> DEFINE q == [gen |-> handshakeGen', kind |-> "rebaseline", stage |-> "answered",
                   watermark |-> slot, seen |-> slot \div 2, pos |-> slot \div 2]
  <2>1. reads' = reads \union {q}
    BY <1>1 DEF BeginHandshake
  <2>2. q.watermark = slot
    OBVIOUS
  <2> HIDE DEF q
  <2> QED BY <2>1, <2>2
<1>n. Numbers /\ TypeOK /\ CollectionTypeOK /\ HandshakeInv /\ SessionInv /\ PositionInv
      /\ ConnectionInv
  BY NumbersHold DEF SafeInv, FrameInv, StreamInv
<1>4. slot \div 2 \in 0..Len(wal) /\ slot = EndLsn(slot \div 2) /\ Handed' = slot \div 2
  BY <1>1, <1>n, SlotCommit DEF ConnectionInv, Handed
<1>5. lastPersisted <= slot
  BY <1>1, <1>4, <1>n, PullAssumption DEF SessionInv, NoLsn, EndLsn, Numbers
<1>6. Len(buffer') = 0 /\ Len(wal) \in Nat
  BY <1>2, <1>n DEF Numbers
<1>7. BufferInv'
  BY <1>2, <1>4, <1>6 DEF BufferInv
<1>8. \A r \in reads' : r.gen = handshakeGen' => r = s
  <2>1. \A r \in reads : r.gen \in Nat /\ r.gen <= handshakeGen
    BY <1>n, ReadFields DEF HandshakeInv
  <2> QED BY <1>2, <1>3, <1>n, <2>1 DEF Numbers
<1>9. CoverInv'
  <2>1. Handed' - Len(buffer') = slot \div 2
    BY <1>4, <1>6
  <2> QED BY <1>1, <1>3, <1>4, <1>5, <1>8, <1>n, <2>1 DEF CoverInv, Numbers
<1>10. ExactInv'
  BY <1>2 DEF ExactInv
<1> QED BY <1>7, <1>9, <1>10 DEF DataInv

\* A resync, or the factory's first handshake, has read nothing yet.
LEMMA DataAfterBegin ==
  ASSUME SafeInv, Numbers', Live' => Handed' \in Nat, baselining', buffer' = <<>>,
         \A r \in reads' : r.gen = handshakeGen' => r.stage = "watermark"
  PROVE  DataInv'
<1>1. Len(buffer') = 0
  OBVIOUS
<1>2. BufferInv'
  BY <1>1 DEF BufferInv
<1>3. CoverInv'
  BY DEF CoverInv
<1>4. ExactInv'
  BY DEF ExactInv
<1> QED BY <1>2, <1>3, <1>4 DEF DataInv

\* The next commit reaches the collection: it is buffered after the commits before
\* it, applied to them, or already in the baseline (handleTapEvent).
LEMMA DataAfterDeliver ==
  ASSUME SafeInv, DataInv, Deliver
  PROVE  DataInv'
<1>n. Numbers /\ CollectionTypeOK /\ ReadInv /\ SessionInv /\ ConnectionInv
  BY NumbersHold DEF SafeInv, FrameInv, StreamInv
<1>1. /\ HandleTap(sent + 1) /\ sent' = sent + 1 /\ sent < Len(wal)
      /\ phase \in {"streaming", "emitting"} /\ phase' = "streaming"
      /\ UNCHANGED <<slot, wal, history, captured, promise, disposed>>
  BY <1>n DEF Deliver, Emit, EmitOnly, database, database2, rounds, SessionInv
<1>2. lastPersisted' <= CommitLsn(sent + 1) /\ lastPersisted' \in Int
  BY <1>n DEF Deliver, Emit, EmitOnly, IsReplay, NoLsn, CommitLsn, Numbers
<1>3. UNCHANGED <<baselining, handshakeGen, watermarkFloor, reads, basePos, lagFrom, synced>>
  BY <1>1 DEF HandleTap
<1>4. /\ Live /\ Live' /\ Registered' = Registered
      /\ Handed = sent /\ Handed' = sent + 1
  BY <1>1 DEF Live, Registered, Handed
<1>5. lastPersisted' <= EndLsn(Handed')
  BY <1>2, <1>4, <1>n DEF CommitLsn, EndLsn, Numbers
<1>6. ASSUME Registered, baselining
      PROVE  /\ Len(buffer') = Len(buffer) + 1
             /\ Len(buffer) <= sent
             /\ \A j \in 1..Len(buffer') : buffer'[j] = Handed' - Len(buffer') + j
  <2>1. /\ Len(buffer) <= sent
        /\ \A j \in 1..Len(buffer) : buffer[j] = sent - Len(buffer) + j
    BY <1>4, <1>6 DEF DataInv, BufferInv
  <2>2. buffer' = Append(buffer, sent + 1)
    BY <1>1, <1>6 DEF HandleTap
  <2>3. Len(buffer') = Len(buffer) + 1
    BY <1>n, <2>2 DEF CollectionTypeOK
  <2>4. ASSUME NEW j \in 1..Len(buffer')
        PROVE  buffer'[j] = Handed' - Len(buffer') + j
    <3>1. CASE j = Len(buffer) + 1
      <4>1. buffer'[j] = sent + 1
        BY <1>n, <2>2, <3>1 DEF CollectionTypeOK
      <4> QED BY <1>4, <1>n, <2>3, <3>1, <4>1 DEF Numbers
    <3>2. CASE j # Len(buffer) + 1
      <4>1. j \in 1..Len(buffer)
        BY <1>n, <2>3, <3>2 DEF Numbers
      <4>2. buffer'[j] = buffer[j]
        BY <1>n, <2>2, <4>1 DEF CollectionTypeOK
      <4> QED BY <1>4, <1>n, <2>1, <2>3, <4>1, <4>2 DEF Numbers
    <3> QED BY <3>1, <3>2
  <2> QED BY <2>1, <2>3, <2>4
<1>7. BufferInv'
  <2> SUFFICES ASSUME Registered, baselining
               PROVE  /\ Len(buffer') <= Handed'
                      /\ \A j \in 1..Len(buffer') : buffer'[j] = Handed' - Len(buffer') + j
    BY <1>1, <1>3, <1>4, <1>5 DEF BufferInv
  <2>1. Len(buffer') <= Handed'
    BY <1>4, <1>6, <1>n DEF Numbers
  <2> QED BY <1>6, <2>1
<1>8. CoverInv'
  <2> SUFFICES ASSUME Registered, baselining, NEW r \in reads, r.gen = handshakeGen,
                      r.stage # "watermark"
               PROVE  EndLsn(Handed' - Len(buffer')) <= r.watermark
    BY <1>3, <1>4, <1>5 DEF CoverInv
  <2>1. EndLsn(Handed - Len(buffer)) <= r.watermark
    BY <1>4 DEF DataInv, CoverInv
  <2>2. Handed' - Len(buffer') = Handed - Len(buffer)
    BY <1>4, <1>6, <1>n DEF Numbers
  <2> QED BY <2>1, <2>2
<1>9. ASSUME Registered, synced, ~baselining, NEW k \in Keys
      PROVE  ExactRow(k)'
  <2>1. ExactRow(k)
    BY <1>4, <1>9, DataRows
  <2>2. /\ watermarkFloor \in Int /\ watermarkFloor \div 2 \in Nat /\ watermarkFloor # NoLsn
        /\ watermarkFloor = EndLsn(watermarkFloor \div 2)
    BY <1>9, <1>n DEF ReadInv, Watermark, Numbers, NoLsn
  <2>3. CASE BelowWatermark(sent + 1, watermarkFloor)
    <3>1. UNCHANGED core
      BY <1>1, <1>9, <2>2, <2>3 DEF HandleTap
    <3>2. Reached' = Reached
      BY <1>3, <1>4, <1>n, <2>2, <2>3
         DEF Reached, BelowWatermark, CommitLsn, EndLsn, Numbers
    <3> QED BY <1>1, <1>3, <2>1, <3>1, <3>2, ExactRowKept
  <2>4. CASE ~BelowWatermark(sent + 1, watermarkFloor)
    <3>1. core' = Applied(sent + 1, core)
      BY <1>1, <1>9, <2>4 DEF HandleTap
    <3>2. Reached = sent /\ Reached' = sent + 1
      BY <1>3, <1>4, <1>n, <2>2, <2>4
         DEF Reached, BelowWatermark, CommitLsn, EndLsn, Numbers
    <3>3. SUFFICES ASSUME OutsideLag(k)' PROVE Follows(core[k], k, Reached, basePos)'
      BY DEF ExactRow
    <3>4. OutsideLag(k)
      BY <1>1, <1>3, <3>3 DEF OutsideLag, RowsAt
    <3>5. Follows(core[k], k, sent, basePos)
      BY <2>1, <3>2, <3>4 DEF ExactRow
    <3>6. Follows(Applied(sent + 1, core)[k], k, sent + 1, basePos)
      <4>1. /\ sent + 1 \in Nat \ {0} /\ sent + 1 < Len(history) /\ (sent + 1) - 1 = sent
            /\ basePos \in Nat
        BY <1>1, <1>n DEF Numbers
      <4>2. history \in Seq(Content)
        BY <1>n DEF CollectionTypeOK
      <4>3. Follows(core[k], k, (sent + 1) - 1, basePos)
        BY <3>5, <4>1
      <4> QED BY <4>1, <4>2, <4>3, FollowsStep
    <3> QED BY <1>1, <1>3, <3>1, <3>2, <3>6 DEF Follows, ViewAt, RowsAt
  <2> QED BY <2>3, <2>4
<1>10. ExactInv'
  BY <1>3, <1>4, <1>5, <1>9 DEF ExactInv, ExactRow
<1> QED BY <1>7, <1>8, <1>10 DEF DataInv

\* The watermark is read after everything the collection has been handed.
LEMMA DataAfterWatermark ==
  ASSUME SafeInv, DataInv, ReadWatermark
  PROVE  DataInv'
<1>n. Numbers /\ TypeOK /\ CollectionTypeOK
  BY NumbersHold DEF SafeInv
<1>1. QueryFrame
  BY <1>n, WatermarkAnswer
<1>2. /\ UNCHANGED <<wal, history, core, baselining, buffer, handshakeGen, watermarkFloor,
                     basePos, lagFrom, synced, lastPersisted, phase>>
      /\ Live' = Live /\ Registered' = Registered /\ Handed' = Handed
  BY <1>1 DEF QueryFrame, vars, database, runtime, Live, Registered, Handed
<1>3. PICK r \in reads, s \in Read :
        reads' = (reads \ {r}) \union {s} /\ s.watermark = EndLsn(Len(wal))
  BY <1>n, WatermarkAnswer
<1>4. BufferInv'
  BY <1>2 DEF DataInv, BufferInv
<1>5. CoverInv'
  <2> SUFFICES ASSUME Live, Registered, baselining, NEW q \in reads', q.gen = handshakeGen,
                      q.stage # "watermark"
               PROVE  /\ EndLsn(Handed - Len(buffer)) <= q.watermark
                      /\ lastPersisted <= q.watermark \/ lastPersisted <= EndLsn(Handed)
    BY <1>2 DEF CoverInv
  <2>1. CASE q \in reads
    BY <2>1 DEF DataInv, CoverInv
  <2>2. CASE q = s
    <3>1. Handed \in 0..Len(wal) /\ lastPersisted <= EndLsn(Len(wal))
      BY LivePosition
    <3> QED BY <1>3, <1>n, <2>2, <3>1 DEF Numbers, EndLsn
  <2> QED BY <1>3, <2>1, <2>2
<1>6. ExactInv'
  <2>1. Reached' = Reached
    BY <1>2, ReachedKept
  <2>2. ASSUME NEW k \in Keys, ExactRow(k) PROVE ExactRow(k)'
    BY <1>2, <2>1, <2>2, ExactRowKept
  <2> QED BY <1>2, <2>2, DataRows DEF ExactInv, ExactRow
<1> QED BY <1>4, <1>5, <1>6 DEF DataInv

\* The rows come with the watermark read before them.
LEMMA DataAfterSelect ==
  ASSUME SafeInv, DataInv, SelectBaseline
  PROVE  DataInv'
<1>n. CollectionTypeOK
  BY DEF SafeInv
<1>1. QueryFrame
  BY <1>n, SelectAnswer
<1>2. /\ UNCHANGED <<history, core, baselining, buffer, handshakeGen, watermarkFloor,
                     basePos, lagFrom, synced, lastPersisted, phase>>
      /\ Live' = Live /\ Registered' = Registered /\ Handed' = Handed
  BY <1>1 DEF QueryFrame, vars, database, runtime, Live, Registered, Handed
<1>3. PICK r \in reads, s \in Read :
        /\ reads' = (reads \ {r}) \union {s} /\ r.stage = "select"
        /\ s.gen = r.gen /\ s.watermark = r.watermark
  BY <1>n, SelectAnswer
<1>4. BufferInv'
  BY <1>2 DEF DataInv, BufferInv
<1>5. CoverInv'
  <2> SUFFICES ASSUME Live, Registered, baselining, NEW q \in reads', q.gen = handshakeGen,
                      q.stage # "watermark"
               PROVE  /\ EndLsn(Handed - Len(buffer)) <= q.watermark
                      /\ lastPersisted <= q.watermark \/ lastPersisted <= EndLsn(Handed)
    BY <1>2 DEF CoverInv
  <2>1. CASE q \in reads
    BY <2>1 DEF DataInv, CoverInv
  <2>2. CASE q = s
    <3>1. r.gen = handshakeGen /\ r.stage # "watermark"
      BY <1>3, <2>2
    <3>2. /\ EndLsn(Handed - Len(buffer)) <= r.watermark
          /\ lastPersisted <= r.watermark \/ lastPersisted <= EndLsn(Handed)
      BY <3>1 DEF DataInv, CoverInv
    <3> QED BY <1>3, <2>2, <3>2
  <2> QED BY <1>3, <2>1, <2>2
<1>6. ExactInv'
  <2>1. Reached' = Reached
    BY <1>2, ReachedKept
  <2>2. ASSUME NEW k \in Keys, ExactRow(k) PROVE ExactRow(k)'
    BY <1>2, <2>1, <2>2, ExactRowKept
  <2> QED BY <1>2, <2>2, DataRows DEF ExactInv, ExactRow
<1> QED BY <1>4, <1>5, <1>6 DEF DataInv

\* The rows a handshake read are on their way to the commit of its watermark,
\* unless they changed in the visibility window (OutsideLag).
LEMMA BaselineFollows ==
  ASSUME NEW k \in Keys, NEW w \in Nat, NEW seen \in Nat, NEW pos \in Nat,
         w <= seen + 1, seen <= pos,
         \A i \in 1..w : seen < i /\ pos < i => RowsAt(i)[k] = RowsAt(i - 1)[k]
  PROVE  Follows(ViewAt(pos)[k], k, w, pos)
<1>1. CASE pos >= w
  BY <1>1 DEF Follows
<1>2. CASE pos < w
  <2>1. w \in 1..w /\ w - 1 = pos /\ seen < w
    BY <1>2
  <2>2. RowsAt(w)[k] = RowsAt(pos)[k]
    BY <1>2, <2>1
  <2>3. ViewAt(w)[k] = ViewAt(pos)[k]
    BY <2>2 DEF ViewAt
  <2> QED BY <2>3 DEF Follows
<1> QED BY <1>1, <1>2

\* The handshake that owns the collection ends: its rows, with the buffered
\* commits above its watermark, are the collection's (runHandshake).
LEMMA DataAfterFinish ==
  ASSUME SafeInv, DataInv, FinishHandshake
  PROVE  DataInv'
<1>n. /\ Numbers /\ CollectionTypeOK /\ ReadInv /\ HandshakeInv /\ OwnerInv
  BY NumbersHold DEF SafeInv, FrameInv
<1>1. PICK r \in reads :
        /\ r.stage = "answered" /\ reads' = reads \ {r} /\ Settled(r, "resolved")
        /\ \/ /\ r.gen # handshakeGen
              /\ UNCHANGED <<core, baselining, buffer, watermarkFloor, basePos, lagFrom,
                             synced>>
           \/ /\ r.gen = handshakeGen
              /\ core' = Drained(ViewAt(r.pos), r.watermark)
              /\ baselining' = FALSE /\ buffer' = <<>> /\ synced' = TRUE
              /\ watermarkFloor' = r.watermark /\ basePos' = r.pos
              /\ lagFrom' = r.seen
  BY HandshakeFinished
<1>2. /\ UNCHANGED <<phase, slot, sent, lastPersisted, captured, history, handshakeGen,
                     disposed>>
      /\ Live' = Live /\ Handed' = Handed
  BY HandshakeFinished DEF EndFrame, database, runtime, Live, Handed
<1>3. Registered' => Registered
  BY <1>1, <1>2, <1>n, SettledOwner
<1>4. CASE r.gen # handshakeGen
  <2>1. UNCHANGED <<core, baselining, buffer, watermarkFloor, basePos, lagFrom, synced>>
    BY <1>1, <1>4
  <2>2. BufferInv' /\ CoverInv'
    BY <1>1, <1>2, <1>3, <2>1 DEF DataInv, BufferInv, CoverInv
  <2>3. Reached' = Reached
    BY <1>2, <2>1, ReachedKept
  <2>4. ASSUME NEW k \in Keys, ExactRow(k) PROVE ExactRow(k)'
    BY <1>2, <2>1, <2>3, <2>4, ExactRowKept
  <2>5. ExactInv'
    BY <1>2, <1>3, <2>1, <2>4, DataRows DEF ExactInv, ExactRow
  <2> QED BY <2>2, <2>5 DEF DataInv
<1>5. CASE r.gen = handshakeGen
  <2>1. /\ core' = Drained(ViewAt(r.pos), r.watermark) /\ baselining' = FALSE
        /\ watermarkFloor' = r.watermark /\ basePos' = r.pos /\ lagFrom' = r.seen
    BY <1>1, <1>5
  <2>2. BufferInv' /\ CoverInv'
    BY <2>1 DEF BufferInv, CoverInv
  <2> SUFFICES ASSUME Live, Registered
               PROVE  /\ lastPersisted <= r.watermark \/ lastPersisted <= EndLsn(Handed)
                      /\ \A k \in Keys : ExactRow(k)'
    BY <1>2, <1>3, <2>1, <2>2 DEF DataInv, ExactInv, ExactRow
  <2>3. baselining
    BY <1>5, <1>n DEF HandshakeInv
  <2>4. /\ EndLsn(Handed - Len(buffer)) <= r.watermark
        /\ lastPersisted <= r.watermark \/ lastPersisted <= EndLsn(Handed)
    BY <1>1, <1>5, <2>3 DEF DataInv, CoverInv
  <2>5. /\ Len(buffer) <= Handed
        /\ \A j \in 1..Len(buffer) : buffer[j] = Handed - Len(buffer) + j
    BY <2>3 DEF DataInv, BufferInv
  <2>6. Handed \in 0..Len(wal)
    BY LivePosition
  <2>7. /\ Watermark(r.watermark, r.seen) /\ r.seen <= r.pos /\ r.pos <= Len(wal)
        /\ r.watermark \in Int /\ r.seen \in Nat /\ r.pos \in Nat
    BY <1>1, <1>n, ReadFields DEF ReadInv
  <2> DEFINE w == r.watermark \div 2
             b == Handed - Len(buffer)
  <2>8. /\ w \in Nat /\ r.watermark = EndLsn(w) /\ w <= r.seen + 1 /\ w <= Len(wal)
    BY <1>n, <2>7 DEF Watermark, EndLsn, Numbers
  <2>9. b \in Nat /\ b <= w /\ b + Len(buffer) = Handed
    BY <1>n, <2>4, <2>5, <2>6, <2>8 DEF EndLsn, Numbers
  <2>10. ASSUME NEW k \in Keys PROVE ExactRow(k)'
    <3>1. SUFFICES ASSUME OutsideLag(k)' PROVE Follows(core[k], k, Reached, basePos)'
      BY DEF ExactRow
    <3>2. \A i \in 1..w : r.seen < i /\ r.pos < i => RowsAt(i)[k] = RowsAt(i - 1)[k]
      BY <1>2, <2>1, <3>1 DEF OutsideLag, RowsAt
    <3>3. Follows(ViewAt(r.pos)[k], k, w, r.pos)
      <4> HIDE DEF w
      <4> QED BY <2>7, <2>8, <3>2, BaselineFollows
    <3>4. Follows(Drained(ViewAt(r.pos), r.watermark)[k], k,
                  IF w > Handed THEN w ELSE Handed, r.pos)
      <4>1. HistoryTyped /\ ViewAt(r.pos) \in Content /\ Len(buffer) \in Nat
        BY <1>n, ViewContent DEF HistoryTyped, CollectionTypeOK, Numbers
      <4>2. w < Len(history) /\ b + Len(buffer) < Len(history)
        BY <1>n, <2>6, <2>8, <2>9 DEF Numbers
      <4>3. \A j \in 1..Len(buffer) : buffer[j] = b + j
        BY <2>5
      <4>4. r.pos \in Nat
        BY <2>7
      <4> HIDE DEF w, b
      <4>5. Follows(Drained(ViewAt(r.pos), r.watermark)[k], k,
                    IF w > b + Len(buffer) THEN w ELSE b + Len(buffer), r.pos)
        BY <2>8, <2>9, <3>3, <4>1, <4>2, <4>3, <4>4, DrainedFollows
      <4> QED BY <2>9, <4>5
    <3>5. Reached' = IF w > Handed THEN w ELSE Handed
      BY <1>2, <1>n, <2>1, <2>6, <2>8 DEF Reached, EndLsn, Numbers
    <3> QED BY <1>2, <2>1, <3>4, <3>5 DEF Follows, ViewAt, RowsAt
  <2> QED BY <2>4, <2>10
<1> QED BY <1>4, <1>5

\* A handshake that fails gives up the claim to be in sync, or was superseded.
LEMMA DataAfterFail ==
  ASSUME SafeInv, DataInv, FailHandshake
  PROVE  DataInv'
<1>n. CollectionTypeOK /\ OwnerInv
  BY DEF SafeInv, FrameInv
<1>1. PICK r \in reads :
        /\ reads' = reads \ {r} /\ Settled(r, "rejected")
        /\ disposed' = (disposed \/ r.kind = "initial")
        /\ \/ r.gen # handshakeGen /\ UNCHANGED <<baselining, buffer, synced>>
           \/ /\ r.gen = handshakeGen
              /\ baselining' = FALSE /\ buffer' = <<>> /\ synced' = FALSE
  BY HandshakeFailed
<1>2. /\ UNCHANGED <<phase, slot, sent, lastPersisted, captured, history, handshakeGen,
                     core, watermarkFloor, basePos, lagFrom>>
      /\ Live' = Live /\ Handed' = Handed
  BY HandshakeFailed DEF EndFrame, database, runtime, Live, Handed
<1>3. Registered' => Registered
  <2>1. disposed' = disposed \/ disposed' = TRUE
    BY <1>1, <1>n DEF CollectionTypeOK
  <2> QED BY <1>1, <1>n, <2>1, SettledOwner
<1>4. CASE UNCHANGED <<baselining, buffer, synced>>
  <2>1. BufferInv' /\ CoverInv'
    BY <1>1, <1>2, <1>3, <1>4 DEF DataInv, BufferInv, CoverInv
  <2>2. Reached' = Reached
    BY <1>2, ReachedKept
  <2>3. ASSUME NEW k \in Keys, ExactRow(k) PROVE ExactRow(k)'
    BY <1>2, <2>2, <2>3, ExactRowKept
  <2>4. ExactInv'
    BY <1>2, <1>3, <1>4, <2>3, DataRows DEF ExactInv, ExactRow
  <2> QED BY <2>1, <2>4 DEF DataInv
<1>5. CASE baselining' = FALSE /\ synced' = FALSE
  BY <1>5 DEF DataInv, BufferInv, CoverInv, ExactInv
<1> QED BY <1>1, <1>4, <1>5

\* Every step keeps the data invariant, when clients wait for start().
LEMMA DataStep ==
  ASSUME AwaitStart, SafeInv, SafeInv', DataInv, [CollectionNext]_allVars
  PROVE  DataInv'
<1>n. /\ Numbers /\ Numbers' /\ OwnerInv /\ SessionInv
      /\ Registered => hasStreamed
  <2>1. SafeInv' => Numbers'
    BY NumbersHold, PTL
  <2> QED BY <2>1, NumbersHold DEF SafeInv, FrameInv, StreamInv, OwnerInv
<1>p. Live' => Handed' \in Nat
  <2>1. SafeInv' => (Live => Handed \in Nat)'
    BY LiveHanded, PTL
  <2> QED BY <2>1
<1>1. ASSUME NEW rows \in Content, Write(rows) PROVE DataInv'
  BY <1>1, DataAfterWrite
<1>2. CASE BecomeVisible
  <2>1. UNCHANGED <<handshake, lastPersisted, history, phase, captured, sent, slot, promise,
                    disposed>>
    BY <1>2 DEF BecomeVisible, vars, database, runtime, rounds, collection
  <2> QED BY <2>1, DataKept DEF Live, Handed, Registered
<1>3. CASE StreamStep
  <2>1. UNCHANGED <<history, captured, promise, disposed, handshake>>
    BY <1>3 DEF StreamStep, database2, rounds, collection
  <2>2. CASE SkipReplay
    BY <1>3, <2>2, DataAfterSkip DEF StreamStep, database2
  <2>3. CASE Ingest \/ AckArrives
    <3>1. /\ UNCHANGED <<lastPersisted, sent>> /\ phase \in {"streaming", "emitting"}
          /\ phase' \in {"streaming", "emitting"}
      BY <2>3 DEF Ingest, AckArrives, runtime
    <3> QED BY <2>1, <3>1, DataKept DEF Live, Handed, Registered
  <2>4. CASE SlotLost \/ (\E S \in SUBSET Tables : Start(S)) \/ ResumeRecreate
             \/ RotateAndSeed(SeededBy(slot \div 2))
    <3>1. phase' \in {"stopped", "connecting", "adopting"}
      BY <2>4 DEF SlotLost, Start, ResumeRecreate, RotateAndSeed
    <3> QED BY <3>1, DataVacuous DEF Live
  <2> QED BY <1>3, <2>2, <2>3, <2>4 DEF StreamStep
<1>4. CASE BackfillReached
  <2>1. /\ UNCHANGED <<promise, disposed, hasStreamed>>
        /\ captured' = (hasStreamed /\ Registered)
        /\ phase' \in {"rotating", "rebaselining"}
    BY <1>4 DEF BackfillReached, AdoptRotation, CreateSlot, runtime, collection
  <2> QED BY <1>n, <2>1, DataVacuous DEF Live, Registered
<1>5. CASE CreateDurableSlot
  <2>1. phase' = "rotating"
    BY <1>5 DEF CreateDurableSlot, CreateSlot
  <2> QED BY <2>1, DataVacuous DEF Live
<1>6. CASE LaunchRebaseline
  BY <1>6, DataAfterLaunch
<1>7. CASE Resume
  <2>1. UNCHANGED <<promise, disposed, hasStreamed>>
    BY <1>7 DEF Resume, ResumeAdopt
  <2>2. CASE Registered
    <3>1. BeginHandshake("rebaseline", FALSE)
      BY <1>7, <1>n, <2>2 DEF Resume
    <3>2. baselining' = TRUE /\ buffer' = <<>> /\ handshakeGen' = handshakeGen + 1
      BY <3>1 DEF BeginHandshake
    <3>3. \A r \in reads' : r.gen = handshakeGen' => r.stage = "watermark"
      <4>1. \A r \in reads : r.gen \in Nat /\ r.gen <= handshakeGen
        BY ReadFields DEF SafeInv, FrameInv, HandshakeInv
      <4>2. \A r \in reads : r.gen # handshakeGen'
        BY <1>n, <3>2, <4>1 DEF Numbers
      <4> QED BY <3>1, <4>2 DEF BeginHandshake
    <3> QED BY <1>n, <1>p, <3>2, <3>3, DataAfterBegin
  <2>3. CASE ~Registered
    BY <2>1, <2>3, DataVacuous DEF Registered
  <2> QED BY <2>2, <2>3
<1>8. CASE OpenStreamAndReady
  <2>1. /\ UNCHANGED <<handshake, lastPersisted, history, captured, promise, disposed, slot>>
        /\ ~captured /\ phase \in {"rebaselining", "resyncing"} /\ phase' = "streaming"
    BY <1>8 DEF OpenStreamAndReady, OpenStream, RoundSettled, database, database2, collection
  <2>2. PICK k \in 0..Len(wal) : EndLsn(k) = slot /\ sent' = k
    BY <1>8 DEF OpenStreamAndReady, OpenStream
  <2>3. Handed' = Handed
    <3>1. slot \div 2 = k
      <4>1. k \in Nat
        BY <1>n, <2>2 DEF Numbers
      <4>2. EndLsn(k) \div 2 = k
        BY <4>1, EndOfCommit
      <4> QED BY <2>2, <4>2
    <3> QED BY <2>1, <2>2, <3>1 DEF Handed
  <2> QED BY <2>1, <2>3, DataKept DEF Live, Registered
<1>9. CASE Deliver
  BY <1>9, DataAfterDeliver
<1>10. CASE BackfillAborts \/ Disconnected \/ StopRuntime \/ CrashProcess
  <2>1. phase' \in {"connecting", "stopped"}
    BY <1>10 DEF BackfillAborts, BackfillFails, Disconnected, Disconnect, StopRuntime, Stop,
                 CrashProcess, Crash
  <2> QED BY <2>1, DataVacuous DEF Live
<1>11. CASE Create
  <2>1. baselining' = TRUE /\ buffer' = <<>>
    BY <1>11 DEF Create
  <2>2. \A r \in reads' : r.stage = "watermark"
    BY <1>11 DEF Create
  <2> QED BY <1>n, <1>p, <2>1, <2>2, DataAfterBegin
<1>12. CASE ReadWatermark
  BY <1>12, DataAfterWatermark
<1>13. CASE SelectBaseline
  BY <1>13, DataAfterSelect
<1>14. CASE FinishHandshake
  BY <1>14, DataAfterFinish
<1>15. CASE FailHandshake
  BY <1>15, DataAfterFail
<1>16. CASE Dispose
  <2>1. disposed' = TRUE
    BY <1>16 DEF Dispose
  <2> QED BY <2>1, DataVacuous DEF Registered
<1>17. CASE UNCHANGED allVars
  <2>1. UNCHANGED <<handshake, lastPersisted, history, phase, captured, sent, slot, promise,
                    disposed>>
    BY <1>17 DEF allVars, vars, database, runtime, database2, rounds, collection
  <2> QED BY <2>1, DataKept DEF Live, Handed, Registered
<1> QED
  BY <1>1, <1>2, <1>3, <1>4, <1>5, <1>6, <1>7, <1>8, <1>9, <1>10, <1>11, <1>12, <1>13,
     <1>14, <1>15, <1>16, <1>17 DEF CollectionNext

\* A collection that its stream carries is exact, in the words of the runs.
LEMMA ExactFromData ==
  ASSUME SafeInv, DataInv
  PROVE  CollectionIsExact
<1> SUFFICES ASSUME InSync, NEW k \in Keys, OutsideLag(k)
             PROVE  /\ core[k] \in {ViewAt(UpTo)[k], ViewAt(basePos)[k]}
                    /\ basePos <= UpTo => core[k] = ViewAt(UpTo)[k]
  BY DEF CollectionIsExact
<1>1. Live /\ Registered /\ synced /\ ~baselining /\ Handed = sent
  BY DEF InSync, Live, Handed
<1>2. ExactRow(k) /\ Reached = UpTo
  BY <1>1, DataRows DEF Reached, UpTo
<1> QED BY <1>2 DEF ExactRow, Follows

\* The inductive invariant holds in every behaviour.
THEOREM CollectionInvariant == CollectionSpec => []CollectionInv
<1>1. CollectionInit => DataInv
  <2> SUFFICES ASSUME CollectionInit PROVE DataInv
    OBVIOUS
  <2>1. promise = "none"
    BY DEF CollectionInit
  <2> QED BY <2>1 DEF DataInv, BufferInv, CoverInv, ExactInv, Registered
<1>2. SafeInv /\ SafeInv' /\ (AwaitStart => DataInv) /\ [CollectionNext]_allVars
        => (AwaitStart => DataInv)'
  BY DataStep
<1>3. CollectionInit => (AwaitStart => DataInv)
  BY <1>1
<1>4. CollectionSpec => [](AwaitStart => DataInv)
  BY <1>2, <1>3, SafeInvariant, PTL DEF CollectionSpec
<1>5. SafeInv /\ (AwaitStart => DataInv) => CollectionInv
  BY DEF SafeInv, CollectionInv
<1> QED BY <1>4, <1>5, SafeInvariant, PTL

\* Exactly-once delivery to live collections: with clients created once start()
\* has resolved, no commit is lost or applied out of place by any interleaving of
\* handshakes, rebaselines, replays, faults and restarts, for any tables, keys,
\* contents and query.
THEOREM CollectionExactness ==
  ASSUME AwaitStart
  PROVE  CollectionSpec => []CollectionIsExact
<1>1. SafeInv /\ CollectionInv => CollectionIsExact
  BY ExactFromData DEF CollectionInv
<1> QED BY <1>1, SafeInvariant, CollectionInvariant, PTL
=============================================================================
