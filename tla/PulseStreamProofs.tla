-------------------------- MODULE PulseStreamProofs --------------------------
(***************************************************************************)
(* Proofs about PulseStream.                                               *)
(***************************************************************************)
EXTENDS PulseStream, TLAPS

(***************************************************************************)
(* Type correctness.                                                       *)
(***************************************************************************)
\* The initial state is well typed.
LEMMA TypeInit == Init => TypeOK
<1> SUFFICES ASSUME Init PROVE TypeOK
  OBVIOUS
<1>1. wal \in Seq(SUBSET Tables) /\ tapped \in Seq(Nat)
  BY DEF Init
<1>2. events \in [Tables -> SUBSET Row]
  BY DEF Init
<1>3. faults \in 0..MaxFaults
  BY BoundAssumption DEF Init
<1>4. nextSnapshot \in [Tables -> Nat] /\ epoch \in [Tables -> Nat]
      /\ eventsEpochs \in [Tables -> Nat] /\ floor \in [Tables -> Int]
  BY DEF Init, NoLsn
<1>5. slot \in Int /\ watermark \in Int /\ lastPersisted \in Int
  BY DEF Init, NoLsn
<1>6. sent \in Nat /\ hasStreamed \in BOOLEAN /\ phase \in Phases
  BY DEF Init, Phases
<1>7. QED
  BY <1>1, <1>2, <1>3, <1>4, <1>5, <1>6 DEF TypeOK

\* The identity counters stay naturals when a value is drawn (the $snapshot column).
LEMMA DrawnType ==
  ASSUME TypeOK, NEW S \in SUBSET Tables
  PROVE  Drawn(S) \in [Tables -> Nat]
BY DEF TypeOK, Drawn

\* The seed row of createBaselineSnapshot is a row of an events table.
LEMMA SeedRowType ==
  ASSUME TypeOK, NEW t \in Tables
  PROVE  SeedRow(t) \in Row
BY DEF TypeOK, SeedRow, Row

\* The row ingestCommit writes is a row of an events table.
LEMMA ChangeRowType ==
  ASSUME TypeOK, NEW t \in Tables, NEW i \in Nat
  PROVE  ChangeRow(t, i) \in Row
BY DEF TypeOK, ChangeRow, Row

\* Every step of the stream keeps every variable in its type.
LEMMA TypeStep == TypeOK /\ [Next]_vars => TypeOK'
<1> SUFFICES ASSUME TypeOK, [Next]_vars PROVE TypeOK'
  OBVIOUS
<1> USE BoundAssumption, PullAssumption DEF TypeOK, Phases, NoLsn
<1>1. ASSUME NEW S \in SUBSET Tables, Commit(S) PROVE TypeOK'
  BY <1>1 DEF Commit, runtime
<1>2. CASE SlotLost
  BY <1>2 DEF SlotLost, Fault, runtime
<1>3. ASSUME NEW S \in SUBSET Tables, Start(S) PROVE TypeOK'
  <2>1. events' \in [Tables -> SUBSET Row] /\ nextSnapshot' \in [Tables -> Nat]
    BY <1>3 DEF Start
  <2>2. epoch' \in [Tables -> Nat] /\ eventsEpochs' \in [Tables -> Nat]
    BY <1>3 DEF Start, Rotated
  <2>3. floor' \in [Tables -> Int] /\ faults' \in 0..MaxFaults
    BY <1>3 DEF Start, Fault
  <2>4. QED
    BY <1>3, <2>1, <2>2, <2>3 DEF Start
<1>4. CASE CreateSlot
  BY <1>4 DEF CreateSlot, EndLsn, runtime
<1>5. ASSUME NEW S \in SUBSET Tables, RotateAndSeed(S) PROVE TypeOK'
  <2>1. events' \in [Tables -> SUBSET Row]
    BY <1>5, SeedRowType DEF RotateAndSeed
  <2>2. nextSnapshot' \in [Tables -> Nat]
    BY <1>5, DrawnType DEF RotateAndSeed
  <2>3. QED
    BY <1>5, <2>1, <2>2 DEF RotateAndSeed, Rotated, consistentPoint, runtime
<1>6. CASE AdoptRotation
  BY <1>6 DEF AdoptRotation, consistentPoint, database
<1>7. CASE ResumeRecreate
  BY <1>7 DEF ResumeRecreate, runtime
<1>8. ASSUME NEW S \in SUBSET Tables, ResumeAdopt(S) PROVE TypeOK'
  <2>1. events' \in [Tables -> SUBSET Row]
    BY <1>8, SeedRowType DEF ResumeAdopt
  <2>2. nextSnapshot' \in [Tables -> Nat]
    BY <1>8, DrawnType DEF ResumeAdopt
  <2>3. QED
    BY <1>8, <2>1, <2>2 DEF ResumeAdopt
<1>9. CASE OpenStream
  BY <1>9 DEF OpenStream, database
<1>10. CASE SkipReplay
  BY <1>10 DEF SkipReplay, database
<1>11. CASE Ingest
  <2>1. wal[sent + 1] \in SUBSET Tables
    BY <1>11 DEF Ingest
  <2>2. events' \in [Tables -> SUBSET Row]
    BY <1>11, ChangeRowType DEF Ingest, Ingested
  <2>3. nextSnapshot' \in [Tables -> Nat]
    BY <1>11, <2>1, DrawnType DEF Ingest
  <2>4. QED
    BY <1>11, <2>2, <2>3 DEF Ingest, CommitLsn, runtime
<1>12. CASE Emit
  BY <1>12 DEF Emit, CommitLsn, database
<1>13. CASE EmitOnly
  BY <1>13 DEF EmitOnly, database
<1>14. CASE AckArrives
  BY <1>14 DEF AckArrives, EndLsn, runtime
<1>15. CASE BackfillFails
  BY <1>15 DEF BackfillFails, Fault, SlotAfterClose, runtime
<1>16. CASE Disconnect
  BY <1>16 DEF Disconnect, Fault, SlotAfterClose, runtime
<1>17. CASE Stop
  BY <1>17 DEF Stop, Fault, EndLsn, runtime
<1>18. CASE Crash
  <2>1. eventsEpochs' \in [Tables -> Nat] /\ tapped' \in Seq(Nat)
    BY <1>18 DEF Crash
  <2>2. faults' \in 0..MaxFaults
    BY <1>18 DEF Crash, Fault
  <2>3. hasStreamed' \in BOOLEAN /\ sent' \in Nat /\ phase' \in Phases
    BY <1>18 DEF Crash
  <2>4. slot' \in Int /\ lastPersisted' \in Int
    BY <1>18 DEF Crash, SlotAfterClose
  <2>5. QED
    BY <1>18, <2>1, <2>2, <2>3, <2>4 DEF Crash
<1>19. CASE UNCHANGED vars
  BY <1>19 DEF vars, database, runtime
<1>20. QED
  BY <1>1, <1>2, <1>3, <1>4, <1>5, <1>6, <1>7, <1>8, <1>9, <1>10, <1>11,
     <1>12, <1>13, <1>14, <1>15, <1>16, <1>17, <1>18, <1>19 DEF Next, EmitStep

\* Every variable keeps its type in every behaviour, for every number of tables
\* and both values of `pull`.
THEOREM TypeCorrect == Spec => []TypeOK
BY TypeInit, TypeStep, PTL DEF Spec

(***************************************************************************)
(* The inductive invariant, one part at a time.                            *)
(***************************************************************************)
\* No step moves slot, watermark or floor past the end of the WAL: positions come
\* from commits that exist, and a table never starts above the durable watermark.
LEMMA PositionStep ==
  TypeOK /\ PositionInv /\ SessionInv /\ [Next]_vars => PositionInv'
<1> SUFFICES ASSUME TypeOK, PositionInv, SessionInv, [Next]_vars
             PROVE  PositionInv'
  OBVIOUS
<1> USE PullAssumption DEF TypeOK, PositionInv, NoLsn, EndLsn
<1>1. ASSUME NEW S \in SUBSET Tables, Commit(S) PROVE PositionInv'
  BY <1>1 DEF Commit
<1>2. CASE SlotLost
  BY <1>2 DEF SlotLost
<1>3. ASSUME NEW S \in SUBSET Tables, Start(S) PROVE PositionInv'
  BY <1>3 DEF Start
<1>4. CASE CreateSlot
  BY <1>4 DEF CreateSlot
<1>5. ASSUME NEW S \in SUBSET Tables, RotateAndSeed(S) PROVE PositionInv'
  BY <1>5 DEF RotateAndSeed, consistentPoint, SessionInv
<1>6. CASE AdoptRotation
  BY <1>6 DEF AdoptRotation, database
<1>7. CASE ResumeRecreate
  BY <1>7 DEF ResumeRecreate
<1>8. ASSUME NEW S \in SUBSET Tables, ResumeAdopt(S) PROVE PositionInv'
  BY <1>8 DEF ResumeAdopt
<1>9. CASE OpenStream
  BY <1>9 DEF OpenStream, database
<1>10. CASE SkipReplay
  BY <1>10 DEF SkipReplay, database
<1>11. CASE Ingest
  <2>1. watermark <= CommitLsn(sent + 1) /\ CommitLsn(sent + 1) <= EndLsn(Len(wal))
    BY <1>11 DEF Ingest, IsReplay, CommitLsn, SessionInv
  <2>2. QED
    BY <1>11, <2>1 DEF Ingest, CommitLsn
<1>12. CASE Emit
  BY <1>12 DEF Emit, database
<1>13. CASE EmitOnly
  BY <1>13 DEF EmitOnly, database
<1>14. CASE AckArrives
  BY <1>14 DEF AckArrives, SessionInv
<1>15. CASE BackfillFails
  BY <1>15 DEF BackfillFails, SlotAfterClose
<1>16. CASE Disconnect
  BY <1>16 DEF Disconnect, SlotAfterClose
<1>17. CASE Stop
  BY <1>17 DEF Stop, SessionInv
<1>18. CASE Crash
  BY <1>18 DEF Crash, SlotAfterClose
<1>19. CASE UNCHANGED vars
  BY <1>19 DEF vars, database, runtime
<1>20. QED
  BY <1>1, <1>2, <1>3, <1>4, <1>5, <1>6, <1>7, <1>8, <1>9, <1>10, <1>11,
     <1>12, <1>13, <1>14, <1>15, <1>16, <1>17, <1>18, <1>19 DEF Next, EmitStep

\* Every step keeps what the runtime knows of slot and watermark in each phase: the
\* dedupe floor mirrors the watermark once a stream is open, and the slot never
\* passes the last commit handed over.
LEMMA SessionStep ==
  TypeOK /\ PositionInv /\ SessionInv /\ [Next]_vars => SessionInv'
<1> SUFFICES ASSUME TypeOK, PositionInv, SessionInv, [Next]_vars
             PROVE  SessionInv'
  OBVIOUS
<1> USE PullAssumption DEF TypeOK, PositionInv, SessionInv, NoLsn, EndLsn, CommitLsn
<1>1. ASSUME NEW S \in SUBSET Tables, Commit(S) PROVE SessionInv'
  BY <1>1 DEF Commit, runtime
<1>2. CASE SlotLost
  BY <1>2 DEF SlotLost, runtime
<1>3. ASSUME NEW S \in SUBSET Tables, Start(S) PROVE SessionInv'
  BY <1>3 DEF Start
<1>4. CASE CreateSlot
  BY <1>4 DEF CreateSlot, runtime
<1>5. ASSUME NEW S \in SUBSET Tables, RotateAndSeed(S) PROVE SessionInv'
  BY <1>5 DEF RotateAndSeed, consistentPoint, runtime
<1>6. CASE AdoptRotation
  BY <1>6 DEF AdoptRotation, consistentPoint, database
<1>7. CASE ResumeRecreate
  BY <1>7 DEF ResumeRecreate, runtime
<1>8. ASSUME NEW S \in SUBSET Tables, ResumeAdopt(S) PROVE SessionInv'
  BY <1>8 DEF ResumeAdopt, CanResume
<1>9. CASE OpenStream
  BY <1>9 DEF OpenStream, database
<1>10. CASE SkipReplay
  BY <1>10 DEF SkipReplay, IsReplay, database
<1>11. CASE Ingest
  BY <1>11 DEF Ingest, IsReplay, runtime
<1>12. CASE Emit
  BY <1>12 DEF Emit, database
<1>13. CASE EmitOnly
  BY <1>13 DEF EmitOnly, database
<1>14. CASE AckArrives
  BY <1>14 DEF AckArrives, runtime
<1>15. CASE BackfillFails
  BY <1>15 DEF BackfillFails, runtime
<1>16. CASE Disconnect
  BY <1>16 DEF Disconnect, runtime
<1>17. CASE Stop
  BY <1>17 DEF Stop, runtime
<1>18. CASE Crash
  BY <1>18 DEF Crash
<1>19. CASE UNCHANGED vars
  BY <1>19 DEF vars, database, runtime
<1>20. QED
  BY <1>1, <1>2, <1>3, <1>4, <1>5, <1>6, <1>7, <1>8, <1>9, <1>10, <1>11,
     <1>12, <1>13, <1>14, <1>15, <1>16, <1>17, <1>18, <1>19 DEF Next, EmitStep

\* Drawing an identity value for the tables of S keeps every counter above the
\* rows that were below it.
LEMMA DrawnBounds ==
  ASSUME TypeOK, NEW S \in SUBSET Tables
  PROVE  \A t \in Tables : /\ nextSnapshot[t] <= Drawn(S)[t]
                           /\ t \in S => Drawn(S)[t] = nextSnapshot[t] + 1
BY DEF TypeOK, Drawn

\* No step writes a row at or above its identity counter, or resets a counter below
\* a row that stays (bootstrap drops a table together with its identity).
LEMMA IdentityStep == TypeOK /\ IdentityInv /\ [Next]_vars => IdentityInv'
<1> SUFFICES ASSUME TypeOK, IdentityInv, [Next]_vars PROVE IdentityInv'
  OBVIOUS
<1> DEFINE Kept == UNCHANGED <<events, nextSnapshot>>
<1>1. Kept => IdentityInv'
  BY DEF IdentityInv
<1>2. ASSUME NEW S \in SUBSET Tables, Commit(S) PROVE Kept
  BY <1>2 DEF Commit
<1>3. ASSUME NEW S \in SUBSET Tables, Start(S) PROVE IdentityInv'
  BY <1>3 DEF Start, IdentityInv, TypeOK
<1>4. ASSUME NEW S \in SUBSET Tables, RotateAndSeed(S) PROVE IdentityInv'
  <2> SUFFICES ASSUME NEW t \in Tables, NEW r \in events'[t]
               PROVE  r.snapshot < nextSnapshot'[t]
    BY DEF IdentityInv
  <2>1. t \in S /\ r = SeedRow(t)
    BY <1>4 DEF RotateAndSeed, TypeOK
  <2>2. nextSnapshot'[t] = nextSnapshot[t] + 1
    BY <1>4, <2>1, DrawnBounds DEF RotateAndSeed
  <2>3. r.snapshot = nextSnapshot[t] /\ nextSnapshot[t] \in Nat
    BY <2>1 DEF SeedRow, TypeOK
  <2>4. QED
    BY <2>2, <2>3
<1>5. ASSUME NEW S \in SUBSET Tables, ResumeAdopt(S) PROVE IdentityInv'
  <2> SUFFICES ASSUME NEW t \in Tables, NEW r \in events'[t]
               PROVE  r.snapshot < nextSnapshot'[t]
    BY DEF IdentityInv
  <2>1. nextSnapshot' = Drawn(S)
    BY <1>5 DEF ResumeAdopt
  <2>2. CASE t \in S
    <3>1. r = SeedRow(t)
      BY <1>5, <2>2 DEF ResumeAdopt, TypeOK
    <3>2. nextSnapshot'[t] = nextSnapshot[t] + 1
      BY <2>1, <2>2, DrawnBounds
    <3>3. r.snapshot = nextSnapshot[t] /\ nextSnapshot[t] \in Nat
      BY <3>1 DEF SeedRow, TypeOK
    <3>4. QED
      BY <3>2, <3>3
  <2>3. CASE t \notin S
    <3>1. r \in events[t] /\ r \in Row
      BY <1>5, <2>3 DEF ResumeAdopt, TypeOK
    <3>2. r.snapshot < nextSnapshot[t] /\ r.snapshot \in Nat
      BY <3>1 DEF IdentityInv, Row
    <3>3. nextSnapshot'[t] = nextSnapshot[t]
      BY <2>1, <2>3 DEF Drawn
    <3>4. QED
      BY <3>2, <3>3
  <2>4. QED
    BY <2>2, <2>3
<1>6. CASE Ingest
  <2> SUFFICES ASSUME NEW t \in Tables, NEW r \in events'[t]
               PROVE  r.snapshot < nextSnapshot'[t]
    BY DEF IdentityInv
  <2>1. wal[sent + 1] \in SUBSET Tables /\ sent + 1 \in Nat
    BY <1>6 DEF Ingest, TypeOK
  <2>2. nextSnapshot' = Drawn(wal[sent + 1])
    BY <1>6 DEF Ingest
  <2>3. CASE r \in events[t]
    <3>1. r.snapshot < nextSnapshot[t] /\ r.snapshot \in Nat
      BY <2>3 DEF IdentityInv, Row, TypeOK
    <3>2. nextSnapshot[t] <= nextSnapshot'[t]
      BY <2>1, <2>2, DrawnBounds
    <3>3. nextSnapshot[t] \in Nat /\ nextSnapshot'[t] \in Nat
      BY <2>1, <2>2, DrawnType DEF TypeOK
    <3>4. QED
      BY <3>1, <3>2, <3>3
  <2>4. CASE r \notin events[t]
    <3>1. t \in wal[sent + 1] /\ r = ChangeRow(t, sent + 1)
      BY <1>6, <2>4 DEF Ingest, Ingested, TypeOK
    <3>2. nextSnapshot'[t] = nextSnapshot[t] + 1
      BY <2>1, <2>2, <3>1, DrawnBounds
    <3>3. r.snapshot = nextSnapshot[t] /\ nextSnapshot[t] \in Nat
      BY <3>1 DEF ChangeRow, TypeOK
    <3>4. QED
      BY <3>2, <3>3
  <2>5. QED
    BY <2>3, <2>4
<1>7. CASE SlotLost
  BY <1>1, <1>7 DEF SlotLost
<1>8. CASE CreateSlot
  BY <1>1, <1>8 DEF CreateSlot
<1>9. CASE ResumeRecreate
  BY <1>1, <1>9 DEF ResumeRecreate
<1>10. CASE AdoptRotation \/ OpenStream \/ SkipReplay \/ Emit \/ EmitOnly
  BY <1>1, <1>10 DEF AdoptRotation, OpenStream, SkipReplay, Emit, EmitOnly, database
<1>11. CASE AckArrives \/ BackfillFails \/ Disconnect \/ Stop \/ Crash
  BY <1>1, <1>11 DEF AckArrives, BackfillFails, Disconnect, Stop, Crash
<1>12. CASE UNCHANGED vars
  BY <1>1, <1>12 DEF vars, database
<1>13. QED
  BY <1>1, <1>2, <1>3, <1>4, <1>5, <1>6, <1>7, <1>8, <1>9, <1>10, <1>11, <1>12
     DEF Next, EmitStep

\* The in-memory epochs differ from the stored ones only while a rotation is under
\* way or a new one is certain to come.
LEMMA EpochStep == TypeOK /\ SessionInv /\ EpochInv /\ [Next]_vars => EpochInv'
<1> SUFFICES ASSUME TypeOK, SessionInv, EpochInv, [Next]_vars,
                    PullEnabled, ~FailedBackfillKeepsSlot
             PROVE  EpochInv'
  BY DEF EpochInv
<1> USE DEF EpochInv
<1>1. ASSUME NEW S \in SUBSET Tables, Commit(S) PROVE EpochInv'
  BY <1>1 DEF Commit, runtime
<1>2. CASE SlotLost
  BY <1>2 DEF SlotLost, runtime
<1>3. ASSUME NEW S \in SUBSET Tables, Start(S) PROVE EpochInv'
  BY <1>3 DEF Start
<1>4. CASE CreateSlot
  BY <1>4 DEF CreateSlot, runtime
<1>5. ASSUME NEW S \in SUBSET Tables, RotateAndSeed(S) PROVE EpochInv'
  BY <1>5 DEF RotateAndSeed
<1>6. CASE AdoptRotation
  BY <1>6 DEF AdoptRotation, database
<1>7. CASE ResumeRecreate
  BY <1>7 DEF ResumeRecreate, runtime
<1>8. ASSUME NEW S \in SUBSET Tables, ResumeAdopt(S) PROVE EpochInv'
  BY <1>8 DEF ResumeAdopt
<1>9. CASE OpenStream \/ SkipReplay \/ Emit \/ EmitOnly
  BY <1>9 DEF OpenStream, SkipReplay, Emit, EmitOnly, database
<1>10. CASE Ingest \/ AckArrives \/ Disconnect
  BY <1>10 DEF Ingest, AckArrives, Disconnect, SlotAfterClose, runtime
<1>11. CASE BackfillFails
  BY <1>11 DEF BackfillFails
<1>12. CASE Stop \/ Crash
  BY <1>12 DEF Stop, Crash
<1>13. CASE UNCHANGED vars
  BY <1>13 DEF vars, database, runtime
<1>14. QED
  BY <1>1, <1>2, <1>3, <1>4, <1>5, <1>6, <1>7, <1>8, <1>9, <1>10, <1>11, <1>12,
     <1>13 DEF Next, EmitStep

\* Emitting the commit after `sent`, once every commit emitted before is at or
\* below `sent`, keeps the tap in order.
LEMMA TapAppend ==
  ASSUME TypeOK, TapInCommitOrder, tapped' = Append(tapped, sent + 1),
         \A j \in 1..Len(tapped) : tapped[j] <= sent
  PROVE  /\ TapInCommitOrder'
         /\ \A j \in 1..Len(tapped') : tapped'[j] <= sent + 1
<1> USE DEF TypeOK
<1>1. /\ Len(tapped') = Len(tapped) + 1
      /\ \A j \in 1..Len(tapped) : tapped'[j] = tapped[j]
      /\ tapped'[Len(tapped) + 1] = sent + 1
  OBVIOUS
<1>2. \A j \in 1..Len(tapped) : tapped[j] \in Nat
  OBVIOUS
<1>3. QED
  BY <1>1, <1>2 DEF TapInCommitOrder

\* Every step keeps the tap in commit order: what a new connection replays is at or
\* below the dedupe floor, or its slot lies past everything emitted (pull: false).
LEMMA TapStep ==
  TypeOK /\ PositionInv /\ SessionInv /\ TapInv /\ [Next]_vars => TapInv'
<1> SUFFICES ASSUME TypeOK, PositionInv, SessionInv, TapInv, [Next]_vars
             PROVE  TapInv'
  OBVIOUS
<1>t. \A j \in 1..Len(tapped) : tapped[j] \in Nat
  BY DEF TypeOK
<1> USE PullAssumption, <1>t DEF NoLsn, EndLsn, CommitLsn
<1>1. ASSUME NEW S \in SUBSET Tables, Commit(S) PROVE TapInv'
  <2>1. Len(wal') = Len(wal) + 1 /\ Len(wal) \in Nat
    BY <1>1 DEF Commit, TypeOK
  <2>2. QED
    BY <1>1, <2>1 DEF Commit, runtime, TapInv, TapInCommitOrder
<1>2. CASE SlotLost
  BY <1>2 DEF SlotLost, runtime, TapInv, TapInCommitOrder
<1>3. ASSUME NEW S \in SUBSET Tables, Start(S) PROVE TapInv'
  BY <1>3 DEF Start, TapInv, TapInCommitOrder
<1>4. CASE CreateSlot
  BY <1>4 DEF CreateSlot, runtime, TapInv, TapInCommitOrder, TypeOK
<1>5. ASSUME NEW S \in SUBSET Tables, RotateAndSeed(S) PROVE TapInv'
  BY <1>5 DEF RotateAndSeed, consistentPoint, runtime, TapInv, TapInCommitOrder,
              SessionInv, TypeOK
<1>6. CASE AdoptRotation
  BY <1>6 DEF AdoptRotation, database, TapInv, TapInCommitOrder, SessionInv
<1>7. CASE ResumeRecreate
  BY <1>7 DEF ResumeRecreate, runtime, TapInv, TapInCommitOrder
<1>8. ASSUME NEW S \in SUBSET Tables, ResumeAdopt(S) PROVE TapInv'
  BY <1>8 DEF ResumeAdopt, TapInv, TapInCommitOrder
<1>9. CASE OpenStream
  BY <1>9 DEF OpenStream, database, TapInv, TapInCommitOrder, SessionInv, TypeOK
<1>10. CASE SkipReplay
  BY <1>10 DEF SkipReplay, database, TapInv, TapInCommitOrder, SessionInv, TypeOK
<1>11. CASE Ingest
  <2>1. \A j \in 1..Len(tapped) : tapped[j] <= sent
    BY <1>11 DEF Ingest, IsReplay, TapInv, SessionInv, TypeOK
  <2>2. watermark <= CommitLsn(sent + 1)
    BY <1>11 DEF Ingest, IsReplay, SessionInv, TypeOK
  <2>3. QED
    BY <1>11, <2>1, <2>2 DEF Ingest, runtime, TapInv, TapInCommitOrder, TypeOK
<1>12. CASE Emit
  <2>1. TapInCommitOrder' /\ \A j \in 1..Len(tapped') : tapped'[j] <= sent + 1
    BY <1>12, TapAppend DEF Emit, TapInv
  <2>2. sent < Len(wal) /\ PullEnabled /\ watermark = CommitLsn(sent + 1)
    BY <1>12 DEF Emit, SessionInv
  <2>3. \A j \in 1..Len(tapped') : tapped'[j] \in Nat
    BY <1>12 DEF Emit, TypeOK
  <2>4. wal' = wal /\ watermark' = watermark /\ phase' = "streaming"
    BY <1>12 DEF Emit, database
  <2>5. sent \in Nat /\ Len(wal) \in Nat
    BY DEF TypeOK
  <2>6. QED
    BY <2>1, <2>2, <2>3, <2>4, <2>5 DEF TapInv
<1>13. CASE EmitOnly
  <2>1. TapInCommitOrder' /\ \A j \in 1..Len(tapped') : tapped'[j] <= sent + 1
    BY <1>13, TapAppend DEF EmitOnly, TapInv
  <2>2. \A j \in 1..Len(tapped') : tapped'[j] \in Nat
    BY <1>13 DEF EmitOnly, TypeOK
  <2>3. wal' = wal /\ phase' = "streaming" /\ sent' = sent + 1 /\ ~PullEnabled
        /\ sent < Len(wal)
    BY <1>13 DEF EmitOnly, database
  <2>4. sent \in Nat /\ Len(wal) \in Nat
    BY DEF TypeOK
  <2>5. QED
    BY <2>1, <2>2, <2>3, <2>4 DEF TapInv
<1>14. CASE AckArrives
  BY <1>14 DEF AckArrives, runtime, TapInv, TapInCommitOrder
<1>15. CASE BackfillFails
  BY <1>15 DEF BackfillFails, runtime, TapInv, TapInCommitOrder
<1>16. CASE Disconnect
  BY <1>16 DEF Disconnect, runtime, TapInv, TapInCommitOrder
<1>17. CASE Stop
  BY <1>17 DEF Stop, runtime, TapInv, TapInCommitOrder
<1>18. CASE Crash
  BY <1>18 DEF Crash, TapInv, TapInCommitOrder
<1>19. CASE UNCHANGED vars
  BY <1>19 DEF vars, database, runtime, TapInv, TapInCommitOrder
<1>20. QED
  BY <1>1, <1>2, <1>3, <1>4, <1>5, <1>6, <1>7, <1>8, <1>9, <1>10, <1>11,
     <1>12, <1>13, <1>14, <1>15, <1>16, <1>17, <1>18, <1>19 DEF Next, EmitStep

\* Actions that leave history, tables and watermark alone leave the log exact.
LEMMA LogUnchanged ==
  LogIsExact /\ UNCHANGED <<wal, events, watermark, floor>> => LogIsExact'
BY DEF LogIsExact, Changes, InScope

\* A new commit lies above the watermark: no table has to hold it yet.
LEMMA LogAfterCommit ==
  ASSUME TypeOK, PositionInv, LogIsExact, NEW S \in SUBSET Tables, Commit(S)
  PROVE  LogIsExact'
<1>1. /\ Len(wal') = Len(wal) + 1 /\ Len(wal) \in Nat
      /\ \A i \in 1..Len(wal) : wal'[i] = wal[i]
  BY DEF Commit, TypeOK
<1>2. UNCHANGED <<events, watermark, floor>>
  BY DEF Commit
<1>3. watermark < CommitLsn(Len(wal) + 1) /\ watermark \in Int
  BY <1>1 DEF PositionInv, TypeOK, CommitLsn, EndLsn
<1>4. ASSUME NEW t \in Tables, NEW i \in 1..Len(wal)
      PROVE  InScope(t, i)' <=> InScope(t, i)
  BY <1>1, <1>2 DEF InScope, CommitLsn
<1>5. ASSUME NEW t \in Tables, NEW i, i = Len(wal) + 1 PROVE ~InScope(t, i)'
  BY <1>1, <1>2, <1>3, <1>5 DEF InScope, CommitLsn
<1>6. SUFFICES ASSUME NEW t \in Tables
      PROVE /\ \A r \in Changes(t) : r.commit \in 1..Len(wal') /\ InScope(t, r.commit)'
            /\ \A i \in 1..Len(wal') :
                 InScope(t, i)' => \E r \in Changes(t) : r.commit = i
            /\ \A r, s \in Changes(t) : r.commit < s.commit <=> r.snapshot < s.snapshot
            /\ \A r, s \in events[t] :
                 /\ r.snapshot = s.snapshot => r = s
                 /\ r.op = "snapshot" /\ r # s => r.snapshot < s.snapshot
  BY <1>2 DEF LogIsExact, Changes, InScope
<1>7. \A r \in Changes(t) : r.commit \in 1..Len(wal') /\ InScope(t, r.commit)'
  BY <1>1, <1>4 DEF LogIsExact
<1>8. \A i \in 1..Len(wal') : InScope(t, i)' => \E r \in Changes(t) : r.commit = i
  <2> SUFFICES ASSUME NEW i \in 1..Len(wal'), InScope(t, i)'
               PROVE  \E r \in Changes(t) : r.commit = i
    OBVIOUS
  <2>1. i # Len(wal) + 1
    BY <1>5
  <2>2. i \in 1..Len(wal)
    BY <1>1, <2>1
  <2>3. QED
    BY <2>2, <1>4 DEF LogIsExact
<1>9. QED
  BY <1>7, <1>8 DEF LogIsExact

\* A table that was just (re)created after the watermark is trivially exact:
\* nothing is in scope, and it holds at most its seed row.
LEMMA LogAfterStart ==
  ASSUME TypeOK, PositionInv, LogIsExact, NEW S \in SUBSET Tables, Start(S)
  PROVE  LogIsExact'
<1> DEFINE recreated == IF PullEnabled
                        THEN S \union {t \in Tables : epoch[t] = 0} ELSE {}
<1>1. UNCHANGED <<wal, watermark>>
  BY DEF Start
<1>2. ASSUME NEW t \in Tables, t \in recreated
      PROVE  events'[t] = {} /\ floor'[t] = watermark
  BY <1>2 DEF Start
<1>3. ASSUME NEW t \in Tables, t \notin recreated
      PROVE  events'[t] = events[t] /\ floor'[t] = floor[t]
  BY <1>3 DEF Start
<1> HIDE DEF recreated
<1>4. SUFFICES ASSUME NEW t \in Tables
      PROVE /\ \A r \in Changes(t)' : r.commit \in 1..Len(wal) /\ InScope(t, r.commit)'
            /\ \A i \in 1..Len(wal) :
                 InScope(t, i)' => \E r \in Changes(t)' : r.commit = i
            /\ \A r, s \in Changes(t)' : r.commit < s.commit <=> r.snapshot < s.snapshot
            /\ \A r, s \in events'[t] :
                 /\ r.snapshot = s.snapshot => r = s
                 /\ r.op = "snapshot" /\ r # s => r.snapshot < s.snapshot
  BY <1>1 DEF LogIsExact, Changes, InScope
<1>5. CASE t \in recreated
  <2>1. \A i \in 1..Len(wal) : ~InScope(t, i)'
    BY <1>1, <1>2, <1>5 DEF InScope, CommitLsn, TypeOK
  <2>2. QED
    BY <2>1, <1>2, <1>5 DEF Changes
<1>6. CASE t \notin recreated
  <2>1. Changes(t)' = Changes(t) /\ \A i : InScope(t, i)' <=> InScope(t, i)
    BY <1>1, <1>3, <1>6 DEF Changes, InScope, CommitLsn
  <2>2. QED
    BY <2>1, <1>3, <1>6 DEF LogIsExact
<1>7. QED
  BY <1>5, <1>6

\* After rotateAndSeedEvents every table starts at the consistent point, which is
\* the watermark too: nothing is in scope and only seed rows are left.
LEMMA LogAfterRotation ==
  ASSUME TypeOK, NEW S \in SUBSET Tables, RotateAndSeed(S)
  PROVE  LogIsExact'
<1>1. UNCHANGED wal
  BY DEF RotateAndSeed
<1>2. SUFFICES ASSUME NEW t \in Tables
      PROVE /\ \A r \in Changes(t)' : r.commit \in 1..Len(wal) /\ InScope(t, r.commit)'
            /\ \A i \in 1..Len(wal) :
                 InScope(t, i)' => \E r \in Changes(t)' : r.commit = i
            /\ \A r, s \in Changes(t)' : r.commit < s.commit <=> r.snapshot < s.snapshot
            /\ \A r, s \in events'[t] :
                 /\ r.snapshot = s.snapshot => r = s
                 /\ r.op = "snapshot" /\ r # s => r.snapshot < s.snapshot
  BY <1>1 DEF LogIsExact, Changes, InScope
<1>3. events'[t] \subseteq {SeedRow(t)} /\ SeedRow(t).op = "snapshot"
  BY DEF RotateAndSeed, SeedRow
<1>4. Changes(t)' = {}
  BY <1>3 DEF Changes
<1>5. floor'[t] = slot /\ watermark' = slot /\ slot \in Int
  BY DEF RotateAndSeed, consistentPoint, TypeOK
<1>6. \A i \in 1..Len(wal) : ~InScope(t, i)'
  BY <1>5 DEF InScope, CommitLsn
<1>7. QED
  BY <1>3, <1>4, <1>6

\* A resume seeds only empty tables, and a seed row is no change.
LEMMA LogAfterResume ==
  ASSUME TypeOK, LogIsExact, NEW S \in SUBSET Tables, ResumeAdopt(S)
  PROVE  LogIsExact'
<1>1. UNCHANGED <<wal, watermark, floor>>
  BY DEF ResumeAdopt
<1>2. SUFFICES ASSUME NEW t \in Tables
      PROVE /\ \A r \in Changes(t)' : r.commit \in 1..Len(wal) /\ InScope(t, r.commit)
            /\ \A i \in 1..Len(wal) :
                 InScope(t, i) => \E r \in Changes(t)' : r.commit = i
            /\ \A r, s \in Changes(t)' : r.commit < s.commit <=> r.snapshot < s.snapshot
            /\ \A r, s \in events'[t] :
                 /\ r.snapshot = s.snapshot => r = s
                 /\ r.op = "snapshot" /\ r # s => r.snapshot < s.snapshot
  BY <1>1 DEF LogIsExact, Changes, InScope, CommitLsn
<1>3. CASE t \in S
  <2>1. events[t] = {} /\ events'[t] = {SeedRow(t)} /\ SeedRow(t).op = "snapshot"
    BY <1>3 DEF ResumeAdopt, SeedRow
  <2>2. Changes(t) = {} /\ Changes(t)' = {}
    BY <2>1 DEF Changes
  <2>3. QED
    BY <2>1, <2>2 DEF LogIsExact
<1>4. CASE t \notin S
  <2>1. events'[t] = events[t]
    BY <1>4 DEF ResumeAdopt
  <2>2. Changes(t)' = Changes(t)
    BY <2>1 DEF Changes
  <2>3. QED
    BY <2>1, <2>2 DEF LogIsExact
<1>5. QED
  BY <1>3, <1>4

\* Ingesting the commit after `sent` moves the scope of every table by exactly
\* that commit, and the rows with it.
LEMMA LogAfterIngest ==
  ASSUME TypeOK, PositionInv, SessionInv, IdentityInv, LogIsExact, Ingest
  PROVE  LogIsExact'
<1> DEFINE n == sent + 1
<1>1. UNCHANGED <<wal, floor>> /\ watermark' = CommitLsn(n) /\ events' = Ingested(n)
  BY DEF Ingest
<1>2. n \in 1..Len(wal) /\ sent \in Nat /\ Len(wal) \in Nat
  BY DEF Ingest, TypeOK
<1>3. CommitLsn(sent) <= watermark /\ watermark < CommitLsn(n) /\ watermark \in Int
  BY <1>2 DEF Ingest, IsReplay, SessionInv, TypeOK, CommitLsn, NoLsn
<1>4. \A t \in Tables : floor[t] <= watermark /\ floor[t] \in Int
  BY DEF PositionInv, TypeOK
<1> HIDE DEF n
<1>5. ASSUME NEW t \in Tables, NEW i \in 1..Len(wal)
      PROVE  InScope(t, i)' <=> InScope(t, i) \/ (i = n /\ t \in wal[n])
  BY <1>1, <1>2, <1>3, <1>4 DEF InScope, CommitLsn, n
<1>6. ASSUME NEW t \in Tables PROVE ~InScope(t, n)
  BY <1>2, <1>3 DEF InScope, CommitLsn
<1>7. SUFFICES ASSUME NEW t \in Tables
      PROVE /\ \A r \in Changes(t)' : r.commit \in 1..Len(wal) /\ InScope(t, r.commit)'
            /\ \A i \in 1..Len(wal) :
                 InScope(t, i)' => \E r \in Changes(t)' : r.commit = i
            /\ \A r, s \in Changes(t)' : r.commit < s.commit <=> r.snapshot < s.snapshot
            /\ \A r, s \in events'[t] :
                 /\ r.snapshot = s.snapshot => r = s
                 /\ r.op = "snapshot" /\ r # s => r.snapshot < s.snapshot
  BY <1>1 DEF LogIsExact, Changes, InScope
<1>8. CASE t \notin wal[n]
  <2>1. events'[t] = events[t]
    BY <1>1, <1>8 DEF Ingested
  <2>2. Changes(t)' = Changes(t)
    BY <2>1 DEF Changes
  <2>3. QED
    BY <2>1, <2>2, <1>5, <1>8 DEF LogIsExact
<1>9. CASE t \in wal[n]
  <2> DEFINE new == ChangeRow(t, n)
  <2>1. new.commit = n /\ new.op = "change" /\ new.snapshot = nextSnapshot[t]
    BY DEF ChangeRow
  <2>2. events'[t] = events[t] \union {new}
    BY <1>1, <1>9 DEF Ingested
  <2> HIDE DEF new
  <2>3. Changes(t)' = Changes(t) \union {new}
    BY <2>1, <2>2 DEF Changes
  <2>4. \A r \in Changes(t) : r.commit \in 1..Len(wal) /\ InScope(t, r.commit)
    BY DEF LogIsExact
  <2>5. \A r \in Changes(t) : r.commit < n
    <3> SUFFICES ASSUME NEW r \in Changes(t) PROVE r.commit < n
      OBVIOUS
    <3>1. CommitLsn(r.commit) <= watermark /\ r.commit \in 1..Len(wal)
      BY <2>4 DEF InScope
    <3>2. QED
      BY <3>1, <1>2, <1>3 DEF CommitLsn
  <2>6. \A r \in events[t] : r.snapshot \in Nat /\ r.snapshot < new.snapshot
    BY <2>1 DEF IdentityInv, TypeOK, Row
  <2>7. new.snapshot \in Nat
    BY <2>1 DEF TypeOK
  <2>8. \A r \in Changes(t)' : r.commit \in 1..Len(wal) /\ InScope(t, r.commit)'
    <3> SUFFICES ASSUME NEW r \in Changes(t)'
                 PROVE  r.commit \in 1..Len(wal) /\ InScope(t, r.commit)'
      OBVIOUS
    <3>1. r.commit \in 1..Len(wal)
      BY <2>1, <2>3, <2>4, <1>2
    <3>2. InScope(t, r.commit) \/ r.commit = n
      BY <2>1, <2>3, <2>4
    <3>3. QED
      BY <3>1, <3>2, <1>5, <1>9
  <2>9. \A i \in 1..Len(wal) : InScope(t, i)' => \E r \in Changes(t)' : r.commit = i
    <3> SUFFICES ASSUME NEW i \in 1..Len(wal), InScope(t, i)'
                 PROVE  \E r \in Changes(t)' : r.commit = i
      OBVIOUS
    <3>1. CASE InScope(t, i)
      BY <3>1, <2>3 DEF LogIsExact
    <3>2. CASE i = n
      BY <3>2, <2>1, <2>3
    <3>3. QED
      BY <3>1, <3>2, <1>5
  <2>10. \A r, s \in Changes(t)' : r.commit < s.commit <=> r.snapshot < s.snapshot
    <3>1. \A r, s \in Changes(t) : r.commit < s.commit <=> r.snapshot < s.snapshot
      BY DEF LogIsExact
    <3>2. \A r \in Changes(t) : /\ r.commit < new.commit /\ r.snapshot < new.snapshot
                                /\ r.commit \in Nat /\ r.snapshot \in Nat
      BY <2>1, <2>4, <2>5, <2>6 DEF Changes
    <3>3. new.commit \in Nat
      BY <2>1, <1>2
    <3>4. QED
      BY <3>1, <3>2, <3>3, <2>3, <2>7
  <2>11. \A r, s \in events'[t] : /\ r.snapshot = s.snapshot => r = s
                                  /\ r.op = "snapshot" /\ r # s => r.snapshot < s.snapshot
    <3>1. \A r, s \in events[t] : /\ r.snapshot = s.snapshot => r = s
                                  /\ r.op = "snapshot" /\ r # s => r.snapshot < s.snapshot
      BY DEF LogIsExact
    <3>2. QED
      BY <3>1, <2>1, <2>2, <2>6, <2>7
  <2>12. QED
    BY <2>8, <2>9, <2>10, <2>11
<1>10. QED
  BY <1>8, <1>9

\* Every step of the stream keeps the log exact.
LEMMA LogStep ==
  /\ TypeOK /\ PositionInv /\ SessionInv /\ IdentityInv /\ LogIsExact
  /\ [Next]_vars
  => LogIsExact'
<1> SUFFICES ASSUME TypeOK, PositionInv, SessionInv, IdentityInv, LogIsExact,
                    [Next]_vars
             PROVE  LogIsExact'
  OBVIOUS
<1>1. CASE \E S \in SUBSET Tables : Commit(S)
  BY <1>1, LogAfterCommit
<1>2. CASE \E S \in SUBSET Tables : Start(S)
  BY <1>2, LogAfterStart
<1>3. CASE \E S \in SUBSET Tables : RotateAndSeed(S)
  BY <1>3, LogAfterRotation
<1>4. CASE \E S \in SUBSET Tables : ResumeAdopt(S)
  BY <1>4, LogAfterResume
<1>5. CASE Ingest
  BY <1>5, LogAfterIngest
<1>6. CASE SlotLost \/ CreateSlot \/ ResumeRecreate \/ AckArrives
  BY <1>6, LogUnchanged DEF SlotLost, CreateSlot, ResumeRecreate, AckArrives
<1>7. CASE AdoptRotation \/ OpenStream \/ SkipReplay \/ Emit \/ EmitOnly
  BY <1>7, LogUnchanged
     DEF AdoptRotation, OpenStream, SkipReplay, Emit, EmitOnly, database
<1>8. CASE BackfillFails \/ Disconnect \/ Stop \/ Crash
  BY <1>8, LogUnchanged DEF BackfillFails, Disconnect, Stop, Crash
<1>9. CASE UNCHANGED vars
  BY <1>9, LogUnchanged DEF vars, database
<1>10. QED
  BY <1>1, <1>2, <1>3, <1>4, <1>5, <1>6, <1>7, <1>8, <1>9 DEF Next, EmitStep

(***************************************************************************)
(* The invariants of PulseStream.                                          *)
(***************************************************************************)
\* The inductive invariant holds initially.
LEMMA StreamInit == Init => StreamInv
<1> SUFFICES ASSUME Init PROVE StreamInv
  OBVIOUS
<1>1. Len(wal) = 0 /\ Len(tapped) = 0
  BY DEF Init
<1>2. PositionInv
  BY <1>1 DEF Init, PositionInv, NoLsn, EndLsn
<1>3. SessionInv /\ IdentityInv /\ EpochInv
  BY DEF Init, SessionInv, IdentityInv, EpochInv
<1>4. TapInv
  BY <1>1 DEF TapInv, TapInCommitOrder
<1>5. LogIsExact
  BY <1>1 DEF Init, LogIsExact, Changes
<1>6. QED
  BY <1>2, <1>3, <1>4, <1>5 DEF StreamInv

\* Every step keeps the inductive invariant.
LEMMA StreamInvStep == TypeOK /\ StreamInv /\ [Next]_vars => StreamInv'
BY PositionStep, SessionStep, IdentityStep, EpochStep, TapStep, LogStep
   DEF StreamInv

\* A fault that only a reader of the stream notices keeps the stream's invariant.
LEMMA FaultKeepsStream ==
  ASSUME TypeOK, StreamInv, Fault, UNCHANGED <<database, runtime, phase>>
  PROVE  TypeOK' /\ StreamInv'
<1>1. UNCHANGED <<wal, slot, events, nextSnapshot, epoch, watermark, floor>>
  BY DEF database
<1>2. UNCHANGED <<sent, eventsEpochs, lastPersisted, hasStreamed, tapped, phase>>
  BY DEF runtime
<1>3. TypeOK'
  BY <1>1, <1>2, BoundAssumption DEF TypeOK, Fault
<1>4. PositionInv' /\ SessionInv' /\ IdentityInv' /\ EpochInv'
  BY <1>1, <1>2 DEF StreamInv, PositionInv, SessionInv, IdentityInv, EpochInv
<1>5. TapInv'
  BY <1>1, <1>2 DEF StreamInv, TapInv, TapInCommitOrder
<1>6. LogIsExact'
  BY <1>1, LogUnchanged DEF StreamInv
<1> QED BY <1>3, <1>4, <1>5, <1>6 DEF StreamInv

\* The inductive invariant holds in every behaviour.
THEOREM StreamInvariant == Spec => []StreamInv
BY TypeCorrect, StreamInit, StreamInvStep, PTL DEF Spec

\* Every events table is an exact, ordered, duplicate-free image of the commits
\* between its creation and the durable watermark.
THEOREM LogExactness == Spec => []LogIsExact
<1>1. StreamInv => LogIsExact
  BY DEF StreamInv
<1>2. QED
  BY <1>1, StreamInvariant, PTL

\* An open stream never acknowledges what is not persisted and never starts past
\* a gap.
THEOREM NoGap == Spec => []NoAckedGap
<1>1. TypeOK /\ StreamInv => NoAckedGap
  BY DEF TypeOK, StreamInv, SessionInv, NoAckedGap, CommitLsn, EndLsn
<1>2. QED
  BY <1>1, TypeCorrect, StreamInvariant, PTL

\* When failed backfills drop their slot, the epochs tokens are minted with are
\* the stored ones whenever a stream is open.
THEOREM EpochMirror ==
  ASSUME ~FailedBackfillKeepsSlot
  PROVE  Spec => []EpochsMirrored
<1>1. StreamInv => EpochsMirrored
  BY DEF StreamInv, EpochInv, EpochsMirrored
<1>2. QED
  BY <1>1, StreamInvariant, PTL

\* A process's tap never sees a commit twice or out of commit order.
THEOREM TapOrder == Spec => []TapInCommitOrder
<1>1. StreamInv => TapInCommitOrder
  BY DEF StreamInv, TapInv
<1>2. QED
  BY <1>1, StreamInvariant, PTL

(***************************************************************************)
(* Action properties.                                                      *)
(***************************************************************************)
\* No step moves the watermark back: an ingested commit is above it, a consistent
\* point at or above it.
LEMMA WatermarkStep ==
  TypeOK /\ StreamInv /\ [Next]_vars => [watermark' >= watermark]_vars
<1> SUFFICES ASSUME TypeOK, StreamInv, [Next]_vars PROVE watermark' >= watermark
  OBVIOUS
<1> USE DEF TypeOK
<1>1. CASE UNCHANGED watermark
  BY <1>1
<1>2. ASSUME NEW S \in SUBSET Tables, RotateAndSeed(S)
      PROVE  watermark' >= watermark
  BY <1>2 DEF RotateAndSeed, consistentPoint, StreamInv, SessionInv
<1>3. CASE Ingest
  BY <1>3 DEF Ingest, IsReplay, StreamInv, SessionInv, PositionInv, CommitLsn, NoLsn
<1>4. ASSUME NEW S \in SUBSET Tables, Commit(S) \/ Start(S) \/ ResumeAdopt(S)
      PROVE  UNCHANGED watermark
  BY <1>4 DEF Commit, Start, ResumeAdopt
<1>5. CASE SlotLost \/ CreateSlot \/ ResumeRecreate \/ AckArrives \/ BackfillFails
           \/ Disconnect \/ Stop \/ Crash
  BY <1>5, <1>1 DEF SlotLost, CreateSlot, ResumeRecreate, AckArrives, BackfillFails,
                    Disconnect, Stop, Crash
<1>6. CASE AdoptRotation \/ OpenStream \/ SkipReplay \/ Emit \/ EmitOnly
           \/ UNCHANGED vars
  BY <1>6, <1>1
     DEF AdoptRotation, OpenStream, SkipReplay, Emit, EmitOnly, database, vars
<1>7. QED
  BY <1>1, <1>2, <1>3, <1>4, <1>5, <1>6 DEF Next, EmitStep

\* The durable watermark never moves back, whatever is replayed or rotated.
THEOREM WatermarkMonotonicity == Spec => WatermarkMonotone
BY TypeCorrect, StreamInvariant, WatermarkStep, PTL DEF WatermarkMonotone, Spec

\* What a step may do to one events table without changing its epoch.
Grows(t) ==
  /\ events[t] \subseteq events'[t]
  /\ \A r \in events'[t] \ events[t], s \in events[t] : s.snapshot < r.snapshot

\* A step that keeps a table's epoch only adds rows to it, above those it has.
LEMMA CursorStep ==
  TypeOK /\ StreamInv /\ [Next]_vars =>
    [\A t \in Tables : epoch'[t] = epoch[t] => Grows(t)]_vars
<1> SUFFICES ASSUME TypeOK, StreamInv, [Next]_vars,
                    NEW t \in Tables, epoch'[t] = epoch[t]
             PROVE  Grows(t)
  OBVIOUS
<1>1. events'[t] = events[t] => Grows(t)
  BY DEF Grows
<1>2. events[t] = {} => Grows(t)
  BY DEF Grows
<1>3. ASSUME NEW S \in SUBSET Tables, Start(S) PROVE Grows(t)
  <2> DEFINE recreated == IF PullEnabled
                          THEN S \union {u \in Tables : epoch[u] = 0} ELSE {}
  <2>1. t \notin recreated
    BY <1>3 DEF Start, Rotated, TypeOK
  <2>2. QED
    BY <1>1, <1>3, <2>1 DEF Start
<1>4. ASSUME NEW S \in SUBSET Tables, RotateAndSeed(S) PROVE FALSE
  BY <1>4 DEF RotateAndSeed, Rotated, TypeOK
<1>5. ASSUME NEW S \in SUBSET Tables, ResumeAdopt(S) PROVE Grows(t)
  BY <1>1, <1>2, <1>5 DEF ResumeAdopt
<1>6. CASE Ingest
  <2>1. events'[t] \subseteq events[t] \union {ChangeRow(t, sent + 1)}
        /\ events[t] \subseteq events'[t]
    BY <1>6 DEF Ingest, Ingested
  <2>2. \A s \in events[t] : s.snapshot < ChangeRow(t, sent + 1).snapshot
    BY DEF ChangeRow, StreamInv, IdentityInv
  <2>3. QED
    BY <2>1, <2>2 DEF Grows
<1>7. ASSUME NEW S \in SUBSET Tables, Commit(S) PROVE Grows(t)
  BY <1>1, <1>7 DEF Commit
<1>8. CASE SlotLost \/ CreateSlot \/ ResumeRecreate \/ AckArrives \/ BackfillFails
           \/ Disconnect \/ Stop \/ Crash
  BY <1>8, <1>1 DEF SlotLost, CreateSlot, ResumeRecreate, AckArrives, BackfillFails,
                    Disconnect, Stop, Crash
<1>9. CASE AdoptRotation \/ OpenStream \/ SkipReplay \/ Emit \/ EmitOnly
           \/ UNCHANGED vars
  BY <1>9, <1>1
     DEF AdoptRotation, OpenStream, SkipReplay, Emit, EmitOnly, database, vars
<1>10. QED
  BY <1>3, <1>4, <1>5, <1>6, <1>7, <1>8, <1>9 DEF Next, EmitStep

\* Within an epoch a cursor never has to look back, and rows are never lost
\* without the epoch changing.
THEOREM CursorSoundness == Spec => CursorsStaySound
BY TypeCorrect, StreamInvariant, CursorStep, PTL DEF CursorsStaySound, Grows, Spec

(***************************************************************************)
(* PulseStream implements EventsLog: every step of the stream, with the    *)
(* change rows as the readable log and the commits at or below the durable *)
(* watermark as the covered ones, is a step of EventsLog or a stutter.     *)
(***************************************************************************)
Covered == {i \in 1..Len(wal) : CommitLsn(i) <= watermark}
Readable == [t \in Tables |-> {r.commit : r \in Changes(t)}]

\* The stream's initial states are EventsLog's.
LEMMA LogInit == Init => Log!Init
<1> SUFFICES ASSUME Init PROVE Log!Init
  OBVIOUS
<1>1. {i \in 1..Len(wal) : CommitLsn(i) <= watermark} = {}
  BY DEF Init
<1>2. \A t \in Tables : {r.commit : r \in Changes(t)} = {}
  BY DEF Init, Changes
<1>3. QED
  BY <1>1, <1>2 DEF Init, Log!Init

\* Steps that leave wal, tables, epochs and watermark alone are stutters.
LEMMA Stutter == UNCHANGED <<wal, events, watermark, epoch>> => UNCHANGED Log!vars
BY DEF Log!vars, Changes

\* A commit of the source appends to the history and covers nothing: it lies above
\* the watermark.
LEMMA CommitRefines ==
  ASSUME TypeOK, PositionInv, NEW S \in SUBSET Tables, Commit(S)
  PROVE  Log!AppendCommit
<1>1. /\ wal' = Append(wal, S) /\ Len(wal') = Len(wal) + 1 /\ Len(wal) \in Nat
      /\ UNCHANGED <<events, watermark, epoch>>
  BY DEF Commit, TypeOK
<1>2. watermark < CommitLsn(Len(wal) + 1)
  BY <1>1 DEF PositionInv, TypeOK, CommitLsn, EndLsn
<1>3. Covered' = Covered
  BY <1>1, <1>2 DEF Covered, CommitLsn, TypeOK
<1>4. Readable' = Readable
  BY <1>1 DEF Readable, Changes
<1>5. QED
  BY <1>1, <1>3, <1>4 DEF Log!AppendCommit, Covered, Readable

\* bootstrap starts the recreated tables over, under a new generation, and skips
\* no commit.
LEMMA StartRefines ==
  ASSUME TypeOK, NEW S \in SUBSET Tables, Start(S)
  PROVE  Log!Recreate
<1> DEFINE recreated == IF PullEnabled
                        THEN S \union {t \in Tables : epoch[t] = 0} ELSE {}
<1>1. UNCHANGED <<wal, watermark>>
  BY DEF Start
<1>2. recreated \in SUBSET Tables
  OBVIOUS
<1>3. \A t \in Tables : /\ t \in recreated <=> epoch'[t] # epoch[t]
                        /\ events'[t] = IF t \in recreated THEN {} ELSE events[t]
  BY DEF Start, Rotated, TypeOK
<1>4. DOMAIN epoch' = Tables
  BY DEF Start, Rotated
<1> HIDE DEF recreated
<1>5. \A t \in Tables :
        Changes(t)' = IF t \in recreated THEN {} ELSE Changes(t)
  BY <1>3 DEF Changes
<1>6. Readable' = [t \in Tables |-> IF t \in recreated THEN {} ELSE Readable[t]]
  BY <1>5 DEF Readable
<1>7. Covered' = Covered
  BY <1>1 DEF Covered, CommitLsn
<1>8. Log!StartOver(recreated)
  BY <1>1, <1>3, <1>4, <1>6 DEF Log!StartOver, Readable
<1>9. UNCHANGED {i \in 1..Len(wal) : CommitLsn(i) <= watermark}
  BY <1>7 DEF Covered
<1>10. QED
  BY <1>2, <1>8, <1>9 DEF Log!Recreate, Log!StartOver

\* A rotation starts every table over, after the commits the exported snapshot
\* contains.
LEMMA RotationRefines ==
  ASSUME TypeOK, PositionInv, SessionInv, NEW S \in SUBSET Tables, RotateAndSeed(S),
         \E k \in 0..Len(wal) : slot = EndLsn(k)
  PROVE  Log!Resync
<1> PICK k \in 0..Len(wal) : slot = EndLsn(k)
  OBVIOUS
<1>1. UNCHANGED wal /\ watermark' = EndLsn(k) /\ watermark <= EndLsn(k)
  BY DEF RotateAndSeed, consistentPoint, SessionInv
<1>2. \A t \in Tables : epoch'[t] # epoch[t]
  BY DEF RotateAndSeed, Rotated, TypeOK
<1>3. DOMAIN epoch' = Tables
  BY DEF RotateAndSeed, Rotated
<1>4. \A t \in Tables : Changes(t)' = {}
  BY DEF RotateAndSeed, Changes, SeedRow
<1>5. Readable' = [t \in Tables |-> IF t \in Tables THEN {} ELSE Readable[t]]
  BY <1>4 DEF Readable
<1>6. Log!StartOver(Tables)
  BY <1>1, <1>2, <1>3, <1>5 DEF Log!StartOver, Readable
<1>7. Covered' = 1..k
  BY <1>1 DEF Covered, CommitLsn, EndLsn, TypeOK
<1>8. Covered \subseteq 1..k
  BY <1>1 DEF Covered, CommitLsn, EndLsn, TypeOK
<1>9. QED
  BY <1>6, <1>7, <1>8 DEF Log!Resync, Covered

\* The seed rows of a resume are invisible in the log of changes.
LEMMA ResumeRefines ==
  ASSUME NEW S \in SUBSET Tables, ResumeAdopt(S)
  PROVE  UNCHANGED Log!vars
<1>1. UNCHANGED <<wal, watermark, epoch>>
  BY DEF ResumeAdopt
<1>2. \A t \in Tables : Changes(t)' = Changes(t)
  BY DEF ResumeAdopt, Changes, SeedRow
<1>3. QED
  BY <1>1, <1>2 DEF Log!vars, CommitLsn

\* Ingesting publishes the first commit that is not covered, to the tables it
\* touched.
LEMMA IngestRefines ==
  ASSUME TypeOK, SessionInv, Ingest
  PROVE  Log!Publish
<1> DEFINE n == sent + 1
<1>1. UNCHANGED <<wal, epoch>> /\ watermark' = CommitLsn(n) /\ events' = Ingested(n)
  BY DEF Ingest
<1>2. n \in 1..Len(wal) /\ sent \in Nat /\ Len(wal) \in Nat
  BY DEF Ingest, TypeOK
<1>3. CommitLsn(sent) <= watermark /\ watermark < CommitLsn(n) /\ watermark \in Int
  BY <1>2 DEF Ingest, IsReplay, SessionInv, TypeOK, CommitLsn, NoLsn
<1>4. n \notin Covered /\ \A m \in 1..(n - 1) : m \in Covered
  BY <1>2, <1>3 DEF Covered, CommitLsn
<1>5. Covered' = Covered \union {n}
  BY <1>1, <1>2, <1>3 DEF Covered, CommitLsn
<1> HIDE DEF n
<1>6. ASSUME NEW t \in Tables
      PROVE  {r.commit : r \in Changes(t)'} =
               IF t \in wal[n] THEN {r.commit : r \in Changes(t)} \union {n}
               ELSE {r.commit : r \in Changes(t)}
  <2>1. events'[t] = IF t \in wal[n] THEN events[t] \union {ChangeRow(t, n)}
                     ELSE events[t]
    BY <1>1 DEF Ingested
  <2>2. ChangeRow(t, n).commit = n /\ ChangeRow(t, n).op = "change"
    BY DEF ChangeRow
  <2>3. Changes(t)' = IF t \in wal[n] THEN Changes(t) \union {ChangeRow(t, n)}
                      ELSE Changes(t)
    BY <2>1, <2>2 DEF Changes
  <2>4. QED
    BY <2>2, <2>3
<1>7. Readable' = [t \in Tables |-> IF t \in wal[n] THEN Readable[t] \union {n}
                                    ELSE Readable[t]]
  BY <1>6 DEF Readable
<1>8. QED
  BY <1>1, <1>2, <1>4, <1>5, <1>7 DEF Log!Publish, Covered, Readable

\* A slot always stands at the end of some commit (or at the very beginning).
SlotAtEnd == slot = NoLsn \/ \E k \in 0..Len(wal) : slot = EndLsn(k)

\* No step leaves a slot in the middle of a commit.
LEMMA SlotAtEndStep ==
  TypeOK /\ SessionInv /\ SlotAtEnd /\ [Next]_vars => SlotAtEnd'
<1> SUFFICES ASSUME TypeOK, SessionInv, SlotAtEnd, [Next]_vars PROVE SlotAtEnd'
  OBVIOUS
<1>1. UNCHANGED <<wal, slot>> \/ (slot' = NoLsn /\ UNCHANGED wal) => SlotAtEnd'
  BY DEF SlotAtEnd
<1>2. ASSUME NEW S \in SUBSET Tables, Commit(S) PROVE SlotAtEnd'
  <2>1. Len(wal') = Len(wal) + 1 /\ Len(wal) \in Nat /\ slot' = slot
    BY <1>2 DEF Commit, TypeOK
  <2>2. QED
    BY <2>1 DEF SlotAtEnd
<1>3. ASSUME NEW S \in SUBSET Tables, Start(S) \/ RotateAndSeed(S) \/ ResumeAdopt(S)
      PROVE  SlotAtEnd'
  BY <1>1, <1>3 DEF Start, RotateAndSeed, ResumeAdopt
<1>4. CASE CreateSlot
  BY <1>4 DEF CreateSlot, SlotAtEnd, TypeOK
<1>5. CASE AckArrives
  BY <1>5 DEF AckArrives, SlotAtEnd, SessionInv, TypeOK
<1>6. CASE Stop
  BY <1>1, <1>6 DEF Stop, SlotAtEnd, SessionInv, TypeOK
<1>7. CASE SlotLost \/ ResumeRecreate \/ BackfillFails \/ Disconnect \/ Crash
  BY <1>1, <1>7
     DEF SlotLost, ResumeRecreate, BackfillFails, Disconnect, Crash, SlotAfterClose
<1>8. CASE Ingest
  BY <1>1, <1>8 DEF Ingest
<1>9. CASE AdoptRotation \/ OpenStream \/ SkipReplay \/ Emit \/ EmitOnly
           \/ UNCHANGED vars
  BY <1>1, <1>9
     DEF AdoptRotation, OpenStream, SkipReplay, Emit, EmitOnly, database, vars
<1>10. QED
  BY <1>2, <1>3, <1>4, <1>5, <1>6, <1>7, <1>8, <1>9 DEF Next, EmitStep

\* In every behaviour slots stand at the ends of commits, and a rotation has a slot.
LEMMA SlotKnown == Spec => [](SlotAtEnd /\ (phase = "rotating" => slot # NoLsn))
<1> DEFINE RotatingHasSlot == phase = "rotating" => slot # NoLsn
<1>1. Init => SlotAtEnd /\ RotatingHasSlot
  BY DEF Init, SlotAtEnd
<1>2. TypeOK /\ RotatingHasSlot /\ [Next]_vars => RotatingHasSlot'
  <2> SUFFICES ASSUME TypeOK, RotatingHasSlot, [Next]_vars PROVE RotatingHasSlot'
    OBVIOUS
  <2>1. CASE CreateSlot
    BY <2>1 DEF CreateSlot, EndLsn, NoLsn, TypeOK
  <2>2. ASSUME NEW S \in SUBSET Tables, Commit(S) \/ Start(S) \/ RotateAndSeed(S)
                                        \/ ResumeAdopt(S)
        PROVE  RotatingHasSlot'
    BY <2>2 DEF Commit, Start, RotateAndSeed, ResumeAdopt
  <2>3. CASE SlotLost \/ ResumeRecreate \/ AckArrives \/ SkipReplay \/ EmitOnly
    BY <2>3 DEF SlotLost, ResumeRecreate, AckArrives, SkipReplay, EmitOnly
  <2>4. CASE AdoptRotation \/ OpenStream \/ Ingest \/ Emit \/ BackfillFails
             \/ Disconnect \/ Stop \/ Crash
    BY <2>4 DEF AdoptRotation, OpenStream, Ingest, Emit, BackfillFails, Disconnect,
                Stop, Crash
  <2>5. CASE UNCHANGED vars
    BY <2>5 DEF vars, database
  <2>6. QED
    BY <2>1, <2>2, <2>3, <2>4, <2>5 DEF Next, EmitStep
<1>3. QED
  BY <1>1, <1>2, SlotAtEndStep, TypeCorrect, StreamInvariant, PTL DEF Spec, StreamInv

\* Every step of the stream is a step of EventsLog or a stutter.
LEMMA RefinementStep ==
  /\ TypeOK /\ StreamInv /\ SlotAtEnd /\ (phase = "rotating" => slot # NoLsn)
  /\ [Next]_vars
  => [Log!Next]_(Log!vars)
<1> SUFFICES ASSUME TypeOK, StreamInv, SlotAtEnd, phase = "rotating" => slot # NoLsn,
                    [Next]_vars
             PROVE  Log!Next \/ UNCHANGED Log!vars
  OBVIOUS
<1> USE DEF StreamInv
<1>1. CASE \E S \in SUBSET Tables : Commit(S)
  BY <1>1, CommitRefines DEF Log!Next
<1>2. CASE \E S \in SUBSET Tables : Start(S)
  BY <1>2, StartRefines DEF Log!Next
<1>3. CASE \E S \in SUBSET Tables : RotateAndSeed(S)
  BY <1>3, RotationRefines DEF Log!Next, SlotAtEnd, RotateAndSeed
<1>4. CASE \E S \in SUBSET Tables : ResumeAdopt(S)
  BY <1>4, ResumeRefines
<1>5. CASE Ingest
  BY <1>5, IngestRefines DEF Log!Next
<1>6. CASE SlotLost \/ CreateSlot \/ ResumeRecreate \/ AckArrives
  BY <1>6, Stutter DEF SlotLost, CreateSlot, ResumeRecreate, AckArrives
<1>7. CASE AdoptRotation \/ OpenStream \/ SkipReplay \/ Emit \/ EmitOnly
           \/ UNCHANGED vars
  BY <1>7, Stutter
     DEF AdoptRotation, OpenStream, SkipReplay, Emit, EmitOnly, database, vars
<1>8. CASE BackfillFails \/ Disconnect \/ Stop \/ Crash
  BY <1>8, Stutter DEF BackfillFails, Disconnect, Stop, Crash
<1>9. QED
  BY <1>1, <1>2, <1>3, <1>4, <1>5, <1>6, <1>7, <1>8 DEF Next, EmitStep

\* Readers of the events tables may rely on EventsLog alone.
THEOREM Refinement == Spec => ImplementsEventsLog
BY LogInit, RefinementStep, TypeCorrect, StreamInvariant, SlotKnown, PTL
   DEF ImplementsEventsLog, Log!Spec, Spec
=============================================================================
