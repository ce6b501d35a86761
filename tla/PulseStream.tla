----------------------------- MODULE PulseStream -----------------------------
(***************************************************************************)
(* The replication side of PulseRuntime (server/pulse-runtime.ts) and the  *)
(* store it writes (server/pulse-store.ts): how commits of the source      *)
(* database reach the events tables and the in-process tap, across         *)
(* disconnects, crashes, lost slots, schema drift and ambiguous writes.    *)
(*                                                                         *)
(* PostgreSQL and the minipg CDC driver are external: they are modelled    *)
(* from how the runtime uses them.                                         *)
(*  - Commit i has its commit record at CommitLsn(i) and ends at EndLsn(i). *)
(*    A batch carries commitLsn; an acknowledgement moves confirmed_flush  *)
(*    to the end of the commit.                                            *)
(*  - The driver calls onTransaction for one commit at a time, in commit   *)
(*    order, and acknowledges when the call resolves.  Acknowledgements    *)
(*    travel asynchronously and die with the connection.                   *)
(*  - A connect finds the durable slot (onResume) or creates one           *)
(*    (backfill).  A failed backfill drops the slot it created unless      *)
(*    FailedBackfillKeepsSlot.                                             *)
(*                                                                         *)
(* Abstractions: a commit is the set of source tables it touches; its row  *)
(* events in one table are one row of that table's events table; a uuid    *)
(* epoch is a counter; whether a source table has a row to seed from is a  *)
(* free choice.                                                            *)
(***************************************************************************)
EXTENDS Integers, Sequences, FiniteSets

CONSTANTS
  Tables,                  \* registered source tables, one events table each
  PullEnabled,             \* config `pull`
  FailedBackfillKeepsSlot, \* driver: a failed backfill leaves its slot behind
  MaxCommits,              \* bound on the commits of the source database
  MaxFaults                \* bound on disconnects, crashes, stops, drifts, ...

ASSUME PullAssumption  == PullEnabled \in BOOLEAN
ASSUME SlotAssumption  == FailedBackfillKeepsSlot \in BOOLEAN
ASSUME BoundAssumption == MaxCommits \in Nat /\ MaxFaults \in Nat

VARIABLES
  wal,           \* wal[i]: the tables commit i touched
  slot,          \* confirmed_flush of the replication slot, or NoLsn: no slot
  events,        \* events[t]: the rows of t's events table
  nextSnapshot,  \* identity counter of the $snapshot column
  epoch,         \* pulse_meta.epoch, 0: no row yet
  watermark,     \* pulse_stream.last_lsn, or NoLsn: no row
  phase,         \* where the session is
  sent,          \* last commit this connection has handed over and resolved
  eventsEpochs,  \* the runtime's in-memory epochs
  lastPersisted, \* lastPersistedCommitLsn, or NoLsn: null
  hasStreamed,   \* a stream has opened once for this runtime
  tapped,        \* history: the commits emitted to this process's tap
  floor,         \* history: the LSN an events table's contents start after
  faults         \* faults so far (bound)

database == <<wal, slot, events, nextSnapshot, epoch, watermark, floor>>
runtime  == <<sent, eventsEpochs, lastPersisted, hasStreamed, tapped>>
vars     == <<database, runtime, phase, faults>>

NoLsn == -1
CommitLsn(i) == 2 * i - 1
EndLsn(i)    == 2 * i

Phases == {"stopped", "connecting", "rotating", "adopting", "rebaselining",
           "resyncing", "streaming", "emitting"}

Row == [snapshot : Nat, op : {"snapshot", "change"}, commit : Nat]

(***************************************************************************)
(* Rows the store writes.                                                  *)
(***************************************************************************)
\* createBaselineSnapshot: the row a seeded table starts with.
SeedRow(t) == [snapshot |-> nextSnapshot[t], op |-> "snapshot", commit |-> 0]

\* ingestCommit: the row of commit i in t's events table.
ChangeRow(t, i) == [snapshot |-> nextSnapshot[t], op |-> "change", commit |-> i]

\* The next value of every identity counter, after an insert into each of S.
Drawn(S) == [t \in Tables |-> IF t \in S THEN nextSnapshot[t] + 1
                                         ELSE nextSnapshot[t]]

\* The pulse_meta epochs after those of S were rotated.
Mut_Rotated(S) == epoch
Rotated(S) == [t \in Tables |-> IF t \in S THEN epoch[t] + 1 ELSE epoch[t]]

\* Every variable keeps to its type, whatever is replayed, rotated or lost.
TypeOK ==
  /\ wal \in Seq(SUBSET Tables)
  /\ slot \in Int /\ watermark \in Int /\ lastPersisted \in Int
  /\ events \in [Tables -> SUBSET Row]
  /\ nextSnapshot \in [Tables -> Nat]
  /\ epoch \in [Tables -> Nat]
  /\ eventsEpochs \in [Tables -> Nat]
  /\ phase \in Phases
  /\ sent \in Nat
  /\ hasStreamed \in BOOLEAN
  /\ tapped \in Seq(Nat)
  /\ floor \in [Tables -> Int]
  /\ faults \in 0..MaxFaults

Init ==
  /\ wal = <<>>
  /\ slot = NoLsn
  /\ events = [t \in Tables |-> {}]
  /\ nextSnapshot = [t \in Tables |-> 1]
  /\ epoch = [t \in Tables |-> 0]
  /\ watermark = NoLsn
  /\ phase = "stopped"
  /\ sent = 0
  /\ eventsEpochs = [t \in Tables |-> 0]
  /\ lastPersisted = NoLsn
  /\ hasStreamed = FALSE
  /\ tapped = <<>>
  /\ floor = [t \in Tables |-> NoLsn]
  /\ faults = 0

Fault == faults < MaxFaults /\ faults' = faults + 1

(***************************************************************************)
(* The source database.                                                    *)
(***************************************************************************)
Commit(S) ==
  /\ Len(wal) < MaxCommits
  /\ wal' = Append(wal, S)
  /\ UNCHANGED <<slot, events, nextSnapshot, epoch, watermark, floor>>
  /\ UNCHANGED <<runtime, phase, faults>>

\* The slot is dropped by an operator, or invalidated and then recreated by the
\* driver (onSlotInvalidated).
SlotLost ==
  /\ Fault
  /\ phase \in {"stopped", "connecting"}
  /\ slot # NoLsn
  /\ slot' = NoLsn
  /\ UNCHANGED <<wal, events, nextSnapshot, epoch, watermark, floor>>
  /\ UNCHANGED <<runtime, phase>>

(***************************************************************************)
(* start(): bootstrap() recreates the events tables whose DDL hash differs *)
(* or that are missing, and reads the epochs; then the session connects.   *)
(***************************************************************************)
Start(drifted) ==
  LET recreated == IF PullEnabled
                   THEN drifted \union {t \in Tables : epoch[t] = 0} ELSE {}
  IN
  /\ phase = "stopped"
  /\ IF drifted = {} THEN UNCHANGED faults ELSE Fault
  /\ events' = [t \in Tables |-> IF t \in recreated THEN {} ELSE events[t]]
  /\ nextSnapshot' =
       [t \in Tables |-> IF t \in recreated THEN 1 ELSE nextSnapshot[t]]
  /\ epoch' = Rotated(recreated)
  /\ floor' = [t \in Tables |-> IF t \in recreated THEN watermark ELSE floor[t]]
  /\ eventsEpochs' = epoch'
  /\ phase' = "connecting"
  /\ UNCHANGED <<wal, slot, watermark>>
  /\ UNCHANGED <<sent, lastPersisted, hasStreamed, tapped>>

(***************************************************************************)
(* Connecting without a slot: the driver creates one, exports its snapshot *)
(* and calls backfill().                                                   *)
(***************************************************************************)
CreateSlot ==
  /\ phase = "connecting"
  /\ slot = NoLsn
  /\ slot' = EndLsn(Len(wal))
  /\ phase' = IF PullEnabled THEN "rotating" ELSE "rebaselining"
  /\ UNCHANGED <<wal, events, nextSnapshot, epoch, watermark, floor>>
  /\ UNCHANGED <<runtime, faults>>

\* streamStartLsn of the running backfill: nothing was acknowledged yet.
consistentPoint == slot

\* rotateAndSeedEvents, its transaction: rotate every epoch, truncate (the
\* identity continues), seed the tables whose source has a row, and move the
\* durable watermark to the consistent point.
RotateAndSeed(seeded) ==
  /\ phase = "rotating"
  /\ epoch' = Rotated(Tables)
  /\ events' = [t \in Tables |-> IF t \in seeded THEN {SeedRow(t)} ELSE {}]
  /\ nextSnapshot' = Drawn(seeded)
  /\ watermark' = consistentPoint
  /\ floor' = [t \in Tables |-> consistentPoint]
  /\ phase' = "adopting"
  /\ UNCHANGED <<wal, slot, faults>>
  /\ UNCHANGED runtime

Mut_AdoptRotation ==
  /\ phase = "adopting"
  /\ lastPersisted' = consistentPoint
  /\ phase' = "rebaselining"
  /\ UNCHANGED <<database, faults>>
  /\ UNCHANGED <<sent, eventsEpochs, hasStreamed, tapped>>

\* rotateAndSeedEvents, after its await.
AdoptRotation ==
  /\ phase = "adopting"
  /\ eventsEpochs' = epoch
  /\ lastPersisted' = consistentPoint
  /\ phase' = "rebaselining"
  /\ UNCHANGED <<database, faults>>
  /\ UNCHANGED <<sent, hasStreamed, tapped>>

(***************************************************************************)
(* Connecting with the slot intact: the driver calls onResume().           *)
(***************************************************************************)
Mut_CanResume == watermark # NoLsn
CanResume == watermark # NoLsn /\ watermark >= slot

\* The 'recreate' verdict: the driver drops the slot and connects again.
ResumeRecreate ==
  /\ PullEnabled
  /\ phase = "connecting"
  /\ slot # NoLsn
  /\ ~CanResume
  /\ slot' = NoLsn
  /\ UNCHANGED <<wal, events, nextSnapshot, epoch, watermark, floor>>
  /\ UNCHANGED <<runtime, phase, faults>>

\* ensureBaselines seeds the tables that are still empty, then the durable
\* watermark becomes the dedupe floor.
ResumeAdopt(seeded) ==
  /\ PullEnabled
  /\ phase = "connecting"
  /\ slot # NoLsn
  /\ CanResume
  /\ seeded \subseteq {t \in Tables : events[t] = {}}
  /\ events' = [t \in Tables |-> IF t \in seeded THEN {SeedRow(t)} ELSE events[t]]
  /\ nextSnapshot' = Drawn(seeded)
  /\ lastPersisted' = watermark
  /\ phase' = "resyncing"
  /\ UNCHANGED <<wal, slot, epoch, watermark, floor, faults>>
  /\ UNCHANGED <<sent, eventsEpochs, hasStreamed, tapped>>

Mut_OpenStream ==
  /\ phase \in {"rebaselining", "resyncing"}
  /\ hasStreamed' = TRUE
  /\ \E k \in 0..Len(wal) : EndLsn(k) = slot /\ sent' = k - 1
  /\ phase' = "streaming"
  /\ UNCHANGED <<database, faults>>
  /\ UNCHANGED <<eventsEpochs, lastPersisted, tapped>>

\* The collections have rebaselined (if any stream ran before) and backfill()
\* or onResume() returns: the stream opens at confirmed_flush.
OpenStream ==
  /\ phase \in {"rebaselining", "resyncing"}
  /\ hasStreamed' = TRUE
  /\ \E k \in 0..Len(wal) : EndLsn(k) = slot /\ sent' = k
  /\ phase' = "streaming"
  /\ UNCHANGED <<database, faults>>
  /\ UNCHANGED <<eventsEpochs, lastPersisted, tapped>>

(***************************************************************************)
(* onTransaction: applyTransaction for the commit after `sent`.            *)
(***************************************************************************)
\* A commit at or below the dedupe floor is a replay.
Mut_IsReplay(i) == lastPersisted # NoLsn /\ CommitLsn(i) < lastPersisted
Mut2_IsReplay(i) == lastPersisted # NoLsn /\ CommitLsn(i) = lastPersisted
IsReplay(i) == lastPersisted # NoLsn /\ CommitLsn(i) <= lastPersisted

Mut_SkipReplay ==
  /\ phase = "streaming"
  /\ sent < Len(wal)
  /\ IsReplay(sent + 1)
  /\ UNCHANGED vars

\* A replay is skipped; resolving still acknowledges it.
SkipReplay ==
  /\ phase = "streaming"
  /\ sent < Len(wal)
  /\ IsReplay(sent + 1)
  /\ sent' = sent + 1
  /\ UNCHANGED <<database, phase, faults>>
  /\ UNCHANGED <<eventsEpochs, lastPersisted, hasStreamed, tapped>>

\* ingestCommit: the commit's rows and the watermark, in one transaction.
Mut_Ingested(i) == [t \in Tables |-> events[t] \union {ChangeRow(t, i)}]
Ingested(i) ==
  [t \in Tables |->
     IF t \in wal[i] THEN events[t] \union {ChangeRow(t, i)} ELSE events[t]]

Ingest ==
  /\ PullEnabled
  /\ phase = "streaming"
  /\ sent < Len(wal)
  /\ ~IsReplay(sent + 1)
  /\ events' = Ingested(sent + 1)
  /\ nextSnapshot' = Drawn(wal[sent + 1])
  /\ watermark' = CommitLsn(sent + 1)
  /\ phase' = "emitting"
  /\ UNCHANGED <<wal, slot, epoch, floor, faults>>
  /\ UNCHANGED runtime

\* After the await: mirror the watermark, emit to the tap, resolve.
Emit ==
  /\ phase = "emitting"
  /\ lastPersisted' = CommitLsn(sent + 1)
  /\ tapped' = Append(tapped, sent + 1)
  /\ sent' = sent + 1
  /\ phase' = "streaming"
  /\ UNCHANGED <<database, faults>>
  /\ UNCHANGED <<eventsEpochs, hasStreamed>>

\* pull: false has no store: the commit is only emitted.
EmitOnly ==
  /\ ~PullEnabled
  /\ phase = "streaming"
  /\ sent < Len(wal)
  /\ ~IsReplay(sent + 1)
  /\ tapped' = Append(tapped, sent + 1)
  /\ sent' = sent + 1
  /\ UNCHANGED <<database, phase, faults>>
  /\ UNCHANGED <<eventsEpochs, lastPersisted, hasStreamed>>

EmitStep == IF PullEnabled THEN Emit ELSE EmitOnly

\* The acknowledgement of the last resolved commit reaches the slot.
AckArrives ==
  /\ phase \in {"streaming", "emitting"}
  /\ slot < EndLsn(sent)
  /\ slot' = EndLsn(sent)
  /\ UNCHANGED <<wal, events, nextSnapshot, epoch, watermark, floor>>
  /\ UNCHANGED <<runtime, phase, faults>>

(***************************************************************************)
(* Failures.                                                               *)
(***************************************************************************)
\* A temporary slot (pull: false) dies with its connection.
SlotAfterClose == IF PullEnabled THEN slot ELSE NoLsn

\* backfill() rejects, before or after its transaction committed: the driver
\* retries the connect.
BackfillFails ==
  /\ Fault
  /\ phase \in {"rotating", "adopting", "rebaselining"}
  /\ slot' = IF FailedBackfillKeepsSlot THEN SlotAfterClose ELSE NoLsn
  /\ phase' = "connecting"
  /\ UNCHANGED <<wal, events, nextSnapshot, epoch, watermark, floor>>
  /\ UNCHANGED runtime

\* The connection drops, or onTransaction rejects: in "emitting" the database
\* committed the ingest and the runtime saw an error.
Disconnect ==
  /\ Fault
  /\ phase \in {"resyncing", "streaming", "emitting"}
  /\ slot' = SlotAfterClose
  /\ phase' = "connecting"
  /\ UNCHANGED <<wal, events, nextSnapshot, epoch, watermark, floor>>
  /\ UNCHANGED runtime

\* stop(), also from handleFatal: what completed is acknowledged, the runtime
\* object keeps its fields.
Stop ==
  /\ Fault
  /\ phase \in {"connecting", "streaming"}
  /\ slot' = IF ~PullEnabled THEN NoLsn
             ELSE IF phase = "streaming" /\ slot < EndLsn(sent) THEN EndLsn(sent)
             ELSE slot
  /\ phase' = "stopped"
  /\ UNCHANGED <<wal, events, nextSnapshot, epoch, watermark, floor>>
  /\ UNCHANGED runtime

\* The process dies anywhere; its memory and its tap go with it.
Crash ==
  /\ Fault
  /\ phase # "stopped"
  /\ slot' = SlotAfterClose
  /\ phase' = "stopped"
  /\ sent' = 0
  /\ eventsEpochs' = [t \in Tables |-> 0]
  /\ lastPersisted' = NoLsn
  /\ hasStreamed' = FALSE
  /\ tapped' = <<>>
  /\ UNCHANGED <<wal, events, nextSnapshot, epoch, watermark, floor>>

Next ==
  \/ \E S \in SUBSET Tables : Commit(S)
  \/ SlotLost
  \/ \E S \in SUBSET Tables : Start(S)
  \/ CreateSlot
  \/ \E S \in SUBSET Tables : RotateAndSeed(S)
  \/ AdoptRotation
  \/ ResumeRecreate
  \/ \E S \in SUBSET Tables : ResumeAdopt(S)
  \/ OpenStream
  \/ SkipReplay
  \/ Ingest
  \/ EmitStep
  \/ AckArrives
  \/ BackfillFails
  \/ Disconnect
  \/ Stop
  \/ Crash

Spec == Init /\ [][Next]_vars

------------------------------------------------------------------------------
(***************************************************************************)
(* Properties.                                                             *)
(***************************************************************************)
Changes(t) == {r \in events[t] : r.op = "change"}

\* Commit i is in the part of the source's history t's events table describes.
InScope(t, i) == t \in wal[i] /\ floor[t] < CommitLsn(i) /\ CommitLsn(i) <= watermark

\* Each events table holds exactly the commits that touched its source between
\* its (re)creation and the durable watermark, each once, $snapshot order being
\* commit order and a seed row coming before them: no gap, no duplicate and no
\* reordering survives replays, crashes and ambiguous writes (ingestCommit,
\* applyTransaction's dedupe, onResume's verdict).
LogIsExact ==
  \A t \in Tables :
    /\ \A r \in Changes(t) : r.commit \in 1..Len(wal) /\ InScope(t, r.commit)
    /\ \A i \in 1..Len(wal) : InScope(t, i) => \E r \in Changes(t) : r.commit = i
    /\ \A r, s \in Changes(t) : r.commit < s.commit <=> r.snapshot < s.snapshot
    /\ \A r, s \in events[t] :
         /\ r.snapshot = s.snapshot => r = s
         /\ r.op = "snapshot" /\ r # s => r.snapshot < s.snapshot

\* While a stream is open, every commit the slot will not send again is at or
\* below the durable watermark: the runtime never acknowledges before it
\* persists and never streams past a gap (applyTransaction's order, onResume's
\* check of confirmed_flush).
NoAckedGap ==
  PullEnabled /\ phase \in {"streaming", "emitting"} =>
    \A i \in 1..Len(wal) : EndLsn(i) <= slot => CommitLsn(i) <= watermark

\* While a stream is open the epochs that mint and check cursor tokens are the
\* ones in pulse_meta, so no token outlives a rotation (rotateAndSeedEvents
\* writes them in two steps; bootstrap and onResume do not).
EpochsMirrored ==
  PullEnabled /\ phase \in {"streaming", "emitting"} => eventsEpochs = epoch

\* The tap sees commits in commit order and at most once per process, although
\* the driver replays its tail after every reconnect: applyTransaction returns for a
\* commit at or below the watermark (pulse-runtime.ts:987), and a temporary slot
\* replays nothing.  events.ts:14 says otherwise: that a commit whose acknowledgement
\* was lost is replayed to a surface with "no baseline/dedup to absorb it".
TapInCommitOrder ==
  \A i, j \in 1..Len(tapped) : i < j => tapped[i] < tapped[j]

\* Within an epoch an events table only grows, and only above every $snapshot
\* already visible: a cursor never has to look back, and losing rows always
\* invalidates it.
CursorsStaySound ==
  [][\A t \in Tables : epoch'[t] = epoch[t] =>
       /\ events[t] \subseteq events'[t]
       /\ \A r \in events'[t] \ events[t], s \in events[t] :
            s.snapshot < r.snapshot]_vars

\* The durable watermark never moves back: not by a replayed commit, a rotation
\* or a resume.
WatermarkMonotone == [][watermark' >= watermark]_vars

\* Every commit is eventually accounted for, whatever fails in between:
\* persisted, or part of the snapshot a rotation seeded from.
EveryCommitCovered ==
  PullEnabled =>
    \A i \in 1..MaxCommits : Len(wal) >= i ~> watermark >= CommitLsn(i)

\* The stream implements EventsLog: the readable log is the change rows, the
\* covered commits are those at or below the durable watermark.
Log == INSTANCE EventsLog WITH
         commits    <- wal,
         covered    <- {i \in 1..Len(wal) : CommitLsn(i) <= watermark},
         log        <- [t \in Tables |-> {r.commit : r \in Changes(t)}],
         generation <- epoch

ImplementsEventsLog == Log!Spec

\* client/embedded/events.ts:14: a tap subscriber's "Delivery is at-least-once".
\* Once a process has been emitting, no commit after its first emitted one is
\* passed over.
TapAtLeastOnce ==
  tapped # <<>> /\ phase = "streaming" =>
    \A i \in tapped[1]..sent : \E j \in 1..Len(tapped) : tapped[j] = i

------------------------------------------------------------------------------
(***************************************************************************)
(* The inductive invariant behind LogIsExact, NoAckedGap, EpochsMirrored   *)
(* and TapInCommitOrder.                                                   *)
(***************************************************************************)
\* Nothing points past the end of the source's history.
PositionInv ==
  /\ NoLsn <= slot /\ slot <= EndLsn(Len(wal))
  /\ NoLsn <= watermark /\ watermark <= EndLsn(Len(wal))
  /\ \A t \in Tables : floor[t] <= watermark

\* What the runtime knows, phase by phase, about slot and watermark.
SessionInv ==
  /\ ~PullEnabled => lastPersisted = NoLsn
  /\ phase \in {"rotating", "adopting", "resyncing", "emitting"} => PullEnabled
  /\ phase = "rotating" => watermark <= slot
  /\ phase = "adopting" => watermark = slot
  /\ phase = "rebaselining" /\ PullEnabled => watermark = slot /\ lastPersisted = slot
  /\ phase = "resyncing" => slot <= watermark /\ lastPersisted = watermark
  /\ phase = "streaming" =>
       /\ sent <= Len(wal) /\ slot <= EndLsn(sent)
       /\ PullEnabled => lastPersisted = watermark /\ CommitLsn(sent) <= watermark
  /\ phase = "emitting" =>
       sent < Len(wal) /\ slot <= EndLsn(sent) /\ watermark = CommitLsn(sent + 1)

\* The identity column of an events table is above every row it holds.
IdentityInv == \A t \in Tables : \A r \in events[t] : r.snapshot < nextSnapshot[t]

\* The in-memory epochs are the stored ones, unless a rotation is under way or
\* the next connect has no slot and will rotate again.
EpochInv ==
  PullEnabled /\ ~FailedBackfillKeepsSlot =>
    \/ eventsEpochs = epoch
    \/ phase \in {"stopped", "rotating", "adopting"}
    \/ phase = "connecting" /\ slot = NoLsn

\* The tap is in order and holds nothing that could be emitted again: everything
\* emitted is at or below the watermark, or below the slot of the next stream.
TapInv ==
  /\ TapInCommitOrder
  /\ \A j \in 1..Len(tapped) :
       /\ tapped[j] <= Len(wal)
       /\ PullEnabled => CommitLsn(tapped[j]) <= watermark
       /\ phase = "emitting" => tapped[j] <= sent
       /\ ~PullEnabled /\ phase = "rebaselining" => EndLsn(tapped[j]) <= slot
       /\ ~PullEnabled /\ phase = "streaming" => tapped[j] <= sent

\* The inductive invariant: every property above that is an invariant follows.
StreamInv ==
  PositionInv /\ SessionInv /\ IdentityInv /\ EpochInv /\ TapInv /\ LogIsExact
=============================================================================
