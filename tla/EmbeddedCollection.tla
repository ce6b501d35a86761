-------------------------- MODULE EmbeddedCollection --------------------------
(***************************************************************************)
(* One live collection of the embedded client (client/embedded/index.ts)   *)
(* on top of the stream of PulseStream: the factory, the baseline          *)
(* handshake, the buffering of tapped events, the rebaseline rounds of a   *)
(* reconnect, dispose.  Every step of the stream is one of PulseStream's   *)
(* actions together with what it makes the collection do.                  *)
(*                                                                         *)
(* A handshake is three steps, the two queries of readCollectionBaseline   *)
(* and the continuation of runHandshake; a rebaseline from an exported     *)
(* snapshot has its rows and watermark fixed by the slot.                  *)
(***************************************************************************)
EXTENDS SourceRows

CONSTANTS
  AwaitStart,     \* clients are created only once start() has resolved
  VisibilityLag   \* a commit's WAL may be written before snapshots see it

ASSUME CollectionAssumption ==
  /\ AwaitStart \in BOOLEAN /\ VisibilityLag \in BOOLEAN

VARIABLES
  visible,       \* the last commit a new snapshot of the database sees
  started,       \* start() has resolved
  captured,      \* rebaselineCollections holds the listener, not yet called
  round,         \* the handshake that round awaits, 0: none
  promise,       \* the factory's promise
  disposed,
  core,          \* PulseMergeCore: the row under each key, or NoRow
  baselining,
  buffer,        \* commits tapped while baselining
  handshakeGen,
  watermarkFloor,
  reads,         \* readCollectionBaseline calls in flight
  basePos,       \* history: the commit the last applied baseline was read at
  lagFrom,       \* history: the commit visible when its watermark was read
  synced         \* history: the last handshake that settled was applied

database2  == <<history, visible>>
handshake  == <<core, baselining, buffer, handshakeGen, watermarkFloor, reads,
                basePos, lagFrom, synced>>
collection == <<promise, disposed, handshake>>
rounds     == <<captured, round>>
allVars    == <<vars, database2, started, rounds, collection>>

Read == [gen : Nat, kind : {"initial", "rebaseline"},
         stage : {"watermark", "select", "answered"}, watermark : Int,
         seen : Nat,  \* history: the commit visible as the watermark is read
         pos : Nat]   \* the commit the rows are read at

\* Every variable keeps to its type; in particular a core holds only rows the
\* source can have, under every interleaving of handshakes and events.
CollectionTypeOK ==
  /\ history \in Seq(Content)
  /\ visible \in Nat
  /\ started \in BOOLEAN /\ captured \in BOOLEAN
  /\ round \in Nat /\ handshakeGen \in Nat
  /\ promise \in {"none", "pending", "resolved", "rejected"}
  /\ disposed \in BOOLEAN
  /\ core \in Content
  /\ baselining \in BOOLEAN /\ synced \in BOOLEAN
  /\ buffer \in Seq(Nat)
  /\ watermarkFloor \in Int
  /\ reads \subseteq Read
  /\ basePos \in Nat /\ lagFrom \in Nat

\* The closure of a collection that does not exist (yet).
NoCollection ==
  /\ promise' = "none"
  /\ disposed' = FALSE
  /\ core' = Empty
  /\ baselining' = FALSE
  /\ buffer' = <<>>
  /\ handshakeGen' = 0
  /\ watermarkFloor' = NoLsn
  /\ reads' = {}
  /\ basePos' = 0
  /\ lagFrom' = 0
  /\ synced' = FALSE

CollectionInit ==
  /\ SourceInit
  /\ visible = 0
  /\ started = FALSE
  /\ captured = FALSE
  /\ round = 0
  /\ promise = "none"
  /\ disposed = FALSE
  /\ core = Empty
  /\ baselining = FALSE
  /\ buffer = <<>>
  /\ handshakeGen = 0
  /\ watermarkFloor = NoLsn
  /\ reads = {}
  /\ basePos = 0
  /\ lagFrom = 0
  /\ synced = FALSE

\* The tap listener and the reconnect listener are registered.
Registered == promise \in {"pending", "resolved"} /\ ~disposed

\* A tapped commit that a baseline with this watermark already contains.
Mut_BelowWatermark(i, from) == FALSE
BelowWatermark(i, from) == CommitLsn(i) < from

\* The core after the buffered commits are drained, in order, onto a baseline.
Drained(content, from) ==
  LET after[n \in 0..Len(buffer)] ==
        IF n = 0 THEN content
        ELSE IF BelowWatermark(buffer[n], from) THEN after[n - 1]
        ELSE Applied(buffer[n], after[n - 1])
  IN  after[Len(buffer)]

\* handleTapEvent for the events of commit i.
Mut_HandleTap(i) ==
  /\ core' = IF Registered /\ ~baselining THEN Applied(i, core) ELSE core
  /\ UNCHANGED <<baselining, buffer, handshakeGen, watermarkFloor, reads, basePos,
                 lagFrom, synced>>
HandleTap(i) ==
  /\ buffer' = IF Registered /\ baselining THEN Append(buffer, i) ELSE buffer
  /\ core' = IF Registered /\ ~baselining
                  /\ ~(watermarkFloor # NoLsn /\ BelowWatermark(i, watermarkFloor))
             THEN Applied(i, core) ELSE core
  /\ UNCHANGED <<baselining, handshakeGen, watermarkFloor, reads, basePos, lagFrom, synced>>

(***************************************************************************)
(* Handshakes.                                                             *)
(***************************************************************************)
\* runHandshake up to its first await: it reads either the exported snapshot
\* the slot was created with, or the watermark and then the table.
BeginHandshake(kind, exported) ==
  /\ handshakeGen' = handshakeGen + 1
  /\ baselining' = TRUE
  /\ buffer' = <<>>
  /\ reads' = reads \union
       {[gen |-> handshakeGen', kind |-> kind,
         stage |-> IF exported THEN "answered" ELSE "watermark",
         watermark |-> IF exported THEN slot ELSE NoLsn,
         seen |-> IF exported THEN slot \div 2 ELSE 0,
         pos |-> IF exported THEN slot \div 2 ELSE 0]}
  /\ UNCHANGED <<core, watermarkFloor, basePos, lagFrom, synced>>

\* The factory: subscribe the tap and the listeners, start the initial load.
Create ==
  /\ promise = "none" \/ (disposed /\ reads = {} /\ ~captured)
  /\ IF AwaitStart THEN started ELSE phase # "stopped"
  /\ promise' = "pending"
  /\ disposed' = FALSE
  /\ core' = Empty
  /\ baselining' = TRUE
  /\ buffer' = <<>>
  /\ handshakeGen' = 1
  /\ watermarkFloor' = NoLsn
  /\ reads' = {[gen |-> 1, kind |-> "initial", stage |-> "watermark",
                watermark |-> NoLsn, seen |-> 0, pos |-> 0]}
  /\ basePos' = 0
  /\ lagFrom' = 0
  /\ synced' = FALSE
  /\ UNCHANGED <<vars, database2, started, rounds>>

Reread(r, s) == reads' = (reads \ {r}) \union {s}

\* SELECT pg_current_wal_lsn()
ReadWatermark ==
  \E r \in reads :
    /\ r.stage = "watermark"
    /\ Reread(r, [r EXCEPT !.stage = "select", !.watermark = EndLsn(Len(wal)),
                             !.seen = visible])
    /\ UNCHANGED <<vars, database2, started, rounds, promise, disposed, core, baselining,
                   buffer, handshakeGen, watermarkFloor, basePos, lagFrom, synced>>

Mut_SelectBaseline ==
  \E r \in reads :
    /\ r.stage = "select"
    /\ Reread(r, [r EXCEPT !.stage = "answered", !.pos = r.seen, !.seen = visible,
                           !.watermark = EndLsn(Len(wal))])
    /\ UNCHANGED <<vars, database2, started, rounds, promise, disposed, core, baselining,
                   buffer, handshakeGen, watermarkFloor, basePos, lagFrom, synced>>
\* The baseline SELECT.
SelectBaseline ==
  \E r \in reads :
    /\ r.stage = "select"
    /\ Reread(r, [r EXCEPT !.stage = "answered", !.pos = visible])
    /\ UNCHANGED <<vars, database2, started, rounds, promise, disposed, core, baselining,
                   buffer, handshakeGen, watermarkFloor, basePos, lagFrom, synced>>

Mut_Superseded(r) == FALSE
\* A newer handshake owns the collection.
Superseded(r) == r.gen # handshakeGen

\* The factory's promise settles with its own handshake, whoever won.
Settled(r, outcome) ==
  promise' = IF r.kind # "initial" THEN promise
             ELSE IF disposed THEN "rejected" ELSE outcome

\* runHandshake after its await: rebuild, drain the buffer.  A superseded one
\* leaves the collection to its successor.
FinishHandshake ==
  \E r \in reads :
    /\ r.stage = "answered"
    /\ reads' = reads \ {r}
    /\ Settled(r, "resolved")
    /\ IF Superseded(r)
       THEN UNCHANGED <<core, baselining, buffer, watermarkFloor, basePos, lagFrom, synced>>
       ELSE /\ core' = Drained(ViewAt(r.pos), r.watermark)
            /\ baselining' = FALSE
            /\ buffer' = <<>>
            /\ watermarkFloor' = r.watermark
            /\ basePos' = r.pos
            /\ lagFrom' = r.seen
            /\ synced' = TRUE
    /\ UNCHANGED <<vars, database2, started, rounds, disposed, handshakeGen>>

Mut_FailHandshake ==
  /\ Fault
  /\ \E r \in reads :
       /\ reads' = reads \ {r}
       /\ Settled(r, "rejected")
       /\ disposed' = (disposed \/ r.kind = "initial")
       /\ UNCHANGED <<core, baselining, buffer, watermarkFloor, basePos, lagFrom, synced>>
  /\ UNCHANGED <<database, runtime, phase, database2, started, rounds, handshakeGen>>
\* The read rejects.  The initial one rejects the factory and disposes; a
\* rebaseline reports onError and leaves the old content in place.
FailHandshake ==
  /\ Fault
  /\ \E r \in reads :
       /\ reads' = reads \ {r}
       /\ Settled(r, "rejected")
       /\ disposed' = (disposed \/ r.kind = "initial")
       /\ IF Superseded(r)
          THEN UNCHANGED <<baselining, buffer, synced>>
          ELSE /\ baselining' = FALSE
               /\ buffer' = <<>>
               /\ synced' = FALSE
       /\ UNCHANGED <<core, watermarkFloor, basePos, lagFrom>>
  /\ UNCHANGED <<database, runtime, phase, database2, started, rounds, handshakeGen>>

\* collection.dispose() by its owner.
Dispose ==
  /\ promise = "resolved" /\ ~disposed
  /\ disposed' = TRUE
  /\ UNCHANGED <<vars, database2, started, rounds, promise, handshake>>

(***************************************************************************)
(* The source database.                                                    *)
(***************************************************************************)
\* A commit that changes rows of the source table.
Write(rows) ==
  /\ visible = Len(wal)
  /\ RowChange(rows)
  /\ visible' = IF VisibilityLag THEN visible ELSE Len(wal')
  /\ UNCHANGED <<started, rounds, collection>>

\* The transaction leaves the array of running ones.
BecomeVisible ==
  /\ visible < Len(wal)
  /\ visible' = Len(wal)
  /\ UNCHANGED <<vars, history, started, rounds, collection>>

(***************************************************************************)
(* The stream, and what its steps make the collection do.                  *)
(***************************************************************************)
\* Steps the collection does not notice.
StreamStep ==
  /\ \/ SlotLost
     \/ \E S \in SUBSET Tables : Start(S)
     \/ ResumeRecreate
     \/ RotateAndSeed(SeededBy(slot \div 2))
     \/ SkipReplay
     \/ Ingest
     \/ AckArrives
  /\ UNCHANGED <<database2, started, rounds, collection>>

Mut_BackfillReached ==
  /\ IF PullEnabled THEN AdoptRotation ELSE CreateSlot /\ visible = Len(wal)
  /\ captured' = FALSE
  /\ UNCHANGED <<database2, started, round, collection>>
\* rebaselineCollections captures the listeners as backfill() reaches it, once
\* a stream has run.
BackfillReached ==
  /\ IF PullEnabled THEN AdoptRotation ELSE CreateSlot /\ visible = Len(wal)
  /\ captured' = (hasStreamed /\ Registered)
  /\ UNCHANGED <<database2, started, round, collection>>

\* A slot is created at a point whose commits every snapshot sees.
CreateDurableSlot ==
  /\ PullEnabled /\ visible = Len(wal)
  /\ CreateSlot
  /\ UNCHANGED <<database2, started, rounds, collection>>

\* The snapshot transaction is open: the captured listener is called, even one
\* disposed in between.
LaunchRebaseline ==
  /\ phase = "rebaselining" /\ captured
  /\ captured' = FALSE
  /\ round' = handshakeGen + 1
  /\ BeginHandshake("rebaseline", TRUE)
  /\ UNCHANGED <<vars, database2, started, promise, disposed>>

\* onResume: nothing was exported, the listener is called without a snapshot.
Resume ==
  /\ ResumeAdopt({t \in SeededBy(visible) : events[t] = {}})
  /\ IF hasStreamed /\ Registered
     THEN /\ round' = handshakeGen + 1
          /\ BeginHandshake("rebaseline", FALSE)
     ELSE UNCHANGED <<round, handshake>>
  /\ UNCHANGED <<database2, started, captured, promise, disposed>>

Mut_RoundSettled == TRUE
\* Promise.allSettled over the listeners' handshakes.
RoundSettled == ~captured /\ \A r \in reads : r.gen # round

OpenStreamAndReady ==
  /\ RoundSettled
  /\ OpenStream
  /\ started' = TRUE
  /\ round' = 0
  /\ UNCHANGED <<database2, captured, collection>>

\* applyTransaction's emit, in the same turn as the tap listeners.
Deliver ==
  /\ Emit \/ EmitOnly
  /\ HandleTap(sent + 1)
  /\ UNCHANGED <<database2, started, rounds, promise, disposed>>

BackfillAborts ==
  /\ BackfillFails
  /\ captured' = FALSE
  /\ round' = 0
  /\ UNCHANGED <<database2, started, collection>>

\* stop() calls the onStop listeners first: the collection disposes.
StopRuntime ==
  /\ Stop
  /\ started' = FALSE
  /\ disposed' = (disposed \/ Registered)
  /\ UNCHANGED <<database2, rounds, promise, handshake>>

CrashProcess ==
  /\ Crash
  /\ started' = FALSE
  /\ captured' = FALSE
  /\ round' = 0
  /\ NoCollection
  /\ UNCHANGED database2

Disconnected ==
  /\ Disconnect
  /\ round' = 0
  /\ UNCHANGED <<database2, started, captured, collection>>

CollectionNext ==
  \/ \E rows \in Content : Write(rows)
  \/ BecomeVisible
  \/ StreamStep
  \/ BackfillReached
  \/ CreateDurableSlot
  \/ LaunchRebaseline
  \/ Resume
  \/ OpenStreamAndReady
  \/ Deliver
  \/ BackfillAborts
  \/ Disconnected
  \/ StopRuntime
  \/ CrashProcess
  \/ Create
  \/ ReadWatermark
  \/ SelectBaseline
  \/ FinishHandshake
  \/ FailHandshake
  \/ Dispose

CollectionSpec == CollectionInit /\ [][CollectionNext]_allVars

\* What the runtime and the database owe a handshake, on top of the stream's
\* progress: its queries are answered or fail.
HandshakeProgress == ReadWatermark \/ SelectBaseline \/ FinishHandshake

StreamProgress ==
  \/ Start({}) /\ UNCHANGED <<database2, started, rounds, collection>>
  \/ CreateDurableSlot
  \/ ResumeRecreate /\ UNCHANGED <<database2, started, rounds, collection>>
  \/ /\ RotateAndSeed(SeededBy(slot \div 2))
     /\ UNCHANGED <<database2, started, rounds, collection>>
  \/ BackfillReached
  \/ LaunchRebaseline
  \/ Resume
  \/ OpenStreamAndReady
  \/ (SkipReplay \/ Ingest) /\ UNCHANGED <<database2, started, rounds, collection>>
  \/ Deliver

FairCollectionSpec ==
  /\ CollectionSpec
  /\ WF_allVars(HandshakeProgress)
  /\ WF_allVars(StreamProgress)
  /\ WF_allVars(BecomeVisible)

------------------------------------------------------------------------------
(***************************************************************************)
(* Properties.                                                             *)
(***************************************************************************)
\* The collection is usable, reports no failed rebaseline, and its stream is open.
InSync ==
  Registered /\ synced /\ ~baselining /\ phase \in {"streaming", "emitting"}

\* The commit the tapped events have brought the collection to.
UpTo == IF watermarkFloor > EndLsn(sent) THEN watermarkFloor \div 2 ELSE sent

\* No commit that changed this row was written, but not visible, when the
\* baseline's watermark was read, and still invisible to the baseline.
OutsideLag(k) ==
  \A i \in 1..(watermarkFloor \div 2) :
    lagFrom < i /\ basePos < i => RowsAt(i)[k] = RowsAt(i - 1)[k]

\* Exactly-once: once the stream has caught up with the commit its baseline was
\* read at, an open collection equals the query's result at the last commit the
\* stream handed over; before that every row is the one of that commit or the
\* one of the baseline.  No commit is lost or applied out of place by the
\* initial handshake, by a rebaseline, by a resumed slot's replay or by a
\* failed or superseded read (runHandshake, handleTapEvent,
\* readCollectionBaseline, rebaselineCollections).  Rows that changed in the
\* visibility window readCollectionBaseline accepts are the only exception.
CollectionIsExact ==
  InSync =>
    \A k \in Keys :
      OutsideLag(k) =>
        /\ core[k] \in {ViewAt(UpTo)[k], ViewAt(basePos)[k]}
        /\ basePos <= UpTo => core[k] = ViewAt(UpTo)[k]

\* While a stream is open, only the factory's own handshake may find commits in
\* the buffer: rebaselines are complete before the stream opens
\* (pulse-runtime.ts, backfill: "a collection is never rebuilding while events
\* for it are already arriving").
RebaselineNeverBuffers ==
  baselining /\ buffer # <<>> =>
    \E r \in reads : r.kind = "initial" /\ r.gen = handshakeGen

\* A collection does not stay in buffering mode: every handshake ends, and one
\* that fails gives up the buffer (runHandshake's catch).
NeverLatched == baselining ~> ~baselining

\* Again and again a live collection whose last handshake succeeded shows the
\* query's present result: no reconnect leaves it behind for good.
CollectionCatchesUp ==
  []<>(Registered => ~baselining /\ (synced => core = ViewAt(Len(wal))))

\* client/embedded/index.ts:279: "init failures reject the factory promise".  A
\* collection handed to its owner is loaded, or a handshake is loading it.
InitFailureRejects ==
  promise = "resolved" /\ ~disposed /\ ~baselining => watermarkFloor # NoLsn

------------------------------------------------------------------------------
(***************************************************************************)
(* The inductive invariant behind these properties.                        *)
(***************************************************************************)
\* A connection whose commits the collection will be handed, or is about to be.
Live ==
  \/ phase \in {"resyncing", "streaming", "emitting"}
  \/ phase = "rebaselining" /\ ~captured

\* The last commit this connection handed over, or starts after.
Handed == IF phase \in {"rebaselining", "resyncing"} THEN slot \div 2 ELSE sent

\* The source's history is recorded commit by commit, and at most the last
\* commit is not visible yet.
HistoryInv ==
  /\ Len(history) = Len(wal) + 1
  /\ visible <= Len(wal) /\ Len(wal) <= visible + 1

\* A slot stands at the end of a commit; a connect that got past its slot has
\* one; the commit being emitted is no replay.
ConnectionInv ==
  /\ slot # NoLsn => slot = EndLsn(slot \div 2)
  /\ phase \in {"rotating", "adopting", "rebaselining", "resyncing"} => slot # NoLsn
  /\ phase = "emitting" => lastPersisted < CommitLsn(sent + 1)

\* The owner's promise, the reads in flight and the stream agree on how far the
\* collection is.
OwnerInv ==
  /\ promise = "none" => reads = {} /\ ~captured
  /\ promise = "rejected" => disposed
  /\ ~hasStreamed => ~captured /\ \A r \in reads : r.kind = "initial"
  /\ AwaitStart /\ (started \/ Registered) => hasStreamed

\* The handshake that owns the collection is the factory's own.
InitialLoad == \E r \in reads : r.kind = "initial" /\ r.gen = handshakeGen

\* A collection buffers exactly while the one read that will end it is in
\* flight; once a connect has come to its round, that read is the round's or the
\* factory's own.
HandshakeInv ==
  /\ \A r \in reads : r.gen <= handshakeGen
  /\ \A r, q \in reads : r.gen = q.gen => r = q
  /\ baselining <=> \E r \in reads : r.gen = handshakeGen
  /\ baselining /\ Registered =>
       \/ InitialLoad
       \/ phase \in {"stopped", "connecting", "rotating", "adopting"}
       \/ phase \in {"rebaselining", "resyncing"} /\ (captured \/ round = handshakeGen)

\* A watermark is the end of a commit, the last one visible then or the one
\* after it.
Watermark(from, seen) ==
  /\ 0 <= from /\ from = EndLsn(from \div 2) /\ from <= EndLsn(Len(wal))
  /\ seen <= from \div 2 /\ from \div 2 <= seen + 1

\* Rows are never older than what was visible as their watermark was read.
ReadInv ==
  /\ \A r \in reads :
       /\ r.stage # "watermark" => Watermark(r.watermark, r.seen)
       /\ r.stage = "select" => r.seen <= visible
       /\ r.stage = "answered" => r.seen <= r.pos /\ r.pos <= Len(wal)
  /\ synced => /\ Watermark(watermarkFloor, lagFrom)
               /\ lagFrom <= basePos /\ basePos <= Len(wal)

\* The parts that hold whenever collections are created.
FrameInv ==
  /\ HistoryInv /\ ConnectionInv /\ OwnerInv /\ HandshakeInv /\ ReadInv
  /\ RebaselineNeverBuffers

\* The buffer is the run of commits up to the last one handed over, and a
\* connection that has filled it has no replay left to skip.
BufferInv ==
  Live /\ Registered /\ baselining =>
    /\ Len(buffer) <= Handed
    /\ \A j \in 1..Len(buffer) : buffer[j] = Handed - Len(buffer) + j
    /\ buffer # <<>> =>
         lastPersisted <= EndLsn(Handed) /\ phase \in {"streaming", "emitting"}

\* No commit is missing between a watermark and the commits still to come: what
\* is not in the buffer, or will be skipped as a replay, lies below it.
CoverInv ==
  Live /\ Registered /\ baselining =>
    \A r \in reads : r.gen = handshakeGen /\ r.stage # "watermark" =>
      /\ EndLsn(Handed - Len(buffer)) <= r.watermark
      /\ lastPersisted <= r.watermark \/ lastPersisted <= EndLsn(Handed)

\* UpTo, from the moment the connection's position is fixed.
Reached == IF watermarkFloor > EndLsn(Handed) THEN watermarkFloor \div 2 ELSE Handed

\* CollectionIsExact, before the stream opens as well.
ExactInv ==
  Live /\ Registered /\ synced /\ ~baselining =>
    /\ lastPersisted <= watermarkFloor \/ lastPersisted <= EndLsn(Handed)
    /\ \A k \in Keys : OutsideLag(k) => Follows(core[k], k, Reached, basePos)

DataInv == BufferInv /\ CoverInv /\ ExactInv

\* The inductive invariant.
CollectionInv == StreamInv /\ FrameInv /\ (AwaitStart => DataInv)
=============================================================================
