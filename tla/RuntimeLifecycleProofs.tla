------------------------ MODULE RuntimeLifecycleProofs ------------------------
(***************************************************************************)
(* Proofs about RuntimeLifecycle, and with it about Bootstrap.             *)
(***************************************************************************)
EXTENDS RuntimeLifecycle, TLAPS

Stages == {"none", "replication", "events", "commit"}

\* The fields of the transaction, and of its rows in pulse_meta once they are written.
TxOK ==
  /\ tx \in [by : Calls \union {NoCall}, stage : Stages, db : Database \union {None}]
  /\ tx.by # NoCall => tx.db \in Database
  /\ tx.by # NoCall /\ tx.stage = "commit" /\ PullEnabled =>
       \A t \in Registered[calls[tx.by].runtime] : tx.db.meta[t] \in MetaRow

\* Whoever holds the lock is inside bootstrap.
HolderBoots == tx.by # NoCall => Bootstrapping(tx.by)

Typed == LifecycleTypeOK /\ TxOK /\ HolderBoots

(***************************************************************************)
(* What a step does to the calls.                                          *)
(***************************************************************************)
\* Call c goes from one await to another.
Moved(c, at, held) ==
  /\ \A b \in Calls \ {c} : calls'[b] = calls[b]
  /\ calls[c] \in Call /\ calls'[c] \in Call
  /\ calls'[c].kind = calls[c].kind /\ calls'[c].runtime = calls[c].runtime
  /\ calls'[c].at = at /\ calls'[c].held = held

\* Call c is made.
Entered(c, kind, r, at, held) ==
  /\ \A b \in Calls \ {c} : calls'[b] = calls[b]
  /\ calls[c] = None /\ calls'[c] \in Call
  /\ calls'[c].kind = kind /\ calls'[c].runtime = r
  /\ calls'[c].at = at /\ calls'[c].held = held

\* The awaits of a call.
Awaits == {"bootstrap", "committed", "ready", "closing", "stopping", "ending", "done"}

\* A call that has been made is a record (LifecycleAssumption).
LEMMA MadeIsCall ==
  ASSUME calls \in [Calls -> Call \union {None}], NEW c \in Calls
  PROVE  Made(c) <=> calls[c] \in Call
BY LifecycleAssumption DEF Made

\* Goes, and what EndStore does to the calls, move one call and leave the rest.
LEMMA MoveEffect ==
  ASSUME calls \in [Calls -> Call \union {None}], NEW c \in Calls, Made(c),
         NEW at \in Awaits, NEW held \in Calls \union {NoCall},
         calls' = [calls EXCEPT ![c].at = at, ![c].held = held]
  PROVE  Moved(c, at, held) /\ calls' \in [Calls -> Call \union {None}]
<1>1. calls[c] \in Call
  BY MadeIsCall
<1>2. calls' = [calls EXCEPT ![c] = [calls[c] EXCEPT !.at = at, !.held = held]]
  BY <1>1 DEF Call
<1>3. [calls[c] EXCEPT !.at = at, !.held = held] \in Call
  BY <1>1 DEF Call, Awaits
<1>4. QED
  BY <1>1, <1>2, <1>3 DEF Moved, Call

\* Goes keeps what the call holds.
LEMMA GoesEffect ==
  ASSUME calls \in [Calls -> Call \union {None}], NEW c \in Calls, Made(c),
         NEW at \in Awaits, Goes(c, at)
  PROVE  Moved(c, at, calls[c].held) /\ calls' \in [Calls -> Call \union {None}]
<1>1. calls[c] \in Call
  BY MadeIsCall
<1>2. calls' = [calls EXCEPT ![c] = [calls[c] EXCEPT !.at = at]]
  BY <1>1 DEF Goes, Call
<1>3. [calls[c] EXCEPT !.at = at] \in Call
  BY <1>1 DEF Call, Awaits
<1>4. QED
  BY <1>1, <1>2, <1>3 DEF Moved, Call

\* Begin and handleFatal make one call and leave the rest.
LEMMA EnterEffect ==
  ASSUME calls \in [Calls -> Call \union {None}], NEW c \in Calls, ~Made(c),
         NEW kind \in {"start", "provision", "stop", "fatal"}, NEW r \in Runtimes,
         NEW at \in Awaits, NEW held \in Calls \union {NoCall},
         calls' = [calls EXCEPT ![c] = [kind |-> kind, runtime |-> r, at |-> at, held |-> held]]
  PROVE  Entered(c, kind, r, at, held) /\ calls' \in [Calls -> Call \union {None}]
<1>1. [kind |-> kind, runtime |-> r, at |-> at, held |-> held] \in Call
  BY DEF Call, Awaits
<1>2. calls[c] = None
  BY DEF Made
<1>3. QED
  BY <1>1, <1>2 DEF Entered

(***************************************************************************)
(* Types.                                                                  *)
(***************************************************************************)
\* The initial state is well typed.
LEMMA TypedInit == LifecycleInit => Typed
<1> SUFFICES ASSUME LifecycleInit PROVE Typed
  OBVIOUS
<1>1. PICK publication \in {"none", "all"} : db = Untouched(publication)
  BY DEF LifecycleInit, BootInit
<1>2. db \in Database /\ tx = NoTx
  BY <1>1 DEF LifecycleInit, BootInit, Untouched, Database
<1>3. BootTypeOK
  BY <1>2, BootstrapAssumption DEF LifecycleInit, BootInit, BootTypeOK, NoTx
<1>4. TxOK /\ HolderBoots
  BY <1>2 DEF TxOK, HolderBoots, NoTx, Stages
<1>5. LifecycleTypeOK
  BY <1>3 DEF LifecycleInit, LifecycleTypeOK
<1>6. QED
  BY <1>4, <1>5 DEF Typed

\* The catalogue that the replication part of a boot leaves is well formed.
LEMMA ReplicationType ==
  ASSUME NEW d \in Database, NEW r \in Runtimes
  PROVE  [d EXCEPT !.identity = Identified(d, r),
                   !.publication = IF @ = "all" THEN "all" ELSE "list",
                   !.members = Members(d, r)] \in Database
<1>1. Identified(d, r) \in [Tables -> {"full", "other"}]
  BY DEF Identified, Database
<1>2. Members(d, r) \in SUBSET Tables
  BY BootstrapAssumption DEF Members
<1>3. QED
  BY <1>1, <1>2 DEF Database

\* So is the one that the events part leaves, with a row in pulse_meta for
\* every registered table.
LEMMA EventsType ==
  ASSUME NEW d \in Database, NEW r \in Runtimes, NEW epoch \in Nat
  PROVE  /\ [d EXCEPT !.events = Events(d, r, epoch), !.meta = Meta(d, r, epoch)] \in Database
         /\ \A t \in Registered[r] : Meta(d, r, epoch)[t] \in MetaRow
<1>1. ASSUME NEW t \in Tables PROVE Shape[r][t] \in Shapes
  BY BootstrapAssumption
<1>2. d.events \in [Tables -> EventsTable \union {None}] /\ d.meta \in [Tables -> MetaRow \union {None}]
  BY DEF Database
<1>3. Events(d, r, epoch) \in [Tables -> EventsTable \union {None}]
  BY <1>1, <1>2 DEF Events, EventsTable
<1>4. Meta(d, r, epoch) \in [Tables -> MetaRow \union {None}]
  BY <1>1, <1>2 DEF Meta, MetaRow
<1>5. ASSUME NEW t \in Registered[r] PROVE Meta(d, r, epoch)[t] \in MetaRow
  <2>1. t \in Tables
    BY BootstrapAssumption
  <2>2. CASE Reused(d, r, t)
    BY <1>2, <2>1, <2>2 DEF Meta, Reused
  <2>3. CASE ~Reused(d, r, t)
    BY <1>1, <2>1, <2>3 DEF Meta, MetaRow
  <2>4. QED
    BY <2>2, <2>3
<1>6. QED
  BY <1>3, <1>4, <1>5 DEF Database

\* A step that leaves the transaction alone leaves its holder alone too, if it
\* moves or makes another call.
LEMMA HolderKept ==
  ASSUME Typed, NEW c \in Calls, tx.by # c, UNCHANGED tx,
         \A b \in Calls \ {c} : calls'[b] = calls[b]
  PROVE  TxOK' /\ HolderBoots'
<1>1. CASE tx.by = NoCall
  BY <1>1 DEF Typed, TxOK, HolderBoots
<1>2. CASE tx.by # NoCall
  <2>1. tx.by \in Calls \ {c}
    BY <1>2 DEF Typed, TxOK
  <2>2. calls'[tx.by] = calls[tx.by]
    BY <2>1
  <2>3. QED
    BY <1>2, <2>2 DEF Typed, TxOK, HolderBoots, Bootstrapping, IsAt, Made
<1>3. QED
  BY <1>1, <1>2

\* The lock is taken by a call inside bootstrap.
LEMMA TypedLock ==
  ASSUME Typed, NEW c \in Calls, BootLock(c) PROVE Typed'
<1>1. tx' = [by |-> c, stage |-> "replication", db |-> db] /\ UNCHANGED <<db, issued, drifted, changes, calls>>
  BY DEF BootLock, Lock, Unmoved
<1>2. BootTypeOK'
  BY <1>1, BootstrapAssumption DEF Typed, LifecycleTypeOK, BootTypeOK
<1>3. TxOK'
  BY <1>1 DEF Typed, LifecycleTypeOK, BootTypeOK, TxOK, Stages
<1>4. HolderBoots'
  BY <1>1 DEF BootLock, HolderBoots, Bootstrapping, IsAt, Made
<1>5. QED
  BY <1>2, <1>3, <1>4 DEF Typed, LifecycleTypeOK, conduct, BootLock, Unmoved, fields, outside

\* The replication part keeps types.
LEMMA TypedReplication ==
  ASSUME Typed, NEW c \in Calls, BootReplication(c) PROVE Typed'
<1> DEFINE r == calls[c].runtime
<1>1. tx.by = c /\ UNCHANGED <<db, issued, drifted, changes, calls>>
  BY DEF BootReplication, ProvisionReplication, Unmoved
<1>2. c # NoCall /\ tx.db \in Database
  BY <1>1, BootstrapAssumption DEF Typed, TxOK
<1>3. r \in Runtimes
  BY MadeIsCall DEF Typed, LifecycleTypeOK, BootReplication, Bootstrapping, IsAt, Call
<1>4. tx' = [by |-> c, stage |-> "events",
             db |-> [tx.db EXCEPT !.identity = Identified(tx.db, r),
                                  !.publication = IF @ = "all" THEN "all" ELSE "list",
                                  !.members = Members(tx.db, r)]]
  BY <1>1, <1>2 DEF BootReplication, ProvisionReplication, Typed, TxOK
<1>5. tx'.db \in Database
  BY <1>2, <1>3, <1>4, ReplicationType
<1>6. BootTypeOK'
  BY <1>1, <1>2, <1>4, <1>5 DEF Typed, LifecycleTypeOK, BootTypeOK
<1>7. TxOK' /\ HolderBoots'
  BY <1>1, <1>4, <1>5 DEF Typed, TxOK, Stages, HolderBoots, Bootstrapping, IsAt, Made
<1>8. QED
  BY <1>6, <1>7 DEF Typed, LifecycleTypeOK, conduct, BootReplication, Unmoved, fields, outside

\* The events part keeps types, and leaves a row in pulse_meta for each table.
LEMMA TypedEvents ==
  ASSUME Typed, NEW c \in Calls, BootEvents(c) PROVE Typed'
<1> DEFINE r == calls[c].runtime
<1>1. tx.by = c /\ UNCHANGED <<db, drifted, changes, calls>>
  BY DEF BootEvents, ProvisionEvents, Unmoved
<1>2. c # NoCall /\ tx.db \in Database /\ issued \in Nat
  BY <1>1, BootstrapAssumption DEF Typed, TxOK, LifecycleTypeOK, BootTypeOK
<1>3. r \in Runtimes
  BY MadeIsCall DEF Typed, LifecycleTypeOK, BootEvents, Bootstrapping, IsAt, Call
<1>4. CASE PullEnabled
  <2>1. tx' = [by |-> c, stage |-> "commit",
               db |-> [tx.db EXCEPT !.events = Events(tx.db, r, issued + 1),
                                    !.meta = Meta(tx.db, r, issued + 1)]]
    BY <1>1, <1>2, <1>4 DEF BootEvents, ProvisionEvents, Typed, TxOK
  <2>2. issued + 1 \in Nat /\ issued' = issued + 1
    BY <1>2, <1>4 DEF BootEvents, ProvisionEvents
  <2>3. tx'.db \in Database
    BY <1>2, <1>3, <2>1, <2>2, EventsType
  <2>4. tx'.db.meta = Meta(tx.db, r, issued + 1)
    BY <1>2, <2>1 DEF Database
  <2>5. \A t \in Registered[r] : tx'.db.meta[t] \in MetaRow
    BY <1>2, <1>3, <2>2, <2>4, EventsType
  <2>6. BootTypeOK'
    BY <1>1, <1>2, <2>1, <2>2, <2>3 DEF Typed, LifecycleTypeOK, BootTypeOK
  <2>7. TxOK' /\ HolderBoots'
    BY <1>1, <2>1, <2>3, <2>5 DEF Typed, TxOK, Stages, HolderBoots, Bootstrapping, IsAt, Made
  <2>8. QED
    BY <2>6, <2>7 DEF Typed, LifecycleTypeOK, conduct, BootEvents, Unmoved, fields, outside
<1>5. CASE ~PullEnabled
  <2>1. tx' = [by |-> c, stage |-> "commit", db |-> tx.db] /\ UNCHANGED issued
    BY <1>1, <1>2, <1>5 DEF BootEvents, ProvisionEvents, Typed, TxOK
  <2>2. BootTypeOK'
    BY <1>1, <1>2, <2>1 DEF Typed, LifecycleTypeOK, BootTypeOK
  <2>3. TxOK' /\ HolderBoots'
    BY <1>1, <1>2, <1>5, <2>1 DEF Typed, TxOK, Stages, HolderBoots, Bootstrapping, IsAt, Made
  <2>4. QED
    BY <2>2, <2>3 DEF Typed, LifecycleTypeOK, conduct, BootEvents, Unmoved, fields, outside
<1>6. QED
  BY <1>4, <1>5

\* The commit keeps types: the epochs it returns are there.
LEMMA TypedCommit ==
  ASSUME Typed, NEW c \in Calls, BootCommit(c) PROVE Typed'
<1> DEFINE r == calls[c].runtime
<1>1. tx.by = c /\ tx.stage = "commit" /\ tx' = NoTx /\ db' = tx.db /\ UNCHANGED <<issued, changes>>
  BY DEF BootCommit, CommitBoot
<1>2. c # NoCall /\ tx.db \in Database /\ r \in Runtimes
  BY <1>1, BootstrapAssumption, MadeIsCall
  DEF Typed, TxOK, LifecycleTypeOK, BootCommit, Bootstrapping, IsAt, Call
<1>3. calls' \in [Calls -> Call \union {None}]
  BY GoesEffect DEF BootCommit, Typed, LifecycleTypeOK, Bootstrapping, IsAt, Awaits
<1>4. Epochs(tx.db, r) \in [Tables -> Nat \union {None}]
  <2>1. ASSUME NEW t \in Tables, PullEnabled, t \in Registered[r] PROVE tx.db.meta[t].epoch \in Nat
    <3>1. tx.db.meta[t] \in MetaRow
      BY <1>1, <1>2, <2>1 DEF Typed, TxOK
    <3>2. QED
      BY <3>1 DEF MetaRow
  <2>2. QED
    BY <2>1 DEF Epochs
<1>5. epochs' \in [Runtimes -> [Tables -> Nat \union {None}]]
  BY <1>2, <1>4 DEF BootCommit, Typed, LifecycleTypeOK
<1>6. BootTypeOK'
  BY <1>1, <1>2 DEF BootCommit, CommitBoot, Typed, LifecycleTypeOK, BootTypeOK, NoTx
<1>7. TxOK' /\ HolderBoots'
  BY <1>1 DEF TxOK, Stages, HolderBoots, NoTx
<1>8. QED
  BY <1>3, <1>5, <1>6, <1>7 DEF Typed, LifecycleTypeOK, conduct, BootCommit, outside

(***************************************************************************)
(* The steps of a runtime, grouped by what they do to the fields.          *)
(***************************************************************************)
\* start and provision.
Opens(c, r, kind) ==
  /\ session[r] = NoCall
  /\ AdoptStore(c, r)
  /\ Begin(c, kind, r, "bootstrap", store'[r])
  /\ UNCHANGED <<bootVars, session, epochs, sessions, collection>>

\* stop and handleFatal.
Halts(c, kind, r, base) ==
  /\ calls' = [calls EXCEPT ![c] =
                 [kind |-> kind, runtime |-> r, at |-> "stopping", held |-> session[r]]]
  /\ StopSession(r, base)
  /\ UNCHANGED <<bootVars, store, epochs, stores>>

\* The steps that clear the store and end it.
Ends(c) == BootFails(c) \/ Provisioned(c) \/ Closed(c) \/ SessionStopped(c)

\* start and provision make a call that holds the runtime's store.
LEMMA OpensEffect ==
  ASSUME Typed, NEW c \in Calls, NEW r \in Runtimes, NEW kind \in {"start", "provision"},
         Opens(c, r, kind)
  PROVE  /\ Entered(c, kind, r, "bootstrap", store'[r])
         /\ store' \in [Runtimes -> Calls \union {NoCall}]
         /\ calls' \in [Calls -> Call \union {None}]
         /\ c # tx.by
<1>1. store' \in [Runtimes -> Calls \union {NoCall}]
  BY DEF Opens, AdoptStore, Typed, LifecycleTypeOK
<1>2. ~Made(c) /\ calls' = [calls EXCEPT ![c] =
         [kind |-> kind, runtime |-> r, at |-> "bootstrap", held |-> store'[r]]]
  BY DEF Opens, Begin
<1>3. c # tx.by
  BY <1>2, BootstrapAssumption DEF Typed, HolderBoots, Bootstrapping, IsAt
<1>4. store'[r] \in Calls \union {NoCall} /\ kind \in {"start", "provision", "stop", "fatal"}
      /\ "bootstrap" \in Awaits
  BY <1>1 DEF Awaits
<1>5. QED
  BY <1>1, <1>2, <1>3, <1>4, EnterEffect DEF Typed, LifecycleTypeOK

\* stop and handleFatal make a call that holds the runtime's session.
LEMMA HaltsEffect ==
  ASSUME Typed, NEW c \in Calls, NEW kind \in {"stop", "fatal"}, NEW r \in Runtimes, NEW base,
         ~Made(c), Halts(c, kind, r, base)
  PROVE  /\ Entered(c, kind, r, "stopping", session[r])
         /\ calls' \in [Calls -> Call \union {None}]
         /\ c # tx.by
<1>1. session[r] \in Calls \union {NoCall} /\ "stopping" \in Awaits
      /\ kind \in {"start", "provision", "stop", "fatal"}
  BY DEF Typed, LifecycleTypeOK, Awaits
<1>2. c # tx.by
  BY BootstrapAssumption DEF Typed, HolderBoots, Bootstrapping, IsAt
<1>3. calls' = [calls EXCEPT ![c] =
         [kind |-> kind, runtime |-> r, at |-> "stopping", held |-> session[r]]]
  BY DEF Halts
<1>4. QED
  BY <1>1, <1>2, <1>3, EnterEffect DEF Typed, LifecycleTypeOK

\* The steps that clear the store hold it until it has ended.
LEMMA EndsEffect ==
  ASSUME Typed, NEW c \in Calls, Ends(c)
  PROVE  /\ Moved(c, "ending", store[calls[c].runtime])
         /\ calls' \in [Calls -> Call \union {None}]
         /\ calls[c].runtime \in Runtimes
         /\ store' = [store EXCEPT ![calls[c].runtime] = NoCall]
         /\ session' = session \/ session' = [session EXCEPT ![calls[c].runtime] = NoCall]
         /\ calls[c].at \in {"bootstrap", "committed", "closing", "stopping"}
         /\ UNCHANGED <<epochs, sessions, stores, collection, overlapped, raced>>
<1> DEFINE r == calls[c].runtime
<1>1. Made(c) /\ EndStore(c, r) /\ calls[c].at \in {"bootstrap", "committed", "closing", "stopping"}
      /\ UNCHANGED <<epochs, sessions, collection, overlapped, raced>>
  BY DEF Ends, BootFails, Provisioned, Closed, SessionStopped, Bootstrapping, IsAt, conduct
<1>2. r \in Runtimes
  BY <1>1, MadeIsCall DEF Typed, LifecycleTypeOK, Call
<1>3. store[r] \in Calls \union {NoCall} /\ "ending" \in Awaits
  BY <1>2 DEF Typed, LifecycleTypeOK, Awaits
<1>4. Moved(c, "ending", store[r]) /\ calls' \in [Calls -> Call \union {None}]
  BY <1>1, <1>3, MoveEffect DEF EndStore, Typed, LifecycleTypeOK
<1>5. session' = session \/ session' = [session EXCEPT ![r] = NoCall]
  BY DEF Ends, BootFails, Provisioned, Closed, SessionStopped
<1>6. QED
  BY <1>1, <1>2, <1>4, <1>5 DEF EndStore

\* A step that moves a call outside bootstrap leaves the lock's holder alone.
LEMMA OutsideBootstrap ==
  ASSUME Typed, NEW c \in Calls, calls[c].at # "bootstrap"
  PROVE  c # tx.by
BY BootstrapAssumption DEF Typed, HolderBoots, Bootstrapping, IsAt

\* start and provision keep types.
LEMMA TypedOpens ==
  ASSUME Typed, NEW c \in Calls, NEW r \in Runtimes, NEW kind \in {"start", "provision"},
         Opens(c, r, kind)
  PROVE  Typed'
<1>1. stores' \in [Calls -> {"none", "open", "ended"}] /\ overlapped' \in [Runtimes -> BOOLEAN]
      /\ raced' \subseteq Calls
  <2>1. Attending(r) \in BOOLEAN
    BY DEF Attending
  <2>2. overlapped' \in [Runtimes -> BOOLEAN] /\ raced' \subseteq Calls
    BY <2>1 DEF Opens, Begin, FatalStops, Typed, LifecycleTypeOK
  <2>3. QED
    BY <2>2 DEF Opens, AdoptStore, Typed, LifecycleTypeOK
<1>2. BootTypeOK'
  BY DEF Opens, bootVars, Typed, LifecycleTypeOK, BootTypeOK
<1>3. TxOK' /\ HolderBoots'
  BY OpensEffect, HolderKept DEF Opens, bootVars, Entered
<1>4. QED
  BY <1>1, <1>2, <1>3, OpensEffect DEF Opens, Typed, LifecycleTypeOK

\* stop and handleFatal keep types.
LEMMA TypedHalts ==
  ASSUME Typed, NEW c \in Calls, NEW kind \in {"stop", "fatal"}, NEW r \in Runtimes, ~Made(c),
         NEW base \in [Calls -> {"none", "connecting", "streaming", "failed", "draining", "stopped"}],
         Halts(c, kind, r, base), overlapped' \in [Runtimes -> BOOLEAN], raced' \subseteq Calls
  PROVE  Typed'
<1>1. BootTypeOK'
  BY DEF Halts, bootVars, Typed, LifecycleTypeOK, BootTypeOK
<1>2. TxOK' /\ HolderBoots'
  BY HaltsEffect, HolderKept DEF Halts, bootVars, Entered
<1>3. /\ session' \in [Runtimes -> Calls \union {NoCall}]
      /\ sessions' \in [Calls -> {"none", "connecting", "streaming", "failed", "draining", "stopped"}]
      /\ collection' \in [Runtimes -> {"none", "early", "late"}]
  BY DEF Halts, StopSession, Typed, LifecycleTypeOK
<1>4. QED
  BY <1>1, <1>2, <1>3, HaltsEffect DEF Halts, Typed, LifecycleTypeOK

\* The steps that clear the store keep types; a boot that fails gives the lock up.
LEMMA TypedEnds ==
  ASSUME Typed, NEW c \in Calls, Ends(c) PROVE Typed'
<1>1. BootTypeOK' /\ TxOK' /\ HolderBoots'
  <2>1. CASE BootFails(c)
    <3>1. CASE tx.by = c
      <4>1. tx' = NoTx /\ UNCHANGED <<db, issued, drifted, changes>>
        BY <2>1, <3>1 DEF BootFails, RollBack
      <4>2. QED
        BY <4>1 DEF Typed, LifecycleTypeOK, BootTypeOK, TxOK, HolderBoots, NoTx, Stages
    <3>2. CASE tx.by # c
      <4>1. UNCHANGED bootVars
        BY <2>1, <3>2 DEF BootFails
      <4>2. BootTypeOK'
        BY <4>1 DEF bootVars, Typed, LifecycleTypeOK, BootTypeOK
      <4>3. QED
        BY <3>2, <4>1, <4>2, EndsEffect, HolderKept DEF bootVars, Moved
    <3>3. QED
      BY <3>1, <3>2
  <2>2. CASE Provisioned(c) \/ Closed(c) \/ SessionStopped(c)
    <3>1. UNCHANGED bootVars /\ calls[c].at # "bootstrap"
      BY <2>2 DEF Provisioned, Closed, SessionStopped, IsAt
    <3>2. BootTypeOK'
      BY <3>1 DEF bootVars, Typed, LifecycleTypeOK, BootTypeOK
    <3>3. QED
      BY <3>1, <3>2, OutsideBootstrap, EndsEffect, HolderKept DEF bootVars, Moved
  <2>3. QED
    BY <2>1, <2>2 DEF Ends
<1>2. session' \in [Runtimes -> Calls \union {NoCall}] /\ store' \in [Runtimes -> Calls \union {NoCall}]
  BY EndsEffect DEF Typed, LifecycleTypeOK
<1>3. QED
  BY <1>1, <1>2, EndsEffect DEF Typed, LifecycleTypeOK

\* openSession keeps types: it leaves the lock alone.
LEMMA TypedOpenSession ==
  ASSUME Typed, NEW c \in Calls, OpenSession(c) PROVE Typed'
<1>1. Made(c) /\ calls[c].at # "bootstrap" /\ Goes(c, "ready") /\ "ready" \in Awaits
  BY DEF OpenSession, IsAt, Awaits
<1>2. Moved(c, "ready", calls[c].held) /\ calls' \in [Calls -> Call \union {None}]
  BY <1>1, GoesEffect DEF Typed, LifecycleTypeOK
<1>3. TxOK' /\ HolderBoots'
  BY <1>1, <1>2, OutsideBootstrap, HolderKept DEF OpenSession, bootVars, Moved
<1>4. BootTypeOK'
  BY DEF OpenSession, bootVars, Typed, LifecycleTypeOK, BootTypeOK
<1>5. QED
  BY <1>2, <1>3, <1>4 DEF OpenSession, Typed, LifecycleTypeOK, conduct

\* So does the answer of session.ready.
LEMMA TypedReady ==
  ASSUME Typed, NEW c \in Calls, Ready(c) PROVE Typed'
<1>1. Made(c) /\ calls[c].at # "bootstrap" /\ Goes(c, "done") /\ "done" \in Awaits
  BY DEF Ready, IsAt, Awaits
<1>2. Moved(c, "done", calls[c].held) /\ calls' \in [Calls -> Call \union {None}]
  BY <1>1, GoesEffect DEF Typed, LifecycleTypeOK
<1>3. TxOK' /\ HolderBoots'
  BY <1>1, <1>2, OutsideBootstrap, HolderKept DEF Ready, bootVars, Moved
<1>4. BootTypeOK'
  BY DEF Ready, bootVars, Typed, LifecycleTypeOK, BootTypeOK
<1>5. QED
  BY <1>2, <1>3, <1>4 DEF Ready, fields, Typed, LifecycleTypeOK, conduct

\* A start whose session.ready rejects keeps types.
LEMMA TypedReadyRejects ==
  ASSUME Typed, NEW c \in Calls, ReadyRejects(c) PROVE Typed'
<1>1. Made(c) /\ calls[c].at # "bootstrap" /\ "closing" \in Awaits /\ c \in Calls \union {NoCall}
  BY DEF ReadyRejects, IsAt, Awaits
<1>2. Moved(c, "closing", c) /\ calls' \in [Calls -> Call \union {None}]
  BY <1>1, MoveEffect DEF ReadyRejects, Typed, LifecycleTypeOK
<1>3. TxOK' /\ HolderBoots'
  BY <1>1, <1>2, OutsideBootstrap, HolderKept DEF ReadyRejects, bootVars, Moved
<1>4. BootTypeOK'
  BY DEF ReadyRejects, bootVars, Typed, LifecycleTypeOK, BootTypeOK
<1>5. sessions' \in [Calls -> {"none", "connecting", "streaming", "failed", "draining", "stopped"}]
      /\ session' \in [Runtimes -> Calls \union {NoCall}]
  BY DEF ReadyRejects, Typed, LifecycleTypeOK
<1>6. QED
  BY <1>2, <1>3, <1>4, <1>5 DEF ReadyRejects, Typed, LifecycleTypeOK, conduct

\* And the end of a store.
LEMMA TypedStoreEnded ==
  ASSUME Typed, NEW c \in Calls, StoreEnded(c) PROVE Typed'
<1>1. Made(c) /\ calls[c].at # "bootstrap" /\ Goes(c, "done") /\ "done" \in Awaits
  BY DEF StoreEnded, InFlight, Awaits
<1>2. Moved(c, "done", calls[c].held) /\ calls' \in [Calls -> Call \union {None}]
  BY <1>1, GoesEffect DEF Typed, LifecycleTypeOK
<1>3. TxOK' /\ HolderBoots'
  BY <1>1, <1>2, OutsideBootstrap, HolderKept DEF StoreEnded, bootVars, Moved
<1>4. BootTypeOK'
  BY DEF StoreEnded, bootVars, Typed, LifecycleTypeOK, BootTypeOK
<1>5. stores' \in [Calls -> {"none", "open", "ended"}]
  BY DEF StoreEnded, Typed, LifecycleTypeOK
<1>6. QED
  BY <1>2, <1>3, <1>4, <1>5 DEF StoreEnded, fields, Typed, LifecycleTypeOK, conduct

\* The steps that move no call and leave the lock alone keep types.
LEMMA TypedRest ==
  ASSUME Typed, UNCHANGED <<calls, tx>>, BootTypeOK',
         UNCHANGED <<fields, stores, conduct>>,
         sessions' \in [Calls -> {"none", "connecting", "streaming", "failed", "draining", "stopped"}],
         collection' \in [Runtimes -> {"none", "early", "late"}]
  PROVE  Typed'
<1>1. TxOK' /\ HolderBoots'
  BY DEF Typed, TxOK, HolderBoots, Bootstrapping, IsAt, Made
<1>2. QED
  BY <1>1 DEF Typed, LifecycleTypeOK, fields, conduct

\* A change by hand leaves a catalogue, and no transaction is open.
LEMMA TypedByHand ==
  ASSUME Typed, ChangeByHand PROVE Typed'
<1>1. PICK t \in Tables : DropEventsTable(t) \/ ResetIdentity(t) \/ CreateByHand(t)
  BY DEF ChangeByHand
<1>2. db' \in Database
  <2>1. CASE DropEventsTable(t)
    BY <2>1 DEF DropEventsTable, Typed, LifecycleTypeOK, BootTypeOK, Database
  <2>2. CASE ResetIdentity(t)
    BY <2>2 DEF ResetIdentity, Typed, LifecycleTypeOK, BootTypeOK, Database
  <2>3. CASE CreateByHand(t)
    <3>1. PICK shape \in Shapes : db' = [db EXCEPT !.events[t] = [shape |-> shape, born |-> 0]]
      BY <2>3 DEF CreateByHand
    <3>2. [shape |-> shape, born |-> 0] \in EventsTable
      BY DEF EventsTable
    <3>3. QED
      BY <3>1, <3>2 DEF Typed, LifecycleTypeOK, BootTypeOK, Database
  <2>4. QED
    BY <1>1, <2>1, <2>2, <2>3
<1>3. UNCHANGED <<tx, issued>> /\ drifted' \subseteq Tables /\ changes' = changes + 1
  BY <1>1 DEF DropEventsTable, ResetIdentity, CreateByHand, ByHand, Typed, LifecycleTypeOK, BootTypeOK
<1>4. BootTypeOK'
  BY <1>2, <1>3 DEF Typed, LifecycleTypeOK, BootTypeOK
<1>5. QED
  BY <1>3, <1>4, TypedRest DEF ChangeByHand, Unmoved, outside, Typed, LifecycleTypeOK

(***************************************************************************)
(* The steps of LifecycleNext, in these groups.                            *)
(***************************************************************************)
\* A session of the driver settles, or a collection is made.
Settles == (\E c \in Calls : Drained(c)) \/ (\E r \in Runtimes : CreateCollection(r))

\* Every step of the specification is of one of the groups.
LEMMA Groups ==
  ASSUME LifecycleNext
  PROVE  \/ \E c \in Calls, r \in Runtimes :
              Opens(c, r, "start") \/ Opens(c, r, "provision")
         \/ \E c \in Calls, r \in Runtimes : Stop(c, r)
         \/ \E s, c \in Calls : Fatal(s, c)
         \/ \E c \in Calls : BootLock(c) \/ BootReplication(c) \/ BootEvents(c) \/ BootCommit(c)
         \/ \E c \in Calls : Ends(c)
         \/ \E c \in Calls : OpenSession(c) \/ Ready(c) \/ ReadyRejects(c) \/ StoreEnded(c)
         \/ Settles
         \/ ChangeByHand
<1>1. CASE \E c \in Calls, r \in Runtimes : Provision(c, r)
  BY <1>1 DEF Provision, Opens
<1>2. CASE \E c \in Calls, r \in Runtimes \ Deployers : Start(c, r) \/ Stop(c, r)
  BY <1>2 DEF Start, Opens
<1>3. CASE \E c \in Calls :
             Advance(c) \/ BootFails(c) \/ Ready(c) \/ ReadyRejects(c) \/ Drained(c)
  BY <1>3 DEF Advance, Ends, Settles
<1>4. QED
  BY <1>1, <1>2, <1>3 DEF LifecycleNext, Settles

\* stop and handleFatal are Halts: the owner's, and with the session given up.
LEMMA HaltsOfStop ==
  ASSUME Typed, NEW c \in Calls, NEW r \in Runtimes, Stop(c, r)
  PROVE  /\ ~Made(c) /\ Halts(c, "stop", r, sessions)
         /\ overlapped' \in [Runtimes -> BOOLEAN] /\ raced' = raced
<1>1. Attending(r) \in BOOLEAN
  BY DEF Attending
<1>2. QED
  BY <1>1 DEF Stop, Begin, Halts, Typed, LifecycleTypeOK

(***************************************************************************)
(* Sessions.                                                               *)
(***************************************************************************)
Settled == {"failed", "draining", "stopped"}

\* A session was opened by a start that is past its boot.
Opened(s) ==
  /\ Made(s) /\ calls[s].kind = "start"
  /\ calls[s].at \notin {"bootstrap", "committed"}

SessionOK ==
  /\ \A s \in Calls : sessions[s] # "none" => Opened(s)
  /\ \A c \in Calls : IsAt(c, {"start"}, "ready") => sessions[c] # "none"
  /\ \A r \in Runtimes : session[r] # NoCall =>
       sessions[session[r]] # "none" /\ calls[session[r]].runtime = r
  /\ \A c \in Calls :
       Made(c) /\ calls[c].at \in {"closing", "stopping"} /\ calls[c].held # NoCall =>
         sessions[calls[c].held] \in Settled

\* No session is there at first.
LEMMA SessionInit == LifecycleInit => SessionOK
BY DEF LifecycleInit, SessionOK, Opened, IsAt, Made

\* start and provision open no session yet.
LEMMA SessionOpens ==
  ASSUME Typed, SessionOK, NEW c \in Calls, NEW r \in Runtimes,
         NEW kind \in {"start", "provision"}, Opens(c, r, kind)
  PROVE  SessionOK'
<1>1. Entered(c, kind, r, "bootstrap", store'[r]) /\ UNCHANGED <<session, sessions>>
  BY OpensEffect DEF Opens
<1>2. sessions[c] = "none" /\ \A x \in Runtimes : session[x] # c
  BY <1>1, BootstrapAssumption DEF SessionOK, Opened, Entered, Made
<1>3. \A x \in Runtimes : session[x] \in Calls \union {NoCall}
  BY DEF Typed, LifecycleTypeOK
<1>4. \A b \in Calls : sessions'[b] # "none" => Opened(b)'
  BY <1>1, <1>2 DEF SessionOK, Opened, Entered, Made
<1>5. \A b \in Calls : IsAt(b, {"start"}, "ready")' => sessions'[b] # "none"
  BY <1>1 DEF SessionOK, Entered, IsAt, Made
<1>6. \A x \in Runtimes : session'[x] # NoCall =>
        sessions'[session'[x]] # "none" /\ calls'[session'[x]].runtime = x
  BY <1>1, <1>2, <1>3 DEF SessionOK, Entered
<1>7. \A b \in Calls :
        Made(b)' /\ calls'[b].at \in {"closing", "stopping"} /\ calls'[b].held # NoCall =>
          sessions'[calls'[b].held] \in Settled
  BY <1>1 DEF SessionOK, Entered, Made
<1>8. QED
  BY <1>4, <1>5, <1>6, <1>7 DEF SessionOK

\* stop and handleFatal let go of a session that is told to stop, or has failed.
LEMMA SessionHalts ==
  ASSUME Typed, SessionOK, NEW c \in Calls, NEW kind \in {"stop", "fatal"}, NEW r \in Runtimes, ~Made(c),
         NEW base \in [Calls -> {"none", "connecting", "streaming", "failed", "draining", "stopped"}],
         \A s \in Calls : base[s] # sessions[s] => Live(s) /\ base[s] = "failed",
         Halts(c, kind, r, base)
  PROVE  SessionOK'
<1>1. Entered(c, kind, r, "stopping", session[r]) /\ session' = [session EXCEPT ![r] = NoCall]
  BY HaltsEffect DEF Halts, StopSession
<1>2. \A x \in Runtimes : session[x] \in Calls \union {NoCall}
  BY DEF Typed, LifecycleTypeOK
<1>3. /\ \A s \in Calls : sessions'[s] = "none" <=> sessions[s] = "none"
      /\ \A s \in Calls : sessions[s] \in Settled => sessions'[s] \in Settled
      /\ session[r] # NoCall => sessions'[session[r]] \in Settled
  <2>1. ASSUME NEW s \in Calls PROVE (base[s] = "none" <=> sessions[s] = "none")
               /\ (sessions[s] \in Settled => base[s] \in Settled)
    BY DEF Live, Settled
  <2>2. CASE session[r] # NoCall /\ base[session[r]] \in {"connecting", "streaming"}
    <3>1. sessions' = [base EXCEPT ![session[r]] = "draining"] /\ session[r] \in Calls
      BY <1>2, <2>2 DEF Halts, StopSession
    <3>2. QED
      BY <2>1, <2>2, <3>1 DEF Settled
  <2>3. CASE ~(session[r] # NoCall /\ base[session[r]] \in {"connecting", "streaming"})
    <3>1. sessions' = base
      BY <2>3 DEF Halts, StopSession
    <3>2. session[r] # NoCall => session[r] \in Calls /\ base[session[r]] # "none"
      BY <1>2, <2>1 DEF SessionOK
    <3>3. QED
      BY <2>1, <2>3, <3>1, <3>2 DEF Settled
  <2>4. QED
    BY <2>2, <2>3
<1>4. sessions[c] = "none" /\ \A x \in Runtimes : session[x] # c
  BY <1>1, BootstrapAssumption DEF SessionOK, Opened, Entered, Made
<1>5. \A b \in Calls : sessions'[b] # "none" => Opened(b)'
  BY <1>1, <1>3, <1>4 DEF SessionOK, Opened, Entered, Made
<1>6. \A b \in Calls : IsAt(b, {"start"}, "ready")' => sessions'[b] # "none"
  BY <1>1, <1>3 DEF SessionOK, Entered, IsAt, Made
<1>7. \A x \in Runtimes : session'[x] # NoCall =>
        sessions'[session'[x]] # "none" /\ calls'[session'[x]].runtime = x
  <2>1. TAKE x \in Runtimes
  <2>2. HAVE session'[x] # NoCall
  <2>3. session'[x] = session[x] /\ session[x] \in Calls \ {c}
    BY <1>1, <1>2, <1>4, <2>2 DEF Typed, LifecycleTypeOK
  <2>4. QED
    BY <1>1, <1>3, <2>2, <2>3 DEF SessionOK, Entered
<1>8. \A b \in Calls :
        Made(b)' /\ calls'[b].at \in {"closing", "stopping"} /\ calls'[b].held # NoCall =>
          sessions'[calls'[b].held] \in Settled
  <2>1. TAKE b \in Calls
  <2>2. HAVE Made(b)' /\ calls'[b].at \in {"closing", "stopping"} /\ calls'[b].held # NoCall
  <2>3. CASE b = c
    BY <1>1, <1>3, <2>2, <2>3 DEF Entered
  <2>4. CASE b # c
    <3>1. calls'[b] = calls[b] /\ calls[b].held \in Calls
      BY <1>1, <2>2, <2>4, MadeIsCall DEF Entered, Typed, LifecycleTypeOK, Made, Call
    <3>2. QED
      BY <1>3, <2>2, <3>1 DEF SessionOK, Made
  <2>5. QED
    BY <2>3, <2>4
<1>9. QED
  BY <1>5, <1>6, <1>7, <1>8 DEF SessionOK

\* A step that moves one call, not to an await of a session, and lets the
\* driver's sessions be.
LEMMA SessionMoves ==
  ASSUME Typed, SessionOK, NEW c \in Calls, NEW at \in Awaits, NEW held, Moved(c, at, held),
         at \in {"bootstrap", "committed"} => calls[c].at = "bootstrap",
         at \in {"bootstrap", "committed", "ending", "done"},
         UNCHANGED sessions,
         session' = session \/ session' = [session EXCEPT ![calls[c].runtime] = NoCall]
  PROVE  SessionOK'
<1>1. \A x \in Runtimes : session[x] \in Calls \union {NoCall}
  BY DEF Typed, LifecycleTypeOK
<1>2. \A b \in Calls : Made(b)' <=> Made(b)
  BY LifecycleAssumption DEF Moved, Made
<1>3. \A b \in Calls : sessions'[b] # "none" => Opened(b)'
  BY <1>2 DEF SessionOK, Opened, Moved
<1>4. \A b \in Calls : IsAt(b, {"start"}, "ready")' => sessions'[b] # "none"
  BY <1>2 DEF SessionOK, Moved, IsAt
<1>5. \A x \in Runtimes : session'[x] # NoCall => session'[x] = session[x]
  BY DEF Typed, LifecycleTypeOK
<1>6. \A x \in Runtimes : session'[x] # NoCall =>
        sessions'[session'[x]] # "none" /\ calls'[session'[x]].runtime = x
  BY <1>1, <1>5 DEF SessionOK, Moved
<1>7. \A b \in Calls :
        Made(b)' /\ calls'[b].at \in {"closing", "stopping"} /\ calls'[b].held # NoCall =>
          sessions'[calls'[b].held] \in Settled
  BY <1>2 DEF SessionOK, Moved
<1>8. QED
  BY <1>3, <1>4, <1>6, <1>7 DEF SessionOK

\* The steps at the awaits of a session.
LEMMA SessionOpenSession ==
  ASSUME Typed, SessionOK, NEW c \in Calls, OpenSession(c) PROVE SessionOK'
<1>1. Made(c) /\ calls[c].kind = "start" /\ calls[c].at = "committed" /\ "ready" \in Awaits
      /\ Goes(c, "ready")
  BY DEF OpenSession, IsAt, Awaits
<1>2. Moved(c, "ready", calls[c].held)
  BY <1>1, GoesEffect DEF Typed, LifecycleTypeOK
<1>3. calls[c].runtime \in Runtimes
  BY <1>2 DEF Moved, Call
<1>4. session' = [session EXCEPT ![calls[c].runtime] = c] /\ sessions' = [sessions EXCEPT ![c] = "connecting"]
  BY DEF OpenSession
<1>5. /\ \A x \in Runtimes : session[x] \in Calls \union {NoCall}
      /\ sessions[c] = "none"
      /\ \A b \in Calls : Made(b)' <=> Made(b)
  BY <1>1, <1>2, LifecycleAssumption DEF Typed, LifecycleTypeOK, SessionOK, Opened, Moved, Made
<1>6. \A s \in Calls : sessions'[s] = IF s = c THEN "connecting" ELSE sessions[s]
  BY <1>4 DEF Typed, LifecycleTypeOK
<1>7. \A b \in Calls : sessions'[b] # "none" => Opened(b)'
  BY <1>1, <1>2, <1>5, <1>6 DEF SessionOK, Opened, Moved
<1>8. \A b \in Calls : IsAt(b, {"start"}, "ready")' => sessions'[b] # "none"
  BY <1>2, <1>5, <1>6 DEF SessionOK, Moved, IsAt
<1>9. \A x \in Runtimes : session'[x] # NoCall =>
        sessions'[session'[x]] # "none" /\ calls'[session'[x]].runtime = x
  <2>1. TAKE x \in Runtimes
  <2>2. CASE x = calls[c].runtime
    BY <1>2, <1>4, <1>6, <2>2 DEF Moved, Typed, LifecycleTypeOK
  <2>3. CASE x # calls[c].runtime
    <3>1. session'[x] = session[x]
      BY <1>4, <2>3 DEF Typed, LifecycleTypeOK
    <3>2. QED
      BY <1>2, <1>5, <1>6, <3>1 DEF SessionOK, Moved
  <2>4. QED
    BY <2>2, <2>3
<1>10. \A b \in Calls :
        Made(b)' /\ calls'[b].at \in {"closing", "stopping"} /\ calls'[b].held # NoCall =>
          sessions'[calls'[b].held] \in Settled
  <2>1. TAKE b \in Calls
  <2>2. HAVE Made(b)' /\ calls'[b].at \in {"closing", "stopping"} /\ calls'[b].held # NoCall
  <2>3. b # c /\ calls'[b] = calls[b] /\ Made(b)
    BY <1>2, <1>5, <2>2 DEF Moved
  <2>4. sessions[calls[b].held] \in Settled /\ calls[b].held \in Calls
    BY <2>2, <2>3, MadeIsCall DEF SessionOK, Typed, LifecycleTypeOK, Call
  <2>5. QED
    BY <1>5, <1>6, <2>3, <2>4 DEF Settled
<1>11. QED
  BY <1>7, <1>8, <1>9, <1>10 DEF SessionOK

\* session.ready resolves: the session streams, and nobody awaits its end.
LEMMA SessionReady ==
  ASSUME Typed, SessionOK, NEW c \in Calls, Ready(c) PROVE SessionOK'
<1>1. Made(c) /\ calls[c].kind = "start" /\ sessions[c] = "connecting" /\ "done" \in Awaits
      /\ Goes(c, "done") /\ UNCHANGED session
  BY DEF Ready, IsAt, Awaits, fields
<1>2. Moved(c, "done", calls[c].held)
  BY <1>1, GoesEffect DEF Typed, LifecycleTypeOK
<1>3. \A s \in Calls : sessions'[s] = IF s = c THEN "streaming" ELSE sessions[s]
  BY DEF Ready, Typed, LifecycleTypeOK
<1>4. /\ \A x \in Runtimes : session[x] \in Calls \union {NoCall}
      /\ \A b \in Calls : Made(b)' <=> Made(b)
  BY <1>2, LifecycleAssumption DEF Typed, LifecycleTypeOK, Moved, Made
<1>5. \A b \in Calls : sessions'[b] # "none" => Opened(b)'
  BY <1>1, <1>2, <1>3, <1>4 DEF SessionOK, Opened, Moved
<1>6. \A b \in Calls : IsAt(b, {"start"}, "ready")' => sessions'[b] # "none"
  BY <1>2, <1>3, <1>4 DEF SessionOK, Moved, IsAt
<1>7. \A x \in Runtimes : session'[x] # NoCall =>
        sessions'[session'[x]] # "none" /\ calls'[session'[x]].runtime = x
  BY <1>1, <1>2, <1>3, <1>4 DEF SessionOK, Moved
<1>8. \A b \in Calls :
        Made(b)' /\ calls'[b].at \in {"closing", "stopping"} /\ calls'[b].held # NoCall =>
          sessions'[calls'[b].held] \in Settled
  <2>1. TAKE b \in Calls
  <2>2. HAVE Made(b)' /\ calls'[b].at \in {"closing", "stopping"} /\ calls'[b].held # NoCall
  <2>3. calls'[b] = calls[b] /\ Made(b)
    BY <1>2, <1>4, <2>2 DEF Moved
  <2>4. sessions[calls[b].held] \in Settled /\ calls[b].held \in Calls
    BY <2>2, <2>3, MadeIsCall DEF SessionOK, Typed, LifecycleTypeOK, Call
  <2>5. QED
    BY <1>1, <1>3, <2>3, <2>4 DEF Settled
<1>9. QED
  BY <1>5, <1>6, <1>7, <1>8 DEF SessionOK

\* session.ready rejects: start awaits the end of a session told to stop.
LEMMA SessionReadyRejects ==
  ASSUME Typed, SessionOK, NEW c \in Calls, ReadyRejects(c) PROVE SessionOK'
<1>1. Made(c) /\ calls[c].kind = "start" /\ calls[c].at = "ready" /\ "closing" \in Awaits
      /\ c \in Calls \union {NoCall}
  BY DEF ReadyRejects, IsAt, Awaits
<1>2. Moved(c, "closing", c)
  BY <1>1, MoveEffect DEF ReadyRejects, Typed, LifecycleTypeOK
<1>3. /\ \A s \in Calls : sessions[s] \in {"none", "connecting", "streaming", "failed", "draining", "stopped"}
      /\ sessions[c] # "none"
      /\ \A x \in Runtimes : session[x] \in Calls \union {NoCall}
      /\ \A b \in Calls : Made(b)' <=> Made(b)
  BY <1>1, <1>2, LifecycleAssumption DEF SessionOK, IsAt, Typed, LifecycleTypeOK, Moved, Made
<1>4. /\ \A s \in Calls : sessions'[s] = "none" <=> sessions[s] = "none"
      /\ \A s \in Calls : sessions[s] \in Settled => sessions'[s] \in Settled
      /\ sessions'[c] \in Settled
  BY <1>3 DEF ReadyRejects, Live, Settled, Typed, LifecycleTypeOK
<1>5. \A x \in Runtimes : session'[x] # NoCall => session'[x] = session[x]
  BY DEF ReadyRejects, Typed, LifecycleTypeOK
<1>6. \A b \in Calls : sessions'[b] # "none" => Opened(b)'
  BY <1>1, <1>2, <1>3, <1>4 DEF SessionOK, Opened, Moved
<1>7. \A b \in Calls : IsAt(b, {"start"}, "ready")' => sessions'[b] # "none"
  BY <1>2, <1>3, <1>4 DEF SessionOK, Moved, IsAt
<1>8. \A x \in Runtimes : session'[x] # NoCall =>
        sessions'[session'[x]] # "none" /\ calls'[session'[x]].runtime = x
  BY <1>2, <1>3, <1>4, <1>5 DEF SessionOK, Moved
<1>9. \A b \in Calls :
        Made(b)' /\ calls'[b].at \in {"closing", "stopping"} /\ calls'[b].held # NoCall =>
          sessions'[calls'[b].held] \in Settled
  <2>1. TAKE b \in Calls
  <2>2. HAVE Made(b)' /\ calls'[b].at \in {"closing", "stopping"} /\ calls'[b].held # NoCall
  <2>3. CASE b = c
    BY <1>2, <1>4, <2>3 DEF Moved
  <2>4. CASE b # c
    <3>1. calls'[b] = calls[b] /\ Made(b) /\ calls[b].held \in Calls
      BY <1>2, <1>3, <2>2, <2>4, MadeIsCall DEF Moved, Typed, LifecycleTypeOK, Call
    <3>2. QED
      BY <1>4, <2>2, <3>1 DEF SessionOK
  <2>5. QED
    BY <2>3, <2>4
<1>10. QED
  BY <1>6, <1>7, <1>8, <1>9 DEF SessionOK

\* The driver's session settles, or a collection is made.
LEMMA SessionSettles ==
  ASSUME Typed, SessionOK, Settles PROVE SessionOK' /\ Typed'
<1>1. CASE \E c \in Calls : Drained(c)
  <2>1. PICK c \in Calls : Drained(c)
    BY <1>1
  <2>2. UNCHANGED <<calls, session>>
        /\ \A s \in Calls : sessions'[s] = IF s = c THEN "stopped" ELSE sessions[s]
    BY <2>1 DEF Drained, fields, Typed, LifecycleTypeOK
  <2>3. \A x \in Runtimes : session[x] \in Calls \union {NoCall}
    BY DEF Typed, LifecycleTypeOK
  <2>4. \A b \in Calls : Made(b) => calls[b].held \in Calls \union {NoCall}
    BY MadeIsCall DEF Typed, LifecycleTypeOK, Call
  <2>5. SessionOK'
    BY <2>1, <2>2, <2>3, <2>4 DEF Drained, SessionOK, Opened, IsAt, Made, Settled
  <2>6. Typed'
    BY <2>1, TypedRest DEF Drained, bootVars, Typed, LifecycleTypeOK, BootTypeOK
  <2>7. QED
    BY <2>5, <2>6
<1>2. CASE \E r \in Runtimes : CreateCollection(r)
  <2>1. SessionOK'
    BY <1>2 DEF CreateCollection, fields, outside, SessionOK, Opened, IsAt, Made
  <2>2. Typed'
    BY <1>2, TypedRest DEF CreateCollection, bootVars, outside, Typed, LifecycleTypeOK, BootTypeOK
  <2>3. QED
    BY <2>1, <2>2
<1>3. QED
  BY <1>1, <1>2 DEF Settles

\* handleFatal is Halts too, with the session that was given up.
LEMMA HaltsOfFatal ==
  ASSUME Typed, SessionOK, NEW s \in Calls, NEW c \in Calls, Fatal(s, c)
  PROVE  /\ ~Made(c) /\ calls[s].runtime \in Runtimes /\ Live(s)
         /\ Halts(c, "fatal", calls[s].runtime, [sessions EXCEPT ![s] = "failed"])
         /\ UNCHANGED <<overlapped, raced>>
<1>1. Made(s)
  BY DEF Fatal, Live, SessionOK, Opened
<1>2. calls[s].runtime \in Runtimes
  BY <1>1, MadeIsCall DEF Typed, LifecycleTypeOK, Call
<1>3. QED
  BY <1>2 DEF Fatal, Halts, conduct

\* Both invariants hold after every step.
LEMMA SessionStep ==
  ASSUME Typed, SessionOK, [LifecycleNext]_vars PROVE Typed' /\ SessionOK'
<1> DEFINE States == {"none", "connecting", "streaming", "failed", "draining", "stopped"}
<1>1. CASE \E c \in Calls, r \in Runtimes : Opens(c, r, "start") \/ Opens(c, r, "provision")
  BY <1>1, TypedOpens, SessionOpens
<1>2. CASE \E c \in Calls, r \in Runtimes : Stop(c, r)
  <2>1. PICK c \in Calls, r \in Runtimes : Stop(c, r)
    BY <1>2
  <2>2. sessions \in [Calls -> States] /\ raced' \subseteq Calls
    BY <2>1, HaltsOfStop DEF Typed, LifecycleTypeOK
  <2>3. QED
    BY <2>1, <2>2, HaltsOfStop, TypedHalts, SessionHalts
<1>3. CASE \E s, c \in Calls : Fatal(s, c)
  <2>1. PICK s \in Calls, c \in Calls : Fatal(s, c)
    BY <1>3
  <2>2. DEFINE base == [sessions EXCEPT ![s] = "failed"]
  <2>3. ~Made(c) /\ calls[s].runtime \in Runtimes /\ Live(s)
        /\ Halts(c, "fatal", calls[s].runtime, base) /\ overlapped' \in [Runtimes -> BOOLEAN]
        /\ raced' \subseteq Calls
    BY <2>1, HaltsOfFatal DEF Typed, LifecycleTypeOK
  <2>4. base \in [Calls -> States] /\ \A b \in Calls : base[b] # sessions[b] => Live(b) /\ base[b] = "failed"
    BY <2>3 DEF Typed, LifecycleTypeOK
  <2> HIDE DEF base
  <2>5. QED
    BY <2>3, <2>4, TypedHalts, SessionHalts
<1>4. CASE \E c \in Calls : BootLock(c) \/ BootReplication(c) \/ BootEvents(c) \/ BootCommit(c)
  <2>1. PICK c \in Calls : BootLock(c) \/ BootReplication(c) \/ BootEvents(c) \/ BootCommit(c)
    BY <1>4
  <2>2. Typed'
    BY <2>1, TypedLock, TypedReplication, TypedEvents, TypedCommit
  <2>3. CASE BootCommit(c)
    <3>1. Made(c) /\ calls[c].at = "bootstrap" /\ Goes(c, "committed") /\ "committed" \in Awaits
          /\ UNCHANGED <<session, sessions>>
      BY <2>3 DEF BootCommit, Bootstrapping, IsAt, Awaits, outside
    <3>2. Moved(c, "committed", calls[c].held)
      BY <3>1, GoesEffect DEF Typed, LifecycleTypeOK
    <3>3. QED
      BY <2>2, <3>1, <3>2, SessionMoves
  <2>4. CASE ~BootCommit(c)
    <3>1. UNCHANGED <<calls, session, sessions>>
      BY <2>1, <2>4 DEF BootLock, BootReplication, BootEvents, Unmoved, fields, outside
    <3>2. QED
      BY <2>2, <3>1 DEF SessionOK, Opened, IsAt, Made
  <2>5. QED
    BY <2>3, <2>4
<1>5. CASE \E c \in Calls : Ends(c)
  <2>1. PICK c \in Calls : Ends(c)
    BY <1>5
  <2>2. "ending" \in Awaits
    BY DEF Awaits
  <2>3. QED
    BY <2>1, <2>2, EndsEffect, TypedEnds, SessionMoves
<1>6. CASE \E c \in Calls : OpenSession(c) \/ Ready(c) \/ ReadyRejects(c) \/ StoreEnded(c)
  <2>1. PICK c \in Calls : OpenSession(c) \/ Ready(c) \/ ReadyRejects(c) \/ StoreEnded(c)
    BY <1>6
  <2>2. CASE StoreEnded(c)
    <3>1. Made(c) /\ Goes(c, "done") /\ "done" \in Awaits /\ UNCHANGED <<session, sessions>>
      BY <2>2 DEF StoreEnded, InFlight, Awaits, fields
    <3>2. Moved(c, "done", calls[c].held)
      BY <3>1, GoesEffect DEF Typed, LifecycleTypeOK
    <3>3. QED
      BY <2>2, <3>1, <3>2, TypedStoreEnded, SessionMoves
  <2>3. QED
    BY <2>1, <2>2, TypedOpenSession, TypedReady, TypedReadyRejects,
       SessionOpenSession, SessionReady, SessionReadyRejects
<1>7. CASE Settles
  BY <1>7, SessionSettles
<1>8. CASE ChangeByHand
  BY <1>8, TypedByHand DEF ChangeByHand, Unmoved, fields, outside, SessionOK, Opened, IsAt, Made
<1>9. CASE UNCHANGED vars
  BY <1>9 DEF vars, bootVars, fields, outside, conduct, Typed, LifecycleTypeOK, BootTypeOK, TxOK, HolderBoots,
     Bootstrapping, SessionOK, Opened, IsAt, Made
<1>10. QED
  BY <1>1, <1>2, <1>3, <1>4, <1>5, <1>6, <1>7, <1>8, <1>9, Groups

\* Types and sessions are invariants.
THEOREM LifecycleInvariant == LifecycleSpec => [](Typed /\ SessionOK)
<1>1. LifecycleInit => Typed /\ SessionOK
  BY TypedInit, SessionInit
<1>2. Typed /\ SessionOK /\ [LifecycleNext]_vars => (Typed /\ SessionOK)'
  BY SessionStep
<1>3. QED
  BY <1>1, <1>2, PTL DEF LifecycleSpec

\* start, provision, stop and handleFatal keep the fields of PulseRuntime and
\* the catalogue of its database well formed, in whatever order they come.
THEOREM LifecycleTypes == LifecycleSpec => []LifecycleTypeOK
<1>1. Typed => LifecycleTypeOK
  BY DEF Typed
<1>2. QED
  BY <1>1, LifecycleInvariant, PTL

\* No call waits in vain: the advisory lock is held by a call inside bootstrap,
\* and a session that stop or a failed start awaits has been told to stop or
\* has failed, for any number of overlapping calls, runtimes and fatal errors.
THEOREM LifecycleWaitsEnd == LifecycleSpec => []WaitsEnd
<1>1. Typed /\ SessionOK => WaitsEnd
  <2> SUFFICES ASSUME Typed, SessionOK PROVE WaitsEnd
    OBVIOUS
  <2>1. tx.by # NoCall => Bootstrapping(tx.by)
    BY DEF Typed, HolderBoots
  <2>2. ASSUME NEW c \in Calls, InFlight(c), calls[c].at \in {"closing", "stopping"}
        PROVE  calls[c].held = NoCall \/ ~Live(calls[c].held)
    BY <2>2 DEF InFlight, SessionOK, Settled, Live
  <2>3. QED
    BY <2>1, <2>2 DEF WaitsEnd
<1>2. QED
  BY <1>1, LifecycleInvariant, PTL

(***************************************************************************)
(* The catalogue.                                                          *)
(***************************************************************************)
\* EpochNamesIncarnation and PublishedIsFull of a catalogue d.
EpochsName(d) ==
  \A t \in Tables : d.meta[t] # None /\ d.events[t] # None /\ d.events[t].born # 0 =>
    d.meta[t].epoch = d.events[t].born /\ d.meta[t].hash = d.events[t].shape

FullBut(d, excepted) == \A t \in d.members \ excepted : d.identity[t] = "full"

\* What the transaction that holds the lock has reached.
InTx ==
  LET r == calls[tx.by].runtime IN
  /\ tx.stage = "replication" => tx.db = db
  /\ tx.stage \in {"events", "commit"} =>
       /\ tx.db.members \subseteq Registered[r]
       /\ FullBut(tx.db, {})
  /\ EpochsName(tx.db)

CatalogueOK ==
  /\ EpochsName(db) /\ FullBut(db, drifted)
  /\ tx.by # NoCall => InTx

\* Nothing is listed at first, and no epoch has been issued.
LEMMA CatalogueInit == LifecycleInit => CatalogueOK
<1> SUFFICES ASSUME LifecycleInit PROVE CatalogueOK
  OBVIOUS
<1>1. PICK publication \in {"none", "all"} : db = Untouched(publication)
  BY DEF LifecycleInit, BootInit
<1>2. QED
  BY <1>1 DEF LifecycleInit, BootInit, Untouched, NoTx, CatalogueOK, EpochsName, FullBut

\* The replication part lists registered tables only, and identifies them in full.
LEMMA ReplicationListsFull ==
  ASSUME Typed, CatalogueOK, NEW c \in Calls, BootReplication(c)
  PROVE  CatalogueOK'
<1> DEFINE r == calls[c].runtime
<1> DEFINE d == [tx.db EXCEPT !.identity = Identified(tx.db, r),
                              !.publication = IF @ = "all" THEN "all" ELSE "list",
                              !.members = Members(tx.db, r)]
<1>1. tx.by = c /\ tx.stage = "replication" /\ UNCHANGED <<db, drifted, calls>>
  BY DEF BootReplication, ProvisionReplication, Unmoved
<1>2. c # NoCall /\ tx.db \in Database
  BY <1>1, BootstrapAssumption DEF Typed, TxOK
<1>3. r \in Runtimes
  BY MadeIsCall DEF Typed, LifecycleTypeOK, BootReplication, Bootstrapping, IsAt, Call
<1>4. tx' = [by |-> c, stage |-> "events", db |-> d]
  BY <1>1, <1>2 DEF BootReplication, ProvisionReplication, Typed, TxOK
<1>5. /\ d.members = Members(tx.db, r) /\ d.identity = Identified(tx.db, r)
      /\ d.meta = tx.db.meta /\ d.events = tx.db.events
  BY <1>2 DEF Database
<1>6. d.members \subseteq Registered[r] /\ Registered[r] \subseteq Tables
  BY <1>3, <1>5, BootstrapAssumption DEF Members
<1>7. FullBut(d, {})
  BY <1>5, <1>6 DEF FullBut, Identified
<1>8. EpochsName(d)
  BY <1>1, <1>2, <1>5 DEF CatalogueOK, InTx, EpochsName
<1> HIDE DEF d
<1>9. InTx'
  BY <1>1, <1>4, <1>6, <1>7, <1>8 DEF InTx, EpochsName, FullBut
<1>10. QED
  BY <1>1, <1>9 DEF CatalogueOK, EpochsName, FullBut

\* The events part records the epoch that each table it creates was born with.
LEMMA EventsNameEpochs ==
  ASSUME Typed, CatalogueOK, NEW c \in Calls, BootEvents(c)
  PROVE  CatalogueOK'
<1> DEFINE r == calls[c].runtime
<1>1. tx.by = c /\ tx.stage = "events" /\ UNCHANGED <<db, drifted, calls>>
  BY DEF BootEvents, ProvisionEvents, Unmoved
<1>2. c # NoCall /\ tx.db \in Database
  BY <1>1, BootstrapAssumption DEF Typed, TxOK
<1>3. InTx
  BY <1>1, <1>2 DEF CatalogueOK
<1>4. CASE PullEnabled
  <2> DEFINE d == [tx.db EXCEPT !.events = Events(tx.db, r, issued + 1),
                                !.meta = Meta(tx.db, r, issued + 1)]
  <2>1. tx' = [by |-> c, stage |-> "commit", db |-> d]
    BY <1>1, <1>2, <1>4 DEF BootEvents, ProvisionEvents, Typed, TxOK
  <2>2. /\ d.members = tx.db.members /\ d.identity = tx.db.identity
        /\ d.meta = Meta(tx.db, r, issued + 1) /\ d.events = Events(tx.db, r, issued + 1)
    BY <1>2 DEF Database
  <2>3. EpochsName(d)
    <3>1. SUFFICES ASSUME NEW t \in Tables, d.meta[t] # None, d.events[t] # None, d.events[t].born # 0
                   PROVE  d.meta[t].epoch = d.events[t].born /\ d.meta[t].hash = d.events[t].shape
      BY DEF EpochsName
    <3>2. t \in Registered[r]
      BY <2>2, <3>1 DEF Meta
    <3>3. CASE Reused(tx.db, r, t)
      <4>1. d.meta[t] = tx.db.meta[t] /\ d.events[t] = tx.db.events[t]
        BY <2>2, <3>2, <3>3 DEF Meta, Events
      <4>2. QED
        BY <1>3, <3>1, <3>3, <4>1 DEF InTx, EpochsName, Reused
    <3>4. CASE ~Reused(tx.db, r, t)
      <4>1. /\ d.meta[t] = [hash |-> Shape[r][t], epoch |-> issued + 1]
            /\ d.events[t] = [shape |-> Shape[r][t], born |-> issued + 1]
        BY <2>2, <3>2, <3>4 DEF Meta, Events
      <4>2. QED
        BY <4>1
    <3>5. QED
      BY <3>3, <3>4
  <2>4. FullBut(d, {}) /\ d.members \subseteq Registered[r]
    BY <1>1, <1>3, <2>2 DEF InTx, FullBut
  <2> HIDE DEF d
  <2>5. InTx'
    BY <1>1, <2>1, <2>3, <2>4 DEF InTx, EpochsName, FullBut
  <2>6. QED
    BY <1>1, <2>5 DEF CatalogueOK, EpochsName, FullBut
<1>5. CASE ~PullEnabled
  <2>1. tx' = [by |-> c, stage |-> "commit", db |-> tx.db]
    BY <1>1, <1>2, <1>5 DEF BootEvents, ProvisionEvents, Typed, TxOK
  <2>2. InTx'
    BY <1>1, <1>3, <2>1 DEF InTx, EpochsName, FullBut
  <2>3. QED
    BY <1>1, <2>2 DEF CatalogueOK, EpochsName, FullBut
<1>6. QED
  BY <1>4, <1>5

\* A commit publishes the working copy, in which every listed table is full;
\* only the registered tables stop counting as changed by hand.
LEMMA CommitPublishes ==
  ASSUME Typed, CatalogueOK, NEW c \in Calls, BootCommit(c)
  PROVE  CatalogueOK'
<1> DEFINE r == calls[c].runtime
<1>1. tx.by = c /\ tx.stage = "commit" /\ tx' = NoTx /\ db' = tx.db /\ drifted' = drifted \ Registered[r]
  BY DEF BootCommit, CommitBoot
<1>2. InTx /\ c # NoCall
  BY <1>1, BootstrapAssumption DEF CatalogueOK
<1>3. EpochsName(db)' /\ FullBut(db, drifted)'
  BY <1>1, <1>2 DEF InTx, EpochsName, FullBut
<1>4. QED
  BY <1>1, <1>3 DEF CatalogueOK, NoTx

\* Hands reset an identity, which then counts as changed, or drop a table, or
\* create one, which no boot has created.
LEMMA ByHandKeepsCatalogue ==
  ASSUME Typed, CatalogueOK, ChangeByHand
  PROVE  CatalogueOK'
<1>1. PICK t \in Tables : DropEventsTable(t) \/ ResetIdentity(t) \/ CreateByHand(t)
  BY DEF ChangeByHand
<1>2. tx.by = NoCall /\ tx' = tx
  BY <1>1 DEF DropEventsTable, ResetIdentity, CreateByHand, ByHand
<1>3. db \in Database
  BY DEF Typed, LifecycleTypeOK, BootTypeOK
<1>4. CASE DropEventsTable(t)
  <2>1. db' = [db EXCEPT !.events[t] = None] /\ UNCHANGED drifted
    BY <1>4 DEF DropEventsTable
  <2>2. db'.members = db.members /\ db'.identity = db.identity /\ db'.meta = db.meta
        /\ \A x \in Tables : db'.events[x] = IF x = t THEN None ELSE db.events[x]
    BY <1>3, <2>1 DEF Database
  <2>3. QED
    BY <1>2, <2>1, <2>2 DEF CatalogueOK, EpochsName, FullBut
<1>5. CASE ResetIdentity(t)
  <2>1. db' = [db EXCEPT !.identity[t] = "other"] /\ drifted' = drifted \union {t}
    BY <1>5 DEF ResetIdentity
  <2>2. db'.members = db.members /\ db'.events = db.events /\ db'.meta = db.meta
        /\ \A x \in Tables : x # t => db'.identity[x] = db.identity[x]
    BY <1>3, <2>1 DEF Database
  <2>3. db.members \subseteq Tables
    BY <1>3 DEF Database
  <2>4. QED
    BY <1>2, <2>1, <2>2, <2>3 DEF CatalogueOK, EpochsName, FullBut
<1>6. CASE CreateByHand(t)
  <2>1. PICK shape \in Shapes : db' = [db EXCEPT !.events[t] = [shape |-> shape, born |-> 0]]
    BY <1>6 DEF CreateByHand
  <2>2. UNCHANGED drifted
    BY <1>6 DEF CreateByHand
  <2>3. db'.members = db.members /\ db'.identity = db.identity /\ db'.meta = db.meta
        /\ db'.events[t].born = 0 /\ \A x \in Tables : x # t => db'.events[x] = db.events[x]
    BY <1>3, <2>1 DEF Database
  <2>4. QED
    BY <1>2, <2>2, <2>3 DEF CatalogueOK, EpochsName, FullBut
<1>7. QED
  BY <1>1, <1>4, <1>5, <1>6

\* A step that leaves database and transaction alone, but for a call that may
\* be made or moved, keeps what the holder of the lock has reached.
LEMMA CatalogueKept ==
  ASSUME Typed, CatalogueOK, NEW c \in Calls, tx.by # c, UNCHANGED bootVars,
         \A b \in Calls \ {c} : calls'[b] = calls[b]
  PROVE  CatalogueOK'
<1>1. tx.by # NoCall => calls'[tx.by] = calls[tx.by]
  BY DEF Typed, TxOK
<1>2. QED
  BY <1>1 DEF bootVars, CatalogueOK, InTx, EpochsName, FullBut

\* Every step keeps the catalogue in order.
LEMMA CatalogueStep ==
  ASSUME Typed, SessionOK, CatalogueOK, [LifecycleNext]_vars PROVE CatalogueOK'
<1>1. CASE \E c \in Calls, r \in Runtimes : Opens(c, r, "start") \/ Opens(c, r, "provision")
  BY <1>1, OpensEffect, CatalogueKept DEF Opens, Entered
<1>2. CASE \E c \in Calls, r \in Runtimes : Stop(c, r)
  BY <1>2, HaltsOfStop, HaltsEffect, CatalogueKept DEF Halts, Entered
<1>3. CASE \E s, c \in Calls : Fatal(s, c)
  <2>1. PICK s \in Calls, c \in Calls : Fatal(s, c)
    BY <1>3
  <2>2. ~Made(c) /\ calls[s].runtime \in Runtimes
        /\ Halts(c, "fatal", calls[s].runtime, [sessions EXCEPT ![s] = "failed"])
    BY <2>1, HaltsOfFatal
  <2>3. QED
    BY <2>2, HaltsEffect, CatalogueKept DEF Halts, Entered
<1>4. CASE \E c \in Calls : BootLock(c) \/ BootReplication(c) \/ BootEvents(c) \/ BootCommit(c)
  <2>1. PICK c \in Calls : BootLock(c) \/ BootReplication(c) \/ BootEvents(c) \/ BootCommit(c)
    BY <1>4
  <2>2. CASE BootLock(c)
    <3>1. tx' = [by |-> c, stage |-> "replication", db |-> db] /\ UNCHANGED <<db, drifted, calls>>
      BY <2>2 DEF BootLock, Lock, Unmoved
    <3>2. QED
      BY <3>1 DEF CatalogueOK, InTx, EpochsName, FullBut
  <2>3. QED
    BY <2>1, <2>2, ReplicationListsFull, EventsNameEpochs, CommitPublishes
<1>5. CASE \E c \in Calls : Ends(c)
  <2>1. PICK c \in Calls : Ends(c)
    BY <1>5
  <2>2. CASE BootFails(c) /\ tx.by = c
    <3>1. tx' = NoTx /\ UNCHANGED <<db, drifted>>
      BY <2>2 DEF BootFails, RollBack
    <3>2. QED
      BY <3>1 DEF CatalogueOK, EpochsName, FullBut, NoTx
  <2>3. CASE ~(BootFails(c) /\ tx.by = c)
    <3>1. UNCHANGED bootVars
      BY <2>1, <2>3 DEF Ends, BootFails, Provisioned, Closed, SessionStopped
    <3>2. tx.by # c
      BY <2>1, <2>3, OutsideBootstrap DEF Ends, Provisioned, Closed, SessionStopped, IsAt
    <3>3. QED
      BY <2>1, <3>1, <3>2, EndsEffect, CatalogueKept DEF Moved
  <2>4. QED
    BY <2>2, <2>3
<1>6. CASE \E c \in Calls : OpenSession(c) \/ Ready(c) \/ ReadyRejects(c) \/ StoreEnded(c)
  <2>1. PICK c \in Calls : OpenSession(c) \/ Ready(c) \/ ReadyRejects(c) \/ StoreEnded(c)
    BY <1>6
  <2>2. UNCHANGED bootVars /\ calls[c].at # "bootstrap"
    BY <2>1 DEF OpenSession, Ready, ReadyRejects, StoreEnded, IsAt
  <2>3. \A b \in Calls \ {c} : calls'[b] = calls[b]
    BY <2>1 DEF OpenSession, Ready, ReadyRejects, StoreEnded, Goes, Typed, LifecycleTypeOK
  <2>4. QED
    BY <2>2, <2>3, OutsideBootstrap, CatalogueKept
<1>7. CASE Settles
  BY <1>7 DEF Settles, Drained, CreateCollection, bootVars, CatalogueOK, InTx, EpochsName, FullBut
<1>8. CASE ChangeByHand
  BY <1>8, ByHandKeepsCatalogue
<1>9. CASE UNCHANGED vars
  BY <1>9 DEF vars, bootVars, CatalogueOK, InTx, EpochsName, FullBut
<1>10. QED
  BY <1>1, <1>2, <1>3, <1>4, <1>5, <1>6, <1>7, <1>8, <1>9, Groups

\* The catalogue is in order whenever nobody's transaction is looked into.
THEOREM CatalogueInvariant == LifecycleSpec => []CatalogueOK
<1>1. LifecycleInit => CatalogueOK
  BY CatalogueInit
<1>2. (Typed /\ SessionOK) /\ CatalogueOK /\ [LifecycleNext]_vars => CatalogueOK'
  BY CatalogueStep
<1>3. QED
  BY <1>1, <1>2, LifecycleInvariant, PTL DEF LifecycleSpec

\* Any number of runtimes, with any registries, provision the database in any
\* order, fail at any statement and overlap: a listed table that nobody reset
\* by hand has replica identity FULL.
THEOREM ListedTablesAreFull == LifecycleSpec => []PublishedIsFull
<1>1. CatalogueOK => PublishedIsFull
  BY DEF CatalogueOK, FullBut, PublishedIsFull
<1>2. QED
  BY <1>1, CatalogueInvariant, PTL

\* Under the same conditions, and wherever bootstrap created the events table that
\* exists, the epoch in pulse_meta is the one issued as it was created, and the
\* hash is its shape's: tables dropped by hand, recreated by other versions or
\* left behind by failed boots never keep an older epoch.
THEOREM EpochsNameIncarnations == LifecycleSpec => []EpochNamesIncarnation
<1>1. CatalogueOK => EpochNamesIncarnation
  BY DEF CatalogueOK, EpochsName, EpochNamesIncarnation
<1>2. QED
  BY <1>1, CatalogueInvariant, PTL

(***************************************************************************)
(* Stores.                                                                 *)
(***************************************************************************)
\* A call of r that will clear the store, whatever becomes of it.
Clears(c, r) ==
  /\ Made(c) /\ calls[c].runtime = r
  /\ calls[c].at \in {"bootstrap", "committed", "closing", "stopping"}

\* Call b of r awaits the end of store c.
AwaitsEnd(b, r, c) ==
  Made(b) /\ calls[b].runtime = r /\ calls[b].at = "ending" /\ calls[b].held = c

\* Nobody forgets a store: it is the runtime's and a session or a call is there
\* that leads to its end, or its end is awaited.
StoreOK ==
  /\ \A r \in Runtimes : store[r] # NoCall /\ session[r] = NoCall => \E c \in Calls : Clears(c, r)
  /\ \A c \in Calls : stores[c] = "open" =>
       /\ Made(c)
       /\ \/ store[calls[c].runtime] = c
          \/ \E b \in Calls : AwaitsEnd(b, calls[c].runtime, c)

\* No store is there at first.
LEMMA StoreInit == LifecycleInit => StoreOK
BY DEF LifecycleInit, StoreOK

\* start and provision adopt the store that is there, or create their own.
LEMMA StoreOpens ==
  ASSUME Typed, StoreOK, NEW c \in Calls, NEW r \in Runtimes,
         NEW kind \in {"start", "provision"}, Opens(c, r, kind)
  PROVE  StoreOK'
<1>1. Entered(c, kind, r, "bootstrap", store'[r]) /\ UNCHANGED session
  BY OpensEffect DEF Opens
<1>2. ~Made(c) /\ Made(c)' /\ \A b \in Calls : Made(b) => b # c /\ calls'[b] = calls[b]
  BY <1>1, LifecycleAssumption DEF Entered, Made
<1>3. c # NoCall
  BY BootstrapAssumption
<1>4. Clears(c, r)'
  BY <1>1, <1>2 DEF Entered, Clears, Made
<1>5. ASSUME NEW x \in Runtimes, store'[x] # NoCall, session'[x] = NoCall
      PROVE  \E b \in Calls : Clears(b, x)'
  <2>1. CASE x = r
    BY <1>4, <2>1
  <2>2. CASE x # r
    <3>1. store'[x] = store[x]
      BY <2>2 DEF Opens, AdoptStore, Typed, LifecycleTypeOK
    <3>2. PICK b \in Calls : Clears(b, x)
      BY <1>1, <1>5, <3>1 DEF StoreOK
    <3>3. Clears(b, x)'
      BY <1>2, <3>2 DEF Clears, Made
    <3>4. QED
      BY <3>3
  <2>3. QED
    BY <2>1, <2>2
<1>6. ASSUME NEW x \in Calls, stores'[x] = "open"
      PROVE  /\ Made(x)'
             /\ \/ store'[calls'[x].runtime] = x
                \/ \E b \in Calls : AwaitsEnd(b, calls[x].runtime, x)'
  <2>1. CASE store[r] = NoCall /\ x = c
    BY <1>1, <1>2, <2>1 DEF Entered, Opens, AdoptStore, Typed, LifecycleTypeOK
  <2>2. CASE ~(store[r] = NoCall /\ x = c)
    <3>1. stores[x] = "open" /\ Made(x) /\ calls'[x] = calls[x]
      BY <1>2, <1>6, <2>2 DEF Opens, AdoptStore, StoreOK, Typed, LifecycleTypeOK
    <3>2. CASE store[calls[x].runtime] = x
      <4>1. calls[x].runtime \in Runtimes
        BY <3>1, MadeIsCall DEF Typed, LifecycleTypeOK, Call
      <4>2. x # NoCall
        BY BootstrapAssumption
      <4>3. store'[calls[x].runtime] = store[calls[x].runtime]
        BY <3>2, <4>1, <4>2 DEF Opens, AdoptStore, Typed, LifecycleTypeOK
      <4>4. QED
        BY <1>2, <3>1, <3>2, <4>3 DEF Made
    <3>3. CASE \E b \in Calls : AwaitsEnd(b, calls[x].runtime, x)
      BY <1>2, <3>1, <3>3 DEF AwaitsEnd, Made
    <3>4. QED
      BY <3>1, <3>2, <3>3 DEF StoreOK
  <2>3. QED
    BY <2>1, <2>2
<1>7. QED
  BY <1>5, <1>6 DEF StoreOK

\* A step that leaves the stores alone, but for a call that may be made or
\* moved to another await that leads to the store's end, or opens a session.
LEMMA StoreKept ==
  ASSUME Typed, StoreOK, NEW c \in Calls, UNCHANGED <<store, stores>>,
         \A b \in Calls \ {c} : calls'[b] = calls[b],
         Made(c) => calls'[c] \in Call /\ calls'[c].runtime = calls[c].runtime /\ calls[c].at # "ending",
         \A r \in Runtimes : session'[r] = NoCall =>
           \/ session[r] = NoCall /\ (Clears(c, r) => Clears(c, r)')
           \/ Clears(c, r)'
  PROVE  StoreOK'
<1>1. \A b \in Calls : Made(b) => Made(b)' /\ calls'[b].runtime = calls[b].runtime
  BY LifecycleAssumption DEF Made
<1>2. ASSUME NEW r \in Runtimes, store'[r] # NoCall, session'[r] = NoCall
      PROVE  \E b \in Calls : Clears(b, r)'
  <2>1. CASE Clears(c, r)'
    BY <2>1
  <2>2. CASE session[r] = NoCall /\ (Clears(c, r) => Clears(c, r)')
    <3>1. PICK b \in Calls : Clears(b, r)
      BY <1>2, <2>2 DEF StoreOK
    <3>2. Clears(b, r)'
      BY <2>2, <3>1 DEF Clears, Made
    <3>3. QED
      BY <3>2
  <2>3. QED
    BY <1>2, <2>1, <2>2
<1>3. ASSUME NEW x \in Calls, NEW r, NEW b \in Calls, AwaitsEnd(b, r, x) PROVE AwaitsEnd(b, r, x)'
  BY <1>3 DEF AwaitsEnd, Made
<1>4. QED
  BY <1>1, <1>2, <1>3 DEF StoreOK

\* The steps that clear the store take it over: they await its end.
LEMMA StoreEnds ==
  ASSUME Typed, StoreOK, NEW c \in Calls, Ends(c) PROVE StoreOK'
<1> DEFINE r == calls[c].runtime
<1>1. /\ Moved(c, "ending", store[r]) /\ r \in Runtimes
      /\ store' = [store EXCEPT ![r] = NoCall] /\ UNCHANGED stores
      /\ session' = session \/ session' = [session EXCEPT ![r] = NoCall]
      /\ calls[c].at # "ending"
  BY EndsEffect
<1>2. \A b \in Calls : Made(b) => Made(b)' /\ calls'[b].runtime = calls[b].runtime
  BY <1>1, LifecycleAssumption DEF Moved, Made
<1>3. \A x \in Runtimes : store'[x] = IF x = r THEN NoCall ELSE store[x]
  BY <1>1 DEF Typed, LifecycleTypeOK
<1>4. ASSUME NEW x \in Runtimes, store'[x] # NoCall, session'[x] = NoCall
      PROVE  \E b \in Calls : Clears(b, x)'
  <2>1. x # r /\ store[x] # NoCall /\ session[x] = NoCall
    BY <1>1, <1>3, <1>4 DEF Typed, LifecycleTypeOK
  <2>2. PICK b \in Calls : Clears(b, x)
    BY <2>1 DEF StoreOK
  <2>3. b # c
    BY <2>1, <2>2 DEF Clears
  <2>4. QED
    BY <1>1, <2>2, <2>3 DEF Moved, Clears, Made
<1>5. ASSUME NEW x \in Calls, stores'[x] = "open"
      PROVE  /\ Made(x)'
             /\ \/ store'[calls'[x].runtime] = x
                \/ \E b \in Calls : AwaitsEnd(b, calls[x].runtime, x)'
  <2>1. stores[x] = "open" /\ Made(x) /\ Made(x)' /\ calls'[x].runtime = calls[x].runtime
    BY <1>1, <1>2, <1>5 DEF StoreOK
  <2>2. calls[x].runtime \in Runtimes
    BY <2>1, MadeIsCall DEF Typed, LifecycleTypeOK, Call
  <2>3. CASE store[calls[x].runtime] = x /\ calls[x].runtime = r
    <3>1. AwaitsEnd(c, calls[x].runtime, x)'
      BY <1>1, <1>2, <2>1, <2>3, LifecycleAssumption DEF Moved, AwaitsEnd, Made
    <3>2. QED
      BY <2>1, <3>1
  <2>4. CASE store[calls[x].runtime] = x /\ calls[x].runtime # r
    BY <1>3, <2>1, <2>2, <2>4
  <2>5. CASE \E b \in Calls : AwaitsEnd(b, calls[x].runtime, x)
    <3>1. PICK b \in Calls : AwaitsEnd(b, calls[x].runtime, x)
      BY <2>5
    <3>2. AwaitsEnd(b, calls[x].runtime, x)'
      BY <1>1, <1>2, <2>1, <3>1 DEF Moved, AwaitsEnd, Made
    <3>3. QED
      BY <2>1, <3>2
  <2>6. QED
    BY <2>1, <2>3, <2>4, <2>5 DEF StoreOK
<1>6. QED
  BY <1>4, <1>5 DEF StoreOK

\* A store that has ended is open no more; other ends are awaited as before.
LEMMA StoreStoreEnded ==
  ASSUME Typed, StoreOK, NEW c \in Calls, StoreEnded(c) PROVE StoreOK'
<1>1. Made(c) /\ calls[c].at = "ending" /\ Goes(c, "done") /\ "done" \in Awaits /\ UNCHANGED <<session, store>>
  BY DEF StoreEnded, InFlight, Awaits, fields
<1>2. Moved(c, "done", calls[c].held)
  BY <1>1, GoesEffect DEF Typed, LifecycleTypeOK
<1>3. \A b \in Calls : Made(b) => Made(b)' /\ calls'[b].runtime = calls[b].runtime
  BY <1>2, LifecycleAssumption DEF Moved, Made
<1>4. ASSUME NEW x \in Runtimes, store'[x] # NoCall, session'[x] = NoCall
      PROVE  \E b \in Calls : Clears(b, x)'
  <2>1. PICK b \in Calls : Clears(b, x)
    BY <1>1, <1>4 DEF StoreOK
  <2>2. Clears(b, x)'
    BY <1>1, <1>2, <1>3, <2>1 DEF Moved, Clears, Made
  <2>3. QED
    BY <2>2
<1>5. ASSUME NEW x \in Calls, stores'[x] = "open"
      PROVE  /\ Made(x)'
             /\ \/ store'[calls'[x].runtime] = x
                \/ \E b \in Calls : AwaitsEnd(b, calls[x].runtime, x)'
  <2>1. stores[x] = "open" /\ x # calls[c].held
    <3>1. x # NoCall
      BY BootstrapAssumption
    <3>2. QED
      BY <1>5, <3>1 DEF StoreEnded, Typed, LifecycleTypeOK
  <2>2. Made(x) /\ Made(x)' /\ calls'[x].runtime = calls[x].runtime
    BY <1>3, <2>1 DEF StoreOK
  <2>3. ASSUME NEW b \in Calls, AwaitsEnd(b, calls[x].runtime, x) PROVE AwaitsEnd(b, calls[x].runtime, x)'
    BY <1>2, <1>3, <2>1, <2>2, <2>3 DEF Moved, AwaitsEnd, Made
  <2>4. QED
    BY <1>1, <2>1, <2>2, <2>3 DEF StoreOK
<1>6. QED
  BY <1>4, <1>5 DEF StoreOK

\* stop and handleFatal are there to clear the store of the session they take.
LEMMA StoreHalts ==
  ASSUME Typed, StoreOK, NEW c \in Calls, NEW kind \in {"stop", "fatal"}, NEW r \in Runtimes, NEW base,
         ~Made(c), Halts(c, kind, r, base)
  PROVE  StoreOK'
<1>1. Entered(c, kind, r, "stopping", session[r]) /\ UNCHANGED <<store, stores>>
      /\ \A x \in Runtimes : x # r => session'[x] = session[x]
  BY HaltsEffect DEF Halts, StopSession, Typed, LifecycleTypeOK
<1>2. Clears(c, r)'
  BY <1>1, LifecycleAssumption DEF Entered, Clears, Made
<1>3. \A x \in Runtimes : session'[x] = NoCall =>
        \/ session[x] = NoCall /\ (Clears(c, x) => Clears(c, x)')
        \/ Clears(c, x)'
  BY <1>1, <1>2 DEF Clears
<1>4. QED
  BY <1>1, <1>3, StoreKept DEF Entered

\* Every step keeps track of the stores.
LEMMA StoreStep ==
  ASSUME Typed, SessionOK, StoreOK, [LifecycleNext]_vars PROVE StoreOK'
<1>1. CASE \E c \in Calls, r \in Runtimes : Opens(c, r, "start") \/ Opens(c, r, "provision")
  BY <1>1, StoreOpens
<1>2. CASE \E c \in Calls, r \in Runtimes : Stop(c, r)
  BY <1>2, HaltsOfStop, StoreHalts
<1>3. CASE \E s, c \in Calls : Fatal(s, c)
  <2>1. PICK s \in Calls, c \in Calls : Fatal(s, c)
    BY <1>3
  <2>2. ~Made(c) /\ calls[s].runtime \in Runtimes
        /\ Halts(c, "fatal", calls[s].runtime, [sessions EXCEPT ![s] = "failed"])
    BY <2>1, HaltsOfFatal
  <2>3. QED
    BY <2>2, StoreHalts
<1>4. CASE \E c \in Calls : BootLock(c) \/ BootReplication(c) \/ BootEvents(c)
  BY <1>4 DEF BootLock, BootReplication, BootEvents, Unmoved, fields, outside, StoreOK, Clears,
     AwaitsEnd, Made
<1>5. ASSUME NEW c \in Calls, BootCommit(c) PROVE StoreOK'
  <2>1. Made(c) /\ calls[c].at = "bootstrap" /\ Goes(c, "committed") /\ "committed" \in Awaits
        /\ UNCHANGED <<session, store, stores>>
    BY <1>5 DEF BootCommit, Bootstrapping, IsAt, Awaits, outside
  <2>2. Moved(c, "committed", calls[c].held)
    BY <2>1, GoesEffect DEF Typed, LifecycleTypeOK
  <2>3. \A x \in Runtimes : Clears(c, x) => Clears(c, x)'
    BY <2>2, LifecycleAssumption DEF Moved, Clears, Made
  <2>4. QED
    BY <2>1, <2>2, <2>3, StoreKept DEF Moved
<1>6. CASE \E c \in Calls : Ends(c)
  BY <1>6, StoreEnds
<1>7. ASSUME NEW c \in Calls, OpenSession(c) PROVE StoreOK'
  <2>1. Made(c) /\ calls[c].at = "committed" /\ Goes(c, "ready") /\ "ready" \in Awaits
        /\ UNCHANGED <<store, stores>>
    BY <1>7 DEF OpenSession, IsAt, Awaits
  <2>2. Moved(c, "ready", calls[c].held)
    BY <2>1, GoesEffect DEF Typed, LifecycleTypeOK
  <2>3. \A x \in Runtimes : session'[x] = NoCall => session[x] = NoCall /\ ~Clears(c, x)
    BY <1>7, <2>2, BootstrapAssumption DEF OpenSession, Moved, Clears, Typed, LifecycleTypeOK
  <2>4. QED
    BY <2>1, <2>2, <2>3, StoreKept DEF Moved
<1>8. ASSUME NEW c \in Calls, Ready(c) PROVE StoreOK'
  <2>1. Made(c) /\ calls[c].at = "ready" /\ Goes(c, "done") /\ "done" \in Awaits
        /\ UNCHANGED <<session, store, stores>>
    BY <1>8 DEF Ready, IsAt, Awaits, fields
  <2>2. Moved(c, "done", calls[c].held)
    BY <2>1, GoesEffect DEF Typed, LifecycleTypeOK
  <2>3. \A x \in Runtimes : ~Clears(c, x)
    BY <2>1 DEF Clears
  <2>4. QED
    BY <2>1, <2>2, <2>3, StoreKept DEF Moved
<1>9. ASSUME NEW c \in Calls, ReadyRejects(c) PROVE StoreOK'
  <2>1. Made(c) /\ calls[c].at = "ready" /\ "closing" \in Awaits /\ c \in Calls \union {NoCall}
        /\ UNCHANGED <<store, stores>>
    BY <1>9 DEF ReadyRejects, IsAt, Awaits
  <2>2. Moved(c, "closing", c)
    BY <1>9, <2>1, MoveEffect DEF ReadyRejects, Typed, LifecycleTypeOK
  <2>3. \A x \in Runtimes :
          ~Clears(c, x) /\ (session'[x] = NoCall => session[x] = NoCall \/ x = calls[c].runtime)
    BY <1>9, <2>1 DEF ReadyRejects, Clears, Typed, LifecycleTypeOK
  <2>4. Clears(c, calls[c].runtime)'
    BY <2>2, LifecycleAssumption DEF Moved, Clears, Made
  <2>5. QED
    BY <2>1, <2>2, <2>3, <2>4, StoreKept DEF Moved
<1>10. CASE Settles
  BY <1>10 DEF Settles, Drained, CreateCollection, fields, outside, StoreOK, Clears, AwaitsEnd, Made
<1>11. CASE ChangeByHand
  BY <1>11 DEF ChangeByHand, Unmoved, fields, outside, StoreOK, Clears, AwaitsEnd, Made
<1>12. CASE UNCHANGED vars
  BY <1>12 DEF vars, fields, outside, StoreOK, Clears, AwaitsEnd, Made
<1>13. QED
  BY <1>1, <1>2, <1>3, <1>4, <1>5, <1>6, <1>7, <1>8, <1>9, <1>10, <1>11, <1>12, StoreStoreEnded, Groups

\* No pool of connections is left behind: once a runtime has neither a session
\* nor a call in flight, every store it ever made has been ended, whatever calls,
\* failed boots and fatal errors there were and however they overlapped.
THEOREM IdleRuntimeHoldsNothing == LifecycleSpec => []IdleHoldsNothing
<1>1. LifecycleInit => StoreOK
  BY StoreInit
<1>2. (Typed /\ SessionOK) /\ StoreOK /\ [LifecycleNext]_vars => StoreOK'
  BY StoreStep
<1>3. (Typed /\ SessionOK) /\ StoreOK => IdleHoldsNothing
  <2> SUFFICES ASSUME Typed, StoreOK, NEW r \in Runtimes, ~Busy(r), session[r] = NoCall
               PROVE  /\ store[r] = NoCall
                      /\ \A c \in Calls : Made(c) /\ calls[c].runtime = r => stores[c] # "open"
    BY DEF IdleHoldsNothing
  <2>1. store[r] = NoCall
    BY DEF StoreOK, Clears, Busy, InFlight
  <2>2. ASSUME NEW c \in Calls, Made(c), calls[c].runtime = r, stores[c] = "open" PROVE FALSE
    <3>1. store[r] # c
      BY <2>1, BootstrapAssumption
    <3>2. PICK b \in Calls : AwaitsEnd(b, r, c)
      BY <2>2, <3>1 DEF StoreOK
    <3>3. QED
      BY <3>2 DEF AwaitsEnd, Busy, InFlight
  <2>3. QED
    BY <2>1, <2>2
<1>4. QED
  BY <1>1, <1>2, <1>3, LifecycleInvariant, PTL DEF LifecycleSpec

(***************************************************************************)
(* A runtime whose owner awaits each of his calls.  The stop that a fatal  *)
(* error causes is not among them: he may call start beside it.            *)
(***************************************************************************)
Of(c, r) == Made(c) /\ calls[c].runtime = r

\* A call that the owner of r made.
Own(c, r) == Of(c, r) /\ calls[c].kind # "fatal"

\* Of these, only c is in flight.
Alone(c, r) == \A b \in Calls : Own(b, r) /\ calls[b].at # "done" => b = c

\* A boot runs beside no other call of the owner, and no session.
BootsAlone(r) ==
  \A c \in Calls : Own(c, r) /\ calls[c].at \in {"bootstrap", "committed"} =>
    /\ session[r] = NoCall /\ Alone(c, r)
    /\ \A s \in Calls : Of(s, r) => sessions[s] \in {"none", "failed", "stopped"}

\* A session that the driver runs is the runtime's; the owner makes no other call.
RunsAlone(r) ==
  \A s \in Calls : Of(s, r) /\ Live(s) =>
    /\ session[r] = s /\ Alone(s, r)
    /\ calls[s].at = IF sessions[s] = "connecting" THEN "ready" ELSE "done"

\* A session that is draining is awaited, by the only call of the owner.
DrainsAwaited(r) ==
  \A s \in Calls : Of(s, r) /\ sessions[s] = "draining" =>
    \E c \in Calls :
      /\ Own(c, r) /\ Alone(c, r)
      /\ calls[c].at \in {"closing", "stopping"} /\ calls[c].held = s

\* The field names a session that runs, which a late collection relies on.
FieldRuns(r) ==
  /\ session[r] # NoCall => Of(session[r], r) /\ Live(session[r])
  /\ collection[r] = "late" => session[r] # NoCall /\ sessions[session[r]] = "streaming"

\* A fatal stop of r beside which the owner has booted nothing so far.
Apart(f, r) ==
  Of(f, r) /\ calls[f].kind = "fatal" /\ calls[f].at # "done" /\ f \notin raced

\* Beside such a stop there is no session with work in flight and no boot.
StopsApart(r) ==
  \A f \in Calls : Apart(f, r) =>
    /\ session[r] = NoCall
    /\ \A s \in Calls : Of(s, r) => sessions[s] \in {"none", "failed", "stopped"}
    /\ \A b \in Calls : Own(b, r) => calls[b].at \notin {"bootstrap", "committed"}

InOrder(r) ==
  BootsAlone(r) /\ RunsAlone(r) /\ DrainsAwaited(r) /\ FieldRuns(r) /\ StopsApart(r)

Owned(r) == Orderly(r) => InOrder(r)

OwnerOK == \A r \in Runtimes : Owned(r)

\* A call stays its runtime's, and what it is.
LEMMA OfMoved ==
  ASSUME NEW c \in Calls, NEW at, NEW held, Moved(c, at, held)
  PROVE  /\ \A b \in Calls, r \in Runtimes : (Of(b, r)' <=> Of(b, r)) /\ (Own(b, r)' <=> Own(b, r))
         /\ \A b \in Calls : calls'[b].kind = calls[b].kind
BY LifecycleAssumption DEF Moved, Of, Own, Made

\* A call that is made is its runtime's, and the others stay what they are.
LEMMA OfEntered ==
  ASSUME NEW c \in Calls, NEW r \in Runtimes, NEW kind, NEW at, NEW held,
         Entered(c, kind, r, at, held)
  PROVE  /\ Of(c, r)' /\ \A x \in Runtimes : ~Of(c, x) /\ (Of(c, x)' => x = r)
         /\ \A b \in Calls \ {c}, x \in Runtimes :
              (Of(b, x)' <=> Of(b, x)) /\ (Own(b, x)' <=> Own(b, x))
         /\ Own(c, r)' <=> kind # "fatal"
BY LifecycleAssumption DEF Entered, Of, Own, Made

\* What a step leaves alone stays in order, whatever becomes of its fatal stops.
LEMMA OwnerUntouched ==
  ASSUME Typed, NEW r \in Runtimes, Owned(r),
         \A b \in Calls : (Of(b, r)' <=> Of(b, r)) /\ (Own(b, r)' <=> Own(b, r)),
         \A b \in Calls : Own(b, r) => calls'[b] = calls[b],
         \A s \in Calls : Of(s, r) => sessions'[s] = sessions[s] /\ (Live(s) => Own(s, r)),
         \A f \in Calls : Apart(f, r)' => Apart(f, r),
         session'[r] = session[r], collection'[r] = collection[r], overlapped'[r] = overlapped[r]
  PROVE  Owned(r)'
<1>1. SUFFICES ASSUME Orderly(r) PROVE InOrder(r)'
  BY DEF Owned, Orderly
<1>2. BootsAlone(r) /\ RunsAlone(r) /\ DrainsAwaited(r) /\ FieldRuns(r) /\ StopsApart(r)
  BY <1>1 DEF Owned, InOrder
<1>3. \A b \in Calls : Alone(b, r)' <=> Alone(b, r)
  BY DEF Alone
<1>4. BootsAlone(r)' /\ RunsAlone(r)'
  BY <1>2, <1>3 DEF BootsAlone, RunsAlone, Live
<1>5. DrainsAwaited(r)'
  <2>1. SUFFICES ASSUME NEW s \in Calls, Of(s, r), sessions[s] = "draining"
                 PROVE  \E c \in Calls :
                          /\ Own(c, r)' /\ Alone(c, r)'
                          /\ calls'[c].at \in {"closing", "stopping"} /\ calls'[c].held = s
    BY DEF DrainsAwaited
  <2>2. PICK c \in Calls : /\ Own(c, r) /\ Alone(c, r)
                           /\ calls[c].at \in {"closing", "stopping"} /\ calls[c].held = s
    BY <1>2, <2>1 DEF DrainsAwaited
  <2>3. QED
    BY <1>3, <2>2
<1>6. FieldRuns(r)'
  <2>1. session[r] # NoCall => session[r] \in Calls
    BY DEF Typed, LifecycleTypeOK
  <2>2. QED
    BY <1>2, <2>1 DEF FieldRuns, Live
<1>7. StopsApart(r)'
  BY <1>2 DEF StopsApart
<1>8. QED
  BY <1>4, <1>5, <1>6, <1>7 DEF InOrder

\* A session was opened by a start, which its owner called.
LEMMA OpenedByOwner ==
  ASSUME SessionOK, NEW r \in Runtimes, NEW s \in Calls, Of(s, r), sessions[s] # "none"
  PROVE  Own(s, r)
BY DEF SessionOK, Opened, Own

\* An owner that calls start or provision has no other call in flight; fatal
\* stops that are count as raced from now on.
LEMMA OwnerOpens ==
  ASSUME Typed, SessionOK, OwnerOK, NEW c \in Calls, NEW r \in Runtimes,
         NEW kind \in {"start", "provision"}, Opens(c, r, kind)
  PROVE  OwnerOK'
<1>1. /\ Entered(c, kind, r, "bootstrap", store'[r])
      /\ UNCHANGED <<session, sessions, collection>> /\ session[r] = NoCall
  BY OpensEffect DEF Opens
<1>2. /\ Of(c, r)' /\ \A x \in Runtimes : ~Of(c, x) /\ (Of(c, x)' => x = r)
      /\ Own(c, r)' /\ \A b \in Calls \ {c}, x \in Runtimes :
           (Of(b, x)' <=> Of(b, x)) /\ (Own(b, x)' <=> Own(b, x))
  BY <1>1, OfEntered
<1>3. overlapped' = [overlapped EXCEPT ![r] = @ \/ Attending(r)] /\ raced' = raced \union FatalStops(r)
  BY DEF Opens, Begin
<1>4. ASSUME NEW x \in Runtimes, x # r PROVE Owned(x)'
  <2>1. overlapped'[x] = overlapped[x] /\ Owned(x)
    BY <1>3, <1>4 DEF OwnerOK, Typed, LifecycleTypeOK
  <2>2. /\ \A b \in Calls : (Of(b, x)' <=> Of(b, x)) /\ (Own(b, x)' <=> Own(b, x))
        /\ ~Of(c, x)' /\ ~Of(c, x)
    BY <1>2, <1>4 DEF Own
  <2>3. \A b \in Calls : Of(b, x) => calls'[b] = calls[b] /\ sessions'[b] = sessions[b]
    BY <1>1, <1>2 DEF Entered
  <2>4. \A f \in Calls : Apart(f, x)' => Apart(f, x)
    BY <1>3, <2>2, <2>3 DEF Apart
  <2>5. \A s \in Calls : Of(s, x) /\ Live(s) => Own(s, x)
    BY OpenedByOwner DEF Live
  <2>6. QED
    BY <1>1, <2>1, <2>2, <2>3, <2>4, <2>5, OwnerUntouched DEF Own
<1>5. ASSUME Orderly(r)'
      PROVE  InOrder(r)'
  <2>1. Orderly(r) /\ ~Attending(r)
    BY <1>3, <1>5 DEF Orderly, Typed, LifecycleTypeOK
  <2>2. BootsAlone(r) /\ RunsAlone(r) /\ DrainsAwaited(r) /\ FieldRuns(r) /\ StopsApart(r)
    BY <2>1 DEF OwnerOK, Owned, InOrder
  <2>3. \A b \in Calls : Own(b, r) => calls[b].at = "done"
    BY <2>1 DEF Attending, InFlight, Of, Own
  <2>4. ASSUME NEW s \in Calls, Of(s, r) PROVE sessions[s] \in {"none", "failed", "stopped"}
    <3>1. ~Live(s)
      BY <1>1, <2>2, <2>4, BootstrapAssumption DEF RunsAlone
    <3>2. sessions[s] # "draining"
      BY <2>2, <2>3, <2>4 DEF DrainsAwaited
    <3>3. QED
      BY <3>1, <3>2 DEF Live, Typed, LifecycleTypeOK
  <2>5. sessions[c] = "none"
    BY <1>1 DEF SessionOK, Opened, Entered, Made
  <2>6. ASSUME NEW s \in Calls, Of(s, r)' PROVE sessions'[s] \in {"none", "failed", "stopped"}
    BY <1>1, <1>2, <2>4, <2>5, <2>6
  <2>7. \A b \in Calls : Own(b, r)' /\ calls'[b].at # "done" => b = c
    BY <1>1, <1>2, <2>3 DEF Entered
  <2>8. BootsAlone(r)'
    BY <1>1, <2>6, <2>7 DEF BootsAlone, Alone
  <2>9. RunsAlone(r)' /\ DrainsAwaited(r)'
    BY <2>6 DEF RunsAlone, DrainsAwaited, Live
  <2>10. FieldRuns(r)'
    BY <1>1, <2>2 DEF FieldRuns
  <2>11. StopsApart(r)'
    <3>1. \A f \in Calls : ~Apart(f, r)'
      BY <1>1, <1>2, <1>3 DEF Apart, Entered, FatalStops, InFlight, Of
    <3>2. QED
      BY <3>1 DEF StopsApart
  <2>12. QED
    BY <2>8, <2>9, <2>10, <2>11 DEF InOrder
<1>6. QED
  BY <1>4, <1>5 DEF OwnerOK, Owned, InOrder

\* What stop and handleFatal do to one runtime is nothing to the others.
LEMMA OwnerHaltsElsewhere ==
  ASSUME Typed, SessionOK, OwnerOK, NEW c \in Calls, NEW kind \in {"stop", "fatal"},
         NEW r \in Runtimes, ~Made(c), NEW base, Halts(c, kind, r, base), raced' = raced,
         \A s \in Calls : base[s] # sessions[s] => Of(s, r),
         base \in [Calls -> {"none", "connecting", "streaming", "failed", "draining", "stopped"}],
         NEW x \in Runtimes, x # r, overlapped'[x] = overlapped[x]
  PROVE  Owned(x)'
<1>1. Entered(c, kind, r, "stopping", session[r])
  BY HaltsEffect
<1>2. /\ \A b \in Calls : (Of(b, x)' <=> Of(b, x)) /\ (Own(b, x)' <=> Own(b, x))
      /\ \A b \in Calls : Of(b, x) \/ Of(b, x)' => calls'[b] = calls[b]
  BY <1>1, OfEntered DEF Entered, Own
<1>3. session'[x] = session[x] /\ collection'[x] = collection[x]
  BY DEF Halts, StopSession, Typed, LifecycleTypeOK
<1>4. session[r] # NoCall => session[r] \in Calls /\ Of(session[r], r)
  BY DEF SessionOK, Opened, Of, Typed, LifecycleTypeOK
<1>5. \A b \in Calls : Of(b, x) => sessions'[b] = sessions[b]
  BY <1>4 DEF Halts, StopSession, Of
<1>6. \A f \in Calls : Apart(f, x)' => Apart(f, x)
  BY <1>2 DEF Apart
<1>7. \A s \in Calls : Of(s, x) /\ Live(s) => Own(s, x)
  BY OpenedByOwner DEF Live
<1>8. QED
  BY <1>2, <1>3, <1>5, <1>6, <1>7, OwnerUntouched DEF OwnerOK, Own

\* An owner's stop is his only call, and awaits the session, which drains.
LEMMA OwnerStops ==
  ASSUME Typed, SessionOK, OwnerOK, NEW c \in Calls, NEW r \in Runtimes, Stop(c, r)
  PROVE  OwnerOK'
<1>1. /\ ~Made(c) /\ Halts(c, "stop", r, sessions) /\ raced' = raced
      /\ overlapped' = [overlapped EXCEPT ![r] = @ \/ Attending(r)]
  BY HaltsOfStop DEF Stop, Begin
<1>2. Entered(c, "stop", r, "stopping", session[r])
  BY <1>1, HaltsEffect
<1>3. ASSUME NEW x \in Runtimes, x # r PROVE Owned(x)'
  <2>1. overlapped'[x] = overlapped[x]
    BY <1>1, <1>3 DEF Typed, LifecycleTypeOK
  <2>2. sessions \in [Calls -> {"none", "connecting", "streaming", "failed", "draining", "stopped"}]
    BY DEF Typed, LifecycleTypeOK
  <2>3. QED
    BY <1>1, <1>3, <2>1, <2>2, OwnerHaltsElsewhere
<1>4. ASSUME Orderly(r)'
      PROVE  InOrder(r)'
  <2>1. Orderly(r) /\ ~Attending(r)
    BY <1>1, <1>4 DEF Orderly, Typed, LifecycleTypeOK
  <2>2. BootsAlone(r) /\ RunsAlone(r) /\ DrainsAwaited(r) /\ FieldRuns(r) /\ StopsApart(r)
    BY <2>1 DEF OwnerOK, Owned, InOrder
  <2>3. \A b \in Calls : Own(b, r) => calls[b].at = "done"
    BY <2>1 DEF Attending, InFlight, Of, Own
  <2>4. /\ Of(c, r)' /\ Own(c, r)' /\ ~Of(c, r)
        /\ \A b \in Calls \ {c} :
             (Of(b, r)' <=> Of(b, r)) /\ (Own(b, r)' <=> Own(b, r)) /\ calls'[b] = calls[b]
    BY <1>2, OfEntered DEF Entered
  <2>5. /\ Alone(c, r)' /\ calls'[c].at = "stopping" /\ calls'[c].held = session[r]
        /\ calls'[c].kind = "stop"
    BY <1>2, <2>3, <2>4 DEF Alone, Entered
  <2>6. session'[r] = NoCall /\ collection'[r] = "none"
    BY <1>1 DEF Halts, StopSession, Typed, LifecycleTypeOK
  <2>7. sessions[c] = "none"
    BY <1>2 DEF SessionOK, Opened, Entered, Made
  <2>8. ASSUME NEW s \in Calls, Of(s, r)'
        PROVE  /\ sessions'[s] \in {"none", "failed", "stopped", "draining"}
               /\ sessions'[s] = "draining" => session[r] = s
    <3>1. CASE s = c
      <4>1. session[r] # c
        BY <2>2, <2>4, BootstrapAssumption DEF FieldRuns
      <4>2. sessions'[c] = sessions[c]
        BY <1>1, <4>1 DEF Halts, StopSession
      <4>3. QED
        BY <2>7, <3>1, <4>2
    <3>2. CASE s # c
      <4>1. Of(s, r) /\ sessions[s] # "draining"
        BY <2>2, <2>3, <2>4, <3>2, <1>4, <2>8 DEF DrainsAwaited
      <4>2. CASE session[r] = s
        BY <1>1, <2>2, <4>1, <4>2, BootstrapAssumption
        DEF FieldRuns, Halts, StopSession, Live, Typed, LifecycleTypeOK
      <4>3. CASE session[r] # s
        <5>1. ~Live(s) /\ sessions'[s] = sessions[s]
          BY <1>1, <2>2, <4>1, <4>3 DEF RunsAlone, Halts, StopSession
        <5>2. QED
          BY <4>1, <5>1 DEF Live, Typed, LifecycleTypeOK
      <4>4. QED
        BY <4>2, <4>3
    <3>3. QED
      BY <3>1, <3>2
  <2>9. BootsAlone(r)'
    BY <2>3, <2>4, <2>5 DEF BootsAlone
  <2>10. RunsAlone(r)'
    BY <2>8 DEF RunsAlone, Live
  <2>11. DrainsAwaited(r)'
    BY <2>4, <2>5, <2>8 DEF DrainsAwaited
  <2>12. FieldRuns(r)'
    BY <2>6 DEF FieldRuns
  <2>13. StopsApart(r)'
    <3>1. SUFFICES ASSUME NEW f \in Calls, Apart(f, r)'
                   PROVE  /\ \A s \in Calls : Of(s, r)' => sessions'[s] \in {"none", "failed", "stopped"}
                          /\ \A b \in Calls : Own(b, r)' => calls'[b].at \notin {"bootstrap", "committed"}
      BY <2>6 DEF StopsApart
    <3>2. f # c /\ Apart(f, r)
      BY <1>1, <2>4, <2>5, <3>1 DEF Apart
    <3>3. session[r] = NoCall
      BY <2>2, <3>2 DEF StopsApart
    <3>4. \A s \in Calls : Of(s, r)' => sessions'[s] \in {"none", "failed", "stopped"}
      BY <2>8, <3>3, BootstrapAssumption
    <3>5. QED
      BY <2>3, <2>4, <2>5, <3>4
  <2>14. QED
    BY <2>9, <2>10, <2>11, <2>12, <2>13 DEF InOrder
<1>5. QED
  BY <1>3, <1>4 DEF OwnerOK, Owned, InOrder

\* A session that is given up is the one of the field: nothing runs any more.
LEMMA OwnerFatal ==
  ASSUME Typed, SessionOK, OwnerOK, NEW s \in Calls, NEW c \in Calls, Fatal(s, c)
  PROVE  OwnerOK'
<1> DEFINE base == [sessions EXCEPT ![s] = "failed"]
<1>0. PICK r \in Runtimes : r = calls[s].runtime
  BY HaltsOfFatal
<1>1. /\ ~Made(c) /\ r \in Runtimes /\ Live(s) /\ UNCHANGED <<overlapped, raced>>
      /\ Halts(c, "fatal", r, base)
  BY <1>0, HaltsOfFatal
<1>2. Of(s, r) /\ Own(s, r)
  BY <1>0, <1>1 DEF SessionOK, Opened, Live, Of, Own
<1>3. Entered(c, "fatal", r, "stopping", session[r])
  BY <1>1, HaltsEffect
<1>4. ASSUME NEW x \in Runtimes, x # r PROVE Owned(x)'
  <2>1. overlapped'[x] = overlapped[x]
    BY <1>1
  <2>2. base \in [Calls -> {"none", "connecting", "streaming", "failed", "draining", "stopped"}]
        /\ \A b \in Calls : base[b] # sessions[b] => Of(b, r)
    BY <1>2 DEF Typed, LifecycleTypeOK
  <2> HIDE DEF base
  <2>3. QED
    BY <1>1, <1>4, <2>1, <2>2, OwnerHaltsElsewhere
<1>5. ASSUME Orderly(r)'
      PROVE  InOrder(r)'
  <2>1. BootsAlone(r) /\ RunsAlone(r) /\ DrainsAwaited(r) /\ FieldRuns(r) /\ StopsApart(r)
    BY <1>1, <1>5 DEF Orderly, OwnerOK, Owned, InOrder
  <2>2. session[r] = s /\ Alone(s, r) /\ calls[s].at \in {"ready", "done"} /\ s # NoCall
    BY <1>1, <1>2, <2>1, BootstrapAssumption DEF RunsAlone
  <2>3. /\ Of(c, r)' /\ ~Own(c, r)' /\ ~Of(c, r) /\ calls'[c].at = "stopping"
        /\ \A b \in Calls \ {c} :
             (Of(b, r)' <=> Of(b, r)) /\ (Own(b, r)' <=> Own(b, r)) /\ calls'[b] = calls[b]
    BY <1>1, <1>3, OfEntered DEF Entered
  <2>4. session'[r] = NoCall /\ collection'[r] = "none" /\ sessions' = base
    BY <1>1, <2>2 DEF Halts, StopSession, Typed, LifecycleTypeOK
  <2>5. sessions[c] = "none"
    BY <1>3 DEF SessionOK, Opened, Entered, Made
  <2>6. ASSUME NEW x \in Calls, Of(x, r)' PROVE sessions'[x] \in {"none", "failed", "stopped"}
    <3>1. CASE x = c \/ x = s
      BY <2>4, <2>5, <3>1 DEF Typed, LifecycleTypeOK
    <3>2. CASE x # c /\ x # s
      <4>1. Of(x, r) /\ sessions'[x] = sessions[x] /\ ~Live(x)
        BY <1>1, <2>1, <2>2, <2>3, <2>4, <2>6, <3>2 DEF RunsAlone
      <4>2. sessions[x] # "draining"
        BY <2>1, <2>2, <4>1 DEF DrainsAwaited, Alone
      <4>3. QED
        BY <4>1, <4>2 DEF Live, Typed, LifecycleTypeOK
    <3>3. QED
      BY <3>1, <3>2
  <2>7. \A b \in Calls : Own(b, r)' => calls'[b].at \notin {"bootstrap", "committed"}
    BY <2>2, <2>3 DEF Alone
  <2>8. BootsAlone(r)'
    BY <2>7 DEF BootsAlone
  <2>9. RunsAlone(r)' /\ DrainsAwaited(r)'
    BY <2>6 DEF RunsAlone, DrainsAwaited, Live
  <2>10. FieldRuns(r)'
    BY <2>4 DEF FieldRuns
  <2>11. StopsApart(r)'
    BY <2>4, <2>6, <2>7 DEF StopsApart
  <2>12. QED
    BY <2>8, <2>9, <2>10, <2>11 DEF InOrder
<1>6. QED
  BY <1>1, <1>4, <1>5 DEF OwnerOK, Owned, InOrder

\* A call that moves is nothing to other runtimes.
LEMMA OwnerMovesElsewhere ==
  ASSUME Typed, SessionOK, OwnerOK, NEW c \in Calls, NEW at, NEW held, Moved(c, at, held),
         UNCHANGED <<overlapped, raced, collection>>,
         \A b \in Calls \ {c} : sessions'[b] = sessions[b],
         \A x \in Runtimes : x # calls[c].runtime => session'[x] = session[x]
  PROVE  \A x \in Runtimes : x # calls[c].runtime => Owned(x)'
<1>1. TAKE x \in Runtimes
<1>2. HAVE x # calls[c].runtime
<1>3. \A b \in Calls : Of(b, x) => calls'[b] = calls[b] /\ sessions'[b] = sessions[b]
  BY <1>2 DEF Of, Moved
<1>4. \A b \in Calls : (Of(b, x)' <=> Of(b, x)) /\ (Own(b, x)' <=> Own(b, x))
  BY OfMoved
<1>5. \A f \in Calls : Apart(f, x)' => Apart(f, x)
  BY <1>3, <1>4 DEF Apart
<1>6. \A s \in Calls : Of(s, x) /\ Live(s) => Own(s, x)
  BY OpenedByOwner DEF Live
<1>7. QED
  BY <1>2, <1>3, <1>4, <1>5, <1>6, OwnerUntouched DEF OwnerOK, Own

\* A call of the owner that ends the store ends it beside no session that runs
\* or drains; a fatal stop that does changes nothing else.
LEMMA OwnerEnds ==
  ASSUME Typed, SessionOK, OwnerOK, NEW c \in Calls, Ends(c) PROVE OwnerOK'
<1>0. PICK r \in Runtimes : r = calls[c].runtime
  BY EndsEffect
<1>1. /\ Moved(c, "ending", store[r])
      /\ session' = session \/ session' = [session EXCEPT ![r] = NoCall]
      /\ calls[c].at \in {"bootstrap", "committed", "closing", "stopping"}
      /\ UNCHANGED <<sessions, collection, overlapped, raced>>
  BY <1>0, EndsEffect
<1>2. Of(c, r)
  BY <1>0, <1>1, LifecycleAssumption DEF Moved, Of, Made
<1>3. \A b \in Calls : (Of(b, r)' <=> Of(b, r)) /\ (Own(b, r)' <=> Own(b, r))
  BY <1>1, OfMoved
<1>4. \A x \in Runtimes : x # r => Owned(x)'
  BY <1>0, <1>1, OwnerMovesElsewhere DEF Typed, LifecycleTypeOK
<1>5. \A f \in Calls : Apart(f, r)' => Apart(f, r)
  BY <1>1, <1>2, <1>3, OfMoved DEF Apart, Moved
<1>6. CASE ~Own(c, r)
  <2>1. session' = session
    BY <1>2, <1>6 DEF Own, Ends, BootFails, Bootstrapping, Provisioned, Closed, SessionStopped, IsAt
  <2>2. \A b \in Calls : Own(b, r) => calls'[b] = calls[b]
    BY <1>1, <1>6 DEF Moved
  <2>3. \A s \in Calls : Of(s, r) /\ Live(s) => Own(s, r)
    BY OpenedByOwner DEF Live
  <2>4. Owned(r)'
    BY <1>1, <1>3, <1>5, <2>1, <2>2, <2>3, OwnerUntouched DEF OwnerOK
  <2>5. QED
    BY <1>4, <2>4 DEF OwnerOK
<1>7. ASSUME Own(c, r), Orderly(r)'
      PROVE  InOrder(r)'
  <2>1. BootsAlone(r) /\ RunsAlone(r) /\ DrainsAwaited(r) /\ FieldRuns(r) /\ StopsApart(r)
    BY <1>1, <1>7 DEF Orderly, OwnerOK, Owned, InOrder
  <2>2. ASSUME NEW s \in Calls, Of(s, r) PROVE ~Live(s) /\ sessions[s] # "draining"
    <3>1. ~Live(s)
      BY <1>1, <1>7, <2>1, <2>2 DEF RunsAlone, Alone
    <3>2. ASSUME sessions[s] = "draining" PROVE FALSE
      <4>1. calls[c].at \in {"closing", "stopping"} /\ calls[c].held = s
        BY <1>1, <1>7, <2>1, <2>2, <3>2 DEF DrainsAwaited, Alone
      <4>2. sessions[s] \in {"stopped", "failed"}
        BY <4>1, BootstrapAssumption
        DEF Ends, BootFails, Bootstrapping, Provisioned, Closed, SessionStopped, IsAt
      <4>3. QED
        BY <3>2, <4>2
    <3>3. QED
      BY <3>1, <3>2
  <2>3. session[r] = NoCall
    BY <2>1, <2>2 DEF FieldRuns, Typed, LifecycleTypeOK
  <2>4. session'[r] = NoCall
    BY <1>1, <2>3 DEF Typed, LifecycleTypeOK
  <2>5. RunsAlone(r)' /\ DrainsAwaited(r)'
    BY <1>1, <1>3, <2>2 DEF RunsAlone, DrainsAwaited, Live
  <2>6. FieldRuns(r)'
    BY <1>1, <2>1, <2>3, <2>4 DEF FieldRuns
  <2>7. \A b \in Calls : Own(b, r)' => calls'[b].at \notin {"bootstrap", "committed"}
    BY <1>1, <1>7, <1>3, <2>1 DEF Moved, BootsAlone, Alone
  <2>8. BootsAlone(r)'
    BY <2>7 DEF BootsAlone
  <2>9. StopsApart(r)'
    BY <1>1, <1>3, <1>5, <2>1, <2>4, <2>7 DEF StopsApart
  <2>10. QED
    BY <2>5, <2>6, <2>8, <2>9 DEF InOrder
<1>8. QED
  BY <1>4, <1>6, <1>7 DEF OwnerOK, Owned, InOrder

\* A boot that has committed is alone still.
LEMMA OwnerCommit ==
  ASSUME Typed, SessionOK, OwnerOK, NEW c \in Calls, BootCommit(c) PROVE OwnerOK'
<1>1. Made(c) /\ calls[c].at = "bootstrap" /\ calls[c].kind # "fatal" /\ Goes(c, "committed") /\ "committed" \in Awaits
      /\ UNCHANGED <<session, sessions, collection, overlapped, raced>>
  BY DEF BootCommit, Bootstrapping, IsAt, Awaits, outside, conduct
<1>2. Moved(c, "committed", calls[c].held)
  BY <1>1, GoesEffect DEF Typed, LifecycleTypeOK
<1>3. PICK r \in Runtimes : r = calls[c].runtime
  BY <1>2 DEF Moved, Call
<1>4. Of(c, r) /\ Own(c, r) /\ \A b \in Calls : (Of(b, r)' <=> Of(b, r)) /\ (Own(b, r)' <=> Own(b, r))
  BY <1>1, <1>2, <1>3, OfMoved DEF Of, Own
<1>5. \A x \in Runtimes : x # r => Owned(x)'
  BY <1>1, <1>2, <1>3, OwnerMovesElsewhere
<1>6. ASSUME Orderly(r)'
      PROVE  InOrder(r)'
  <2>1. BootsAlone(r) /\ RunsAlone(r) /\ DrainsAwaited(r) /\ FieldRuns(r) /\ StopsApart(r)
    BY <1>1, <1>6 DEF Orderly, OwnerOK, Owned, InOrder
  <2>2. session[r] = NoCall /\ Alone(c, r)
        /\ \A s \in Calls : Of(s, r) => sessions[s] \in {"none", "failed", "stopped"}
    BY <1>1, <1>4, <2>1 DEF BootsAlone
  <2>3. \A b \in Calls : Own(b, r) /\ calls'[b].at # "done" => b = c
    BY <1>2, <2>2 DEF Moved, Alone
  <2>4. Alone(c, r)'
    BY <1>4, <2>3 DEF Alone
  <2>5. BootsAlone(r)'
    BY <1>1, <1>4, <2>2, <2>3, <2>4 DEF BootsAlone
  <2>6. RunsAlone(r)' /\ DrainsAwaited(r)'
    BY <1>1, <1>4, <2>2 DEF RunsAlone, DrainsAwaited, Live
  <2>7. FieldRuns(r)'
    BY <1>1, <2>1, <2>2 DEF FieldRuns
  <2>8. StopsApart(r)'
    <3>1. \A f \in Calls : ~Apart(f, r)
      BY <1>1, <1>4, <2>1 DEF StopsApart
    <3>2. \A f \in Calls : ~Apart(f, r)'
      BY <1>1, <1>2, <1>4, <3>1 DEF Apart, Moved
    <3>3. QED
      BY <3>2 DEF StopsApart
  <2>9. QED
    BY <2>5, <2>6, <2>7, <2>8 DEF InOrder
<1>7. QED
  BY <1>5, <1>6 DEF OwnerOK, Owned, InOrder

\* openSession puts the only session that runs into the field.
LEMMA OwnerOpenSession ==
  ASSUME Typed, SessionOK, OwnerOK, NEW c \in Calls, OpenSession(c) PROVE OwnerOK'
<1>1. Made(c) /\ calls[c].at = "committed" /\ calls[c].kind # "fatal" /\ Goes(c, "ready") /\ "ready" \in Awaits
      /\ UNCHANGED <<collection, overlapped, raced>>
  BY DEF OpenSession, IsAt, Awaits, conduct
<1>2. Moved(c, "ready", calls[c].held)
  BY <1>1, GoesEffect DEF Typed, LifecycleTypeOK
<1>3. PICK r \in Runtimes : r = calls[c].runtime
  BY <1>2 DEF Moved, Call
<1>4. Of(c, r) /\ Own(c, r) /\ \A b \in Calls : (Of(b, r)' <=> Of(b, r)) /\ (Own(b, r)' <=> Own(b, r))
  BY <1>1, <1>2, <1>3, OfMoved DEF Of, Own
<1>5. /\ \A s \in Calls : sessions'[s] = IF s = c THEN "connecting" ELSE sessions[s]
      /\ \A x \in Runtimes : session'[x] = IF x = r THEN c ELSE session[x]
  BY <1>3 DEF OpenSession, Typed, LifecycleTypeOK
<1>6. \A x \in Runtimes : x # r => Owned(x)'
  BY <1>1, <1>2, <1>3, <1>5, OwnerMovesElsewhere
<1>7. ASSUME Orderly(r)'
      PROVE  InOrder(r)'
  <2>1. BootsAlone(r) /\ RunsAlone(r) /\ DrainsAwaited(r) /\ FieldRuns(r) /\ StopsApart(r)
    BY <1>1, <1>7 DEF Orderly, OwnerOK, Owned, InOrder
  <2>2. session[r] = NoCall /\ Alone(c, r)
        /\ \A s \in Calls : Of(s, r) => sessions[s] \in {"none", "failed", "stopped"}
    BY <1>1, <1>4, <2>1 DEF BootsAlone
  <2>3. calls'[c].at = "ready" /\ \A b \in Calls : Own(b, r) /\ b # c => calls'[b].at = "done"
    BY <1>2, <2>2 DEF Moved, Alone
  <2>4. Alone(c, r)'
    BY <1>4, <2>3 DEF Alone
  <2>5. BootsAlone(r)'
    BY <1>4, <2>3 DEF BootsAlone
  <2>6. RunsAlone(r)'
    BY <1>4, <1>5, <2>2, <2>3, <2>4 DEF RunsAlone, Live
  <2>7. DrainsAwaited(r)'
    BY <1>4, <1>5, <2>2 DEF DrainsAwaited
  <2>8. FieldRuns(r)'
    BY <1>1, <1>4, <1>5, <2>1, <2>2 DEF FieldRuns, Live
  <2>9. StopsApart(r)'
    <3>1. \A f \in Calls : ~Apart(f, r)
      BY <1>1, <1>4, <2>1 DEF StopsApart
    <3>2. \A f \in Calls : ~Apart(f, r)'
      BY <1>1, <1>2, <1>4, <3>1 DEF Apart, Moved
    <3>3. QED
      BY <3>2 DEF StopsApart
  <2>10. QED
    BY <2>5, <2>6, <2>7, <2>8, <2>9 DEF InOrder
<1>8. QED
  BY <1>6, <1>7 DEF OwnerOK, Owned, InOrder

\* A session that streams has no call any more.
LEMMA OwnerReady ==
  ASSUME Typed, SessionOK, OwnerOK, NEW c \in Calls, Ready(c) PROVE OwnerOK'
<1>1. Made(c) /\ calls[c].at = "ready" /\ calls[c].kind # "fatal" /\ sessions[c] = "connecting"
      /\ Goes(c, "done") /\ "done" \in Awaits /\ UNCHANGED <<session, collection, overlapped, raced>>
  BY DEF Ready, IsAt, Awaits, fields, conduct
<1>2. Moved(c, "done", calls[c].held)
  BY <1>1, GoesEffect DEF Typed, LifecycleTypeOK
<1>3. PICK r \in Runtimes : r = calls[c].runtime
  BY <1>2 DEF Moved, Call
<1>4. Of(c, r) /\ Own(c, r) /\ \A b \in Calls : (Of(b, r)' <=> Of(b, r)) /\ (Own(b, r)' <=> Own(b, r))
  BY <1>1, <1>2, <1>3, OfMoved DEF Of, Own
<1>5. \A s \in Calls : sessions'[s] = IF s = c THEN "streaming" ELSE sessions[s]
  BY DEF Ready, Typed, LifecycleTypeOK
<1>6. \A x \in Runtimes : x # r => Owned(x)'
  BY <1>1, <1>2, <1>3, <1>5, OwnerMovesElsewhere
<1>7. ASSUME Orderly(r)'
      PROVE  InOrder(r)'
  <2>1. BootsAlone(r) /\ RunsAlone(r) /\ DrainsAwaited(r) /\ FieldRuns(r) /\ StopsApart(r)
    BY <1>1, <1>7 DEF Orderly, OwnerOK, Owned, InOrder
  <2>2. session[r] = c /\ Alone(c, r)
    BY <1>1, <1>4, <2>1 DEF RunsAlone, Live
  <2>3. \A b \in Calls : Own(b, r) => calls'[b].at = "done"
    BY <1>2, <2>2 DEF Moved, Alone
  <2>4. ASSUME NEW s \in Calls, Of(s, r), s # c
        PROVE  sessions'[s] = sessions[s] /\ ~Live(s) /\ sessions[s] # "draining"
    <3>1. ~Live(s)
      BY <2>1, <2>2, <2>4 DEF RunsAlone
    <3>2. sessions[s] # "draining"
      BY <1>1, <1>4, <2>1, <2>4 DEF DrainsAwaited, Alone
    <3>3. QED
      BY <1>5, <2>4, <3>1, <3>2
  <2>5. BootsAlone(r)' /\ Alone(c, r)'
    BY <1>4, <2>3 DEF BootsAlone, Alone
  <2>6. RunsAlone(r)'
    BY <1>1, <1>4, <1>5, <2>2, <2>3, <2>4, <2>5 DEF RunsAlone, Live
  <2>7. DrainsAwaited(r)'
    BY <1>4, <1>5, <2>4 DEF DrainsAwaited
  <2>8. FieldRuns(r)'
    BY <1>1, <1>4, <1>5, <2>2, BootstrapAssumption DEF FieldRuns, Live
  <2>9. StopsApart(r)'
    <3>1. \A f \in Calls : ~Apart(f, r)
      BY <1>1, <1>4, <2>1 DEF StopsApart
    <3>2. \A f \in Calls : ~Apart(f, r)'
      BY <1>1, <1>2, <1>4, <3>1 DEF Apart, Moved
    <3>3. QED
      BY <3>2 DEF StopsApart
  <2>10. QED
    BY <2>5, <2>6, <2>7, <2>8, <2>9 DEF InOrder
<1>8. QED
  BY <1>6, <1>7 DEF OwnerOK, Owned, InOrder

\* A start that fails leaves no session running: its own drains, and is awaited.
LEMMA OwnerReadyRejects ==
  ASSUME Typed, SessionOK, OwnerOK, NEW c \in Calls, ReadyRejects(c) PROVE OwnerOK'
<1>1. Made(c) /\ calls[c].at = "ready" /\ calls[c].kind # "fatal" /\ "closing" \in Awaits /\ c \in Calls \union {NoCall}
      /\ UNCHANGED <<collection, overlapped, raced>>
  BY DEF ReadyRejects, IsAt, Awaits, conduct
<1>2. Moved(c, "closing", c)
  BY <1>1, MoveEffect DEF ReadyRejects, Typed, LifecycleTypeOK
<1>3. PICK r \in Runtimes : r = calls[c].runtime
  BY <1>2 DEF Moved, Call
<1>4. Of(c, r) /\ Own(c, r) /\ \A b \in Calls : (Of(b, r)' <=> Of(b, r)) /\ (Own(b, r)' <=> Own(b, r))
  BY <1>1, <1>2, <1>3, OfMoved DEF Of, Own
<1>5. /\ \A s \in Calls : sessions'[s] = IF s = c /\ Live(c) THEN "draining" ELSE sessions[s]
      /\ \A x \in Runtimes : session'[x] = IF x = r THEN NoCall ELSE session[x]
  BY <1>3 DEF ReadyRejects, Typed, LifecycleTypeOK
<1>6. \A x \in Runtimes : x # r => Owned(x)'
  BY <1>1, <1>2, <1>3, <1>5, OwnerMovesElsewhere
<1>7. ASSUME Orderly(r)'
      PROVE  InOrder(r)'
  <2>1. BootsAlone(r) /\ RunsAlone(r) /\ DrainsAwaited(r) /\ FieldRuns(r) /\ StopsApart(r)
    BY <1>1, <1>7 DEF Orderly, OwnerOK, Owned, InOrder
  <2>2. ASSUME NEW s \in Calls, Of(s, r), Live(s) PROVE s = c /\ Alone(c, r) /\ sessions[s] = "connecting"
    <3>1. s = c /\ Alone(c, r)
      BY <1>1, <1>4, <2>1, <2>2 DEF RunsAlone, Alone
    <3>2. QED
      BY <1>1, <2>1, <2>2, <3>1 DEF RunsAlone, Live
  <2>3. ASSUME NEW s \in Calls, Of(s, r) PROVE sessions[s] # "draining"
    BY <1>1, <1>4, <2>1, <2>3 DEF DrainsAwaited, Alone
  <2>4. ASSUME NEW s \in Calls, Of(s, r) PROVE ~Live(s)' /\ (sessions'[s] = "draining" => s = c /\ Live(c))
    BY <1>5, <2>2, <2>3, <2>4 DEF Live
  <2>5. calls'[c].at = "closing" /\ calls'[c].held = c
        /\ \A b \in Calls : Own(b, r) /\ b # c => calls'[b] = calls[b]
    BY <1>2 DEF Moved
  <2>6. Live(c) => Alone(c, r)'
    BY <1>4, <2>2, <2>5 DEF Alone
  <2>7. BootsAlone(r)'
    BY <1>1, <1>4, <2>1, <2>5 DEF BootsAlone, Alone
  <2>8. RunsAlone(r)'
    BY <1>4, <2>4 DEF RunsAlone
  <2>9. DrainsAwaited(r)'
    BY <1>4, <2>4, <2>5, <2>6 DEF DrainsAwaited
  <2>10. FieldRuns(r)'
    <3>1. collection[r] # "late"
      <4>1. SUFFICES ASSUME collection[r] = "late" PROVE FALSE
        OBVIOUS
      <4>2. session[r] \in Calls /\ Of(session[r], r) /\ Live(session[r]) /\ sessions[session[r]] = "streaming"
        BY <2>1, <4>1 DEF FieldRuns, Typed, LifecycleTypeOK
      <4>3. QED
        BY <2>2, <4>2
    <3>2. QED
      BY <1>1, <1>5, <3>1 DEF FieldRuns
  <2>11. StopsApart(r)'
    <3>1. \A f \in Calls : Apart(f, r)' => Apart(f, r)
      BY <1>1, <1>2, <1>4 DEF Apart, Moved
    <3>2. (\E f \in Calls : Apart(f, r)) => ~Live(c)
      BY <1>4, <2>1 DEF StopsApart, Live
    <3>3. \A b \in Calls : Own(b, r) /\ calls'[b].at \in {"bootstrap", "committed"} => calls'[b] = calls[b]
      BY <2>5
    <3>4. QED
      BY <1>4, <1>5, <2>1, <3>1, <3>2, <3>3 DEF StopsApart
  <2>12. QED
    BY <2>7, <2>8, <2>9, <2>10, <2>11 DEF InOrder
<1>8. QED
  BY <1>6, <1>7 DEF OwnerOK, Owned, InOrder

\* The call that ended the store is over; if it was the owner's, it was alone.
LEMMA OwnerStoreEnded ==
  ASSUME Typed, SessionOK, OwnerOK, NEW c \in Calls, StoreEnded(c) PROVE OwnerOK'
<1>1. Made(c) /\ calls[c].at = "ending" /\ Goes(c, "done") /\ "done" \in Awaits
      /\ UNCHANGED <<session, sessions, collection, overlapped, raced>>
  BY DEF StoreEnded, InFlight, Awaits, fields, conduct
<1>2. Moved(c, "done", calls[c].held)
  BY <1>1, GoesEffect DEF Typed, LifecycleTypeOK
<1>3. PICK r \in Runtimes : r = calls[c].runtime
  BY <1>2 DEF Moved, Call
<1>4. Of(c, r) /\ \A b \in Calls : (Of(b, r)' <=> Of(b, r)) /\ (Own(b, r)' <=> Own(b, r))
  BY <1>1, <1>2, <1>3, OfMoved DEF Of, Own
<1>5. \A x \in Runtimes : x # r => Owned(x)'
  BY <1>1, <1>2, <1>3, OwnerMovesElsewhere
<1>6. \A f \in Calls : Apart(f, r)' => Apart(f, r)
  BY <1>1, <1>2, <1>4 DEF Apart, Moved
<1>7. CASE ~Own(c, r)
  <2>1. \A b \in Calls : Own(b, r) => calls'[b] = calls[b]
    BY <1>2, <1>7 DEF Moved
  <2>2. \A s \in Calls : Of(s, r) /\ Live(s) => Own(s, r)
    BY OpenedByOwner DEF Live
  <2>3. Owned(r)'
    BY <1>1, <1>4, <1>6, <2>1, <2>2, OwnerUntouched DEF OwnerOK
  <2>4. QED
    BY <1>5, <2>3 DEF OwnerOK
<1>8. ASSUME Own(c, r), Orderly(r)'
      PROVE  InOrder(r)'
  <2>1. BootsAlone(r) /\ RunsAlone(r) /\ DrainsAwaited(r) /\ FieldRuns(r) /\ StopsApart(r)
    BY <1>1, <1>8 DEF Orderly, OwnerOK, Owned, InOrder
  <2>2. \A s \in Calls : Of(s, r) => ~Live(s) /\ sessions[s] # "draining"
    BY <1>1, <1>4, <1>8, <2>1 DEF RunsAlone, DrainsAwaited, Alone
  <2>3. \A b \in Calls : Own(b, r) => calls'[b].at \notin {"bootstrap", "committed"}
    BY <1>1, <1>8, <1>2, <1>4, <2>1 DEF Moved, BootsAlone, Alone
  <2>4. BootsAlone(r)' /\ RunsAlone(r)' /\ DrainsAwaited(r)'
    BY <1>1, <1>4, <2>2, <2>3 DEF BootsAlone, RunsAlone, DrainsAwaited, Live
  <2>5. session[r] = NoCall
    BY <2>1, <2>2 DEF FieldRuns, Typed, LifecycleTypeOK
  <2>6. FieldRuns(r)'
    BY <1>1, <2>1, <2>5 DEF FieldRuns
  <2>7. StopsApart(r)'
    BY <1>1, <1>4, <1>6, <2>1, <2>3 DEF StopsApart
  <2>8. QED
    BY <2>4, <2>6, <2>7 DEF InOrder
<1>9. QED
  BY <1>5, <1>7, <1>8 DEF OwnerOK, Owned, InOrder

\* A session settles that nobody runs; a late collection is made on one that streams.
LEMMA OwnerSettles ==
  ASSUME Typed, SessionOK, OwnerOK, Settles PROVE OwnerOK'
<1>1. CASE \E c \in Calls : Drained(c)
  <2>1. PICK c \in Calls : Drained(c)
    BY <1>1
  <2>2. /\ UNCHANGED <<calls, session, collection, overlapped, raced>> /\ sessions[c] = "draining"
        /\ \A s \in Calls : sessions'[s] = IF s = c THEN "stopped" ELSE sessions[s]
    BY <2>1 DEF Drained, fields, conduct, Typed, LifecycleTypeOK
  <2>3. SUFFICES ASSUME NEW r \in Runtimes, Orderly(r)
                 PROVE  InOrder(r)'
    BY <2>2 DEF OwnerOK, Owned, Orderly
  <2>4. BootsAlone(r) /\ RunsAlone(r) /\ DrainsAwaited(r) /\ FieldRuns(r) /\ StopsApart(r)
    BY <2>3 DEF OwnerOK, Owned, InOrder
  <2>5. \A b \in Calls : 
          /\ (Of(b, r)' <=> Of(b, r)) /\ (Own(b, r)' <=> Own(b, r)) /\ (Alone(b, r)' <=> Alone(b, r))
          /\ (Live(b)' <=> Live(b)) /\ (Apart(b, r)' <=> Apart(b, r))
    BY <2>2 DEF Of, Own, Made, Alone, Live, Apart
  <2>6. BootsAlone(r)'
    BY <2>2, <2>4, <2>5 DEF BootsAlone
  <2>7. RunsAlone(r)'
    BY <2>2, <2>4, <2>5 DEF RunsAlone, Live
  <2>8. DrainsAwaited(r)'
    <3>1. SUFFICES ASSUME NEW s \in Calls, Of(s, r), sessions[s] = "draining"
                   PROVE  \E b \in Calls :
                            /\ Own(b, r)' /\ Alone(b, r)'
                            /\ calls'[b].at \in {"closing", "stopping"} /\ calls'[b].held = s
      BY <2>2, <2>5 DEF DrainsAwaited
    <3>2. PICK b \in Calls : /\ Own(b, r) /\ Alone(b, r)
                             /\ calls[b].at \in {"closing", "stopping"} /\ calls[b].held = s
      BY <2>4, <3>1 DEF DrainsAwaited
    <3>3. QED
      BY <2>2, <2>5, <3>2
  <2>9. FieldRuns(r)'
    <3>1. session[r] # NoCall => session[r] \in Calls
      BY DEF Typed, LifecycleTypeOK
    <3>2. QED
      BY <2>2, <2>4, <2>5, <3>1 DEF FieldRuns
  <2>10. StopsApart(r)'
    BY <2>2, <2>4, <2>5 DEF StopsApart
  <2>11. QED
    BY <2>6, <2>7, <2>8, <2>9, <2>10 DEF InOrder
<1>2. CASE \E r \in Runtimes : CreateCollection(r)
  <2>1. PICK r \in Runtimes : CreateCollection(r)
    BY <1>2
  <2>2. UNCHANGED <<calls, session, sessions, overlapped, raced>> /\ session[r] # NoCall
    BY <2>1 DEF CreateCollection, fields, outside, conduct
  <2>3. ASSUME NEW x \in Runtimes, Orderly(x) PROVE FieldRuns(x)'
    <3>1. FieldRuns(x)
      BY <2>3 DEF OwnerOK, Owned, InOrder
    <3>2. CASE x # r \/ collection'[x] = "early"
      <4>1. x # r => collection'[x] = collection[x]
        BY <2>1 DEF CreateCollection, Typed, LifecycleTypeOK
      <4>2. QED
        BY <2>2, <3>1, <3>2, <4>1 DEF FieldRuns, Of, Made, Live
    <3>3. CASE x = r /\ collection'[x] # "early"
      <4>1. sessions[session[r]] # "connecting"
        BY <2>1, <3>3 DEF CreateCollection, Typed, LifecycleTypeOK
      <4>2. QED
        BY <2>2, <3>1, <3>3, <4>1 DEF FieldRuns, Of, Made, Live
    <3>4. QED
      BY <3>2, <3>3
  <2>4. QED
    BY <2>2, <2>3 DEF OwnerOK, Owned, InOrder, Orderly, BootsAlone, RunsAlone, DrainsAwaited,
       StopsApart, Apart, Alone, Of, Own, Made, Live
<1>3. QED
  BY <1>1, <1>2 DEF Settles

\* Nothing is there at first.
LEMMA OwnerInit == LifecycleInit => OwnerOK
<1> SUFFICES ASSUME LifecycleInit, NEW r \in Runtimes
             PROVE  InOrder(r)
  BY DEF OwnerOK, Owned, InOrder
<1>1. \A c \in Calls : ~Of(c, r)
  BY DEF LifecycleInit, Of, Made
<1>2. QED
  BY <1>1 DEF LifecycleInit, InOrder, BootsAlone, RunsAlone, DrainsAwaited, FieldRuns,
     StopsApart, Apart, Own

\* Every step keeps the owner's runtimes in order.
LEMMA OwnerStep ==
  ASSUME Typed, SessionOK, OwnerOK, [LifecycleNext]_vars PROVE OwnerOK'
<1>1. CASE \E c \in Calls, r \in Runtimes : Opens(c, r, "start") \/ Opens(c, r, "provision")
  BY <1>1, OwnerOpens
<1>2. CASE \E c \in Calls, r \in Runtimes : Stop(c, r)
  BY <1>2, OwnerStops
<1>3. CASE \E s, c \in Calls : Fatal(s, c)
  BY <1>3, OwnerFatal
<1>4. CASE UNCHANGED <<calls, session, sessions, collection, overlapped, raced>>
  <2>1. SUFFICES ASSUME NEW r \in Runtimes PROVE Owned(r)'
    BY DEF OwnerOK
  <2>2. \A b \in Calls : /\ (Of(b, r)' <=> Of(b, r)) /\ (Own(b, r)' <=> Own(b, r))
                         /\ (Apart(b, r)' <=> Apart(b, r))
    BY <1>4 DEF Of, Own, Made, Apart
  <2>3. \A s \in Calls : Of(s, r) /\ Live(s) => Own(s, r)
    BY OpenedByOwner DEF Live
  <2>4. QED
    BY <1>4, <2>2, <2>3, OwnerUntouched DEF OwnerOK
<1>5. CASE \E c \in Calls : BootLock(c) \/ BootReplication(c) \/ BootEvents(c)
  BY <1>4, <1>5 DEF BootLock, BootReplication, BootEvents, Unmoved, fields, outside, conduct
<1>6. CASE \E c \in Calls : BootCommit(c)
  BY <1>6, OwnerCommit
<1>7. CASE \E c \in Calls : Ends(c)
  BY <1>7, OwnerEnds
<1>8. CASE \E c \in Calls : OpenSession(c) \/ Ready(c) \/ ReadyRejects(c) \/ StoreEnded(c)
  BY <1>8, OwnerOpenSession, OwnerReady, OwnerReadyRejects, OwnerStoreEnded
<1>9. CASE Settles
  BY <1>9, OwnerSettles
<1>10. CASE ChangeByHand
  BY <1>4, <1>10 DEF ChangeByHand, Unmoved, fields, outside, conduct
<1>11. CASE UNCHANGED vars
  BY <1>4, <1>11 DEF vars, fields, outside, conduct
<1>12. QED
  BY <1>1, <1>2, <1>3, <1>5, <1>6, <1>7, <1>8, <1>9, <1>10, <1>11, Groups

\* An owner that awaits each of his calls keeps his runtimes in order: BootsAlone,
\* RunsAlone, DrainsAwaited and FieldRuns hold also if he starts again while the
\* stop of a fatal error is in flight, and StopsApart as long as he does not.
THEOREM OwnerInvariant == LifecycleSpec => []OwnerOK
<1>1. (Typed /\ SessionOK) /\ OwnerOK /\ [LifecycleNext]_vars => OwnerOK'
  BY OwnerStep
<1>2. QED
  BY <1>1, OwnerInit, LifecycleInvariant, PTL DEF LifecycleSpec

\* No session streams behind the back of an owner that awaits each of his calls:
\* starts fail and fatal errors come as they like, and the one session that the
\* driver runs is the one in this.session, also after a start beside the stop of a
\* fatal error.
THEOREM NoSessionIsLeaked == LifecycleSpec => []NoSessionLeaked
<1>1. OwnerOK => NoSessionLeaked
  BY DEF OwnerOK, Owned, InOrder, RunsAlone, NoSessionLeaked, SessionsOf, Of
<1>2. QED
  BY <1>1, OwnerInvariant, PTL

\* None of such an owner's own calls ends a store that a bootstrap uses, or a
\* session that streams or still has work in flight; the stop of a fatal error does
\* only if he calls start or provision before it is over.  (He cannot await it, and
\* without that exception the theorem would be false.)
THEOREM StoresCloseUnderNoLoad == LifecycleSpec => []StoreClosesUnderNoLoad
<1>1. (Typed /\ SessionOK) /\ OwnerOK => StoreClosesUnderNoLoad
  <2> SUFFICES ASSUME Typed, SessionOK, OwnerOK, NEW c \in Calls, c \notin raced,
                      InFlight(c), calls[c].at = "ending", Orderly(calls[c].runtime)
               PROVE  ~Loaded(calls[c].runtime)
    BY DEF StoreClosesUnderNoLoad
  <2> DEFINE r == calls[c].runtime
  <2>1. r \in Runtimes /\ Of(c, r)
    BY MadeIsCall DEF InFlight, Typed, LifecycleTypeOK, Call, Of
  <2>2. BootsAlone(r) /\ RunsAlone(r) /\ DrainsAwaited(r) /\ StopsApart(r)
    BY <2>1 DEF OwnerOK, Owned, InOrder
  <2>3. \A s \in SessionsOf(r) : s \in Calls /\ Of(s, r)
    BY DEF SessionsOf, Of
  <2>4. \A b \in Calls : Bootstrapping(b) /\ calls[b].runtime = r =>
          Own(b, r) /\ calls[b].at = "bootstrap"
    BY DEF Bootstrapping, IsAt, Own, Of
  <2>5. CASE Own(c, r)
    <3>1. ASSUME NEW s \in SessionsOf(r) PROVE ~Live(s) /\ sessions[s] # "draining"
      BY <2>2, <2>3, <2>5 DEF RunsAlone, DrainsAwaited, Alone
    <3>2. ASSUME NEW b \in Calls, Bootstrapping(b), calls[b].runtime = r PROVE FALSE
      BY <2>2, <2>4, <2>5, <3>2 DEF BootsAlone, Alone
    <3>3. QED
      BY <3>1, <3>2 DEF Loaded
  <2>6. CASE ~Own(c, r)
    <3>1. Apart(c, r)
      BY <2>1, <2>6 DEF Own, Apart
    <3>2. QED
      BY <2>2, <2>3, <2>4, <3>1 DEF StopsApart, Loaded, Live
  <2>7. QED
    BY <2>5, <2>6
<1>2. QED
  BY <1>1, OwnerInvariant, LifecycleInvariant, PTL

\* A collection made after start() resolved ends with the runtime: none is left
\* when an orderly runtime is idle, whether it was stopped or failed.
THEOREM NoCollectionIsStranded == LifecycleSpec => []NoStrandedCollection
<1>1. OwnerOK => NoStrandedCollection
  BY DEF OwnerOK, Owned, InOrder, FieldRuns, NoStrandedCollection
<1>2. QED
  BY <1>1, OwnerInvariant, PTL
=============================================================================
