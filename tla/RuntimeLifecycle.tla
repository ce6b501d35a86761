--------------------------- MODULE RuntimeLifecycle ---------------------------
(***************************************************************************)
(* start, stop and provision of PulseRuntime (server/pulse-runtime.ts),    *)
(* which share two fields, session and store, across their awaits, the     *)
(* stop that a fatal replication error causes, and the embedded client's   *)
(* collections, which end with the runtime.                                *)
(*                                                                         *)
(* A call is a record with the await it is at.  The store it creates and   *)
(* the session it opens are named after it.  Every runtime is one process  *)
(* over the database of Bootstrap.                                         *)
(***************************************************************************)
EXTENDS Bootstrap

CONSTANTS
  Deployers,  \* runtimes that only provision: a deploy or migration step
  Overlap     \* calls may be made while others are at an await

\* A call: `held` is the session or store that it awaits the end of.  The stop
\* that handleFatal makes ("fatal") is nobody's to await.
Call ==
  [kind : {"start", "provision", "stop", "fatal"}, runtime : Runtimes,
   at : {"bootstrap", "committed", "ready", "closing", "stopping", "ending", "done"},
   held : Calls \union {NoCall}]

ASSUME LifecycleAssumption ==
  /\ Calls \subseteq Nat /\ Deployers \subseteq Runtimes
  /\ None \notin Call
  /\ Overlap \in BOOLEAN

VARIABLES
  calls,      \* the calls made, by identity
  session,    \* this.session of every runtime
  store,      \* this.store
  epochs,     \* this.eventsEpochs
  sessions,   \* the driver's replication sessions
  stores,     \* the stores' connection pools
  collection, \* a live collection, and whether it was made before start() resolved
  overlapped, \* auxiliary: calls of a runtime's owner have overlapped
  raced       \* auxiliary: the fatal stops beside which its owner booted again

fields  == <<session, store, epochs>>
outside == <<sessions, stores>>
conduct == <<overlapped, raced>>
vars    == <<bootVars, calls, fields, outside, collection, conduct>>

LifecycleTypeOK ==
  /\ BootTypeOK
  /\ calls \in [Calls -> Call \union {None}]
  /\ session \in [Runtimes -> Calls \union {NoCall}]
  /\ store \in [Runtimes -> Calls \union {NoCall}]
  /\ epochs \in [Runtimes -> [Tables -> Nat \union {None}]]
  /\ sessions \in [Calls -> {"none", "connecting", "streaming", "failed", "draining", "stopped"}]
  /\ stores \in [Calls -> {"none", "open", "ended"}]
  /\ collection \in [Runtimes -> {"none", "early", "late"}]
  /\ overlapped \in [Runtimes -> BOOLEAN]
  /\ raced \subseteq Calls

Made(c)     == calls[c] # None
InFlight(c) == Made(c) /\ calls[c].at # "done"
Busy(r)     == \E c \in Calls : InFlight(c) /\ calls[c].runtime = r
IsAt(c, kinds, at) == Made(c) /\ calls[c].kind \in kinds /\ calls[c].at = at

\* The owner of r is at an await; r's fatal stops are.
Attending(r)  == \E c \in Calls : InFlight(c) /\ calls[c].runtime = r /\ calls[c].kind # "fatal"
FatalStops(r) == {c \in Calls : InFlight(c) /\ calls[c].runtime = r /\ calls[c].kind = "fatal"}

Live(s) == sessions[s] \in {"connecting", "streaming"}

\* The owner of r has awaited every call so far; the sessions named by r's calls.
Orderly(r)    == ~overlapped[r]
SessionsOf(r) == {c \in Calls : Made(c) /\ calls[c].runtime = r /\ sessions[c] # "none"}

------------------------------------------------------------------------------
LifecycleInit ==
  /\ BootInit
  /\ calls = [c \in Calls |-> None]
  /\ session = [r \in Runtimes |-> NoCall]
  /\ store = [r \in Runtimes |-> NoCall]
  /\ epochs = [r \in Runtimes |-> [t \in Tables |-> None]]
  /\ sessions = [c \in Calls |-> "none"]
  /\ stores = [c \in Calls |-> "none"]
  /\ collection = [r \in Runtimes |-> "none"]
  /\ overlapped = [r \in Runtimes |-> FALSE]
  /\ raced = {}

\* Call c goes on to its next await.
Goes(c, at) == calls' = [calls EXCEPT ![c].at = at]

\* A call by the runtime's owner, who need not wait for the others and cannot
\* wait for a fatal stop.
Begin(c, kind, r, at, held) ==
  /\ ~Made(c) /\ \A b \in Calls : b < c => Made(b)
  /\ Overlap \/ ~Attending(r)
  /\ calls' = [calls EXCEPT ![c] = [kind |-> kind, runtime |-> r, at |-> at, held |-> held]]
  /\ overlapped' = [overlapped EXCEPT ![r] = @ \/ Attending(r)]
  /\ raced' = IF kind = "stop" THEN raced ELSE raced \union FatalStops(r)

\* this.store ??= new PulseStore
AdoptStore(c, r) ==
  IF store[r] = NoCall
  THEN /\ store' = [store EXCEPT ![r] = c]
       /\ stores' = [stores EXCEPT ![c] = "open"]
  ELSE UNCHANGED <<store, stores>>

------------------------------------------------------------------------------
(***************************************************************************)
(* start and provision up to the end of the transaction.                   *)
(***************************************************************************)
\* start: nothing happens when a session is there.
Start(c, r) ==
  /\ session[r] = NoCall
  /\ AdoptStore(c, r)
  /\ Begin(c, "start", r, "bootstrap", store'[r])
  /\ UNCHANGED <<bootVars, session, epochs, sessions, collection>>

\* provision: it throws when a session is there.
Provision(c, r) ==
  /\ session[r] = NoCall
  /\ AdoptStore(c, r)
  /\ Begin(c, "provision", r, "bootstrap", store'[r])
  /\ UNCHANGED <<bootVars, session, epochs, sessions, collection>>

Unmoved == UNCHANGED <<calls, fields, outside, collection, conduct>>

\* bootstrap uses the store that was there as it began.
Bootstrapping(c) == IsAt(c, {"start", "provision"}, "bootstrap")
Usable(c)        == stores[calls[c].held] = "open"

BootLock(c)        == Bootstrapping(c) /\ Usable(c) /\ Lock(c) /\ Unmoved
BootReplication(c) == Bootstrapping(c) /\ ProvisionReplication(c, calls[c].runtime) /\ Unmoved
BootEvents(c)      == Bootstrapping(c) /\ ProvisionEvents(c, calls[c].runtime) /\ Unmoved

\* The new epochs are kept once the transaction's answer is there.
BootCommit(c) ==
  /\ Bootstrapping(c)
  /\ CommitBoot(c, calls[c].runtime)
  /\ epochs' = [epochs EXCEPT ![calls[c].runtime] = Epochs(tx.db, calls[c].runtime)]
  /\ Goes(c, "committed")
  /\ UNCHANGED <<session, store, outside, collection, conduct>>

\* The store field of r is cleared and its pool ended, by call c.
Mut_EndStore(c, r) ==
  /\ store' = [store EXCEPT ![r] = NoCall]
  /\ calls' = [calls EXCEPT ![c].at = "done"]
  /\ UNCHANGED stores

\* The store is cleared, and its pool's end awaited.
EndStore(c, r) ==
  /\ store' = [store EXCEPT ![r] = NoCall]
  /\ calls' = [calls EXCEPT ![c].at = "ending", ![c].held = store[r]]
  /\ UNCHANGED stores

\* bootstrap throws: start's catch, provision's finally.
BootFails(c) ==
  /\ Bootstrapping(c)
  /\ IF tx.by = c THEN RollBack(c) ELSE UNCHANGED bootVars
  /\ LET r == calls[c].runtime IN
     /\ EndStore(c, r)
     /\ session' = IF calls[c].kind = "start" THEN [session EXCEPT ![r] = NoCall] ELSE session
  /\ UNCHANGED <<epochs, sessions, collection, conduct>>

\* provision's finally.
Provisioned(c) ==
  /\ IsAt(c, {"provision"}, "committed")
  /\ EndStore(c, calls[c].runtime)
  /\ UNCHANGED <<bootVars, session, epochs, sessions, collection, conduct>>

------------------------------------------------------------------------------
(***************************************************************************)
(* openSession.                                                            *)
(***************************************************************************)
OpenSession(c) ==
  /\ IsAt(c, {"start"}, "committed")
  /\ session' = [session EXCEPT ![calls[c].runtime] = c]
  /\ sessions' = [sessions EXCEPT ![c] = "connecting"]
  /\ Goes(c, "ready")
  /\ UNCHANGED <<bootVars, store, epochs, stores, collection, conduct>>

\* session.ready resolves: the stream is open, and start() resolves.
Ready(c) ==
  /\ IsAt(c, {"start"}, "ready")
  /\ sessions[c] = "connecting"
  /\ PullEnabled => store[calls[c].runtime] # NoCall  \* or backfill and onResume throw
  /\ sessions' = [sessions EXCEPT ![c] = "streaming"]
  /\ Goes(c, "done")
  /\ UNCHANGED <<bootVars, fields, stores, collection, conduct>>

\* The session is left to the driver, which keeps retrying.
Mut_ReadyRejects(c) ==
  /\ IsAt(c, {"start"}, "ready")
  /\ LET r == calls[c].runtime IN
     /\ session' = [session EXCEPT ![r] = NoCall]
     /\ EndStore(c, r)
  /\ UNCHANGED <<bootVars, epochs, sessions, collection, conduct>>

\* session.ready rejects: the session is stopped first.
ReadyRejects(c) ==
  /\ IsAt(c, {"start"}, "ready")
  /\ session' = [session EXCEPT ![calls[c].runtime] = NoCall]
  /\ sessions' = [sessions EXCEPT ![c] = IF Live(c) THEN "draining" ELSE @]
  /\ calls' = [calls EXCEPT ![c].at = "closing", ![c].held = c]
  /\ UNCHANGED <<bootVars, store, epochs, stores, collection, conduct>>

\* session.stop() has settled: start's catch.
Closed(c) ==
  /\ IsAt(c, {"start"}, "closing")
  /\ sessions[calls[c].held] \in {"stopped", "failed"}
  /\ session' = [session EXCEPT ![calls[c].runtime] = NoCall]
  /\ EndStore(c, calls[c].runtime)
  /\ UNCHANGED <<bootVars, epochs, sessions, collection, conduct>>

------------------------------------------------------------------------------
(***************************************************************************)
(* stop, and handleFatal.                                                  *)
(***************************************************************************)
\* stop that does not call the listeners.
Mut_StopSession(r, base) ==
  /\ UNCHANGED collection
  /\ session' = [session EXCEPT ![r] = NoCall]
  /\ sessions' = IF session[r] # NoCall /\ base[session[r]] \in {"connecting", "streaming"}
                 THEN [base EXCEPT ![session[r]] = "draining"] ELSE base

\* stop: the listeners, then the field, then session.stop().  base is what the
\* driver has done to the sessions in the same step.
StopSession(r, base) ==
  /\ collection' = [collection EXCEPT ![r] = "none"]
  /\ session' = [session EXCEPT ![r] = NoCall]
  /\ sessions' = IF session[r] # NoCall /\ base[session[r]] \in {"connecting", "streaming"}
                 THEN [base EXCEPT ![session[r]] = "draining"] ELSE base

Stop(c, r) ==
  /\ Begin(c, "stop", r, "stopping", session[r])
  /\ StopSession(r, sessions)
  /\ UNCHANGED <<bootVars, store, epochs, stores>>

\* The driver gives a session up; onFatalError calls stop() at once, whatever
\* calls of the owner are at an await.
Fatal(s, c) ==
  /\ Live(s)
  /\ ~Made(c) /\ \A b \in Calls : b < c => Made(b)
  /\ LET r == calls[s].runtime IN
     /\ calls' = [calls EXCEPT ![c] =
                    [kind |-> "fatal", runtime |-> r, at |-> "stopping", held |-> session[r]]]
     /\ StopSession(r, [sessions EXCEPT ![s] = "failed"])
  /\ UNCHANGED <<bootVars, store, epochs, stores, conduct>>

\* The store is closed beside the session, not after it.
Mut_SessionStopped(c) ==
  /\ IsAt(c, {"stop", "fatal"}, "stopping")
  /\ EndStore(c, calls[c].runtime)
  /\ UNCHANGED <<bootVars, session, epochs, sessions, collection, conduct>>

\* session?.stop() has settled: the store is cleared and ended.
SessionStopped(c) ==
  /\ IsAt(c, {"stop", "fatal"}, "stopping")
  /\ calls[c].held # NoCall => sessions[calls[c].held] \in {"stopped", "failed"}
  /\ EndStore(c, calls[c].runtime)
  /\ UNCHANGED <<bootVars, session, epochs, sessions, collection, conduct>>

\* store?.end() has settled.
StoreEnded(c) ==
  /\ InFlight(c) /\ calls[c].at = "ending"
  /\ stores' = IF calls[c].held = NoCall THEN stores ELSE [stores EXCEPT ![calls[c].held] = "ended"]
  /\ Goes(c, "done")
  /\ UNCHANGED <<bootVars, fields, sessions, collection, conduct>>

\* The work in flight of a session that is being stopped has settled.
Drained(s) ==
  /\ sessions[s] = "draining"
  /\ sessions' = [sessions EXCEPT ![s] = "stopped"]
  /\ UNCHANGED <<bootVars, calls, fields, stores, collection, conduct>>

\* The embedded client's factory requires isRunning.
CreateCollection(r) ==
  /\ session[r] # NoCall
  /\ collection[r] = "none"
  /\ collection' = [collection EXCEPT ![r] =
                      IF sessions[session[r]] = "connecting" THEN "early" ELSE "late"]
  /\ UNCHANGED <<bootVars, calls, fields, outside, conduct>>

ChangeByHand ==
  /\ \E t \in Tables : DropEventsTable(t) \/ ResetIdentity(t) \/ CreateByHand(t)
  /\ Unmoved

------------------------------------------------------------------------------
Advance(c) ==
  \/ BootLock(c)
  \/ BootReplication(c)
  \/ BootEvents(c)
  \/ BootCommit(c)
  \/ Provisioned(c)
  \/ OpenSession(c)
  \/ Closed(c)
  \/ SessionStopped(c)
  \/ StoreEnded(c)

LifecycleNext ==
  \/ \E c \in Calls, r \in Runtimes : Provision(c, r)
  \/ \E c \in Calls, r \in Runtimes \ Deployers : Start(c, r) \/ Stop(c, r)
  \/ \E c \in Calls :
       Advance(c) \/ BootFails(c) \/ Ready(c) \/ ReadyRejects(c) \/ Drained(c)
  \/ \E s, c \in Calls : Fatal(s, c)
  \/ \E r \in Runtimes : CreateCollection(r)
  \/ ChangeByHand

LifecycleSpec == LifecycleInit /\ [][LifecycleNext]_vars

------------------------------------------------------------------------------
(***************************************************************************)
(* Properties.                                                             *)
(***************************************************************************)
\* No pool is left open ("a failed guard doesn't leak connections"): once a
\* runtime has neither a session nor a call in flight, every store it ever made
\* has been ended, however its calls and fatal errors overlapped.
IdleHoldsNothing ==
  \A r \in Runtimes : ~Busy(r) /\ session[r] = NoCall =>
    /\ store[r] = NoCall
    /\ \A c \in Calls : Made(c) /\ calls[c].runtime = r => stores[c] # "open"

\* No session streams behind the runtime's back: if the owner awaits each of his
\* calls, a session that the driver still runs is the one in this.session,
\* whenever and however starts fail and fatal errors come, also if he starts
\* again while the stop of a fatal error, which he cannot await, is in flight.
NoSessionLeaked ==
  \A r \in Runtimes : Orderly(r) =>
    \A s \in SessionsOf(r) : Live(s) => session[r] = s

\* Something of r uses its store: a session with work in flight, or a bootstrap.
Loaded(r) ==
  \/ \E s \in SessionsOf(r) : Live(s) \/ sessions[s] = "draining"
  \/ \E b \in Calls : Bootstrapping(b) /\ calls[b].runtime = r

\* If the owner awaits each of his calls, no store is ended under load, by his own
\* calls never, and by the stop of a fatal error only if he calls start or
\* provision while that stop, which he cannot await, is in flight.  Then it is: what
\* pulse-runtime.ts:498 says of stop ("the store below closes under no load"),
\* which is this without the exception, is false.
StoreClosesUnderNoLoad ==
  \A c \in Calls \ raced :
    InFlight(c) /\ calls[c].at = "ending" /\ Orderly(calls[c].runtime) =>
      ~Loaded(calls[c].runtime)

\* A collection made after start() had resolved ends with its runtime, if the owner
\* awaits each of his calls: an idle runtime has none left, whether it was stopped,
\* failed, or was started again and failed then.  One made before start() resolved
\* is told nothing if that start fails.
NoStrandedCollection ==
  \A r \in Runtimes : Orderly(r) /\ ~Busy(r) /\ session[r] = NoCall =>
    collection[r] # "late"

\* Nobody waits in vain: the lock's holder is a call still inside bootstrap, and
\* a session whose end is awaited has been told to stop or has failed, whoever
\* did that.  Calls only move forward, so that each of them returns.
WaitsEnd ==
  /\ tx.by # NoCall => Bootstrapping(tx.by)
  /\ \A c \in Calls : InFlight(c) /\ calls[c].at \in {"closing", "stopping"} =>
       calls[c].held = NoCall \/ ~Live(calls[c].held)
=============================================================================
