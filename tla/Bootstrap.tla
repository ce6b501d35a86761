------------------------------ MODULE Bootstrap ------------------------------
(***************************************************************************)
(* The provisioning of a database by PulseRuntime.bootstrap: one           *)
(* transaction under an advisory lock that brings replica identities, the  *)
(* publication, the events tables and pulse_meta in line with a registry.  *)
(*                                                                         *)
(* Runtimes with other registries or other table shapes provision the same *)
(* database (deploys), and its owner changes it by hand between boots.     *)
(* What a transaction has done so far is a working copy that nobody else   *)
(* sees; the locks its DDL takes keep hands off the database meanwhile.    *)
(***************************************************************************)
EXTENDS Integers

CONSTANTS
  Tables,      \* source tables; each names its events table too
  Runtimes,
  Registered,  \* Registered[r]: the source tables of r's registry
  Shapes,      \* the events-table DDL that a table's columns can give
  Shape,       \* Shape[r][t]: the one that r emits for t
  PullEnabled, \* config `pull` is not false
  Calls,       \* identities of start, provision and stop calls
  NoCall,
  None,        \* no table, no meta row, no epoch
  MaxChanges   \* bound: changes by hand

ASSUME BootstrapAssumption ==
  /\ Registered \in [Runtimes -> SUBSET Tables]
  /\ Shape \in [Runtimes -> [Tables -> Shapes]]
  /\ PullEnabled \in BOOLEAN
  /\ NoCall \notin Calls

VARIABLES
  db,       \* the catalogue, as committed
  tx,       \* the transaction that holds the advisory lock
  issued,   \* how many epochs (uuids) have been issued
  drifted,  \* auxiliary: tables whose replica identity was changed by hand
  changes   \* auxiliary: the number of changes by hand

bootVars == <<db, tx, issued, drifted, changes>>

\* born: the epoch issued as it was created, 0 if it was created by hand.
EventsTable == [shape : Shapes, born : Nat]
MetaRow     == [hash : Shapes, epoch : Nat]

\* A publication FOR ALL TABLES has no list of members.
Database ==
  [identity : [Tables -> {"full", "other"}],
   publication : {"none", "list", "all"}, members : SUBSET Tables,
   events : [Tables -> EventsTable \union {None}],
   meta : [Tables -> MetaRow \union {None}]]

NoTx == [by |-> NoCall, stage |-> "none", db |-> None]

Untouched(publication) ==
  [identity |-> [t \in Tables |-> "other"], publication |-> publication, members |-> {},
   events |-> [t \in Tables |-> None], meta |-> [t \in Tables |-> None]]

BootInit ==
  /\ \E publication \in {"none", "all"} : db = Untouched(publication)
  /\ tx = NoTx
  /\ issued = 0
  /\ drifted = {}
  /\ changes = 0

BootTypeOK ==
  /\ db \in Database
  /\ tx.by \in Calls \union {NoCall}
  /\ tx.by = NoCall => tx = NoTx
  /\ tx.by # NoCall => tx.stage \in {"replication", "events", "commit"} /\ tx.db \in Database
  /\ issued \in Nat
  /\ drifted \subseteq Tables
  /\ changes \in Nat

------------------------------------------------------------------------------
(***************************************************************************)
(* The transaction of call c for the registry of runtime r.                *)
(***************************************************************************)
\* pg_advisory_xact_lock
Lock(c) ==
  /\ tx.by = NoCall
  /\ tx' = [by |-> c, stage |-> "replication", db |-> db]
  /\ UNCHANGED <<db, issued, drifted, changes>>

\* Members that are registered no longer, if the publication has a list.
Unpulsed(d, r) == IF d.publication = "list" THEN d.members \ Registered[r] ELSE {}

\* REPLICA IDENTITY FULL on every source; DEFAULT on what leaves the publication.
Identified(d, r) ==
  [t \in Tables |-> IF t \in Registered[r] THEN "full"
                    ELSE IF t \in Unpulsed(d, r) THEN "other" ELSE d.identity[t]]

\* Tables that are registered no longer stay members.
Mut_Members(d, r) == IF d.publication = "all" THEN {} ELSE d.members \union Registered[r]

\* The publication's list, once it exists.
Members(d, r) == IF d.publication = "all" THEN {} ELSE Registered[r]

ProvisionReplication(c, r) ==
  /\ tx.by = c /\ tx.stage = "replication"
  /\ tx' = [tx EXCEPT !.stage = "events",
                      !.db.identity = Identified(tx.db, r),
                      !.db.publication = IF @ = "all" THEN "all" ELSE "list",
                      !.db.members = Members(tx.db, r)]
  /\ UNCHANGED <<db, issued, drifted, changes>>

\* A matching hash on a table that exists: its epoch is reused.
Reused(d, r, t) ==
  d.meta[t] # None /\ d.events[t] # None /\ d.meta[t].hash = Shape[r][t]

\* The conflicting upsert of a meta row leaves its epoch alone.
Mut_Meta(d, r, epoch) ==
  [t \in Tables |->
     IF t \notin Registered[r] THEN None
     ELSE IF Reused(d, r, t) THEN d.meta[t]
     ELSE [hash |-> Shape[r][t], epoch |-> IF d.meta[t] = None THEN epoch ELSE d.meta[t].epoch]]

\* pulse_meta afterwards: a recreated table has a new epoch, an orphan no row.
Meta(d, r, epoch) ==
  [t \in Tables |->
     IF t \notin Registered[r] THEN None
     ELSE IF Reused(d, r, t) THEN d.meta[t]
     ELSE [hash |-> Shape[r][t], epoch |-> epoch]]

\* The events tables afterwards: a table without a meta row that is not
\* registered either is somebody else's and stays.
Events(d, r, epoch) ==
  [t \in Tables |->
     IF t \in Registered[r]
     THEN IF Reused(d, r, t) THEN d.events[t] ELSE [shape |-> Shape[r][t], born |-> epoch]
     ELSE IF d.meta[t] # None THEN None ELSE d.events[t]]

ProvisionEvents(c, r) ==
  /\ tx.by = c /\ tx.stage = "events"
  /\ IF PullEnabled
     THEN /\ tx' = [tx EXCEPT !.stage = "commit",
                              !.db.events = Events(tx.db, r, issued + 1),
                              !.db.meta = Meta(tx.db, r, issued + 1)]
          /\ issued' = issued + 1
     ELSE /\ tx' = [tx EXCEPT !.stage = "commit"]
          /\ UNCHANGED issued
  /\ UNCHANGED <<db, drifted, changes>>

\* The epochs that the transaction returns.
Epochs(d, r) ==
  [t \in Tables |-> IF PullEnabled /\ t \in Registered[r] THEN d.meta[t].epoch ELSE None]

CommitBoot(c, r) ==
  /\ tx.by = c /\ tx.stage = "commit"
  /\ db' = tx.db
  /\ tx' = NoTx
  /\ drifted' = drifted \ Registered[r]
  /\ UNCHANGED <<issued, changes>>

\* A session's lock instead of a transaction's: it survives the rollback.
Mut_RollBack(c) ==
  /\ tx.by = c
  /\ tx' = [tx EXCEPT !.stage = "none"]
  /\ UNCHANGED <<db, issued, drifted, changes>>

\* A statement throws: wal_level, a missing grant, a lost connection.
RollBack(c) ==
  /\ tx.by = c
  /\ tx' = NoTx
  /\ UNCHANGED <<db, issued, drifted, changes>>

------------------------------------------------------------------------------
(***************************************************************************)
(* Changes by hand.                                                        *)
(***************************************************************************)
ByHand == tx.by = NoCall /\ changes < MaxChanges /\ changes' = changes + 1

\* An events table is dropped; its meta row stays.
DropEventsTable(t) ==
  /\ ByHand
  /\ db.events[t] # None
  /\ db' = [db EXCEPT !.events[t] = None]
  /\ UNCHANGED <<tx, issued, drifted>>

\* A replica identity is reset.
ResetIdentity(t) ==
  /\ ByHand
  /\ db.identity[t] = "full"
  /\ db' = [db EXCEPT !.identity[t] = "other"]
  /\ drifted' = drifted \union {t}
  /\ UNCHANGED <<tx, issued>>

\* A table is created that has the name of an events table, in the place of the one
\* that is there, if any; a meta row stays.
CreateByHand(t) ==
  /\ ByHand
  /\ \E shape \in Shapes : db' = [db EXCEPT !.events[t] = [shape |-> shape, born |-> 0]]
  /\ UNCHANGED <<tx, issued, drifted>>

------------------------------------------------------------------------------
(***************************************************************************)
(* Properties.                                                             *)
(***************************************************************************)
\* Whatever registries have provisioned the database, every table that the
\* publication lists has replica identity FULL, so that updates and deletes
\* carry the old row (bootstrap's order of ALTER TABLE, ADD and DROP), until
\* somebody changes it by hand; the next boot repairs that.
PublishedIsFull == \A t \in db.members \ drifted : db.identity[t] = "full"

\* An epoch names one incarnation of an events table: wherever bootstrap created
\* the table that exists, the epoch in pulse_meta is the one issued as it was
\* created, and its shape is the one hashed, through boots of other registries,
\* other shapes, failures and tables dropped or created by hand.  Cursor tokens
\* rely on it.  A table created by hand under the meta row of a dropped one is
\* taken for it, epoch and hash, and so is excepted.
EpochNamesIncarnation ==
  \A t \in Tables :
    db.meta[t] # None /\ db.events[t] # None /\ db.events[t].born # 0 =>
      db.meta[t].epoch = db.events[t].born /\ db.meta[t].hash = db.events[t].shape
=============================================================================
