------------------------------ MODULE EventsLog ------------------------------
(***************************************************************************)
(* What the replication side promises the readers of the events tables     *)
(* (docs/events-table-convention.md, sections 3 and 5), stated without     *)
(* slots, sessions, watermarks or crashes.                                 *)
(*                                                                         *)
(* The source database commits a sequence of transactions.  Commits are    *)
(* covered one by one, in commit order, and covering a commit puts it in   *)
(* the log of every table it touched, atomically.  The only other thing    *)
(* that ever happens is that tables start over: their logs are emptied     *)
(* under a fresh generation (the epoch a cursor token carries); a start    *)
(* over of every table may jump forward over commits nobody will read.     *)
(***************************************************************************)
EXTENDS Integers, Sequences

CONSTANT Tables

VARIABLES
  commits,     \* commits[i]: the tables transaction i touched
  covered,     \* the commits the log accounts for
  log,         \* log[t]: the commits readable in t's current generation
  generation   \* generation[t]: identifies the current incarnation of the log

vars == <<commits, covered, log, generation>>

Init ==
  /\ commits = <<>>
  /\ covered = {}
  /\ log = [t \in Tables |-> {}]
  /\ generation = [t \in Tables |-> 0]

AppendCommit ==
  /\ \E S \in SUBSET Tables : commits' = Append(commits, S)
  /\ UNCHANGED <<covered, log, generation>>

\* The first commit not covered yet is published to the tables it touched.
Publish ==
  \E n \in 1..Len(commits) :
    /\ n \notin covered
    /\ \A m \in 1..(n - 1) : m \in covered
    /\ covered' = covered \union {n}
    /\ log' = [t \in Tables |->
                 IF t \in commits[n] THEN log[t] \union {n} ELSE log[t]]
    /\ UNCHANGED <<commits, generation>>

\* The tables of T start over.
StartOver(T) ==
  /\ \A t \in Tables : t \in T <=> generation'[t] # generation[t]
  /\ DOMAIN generation' = Tables
  /\ log' = [t \in Tables |-> IF t \in T THEN {} ELSE log[t]]
  /\ UNCHANGED commits

\* A recreated events table (schema drift): nothing is skipped.
Recreate == \E T \in SUBSET Tables : StartOver(T) /\ UNCHANGED covered

\* A new replication slot: every table starts over after the commits the
\* seeding snapshot already contains.
Resync ==
  /\ StartOver(Tables)
  /\ \E k \in 0..Len(commits) : covered \subseteq 1..k /\ covered' = 1..k

Next == AppendCommit \/ Publish \/ Recreate \/ Resync

Spec == Init /\ [][Next]_vars
=============================================================================
