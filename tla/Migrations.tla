----------------------------- MODULE Migrations -----------------------------
(***************************************************************************)
(* The migrations that every process applies before its plugins use the    *)
(* database: the promise the plugins of a process share, the advisory      *)
(* lock, the ledger "_prisma_migrations" and one transaction for each      *)
(* migration, with crashes, lost connections and commits whose answer is   *)
(* lost.                                                                   *)
(*                                                                         *)
(* A process is one life: its restart is another.  Its database session    *)
(* may outlive it, until the server notices that the connection is gone.   *)
(***************************************************************************)
EXTENDS Integers, Sequences

CONSTANTS Procs,     \* lives of processes that call initializePrisma
          Nobody,    \* no process
          Plugins,   \* plugins of a process
          Names,     \* migrations
          Sums,      \* checksums of migration files
          NoSum,     \* no file
          Shipped,   \* each process: its migrations, by name
          File       \* each process: the checksum of each migration's file

ASSUME NobodyAssumption == Nobody \notin Procs
ASSUME ShippedAssumption == Shipped \in [Procs -> Seq(Names)]
\* The names are those of directories.
ASSUME DistinctAssumption ==
  \A p \in Procs : \A i, j \in DOMAIN Shipped[p] : Shipped[p][i] = Shipped[p][j] => i = j
ASSUME FileAssumption == File \in [Procs -> [Names -> Sums \cup {NoSum}]]
ASSUME SumAssumption == NoSum \notin Sums

VARIABLES
  pc,      \* applyPrismaMigrations of each process: "off", "waiting" (for the
           \* lock), "locked", "next" (between migrations), "running" (inside
           \* a transaction), "committing", "leaving" and "failing" (in the
           \* finally block), "done", "failed", "crashed"
  calls,   \* plugins that await the promise of their process
  ready,   \* plugins for which it resolved
  at,      \* migrations a process has dealt with
  loaded,  \* the ledger as it was read
  lock,    \* the session that holds the advisory lock
  commit,  \* sessions with a COMMIT the server has not executed yet
  gone,    \* sessions whose connection is gone, which the server has not noticed
  ledger,  \* each migration's row: "none", "started" and "rolledback" (left by
           \* the Prisma CLI), "finished"; its checksum
  effects  \* how many times the migration's SQL took effect

vars == <<pc, calls, ready, at, loaded, lock, commit, gone, ledger, effects>>

Rows == [status : {"none", "started", "rolledback", "finished"}, sum : Sums \cup {NoSum}]
NoRow == [status |-> "none", sum |-> NoSum]

TypeOK ==
  /\ pc \in [Procs -> {"off", "waiting", "locked", "next", "running", "committing",
                       "leaving", "failing", "done", "failed", "crashed"}]
  /\ calls \in [Procs -> SUBSET Plugins]
  /\ ready \in [Procs -> SUBSET Plugins]
  /\ at \in [Procs -> Nat]
  /\ loaded \in [Procs -> [Names -> Rows]]
  /\ lock \in Procs \cup {Nobody}
  /\ commit \subseteq Procs
  /\ gone \subseteq Procs
  /\ ledger \in [Names -> Rows]
  /\ effects \in [Names -> Nat]

\* Rows that are there already agree with the schema.
Init ==
  /\ pc = [p \in Procs |-> "off"]
  /\ calls = [p \in Procs |-> {}]
  /\ ready = [p \in Procs |-> {}]
  /\ at = [p \in Procs |-> 0]
  /\ loaded = [p \in Procs |-> [n \in Names |-> NoRow]]
  /\ lock = Nobody
  /\ commit = {}
  /\ gone = {}
  /\ ledger \in [Names -> {r \in Rows : r.status = "none" <=> r.sum = NoSum}]
  /\ effects = [n \in Names |-> IF ledger[n].status = "finished" THEN 1 ELSE 0]

-----------------------------------------------------------------------------
\* A plugin's init calls initializePrisma; the first call starts the work.
Call(p, x) ==
  /\ pc[p] # "crashed" /\ x \notin calls[p] \cup ready[p]
  /\ calls' = [calls EXCEPT ![p] = @ \cup {x}]
  /\ pc' = [pc EXCEPT ![p] = IF @ = "off" THEN "waiting" ELSE @]
  /\ UNCHANGED <<ready, at, loaded, lock, commit, gone, ledger, effects>>

\* Faulty variant: the plugin goes on when a lock holder is at work.
ResolveEarly(p, x) ==
  /\ pc[p] \in {"leaving", "next", "done"} /\ x \in calls[p]
  /\ calls' = [calls EXCEPT ![p] = @ \ {x}]
  /\ ready' = [ready EXCEPT ![p] = @ \cup {x}]
  /\ UNCHANGED <<pc, at, loaded, lock, commit, gone, ledger, effects>>

\* The promise resolves for a plugin.  (A promise that was rejected is rejected
\* for every plugin of the process.)
Resolve(p, x) ==
  /\ pc[p] = "done" /\ x \in calls[p]
  /\ calls' = [calls EXCEPT ![p] = @ \ {x}]
  /\ ready' = [ready EXCEPT ![p] = @ \cup {x}]
  /\ UNCHANGED <<pc, at, loaded, lock, commit, gone, ledger, effects>>

\* Faulty variant: pg_try_advisory_lock, its answer not looked at.
AcquireOrNot(p) ==
  /\ pc[p] = "waiting"
  /\ lock' = IF lock = Nobody THEN p ELSE lock
  /\ pc' = [pc EXCEPT ![p] = "locked"]
  /\ UNCHANGED <<calls, ready, at, loaded, commit, gone, ledger, effects>>

Acquire(p) ==
  /\ pc[p] = "waiting" /\ lock = Nobody
  /\ lock' = p
  /\ pc' = [pc EXCEPT ![p] = "locked"]
  /\ UNCHANGED <<calls, ready, at, loaded, commit, gone, ledger, effects>>

\* Faulty variant: only the finished rows are read.
LoadFinished(p) ==
  /\ pc[p] = "locked"
  /\ loaded' = [loaded EXCEPT ![p] =
                  [n \in {k \in Names : ledger[k].status = "finished"} |-> ledger[n]]]
  /\ pc' = [pc EXCEPT ![p] = "next"]
  /\ UNCHANGED <<calls, ready, at, lock, commit, gone, ledger, effects>>

\* ensurePrismaMigrationsTable and loadAppliedMigrations.
Load(p) ==
  /\ pc[p] = "locked"
  /\ loaded' = [loaded EXCEPT ![p] = ledger]
  /\ pc' = [pc EXCEPT ![p] = "next"]
  /\ UNCHANGED <<calls, ready, at, lock, commit, gone, ledger, effects>>

More(p) == pc[p] = "next" /\ at[p] < Len(Shipped[p])
Current(p) == Shipped[p][at[p] + 1]
Existing(p) == loaded[p][Current(p)]
Matches(p) == Existing(p).sum = File[p][Current(p)]

\* Applied with this checksum; a row marked as rolled back counts as well.
Skip(p) ==
  /\ More(p) /\ Existing(p).status \in {"finished", "rolledback"} /\ Matches(p)
  /\ at' = [at EXCEPT ![p] = @ + 1]
  /\ UNCHANGED <<pc, calls, ready, loaded, lock, commit, gone, ledger, effects>>

\* Started and never finished, or applied from another file.
Refuse(p) ==
  /\ More(p)
  /\ \/ Existing(p).status = "started"
     \/ Existing(p).status # "none" /\ ~Matches(p)
  /\ pc' = [pc EXCEPT ![p] = "failing"]
  /\ UNCHANGED <<calls, ready, at, loaded, lock, commit, gone, ledger, effects>>

\* BEGIN; the row and the SQL, which nobody else sees before the COMMIT.
Begin(p) ==
  /\ More(p) /\ Existing(p).status = "none"
  /\ pc' = [pc EXCEPT ![p] = "running"]
  /\ UNCHANGED <<calls, ready, at, loaded, lock, commit, gone, ledger, effects>>

\* The SQL fails: ROLLBACK.
RollBack(p) ==
  /\ pc[p] = "running"
  /\ pc' = [pc EXCEPT ![p] = "failing"]
  /\ UNCHANGED <<calls, ready, at, loaded, lock, commit, gone, ledger, effects>>

SendCommit(p) ==
  /\ pc[p] = "running"
  /\ pc' = [pc EXCEPT ![p] = "committing"]
  /\ commit' = commit \cup {p}
  /\ UNCHANGED <<calls, ready, at, loaded, lock, gone, ledger, effects>>

\* Faulty variant: the row is not part of the transaction.
ExecuteUnrecorded(p) ==
  /\ p \in commit
  /\ commit' = commit \ {p}
  /\ effects' = [effects EXCEPT ![Current(p)] = @ + 1]
  /\ UNCHANGED <<pc, calls, ready, at, loaded, lock, gone, ledger>>

\* The server commits, whether or not the process is still there.
Execute(p) ==
  /\ p \in commit
  /\ commit' = commit \ {p}
  /\ ledger' = [ledger EXCEPT ![Current(p)] =
                  [status |-> "finished", sum |-> File[p][Current(p)]]]
  /\ effects' = [effects EXCEPT ![Current(p)] = @ + 1]
  /\ UNCHANGED <<pc, calls, ready, at, loaded, lock, gone>>

Committed(p) ==
  /\ pc[p] = "committing" /\ p \notin commit
  /\ at' = [at EXCEPT ![p] = @ + 1]
  /\ pc' = [pc EXCEPT ![p] = "next"]
  /\ UNCHANGED <<calls, ready, loaded, lock, commit, gone, ledger, effects>>

Finish(p) ==
  /\ pc[p] = "next" /\ at[p] = Len(Shipped[p])
  /\ pc' = [pc EXCEPT ![p] = "leaving"]
  /\ UNCHANGED <<calls, ready, at, loaded, lock, commit, gone, ledger, effects>>

\* Faulty variant: after an error the lock and the connection are kept.
ReleaseOnSuccess(p) ==
  /\ pc[p] \in {"leaving", "failing"}
  /\ pc' = [pc EXCEPT ![p] = IF @ = "leaving" THEN "done" ELSE "failed"]
  /\ lock' = IF pc[p] = "leaving" THEN Nobody ELSE lock
  /\ UNCHANGED <<calls, ready, at, loaded, commit, gone, ledger, effects>>

\* finally: pg_advisory_unlock and end.
Release(p) ==
  /\ pc[p] \in {"leaving", "failing"}
  /\ pc' = [pc EXCEPT ![p] = IF @ = "leaving" THEN "done" ELSE "failed"]
  /\ lock' = IF lock = p THEN Nobody ELSE lock
  /\ UNCHANGED <<calls, ready, at, loaded, commit, gone, ledger, effects>>

Working == {"waiting", "locked", "next", "running", "committing", "leaving", "failing"}

\* The connection breaks: the query that is under way throws, and those of the
\* catch and finally blocks fail as well.
Breaks(p) ==
  /\ pc[p] \in Working
  /\ pc' = [pc EXCEPT ![p] = "failed"]
  /\ gone' = gone \cup {p}
  /\ UNCHANGED <<calls, ready, at, loaded, lock, commit, ledger, effects>>

Crash(p) ==
  /\ pc[p] \in Working
  /\ pc' = [pc EXCEPT ![p] = "crashed"]
  /\ gone' = gone \cup {p}
  /\ UNCHANGED <<calls, ready, at, loaded, lock, commit, ledger, effects>>

\* The server ends a session whose connection is gone: the transaction, the
\* lock and a commit that it had not begun are no more.
ServerNotices(p) ==
  /\ p \in gone
  /\ gone' = gone \ {p}
  /\ commit' = commit \ {p}
  /\ lock' = IF lock = p THEN Nobody ELSE lock
  /\ UNCHANGED <<pc, calls, ready, at, loaded, ledger, effects>>

-----------------------------------------------------------------------------
Apply(p) ==
  \/ Acquire(p) \/ Load(p) \/ Skip(p) \/ Refuse(p) \/ Begin(p) \/ RollBack(p)
  \/ SendCommit(p) \/ Committed(p) \/ Finish(p) \/ Release(p)

Next ==
  \E p \in Procs :
    \/ \E x \in Plugins : Call(p, x) \/ Resolve(p, x)
    \/ Apply(p) \/ Execute(p) \/ Breaks(p) \/ Crash(p) \/ ServerNotices(p)

\* A process at work goes on, and so does the database server.
Fairness ==
  \A p \in Procs :
    /\ WF_vars(Load(p) \/ Skip(p) \/ Refuse(p) \/ Begin(p) \/ RollBack(p)
                 \/ SendCommit(p) \/ Committed(p) \/ Finish(p) \/ Release(p))
    /\ SF_vars(Acquire(p))
    /\ WF_vars(Execute(p))
    /\ WF_vars(ServerNotices(p))

Spec == Init /\ [][Next]_vars
FairSpec == Spec /\ Fairness

-----------------------------------------------------------------------------
\* The ledger tells the truth: the SQL of a migration took effect once if its
\* row says finished, and else never; across processes that start together,
\* crashes between any two steps, and commits whose answer is lost.
LedgerIsTrue ==
  \A n \in Names : effects[n] = IF ledger[n].status = "finished" THEN 1 ELSE 0

\* A plugin that goes on finds every migration its process ships applied, from
\* the same file, unless somebody has marked it as rolled back.
ReadyMeansMigrated ==
  \A p \in Procs : ready[p] # {} =>
    \A i \in 1..Len(Shipped[p]) :
      LET row == ledger[Shipped[p][i]] IN
      row.status \in {"finished", "rolledback"} /\ row.sum = File[p][Shipped[p][i]]

\* A plugin that waits is answered, or its process gives up: no crashed or
\* broken process keeps the lock for ever.
WaitingEnds ==
  \A p \in Procs : (pc[p] = "waiting") ~> (pc[p] \in {"done", "failed", "crashed"})
=============================================================================
