----------------------------- MODULE Migrations -----------------------------
(***************************************************************************)
(* Start-up: every instance of the server opens the database and runs      *)
(* db.RunMigrations before it serves.  Several instances may start at once *)
(* on an empty database, and nothing but PostgreSQL keeps them apart.      *)
(*                                                                         *)
(* A statement that creates a table first looks whether it exists; if not, *)
(* it waits until no other open transaction has created it, and fails if   *)
(* one of them committed in between.  A primary key is waited for in the   *)
(* same way.  The CREATE TABLEs of one migration go to the server in one   *)
(* call and every instance sends them in the same order, so they are one   *)
(* look and one creation here.                                             *)
(*                                                                         *)
(* A process that dies, or gives up when its deadline (startupTimeout) is  *)
(* over, leaves its transaction to the server: it keeps its locks until it *)
(* is rolled back, or commits if the COMMIT was already sent.              *)
(***************************************************************************)
EXTENDS Naturals, Sequences, SequencesExt

CONSTANTS
  Instances,        \* the processes
  Versions,         \* the versions in the slice migrations, in order
  TablesOf,         \* the tables the SQL of each version creates
  SchemaMigrations, \* schemaMigrationsTable
  MaxFaults         \* bound: processes that die or give up

ASSUME MigrationsAssumption ==
  /\ Versions \in Seq(DOMAIN TablesOf)
  /\ IsInjective(Versions)
  /\ \A version \in DOMAIN TablesOf : SchemaMigrations \notin TablesOf[version]
  /\ MaxFaults \in Nat

VARIABLES
  tables,     \* the tables there are
  recorded,   \* the rows of schema_migrations
  pc,         \* where each instance is
  next,       \* the index of the loop over migrations
  absent,     \* the tables its CREATE TABLEs found missing
  tx,         \* what its open transaction has done so far
  abandoned,  \* transactions whose process is gone
  faults

locals == <<pc, next, absent, tx>>
vars == <<tables, recorded, locals, abandoned, faults>>

Locations == {"exited", "open", "ensure", "create_ledger", "check", "apply", "create",
              "record", "commit", "serving"}

Tables == (UNION {TablesOf[v] : v \in DOMAIN TablesOf}) \cup {SchemaMigrations}

\* The tables a transaction has created and the rows it has inserted.
Transactions == [tables : SUBSET Tables, rows : Seq(DOMAIN TablesOf)]

NoTx == [tables |-> {}, rows |-> << >>]

Init ==
  /\ tables = {}
  /\ recorded = << >>
  /\ pc = [i \in Instances |-> "exited"]
  /\ next = [i \in Instances |-> 1]
  /\ absent = [i \in Instances |-> {}]
  /\ tx = [i \in Instances |-> NoTx]
  /\ abandoned = {}
  /\ faults = 0

Goto(i, location) == pc' = [pc EXCEPT ![i] = location]

\* What the other open transactions have done and not committed.
OthersOf(i) == {tx[j] : j \in Instances \ {i}} \cup {a.tx : a \in abandoned}

CreatedByOthers(i) == UNION {t.tables : t \in OthersOf(i)}
RecordedByOthers(i) == UNION {Range(t.rows) : t \in OthersOf(i)}

\* The process ends and its locals are gone.
Leave(i) ==
  /\ Goto(i, "exited")
  /\ next' = [next EXCEPT ![i] = 1]
  /\ absent' = [absent EXCEPT ![i] = {}]
  /\ tx' = [tx EXCEPT ![i] = NoTx]

\* RunMigrations returns an error, its transaction is rolled back, main exits.
ExitWithError(i) ==
  /\ Leave(i)
  /\ UNCHANGED <<tables, recorded, abandoned, faults>>

-----------------------------------------------------------------------------
(* main, up to RunMigrations                                                *)

Start(i) ==
  /\ pc[i] = "exited"
  /\ Goto(i, "open")
  /\ UNCHANGED <<tables, recorded, next, absent, tx, abandoned, faults>>

Open(i) ==
  /\ pc[i] = "open"
  /\ Goto(i, "ensure")
  /\ UNCHANGED <<tables, recorded, next, absent, tx, abandoned, faults>>

-----------------------------------------------------------------------------
(* RunMigrations: CREATE TABLE IF NOT EXISTS schema_migrations, on its own  *)

LookForLedger(i) ==
  /\ pc[i] = "ensure"
  /\ Goto(i, IF SchemaMigrations \in tables THEN "check" ELSE "create_ledger")
  /\ UNCHANGED <<tables, recorded, next, absent, tx, abandoned, faults>>

CreateLedger(i) ==
  /\ pc[i] = "create_ledger"
  /\ SchemaMigrations \notin tables \cup CreatedByOthers(i)
  /\ tables' = tables \cup {SchemaMigrations}
  /\ Goto(i, "check")
  /\ UNCHANGED <<recorded, next, absent, tx, abandoned, faults>>

LedgerConflict(i) ==
  /\ pc[i] = "create_ledger"
  /\ SchemaMigrations \in tables
  /\ ExitWithError(i)

-----------------------------------------------------------------------------
(* RunMigrations: the loop                                                  *)

IsApplied(version) == \E n \in DOMAIN recorded : recorded[n] = version

\* Seeded bug: migrationApplied finds nothing.
NeverSkip(version) == FALSE

\* migrationApplied
MaySkip(version) == IsApplied(version)

Check(i) ==
  /\ pc[i] = "check"
  /\ next[i] <= Len(Versions)
  /\ IF MaySkip(Versions[next[i]])
     THEN next' = [next EXCEPT ![i] = @ + 1] /\ UNCHANGED pc
     ELSE Goto(i, "apply") /\ UNCHANGED next
  /\ UNCHANGED <<tables, recorded, absent, tx, abandoned, faults>>

Serve(i) ==
  /\ pc[i] = "check"
  /\ next[i] > Len(Versions)
  /\ Goto(i, "serving")
  /\ UNCHANGED <<tables, recorded, next, absent, tx, abandoned, faults>>

-----------------------------------------------------------------------------
(* applyMigration                                                           *)

LookForTables(i) ==
  /\ pc[i] = "apply"
  /\ absent' = [absent EXCEPT ![i] = TablesOf[Versions[next[i]]] \ tables]
  /\ Goto(i, "create")
  /\ UNCHANGED <<tables, recorded, next, tx, abandoned, faults>>

CreateTables(i) ==
  /\ pc[i] = "create"
  /\ absent[i] \cap (tables \cup CreatedByOthers(i)) = {}
  /\ tx' = [tx EXCEPT ![i].tables = absent[i]]
  /\ Goto(i, "record")
  /\ UNCHANGED <<tables, recorded, next, absent, abandoned, faults>>

TablesConflict(i) ==
  /\ pc[i] = "create"
  /\ absent[i] \cap tables # {}
  /\ absent[i] \cap CreatedByOthers(i) = {}
  /\ ExitWithError(i)

\* Seeded bug: schema_migrations has no primary key.
KeyIsFreeAlways(i, version) == TRUE

\* The primary key of schema_migrations makes the INSERT wait, and fail.
KeyIsFree(i, version) == version \notin RecordedByOthers(i) /\ ~IsApplied(version)

\* Seeded bug: the row is inserted through db and not through tx.
InsertRowOutside(i, version) == recorded' = Append(recorded, version) /\ UNCHANGED tx

InsertRow(i, version) ==
  tx' = [tx EXCEPT ![i].rows = Append(@, version)] /\ UNCHANGED recorded

Record(i) ==
  LET version == Versions[next[i]] IN
  /\ pc[i] = "record"
  /\ KeyIsFree(i, version)
  /\ InsertRow(i, version)
  /\ Goto(i, "commit")
  /\ UNCHANGED <<tables, next, absent, abandoned, faults>>

RecordConflict(i) ==
  LET version == Versions[next[i]] IN
  /\ pc[i] = "record"
  /\ version \notin RecordedByOthers(i)
  /\ IsApplied(version)
  /\ ExitWithError(i)

\* The effect of a COMMIT.
Install(t) ==
  /\ tables' = tables \cup t.tables
  /\ recorded' = recorded \o t.rows

\* Seeded bug: the index is advanced here and by the loop.
ForwardTwice(i) == next' = [next EXCEPT ![i] = @ + 2]

\* applyMigration has returned, the loop goes on with the next migration.
Forward(i) == next' = [next EXCEPT ![i] = @ + 1]

Commit(i) ==
  /\ pc[i] = "commit"
  /\ Install(tx[i])
  /\ tx' = [tx EXCEPT ![i] = NoTx]
  /\ absent' = [absent EXCEPT ![i] = {}]
  /\ Forward(i)
  /\ Goto(i, "check")
  /\ UNCHANGED <<abandoned, faults>>

-----------------------------------------------------------------------------
(* The end of a process, and what the server does with what it leaves       *)

\* The statement that would commit by itself if it was sent, or the COMMIT; any
\* other statement on its way can only make the others wait a little longer.
LeftBehind(i) ==
  CASE pc[i] = "create_ledger" ->
         {[tx |-> [NoTx EXCEPT !.tables = {SchemaMigrations}], sent |-> TRUE]}
    [] pc[i] = "commit" -> {[tx |-> tx[i], sent |-> sent] : sent \in BOOLEAN}
    [] OTHER -> {[tx |-> tx[i], sent |-> FALSE]}

\* Seeded bug: the error of tx.Commit is not returned, the loop goes on.
GiveUpUnlessCommitting(i) ==
  IF pc[i] # "commit" THEN Leave(i)
  ELSE Goto(i, "check") /\ Forward(i) /\ tx' = [tx EXCEPT ![i] = NoTx] /\ UNCHANGED absent

\* Seeded bug: applyMigration returns without a Rollback.
GiveUpWithoutRollback(i) ==
  /\ Goto(i, "exited")
  /\ next' = [next EXCEPT ![i] = 1]
  /\ absent' = [absent EXCEPT ![i] = {}]
  /\ UNCHANGED tx

GiveUp(i) == Leave(i)

\* A call fails (deadline, lost connection) or the process dies before it serves.
Die(i) ==
  /\ pc[i] \notin {"exited", "serving"}
  /\ faults < MaxFaults
  /\ faults' = faults + 1
  /\ \E left \in LeftBehind(i) : abandoned' = abandoned \cup {left}
  /\ GiveUp(i)
  /\ UNCHANGED <<tables, recorded>>

\* The server shuts down, in good order or not: RunMigrations is long over.
Stop(i) ==
  /\ pc[i] = "serving"
  /\ Leave(i)
  /\ UNCHANGED <<tables, recorded, abandoned, faults>>

RollBack(left) ==
  /\ left \in abandoned
  /\ abandoned' = abandoned \ {left}
  /\ UNCHANGED <<tables, recorded, locals, faults>>

CommitLate(left) ==
  /\ left \in abandoned
  /\ left.sent
  /\ left.tx.tables \cap tables = {}
  /\ Install(left.tx)
  /\ abandoned' = abandoned \ {left}
  /\ UNCHANGED <<locals, faults>>

-----------------------------------------------------------------------------

RunMigrations(i) ==
  \/ LookForLedger(i) \/ CreateLedger(i) \/ LedgerConflict(i)
  \/ Check(i) \/ Serve(i)
  \/ LookForTables(i) \/ CreateTables(i) \/ TablesConflict(i)
  \/ Record(i) \/ RecordConflict(i) \/ Commit(i)

Step(i) == Start(i) \/ Open(i) \/ RunMigrations(i)

End == \E left \in abandoned : RollBack(left) \/ CommitLate(left)

Next ==
  \/ \E i \in Instances : Step(i) \/ Die(i) \/ Stop(i)
  \/ End

Spec == Init /\ [][Next]_vars

\* Instances run, calls return, someone starts an instance that exited again,
\* and the server ends the transactions of the clients it lost.
Fairness ==
  /\ \A i \in Instances : WF_vars(Step(i))
  /\ WF_vars(End)

FairSpec == Spec /\ Fairness

-----------------------------------------------------------------------------
(* Properties                                                               *)

\* Every variable has its type.
TypeOK ==
  /\ tables \subseteq Tables
  /\ recorded \in Seq(DOMAIN TablesOf)
  /\ pc \in [Instances -> Locations]
  /\ next \in [Instances -> 1 .. Len(Versions) + 1]
  /\ absent \in [Instances -> SUBSET Tables]
  /\ tx \in [Instances -> Transactions]
  /\ abandoned \subseteq [tx : Transactions, sent : BOOLEAN]
  /\ faults \in 0 .. MaxFaults

\* However many instances start at once and wherever they die, each migration
\* is applied at most once, and in the order of the slice.
AppliedInOrder == IsPrefix(recorded, Versions)

\* A migration that is recorded has created its tables: no crash separates the two.
RecordedIsComplete ==
  \A n \in DOMAIN recorded : TablesOf[recorded[n]] \subseteq tables

\* An instance that serves finds every migration applied, by itself or another.
ServingIsMigrated ==
  \A i \in Instances : pc[i] = "serving" =>
    \A n \in DOMAIN Versions : IsApplied(Versions[n]) /\ TablesOf[Versions[n]] \subseteq tables

\* The statement i sends next has to wait for the end of transaction t.
WaitsFor(i, t) ==
  \/ pc[i] = "create_ledger" /\ SchemaMigrations \in t.tables
  \/ pc[i] = "create" /\ absent[i] \cap t.tables # {}
  \/ pc[i] = "record" /\ Versions[next[i]] \in Range(t.rows)

\* How far a migration has come where others can wait for it.
Stage(i) ==
  CASE pc[i] = "create" -> 1
    [] pc[i] = "record" -> 2
    [] pc[i] = "commit" -> 3
    [] OTHER -> 0

\* Instances never wait for each other in a circle, and never for one that has
\* left its migration: whoever waits, waits for one that has come further.
WaitsLeadForward ==
  \A i, j \in Instances : i # j /\ WaitsFor(i, tx[j]) => Stage(i) < Stage(j)

\* An instance that lost a race, died or was stopped serves in the end.
EveryInstanceServes ==
  \A i \in Instances : pc[i] # "serving" ~> pc[i] = "serving"
=============================================================================
