-------------------------- MODULE MigrationsProofs --------------------------
(***************************************************************************)
(* A recorded migration has its tables, for any number of instances, any   *)
(* slice of migrations and any deaths.  RecordedIsComplete is not          *)
(* inductive: what a COMMIT, of a live transaction or of one left behind,  *)
(* is about to record must have its tables too, there already or made by   *)
(* the same transaction, and so must what an instance will record next     *)
(* (CompleteInv).                                                          *)
(*                                                                         *)
(* The migrations are recorded in order: the row of at most one open       *)
(* transaction is waiting to be committed, and it is that of the migration *)
(* after the recorded ones (OrderInv).                                     *)
(***************************************************************************)
EXTENDS Migrations, TLAPS

\* The transaction records only what has its tables once it commits.
IsSound(t) == \A n \in DOMAIN t.rows : TablesOf[t.rows[n]] \subseteq tables \cup t.tables

\* Where an instance is in the loop and what it has done there.
CreatedBefore(i) ==
  /\ pc[i] \in {"apply", "create", "record", "commit"} => next[i] \in DOMAIN Versions
  /\ pc[i] = "create" => TablesOf[Versions[next[i]]] \subseteq tables \cup absent[i]
  /\ pc[i] = "record" => TablesOf[Versions[next[i]]] \subseteq tables \cup tx[i].tables
  /\ pc[i] \notin {"record", "commit"} => tx[i] = NoTx
  /\ pc[i] = "record" => tx[i].rows = << >>

CompleteInv ==
  /\ TypeOK
  /\ RecordedIsComplete
  /\ \A i \in Instances : IsSound(tx[i]) /\ CreatedBefore(i)
  /\ \A a \in abandoned : IsSound(a.tx)

\* The transaction records nothing, or the migration that is to be recorded next.
IsNext(t) ==
  t.rows # << >> => /\ Len(recorded) < Len(Versions)
                    /\ t.rows = <<Versions[Len(recorded) + 1]>>

OnlyOneRecords ==
  /\ \A i, j \in Instances : tx[i].rows # << >> /\ tx[j].rows # << >> => i = j
  /\ \A i \in Instances, a \in abandoned : tx[i].rows = << >> \/ a.tx.rows = << >>
  /\ \A a, b \in abandoned : a.tx.rows # << >> /\ b.tx.rows # << >> => a = b

\* The loop has passed only what is recorded.
OrderedBefore(i) ==
  /\ next[i] <= Len(recorded) + 1
  /\ pc[i] = "commit" => tx[i].rows # << >> /\ next[i] = Len(recorded) + 1
  /\ pc[i] = "serving" => next[i] > Len(Versions)

Ordered == /\ Len(recorded) <= Len(Versions)
           /\ \A n \in 1 .. Len(recorded) : recorded[n] = Versions[n]

OrderInv ==
  /\ Ordered
  /\ OnlyOneRecords
  /\ \A i \in Instances : IsNext(tx[i]) /\ OrderedBefore(i)
  /\ \A a \in abandoned : IsNext(a.tx)

-----------------------------------------------------------------------------

\* The types the steps need of the constants.
LEMMA ConstantTypes ==
  /\ Versions \in Seq(DOMAIN TablesOf) /\ Len(Versions) \in Nat
  /\ DOMAIN Versions = 1 .. Len(Versions)
  /\ \A n \in DOMAIN Versions : Versions[n] \in DOMAIN TablesOf
  /\ \A v \in DOMAIN TablesOf : TablesOf[v] \subseteq Tables
  /\ SchemaMigrations \in Tables
  /\ MaxFaults \in Nat
  /\ NoTx \in Transactions /\ NoTx.rows = << >> /\ NoTx.tables = {}
<1>1. /\ Versions \in Seq(DOMAIN TablesOf) /\ MaxFaults \in Nat
  BY MigrationsAssumption
<1>2. /\ Len(Versions) \in Nat /\ DOMAIN Versions = 1 .. Len(Versions)
      /\ \A n \in DOMAIN Versions : Versions[n] \in DOMAIN TablesOf
  BY <1>1
<1>3. /\ \A v \in DOMAIN TablesOf : TablesOf[v] \subseteq Tables
      /\ SchemaMigrations \in Tables
  BY DEF Tables
<1>4. NoTx \in Transactions /\ NoTx.rows = << >> /\ NoTx.tables = {}
  BY DEF NoTx, Transactions
<1> QED
  BY <1>1, <1>2, <1>3, <1>4

\* Nothing is recorded and nobody has begun in the initial state.
LEMMA InitComplete == Init => CompleteInv
<1> SUFFICES ASSUME Init PROVE CompleteInv
  OBVIOUS
<1>1. TypeOK
  BY ConstantTypes DEF Init, TypeOK, Locations
<1>2. RecordedIsComplete
  BY DEF Init, RecordedIsComplete
<1>3. \A i \in Instances : IsSound(tx[i]) /\ CreatedBefore(i)
  BY ConstantTypes DEF Init, IsSound, CreatedBefore
<1> QED
  BY <1>1, <1>2, <1>3 DEF CompleteInv, Init

\* A COMMIT of a sound transaction keeps every recorded migration complete.
LEMMA InstallComplete ==
  ASSUME TypeOK, RecordedIsComplete, NEW t \in Transactions, IsSound(t), Install(t)
  PROVE  /\ RecordedIsComplete' /\ tables \subseteq tables'
         /\ tables' \subseteq Tables /\ recorded' \in Seq(DOMAIN TablesOf)
<1>1. /\ recorded \in Seq(DOMAIN TablesOf) /\ t.rows \in Seq(DOMAIN TablesOf)
      /\ tables' = tables \cup t.tables /\ recorded' = recorded \o t.rows
      /\ t.tables \subseteq Tables /\ tables \subseteq Tables
  BY DEF TypeOK, Install, Transactions
<1>2. ASSUME NEW n \in DOMAIN recorded' PROVE TablesOf[recorded'[n]] \subseteq tables'
  <2>1. CASE n \in DOMAIN recorded
    BY <1>1, <2>1 DEF RecordedIsComplete
  <2>2. CASE n \notin DOMAIN recorded
    <3>1. n - Len(recorded) \in DOMAIN t.rows /\ recorded'[n] = t.rows[n - Len(recorded)]
      BY <1>1, <2>2
    <3> QED
      BY <1>1, <3>1 DEF IsSound
  <2> QED
    BY <2>1, <2>2
<1> QED
  BY <1>1, <1>2 DEF RecordedIsComplete

\* The variables a process has to itself have their types.
LocalTypes ==
  /\ pc \in [Instances -> Locations]
  /\ next \in [Instances -> 1 .. Len(Versions) + 1]
  /\ absent \in [Instances -> SUBSET Tables]
  /\ tx \in [Instances -> Transactions]

\* Instance i may have changed its own variables, and nothing else but tables.
OnlyChanges(i) ==
  /\ UNCHANGED <<recorded, abandoned, faults>>
  /\ tables \subseteq tables' /\ tables' \subseteq Tables
  /\ LocalTypes'
  /\ \A j \in Instances \ {i} :
       pc'[j] = pc[j] /\ next'[j] = next[j] /\ absent'[j] = absent[j] /\ tx'[j] = tx[j]

\* A step of instance i that leaves the rows alone, and i's own bookkeeping
\* sound, keeps the invariant.
LEMMA LocalStep ==
  ASSUME CompleteInv, NEW i \in Instances, OnlyChanges(i), IsSound(tx[i])', CreatedBefore(i)'
  PROVE  CompleteInv'
<1>1. TypeOK' /\ tables \subseteq tables'
  BY DEF CompleteInv, TypeOK, OnlyChanges, LocalTypes
<1>2. RecordedIsComplete'
  BY DEF CompleteInv, RecordedIsComplete, OnlyChanges
<1>3. ASSUME NEW j \in Instances PROVE IsSound(tx[j])' /\ CreatedBefore(j)'
  <2>1. CASE j = i
    BY <2>1
  <2>2. CASE j # i
    <3>1. pc'[j] = pc[j] /\ next'[j] = next[j] /\ absent'[j] = absent[j] /\ tx'[j] = tx[j]
      BY <2>2 DEF OnlyChanges
    <3>2. IsSound(tx[j]) /\ CreatedBefore(j)
      BY DEF CompleteInv
    <3> QED
      BY <1>1, <3>1, <3>2 DEF IsSound, CreatedBefore
  <2> QED
    BY <2>1, <2>2
<1>4. \A a \in abandoned' : IsSound(a.tx)'
  BY <1>1 DEF CompleteInv, IsSound, OnlyChanges
<1> QED
  BY <1>1, <1>2, <1>3, <1>4 DEF CompleteInv

\* One step per action.
LEMMA NextComplete == CompleteInv /\ [Next]_vars => CompleteInv'
<1> SUFFICES ASSUME CompleteInv, [Next]_vars PROVE CompleteInv'
  OBVIOUS
<1> USE ConstantTypes
<1>0. tables \subseteq Tables /\ LocalTypes
  BY DEF CompleteInv, TypeOK, LocalTypes
<1>a. \A i \in Instances : IsSound(tx[i]) /\ CreatedBefore(i)
  BY DEF CompleteInv
<1>1. ASSUME NEW i \in Instances, Start(i) \/ Open(i) \/ LookForLedger(i) \/ CreateLedger(i) \/ Serve(i)
      PROVE CompleteInv'
  <2>1. PICK location \in {"open", "ensure", "create_ledger", "check", "serving"} :
          pc' = [pc EXCEPT ![i] = location]
    BY <1>1 DEF Start, Open, LookForLedger, CreateLedger, Serve, Goto
  <2>2. /\ UNCHANGED <<recorded, abandoned, faults, next, absent, tx>>
        /\ tables \subseteq tables' /\ tables' \subseteq Tables
    BY <1>0, <1>1 DEF Start, Open, LookForLedger, CreateLedger, Serve
  <2>3. tx[i] = NoTx
    BY <1>a, <1>1 DEF CreatedBefore, Start, Open, LookForLedger, CreateLedger, Serve
  <2>4. OnlyChanges(i)
    BY <1>0, <2>1, <2>2 DEF OnlyChanges, LocalTypes, Locations
  <2>5. pc'[i] = location
    BY <1>0, <2>1 DEF LocalTypes
  <2>6. IsSound(tx[i])' /\ CreatedBefore(i)'
    BY <2>2, <2>3, <2>5 DEF IsSound, CreatedBefore
  <2> QED
    BY <2>4, <2>6, LocalStep
<1>2. ASSUME NEW i \in Instances, ExitWithError(i) PROVE CompleteInv'
  <2>1. OnlyChanges(i)
    BY <1>0, <1>2 DEF ExitWithError, Leave, Goto, OnlyChanges, LocalTypes, Locations
  <2>2. pc'[i] = "exited" /\ tx'[i] = NoTx
    BY <1>0, <1>2 DEF ExitWithError, Leave, Goto, LocalTypes
  <2>3. IsSound(tx[i])' /\ CreatedBefore(i)'
    BY <2>2 DEF IsSound, CreatedBefore
  <2> QED
    BY <2>1, <2>3, LocalStep
<1>3. ASSUME NEW i \in Instances, Check(i) PROVE CompleteInv'
  <2>1. tx[i] = NoTx /\ next[i] \in DOMAIN Versions
    BY <1>0, <1>a, <1>3 DEF CreatedBefore, Check, LocalTypes
  <2>2. PICK location \in {"check", "apply"}, n \in {next[i], next[i] + 1} :
          /\ pc' = [pc EXCEPT ![i] = location] /\ next' = [next EXCEPT ![i] = n]
          /\ location = "apply" => n = next[i]
    <3>1. CASE IsApplied(Versions[next[i]])
      <4>1. pc' = [pc EXCEPT ![i] = "check"] /\ next' = [next EXCEPT ![i] = next[i] + 1]
        BY <1>0, <1>3, <3>1 DEF Check, MaySkip, LocalTypes
      <4> QED
        BY <4>1
    <3>2. CASE ~IsApplied(Versions[next[i]])
      <4>1. pc' = [pc EXCEPT ![i] = "apply"] /\ next' = [next EXCEPT ![i] = next[i]]
        BY <1>0, <1>3, <3>2 DEF Check, MaySkip, Goto, LocalTypes
      <4> QED
        BY <4>1
    <3> QED
      BY <3>1, <3>2
  <2>3. n \in 1 .. Len(Versions) + 1
    BY <2>1, <2>2
  <2>4. OnlyChanges(i)
    BY <1>0, <1>3, <2>2, <2>3 DEF Check, OnlyChanges, LocalTypes, Locations
  <2>5. pc'[i] = location /\ next'[i] = n /\ tx'[i] = NoTx
    BY <1>0, <1>3, <2>1, <2>2 DEF Check, LocalTypes
  <2>6. IsSound(tx[i])' /\ CreatedBefore(i)'
    BY <2>1, <2>2, <2>5 DEF IsSound, CreatedBefore
  <2> QED
    BY <2>4, <2>6, LocalStep
<1>4. ASSUME NEW i \in Instances, LookForTables(i) PROVE CompleteInv'
  <2>1. tx[i] = NoTx /\ next[i] \in DOMAIN Versions
    BY <1>a, <1>4 DEF CreatedBefore, LookForTables
  <2>2. TablesOf[Versions[next[i]]] \ tables \subseteq Tables
    BY <2>1
  <2>3. OnlyChanges(i)
    BY <1>0, <1>4, <2>2 DEF LookForTables, Goto, OnlyChanges, LocalTypes, Locations
  <2>4. /\ pc'[i] = "create" /\ UNCHANGED <<tables, next, tx>>
        /\ absent'[i] = TablesOf[Versions[next[i]]] \ tables
    BY <1>0, <1>4 DEF LookForTables, Goto, LocalTypes
  <2>5. IsSound(tx[i])' /\ CreatedBefore(i)'
    BY <2>1, <2>4 DEF IsSound, CreatedBefore
  <2> QED
    BY <2>3, <2>5, LocalStep
<1>5. ASSUME NEW i \in Instances, CreateTables(i) PROVE CompleteInv'
  <2>1. /\ tx[i] = NoTx /\ next[i] \in DOMAIN Versions
        /\ TablesOf[Versions[next[i]]] \subseteq tables \cup absent[i]
    BY <1>a, <1>5 DEF CreatedBefore, CreateTables
  <2>2. [tx[i] EXCEPT !.tables = absent[i]] \in Transactions
    BY <1>0 DEF LocalTypes, Transactions
  <2>3. OnlyChanges(i)
    BY <1>0, <1>5, <2>2 DEF CreateTables, Goto, OnlyChanges, LocalTypes, Locations
  <2>4. /\ pc'[i] = "record" /\ UNCHANGED <<tables, next>>
        /\ tx'[i] = [NoTx EXCEPT !.tables = absent[i]]
    BY <1>0, <1>5, <2>1 DEF CreateTables, Goto, LocalTypes
  <2>5. tx'[i].rows = << >> /\ tx'[i].tables = absent[i]
    BY <2>4 DEF NoTx
  <2>6. IsSound(tx[i])' /\ CreatedBefore(i)'
    BY <2>1, <2>4, <2>5 DEF IsSound, CreatedBefore
  <2> QED
    BY <2>3, <2>6, LocalStep
<1>6. ASSUME NEW i \in Instances, Record(i) PROVE CompleteInv'
  <2>1. /\ tx[i].rows = << >> /\ next[i] \in DOMAIN Versions
        /\ TablesOf[Versions[next[i]]] \subseteq tables \cup tx[i].tables
    BY <1>a, <1>6 DEF CreatedBefore, Record
  <2> DEFINE t == [tx[i] EXCEPT !.rows = Append(@, Versions[next[i]])]
  <2>2. t \in Transactions /\ t.tables = tx[i].tables /\ t.rows = <<Versions[next[i]]>>
    <3>1. tx[i] \in [tables : SUBSET Tables, rows : Seq(DOMAIN TablesOf)]
      BY <1>0 DEF LocalTypes, Transactions
    <3>2. Versions[next[i]] \in DOMAIN TablesOf
      BY <2>1
    <3>3. Append(tx[i].rows, Versions[next[i]]) = <<Versions[next[i]]>>
      BY <2>1, <3>2
    <3>4. <<Versions[next[i]]>> \in Seq(DOMAIN TablesOf)
      BY <3>2
    <3> QED
      BY <3>1, <3>3, <3>4 DEF Transactions
  <2>3. tx' = [tx EXCEPT ![i] = t]
    BY <1>6 DEF Record, InsertRow
  <2> HIDE DEF t
  <2>4. OnlyChanges(i)
    BY <1>0, <1>6, <2>2, <2>3 DEF Record, InsertRow, Goto, OnlyChanges, LocalTypes, Locations
  <2>5. pc'[i] = "commit" /\ UNCHANGED <<tables, next>> /\ tx'[i] = t
    BY <1>0, <1>6, <2>3 DEF Record, InsertRow, Goto, LocalTypes
  <2>6. IsSound(tx[i])' /\ CreatedBefore(i)'
    BY <2>1, <2>2, <2>5 DEF IsSound, CreatedBefore
  <2> QED
    BY <2>4, <2>6, LocalStep
<1>7. ASSUME NEW i \in Instances, Commit(i) PROVE CompleteInv'
  <2>1. /\ RecordedIsComplete' /\ tables \subseteq tables'
        /\ tables' \subseteq Tables /\ recorded' \in Seq(DOMAIN TablesOf)
    BY <1>0, <1>a, <1>7, InstallComplete DEF LocalTypes, Commit, CompleteInv
  <2>2. next[i] \in DOMAIN Versions
    BY <1>a, <1>7 DEF CreatedBefore, Commit
  <2>3. TypeOK'
    BY <1>0, <1>7, <2>1, <2>2 DEF LocalTypes, Commit, Forward, Goto, Locations, CompleteInv, TypeOK
  <2>4. ASSUME NEW j \in Instances PROVE IsSound(tx[j])' /\ CreatedBefore(j)'
    <3>1. CASE j = i
      BY <1>0, <1>7, <3>1 DEF LocalTypes, Commit, Forward, Goto, IsSound, CreatedBefore
    <3>2. CASE j # i
      <4>1. pc'[j] = pc[j] /\ next'[j] = next[j] /\ absent'[j] = absent[j] /\ tx'[j] = tx[j]
        BY <1>0, <1>7, <3>2 DEF LocalTypes, Commit, Forward, Goto
      <4>2. IsSound(tx[j])' /\ CreatedBefore(j)'
        BY <1>a, <2>1, <4>1 DEF IsSound, CreatedBefore
      <4> QED
        BY <4>2
    <3> QED
      BY <3>1, <3>2
  <2>5. \A a \in abandoned' : IsSound(a.tx)'
    BY <1>7, <2>1 DEF Commit, CompleteInv, IsSound
  <2> QED
    BY <2>1, <2>3, <2>4, <2>5 DEF CompleteInv
<1>8. ASSUME NEW i \in Instances, Die(i) PROVE CompleteInv'
  <2>1. PICK left \in LeftBehind(i) : abandoned' = abandoned \cup {left}
    BY <1>8 DEF Die
  <2>2. left \in [tx : Transactions, sent : BOOLEAN] /\ IsSound(left.tx)
    <3>1. CASE pc[i] = "create_ledger"
      <4> DEFINE t == [NoTx EXCEPT !.tables = {SchemaMigrations}]
      <4>1. t \in Transactions /\ t.rows = << >>
        BY DEF NoTx, Transactions
      <4>2. left = [tx |-> t, sent |-> TRUE]
        BY <2>1, <3>1 DEF LeftBehind
      <4>3. IsSound(t)
        BY <4>1 DEF IsSound
      <4> QED
        BY <4>1, <4>2, <4>3
    <3>2. CASE pc[i] # "create_ledger"
      <4>1. PICK sent \in BOOLEAN : left = [tx |-> tx[i], sent |-> sent]
        <5>1. CASE pc[i] = "commit"
          BY <2>1, <5>1 DEF LeftBehind
        <5>2. CASE pc[i] # "commit"
          BY <2>1, <3>2, <5>2 DEF LeftBehind
        <5> QED
          BY <5>1, <5>2
      <4> QED
        BY <1>0, <1>a, <4>1 DEF LocalTypes
    <3> QED
      BY <3>1, <3>2
  <2>3. TypeOK'
    BY <1>0, <1>8, <2>1, <2>2
    DEF LocalTypes, Die, GiveUp, Leave, Goto, Locations, CompleteInv, TypeOK
  <2>4. RecordedIsComplete'
    BY <1>8 DEF Die, CompleteInv, RecordedIsComplete
  <2>5. ASSUME NEW j \in Instances PROVE IsSound(tx[j])' /\ CreatedBefore(j)'
    <3>1. CASE j = i
      BY <1>0, <1>8, <3>1 DEF LocalTypes, Die, GiveUp, Leave, Goto, IsSound, CreatedBefore
    <3>2. CASE j # i
      <4>1. pc'[j] = pc[j] /\ next'[j] = next[j] /\ absent'[j] = absent[j] /\ tx'[j] = tx[j]
        BY <1>0, <1>8, <3>2 DEF LocalTypes, Die, GiveUp, Leave, Goto
      <4> QED
        BY <1>8, <1>a, <4>1 DEF Die, IsSound, CreatedBefore
    <3> QED
      BY <3>1, <3>2
  <2>6. \A a \in abandoned' : IsSound(a.tx)'
    BY <1>8, <2>1, <2>2 DEF Die, CompleteInv, IsSound
  <2> QED
    BY <2>3, <2>4, <2>5, <2>6 DEF CompleteInv
<1>9. ASSUME NEW i \in Instances, Stop(i) PROVE CompleteInv'
  <2>1. OnlyChanges(i)
    BY <1>0, <1>9 DEF Stop, Leave, Goto, OnlyChanges, LocalTypes, Locations
  <2>2. pc'[i] = "exited" /\ tx'[i] = NoTx
    BY <1>0, <1>9, <1>a DEF Stop, Leave, Goto, LocalTypes, CreatedBefore
  <2>3. IsSound(tx[i])' /\ CreatedBefore(i)'
    BY <2>2 DEF IsSound, CreatedBefore
  <2> QED
    BY <2>1, <2>3, LocalStep
<1>10. ASSUME End PROVE CompleteInv'
  <2>1. PICK left \in abandoned : RollBack(left) \/ CommitLate(left)
    BY <1>10 DEF End
  <2>2. left.tx \in Transactions /\ IsSound(left.tx)
    BY <2>1 DEF CompleteInv, TypeOK
  <2>3. /\ RecordedIsComplete' /\ tables \subseteq tables'
        /\ tables' \subseteq Tables /\ recorded' \in Seq(DOMAIN TablesOf)
    <3>1. CASE RollBack(left)
      BY <3>1 DEF RollBack, CompleteInv, RecordedIsComplete, TypeOK
    <3>2. CASE CommitLate(left)
      BY <2>2, <3>2, InstallComplete DEF CommitLate, CompleteInv
    <3> QED
      BY <2>1, <3>1, <3>2
  <2>4. UNCHANGED <<pc, next, absent, tx, faults>> /\ abandoned' \subseteq abandoned
    BY <2>1 DEF RollBack, CommitLate, locals
  <2>5. TypeOK'
    BY <2>3, <2>4 DEF CompleteInv, TypeOK
  <2>6. \A i \in Instances : IsSound(tx[i])' /\ CreatedBefore(i)'
    BY <1>a, <2>3, <2>4 DEF IsSound, CreatedBefore
  <2>7. \A a \in abandoned' : IsSound(a.tx)'
    BY <2>3, <2>4 DEF CompleteInv, IsSound
  <2> QED
    BY <2>3, <2>5, <2>6, <2>7 DEF CompleteInv
<1>11. CASE UNCHANGED vars
  BY <1>11 DEF vars, locals, CompleteInv, TypeOK, RecordedIsComplete, IsSound, CreatedBefore
<1> QED
  BY <1>1, <1>2, <1>3, <1>4, <1>5, <1>6, <1>7, <1>8, <1>9, <1>10, <1>11
  DEF Next, Step, RunMigrations, LedgerConflict, TablesConflict, RecordConflict

-----------------------------------------------------------------------------

\* The types the steps need of the variables, and what CompleteInv says of rows.
LEMMA OrderTypes ==
  ASSUME CompleteInv
  PROVE  /\ recorded \in Seq(DOMAIN TablesOf) /\ Len(recorded) \in Nat
         /\ DOMAIN recorded = 1 .. Len(recorded)
         /\ LocalTypes
         /\ \A i \in Instances :
              /\ next[i] \in 1 .. Len(Versions) + 1
              /\ tx[i].rows \in Seq(DOMAIN TablesOf)
              /\ pc[i] # "commit" => tx[i].rows = << >>
              /\ pc[i] \in {"record", "commit"} => next[i] \in DOMAIN Versions
         /\ \A a \in abandoned : a.tx.rows \in Seq(DOMAIN TablesOf)
<1>1. recorded \in Seq(DOMAIN TablesOf) /\ LocalTypes
  BY DEF CompleteInv, TypeOK, LocalTypes
<1>2. Len(recorded) \in Nat /\ DOMAIN recorded = 1 .. Len(recorded)
  BY <1>1
<1>3. ASSUME NEW i \in Instances
      PROVE  /\ next[i] \in 1 .. Len(Versions) + 1
             /\ tx[i].rows \in Seq(DOMAIN TablesOf)
             /\ pc[i] # "commit" => tx[i].rows = << >>
             /\ pc[i] \in {"record", "commit"} => next[i] \in DOMAIN Versions
  BY <1>1, ConstantTypes DEF CompleteInv, CreatedBefore, LocalTypes, Transactions
<1>4. \A a \in abandoned : a.tx.rows \in Seq(DOMAIN TablesOf)
  BY DEF CompleteInv, TypeOK, Transactions
<1> QED
  BY <1>1, <1>2, <1>3, <1>4

\* No version is twice in the slice, so a recorded one has been passed.
LEMMA PassedOnly ==
  ASSUME CompleteInv, Ordered, NEW n \in DOMAIN Versions
  PROVE  IsApplied(Versions[n]) <=> n <= Len(recorded)
<1>1. \A m \in DOMAIN Versions : Versions[m] = Versions[n] => m = n
  BY MigrationsAssumption DEF IsInjective
<1>2. /\ DOMAIN recorded = 1 .. Len(recorded) /\ Len(recorded) \in Nat
      /\ n \in 1 .. Len(Versions) /\ Len(Versions) \in Nat /\ DOMAIN Versions = 1 .. Len(Versions)
  BY OrderTypes, ConstantTypes
<1>3. \A m \in DOMAIN recorded : m \in DOMAIN Versions /\ recorded[m] = Versions[m]
  BY <1>2 DEF Ordered
<1> QED
  BY <1>1, <1>2, <1>3 DEF IsApplied

\* A step of instance i that records nothing and leaves the database alone.
LEMMA LocalOrder ==
  ASSUME CompleteInv, OrderInv, NEW i \in Instances, UNCHANGED <<recorded, abandoned>>,
         \A j \in Instances \ {i} : pc'[j] = pc[j] /\ next'[j] = next[j] /\ tx'[j] = tx[j],
         tx'[i].rows = << >>, OrderedBefore(i)'
  PROVE  OrderInv'
<1>1. Ordered'
  BY DEF OrderInv, Ordered
<1>2. \A j \in Instances : tx'[j].rows = tx[j].rows \/ (j = i /\ tx'[j].rows = << >>)
  OBVIOUS
<1>3. OnlyOneRecords'
  BY <1>2 DEF OrderInv, OnlyOneRecords
<1>4. ASSUME NEW j \in Instances PROVE IsNext(tx[j])' /\ OrderedBefore(j)'
  <2>1. CASE j = i
    BY <2>1 DEF IsNext
  <2>2. CASE j # i
    BY <2>2 DEF OrderInv, IsNext, OrderedBefore
  <2> QED
    BY <2>1, <2>2
<1>5. \A a \in abandoned' : IsNext(a.tx)'
  BY DEF OrderInv, IsNext
<1> QED
  BY <1>1, <1>3, <1>4, <1>5 DEF OrderInv

\* The COMMIT of a transaction that may record appends the next migration.
LEMMA InstallOrder ==
  ASSUME CompleteInv, Ordered, NEW t, IsNext(t), Install(t), t.rows \in Seq(DOMAIN TablesOf)
  PROVE  /\ Ordered' /\ Len(recorded') \in Nat /\ Len(recorded) <= Len(recorded')
         /\ t.rows = << >> => recorded' = recorded
         /\ t.rows # << >> => Len(recorded') = Len(recorded) + 1
<1>0. /\ recorded \in Seq(DOMAIN TablesOf) /\ Len(recorded) \in Nat
      /\ recorded' = recorded \o t.rows
  BY OrderTypes DEF Install
<1>1. CASE t.rows = << >>
  <2>1. recorded' = recorded
    BY <1>0, <1>1
  <2> QED
    BY <1>0, <1>1, <2>1 DEF Ordered
<1>2. CASE t.rows # << >>
  <2>1. /\ Len(recorded) < Len(Versions) /\ Len(Versions) \in Nat
        /\ t.rows = <<Versions[Len(recorded) + 1]>>
    BY <1>2, ConstantTypes DEF IsNext
  <2>2. /\ Len(recorded') = Len(recorded) + 1
        /\ \A n \in 1 .. Len(recorded) : recorded'[n] = recorded[n]
        /\ recorded'[Len(recorded) + 1] = Versions[Len(recorded) + 1]
    BY <1>0, <2>1
  <2> QED
    BY <1>0, <1>2, <2>1, <2>2 DEF Ordered
<1> QED
  BY <1>1, <1>2

\* Applying one migration: the key is free only if it is this one's turn.
LEMMA RecordOrder ==
  ASSUME CompleteInv, OrderInv, NEW i \in Instances, Record(i)
  PROVE  OrderInv'
<1> DEFINE version == Versions[next[i]]
<1>1. /\ next[i] \in DOMAIN Versions /\ next[i] \in 1 .. Len(Versions) /\ tx[i].rows = << >>
      /\ Len(recorded) \in Nat /\ Len(Versions) \in Nat /\ version \in DOMAIN TablesOf
      /\ pc \in [Instances -> Locations] /\ tx \in [Instances -> Transactions]
      /\ tx[i] \in [tables : SUBSET Tables, rows : Seq(DOMAIN TablesOf)]
  BY OrderTypes, ConstantTypes DEF Record, LocalTypes, Transactions
<1>2. next[i] = Len(recorded) + 1
  <2>1. ~IsApplied(version) /\ next[i] <= Len(recorded) + 1
    BY DEF Record, KeyIsFree, OrderInv, OrderedBefore
  <2> QED
    BY <1>1, <2>1, PassedOnly DEF OrderInv
<1>3. /\ UNCHANGED <<recorded, abandoned, next>> /\ pc'[i] = "commit"
      /\ tx'[i].rows = <<version>>
      /\ \A j \in Instances \ {i} : pc'[j] = pc[j] /\ tx'[j] = tx[j]
  <2>1. /\ UNCHANGED <<recorded, abandoned, next>> /\ pc' = [pc EXCEPT ![i] = "commit"]
        /\ tx' = [tx EXCEPT ![i].rows = Append(@, version)]
    BY DEF Record, InsertRow, Goto
  <2>2. tx'[i].rows = Append(<< >>, version)
    BY <1>1, <2>1
  <2> QED
    BY <1>1, <2>1, <2>2
<1>4. ASSUME NEW t \in OthersOf(i), IsNext(t) PROVE t.rows = << >>
  <2>1. version \notin Range(t.rows)
    BY DEF Record, KeyIsFree, RecordedByOthers
  <2>2. t.rows # << >> => version \in Range(t.rows)
    BY <1>1, <1>2, <1>4 DEF IsNext, Range
  <2> QED
    BY <2>1, <2>2
<1>5. /\ \A j \in Instances \ {i} : tx[j].rows = << >>
      /\ \A a \in abandoned : a.tx.rows = << >>
  BY <1>4 DEF OthersOf, OrderInv
<1>6. Ordered' /\ OnlyOneRecords'
  BY <1>3, <1>5 DEF OrderInv, Ordered, OnlyOneRecords
<1>7. ASSUME NEW j \in Instances PROVE IsNext(tx[j])' /\ OrderedBefore(j)'
  <2>1. CASE j = i
    <3>1. Len(recorded) < Len(Versions) /\ tx'[i].rows = <<Versions[Len(recorded) + 1]>>
      BY <1>1, <1>2, <1>3
    <3>2. IsNext(tx[i])'
      BY <1>3, <3>1 DEF IsNext
    <3>3. tx'[i].rows # << >> /\ next'[i] = Len(recorded') + 1
      BY <1>1, <1>2, <1>3, <3>1
    <3>4. OrderedBefore(i)'
      BY <1>1, <1>3, <3>3 DEF OrderedBefore
    <3> QED
      BY <2>1, <3>2, <3>4
  <2>2. CASE j # i
    BY <1>3, <2>2 DEF OrderInv, IsNext, OrderedBefore
  <2> QED
    BY <2>1, <2>2
<1>8. \A a \in abandoned' : IsNext(a.tx)'
  BY <1>3, <1>5 DEF IsNext
<1> QED
  BY <1>6, <1>7, <1>8 DEF OrderInv

\* A commit, the one transaction with a row included.
LEMMA CommitOrder ==
  ASSUME CompleteInv, OrderInv, NEW i \in Instances, Commit(i)
  PROVE  OrderInv'
<1>1. /\ next[i] \in 1 .. Len(Versions) /\ Len(recorded) \in Nat /\ Len(Versions) \in Nat
      /\ LocalTypes /\ tx[i].rows \in Seq(DOMAIN TablesOf)
  BY OrderTypes, ConstantTypes DEF Commit
<1>2. tx[i].rows # << >> /\ next[i] = Len(recorded) + 1 /\ IsNext(tx[i])
  BY DEF Commit, OrderInv, OrderedBefore
<1>3. Ordered' /\ Len(recorded') = Len(recorded) + 1
  BY <1>1, <1>2, InstallOrder DEF Commit, OrderInv
<1>4. /\ \A j \in Instances \ {i} : tx[j].rows = << >>
      /\ \A a \in abandoned : a.tx.rows = << >>
  BY <1>2 DEF OrderInv, OnlyOneRecords
<1>5. /\ abandoned' = abandoned /\ pc'[i] = "check" /\ next'[i] = next[i] + 1
      /\ tx'[i].rows = << >>
      /\ \A j \in Instances \ {i} : pc'[j] = pc[j] /\ next'[j] = next[j] /\ tx'[j] = tx[j]
  BY <1>1, ConstantTypes DEF Commit, Forward, Goto, LocalTypes
<1>6. OnlyOneRecords'
  BY <1>4, <1>5 DEF OnlyOneRecords
<1>7. ASSUME NEW j \in Instances PROVE IsNext(tx[j])' /\ OrderedBefore(j)'
  <2>1. CASE j = i
    BY <1>1, <1>2, <1>3, <1>5, <2>1 DEF IsNext, OrderedBefore
  <2>2. CASE j # i
    <3>1. next[j] \in Nat /\ next[j] <= Len(recorded) + 1
      BY OrderTypes DEF OrderInv, OrderedBefore
    <3> QED
      BY <1>1, <1>3, <1>4, <1>5, <2>2, <3>1 DEF OrderInv, IsNext, OrderedBefore
  <2> QED
    BY <2>1, <2>2
<1>8. \A a \in abandoned' : IsNext(a.tx)'
  BY <1>4, <1>5 DEF IsNext
<1> QED
  BY <1>3, <1>6, <1>7, <1>8 DEF OrderInv

\* A process that dies hands its row, if it has one, to the transaction it leaves.
LEMMA DieOrder ==
  ASSUME CompleteInv, OrderInv, NEW i \in Instances, Die(i)
  PROVE  OrderInv'
<1>1. LocalTypes /\ Len(recorded) \in Nat /\ (pc[i] # "commit" => tx[i].rows = << >>)
  BY OrderTypes
<1>2. PICK left \in LeftBehind(i) : abandoned' = abandoned \cup {left}
  BY DEF Die
<1>3. left.tx.rows = tx[i].rows
  <2>1. CASE pc[i] = "create_ledger"
    BY <1>1, <1>2, <2>1 DEF LeftBehind, NoTx
  <2>2. CASE pc[i] # "create_ledger"
    BY <1>2, <2>2 DEF LeftBehind
  <2> QED
    BY <2>1, <2>2
<1>4. /\ recorded' = recorded /\ pc'[i] = "exited" /\ next'[i] = 1 /\ tx'[i].rows = << >>
      /\ \A j \in Instances \ {i} : pc'[j] = pc[j] /\ next'[j] = next[j] /\ tx'[j] = tx[j]
  BY <1>1, ConstantTypes DEF Die, GiveUp, Leave, Goto, LocalTypes
<1>5. Ordered'
  BY <1>4 DEF OrderInv, Ordered
<1>6. OnlyOneRecords'
  <2>1. /\ \A j, k \in Instances : tx'[j].rows # << >> /\ tx'[k].rows # << >> => j = k
        /\ \A j \in Instances : tx'[j].rows # << >> => j # i /\ tx[j].rows # << >>
    BY <1>4 DEF OrderInv, OnlyOneRecords
  <2>2. \A j \in Instances, a \in abandoned' : tx'[j].rows = << >> \/ a.tx.rows = << >>
    BY <1>2, <1>3, <2>1 DEF OrderInv, OnlyOneRecords
  <2>3. \A a, b \in abandoned' : a.tx.rows # << >> /\ b.tx.rows # << >> => a = b
    BY <1>2, <1>3 DEF OrderInv, OnlyOneRecords
  <2> QED
    BY <2>1, <2>2, <2>3 DEF OnlyOneRecords
<1>7. ASSUME NEW j \in Instances PROVE IsNext(tx[j])' /\ OrderedBefore(j)'
  <2>1. CASE j = i
    BY <1>1, <1>4, <2>1 DEF IsNext, OrderedBefore
  <2>2. CASE j # i
    BY <1>4, <2>2 DEF OrderInv, IsNext, OrderedBefore
  <2> QED
    BY <2>1, <2>2
<1>8. \A a \in abandoned' : IsNext(a.tx)'
  BY <1>2, <1>3, <1>4 DEF OrderInv, IsNext
<1> QED
  BY <1>5, <1>6, <1>7, <1>8 DEF OrderInv

\* A transaction that was left behind ends, perhaps with its commit.
LEMMA EndOrder ==
  ASSUME CompleteInv, OrderInv, End
  PROVE  OrderInv'
<1>0. /\ Len(recorded) \in Nat /\ \A i \in Instances : next[i] \in Nat
      /\ \A a \in abandoned : a.tx.rows \in Seq(DOMAIN TablesOf)
  BY OrderTypes
<1>1. PICK left \in abandoned : RollBack(left) \/ CommitLate(left)
  BY DEF End
<1>2. /\ abandoned' = abandoned \ {left} /\ UNCHANGED <<pc, next, tx>>
      /\ IsNext(left.tx) /\ left.tx.rows \in Seq(DOMAIN TablesOf)
  BY <1>0, <1>1 DEF RollBack, CommitLate, locals, OrderInv
<1>3. OnlyOneRecords'
  BY <1>2 DEF OrderInv, OnlyOneRecords
<1>4. CASE recorded' = recorded
  BY <1>2, <1>3, <1>4 DEF OrderInv, Ordered, IsNext, OrderedBefore
<1>5. CASE recorded' # recorded
  <2>1. Install(left.tx)
    BY <1>1, <1>5 DEF RollBack, CommitLate
  <2>2. /\ left.tx.rows # << >> /\ Ordered' /\ Len(recorded') = Len(recorded) + 1
    BY <1>2, <1>5, <2>1, InstallOrder DEF OrderInv
  <2>3. /\ \A j \in Instances : tx[j].rows = << >>
        /\ \A a \in abandoned \ {left} : a.tx.rows = << >>
    BY <2>2 DEF OrderInv, OnlyOneRecords
  <2>4. ASSUME NEW j \in Instances PROVE IsNext(tx[j])' /\ OrderedBefore(j)'
    BY <1>0, <1>2, <2>2, <2>3 DEF OrderInv, IsNext, OrderedBefore
  <2>5. \A a \in abandoned' : IsNext(a.tx)'
    BY <1>2, <2>3 DEF IsNext
  <2> QED
    BY <1>3, <2>2, <2>4, <2>5 DEF OrderInv
<1> QED
  BY <1>4, <1>5

\* One step per action.
LEMMA NextOrder == CompleteInv /\ OrderInv /\ [Next]_vars => OrderInv'
<1> SUFFICES ASSUME CompleteInv, OrderInv, [Next]_vars PROVE OrderInv'
  OBVIOUS
<1>0. /\ LocalTypes /\ Len(recorded) \in Nat /\ Len(Versions) \in Nat
      /\ \A i \in Instances : /\ next[i] \in 1 .. Len(Versions) + 1
                              /\ pc[i] # "commit" => tx[i].rows = << >>
                              /\ next[i] <= Len(recorded) + 1
  BY OrderTypes, ConstantTypes DEF OrderInv, OrderedBefore
<1>1. ASSUME NEW i \in Instances,
             Start(i) \/ Open(i) \/ LookForLedger(i) \/ CreateLedger(i) \/ LookForTables(i)
      PROVE OrderInv'
  <2>1. PICK location \in {"open", "ensure", "create_ledger", "check", "create"} :
          pc' = [pc EXCEPT ![i] = location]
    BY <1>1 DEF Start, Open, LookForLedger, CreateLedger, LookForTables, Goto
  <2>2. UNCHANGED <<recorded, abandoned, next, tx>> /\ pc[i] # "commit"
    BY <1>1 DEF Start, Open, LookForLedger, CreateLedger, LookForTables
  <2>3. pc'[i] = location /\ \A j \in Instances \ {i} : pc'[j] = pc[j]
    BY <1>0, <2>1 DEF LocalTypes
  <2>4. OrderedBefore(i)' /\ tx'[i].rows = << >>
    BY <1>0, <2>2, <2>3 DEF OrderedBefore
  <2> QED
    BY <2>2, <2>3, <2>4, LocalOrder
<1>2. ASSUME NEW i \in Instances, ExitWithError(i) \/ Stop(i) PROVE OrderInv'
  <2>1. Leave(i) /\ UNCHANGED <<recorded, abandoned>>
    BY <1>2 DEF ExitWithError, Stop
  <2>2. /\ pc'[i] = "exited" /\ next'[i] = 1 /\ tx'[i].rows = << >>
        /\ \A j \in Instances \ {i} : pc'[j] = pc[j] /\ next'[j] = next[j] /\ tx'[j] = tx[j]
    BY <1>0, <2>1, ConstantTypes DEF Leave, Goto, LocalTypes
  <2>3. OrderedBefore(i)'
    BY <1>0, <2>1, <2>2 DEF OrderedBefore
  <2> QED
    BY <2>1, <2>2, <2>3, LocalOrder
<1>3. ASSUME NEW i \in Instances, Check(i) PROVE OrderInv'
  <2>1. /\ UNCHANGED <<recorded, abandoned, tx>> /\ next[i] \in DOMAIN Versions
        /\ pc[i] = "check"
    BY <1>0, <1>3, ConstantTypes DEF Check
  <2>2. CASE IsApplied(Versions[next[i]])
    <3>1. next[i] <= Len(recorded)
      BY <2>1, <2>2, PassedOnly DEF OrderInv
    <3>2. /\ pc' = pc /\ next'[i] = next[i] + 1
          /\ \A j \in Instances \ {i} : next'[j] = next[j]
      BY <1>0, <1>3, <2>2 DEF Check, MaySkip, LocalTypes
    <3>3. OrderedBefore(i)' /\ tx'[i].rows = << >>
      BY <1>0, <2>1, <3>1, <3>2 DEF OrderedBefore
    <3> QED
      BY <2>1, <3>2, <3>3, LocalOrder
  <2>3. CASE ~IsApplied(Versions[next[i]])
    <3>1. /\ next' = next /\ pc'[i] = "apply"
          /\ \A j \in Instances \ {i} : pc'[j] = pc[j]
      BY <1>0, <1>3, <2>3 DEF Check, MaySkip, Goto, LocalTypes
    <3>2. OrderedBefore(i)' /\ tx'[i].rows = << >>
      BY <1>0, <2>1, <3>1 DEF OrderedBefore
    <3> QED
      BY <2>1, <3>1, <3>2, LocalOrder
  <2> QED
    BY <2>2, <2>3
<1>4. ASSUME NEW i \in Instances, Serve(i) PROVE OrderInv'
  <2>1. /\ UNCHANGED <<recorded, abandoned, next, tx>> /\ pc[i] = "check"
        /\ pc'[i] = "serving" /\ next[i] > Len(Versions)
        /\ \A j \in Instances \ {i} : pc'[j] = pc[j]
    BY <1>0, <1>4 DEF Serve, Goto, LocalTypes
  <2>2. OrderedBefore(i)' /\ tx'[i].rows = << >>
    BY <1>0, <2>1 DEF OrderedBefore
  <2> QED
    BY <2>1, <2>2, LocalOrder
<1>5. ASSUME NEW i \in Instances, CreateTables(i) PROVE OrderInv'
  <2>1. /\ UNCHANGED <<recorded, abandoned, next>> /\ pc'[i] = "record" /\ pc[i] = "create"
        /\ tx'[i].rows = tx[i].rows
        /\ \A j \in Instances \ {i} : pc'[j] = pc[j] /\ tx'[j] = tx[j]
    BY <1>0, <1>5 DEF CreateTables, Goto, LocalTypes, Transactions
  <2>2. OrderedBefore(i)' /\ tx'[i].rows = << >>
    BY <1>0, <2>1 DEF OrderedBefore
  <2> QED
    BY <2>1, <2>2, LocalOrder
<1>6. CASE UNCHANGED vars
  BY <1>6 DEF vars, locals, OrderInv, Ordered, OnlyOneRecords, IsNext, OrderedBefore
<1> QED
  BY <1>1, <1>2, <1>3, <1>4, <1>5, <1>6, RecordOrder, CommitOrder, DieOrder, EndOrder
  DEF Next, Step, RunMigrations, LedgerConflict, TablesConflict, RecordConflict

\* Nothing is recorded in the initial state.
LEMMA InitOrder == Init => OrderInv
<1> SUFFICES ASSUME Init PROVE OrderInv
  OBVIOUS
<1>1. Len(recorded) = 0 /\ Len(Versions) \in Nat
  BY ConstantTypes DEF Init
<1>2. /\ \A i \in Instances : tx[i].rows = << >> /\ next[i] = 1 /\ pc[i] = "exited"
      /\ abandoned = {}
  BY ConstantTypes DEF Init
<1> QED
  BY <1>1, <1>2 DEF OrderInv, Ordered, OnlyOneRecords, IsNext, OrderedBefore

\* An instance that has come to the end of the loop finds everything in place.
LEMMA ServingComplete ==
  ASSUME CompleteInv, OrderInv, NEW i \in Instances, pc[i] = "serving", NEW n \in DOMAIN Versions
  PROVE  IsApplied(Versions[n]) /\ TablesOf[Versions[n]] \subseteq tables
<1>1. /\ Len(recorded) \in Nat /\ Len(Versions) \in Nat /\ n \in 1 .. Len(Versions)
      /\ next[i] \in Nat /\ DOMAIN recorded = 1 .. Len(recorded)
  BY OrderTypes, ConstantTypes
<1>2. Len(Versions) <= Len(recorded)
  BY <1>1 DEF OrderInv, OrderedBefore
<1>3. n \in DOMAIN recorded /\ recorded[n] = Versions[n]
  BY <1>1, <1>2 DEF OrderInv, Ordered
<1> QED
  BY <1>3 DEF IsApplied, CompleteInv, RecordedIsComplete

-----------------------------------------------------------------------------

\* A migration that is recorded has all its tables, wherever an instance dies and
\* whatever the server makes of its transaction (db.applyMigration).
THEOREM MigrationsComplete == Spec => []RecordedIsComplete
<1>1. CompleteInv => RecordedIsComplete
  BY DEF CompleteInv
<1> QED
  BY InitComplete, NextComplete, <1>1, PTL DEF Spec

\* Every variable of the start-up keeps its type (db.RunMigrations).
THEOREM MigrationsTypeCorrect == Spec => []TypeOK
<1>1. CompleteInv => TypeOK
  BY DEF CompleteInv
<1> QED
  BY InitComplete, NextComplete, <1>1, PTL DEF Spec

\* However many instances start at once, the migrations are recorded once each and
\* in the order of the slice: the primary key of schema_migrations lets only the
\* next one in (db.RunMigrations).
THEOREM MigrationsInOrder == Spec => []AppliedInOrder
<1>1. CompleteInv /\ OrderInv => AppliedInOrder
  <2> SUFFICES ASSUME CompleteInv, OrderInv PROVE AppliedInOrder
    OBVIOUS
  <2>1. /\ recorded \in Seq(DOMAIN TablesOf) /\ Len(recorded) \in Nat
        /\ Versions \in Seq(DOMAIN TablesOf) /\ Len(Versions) \in Nat
    BY OrderTypes, ConstantTypes
  <2>2. SubSeq(recorded, 1, Len(recorded)) = SubSeq(Versions, 1, Len(recorded))
    BY <2>1 DEF OrderInv, Ordered
  <2> QED
    BY <2>2 DEF OrderInv, Ordered, AppliedInOrder, IsPrefix
<1> QED
  BY InitComplete, NextComplete, InitOrder, NextOrder, <1>1, PTL DEF Spec

\* An instance serves only when every migration of the slice is applied and has
\* its tables, whoever applied it (main).
THEOREM MigratedBeforeServing == Spec => []ServingIsMigrated
<1>1. CompleteInv /\ OrderInv => ServingIsMigrated
  BY ServingComplete DEF ServingIsMigrated
<1> QED
  BY InitComplete, NextComplete, InitOrder, NextOrder, <1>1, PTL DEF Spec

\* A transaction holds tables from its CREATE TABLEs on and a row from its INSERT
\* on (CompleteInv), in every instance in this order.
LEMMA HoldersAreAhead ==
  ASSUME CompleteInv, NEW i \in Instances, NEW j \in Instances, WaitsFor(i, tx[j])
  PROVE  Stage(i) < Stage(j)
<1>1. NoTx.rows = << >> /\ NoTx.tables = {} /\ Range(<< >>) = {}
  BY ConstantTypes DEF Range
<1>2. CreatedBefore(j)
  BY DEF CompleteInv
<1>3. CASE tx[j].tables # {} /\ pc[i] \in {"create_ledger", "create"}
  <2>1. pc[j] \in {"record", "commit"}
    BY <1>1, <1>2, <1>3 DEF CreatedBefore
  <2> QED
    BY <1>3, <2>1 DEF Stage
<1>4. CASE tx[j].rows # << >> /\ pc[i] = "record"
  <2>1. pc[j] = "commit"
    BY <1>1, <1>2, <1>4 DEF CreatedBefore
  <2> QED
    BY <1>4, <2>1 DEF Stage
<1> QED
  BY <1>1, <1>3, <1>4 DEF WaitsFor

\* Start-up cannot deadlock: any number of instances that apply any slice wait only
\* for one that has come further in applyMigration.
THEOREM StartUpHasNoDeadlock == Spec => []WaitsLeadForward
<1>1. CompleteInv => WaitsLeadForward
  BY HoldersAreAhead DEF WaitsLeadForward
<1> QED
  BY InitComplete, NextComplete, <1>1, PTL DEF Spec

=============================================================================
