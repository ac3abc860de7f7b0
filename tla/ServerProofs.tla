---------------------------- MODULE ServerProofs ----------------------------
(***************************************************************************)
(* The safety of Server, for any number of clients and any environment.    *)
(* PoolOK is what the pool keeps by itself; ServerInv adds who may be in   *)
(* it, and that is inductive.                                              *)
(***************************************************************************)
EXTENDS Server, FiniteSetTheorems, TLAPS

InPool == inUse \cup waiting

\* The limits hold, and whoever waits waits for somebody.
PoolOK ==
  /\ PoolTypeOK(Callers)
  /\ IsFiniteSet(inUse)
  /\ limits.open > 0 => Cardinality(inUse) + idle <= limits.open
  /\ waiting # {} => inUse # {}

\* Main looks at a migration only while there is one left.
FilesLeft == main \in Starting => left \in 1 .. Files

ControlOK ==
  /\ main \in MainLocations
  /\ left \in 0 .. Files
  /\ signalled \in BOOLEAN
  /\ pc \in [Handlers -> Locations]
  /\ gone \in [Handlers -> BOOLEAN]
  /\ FilesLeft

ServerInv == PoolOK /\ ControlOK /\ HeldOnlyInCalls /\ DatabaseOutlivesRequests

-----------------------------------------------------------------------------
(* The pool                                                                 *)

\* Load and ApplyPoolConfig give the pool limits that are natural numbers, and
\* the open limit is DB_MAX_OPEN_CONNS or the default.
LEMMA LimitsType ==
  ASSUME env \in Environments
  PROVE  /\ limits \in [open : Nat, idle : Nat, lifetime : Nat]
         /\ limits.open = IF Atoi[env.DB_MAX_OPEN_CONNS] \in Nat
                          THEN Atoi[env.DB_MAX_OPEN_CONNS] ELSE DefaultMaxOpenConns
<1> DEFINE config == Load(env)
<1>1. /\ env.DB_MAX_OPEN_CONNS \in Text /\ env.DB_MAX_IDLE_CONNS \in Text
      /\ env.DB_CONN_MAX_LIFETIME \in Text
  BY DEF Environments
<1>2. ASSUME NEW value \in Text, NEW fallback \in Nat
      PROVE  /\ intEnvOrDefault(value, fallback) \in Nat
             /\ intEnvOrDefault(value, fallback) =
                  IF Atoi[value] \in Nat THEN Atoi[value] ELSE fallback
             /\ durationEnvOrDefault(value, fallback) \in Nat
  <2>1. Atoi[value] \in Int \cup {Malformed} /\ ParseDuration[value] \in Int \cup {Malformed}
    BY ConfigAssumption
  <2> QED
    BY <2>1, ConfigAssumption DEF intEnvOrDefault, durationEnvOrDefault
<1>3. /\ config.DBMaxOpenConns \in Nat /\ config.DBMaxIdleConns \in Nat
      /\ config.DBConnMaxLifetime \in Nat
      /\ config.DBMaxOpenConns = IF Atoi[env.DB_MAX_OPEN_CONNS] \in Nat
                                 THEN Atoi[env.DB_MAX_OPEN_CONNS] ELSE DefaultMaxOpenConns
  <2>1. /\ DefaultMaxOpenConns \in Nat /\ DefaultMaxIdleConns \in Nat
        /\ DefaultConnMaxLifetime \in Nat
    BY ConfigAssumption
  <2> QED
    BY <1>1, <1>2, <2>1 DEF Load
<1> DEFINE l == [open |-> config.DBMaxOpenConns, idle |-> config.DBMaxIdleConns,
                 lifetime |-> config.DBConnMaxLifetime]
<1>4. limits = Clamped(l)
  BY <1>3 DEF limits, ApplyPoolConfig, Above
<1>5. Clamped(l) \in [open : Nat, idle : Nat, lifetime : Nat] /\ Clamped(l).open = l.open
  <2> HIDE DEF config
  <2> QED
    BY <1>3 DEF Clamped
<1> QED
  BY <1>3, <1>4, <1>5

\* A caller that asks is in the pool afterwards, and the pool keeps its limits.
LEMMA AcquireOK ==
  ASSUME PoolOK, NEW u \in Callers, Acquire(u), UNCHANGED env
  PROVE  PoolOK' /\ InPool' = InPool \cup {u}
<1>1. limits \in [open : Nat, idle : Nat, lifetime : Nat] /\ limits' = limits
  BY LimitsType DEF PoolOK, PoolTypeOK, limits
<1>2. /\ env \in Environments /\ inUse \subseteq Callers /\ waiting \subseteq Callers \ inUse
      /\ idle \in 0 .. limits.idle /\ IsFiniteSet(inUse) /\ Cardinality(inUse) \in Nat
      /\ u \notin inUse /\ u \notin waiting
      /\ limits.idle \in Nat /\ limits.open \in Nat
  BY <1>1, FS_CardinalityType DEF PoolOK, PoolTypeOK, Acquire
<1>3. IsFiniteSet(inUse \cup {u}) /\ Cardinality(inUse \cup {u}) = Cardinality(inUse) + 1
  BY <1>2, FS_AddElement
<1>4. CASE TakeIdle(u)
  <2>1. idle' = idle - 1 /\ idle > 0 /\ inUse' = inUse \cup {u} /\ waiting' = waiting
    BY <1>4 DEF TakeIdle
  <2> QED
    BY <1>1, <1>2, <1>3, <2>1 DEF PoolOK, PoolTypeOK, InPool
<1>5. CASE Dial(u)
  <2>1. idle' = idle /\ idle = 0 /\ inUse' = inUse \cup {u} /\ waiting' = waiting
    BY <1>5 DEF Dial
  <2>2. limits.open > 0 => Cardinality(inUse) + idle < limits.open
    BY <1>1, <1>2, <1>5 DEF Dial, IsFull, Stats
  <2> QED
    BY <1>1, <1>2, <1>3, <2>1, <2>2 DEF PoolOK, PoolTypeOK, InPool
<1>6. CASE Enqueue(u)
  <2>1. idle' = idle /\ idle = 0 /\ inUse' = inUse /\ waiting' = waiting \cup {u}
    BY <1>6 DEF Enqueue
  <2>2. limits.open > 0 /\ Cardinality(inUse) + idle >= limits.open
    BY <1>6 DEF Enqueue, IsFull, Stats
  <2>3. inUse # {}
    BY <1>1, <1>2, <2>1, <2>2, FS_EmptySet
  <2> QED
    BY <1>1, <1>2, <2>1, <2>3 DEF PoolOK, PoolTypeOK, InPool
<1> QED
  BY <1>4, <1>5, <1>6 DEF Acquire

\* A caller that gives its connection back has left the pool, and whoever still
\* waits waits for the one who got it.
LEMMA ReleaseOK ==
  ASSUME PoolOK, NEW u \in inUse, Release(u), UNCHANGED env
  PROVE  PoolOK' /\ InPool' = InPool \ {u}
<1>1. limits \in [open : Nat, idle : Nat, lifetime : Nat] /\ limits' = limits
  BY LimitsType DEF PoolOK, PoolTypeOK, limits
<1>2. /\ env \in Environments /\ inUse \subseteq Callers /\ waiting \subseteq Callers \ inUse
      /\ idle \in 0 .. limits.idle /\ IsFiniteSet(inUse) /\ Cardinality(inUse) \in Nat
      /\ limits.idle \in Nat /\ limits.open \in Nat
  BY <1>1, FS_CardinalityType DEF PoolOK, PoolTypeOK
<1>3. /\ IsFiniteSet(inUse \ {u}) /\ Cardinality(inUse \ {u}) = Cardinality(inUse) - 1
  BY <1>2, FS_RemoveElement
<1>4. CASE PutBack(u)
  <2>1. /\ waiting = {} /\ waiting' = {} /\ inUse' = inUse \ {u}
        /\ idle' = idle \/ (idle < limits.idle /\ idle' = idle + 1)
    BY <1>4 DEF PutBack
  <2> QED
    BY <1>1, <1>2, <1>3, <2>1 DEF PoolOK, PoolTypeOK, InPool
<1>5. ASSUME NEW w \in waiting, HandOver(u, w)
      PROVE  PoolOK' /\ InPool' = InPool \ {u}
  <2>1. inUse' = (inUse \ {u}) \cup {w} /\ waiting' = waiting \ {w} /\ idle' = idle
    BY <1>5 DEF HandOver
  <2>2. w \notin inUse \ {u} /\ w # u
    BY <1>2
  <2>3. /\ IsFiniteSet((inUse \ {u}) \cup {w})
        /\ Cardinality((inUse \ {u}) \cup {w}) = Cardinality(inUse \ {u}) + 1
    BY <1>3, <2>2, FS_AddElement
  <2>4. IsFiniteSet(inUse') /\ Cardinality(inUse') = Cardinality(inUse)
    BY <1>2, <1>3, <2>1, <2>3
  <2> QED
    BY <1>1, <1>2, <2>1, <2>2, <2>4 DEF PoolOK, PoolTypeOK, InPool
<1> QED
  BY <1>4, <1>5 DEF Release

\* A caller that gives up before it got a connection has left the pool.
LEMMA GiveUpOK ==
  ASSUME PoolOK, NEW u, u \notin inUse, GiveUp(u), UNCHANGED env
  PROVE  PoolOK' /\ InPool' = InPool \ {u}
BY DEF PoolOK, PoolTypeOK, GiveUp, InPool, limits

\* An idle connection that expires is nobody's.
LEMMA ExpireOK ==
  ASSUME PoolOK, Expire, UNCHANGED env
  PROVE  PoolOK' /\ InPool' = InPool
<1>1. limits \in [open : Nat, idle : Nat, lifetime : Nat] /\ limits' = limits
  BY LimitsType DEF PoolOK, PoolTypeOK, limits
<1>2. IsFiniteSet(inUse) /\ Cardinality(inUse) \in Nat /\ limits.idle \in Nat /\ limits.open \in Nat
  BY <1>1, FS_CardinalityType DEF PoolOK
<1> QED
  BY <1>1, <1>2 DEF PoolOK, PoolTypeOK, Expire, InPool

\* The end of the process empties the pool.
LEMMA CloseOK ==
  ASSUME env \in Environments, CloseAll, UNCHANGED env
  PROVE  PoolOK' /\ InPool' = {}
<1>1. limits \in [open : Nat, idle : Nat, lifetime : Nat] /\ limits' = limits
  BY LimitsType DEF limits
<1>2. IsFiniteSet({}) /\ Cardinality({}) = 0
  BY FS_EmptySet
<1> QED
  BY <1>1, <1>2 DEF PoolOK, PoolTypeOK, CloseAll, InPool

-----------------------------------------------------------------------------
(* Steps                                                                    *)

\* Where everything is before the process starts.
LEMMA AtRest ==
  /\ 0 \in 0 .. Files
  /\ "exited" \in MainLocations /\ "exited" \notin Starting
  /\ [h \in Handlers |-> "idle"] \in [Handlers -> Locations]
<1>1. 0 \in 0 .. Files
  BY ServerAssumption
<1>2. "exited" \in MainLocations /\ "exited" \notin Starting
  BY DEF MainLocations, Starting
<1>3. "idle" \in Locations
  BY DEF Locations
<1> QED
  BY <1>1, <1>2, <1>3

\* A machine on which the process was never started is in order.
LEMMA InitInv == Init => ServerInv
<1> SUFFICES ASSUME Init PROVE ServerInv
  OBVIOUS
<1>1. env \in Environments
  BY ServerAssumption DEF Init
<1>2. limits \in [open : Nat, idle : Nat, lifetime : Nat]
  BY <1>1, LimitsType
<1>3. IsFiniteSet({}) /\ Cardinality({}) = 0
  BY FS_EmptySet
<1>4. PoolOK
  BY <1>1, <1>2, <1>3 DEF Init, NoConnections, PoolOK, PoolTypeOK
<1>5. ControlOK
  BY AtRest DEF Init, ControlOK, FilesLeft
<1> QED
  BY <1>4, <1>5 DEF Init, NoConnections, ServerInv, HeldOnlyInCalls, DatabaseOutlivesRequests

\* os.Exit, a signal during start-up, a kill, or the return from main.
LEMMA ExitInv == ASSUME ServerInv, Exit PROVE ServerInv'
<1>1. PoolOK' /\ InPool' = {}
  BY CloseOK DEF ServerInv, PoolOK, PoolTypeOK, Exit
<1>2. ControlOK'
  BY AtRest DEF Exit, ControlOK, FilesLeft
<1> QED
  BY <1>1, <1>2 DEF Exit, ServerInv, HeldOnlyInCalls, DatabaseOutlivesRequests, InPool

\* QueryRowContext and ExecContext ask for a connection.
LEMMA AskInv == ASSUME ServerInv, NEW u \in Callers, Ask(u) PROVE ServerInv'
<1>1. PoolOK' /\ InPool' = InPool \cup {u}
  BY AcquireOK DEF ServerInv, Ask
<1>2. ControlOK'
  BY DEF ServerInv, ControlOK, FilesLeft, Ask
<1>3. ASSUME NEW v \in InPool' PROVE IsCalling(v)'
  BY <1>1, <1>3 DEF ServerInv, HeldOnlyInCalls, IsCalling, InPool, Ask
<1> QED
  BY <1>1, <1>2, <1>3 DEF ServerInv, HeldOnlyInCalls, DatabaseOutlivesRequests, InPool, Ask

\* Who is in the pool tells where main is.
LEMMA MainInPool ==
  ASSUME ServerInv
  PROVE  /\ Main \in InPool => main \in MainCalls
         /\ Tx \in InPool => main \in TxCalls
BY ServerAssumption DEF ServerInv, HeldOnlyInCalls, IsCalling, InPool

\* As long as no goroutine moves, and neither Main nor Tx is left in the pool
\* outside its calls, every connection stays accounted for.
LEMMA MainMoves ==
  ASSUME ServerInv, UNCHANGED <<env, pc>>, InPool' \subseteq InPool,
         Main \in InPool' => main' \in MainCalls,
         Tx \in InPool' => main' \in TxCalls
  PROVE  HeldOnlyInCalls'
<1> SUFFICES ASSUME NEW u \in InPool' PROVE IsCalling(u)'
  BY DEF HeldOnlyInCalls, InPool
<1>1. IsCalling(u)
  BY DEF ServerInv, HeldOnlyInCalls, InPool
<1> QED
  BY <1>1 DEF IsCalling

\* main: db.Open, RunMigrations, the signal, Shutdown and the deferred Close.
LEMMA MainInv ==
  ASSUME ServerInv, MainStep \/ Signal
  PROVE  ServerInv'
<1>1. CASE Start
  <2>1. PoolOK' /\ InPool' = InPool
    BY <1>1 DEF Start, ServerInv, PoolOK, PoolTypeOK, poolVars, limits, InPool
  <2>2. ControlOK'
    BY <1>1, ServerAssumption DEF Start, ServerInv, ControlOK, MainLocations, FilesLeft, Starting
  <2>3. Main \notin InPool /\ Tx \notin InPool
    BY <1>1, MainInPool DEF Start, MainCalls, TxCalls
  <2>4. HeldOnlyInCalls'
    BY <1>1, <2>1, <2>3, MainMoves DEF Start
  <2> QED
    BY <1>1, <2>1, <2>2, <2>4 DEF Start, ServerInv, DatabaseOutlivesRequests
<1>2. CASE MainReply
  <2>1. PoolOK' /\ InPool' = InPool \ {Main}
    BY <1>2, ReleaseOK DEF ServerInv, MainReply, MainGoesOn, MainGoto, NextFile
  <2>2. UNCHANGED <<env, pc, gone, signalled>> /\ main' # "closing"
    BY <1>2 DEF MainReply, MainGoesOn, MainGoto, NextFile
  <2>3. Tx \notin InPool
    BY <1>2, MainInPool DEF MainReply, MainCalls, TxCalls
  <2>4. HeldOnlyInCalls'
    BY <2>1, <2>2, <2>3, MainMoves
  <2>5. ControlOK'
    BY <1>2, <2>2, ServerAssumption
       DEF ServerInv, ControlOK, MainReply, MainCalls, MainGoesOn, MainGoto, NextFile,
           MainLocations, FilesLeft, Starting
  <2> QED
    BY <2>1, <2>2, <2>4, <2>5 DEF ServerInv, DatabaseOutlivesRequests
<1>3. CASE TxReply
  <2>1. PoolOK' /\ InPool' \subseteq InPool /\ (main = "commit" => Tx \notin InPool')
    <3>1. UNCHANGED env
      BY <1>3 DEF TxReply, MainGoesOn, MainGoto, NextFile
    <3>2. CASE main = "commit"
      <4>1. Tx \in inUse /\ Release(Tx)
        BY <1>3, <3>2 DEF TxReply
      <4> QED
        BY <3>1, <4>1, ReleaseOK DEF ServerInv
    <3>3. CASE main # "commit"
      BY <1>3, <3>1, <3>3 DEF TxReply, ServerInv, PoolOK, PoolTypeOK, poolVars, limits, InPool
    <3> QED
      BY <3>2, <3>3
  <2>2. UNCHANGED <<env, pc, gone, signalled>> /\ main' # "closing"
    BY <1>3 DEF TxReply, MainGoesOn, MainGoto, NextFile
  <2>3. Main \notin InPool
    BY <1>3, MainInPool DEF TxReply, MainCalls, TxCalls
  <2>4. main # "commit" => main' \in TxCalls
    BY <1>3 DEF TxReply, TxCalls, MainCalls, MainGoesOn, MainGoto
  <2>5. HeldOnlyInCalls'
    BY <2>1, <2>2, <2>3, <2>4, MainMoves
  <2>6. ControlOK'
    BY <1>3, <2>2, ServerAssumption
       DEF ServerInv, ControlOK, TxReply, TxCalls, MainCalls, MainGoesOn, MainGoto, NextFile,
           MainLocations, FilesLeft, Starting
  <2> QED
    BY <2>1, <2>2, <2>5, <2>6 DEF ServerInv, DatabaseOutlivesRequests
<1>4. CASE Shutdown \/ Drained \/ Signal
  <2>1. PoolOK' /\ InPool' = InPool /\ UNCHANGED <<env, pc>>
    BY <1>4 DEF Shutdown, Drained, Signal, MainGoto, ServerInv, PoolOK, PoolTypeOK, poolVars,
                limits, InPool
  <2>2. ControlOK'
    BY <1>4, ServerAssumption
       DEF Shutdown, Drained, Signal, MainGoto, ServerInv, ControlOK, MainLocations, FilesLeft,
           Starting
  <2>3. Main \notin InPool /\ Tx \notin InPool
    BY <1>4, MainInPool DEF Shutdown, Drained, Signal, MainCalls, TxCalls
  <2>4. HeldOnlyInCalls'
    BY <2>1, <2>3, MainMoves
  <2>5. DatabaseOutlivesRequests'
    BY <1>4 DEF Shutdown, Drained, IsDrained, Signal, MainGoto, ServerInv, DatabaseOutlivesRequests
  <2> QED
    BY <2>1, <2>2, <2>4, <2>5 DEF ServerInv
<1>5. CASE Close
  BY <1>5, ExitInv DEF Close
<1> QED
  BY <1>1, <1>2, <1>3, <1>4, <1>5 DEF MainStep

\* A goroutine moves: it is well typed, and everybody in the pool except itself
\* is still in a call.
LEMMA HandlerMoves ==
  ASSUME ServerInv, NEW h \in Handlers, NEW location \in Locations, Goto(h, location),
         PoolOK', InPool' \subseteq InPool \ {h}
  PROVE  ControlOK' /\ HeldOnlyInCalls'
<1>1. ControlOK'
  BY DEF ServerInv, ControlOK, FilesLeft, Goto
<1>2. ASSUME NEW u \in InPool'
      PROVE  IsCalling(u)'
  <2>1. IsCalling(u) /\ u # h
    BY DEF ServerInv, HeldOnlyInCalls, InPool
  <2>2. u \in Handlers => pc'[u] = pc[u]
    BY <2>1 DEF Goto, ServerInv, ControlOK
  <2> QED
    BY <2>1, <2>2 DEF IsCalling, Goto
<1> QED
  BY <1>1, <1>2 DEF HeldOnlyInCalls, InPool

\* The locations a goroutine can move to are locations (RequestFlow).
LEMMA FollowsType ==
  ASSUME NEW location \in Locations
  PROVE  Flow!Follows(location) \subseteq Locations /\ Flow!AfterError(location) \in Locations
BY DEF Flow!Follows, Flow!AfterError, Locations, Routes

\* A goroutine that is not in a call is not in the pool.
LEMMA NotInPool ==
  ASSUME ServerInv, NEW h \in Handlers, pc[h] \notin HandlerCalls
  PROVE  h \notin InPool
BY ServerAssumption DEF ServerInv, HeldOnlyInCalls, IsCalling, InPool

\* A step of ServeHTTP, with the call of a repository that it makes.
LEMMA RequestInv ==
  ASSUME ServerInv, NEW h \in Handlers, RequestStep(h)
  PROVE  ServerInv'
<1>1. ASSUME UNCHANGED poolVars, UNCHANGED env
      PROVE  PoolOK' /\ InPool' = InPool
  BY <1>1 DEF ServerInv, PoolOK, PoolTypeOK, poolVars, limits, InPool
<1>2. pc[h] \in Locations
  BY DEF ServerInv, ControlOK
<1>3. CASE Connect(h) \/ HangUp(h) \/ Route(h) \/ Step(h)
  <2>1. PICK location \in Locations : Goto(h, location)
    BY <1>2, <1>3, FollowsType DEF Connect, HangUp, Route, Step, Locations
  <2>2. PoolOK' /\ InPool' = InPool
    BY <1>1, <1>3, <2>1 DEF Connect, HangUp, Route, Step, Goto
  <2>3. h \notin InPool
    BY <1>3, NotInPool DEF Connect, HangUp, Route, Step, HandlerCalls, Flow!Calls
  <2>4. ControlOK' /\ HeldOnlyInCalls'
    BY <2>1, <2>2, <2>3, HandlerMoves
  <2>5. DatabaseOutlivesRequests'
    BY <1>3, <2>1 DEF Connect, HangUp, Route, Step, Goto, ServerInv, DatabaseOutlivesRequests
  <2> QED
    BY <2>2, <2>4, <2>5 DEF ServerInv
<1>4. CASE Reply(h) \/ CallIsCancelled(h)
  <2>1. PICK location \in Locations : Goto(h, location)
    BY <1>2, <1>4, FollowsType DEF Reply, CallIsCancelled
  <2>2. PoolOK' /\ InPool' = InPool \ {h}
    BY <1>4, <2>1, ReleaseOK, GiveUpOK
       DEF Reply, CallIsCancelled, AbandonCall, Goto, ServerInv
  <2>3. ControlOK' /\ HeldOnlyInCalls'
    BY <2>1, <2>2, HandlerMoves
  <2>4. pc[h] # "idle" /\ main' = main
    BY <1>4, <2>1 DEF Reply, CallIsCancelled, HandlerCalls, Flow!Calls, Goto
  <2>5. DatabaseOutlivesRequests'
    BY <2>4 DEF ServerInv, DatabaseOutlivesRequests
  <2> QED
    BY <2>2, <2>3, <2>5 DEF ServerInv
<1> QED
  BY <1>3, <1>4 DEF RequestStep

\* The client's departure and the pool's own housekeeping move nobody.
LEMMA AsideInv ==
  ASSUME ServerInv,
         \/ \E h \in Handlers : Disconnect(h)
         \/ Expire /\ UNCHANGED <<env, main, left, signalled, pc, gone>>
         \/ UNCHANGED vars
  PROVE  ServerInv'
<1>1. UNCHANGED <<env, main, left, signalled, pc>> /\ gone' \in [Handlers -> BOOLEAN]
  BY DEF Disconnect, vars, ServerInv, ControlOK
<1>2. PoolOK' /\ InPool' = InPool
  <2>1. CASE Expire
    BY <1>1, <2>1, ExpireOK DEF ServerInv
  <2>2. CASE UNCHANGED poolVars
    BY <1>1, <2>2 DEF ServerInv, PoolOK, PoolTypeOK, poolVars, limits, InPool
  <2> QED
    BY <2>1, <2>2 DEF Disconnect, vars
<1>3. HeldOnlyInCalls'
  BY <1>1, <1>2, MainMoves, MainInPool
<1> QED
  BY <1>1, <1>2, <1>3 DEF ServerInv, ControlOK, FilesLeft, DatabaseOutlivesRequests

\* ServerInv is inductive.
LEMMA StepInv == ServerInv /\ [Next]_vars => ServerInv'
<1> SUFFICES ASSUME ServerInv, [Next]_vars PROVE ServerInv'
  OBVIOUS
<1>1. CASE MainEnds
  BY <1>1, ExitInv DEF MainEnds, StartFails, DrainTimesOut, TimeOut, Die
<1>2. CASE MainStep \/ Signal
  BY <1>2, MainInv
<1>3. CASE \E u \in Callers : Ask(u)
  BY <1>3, AskInv
<1>4. CASE \E h \in Handlers : RequestStep(h)
  BY <1>4, RequestInv
<1>5. CASE \/ \E h \in Handlers : Disconnect(h)
           \/ Expire /\ UNCHANGED <<env, main, left, signalled, pc, gone>>
           \/ UNCHANGED vars
  BY <1>5, AsideInv
<1> QED
  BY <1>1, <1>2, <1>3, <1>4, <1>5 DEF Next

\* ServerInv holds in every state the server can be in.
LEMMA ServerAlways == Spec => []ServerInv
BY InitInv, StepInv, PTL DEF Spec

-----------------------------------------------------------------------------
(* Theorems                                                                 *)

\* The server is type correct, whatever the environment and however many
\* clients: in particular the pool keeps within its idle limit.
THEOREM TypeCorrect == Spec => []TypeOK
<1>1. ServerInv => TypeOK
  BY DEF ServerInv, PoolOK, ControlOK, TypeOK
<1> QED
  BY <1>1, ServerAlways, PTL

\* DB_MAX_OPEN_CONNS, or its default where that is unusable, bounds the
\* connections of the process (config.Load, db.ApplyPoolConfig).
THEOREM Bounded == Spec => []PoolIsBounded
<1>1. ServerInv => PoolIsBounded
  <2> SUFFICES ASSUME ServerInv, Atoi[env.DB_MAX_OPEN_CONNS] # 0
               PROVE  Stats.OpenConnections <= IF Atoi[env.DB_MAX_OPEN_CONNS] \in Nat
                                               THEN Atoi[env.DB_MAX_OPEN_CONNS]
                                               ELSE DefaultMaxOpenConns
    BY DEF PoolIsBounded
  <2>1. limits.open = IF Atoi[env.DB_MAX_OPEN_CONNS] \in Nat
                      THEN Atoi[env.DB_MAX_OPEN_CONNS] ELSE DefaultMaxOpenConns
    BY LimitsType DEF ServerInv, PoolOK, PoolTypeOK
  <2>2. DefaultMaxOpenConns \in Nat \ {0}
    BY ConfigAssumption
  <2>3. limits.open > 0
    BY <2>1, <2>2
  <2>4. Cardinality(inUse) + idle <= limits.open
    BY <2>3 DEF ServerInv, PoolOK
  <2> QED
    BY <2>1, <2>4 DEF Stats
<1> QED
  BY <1>1, ServerAlways, PTL

\* A connection is held or waited for only during a call.
THEOREM NothingLeaks == Spec => []HeldOnlyInCalls
<1>1. ServerInv => HeldOnlyInCalls
  BY DEF ServerInv
<1> QED
  BY <1>1, ServerAlways, PTL

\* The pool never waits for itself: not even a pool of one connection can block
\* RunMigrations, or the requests one another.
THEOREM NoPoolDeadlock == Spec => []WaitersCanBeServed
<1>1. ServerInv => WaitersCanBeServed
  <2> SUFFICES ASSUME ServerInv, waiting # {}
               PROVE  \E u \in inUse : ~(u = Tx /\ Main \in waiting)
    BY DEF WaitersCanBeServed
  <2>1. PICK u \in inUse : TRUE
    BY DEF ServerInv, PoolOK
  <2>2. ~(Tx \in inUse /\ Main \in waiting)
    BY MainInPool DEF InPool, MainCalls, TxCalls
  <2> QED
    BY <2>1, <2>2
<1> QED
  BY <1>1, ServerAlways, PTL

\* main closes the database only when no request is in flight.
THEOREM CloseIsSafe == Spec => []DatabaseOutlivesRequests
<1>1. ServerInv => DatabaseOutlivesRequests
  BY DEF ServerInv
<1> QED
  BY <1>1, ServerAlways, PTL
=============================================================================
