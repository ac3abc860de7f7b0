--------------------------- MODULE ConnectionPool ---------------------------
(***************************************************************************)
(* The pool of database/sql.  A caller takes an idle connection, dials a   *)
(* new one, or waits if the limit is reached; a connection that comes back *)
(* goes to one of the callers that wait, and only then back to the idle    *)
(* ones.  A connection that comes back broken is replaced for the caller   *)
(* that waits, or dropped.                                                 *)
(***************************************************************************)
EXTENDS Config, FiniteSets

VARIABLES
  env,       \* the environment the process was started in
  inUse,     \* the callers that hold a connection
  waiting,   \* the callers that wait for one
  idle       \* how many connections are free

poolVars == <<inUse, waiting, idle>>

limits == ApplyPoolConfig(Load(env))

\* DB.Stats, which the gauges of RegisterDatabaseStatsCollector observe.
Stats == [OpenConnections |-> Cardinality(inUse) + idle,
          InUse |-> Cardinality(inUse), Idle |-> idle]

NoConnections == inUse = {} /\ waiting = {} /\ idle = 0

CloseAll == inUse' = {} /\ waiting' = {} /\ idle' = 0

IsFull == limits.open > 0 /\ Stats.OpenConnections >= limits.open

TakeIdle(u) ==
  /\ idle > 0
  /\ idle' = idle - 1
  /\ inUse' = inUse \cup {u}
  /\ UNCHANGED waiting

Dial(u) ==
  /\ idle = 0
  /\ ~IsFull
  /\ inUse' = inUse \cup {u}
  /\ UNCHANGED <<waiting, idle>>

Enqueue(u) ==
  /\ idle = 0
  /\ IsFull
  /\ waiting' = waiting \cup {u}
  /\ UNCHANGED <<inUse, idle>>

Acquire(u) ==
  /\ u \notin inUse \cup waiting
  /\ TakeIdle(u) \/ Dial(u) \/ Enqueue(u)

HandOver(u, w) ==
  /\ w \in waiting
  /\ inUse' = (inUse \ {u}) \cup {w}
  /\ waiting' = waiting \ {w}
  /\ UNCHANGED idle

PutBack(u) ==
  /\ waiting = {}
  /\ inUse' = inUse \ {u}
  /\ idle' \in {idle} \cup IF idle < limits.idle THEN {idle + 1} ELSE {}
  /\ UNCHANGED waiting

Release(u) == PutBack(u) \/ \E w \in waiting : HandOver(u, w)

\* The context of a caller without a connection is done.
GiveUp(u) ==
  /\ waiting' = waiting \ {u}
  /\ UNCHANGED <<inUse, idle>>

\* Seeded bug: a connection that is in use is closed with the expired ones.
ExpireAny ==
  /\ limits.lifetime > 0
  /\ idle' = idle - 1
  /\ UNCHANGED <<inUse, waiting>>

\* An idle connection has reached ConnMaxLifetime.
Expire ==
  /\ limits.lifetime > 0
  /\ idle > 0
  /\ idle' = idle - 1
  /\ UNCHANGED <<inUse, waiting>>

\* Every variable of the pool has its type.
PoolTypeOK(callers) ==
  /\ env \in Environments
  /\ inUse \subseteq callers
  /\ waiting \subseteq callers \ inUse
  /\ idle \in 0 .. limits.idle
=============================================================================
