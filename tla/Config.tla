------------------------------- MODULE Config -------------------------------
(***************************************************************************)
(* Package internal/config, as far as the database pool depends on it, and *)
(* db.ApplyPoolConfig: from the environment to the limits of the pool.     *)
(* PORT, APP_ENV, ENV and the signing secret reach nothing that is         *)
(* modelled here.                                                          *)
(***************************************************************************)
EXTENDS Integers

CONSTANTS
  Text,            \* the values of environment variables
  Unset,           \* the variable is missing or empty
  Blanks,          \* Unset, and the texts that are nothing but white space
  Atoi,            \* strconv.Atoi: a number, or Malformed
  ParseDuration,   \* time.ParseDuration: a number, or Malformed
  Malformed,
  DefaultMaxOpenConns, DefaultMaxIdleConns, DefaultConnMaxLifetime

ASSUME ConfigAssumption ==
  /\ Unset \in Blanks /\ Blanks \subseteq Text
  /\ {Atoi, ParseDuration} \subseteq [Text -> Int \cup {Malformed}]
  /\ Malformed \notin Int
  /\ Atoi[Unset] = Malformed
  /\ {DefaultMaxOpenConns, DefaultMaxIdleConns, DefaultConnMaxLifetime} \subseteq Nat \ {0}

Environments == [DATABASE_URL : Text, DB_MAX_OPEN_CONNS : Text,
                 DB_MAX_IDLE_CONNS : Text, DB_CONN_MAX_LIFETIME : Text]

\* Seeded bug: the error of Atoi, which then returns 0, is dropped.
intEnvOrDefaultErrorDropped(value, fallback) ==
  LET parsed == IF Atoi[value] = Malformed THEN 0 ELSE Atoi[value] IN
  IF value = Unset \/ parsed < 0 THEN fallback ELSE parsed

intEnvOrDefault(value, fallback) ==
  IF value = Unset \/ Atoi[value] = Malformed \/ Atoi[value] < 0 THEN fallback ELSE Atoi[value]

durationEnvOrDefault(value, fallback) ==
  LET parsed == ParseDuration[value] IN
  IF value = Unset \/ parsed = Malformed \/ parsed < 0 THEN fallback ELSE parsed

Load(env) ==
  [DatabaseURL       |-> env.DATABASE_URL,
   DBMaxOpenConns    |-> intEnvOrDefault(env.DB_MAX_OPEN_CONNS, DefaultMaxOpenConns),
   DBMaxIdleConns    |-> intEnvOrDefault(env.DB_MAX_IDLE_CONNS, DefaultMaxIdleConns),
   DBConnMaxLifetime |-> durationEnvOrDefault(env.DB_CONN_MAX_LIFETIME, DefaultConnMaxLifetime)]

\* The limits sql.Open leaves in place; 0 open connections and 0 lifetime stand
\* for no limit.
Unlimited == [open |-> 0, idle |-> 2, lifetime |-> 0]

\* SetMaxOpenConns and SetMaxIdleConns keep the idle limit within the other one.
Clamped(limits) ==
  IF limits.open \in 1 .. limits.idle THEN [limits EXCEPT !.idle = limits.open] ELSE limits

\* Open returns ErrMissingDatabaseURL otherwise.
HasDatabaseURL(config) == config.DatabaseURL \notin Blanks

Above(value, otherwise) == IF value >= 0 THEN value ELSE otherwise

ApplyPoolConfig(config) ==
  Clamped([open     |-> Above(config.DBMaxOpenConns, Unlimited.open),
           idle     |-> Above(config.DBMaxIdleConns, Unlimited.idle),
           lifetime |-> Above(config.DBConnMaxLifetime, Unlimited.lifetime)])
=============================================================================
