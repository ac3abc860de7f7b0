------------------------------ MODULE MCServer ------------------------------
(* Instances of Server for TLC.                                             *)
EXTENDS Server, TLC

CONSTANTS h1, h2, h3

\* Every number a variable can hold here, two that are unusable, and none.
MCText == {"", " ", "url", "0", "1", "3", "-1", "many"}

MCParse == ("0" :> 0 @@ "1" :> 1 @@ "3" :> 3 @@ "-1" :> -1) @@ [t \in MCText |-> Malformed]

Environment(url, open, idleConns, lifetime) ==
  [DATABASE_URL |-> url, DB_MAX_OPEN_CONNS |-> open,
   DB_MAX_IDLE_CONNS |-> idleConns, DB_CONN_MAX_LIFETIME |-> lifetime]

\* The deployments of the two runs.
AnyPool ==
  {Environment(url, "", "", "") : url \in {"", " "}} \cup
  {Environment("url", open, "", "") : open \in {"", "0", "1", "-1", "many"}} \cup
  {Environment("url", "3", idleConns, lifetime) : idleConns \in {"0", "1"},
                                                 lifetime \in {"0", "-1"}}

OneConnection == {Environment("url", "1", "0", "")}

Symmetry == Permutations(Handlers)
=============================================================================
