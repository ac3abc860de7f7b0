---------------------------- MODULE MCMigrations ----------------------------
(* Instances of Migrations for TLC.                                         *)
EXTENDS Migrations, TLC

\* The slice migrations has its first entry only; with a next one the loop takes
\* more than one turn.
Slice == <<"001_init", "002_next">>

Creates == "001_init" :> {"payments", "webhook_events", "anomalies"} @@ "002_next" :> {"next"}
=============================================================================
