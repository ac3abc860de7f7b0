----------------------------- MODULE RequestFlow -----------------------------
(***************************************************************************)
(* The way of a webhook request through the program, free of data: the     *)
(* database calls it makes, in which order, and where it ends.             *)
(* WebhookService implements it, and Server puts it on the pool.           *)
(***************************************************************************)
CONSTANT Handlers

VARIABLE pc

\* The locations at which a goroutine has a call of the database to make.
Calls == {"insert", "get", "record", "upsert"}

Follows(location) ==
  CASE location = "idle"     -> {"received"}
    [] location = "received" -> {"insert", "idle"}
    [] location = "insert"   -> {"get", "duplicate", "internal_error"}
    [] location = "get"      -> {"record", "upsert", "processed", "internal_error"}
    [] location = "record"   -> {"processed"}
    [] location = "upsert"   -> {"processed", "internal_error"}
    [] OTHER                 -> {"idle"}

\* The error of Record is dropped, every other one ends the request.
AfterError(location) == IF location = "record" THEN "processed" ELSE "internal_error"

Init == pc = [h \in Handlers |-> "idle"]

Move(h) == \E location \in Follows(pc[h]) : pc' = [pc EXCEPT ![h] = location]

\* The process ends.
Cut == pc' = [h \in Handlers |-> "idle"]

Spec == Init /\ [][Cut \/ \E h \in Handlers : Move(h)]_pc
==============================================================================
