SPECIFICATION FairSpec
CONSTANTS
  Instances = {i1, i2, i3}
  Versions <- Slice
  TablesOf <- Creates
  SchemaMigrations = "schema_migrations"
  MaxFaults = 2
INVARIANTS
  TypeOK
  AppliedInOrder
  RecordedIsComplete
  ServingIsMigrated
  WaitsLeadForward
PROPERTIES
  EveryInstanceServes
