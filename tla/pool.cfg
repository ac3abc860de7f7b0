SPECIFICATION Spec
CONSTANTS
  h1 = h1
  h2 = h2
  h3 = h3
  Handlers = {h1, h2, h3}
  Main = Main
  Tx = Tx
  Files = 2
  Deployments <- AnyPool
  Text <- MCText
  Unset = ""
  Blanks = {"", " "}
  Atoi <- MCParse
  ParseDuration <- MCParse
  Malformed = Malformed
  DefaultMaxOpenConns = 2
  DefaultMaxIdleConns = 1
  DefaultConnMaxLifetime = 1
SYMMETRY Symmetry
INVARIANTS
  TypeOK
  PoolIsBounded
  HeldOnlyInCalls
  WaitersCanBeServed
  DatabaseOutlivesRequests
