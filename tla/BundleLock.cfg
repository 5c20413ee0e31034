SPECIFICATION Spec
CONSTANTS
  Managers = {"a", "b", "c"}
  Processes = {"a", "b", "c"}
  ProcessOf <- OnePerProcess
  RemovalsFail = TRUE
  MaxInodes = 3
INVARIANTS
  OneWriterUnlessRemoved
