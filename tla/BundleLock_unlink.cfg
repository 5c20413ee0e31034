SPECIFICATION Spec
CONSTANTS
  Managers = {"a", "b", "c"}
  Processes = {"a", "b", "c"}
  ProcessOf <- OnePerProcess
  RemovalsFail = FALSE
  MaxInodes = 3
INVARIANTS
  OneWriterProcess
