SPECIFICATION Spec
CONSTANTS
  Managers = {"a1", "a2", "b"}
  Processes = {"a", "b"}
  ProcessOf <- TwoInOne
  RemovalsFail = FALSE
  MaxInodes = 3
INVARIANTS
  OneWriterProcess
