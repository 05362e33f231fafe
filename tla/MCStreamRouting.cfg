\* A stream that is not the first one of the store.
CONSTANTS
  Stream = sA
  Others = {sB}
  MaxEvents = 4
  BatchSize = 1
  StartFrom = "origin"
SPECIFICATION Spec
INVARIANTS NothingPassedUnseen
