\* Four bytes, read in slices of one or two, up to three at a time.
SPECIFICATION FairSpec
CONSTANTS
  Lengths = {1, 2}
  Limit = 3
  MaxBytes = 4
  MaxPending = 1
INVARIANTS
  TypeOK
  OneReader
  BytesInOrder
  AbortIsNoError
  NobodyStuck
PROPERTIES
  AbortReturns
  HangUpNoticed
