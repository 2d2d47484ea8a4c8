CONSTANTS
  Nibble = 2
  And <- MCAnd
  Ora <- MCOra
  Eor <- MCEor
  Banks = 2
  ResetVector = 4
  ExpansionPort = 1
  Machines <- MCMachines
  Vectors = {5, 14}
  Inputs = {0, 2}
SPECIFICATION Spec
INVARIANTS TypeOK ExpansionExact
PROPERTY IsUxn
CHECK_DEADLOCK FALSE
