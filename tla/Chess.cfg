CONSTANTS
  Nibble = 4
  And <- MCAnd
  Ora <- MCOra
  Eor <- MCEor
  Banks = 2
  ResetVector = 16
  ExpansionPort = 1
  MaxArgs = 2
  MaxArgLen = 4
  Encoded <- MCEncoded
  Deep = 20
  Programs <- MCPrograms
SPECIFICATION Spec
INVARIANTS TypeOK AnnotationsExact Sound EndsSomewhere ReportsAreReal
PROPERTY Decides
