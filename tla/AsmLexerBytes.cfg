CONSTANTS
  MaxFileLen = 3
  Inputs <- MCInputs
  MaxTokenLen = 2
  MaxTextLen = 3
  MaxFailures = 1
SPECIFICATION Spec
INVARIANT ByteOffsets
