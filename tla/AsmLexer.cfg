CONSTANTS
  MaxFileLen = 6
  Inputs <- MCInputs
  MaxTokenLen = 2
  MaxTextLen = 3
  MaxFailures = 1
SPECIFICATION Spec
INVARIANT TokensExact
