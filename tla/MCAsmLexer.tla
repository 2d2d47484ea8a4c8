----------------------------- MODULE MCAsmLexer ----------------------------
(***************************************************************************)
(* AsmLexer for TLC: every file of a few characters, with tokens that can  *)
(* be too long.                                                            *)
(***************************************************************************)
EXTENDS AsmLexer

CONSTANT MaxFileLen   \* bound of the model

MCInputs ==
  UNION {[1 .. n -> {"space", "CR", "LF", "quote", "x"}] : n \in 0 .. MaxFileLen}
=============================================================================
