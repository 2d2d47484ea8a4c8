--------------------------- MODULE MCAudioHandoff ---------------------------
(***************************************************************************)
(* AudioHandoff for TLC: a device that plays two notes, so that one can    *)
(* replace, follow or be lost to the other, and one that plays a single    *)
(* note, so that a buffer holds notes of several devices.                  *)
(***************************************************************************)
EXTENDS AudioHandoff

MCMaxSends == [d \in Devices |-> IF d = 0 THEN 2 ELSE 1]
=============================================================================
