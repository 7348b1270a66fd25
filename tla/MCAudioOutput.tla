--------------------------- MODULE MCAudioOutput ---------------------------
(***************************************************************************)
(* The blocks of the run of AudioOutput: one and two bytes, a full ring,   *)
(* and one that no ring can take.                                          *)
(***************************************************************************)
EXTENDS AudioOutput

CONSTANTS b1, b2

MCBlocks == {<<b1>>, <<b2, b1>>, <<b1, b2, b2>>, <<b2, b2, b2, b2, b2>>}
=============================================================================
