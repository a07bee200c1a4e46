--------------------------------- MODULE MCUncodedLine ---------------------------------
(***************************************************************************)
(* Bytes for model checking UncodedLine.                                   *)
(***************************************************************************)
EXTENDS UncodedLine

\* What an array that is not initialised may hold: zeros, ones, and a mixture.
GarbageBytes == {{}, 0 .. 7, {0, 3, 7}}
=============================================================================
