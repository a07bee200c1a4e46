------------------------------ MODULE MCHemmingCoder ------------------------------
(***************************************************************************)
(* The (7, 4) code for model checking HemmingCoder.                        *)
(***************************************************************************)
EXTENDS HemmingCoder

\* The rows of its sorted matrix are the numbers from 1 to 7.
ASSUME RowsNumberTheirBits
=============================================================================
