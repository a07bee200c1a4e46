--------------------------- MODULE MCCodecSimulation ---------------------------
(***************************************************************************)
(* A code for model checking CodecSimulation.                              *)
(***************************************************************************)
EXTENDS CodecSimulation

\* Two data branches on two check branches; the first check branch adds up both.
\* The code corrects one error.
CrossedCode == {[i |-> 1, j |-> 1, powersPolynom |-> {0, 1}],
                [i |-> 2, j |-> 1, powersPolynom |-> {0}],
                [i |-> 2, j |-> 2, powersPolynom |-> {0, 1}]}

DataBits == 1 .. 2

\* The parameters are the ones the tool computes from the definition.
ASSUME /\ k0 = GetCountInputs
       /\ n0 = GetCountOutputs
       /\ polynomPower = GetMaxM

ASSUME SelfOrthogonal
=============================================================================
