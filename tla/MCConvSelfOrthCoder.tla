-------------------------- MODULE MCConvSelfOrthCoder --------------------------
(***************************************************************************)
(* Codes for model checking ConvSelfOrthCoder.                             *)
(***************************************************************************)
EXTENDS ConvSelfOrthCoder

\* The code of ThresholdDecodingTest/main.cpp and coder_definition_k0_1_n0_2.txt.
TestCode == {[i |-> 1, j |-> 1, powersPolynom |-> {0, 1, 4, 6}]}

\* Two data branches that share a check branch (rate 2/3).
TwoInputsCode == {[i |-> 1, j |-> 1, powersPolynom |-> {0, 1}],
                  [i |-> 2, j |-> 1, powersPolynom |-> {0, 2}]}

\* The parameters are the ones the tool computes from the definition.
ASSUME /\ k0 = GetCountInputs
       /\ n0 = GetCountOutputs
       /\ polynomPower = GetMaxM

ASSUME SelfOrthogonal
=============================================================================
