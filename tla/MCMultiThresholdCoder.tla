------------------------- MODULE MCMultiThresholdCoder -------------------------
(***************************************************************************)
(* Codes for model checking MultiThresholdCoder.                           *)
(***************************************************************************)
EXTENDS MultiThresholdCoder

\* A code of rate 1/2 with two flags for a bit.
ShortCode == {[i |-> 1, j |-> 1, powersPolynom |-> {0, 1}]}

\* Two data branches that share a check branch (rate 2/3).
TwoInputsCode == {[i |-> 1, j |-> 1, powersPolynom |-> {0, 1}],
                  [i |-> 2, j |-> 1, powersPolynom |-> {0, 2}]}

\* The parameters are the ones the tool computes from the definition.
ASSUME /\ k0 = GetCountInputs
       /\ n0 = GetCountOutputs
       /\ polynomPower = GetMaxM
=============================================================================
