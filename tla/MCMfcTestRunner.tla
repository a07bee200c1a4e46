------------------------------ MODULE MCMfcTestRunner ------------------------------
(***************************************************************************)
(* A tree of tests for model checking MfcTestRunner alone.                 *)
(***************************************************************************)
EXTENDS MfcTestRunner

Tree == ("all" :> <<"first", "inner">>) @@ ("inner" :> <<"second">>) @@ ("empty" :> <<>>)

=============================================================================
