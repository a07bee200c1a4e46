-------------------------------- MODULE MCTestRunners --------------------------------
(***************************************************************************)
(* A tree of tests for model checking TestRunners.                         *)
(***************************************************************************)
EXTENDS TestRunners

Tree == ("all" :> <<"first", "inner">>) @@ ("inner" :> <<"second", "third">>) @@ ("empty" :> <<>>)

=============================================================================
