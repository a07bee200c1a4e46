------------------------------- MODULE MCModelingTool -------------------------------
(***************************************************************************)
(* Command lines and files for model checking ModelingTool.                *)
(***************************************************************************)
EXTENDS ModelingTool

CONSTANTS t1, t2

\* 4 dB, a ratio that is printed like it, and one that leaves no noise.
Decibels == {4, 4000001, 20}
PrintedDecibels == [ratio \in Decibels |-> IF ratio = 4000001 THEN 4 ELSE ratio]

TwoByTwo == <<ItemLine(1, 1, {0, 2}), ItemLine(2, 1, {0}),
              ItemLine(1, 2, {1}), ItemLine(2, 2, {0, 1})>>

\* coder_definition.txt counts the branches from 1; raw.txt, the output of a search,
\* from 0; wide.txt has more data than check branches; late.txt has its first zero
\* in the middle; broken.txt ends with a line break, and empty.txt has its item behind
\* the line with the time.
DefinitionFiles ==
  [name \in {"coder_definition.txt", "raw.txt", "wide.txt", "late.txt",
             "broken.txt", "empty.txt"} |->
    CASE name = "coder_definition.txt" -> TwoByTwo
      [] name = "raw.txt" ->
           <<OtherLine, SminLine, OtherLine, ItemLine(0, 0, {0, 1}),
             ItemLine(1, 1, {0}), ItemLine(0, 1, {0, 2}), TimeLine, OtherLine>>
      [] name = "wide.txt" -> <<ItemLine(1, 1, {0, 1}), ItemLine(2, 1, {0, 2})>>
      [] name = "late.txt" -> <<ItemLine(1, 0, {0, 1}), ItemLine(0, 0, {0, 2})>>
      [] name = "broken.txt" -> <<ItemLine(1, 1, {0, 1}), OtherLine>>
      [] OTHER -> <<TimeLine, ItemLine(1, 1, {0})>>]

Words == [word \in {"tool", "-snrdB", "-p0", "--decoderType", "--useRawResultData",
                    "--filenameCoderDefinition", "--p0ComputingMode", "--countSections",
                    "basic", "multi", "none", "0", "1", "2", "4", "4.000001", "20", "120"}
            \cup DOMAIN DefinitionFiles |->
  CASE word = "1" -> 1
    [] word = "2" -> 2
    [] word = "4" -> 4
    [] word = "4.000001" -> 4000001
    [] word = "20" -> 20
    [] word = "120" -> 120
    [] OTHER -> 0]

Default == <<"--decoderType", "basic", "-snrdB", "4">>

Argvs ==
  { <<"tool">>,
    <<"tool", "-snrdB", "4.000001">>,
    <<"tool", "--filenameCoderDefinition", "wide.txt">>,
    <<"tool", "-p0", "2", "-p0", "120">>,
    <<"tool", "-p0", "2", "--filenameCoderDefinition", "late.txt">>,
    <<"tool", "-snrdB", "4", "--filenameCoderDefinition", "empty.txt">>,
    <<"tool", "-p0", "1", "--filenameCoderDefinition", "broken.txt">>,
    <<"tool", "-snrdB", "4", "--p0ComputingMode", "1", "--useRawResultData", "1",
      "--filenameCoderDefinition", "raw.txt", "--decoderType", "multi",
      "--countSections", "2">>,
    <<"tool", "-snrdB", "20", "--p0ComputingMode", "1", "--useRawResultData", "1",
      "--filenameCoderDefinition", "broken.txt">>,
    <<"tool", "-p0", "--p0ComputingMode", "2">> }

\* The second run only shares the cache with the first.
ArgvsOfTools == (t1 :> Argvs) @@ (t2 :> {<<"tool">>})

Table == {4}
=============================================================================
