---------------------------- MODULE MCG711Slices ----------------------------
(***************************************************************************)
(* Model of G711Slices for TLC: inputs of up to three elements (four for   *)
(* byte planes) with both extremes of each type, for the helpers that      *)
(* check it a buffer too short and too long for each of them, and two      *)
(* calls on the same buffer.                                               *)
(***************************************************************************)
EXTENDS G711Slices

MCByteInputs   == {<<>>, <<0>>, <<255, 127>>, <<1, 128, 85>>, <<0, 128, 255, 127>>}
MCSampleInputs == {<<>>, <<-32768>>, <<0, -1>>, <<-32100, 32767, 513>>}
MCBufferSizes  == 0..9
=============================================================================
