---------------------------- MODULE MCEncodeLoop ----------------------------
(* Model of EncodeLoop for TLC: every i16 argument of either function.     *)
EXTENDS EncodeLoop

MCSamples == S16
=============================================================================
