------------------------------ MODULE MCTandem ------------------------------
(***************************************************************************)
(* Model of Tandem for TLC.  Every decision threshold of both laws is a    *)
(* magnitude divisible by 4, so the codewords are constant on each block   *)
(* 4k..4k+3 of magnitudes: the two ends of every block stand for all i16   *)
(* values.  The neighbour of an upper end is the next block's lower end.   *)
(***************************************************************************)
EXTENDS Tandem

MCOrigins == {s \in -32768..32766 : Magnitude(s) % 4 \in {0, 3}}
=============================================================================
