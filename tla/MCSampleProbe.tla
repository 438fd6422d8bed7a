---------------------------- MODULE MCSampleProbe ----------------------------
(***************************************************************************)
(* Model of SampleProbe for TLC.                                           *)
(*                                                                         *)
(* per_sample_invariants, inputs of one operation: every codeword of both  *)
(* laws, and on the sample side the samples on either side of each         *)
(* decision level, where the codeword changes, with the ends of the range: *)
(* the decision levels of mu-law are 4 modulo 8, those of A-law 0 modulo   *)
(* 16.  Other inputs: empty, cut off in the operand, of several            *)
(* operations, longer than ReplayCap.                                      *)
(*                                                                         *)
(* zero_suppress_invariants: every high byte with low bytes at the ends,   *)
(* alone and in front of the loudest negative sample or of a lone last     *)
(* byte; and the empty input.                                              *)
(***************************************************************************)
EXTENDS SampleProbe

(* The bytes of samples next to a decision level at offset modulo period:  *)
(* a negative sample is on its outer side one step further up.             *)
NearLevel(period, offset, lo, hi) ==
    \/ lo \in {0, 255}
    \/ lo % period = offset
    \/ hi < 128 /\ (lo + 1) % period = offset
    \/ hi >= 128 /\ (lo - 1) % period = offset

SamplesNear(op, period, offset) ==
    {<<op, x[1], x[2]>> : x \in {y \in Byte \X Byte :
                                  NearLevel(period, offset, y[1], y[2])}}

MulawSamples  == SamplesNear(0, 8, 4)
AlawSamples   == SamplesNear(2, 16, 0)
EveryCodeword == {<<op, b, 0>> : op \in {1, 3}, b \in Byte}

MCPerSampleInputs ==
    MulawSamples \cup AlawSamples \cup EveryCodeword \cup
    { <<>>, <<0>>, <<2, 254>>, <<255, 128>>, <<0, 255, 255, 6, 0>>,
      <<4, 128, 127, 1, 85, 3, 2, 0, 128, 7, 213>> }

Lows == {0, 3, 4, 127, 132, 255}

MCZeroSuppressInputs ==
    {<<>>} \cup {<<lo>> : lo \in {0, 127, 128, 255}}
           \cup {<<lo, hi>> : lo \in Lows, hi \in Byte}
           \cup {<<lo, hi, 0, 128>> : lo \in Lows, hi \in Byte}
           \cup {<<lo, hi, 255>> : lo \in Lows, hi \in 126..133}
=============================================================================
