----------------------------- MODULE EncodeLoop -----------------------------
(***************************************************************************)
(* mulaw_encode_arith and alaw_encode_arith (src/src/tables.rs) step by    *)
(* step.  One behaviour is one call of either; Samples are its arguments.  *)
(*                                                                         *)
(* mu-law: the magnitude is clamped and biased, a mask walks down from bit *)
(* 14 until it meets a set bit or the segment counter reaches 0, and the   *)
(* byte is packed and complemented.                                        *)
(*                                                                         *)
(* A-law: the magnitude is clamped, magnitudes below 256 take the linear   *)
(* segment 0 without a search, the others raise a threshold from 512 until *)
(* it exceeds them or the segment is 7, and the byte is packed and XORed   *)
(* with 0x55.                                                              *)
(***************************************************************************)
EXTENDS G711Tables

CONSTANT Samples

ASSUME SamplesAssumption == Samples \subseteq S16

VARIABLES law,        \* the function called
          pc,         \* "prepare", "search", "pack", "done"
          sample,     \* the argument
          mag,        \* i32 magnitude; clamped, for mu-law biased, from "search" on
          seg,        \* segment counter
          mask,       \* mu-law: the bit the search looks at
          threshold,  \* A-law: first magnitude beyond the segment
          byte        \* the value returned

locals == <<law, pc, sample, mag, seg, mask, threshold, byte>>

LoopInit ==
    /\ law \in Laws
    /\ pc = "prepare"
    /\ sample \in Samples
    /\ mag = 0 /\ byte = 0
    /\ seg = IF law = "mulaw" THEN 7 ELSE 0
    /\ mask = 16384 /\ threshold = 256

-----------------------------------------------------------------------------
(* Lines up to the loop: |sample| in i32, clamped to 32635, plus the bias. *)
MulawPrepare ==
    /\ law = "mulaw" /\ pc = "prepare"
    /\ pc' = "search"
    /\ mag' = MulawBiased(sample)
    /\ UNCHANGED <<law, sample, seg, mask, threshold, byte>>

(* Mutant: segment 0 is never reached.                                     *)
MaskGoesOnAboveOne == seg > 1 /\ ~BitSet(mag, mask)

MaskGoesOn == seg > 0 /\ ~BitSet(mag, mask)

(* Mutant: the counter and the mask do not move.                           *)
MulawSearchInPlace ==
    /\ law = "mulaw" /\ pc = "search" /\ MaskGoesOn
    /\ UNCHANGED locals

MulawSearch ==
    /\ law = "mulaw" /\ pc = "search" /\ MaskGoesOn
    /\ seg' = seg - 1
    /\ mask' = mask \div 2
    /\ UNCHANGED <<law, pc, sample, mag, threshold, byte>>

MulawReturn ==
    /\ law = "mulaw" /\ pc = "search" /\ ~MaskGoesOn
    /\ pc' = "done"
    /\ byte' = MulawPack(sample, seg, mag)
    /\ UNCHANGED <<law, sample, mag, seg, mask, threshold>>

-----------------------------------------------------------------------------
(* |sample| in i32, clamped to 32256; a magnitude below 256 stays in the   *)
(* linear segment and never enters the loop.                               *)
AlawPrepareLinear ==
    /\ law = "alaw" /\ pc = "prepare" /\ AlawClamped(sample) < 256
    /\ pc' = "pack"
    /\ mag' = AlawClamped(sample)
    /\ UNCHANGED <<law, sample, seg, mask, threshold, byte>>

AlawPrepareSearch ==
    /\ law = "alaw" /\ pc = "prepare" /\ AlawClamped(sample) >= 256
    /\ pc' = "search"
    /\ mag' = AlawClamped(sample)
    /\ seg' = 1
    /\ threshold' = 512
    /\ UNCHANGED <<law, sample, mask, byte>>

(* Mutant: a magnitude on the threshold stays in the lower segment.        *)
ThresholdGoesOnStrict == seg < 7 /\ mag > threshold

ThresholdGoesOn == seg < 7 /\ mag >= threshold

AlawSearch ==
    /\ law = "alaw" /\ pc = "search" /\ ThresholdGoesOn
    /\ seg' = seg + 1
    /\ threshold' = threshold * 2
    /\ UNCHANGED <<law, pc, sample, mag, mask, byte>>

AlawSearchEnds ==
    /\ law = "alaw" /\ pc = "search" /\ ~ThresholdGoesOn
    /\ pc' = "pack"
    /\ UNCHANGED <<law, sample, mag, seg, mask, threshold, byte>>

AlawReturn ==
    /\ law = "alaw" /\ pc = "pack"
    /\ pc' = "done"
    /\ byte' = AlawPack(sample, seg, mag)
    /\ UNCHANGED <<law, sample, mag, seg, mask, threshold>>

-----------------------------------------------------------------------------
LoopNext ==
    \/ MulawPrepare \/ MulawSearch \/ MulawReturn
    \/ AlawPrepareLinear \/ AlawPrepareSearch \/ AlawSearch
    \/ AlawSearchEnds \/ AlawReturn

(* A function that is called runs.                                         *)
LoopSpec == LoopInit /\ [][LoopNext]_locals /\ WF_locals(LoopNext)

-----------------------------------------------------------------------------
(* The variables have the types the Rust functions give them; neither mask *)
(* nor threshold needs more than the i32 it is.                            *)
TypeOK ==
    /\ law \in Laws
    /\ pc \in {"prepare", "search", "pack", "done"}
    /\ sample \in Samples
    /\ mag \in U15
    /\ seg \in 0..7
    /\ mask \in {Pow2(n) : n \in 7..14}
    /\ threshold \in {256 * Pow2(n) : n \in 0..7}
    /\ byte \in Byte

(* Loop invariant of the search in mulaw_encode_arith: the mask is the top *)
(* bit of the current segment and no higher bit of the biased magnitude is *)
(* set, so stopping early can never leave a larger segment unexamined, and *)
(* reaching segment 0 still finds its bit set: the bias guarantees bit 7.  *)
MaskInvariant ==
    /\ mask = Pow2(seg + 7)
    /\ 132 <= mag /\ mag < 2 * mask
    /\ pc = "done" => mask <= mag

(* Loop invariant of the search in alaw_encode_arith: the threshold is the *)
(* end of the current segment, the magnitude is not below the segment's    *)
(* start, and once the search is over it is below its end, although the    *)
(* loop stops at segment 7 without comparing: the clamp guarantees it.     *)
ThresholdInvariant ==
    /\ threshold = 256 * Pow2(seg)
    /\ seg > 0 => threshold <= 2 * mag
    /\ pc # "search" => mag < threshold

(* Whichever function is called, its search ends in the segment that holds *)
(* the magnitude: the mantissa it packs is the right one.                  *)
SearchInvariant ==
    pc # "prepare" =>
        IF law = "mulaw" THEN MaskInvariant ELSE ThresholdInvariant

(* The byte an encoder returns is inverted by the decoder of its law up to *)
(* half a quantising step: the decoded level has the sign of the sample (0 *)
(* counts as positive) and lies within half a step of its clamped          *)
(* magnitude.  It ties two formulas the code writes independently, for     *)
(* every argument, i16::MIN and the clamps included.                       *)
ByteRepresentsSample ==
    pc = "done" => Represents(law, byte, sample)

(* The closed forms G711Tables uses for the table entries are what the     *)
(* loops of mulaw_encode_arith and alaw_encode_arith compute.              *)
ImplementsClosedForm ==
    pc = "done" =>
        byte = IF law = "mulaw" THEN MulawEncodeArith(sample)
                                ELSE AlawEncodeArith(sample)

(* Both searches end for every sample: the counter moves at each iteration *)
(* and is bounded.                                                         *)
Terminates == <>(pc = "done")
=============================================================================
