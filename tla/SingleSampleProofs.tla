-------------------------- MODULE SingleSampleProofs --------------------------
(***************************************************************************)
(* Theorems about the single-sample functions, how they are computed and   *)
(* how they are used.                                                      *)
(*                                                                         *)
(* mulaw_encode_arith and alaw_encode_arith (EncodeLoop), for any set of   *)
(* 16-bit arguments: the types of their locals, their loop invariants and  *)
(* what they return.                                                       *)
(*                                                                         *)
(* Chains of hops (Tandem), for any origins and chains of any length and   *)
(* order: requantising under the law just used is lossless, no chain swaps *)
(* two neighbouring samples, the value stays near its origin, and after a  *)
(* change to the other law and back nothing changes any more.  The second  *)
(* rests on one fact about each law: the intervals of magnitudes that its  *)
(* levels represent do not overlap, so that a larger magnitude never comes *)
(* back smaller.  The last two rest on how the levels of one law lie in    *)
(* the intervals of the other.                                             *)
(*                                                                         *)
(* The two fuzz targets (SampleProbe), for every input of any length: no   *)
(* assertion of theirs fails, the wire of the suppressing encoder is       *)
(* faithful to the samples, and suppression reorders levels by at most     *)
(* one.                                                                    *)
(***************************************************************************)
EXTENDS EncodeLoop, Tandem, SampleProbe, CompandingProofs

-----------------------------------------------------------------------------
(* What the loops are entered with: the mask of mu-law at its top, the     *)
(* linear segment of A-law left behind.                                    *)
Fresh ==
    /\ law = "mulaw" /\ pc = "prepare" => seg = 7 /\ mask = 16384
    /\ law = "alaw" /\ pc = "prepare" => seg = 0 /\ threshold = 256
    /\ law = "alaw" /\ pc = "search" => seg > 0

(* What the statements before and after the loops have computed.           *)
Computed ==
    /\ law = "mulaw" /\ pc # "prepare" => mag = MulawBiased(sample)
    /\ law = "mulaw" /\ pc = "done" => byte = MulawPack(sample, seg, mag)
    /\ law = "alaw" /\ pc # "prepare" => mag = AlawClamped(sample)
    /\ law = "alaw" /\ pc = "done" => byte = AlawPack(sample, seg, mag)

LoopInv == TypeOK /\ SearchInvariant /\ Fresh /\ Computed

-----------------------------------------------------------------------------
(* A call starts with the loop invariants established.                     *)
LEMMA LoopInvInit == LoopInit => LoopInv
<1>. SUFFICES ASSUME LoopInit PROVE LoopInv
  OBVIOUS
<1>1. Pow2(14) = 16384 /\ 256 * Pow2(0) = 256
  BY ThresholdsDouble DEF Pow2, PowersOfTwo
<1>2. /\ mask \in {Pow2(n) : n \in 7..14}
      /\ threshold \in {256 * Pow2(n) : n \in 0..7}
  BY <1>1 DEF LoopInit
<1>3. byte \in Byte /\ mag \in U15 /\ seg \in 0..7
  BY U15Bounds DEF LoopInit, Byte
<1>4. TypeOK
  BY <1>2, <1>3 DEF LoopInit, TypeOK
<1>5. SearchInvariant /\ Fresh /\ Computed
  BY DEF LoopInit, SearchInvariant, Fresh, Computed
<1>. QED
  BY <1>4, <1>5 DEF LoopInv

-----------------------------------------------------------------------------
(* The statements before the mu-law loop.                                  *)
LEMMA MulawPrepareInv == LoopInv /\ MulawPrepare => LoopInv'
<1>. SUFFICES ASSUME LoopInv, MulawPrepare PROVE LoopInv'
  OBVIOUS
<1>. USE DEF LoopInv
<1>1. sample \in S16
  BY SamplesAssumption DEF TypeOK
<1>2. mag' \in Nat /\ 132 <= mag' /\ mag' <= 32767
  <2>1. mag' = MulawBiased(sample)
    BY DEF MulawPrepare
  <2>. QED
    BY <1>1, <2>1, MulawBiasedRange
<1>3. TypeOK'
  <2>1. mag' \in U15
    BY <1>2, U15Bounds
  <2>2. UNCHANGED <<law, sample, seg, mask, threshold, byte>> /\ pc' = "search"
    BY DEF MulawPrepare
  <2>. QED
    BY <2>1, <2>2, Zenon DEF TypeOK
<1>4. law = "mulaw" /\ seg = 7 /\ mask = 16384 /\ Pow2(14) = 16384
  BY DEF MulawPrepare, Fresh, Pow2, PowersOfTwo
<1>5. SearchInvariant'
  BY <1>2, <1>4 DEF MulawPrepare, SearchInvariant, MaskInvariant
<1>. QED
  BY <1>3, <1>4, <1>5 DEF MulawPrepare, Fresh, Computed

(* An iteration of the mu-law loop: the bit was clear, so the magnitude is *)
(* below it.                                                               *)
LEMMA MulawSearchInv == LoopInv /\ MulawSearch => LoopInv'
<1>. SUFFICES ASSUME LoopInv, MulawSearch PROVE LoopInv'
  OBVIOUS
<1>. USE DEF LoopInv
<1>1. seg \in 1..7 /\ mag \in Nat
  BY U15Bounds DEF MulawSearch, MaskGoesOn, TypeOK
<1>2. mask = Pow2(seg + 7) /\ 132 <= mag /\ mag < 2 * mask
  BY DEF MulawSearch, SearchInvariant, MaskInvariant
<1>3. /\ mask = 2 * Pow2(seg + 6)
      /\ mask' = Pow2(seg + 6)
      /\ mask' \in Nat \ {0}
  BY <1>1, <1>2, MaskHalves DEF MulawSearch
<1>4. mask \in Nat \ {0}
  BY <1>3, <1>2, <1>1
<1>5. ~(mask <= mag)
  BY <1>1, <1>2, <1>4, TopBit DEF MulawSearch, MaskGoesOn
<1>6. mag < 2 * mask'
  BY <1>1, <1>3, <1>4, <1>5
<1>7. seg' = seg - 1 /\ seg' \in 0..7 /\ mask' = Pow2(seg' + 7)
  BY <1>1, <1>3 DEF MulawSearch
<1>8. TypeOK'
  BY <1>7 DEF MulawSearch, TypeOK
<1>9. SearchInvariant'
  BY <1>2, <1>6, <1>7 DEF MulawSearch, SearchInvariant, MaskInvariant
<1>. QED
  BY <1>8, <1>9 DEF MulawSearch, Fresh, Computed

(* The end of the mu-law loop: the bit was set, or the segment is 0 and    *)
(* the bias has set it.                                                    *)
LEMMA MulawReturnInv == LoopInv /\ MulawReturn => LoopInv'
<1>. SUFFICES ASSUME LoopInv, MulawReturn PROVE LoopInv'
  OBVIOUS
<1>. USE DEF LoopInv
<1>1. seg \in 0..7 /\ mag \in Nat /\ sample \in Int
  BY SamplesAssumption, S16Bounds, U15Bounds DEF TypeOK
<1>2. mask = Pow2(seg + 7) /\ 132 <= mag /\ mag < 2 * mask
  BY DEF MulawReturn, SearchInvariant, MaskInvariant
<1>3. mask \in Nat \ {0}
  BY <1>1, <1>2, Pow2Positive
<1>4. mask <= mag
  <2>1. CASE seg = 0
    <3>1. mask = Pow2(7) /\ Pow2(7) = 128
      BY <1>2, <2>1 DEF Pow2, PowersOfTwo
    <3>. QED
      BY <1>1, <1>2, <3>1
  <2>2. CASE seg > 0
    BY <1>1, <1>2, <1>3, <2>2, TopBit DEF MulawReturn, MaskGoesOn
  <2>. QED
    BY <1>1, <2>1, <2>2
<1>5. byte' \in Byte
  <2>1. MulawPack(sample, seg, mag) \in Byte
    BY <1>1, MulawPackType
  <2>. QED
    BY <2>1 DEF MulawReturn
<1>6. TypeOK'
  BY <1>5 DEF MulawReturn, TypeOK
<1>7. SearchInvariant'
  BY <1>2, <1>4 DEF MulawReturn, SearchInvariant, MaskInvariant
<1>. QED
  BY <1>6, <1>7 DEF MulawReturn, Fresh, Computed

-----------------------------------------------------------------------------
(* The statements before the A-law loop leave the clamped magnitude.       *)
LEMMA AlawPrepared ==
    ASSUME LoopInv, law = "alaw", pc = "prepare", mag' = AlawClamped(sample)
    PROVE  /\ mag' \in U15 /\ mag' \in Nat /\ mag' <= 32256
           /\ seg = 0 /\ threshold = 256
<1>. USE DEF LoopInv
<1>1. sample \in S16
  BY SamplesAssumption DEF TypeOK
<1>2. mag' \in Nat /\ mag' <= 32256
  BY <1>1, AlawClampedRange
<1>. QED
  BY <1>2, U15Bounds DEF Fresh

(* Either way into the A-law segments.                                     *)
LEMMA AlawPrepareInv == LoopInv /\ (AlawPrepareLinear \/ AlawPrepareSearch) => LoopInv'
<1>. USE DEF LoopInv
<1>1. ASSUME LoopInv, AlawPrepareLinear PROVE LoopInv'
  <2>1. /\ mag' \in U15 /\ mag' \in Nat
        /\ seg = 0 /\ threshold = 256 /\ mag' < 256
    BY <1>1, AlawPrepared DEF AlawPrepareLinear
  <2>2. TypeOK'
    BY <1>1, <2>1 DEF AlawPrepareLinear, TypeOK
  <2>3. SearchInvariant'
    BY <1>1, <2>1, ThresholdsDouble
       DEF AlawPrepareLinear, SearchInvariant, ThresholdInvariant
  <2>. QED
    BY <1>1, <2>2, <2>3 DEF AlawPrepareLinear, Fresh, Computed
<1>2. ASSUME LoopInv, AlawPrepareSearch PROVE LoopInv'
  <2>1. mag' \in U15 /\ mag' \in Nat /\ 256 <= mag'
    BY <1>2, AlawPrepared DEF AlawPrepareSearch
  <2>2. 256 * Pow2(1) = 512
    BY ThresholdsDouble
  <2>3. TypeOK'
    BY <1>2, <2>1, <2>2 DEF AlawPrepareSearch, TypeOK
  <2>4. SearchInvariant'
    BY <1>2, <2>1, <2>2
       DEF AlawPrepareSearch, SearchInvariant, ThresholdInvariant
  <2>. QED
    BY <1>2, <2>3, <2>4 DEF AlawPrepareSearch, Fresh, Computed
<1>. QED
  BY <1>1, <1>2

(* An iteration of the A-law loop: the magnitude has passed the threshold. *)
LEMMA AlawSearchInv == LoopInv /\ AlawSearch => LoopInv'
<1>. SUFFICES ASSUME LoopInv, AlawSearch PROVE LoopInv'
  OBVIOUS
<1>. USE DEF LoopInv
<1>1. seg \in 1..6 /\ mag \in Nat
  BY U15Bounds DEF AlawSearch, ThresholdGoesOn, TypeOK, Fresh
<1>2. threshold = 256 * Pow2(seg) /\ threshold <= mag
  BY DEF AlawSearch, ThresholdGoesOn, SearchInvariant, ThresholdInvariant
<1>3. seg' = seg + 1 /\ seg' \in 0..7 /\ threshold' = 256 * Pow2(seg')
  BY <1>1, <1>2, ThresholdsDouble DEF AlawSearch
<1>4. threshold' = 2 * threshold /\ threshold' <= 2 * mag
  BY <1>1, <1>2, ThresholdsDouble DEF AlawSearch
<1>5. TypeOK'
  BY <1>3 DEF AlawSearch, TypeOK
<1>6. SearchInvariant'
  BY <1>3, <1>4 DEF AlawSearch, SearchInvariant, ThresholdInvariant
<1>. QED
  BY <1>1, <1>3, <1>5, <1>6 DEF AlawSearch, Fresh, Computed

(* The end of the A-law loop: below the threshold by the comparison, or in *)
(* segment 7 by the clamp.                                                 *)
LEMMA AlawSearchEndsInv == LoopInv /\ AlawSearchEnds => LoopInv'
<1>. SUFFICES ASSUME LoopInv, AlawSearchEnds PROVE LoopInv'
  OBVIOUS
<1>. USE DEF LoopInv
<1>1. seg \in 1..7 /\ mag \in Nat /\ sample \in S16
  BY U15Bounds, SamplesAssumption DEF AlawSearchEnds, TypeOK, Fresh
<1>2. threshold = 256 * Pow2(seg)
  BY DEF AlawSearchEnds, SearchInvariant, ThresholdInvariant
<1>3. mag < threshold
  <2>1. CASE seg = 7
    <3>1. mag <= 32256
      BY <1>1, AlawClampedRange DEF AlawSearchEnds, Computed
    <3>. QED
      BY <1>1, <1>2, <2>1, <3>1, ThresholdsDouble
  <2>2. CASE seg < 7
    BY <1>1, <1>2, <2>2, ThresholdsDouble DEF AlawSearchEnds, ThresholdGoesOn
  <2>. QED
    BY <1>1, <2>1, <2>2
<1>4. TypeOK'
  BY DEF AlawSearchEnds, TypeOK
<1>5. SearchInvariant'
  BY <1>3 DEF AlawSearchEnds, SearchInvariant, ThresholdInvariant
<1>. QED
  BY <1>4, <1>5 DEF AlawSearchEnds, Fresh, Computed

(* The statements after the A-law loop.                                    *)
LEMMA AlawReturnInv == LoopInv /\ AlawReturn => LoopInv'
<1>. SUFFICES ASSUME LoopInv, AlawReturn PROVE LoopInv'
  OBVIOUS
<1>. USE DEF LoopInv
<1>1. byte' \in Byte
  <2>1. sample \in Int /\ seg \in 0..7 /\ mag \in Nat
    BY SamplesAssumption, S16Bounds, U15Bounds DEF TypeOK
  <2>2. AlawPack(sample, seg, mag) \in Byte
    BY <2>1, AlawPackType
  <2>. QED
    BY <2>2 DEF AlawReturn
<1>2. TypeOK'
  BY <1>1 DEF AlawReturn, TypeOK
<1>3. SearchInvariant'
  BY DEF AlawReturn, SearchInvariant, ThresholdInvariant
<1>. QED
  BY <1>2, <1>3 DEF AlawReturn, Fresh, Computed

-----------------------------------------------------------------------------
(* Every statement group and every iteration preserves the invariant.      *)
LEMMA LoopInvStep == LoopInv /\ [LoopNext]_locals => LoopInv'
<1>1. LoopInv /\ UNCHANGED locals => LoopInv'
  BY DEF locals, LoopInv, TypeOK, SearchInvariant, MaskInvariant,
         ThresholdInvariant, Fresh, Computed
<1>. QED
  BY <1>1, MulawPrepareInv, MulawSearchInv, MulawReturnInv, AlawPrepareInv,
     AlawSearchInv, AlawSearchEndsInv, AlawReturnInv DEF LoopNext

(* When the mu-law byte has been packed, the magnitude lies in the segment *)
(* found.                                                                  *)
LEMMA MulawSegmentKnown ==
    ASSUME LoopInv, pc = "done", law = "mulaw"
    PROVE  /\ sample \in S16 /\ seg \in 0..7 /\ mag \in Nat
           /\ mag = MulawBiased(sample) /\ byte = MulawPack(sample, seg, mag)
           /\ Pow2(seg + 7) <= mag /\ mag < 2 * Pow2(seg + 7)
<1>1. sample \in S16 /\ seg \in 0..7 /\ mag \in Nat
  BY SamplesAssumption, U15Bounds DEF LoopInv, TypeOK
<1>2. mag = MulawBiased(sample) /\ byte = MulawPack(sample, seg, mag)
  BY DEF LoopInv, Computed
<1>3. Pow2(seg + 7) <= mag /\ mag < 2 * Pow2(seg + 7)
  BY DEF LoopInv, SearchInvariant, MaskInvariant
<1>. QED
  BY <1>1, <1>2, <1>3

(* The same for A-law.                                                     *)
LEMMA AlawSegmentKnown ==
    ASSUME LoopInv, pc = "done", law = "alaw"
    PROVE  /\ sample \in S16 /\ seg \in 0..7 /\ mag \in Nat
           /\ mag = AlawClamped(sample) /\ byte = AlawPack(sample, seg, mag)
           /\ (seg > 0 => 128 * Pow2(seg) <= mag) /\ mag < 256 * Pow2(seg)
<1>1. sample \in S16 /\ seg \in 0..7 /\ mag \in Nat
  BY SamplesAssumption, U15Bounds DEF LoopInv, TypeOK
<1>2. mag = AlawClamped(sample) /\ byte = AlawPack(sample, seg, mag)
  BY DEF LoopInv, Computed
<1>3. (seg > 0 => 256 * Pow2(seg) <= 2 * mag) /\ mag < 256 * Pow2(seg)
  BY DEF LoopInv, SearchInvariant, ThresholdInvariant
<1>4. Pow2(seg) \in Nat
  BY <1>1, Pow2Positive
<1>. QED
  BY <1>1, <1>2, <1>3, <1>4

-----------------------------------------------------------------------------
(* The locals of both encoders keep their types and what is returned is a  *)
(* byte, whatever they are asked to encode.                                *)
THEOREM TypeCorrect == LoopSpec => []TypeOK
<1>1. LoopInv => TypeOK
  BY DEF LoopInv
<1>. QED
  BY <1>1, LoopInvInit, LoopInvStep, PTL DEF LoopSpec

(* The loop invariants for every argument: when a search stops, by its     *)
(* comparison or by its counter, the magnitude lies in the segment found,  *)
(* so the mantissa that is packed is the right one.                        *)
THEOREM SearchCorrect == LoopSpec => []SearchInvariant
<1>1. LoopInv => SearchInvariant
  BY DEF LoopInv
<1>. QED
  BY <1>1, LoopInvInit, LoopInvStep, PTL DEF LoopSpec

(* What the loops compute, for every argument, are the closed forms the    *)
(* encode tables of G711Tables hold.                                       *)
THEOREM ClosedForm == LoopSpec => []ImplementsClosedForm
<1>1. LoopInv => ImplementsClosedForm
  <2>. SUFFICES ASSUME LoopInv, pc = "done"
                PROVE  byte = IF law = "mulaw" THEN MulawEncodeArith(sample)
                                               ELSE AlawEncodeArith(sample)
    BY DEF ImplementsClosedForm
  <2>1. CASE law = "mulaw"
    <3>1. MulawSegment(mag) = seg
      BY <2>1, MulawSegmentKnown, MulawSegmentFound
    <3>. QED
      BY <2>1, <3>1, MulawSegmentKnown DEF MulawEncodeArith
  <2>2. CASE law = "alaw"
    <3>1. AlawSegment(mag) = seg
      BY <2>2, AlawSegmentKnown, AlawSegmentFound
    <3>. QED
      BY <2>2, <3>1, AlawSegmentKnown DEF AlawEncodeArith
  <2>. QED
    BY <2>1, <2>2 DEF LoopInv, TypeOK, Laws
<1>. QED
  BY <1>1, LoopInvInit, LoopInvStep, PTL DEF LoopSpec

(* The byte an encoder returns is inverted by the decoder of its law up to *)
(* half a quantising step, for every argument.                             *)
THEOREM Representative == LoopSpec => []ByteRepresentsSample
<1>1. LoopInv => ByteRepresentsSample
  <2>. SUFFICES ASSUME LoopInv, pc = "done"
                PROVE  Represents(law, byte, sample)
    BY DEF ByteRepresentsSample
  <2>1. CASE law = "mulaw"
    BY <2>1, MulawSegmentKnown, MulawPackedRepresents
  <2>2. CASE law = "alaw"
    BY <2>2, AlawSegmentKnown, AlawPackedRepresents
  <2>. QED
    BY <2>1, <2>2 DEF LoopInv, TypeOK, Laws
<1>. QED
  BY <1>1, LoopInvInit, LoopInvStep, PTL DEF LoopSpec

-----------------------------------------------------------------------------
(* A hop makes a sample of a sample, and keeps the order of any two.       *)
LEMMA HopType ==
    ASSUME NEW l \in Laws, NEW s \in S16
    PROVE  EncodeSample(l, s) \in Byte /\ Requantise(l, s) \in S16
BY RecodedType DEF Requantise

LEMMA HopMonotone ==
    ASSUME NEW l \in Laws, NEW s \in S16, NEW t \in S16, s <= t
    PROVE  Requantise(l, s) <= Requantise(l, t)
BY RecodedInOrder DEF Requantise

-----------------------------------------------------------------------------
(* Inductive invariant: both samples are 16-bit and in order, and the      *)
(* value after a hop is the one its codeword decodes to.                   *)
Requantised ==
    /\ pcm \in S16 /\ neighbour \in S16
    /\ codes \in [Laws -> Byte \cup {NoValue}]
    /\ lastLaw \in Laws \cup {NoValue}
    /\ lastLaw \in Laws =>
         codes[lastLaw] \in Byte /\ pcm = DecodeSample(lastLaw, codes[lastLaw])
    /\ OrderPreserved

LEMMA RequantisedInit == ChainInit => Requantised
<1>. SUFFICES ASSUME ChainInit PROVE Requantised
  OBVIOUS
<1>1. origin \in Int /\ -32768 <= origin /\ origin <= 32766
  <2>1. origin \in S16 /\ origin # I16_MAX
    BY OriginsAssumption DEF ChainInit, OriginsAssumption
  <2>2. I16_MAX = 32767
    BY DEF I16_MAX
  <2>. QED
    BY <2>1, <2>2, S16Bounds
<1>2. pcm \in S16 /\ neighbour \in S16 /\ pcm <= neighbour
  BY <1>1, S16Bounds DEF ChainInit
<1>. QED
  BY <1>2, OriginsAssumption DEF ChainInit, Requantised, OrderPreserved, OriginsAssumption

LEMMA RequantisedStep == Requantised /\ [ChainNext]_chain => Requantised'
<1>. SUFFICES ASSUME Requantised, [ChainNext]_chain PROVE Requantised'
  OBVIOUS
<1>1. ASSUME NEW l \in Laws, Hop(l)
      PROVE  Requantised'
  <2>1. /\ pcm \in S16 /\ neighbour \in S16 /\ pcm <= neighbour
        /\ codes \in [Laws -> Byte \cup {NoValue}]
    BY DEF Requantised, OrderPreserved
  <2>2. /\ pcm' = Requantise(l, pcm) /\ neighbour' = Requantise(l, neighbour)
        /\ codes' = [codes EXCEPT ![l] = EncodeSample(l, pcm)]
        /\ lastLaw' = l
    BY <1>1 DEF Hop
  <2>3. EncodeSample(l, pcm) \in Byte /\ pcm' \in S16 /\ neighbour' \in S16
    BY <2>1, <2>2, HopType
  <2>4. /\ codes' \in [Laws -> Byte \cup {NoValue}]
        /\ codes'[l] = EncodeSample(l, pcm)
    BY <2>1, <2>2, <2>3
  <2>5. pcm' <= neighbour'
    BY <2>1, <2>2, HopMonotone
  <2>6. pcm' = DecodeSample(lastLaw', codes'[lastLaw'])
    BY <2>2, <2>4 DEF Requantise
  <2>. QED
    BY <2>2, <2>3, <2>4, <2>5, <2>6 DEF Requantised, OrderPreserved
<1>2. CASE UNCHANGED chain
  BY <1>2 DEF Requantised, OrderPreserved, chain
<1>. QED
  BY <1>1, <1>2 DEF ChainNext

(* No chain of hops swaps neighbouring samples, whatever its laws, its     *)
(* length and the samples it starts from.                                  *)
THEOREM Order == ChainSpec => []OrderPreserved
<1>1. Requantised => OrderPreserved
  BY DEF Requantised
<1>. QED
  BY <1>1, RequantisedInit, RequantisedStep, PTL DEF ChainSpec

(* A hop under the law just used repeats the codeword, the negative zero   *)
(* of mu-law excepted: no generation loss, from any sample.                *)
THEOREM Lossless == ChainSpec => SameLawIsLossless
<1>1. Requantised /\ [ChainNext]_chain =>
        [\A l \in Laws :
            lastLaw = l /\ lastLaw' = l =>
                codes'[l] = Canonical(l, codes[l])]_chain
  <2>. SUFFICES ASSUME Requantised, ChainNext, NEW l \in Laws, lastLaw = l, lastLaw' = l
                PROVE  codes'[l] = Canonical(l, codes[l])
    OBVIOUS
  <2>1. Hop(l)
    BY DEF ChainNext, Hop
  <2>2. /\ codes \in [Laws -> Byte \cup {NoValue}]
        /\ codes[l] \in Byte /\ pcm = DecodeSample(l, codes[l])
    BY DEF Requantised
  <2>3. codes'[l] = EncodeSample(l, pcm)
    BY <2>1, <2>2 DEF Hop
  <2>. QED
    BY <2>2, <2>3, SampleRecovers
<1>. QED
  BY <1>1, RequantisedInit, RequantisedStep, PTL DEF ChainSpec, SameLawIsLossless

-----------------------------------------------------------------------------
(* Crossing to the other law, in units p and mantissas a (LevelForm): what *)
(* the offset d of the law says about them.                                *)
FormOf(d, p, a) == (d = 0 => p >= 2) /\ (a < 0 => d = 0 /\ p = 2)

(* Every level is a sample that neither law clips, and A-law has no zero.  *)
LEMMA LevelBounds ==
    ASSUME NEW l \in Laws, NEW b \in Byte
    PROVE  LET m == Magnitude(DecodeSample(l, b))
           IN  /\ m \in Nat /\ m <= 32256
               /\ l = "alaw" => m >= 8
               /\ \A k \in Laws : ClampTo(m, Overload(k)) = m
<1>. DEFINE m == Magnitude(DecodeSample(l, b))
<1>1. PICK p \in {1, 2, 4, 8, 16, 32, 64, 128}, a \in -16..15 :
              LevelForm(l, b, p, a)
  BY LevelsHaveForm
<1>2. m = (a * 8 + 132) * p - Offset(l) /\ FormOf(Offset(l), p, a)
  BY <1>1 DEF LevelForm, FormOf, Offset, Laws
<1>3. \/ l = "mulaw" /\ Offset(l) = 132
      \/ l = "alaw" /\ Offset(l) = 0
  BY DEF Offset, Laws
<1>. HIDE DEF m
<1>4. m \in Int /\ 0 <= m /\ m <= 32256 /\ (l = "alaw" => m >= 8)
  BY <1>2, <1>3 DEF FormOf
<1>5. \A k \in Laws : ClampTo(m, Overload(k)) = m
  BY <1>4 DEF ClampTo, Overload
<1>. QED
  BY <1>4, <1>5 DEF m

(* A level lies in the interval of its codeword under either law.          *)
LEMMA LevelRepresented ==
    ASSUME NEW l \in Laws, NEW b \in Byte, NEW k \in Laws, NEW c \in Byte
    PROVE  LET x == DecodeSample(l, b)
               y == DecodeSample(k, c)
           IN  Represents(k, c, x) <=>
                 /\ Magnitude(y) - HalfStep(k, c) <= Magnitude(x)
                 /\ Magnitude(x) < Magnitude(y) + HalfStep(k, c)
                 /\ y < 0 => x < 0
                 /\ y > 0 => x >= 0
<1>1. ClampTo(Magnitude(DecodeSample(l, b)), Overload(k))
        = Magnitude(DecodeSample(l, b))
  BY LevelBounds
<1>. QED
  BY <1>1 DEF Represents

(* There and back: where the level x of law l is represented by the level  *)
(* y of law k, and y by the level z of l, z is represented by y as x is.   *)
(* So it is even where l has the longer steps: the offset of mu-law, 132,  *)
(* keeps the levels of one law off the midpoints of the other.             *)
LEMMA BackInInterval ==
    ASSUME NEW l \in Laws, NEW k \in Laws, l # k,
           NEW u \in Byte, NEW v \in Byte, NEW w \in Byte,
           Represents(k, v, DecodeSample(l, u)),
           Represents(l, w, DecodeSample(k, v))
    PROVE  Represents(k, v, DecodeSample(l, w))
<1>. DEFINE x  == DecodeSample(l, u)
            y  == DecodeSample(k, v)
            z  == DecodeSample(l, w)
            mx == Magnitude(x)
            my == Magnitude(y)
            mz == Magnitude(z)
<1>1. PICK p \in {1, 2, 4, 8, 16, 32, 64, 128}, a \in -16..15 :
              LevelForm(l, u, p, a)
  BY LevelsHaveForm
<1>2. PICK q \in {1, 2, 4, 8, 16, 32, 64, 128}, c \in -16..15 :
              LevelForm(k, v, q, c)
  BY LevelsHaveForm
<1>3. PICK r \in {1, 2, 4, 8, 16, 32, 64, 128}, b \in -16..15 :
              LevelForm(l, w, r, b)
  BY LevelsHaveForm
<1>4. /\ Offset(l) \in {0, 132} /\ Offset(k) \in {0, 132}
      /\ Offset(l) # Offset(k)
  BY DEF Offset, Laws
<1>5. /\ mx = (a * 8 + 132) * p - Offset(l) /\ FormOf(Offset(l), p, a)
      /\ my = (c * 8 + 132) * q - Offset(k) /\ FormOf(Offset(k), q, c)
      /\ mz = (b * 8 + 132) * r - Offset(l) /\ FormOf(Offset(l), r, b)
      /\ HalfStep(k, v) = 4 * q /\ HalfStep(l, w) = 4 * r
  BY <1>1, <1>2, <1>3 DEF LevelForm, FormOf, Offset, Laws
<1>6. /\ mx \in Nat /\ my \in Nat /\ mz \in Nat
      /\ l = "alaw" => mz >= 8
      /\ k = "alaw" => my >= 8
  BY LevelBounds
<1>7. /\ x \in Int /\ y \in Int /\ z \in Int
  BY SampleRecovers, S16Bounds
<1>8. /\ my - 4 * q <= mx /\ mx < my + 4 * q
      /\ mz - 4 * r <= my /\ my < mz + 4 * r
      /\ z < 0 => y < 0
      /\ z > 0 => y >= 0
  BY <1>5, LevelRepresented
<1>9. my - 4 * q <= mz /\ mz < my + 4 * q
  <2>. HIDE DEF mx, my, mz
  <2>. QED
    BY <1>4, <1>5, <1>6, <1>8, SMTT(60) DEF FormOf
<1>10. y # 0 => z # 0
  <2>. SUFFICES ASSUME y # 0, z = 0
                PROVE  FALSE
    OBVIOUS
  <2>1. mz = 0 /\ l = "mulaw" /\ k = "alaw"
    BY <1>6 DEF Magnitude, Laws
  <2>2. my >= 8 /\ my < 4 * r
    BY <1>6, <1>8, <2>1
  <2>3. Offset(l) = 132
    BY <2>1 DEF Offset
  <2>. HIDE DEF mx, my, mz, x, y, z
  <2>4. (b * 8 + 132) * r = 132 /\ b >= 0
    BY <1>5, <2>1, <2>3 DEF FormOf
  <2>5. r = 1
    BY <2>4
  <2>. QED
    BY <1>6, <2>2, <2>5
<1>11. (y < 0 => z < 0) /\ (y > 0 => z >= 0)
  BY <1>7, <1>8, <1>10
<1>. QED
  BY <1>5, <1>9, <1>11, LevelRepresented

(* On the way to the other law and back, no level is further from the      *)
(* sample than two steps, of the coarser law at the sample.                *)
LEMMA CrossingsNear ==
    ASSUME NEW l \in Laws, NEW k \in Laws, l # k, NEW o \in S16,
           NEW u \in Byte, NEW g \in Byte, NEW v \in Byte, NEW w \in Byte,
           Represents(l, u, o),
           Represents(k, g, o),
           Represents(k, v, DecodeSample(l, u)),
           Represents(l, w, DecodeSample(k, v)),
           NEW h \in Int, h >= HalfStep(l, u), h >= HalfStep(k, g)
    PROVE  /\ Distance(DecodeSample(l, u), o) <= 4 * h
           /\ Distance(DecodeSample(k, v), o) <= 4 * h
           /\ Distance(DecodeSample(l, w), o) <= 4 * h
<1>. DEFINE x  == DecodeSample(l, u)
            y  == DecodeSample(k, v)
            z  == DecodeSample(l, w)
            mx == Magnitude(x)
            my == Magnitude(y)
            mz == Magnitude(z)
            mg == Magnitude(DecodeSample(k, g))
            mo == Magnitude(o)
            ml == ClampTo(mo, Overload(l))
            mk == ClampTo(mo, Overload(k))
<1>1. PICK p \in {1, 2, 4, 8, 16, 32, 64, 128}, a \in -16..15 :
              LevelForm(l, u, p, a)
  BY LevelsHaveForm
<1>2. PICK t \in {1, 2, 4, 8, 16, 32, 64, 128}, f \in -16..15 :
              LevelForm(k, g, t, f)
  BY LevelsHaveForm
<1>3. PICK q \in {1, 2, 4, 8, 16, 32, 64, 128}, c \in -16..15 :
              LevelForm(k, v, q, c)
  BY LevelsHaveForm
<1>4. PICK r \in {1, 2, 4, 8, 16, 32, 64, 128}, b \in -16..15 :
              LevelForm(l, w, r, b)
  BY LevelsHaveForm
<1>5. \/ /\ l = "mulaw" /\ Offset(l) = 132 /\ Overload(l) = 32635
         /\ k = "alaw"  /\ Offset(k) = 0   /\ Overload(k) = 32256
      \/ /\ l = "alaw"  /\ Offset(l) = 0   /\ Overload(l) = 32256
         /\ k = "mulaw" /\ Offset(k) = 132 /\ Overload(k) = 32635
  BY DEF Offset, Overload, Laws
<1>6. /\ mx = (a * 8 + 132) * p - Offset(l) /\ FormOf(Offset(l), p, a)
      /\ mg = (f * 8 + 132) * t - Offset(k) /\ FormOf(Offset(k), t, f)
      /\ my = (c * 8 + 132) * q - Offset(k) /\ FormOf(Offset(k), q, c)
      /\ mz = (b * 8 + 132) * r - Offset(l) /\ FormOf(Offset(l), r, b)
      /\ HalfStep(l, u) = 4 * p /\ HalfStep(k, g) = 4 * t
      /\ HalfStep(k, v) = 4 * q /\ HalfStep(l, w) = 4 * r
  BY <1>1, <1>2, <1>3, <1>4 DEF LevelForm, FormOf, Offset, Laws
<1>7. /\ mx \in Nat /\ my \in Nat /\ mz \in Nat /\ mg \in Nat
      /\ l = "alaw" => mx >= 8
      /\ k = "alaw" => my >= 8
  BY LevelBounds
<1>8. /\ x \in Int /\ y \in Int /\ z \in Int
      /\ o \in Int /\ -32768 <= o /\ o <= 32767
  BY SampleRecovers, S16Bounds
<1>9. mo \in Int /\ 0 <= mo /\ mo <= 32768
  BY <1>8 DEF Magnitude
<1>10. /\ mx - 4 * p <= ml /\ ml < mx + 4 * p
       /\ mg - 4 * t <= mk /\ mk < mg + 4 * t
       /\ my - 4 * q <= mx /\ mx < my + 4 * q
       /\ mz - 4 * r <= my /\ my < mz + 4 * r
  BY <1>6, LevelRepresented DEF Represents
<1>11. /\ x < 0 => o < 0
       /\ x > 0 => o >= 0
       /\ y < 0 => x < 0
       /\ y > 0 => x >= 0
       /\ z < 0 => y < 0
       /\ z > 0 => y >= 0
  BY LevelRepresented DEF Represents
<1>12. h >= 4 * p /\ h >= 4 * t
  BY <1>6
<1>13. /\ mx - mo <= 4 * h /\ mo - mx <= 4 * h
       /\ my - mo <= 4 * h /\ mo - my <= 4 * h
       /\ mz - mo <= 4 * h /\ mo - mz <= 4 * h
  <2>1. /\ ml = IF mo > Overload(l) THEN Overload(l) ELSE mo
        /\ mk = IF mo > Overload(k) THEN Overload(k) ELSE mo
    BY DEF ClampTo
  <2>. HIDE DEF mx, my, mz, mg, mo, ml, mk
  <2>. QED
    BY <1>5, <1>6, <1>7, <1>9, <1>10, <1>12, <2>1, SMTT(60) DEF FormOf
(* Only from just below zero, which mu-law makes zero, does a sample change *)
(* its sign.                                                               *)
<1>14. CASE o < 0 /\ x = 0
  <2>1. mx = 0 /\ l = "mulaw" /\ k = "alaw"
    BY <1>7, <1>14 DEF Magnitude, Laws
  <2>2. ml = mo \/ ml = 32635
    BY <1>5, <2>1 DEF ClampTo
  <2>. HIDE DEF mx, my, mz, mg, mo, ml, mk
  <2>3. mo < 4 /\ my = 8 /\ mz = 8 /\ h >= 8
    BY <1>5, <1>6, <1>7, <1>9, <1>10, <1>12, <2>1, <2>2, SMTT(60) DEF FormOf
  <2>. QED
    BY <1>8, <1>14, <2>3 DEF mo, my, mz, Magnitude, Distance
<1>15. CASE o < 0 /\ x < 0
  <2>1. y < 0
    <3>1. y # 0
      <4>. SUFFICES ASSUME y = 0
                    PROVE  FALSE
        OBVIOUS
      <4>1. my = 0 /\ l = "alaw" /\ k = "mulaw"
        BY <1>7 DEF Magnitude, Laws
      <4>. HIDE DEF mx, my, mz, mg, mo, ml, mk
      <4>. QED
        BY <1>5, <1>6, <1>7, <1>10, <4>1, SMTT(60) DEF FormOf
    <3>. QED
      BY <1>8, <1>11, <1>15, <3>1
  <2>2. z <= 0
    BY <1>8, <1>11, <2>1
  <2>. QED
    BY <1>8, <1>13, <1>15, <2>1, <2>2 DEF Magnitude, Distance
<1>16. CASE o >= 0
  <2>1. x >= 0 /\ y >= 0 /\ z >= 0
    BY <1>8, <1>11, <1>16
  <2>. QED
    BY <1>8, <1>13, <1>16, <2>1 DEF Magnitude, Distance
<1>. QED
  BY <1>8, <1>11, <1>14, <1>15, <1>16

-----------------------------------------------------------------------------
(* Requantising there, back and there again, at the level of codewords.    *)

(* A level of one law never becomes the negative zero of the other.        *)
LEMMA CrossedIsCanonical ==
    ASSUME NEW l \in Laws, NEW k \in Laws, l # k, NEW b \in Byte, NEW c \in Byte,
           Represents(k, c, DecodeSample(l, b))
    PROVE  Canonical(k, c) = c
<1>. SUFFICES ASSUME k = "mulaw", c = 127
              PROVE  FALSE
  BY DEF Canonical
<1>1. Magnitude(DecodeSample(l, b)) \in Nat /\ Magnitude(DecodeSample(l, b)) >= 8
  BY LevelBounds DEF Laws
<1>2. DecodeSample(k, c) = 0 /\ HalfStep(k, c) = 4
  BY DEF DecodeSample, MulawDecodeSample, MULAW_DECODE, MulawDecode, HalfStep,
         Byte, Complement, SegmentOf, MantissaOf, BitSet, MULAW_BIAS,
         Pow2, PowersOfTwo
<1>3. Magnitude(DecodeSample(l, b)) < 4
  BY <1>1, <1>2, LevelRepresented DEF Magnitude
<1>. QED
  BY <1>1, <1>3

(* Codewords that represent one sample are the same, up to negative zero.  *)
LEMMA OneCodeword ==
    ASSUME NEW l \in Laws, NEW b \in Byte, NEW c \in Byte, NEW s \in S16,
           Represents(l, b, s), Represents(l, c, s)
    PROVE  Canonical(l, b) = Canonical(l, c)
<1>. DEFINE x == DecodeSample(l, b)
            y == DecodeSample(l, c)
            m == ClampTo(Magnitude(s), Overload(l))
<1>1. x \in Int /\ y \in Int /\ s \in Int
  BY SampleRecovers, S16Bounds
<1>2. m \in Int
  BY <1>1 DEF ClampTo, Magnitude, Overload
<1>3. /\ Magnitude(x) - HalfStep(l, b) <= m /\ m < Magnitude(x) + HalfStep(l, b)
      /\ Magnitude(y) - HalfStep(l, c) <= m /\ m < Magnitude(y) + HalfStep(l, c)
      /\ (x < 0 => s < 0) /\ (x > 0 => s >= 0)
      /\ (y < 0 => s < 0) /\ (y > 0 => s >= 0)
  BY DEF Represents
<1>4. Magnitude(x) <= Magnitude(y) /\ Magnitude(y) <= Magnitude(x)
  <2>. HIDE DEF m
  <2>1. m <= m
    BY <1>2
  <2>. QED
    BY <1>2, <1>3, <2>1, LevelsInOrder
<1>5. x = y
  BY <1>1, <1>3, <1>4 DEF Magnitude
<1>. QED
  BY <1>5, SampleRecovers

(* From any sample over l to k and back: no hop of either law changes a    *)
(* codeword any more.                                                      *)
LEMMA CrossingsSettle ==
    ASSUME NEW l \in Laws, NEW k \in Laws, l # k, NEW u \in Byte
    PROVE  LET x == DecodeSample(l, u)
               y == Requantise(k, x)
               z == Requantise(l, y)
           IN  /\ EncodeSample(k, y) = EncodeSample(k, x)
               /\ EncodeSample(l, z) = EncodeSample(l, y)
               /\ EncodeSample(k, z) = EncodeSample(k, x)
<1>. DEFINE x == DecodeSample(l, u)
            v == EncodeSample(k, x)
            y == DecodeSample(k, v)
            w == EncodeSample(l, y)
            z == DecodeSample(l, w)
            n == EncodeSample(k, z)
<1>1. x \in S16 /\ v \in Byte
  BY SampleRecovers, RecodedType
<1>. HIDE DEF v
<1>2. y \in S16 /\ w \in Byte
  BY <1>1, SampleRecovers, RecodedType
<1>. HIDE DEF w
<1>3. z \in S16 /\ n \in Byte
  BY <1>2, SampleRecovers, RecodedType
<1>. HIDE DEF n
<1>4. /\ Represents(k, v, x)
      /\ Represents(l, w, y)
      /\ Represents(k, n, z)
  BY <1>1, <1>2, <1>3, EncodingRepresents DEF v, w, n
<1>5. Canonical(k, v) = v /\ Canonical(l, w) = w /\ Canonical(k, n) = n
  BY <1>1, <1>2, <1>3, <1>4, CrossedIsCanonical
<1>6. EncodeSample(k, y) = v /\ EncodeSample(l, z) = w
  BY <1>1, <1>2, <1>5, SampleRecovers
<1>7. n = v
  <2>1. Represents(k, v, z)
    BY <1>1, <1>2, <1>4, BackInInterval
  <2>. QED
    BY <1>1, <1>3, <1>4, <1>5, <2>1, OneCodeword
<1>. QED
  BY <1>6, <1>7 DEF v, w, n, Requantise

-----------------------------------------------------------------------------
(* Where a chain can be: at its origin; at the first level, while only the *)
(* first law l has been used; at the level of the other law k that this    *)
(* becomes; or, after two changes of law, at that level or the one that it *)
(* becomes under l again, with the codewords of the last hop of either law *)
(* known.  That there is nothing else is the invariant.                    *)
First(l)    == Requantise(l, origin)
There(l, k) == Requantise(k, First(l))
Back(l, k)  == Requantise(l, There(l, k))

Path(l, k) ==
    /\ crossings = 0 => lastLaw = l /\ pcm = First(l)
    /\ crossings = 1 => /\ lastLaw = k /\ pcm = There(l, k)
                        /\ codes[k] = EncodeSample(k, First(l))
    /\ crossings = 2 => /\ pcm = IF lastLaw = l THEN Back(l, k) ELSE There(l, k)
                        /\ codes[k] = EncodeSample(k, First(l))
                        /\ codes[l] = EncodeSample(l, There(l, k))

Travelled ==
    /\ origin \in S16
    /\ crossings \in 0..2
    /\ lastLaw = NoValue => crossings = 0 /\ pcm = origin
    /\ lastLaw \in Laws => \E l \in Laws, k \in Laws : l # k /\ Path(l, k)

LEMMA PathType ==
    ASSUME origin \in S16, NEW l \in Laws, NEW k \in Laws
    PROVE  First(l) \in S16 /\ There(l, k) \in S16 /\ Back(l, k) \in S16
BY HopType DEF First, There, Back

(* Hops at the levels of a path.                                           *)
LEMMA PathHops ==
    ASSUME origin \in S16, NEW l \in Laws, NEW k \in Laws, l # k
    PROVE  /\ Requantise(l, First(l)) = First(l)
           /\ EncodeSample(k, There(l, k)) = EncodeSample(k, First(l))
           /\ EncodeSample(l, Back(l, k)) = EncodeSample(l, There(l, k))
           /\ EncodeSample(k, Back(l, k)) = EncodeSample(k, First(l))
           /\ Requantise(k, There(l, k)) = There(l, k)
           /\ Requantise(l, Back(l, k)) = Back(l, k)
           /\ Requantise(k, Back(l, k)) = There(l, k)
<1>1. EncodeSample(l, origin) \in Byte
  BY HopType
<1>2. Requantise(l, First(l)) = First(l)
  <2>. DEFINE b == EncodeSample(l, origin)
  <2>1. First(l) = DecodeSample(l, b)
    BY DEF First, Requantise
  <2>2. Requantise(l, First(l)) = DecodeSample(l, Canonical(l, b))
    BY <1>1, <2>1, SampleRecovers DEF Requantise
  <2>3. DecodeSample(l, Canonical(l, b)) = DecodeSample(l, b)
    BY CanonicalDecodes, <1>1
  <2>. QED
    BY <2>1, <2>2, <2>3
<1>3. /\ EncodeSample(k, There(l, k)) = EncodeSample(k, First(l))
      /\ EncodeSample(l, Back(l, k)) = EncodeSample(l, There(l, k))
      /\ EncodeSample(k, Back(l, k)) = EncodeSample(k, First(l))
  BY <1>1, CrossingsSettle DEF First, There, Back, Requantise
<1>. QED
  BY <1>2, <1>3 DEF There, Back, Requantise

LEMMA TravelledInit == ChainInit => Travelled
<1>. SUFFICES ASSUME ChainInit PROVE Travelled
  OBVIOUS
<1>1. origin \in S16
  BY OriginsAssumption DEF ChainInit, OriginsAssumption
<1>2. lastLaw \notin Laws
  BY OriginsAssumption DEF ChainInit, OriginsAssumption
<1>. QED
  BY <1>1, <1>2 DEF ChainInit, Travelled

LEMMA TravelledStep ==
    /\ Travelled
    /\ codes \in [Laws -> Byte \cup {NoValue}]
    /\ lastLaw \in Laws \cup {NoValue}
    /\ [ChainNext]_chain
    => Travelled'
<1>. SUFFICES ASSUME Travelled, codes \in [Laws -> Byte \cup {NoValue}],
                     lastLaw \in Laws \cup {NoValue}, [ChainNext]_chain
              PROVE  Travelled'
  OBVIOUS
<1>1. ASSUME NEW next \in Laws, Hop(next)
      PROVE  Travelled'
  <2>1. /\ origin' = origin /\ lastLaw' = next
        /\ pcm' = Requantise(next, pcm)
        /\ codes'[next] = EncodeSample(next, pcm)
        /\ \A other \in Laws : other # next => codes'[other] = codes[other]
        /\ crossings' = IF lastLaw \in Laws \ {next} /\ crossings < 2
                        THEN crossings + 1 ELSE crossings
    BY <1>1 DEF Hop
  <2>2. /\ origin \in S16 /\ crossings \in 0..2
        /\ next # NoValue
    BY OriginsAssumption DEF Travelled, OriginsAssumption
  <2>3. ASSUME NEW l \in Laws, NEW k \in Laws
        PROVE  /\ First(l)' = First(l) /\ There(l, k)' = There(l, k)
               /\ Back(l, k)' = Back(l, k)
    BY <2>1 DEF First, There, Back
  <2>4. crossings' \in 0..2
    BY <2>1, <2>2
  <2>5. \E l \in Laws, k \in Laws : l # k /\ Path(l, k)'
    <3>1. CASE lastLaw = NoValue
      <4>1. PICK k \in Laws : k # next
        BY DEF Laws
      <4>2. /\ crossings' = 0 /\ pcm' = First(next)
        BY <2>1, <3>1, OriginsAssumption DEF Travelled, OriginsAssumption, First
      <4>3. Path(next, k)'
        BY <2>1, <2>3, <4>1, <4>2 DEF Path
      <4>. QED
        BY <4>1, <4>3
    <3>2. CASE lastLaw \in Laws
      <4>1. PICK l \in Laws, k \in Laws : l # k /\ Path(l, k)
        BY <3>2 DEF Travelled
      <4>2. next = l \/ next = k
        BY <4>1 DEF Laws
      <4>3. CASE crossings = 0 /\ next = l
        <5>1. crossings' = 0 /\ pcm' = First(l)
          BY <2>1, <2>2, <4>1, <4>3, PathHops DEF Path
        <5>. QED
          BY <2>1, <2>3, <4>1, <4>3, <5>1 DEF Path
      <4>4. CASE crossings = 0 /\ next = k
        <5>1. /\ crossings' = 1 /\ pcm' = There(l, k)
              /\ codes'[k] = EncodeSample(k, First(l))
          BY <2>1, <4>1, <4>4 DEF Path, There
        <5>. QED
          BY <2>1, <2>3, <4>1, <4>4, <5>1 DEF Path
      <4>5. CASE crossings = 1 /\ next = k
        <5>1. /\ crossings' = 1 /\ pcm' = There(l, k)
              /\ codes'[k] = EncodeSample(k, First(l))
          BY <2>1, <2>2, <4>1, <4>5, PathHops DEF Path
        <5>. QED
          BY <2>1, <2>3, <4>1, <4>5, <5>1 DEF Path
      <4>6. CASE crossings = 1 /\ next = l
        <5>1. /\ crossings' = 2 /\ pcm' = Back(l, k)
              /\ codes'[k] = EncodeSample(k, First(l))
              /\ codes'[l] = EncodeSample(l, There(l, k))
          BY <2>1, <4>1, <4>6 DEF Path, Back
        <5>. QED
          BY <2>1, <2>3, <4>1, <4>6, <5>1 DEF Path
      <4>7. CASE crossings = 2
        <5>1. crossings' = 2
          BY <2>1, <4>7
        <5>2. /\ codes'[k] = EncodeSample(k, First(l))
              /\ codes'[l] = EncodeSample(l, There(l, k))
          BY <2>1, <2>2, <4>1, <4>2, <4>7, PathHops DEF Path
        <5>3. pcm' = IF next = l THEN Back(l, k) ELSE There(l, k)
          <6>1. pcm = Back(l, k) \/ pcm = There(l, k)
            BY <4>1, <4>7 DEF Path
          <6>2. Requantise(l, There(l, k)) = Back(l, k)
            BY DEF Back
          <6>. QED
            BY <2>1, <2>2, <4>1, <4>2, <6>1, <6>2, PathHops
        <5>. QED
          BY <2>1, <2>3, <4>1, <5>1, <5>2, <5>3 DEF Path
      <4>. QED
        BY <2>2, <4>2, <4>3, <4>4, <4>5, <4>6, <4>7
    <3>. QED
      BY <3>1, <3>2
  <2>. QED
    BY <2>1, <2>2, <2>4, <2>5 DEF Travelled
<1>2. CASE UNCHANGED chain
  BY <1>2 DEF Travelled, Path, First, There, Back, chain
<1>. QED
  BY <1>1, <1>2 DEF ChainNext

LEMMA TravelledInvariant == ChainSpec => []Travelled
<1>1. Requantised /\ Travelled /\ [ChainNext]_chain => Travelled'
  BY TravelledStep DEF Requantised
<1>. QED
  BY <1>1, TravelledInit, RequantisedInit, RequantisedStep, PTL DEF ChainSpec

-----------------------------------------------------------------------------
LEMMA HalfStepType ==
    ASSUME NEW l \in Laws, NEW b \in Byte
    PROVE  HalfStep(l, b) \in Nat
<1>1. PICK p \in {1, 2, 4, 8, 16, 32, 64, 128}, a \in -16..15 :
              LevelForm(l, b, p, a)
  BY LevelsHaveForm
<1>. QED
  BY <1>1 DEF LevelForm

(* No level of a path is further from the origin than two steps.           *)
LEMMA PathNear ==
    ASSUME origin \in S16, NEW l \in Laws, NEW k \in Laws, l # k
    PROVE  /\ Distance(origin, origin) <= 2 * StepAt(origin)
           /\ Distance(First(l), origin) <= 2 * StepAt(origin)
           /\ Distance(There(l, k), origin) <= 2 * StepAt(origin)
           /\ Distance(Back(l, k), origin) <= 2 * StepAt(origin)
<1>. DEFINE u == EncodeSample(l, origin)
            g == EncodeSample(k, origin)
            v == EncodeSample(k, First(l))
            w == EncodeSample(l, There(l, k))
            m == HalfStep("mulaw", EncodeSample("mulaw", origin))
            a == HalfStep("alaw", EncodeSample("alaw", origin))
            h == IF m > a THEN m ELSE a
<1>1. /\ u \in Byte /\ g \in Byte /\ v \in Byte /\ w \in Byte
      /\ origin \in Int
  BY HopType, PathType, S16Bounds
<1>2. /\ First(l) = DecodeSample(l, u)
      /\ There(l, k) = DecodeSample(k, v)
      /\ Back(l, k) = DecodeSample(l, w)
  BY DEF First, There, Back, Requantise
<1>3. /\ Represents(l, u, origin)
      /\ Represents(k, g, origin)
      /\ Represents(k, v, DecodeSample(l, u))
      /\ Represents(l, w, DecodeSample(k, v))
  <2>1. /\ Represents(l, u, origin)
        /\ Represents(k, g, origin)
        /\ Represents(k, v, First(l))
        /\ Represents(l, w, There(l, k))
    BY PathType, EncodingRepresents
  <2>. QED
    BY <1>2, <2>1
<1>4. m \in Nat /\ a \in Nat
  BY HopType, HalfStepType DEF Laws
<1>5. h \in Int /\ 0 <= h /\ m <= h /\ a <= h
  BY <1>4
<1>6. h >= HalfStep(l, u) /\ h >= HalfStep(k, g)
  <2>. \/ l = "mulaw" /\ k = "alaw"
       \/ l = "alaw" /\ k = "mulaw"
    BY DEF Laws
  <2>. QED
    BY <1>4, <1>5
<1>7. StepAt(origin) = 2 * h
  BY DEF StepAt
<1>. HIDE DEF u, g, v, w, m, a, h
<1>8. /\ Distance(DecodeSample(l, u), origin) <= 4 * h
      /\ Distance(DecodeSample(k, v), origin) <= 4 * h
      /\ Distance(DecodeSample(l, w), origin) <= 4 * h
  BY <1>1, <1>3, <1>5, <1>6, CrossingsNear
<1>9. 2 * StepAt(origin) = 4 * h
  BY <1>5, <1>7
<1>10. Distance(origin, origin) <= 4 * h
  BY <1>1, <1>5 DEF Distance
<1>. QED
  BY <1>2, <1>8, <1>9, <1>10

(* Quantising errors do not add up: over chains of any length, with the    *)
(* laws in any order, a sample stays within two steps of its origin.       *)
THEOREM Drift == ChainSpec => []DriftBounded
<1>1. Travelled /\ Requantised => DriftBounded
  <2>. SUFFICES ASSUME Travelled, Requantised PROVE DriftBounded
    OBVIOUS
  <2>1. origin \in S16 /\ crossings \in 0..2 /\ lastLaw \in Laws \cup {NoValue}
    BY DEF Travelled, Requantised
  <2>2. CASE lastLaw = NoValue
    <3>1. pcm = origin
      BY <2>2 DEF Travelled
    <3>2. Distance(origin, origin) <= 2 * StepAt(origin)
      <4>1. "mulaw" \in Laws /\ "alaw" \in Laws /\ "mulaw" # "alaw"
        BY DEF Laws
      <4>. QED
        BY <2>1, <4>1, PathNear
    <3>. QED
      BY <3>1, <3>2 DEF DriftBounded
  <2>3. CASE lastLaw \in Laws
    <3>1. PICK l \in Laws, k \in Laws : l # k /\ Path(l, k)
      BY <2>3 DEF Travelled
    <3>2. pcm \in {First(l), There(l, k), Back(l, k)}
      BY <2>1, <3>1 DEF Path
    <3>. QED
      BY <2>1, <3>1, <3>2, PathNear DEF DriftBounded
  <2>. QED
    BY <2>1, <2>2, <2>3
<1>2. ChainSpec => []Requantised
  BY RequantisedInit, RequantisedStep, PTL DEF ChainSpec
<1>. QED
  BY <1>1, <1>2, TravelledInvariant, PTL

(* Once a sample has gone over to the other law and back, no hop of either *)
(* law changes a codeword: from any sample, in chains of any length.       *)
THEOREM Settles == ChainSpec => SettlesAfterRoundTrip
<1>1. Requantised /\ Travelled /\ [ChainNext]_chain => [crossings = 2 => codes' = codes]_chain
  <2>. SUFFICES ASSUME Requantised, Travelled, ChainNext, crossings = 2
                PROVE  codes' = codes
    OBVIOUS
  <2>1. PICK next \in Laws : Hop(next)
    BY DEF ChainNext
  <2>2. /\ origin \in S16 /\ lastLaw \in Laws
        /\ codes \in [Laws -> Byte \cup {NoValue}]
    BY DEF Requantised, Travelled
  <2>3. PICK l \in Laws, k \in Laws : l # k /\ Path(l, k)
    BY <2>2 DEF Travelled
  <2>4. next = l \/ next = k
    BY <2>3 DEF Laws
  <2>5. EncodeSample(next, pcm) = codes[next]
    BY <2>2, <2>3, <2>4, PathHops DEF Path
  <2>. QED
    BY <2>1, <2>2, <2>5 DEF Hop
<1>2. ChainSpec => []Requantised
  BY RequantisedInit, RequantisedStep, PTL DEF ChainSpec
<1>. QED
  BY <1>1, <1>2, TravelledInvariant, PTL DEF ChainSpec, SettlesAfterRoundTrip

-----------------------------------------------------------------------------
(***************************************************************************)
(* The fuzz targets.                                                       *)
(***************************************************************************)

(* The samples that zero_suppress_invariants has gone through were read    *)
(* from within its input.                                                  *)
WithinInput ==
    target = "zero_suppress" /\ ops > 0 => 2 * (ops - 1) < Len(data)

(* The wire is written once, at the end, from all of them.                 *)
WireIsWhole ==
    wire # <<>> =>
        /\ wire = EncodeSliceZeroSuppress([i \in 1..ops |-> SampleOf(i)])
        /\ target = "zero_suppress" /\ status \notin {"pinning", "running"}

(* The inductive invariant.                                                *)
Inv ==
    /\ data \in Seq(Byte) /\ ops \in Nat
    /\ WithinInput /\ WireIsWhole
    /\ AssertionsHold

-----------------------------------------------------------------------------
(* Sample-side operations.                                                 *)

(* The step a target allows is at least half the step of the segment.      *)
LEMMA StepCoversHalf ==
    ASSUME NEW l \in Laws, NEW b \in Byte
    PROVE  /\ StepBound(l, segment_from_byte(l, b)) \in Int
           /\ HalfStep(l, b) \in Int
           /\ HalfStep(l, b) <= StepBound(l, segment_from_byte(l, b))
<1>1. /\ Pow2(0) = 1 /\ Pow2(1) = 2 /\ Pow2(2) = 4 /\ Pow2(3) = 8
      /\ Pow2(4) = 16 /\ Pow2(5) = 32 /\ Pow2(6) = 64 /\ Pow2(7) = 128
      /\ Pow2(8) = 256 /\ Pow2(9) = 512 /\ Pow2(10) = 1024 /\ Pow2(11) = 2048
  BY DEF Pow2, PowersOfTwo
<1>2. CASE l = "mulaw"
  <2>. DEFINE segment == SegmentOf(Complement(b))
  <2>1. segment \in {0, 1, 2, 3, 4, 5, 6, 7}
    BY DEF SegmentOf, Complement, Byte
  <2>2. /\ StepBound(l, segment_from_byte(l, b)) = Pow2(segment + 3)
        /\ HalfStep(l, b) = 4 * Pow2(segment)
    BY <1>2 DEF StepBound, segment_from_byte, mulaw_step_bound, HalfStep
  <2>. HIDE DEF segment
  <2>. QED
    BY <1>1, <2>1, <2>2
<1>3. CASE l = "alaw"
  <2>. DEFINE segment == SegmentOf(AlawXor(b))
  <2>1. segment \in {0, 1, 2, 3, 4, 5, 6, 7}
    <3>1. AlawXor(b) \in Int
      <4>1. AlawXor(b) \in Byte
        BY AlawXorType
      <4>. QED
        BY <4>1 DEF Byte
    <3>. HIDE DEF segment
    <3>2. segment \in 0..7
      BY <3>1, FieldsInRange DEF segment
    <3>. QED
      BY <3>2
  <2>2. /\ StepBound(l, segment_from_byte(l, b)) = Pow2(segment + 4)
        /\ HalfStep(l, b) = IF segment = 0 THEN 8 ELSE 8 * Pow2(segment - 1)
    BY <1>3 DEF StepBound, segment_from_byte, alaw_step_bound, HalfStep
  <2>. HIDE DEF segment
  <2>. QED
    BY <1>1, <2>1, <2>2
<1>. QED
  BY <1>2, <1>3 DEF Laws

(* Neither assertion on a sample fails: what the clipping adds to half a   *)
(* step is within the slack.                                               *)
LEMMA SampleSound ==
    ASSUME NEW l \in Laws, NEW s \in S16
    PROVE  SampleFailures(l, s) = {}
<1>. DEFINE b   == EncodeSample(l, s)
            d   == DecodeSample(l, b)
            b2  == EncodeSample(l, d)
            m   == ClampTo(Magnitude(s), Overload(l))
            h   == HalfStep(l, b)
            sb  == StepBound(l, segment_from_byte(l, b))
            err == Magnitude(s - d)
<1>1. /\ s \in Int /\ -32768 <= s /\ s <= 32767
      /\ b \in Byte /\ d \in S16 /\ d \in Int
  BY S16Bounds, RecodedType
<1>2. b2 = Canonical(l, b)
  BY <1>1, SampleRecovers
<1>3. b = b2 \/ ZeroCollapse(l, d, b, b2)
  <2>1. CASE l = "mulaw" /\ b = 127
    <3>1. d = 0
      <4>1. Complement(127) = 128 /\ MantissaOf(128) = 0 /\ SegmentOf(128) = 0
        BY DEF Complement, MantissaOf, SegmentOf
      <4>2. MulawDecode(127) = 0
        BY <4>1 DEF MulawDecode, MULAW_BIAS, Pow2, PowersOfTwo
      <4>. HIDE DEF b
      <4>. QED
        BY <2>1, <4>2 DEF DecodeSample, MulawDecodeSample, MULAW_DECODE, Byte
    <3>. HIDE DEF b, d, b2
    <3>. QED
      BY <1>2, <2>1, <3>1 DEF Canonical, ZeroCollapse
  <2>2. CASE ~(l = "mulaw" /\ b = 127)
    BY <1>2, <2>2 DEF Canonical
  <2>. QED
    BY <2>1, <2>2
<1>4. err <= sb + SaturationSlack(l, s)
  <2>1. /\ Magnitude(d) - h <= m /\ m < Magnitude(d) + h
        /\ d < 0 => s < 0
        /\ d > 0 => s >= 0
    BY EncodingRepresents DEF Represents
  <2>2. sb \in Int /\ h \in Int /\ h <= sb
    BY <1>1, StepCoversHalf
  <2>. HIDE DEF b, d, h, sb
  <2>3. CASE l = "mulaw"
    <3>1. /\ m = IF Magnitude(s) > 32635 THEN 32635 ELSE Magnitude(s)
          /\ SaturationSlack(l, s) = IF Magnitude(s) > 32635 THEN 644 ELSE 0
      BY <2>3 DEF ClampTo, Overload, SaturationSlack
    <3>. HIDE DEF m
    <3>. QED
      BY <1>1, <2>1, <2>2, <3>1 DEF Magnitude
  <2>4. CASE l = "alaw"
    <3>1. /\ m = IF Magnitude(s) > 32256 THEN 32256 ELSE Magnitude(s)
          /\ SaturationSlack(l, s) = IF Magnitude(s) > 32256 THEN 512 ELSE 0
      BY <2>4 DEF ClampTo, Overload, SaturationSlack
    <3>. HIDE DEF m
    <3>. QED
      BY <1>1, <2>1, <2>2, <3>1 DEF Magnitude
  <2>. QED
    BY <2>3, <2>4 DEF Laws
<1>. QED
  BY <1>3, <1>4 DEF SampleFailures

-----------------------------------------------------------------------------
(* Codeword-side operations.                                               *)

(* Flipping a low bit leaves bit 7 alone.                                  *)
LEMMA FlipLowBit ==
    ASSUME NEW x \in 0..127, NEW m \in {1, 4, 16, 64}
    PROVE  /\ FlipBit(x, m) \in 0..127
           /\ FlipBit(x + 128, m) = FlipBit(x, m) + 128
<1>1. CASE m = 1
  BY <1>1 DEF FlipBit, BitSet
<1>2. CASE m = 4
  BY <1>2 DEF FlipBit, BitSet
<1>3. CASE m = 16
  BY <1>3 DEF FlipBit, BitSet
<1>4. CASE m = 64
  BY <1>4 DEF FlipBit, BitSet
<1>. QED
  BY <1>1, <1>2, <1>3, <1>4

LEMMA XorKeepsSign ==
    ASSUME NEW x \in 0..127
    PROVE  AlawXor(x) \in 0..127 /\ AlawXor(x + 128) = AlawXor(x) + 128
<1>. DEFINE x1 == FlipBit(x, 1)
            x2 == FlipBit(x1, 4)
            x3 == FlipBit(x2, 16)
<1>1. x1 \in 0..127 /\ FlipBit(x + 128, 1) = x1 + 128
  BY FlipLowBit
<1>. HIDE DEF x1
<1>2. x2 \in 0..127 /\ FlipBit(x1 + 128, 4) = x2 + 128
  BY <1>1, FlipLowBit
<1>. HIDE DEF x2
<1>3. x3 \in 0..127 /\ FlipBit(x2 + 128, 16) = x3 + 128
  BY <1>2, FlipLowBit
<1>. HIDE DEF x3
<1>4. FlipBit(x3, 64) \in 0..127 /\ FlipBit(x3 + 128, 64) = FlipBit(x3, 64) + 128
  BY <1>3, FlipLowBit
<1>5. AlawXor(x) = FlipBit(x3, 64)
  BY DEF AlawXor, x1, x2, x3
<1>6. AlawXor(x + 128) = FlipBit(x3 + 128, 64)
  BY <1>1, <1>2, <1>3, Zenon DEF AlawXor
<1>. QED
  BY <1>4, <1>5, <1>6

(* Bit 7 is not part of the segment or the mantissa.                       *)
LEMMA SignBitApart ==
    ASSUME NEW c \in 0..127
    PROVE  /\ SegmentOf(c + 128) = SegmentOf(c)
           /\ MantissaOf(c + 128) = MantissaOf(c)
           /\ ~BitSet(c, 128) /\ BitSet(c + 128, 128)
BY DEF SegmentOf, MantissaOf, BitSet

(* Setting bit 7 of a codeword negates its level.                          *)
LEMMA SignNegates ==
    ASSUME NEW l \in Laws, NEW x \in 0..127
    PROVE  DecodeSample(l, x + 128) = -DecodeSample(l, x)
<1>1. x \in Byte /\ x + 128 \in Byte
  BY DEF Byte
<1>2. CASE l = "mulaw"
  <2>. DEFINE c   == 127 - x
              level == (MantissaOf(c) * 8 + MULAW_BIAS) * Pow2(SegmentOf(c))
                       - MULAW_BIAS
  <2>1. c \in 0..127 /\ Complement(x + 128) = c /\ Complement(x) = c + 128
    BY DEF Complement
  <2>2. MulawDecode(x + 128) = level /\ MulawDecode(x) = -level
    <3>. HIDE DEF c
    <3>. QED
      BY <2>1, SignBitApart DEF MulawDecode
  <2>3. DecodeSample(l, x + 128) = level /\ DecodeSample(l, x) = -level
    BY <1>1, <1>2, <2>2 DEF DecodeSample, MulawDecodeSample, MULAW_DECODE
  <2>4. level \in Int
    <3>1. MulawDecode(x + 128) \in Int
      BY <1>1, DecodeType
    <3>. QED
      BY <2>2, <3>1
  <2>. HIDE DEF level
  <2>. QED
    BY <2>3, <2>4
<1>3. CASE l = "alaw"
  <2>. DEFINE c   == AlawXor(x)
              level == IF SegmentOf(c) = 0
                     THEN MantissaOf(c) * 16 + 8
                     ELSE (MantissaOf(c) * 16 + 264) * Pow2(SegmentOf(c) - 1)
  <2>1. c \in 0..127 /\ AlawXor(x + 128) = c + 128
    BY XorKeepsSign
  <2>2. AlawDecode(x + 128) = level /\ AlawDecode(x) = -level
    <3>. HIDE DEF c
    <3>1. AlawXor(x) = c
      BY DEF c
    <3>. QED
      BY <2>1, <3>1, SignBitApart DEF AlawDecode
  <2>3. DecodeSample(l, x + 128) = level /\ DecodeSample(l, x) = -level
    BY <1>1, <1>3, <2>2 DEF DecodeSample, AlawDecodeSample, ALAW_DECODE
  <2>4. level \in Int
    <3>1. AlawDecode(x + 128) \in Int
      BY <1>1, DecodeType
    <3>. QED
      BY <2>2, <3>1
  <2>. HIDE DEF level
  <2>. QED
    BY <2>3, <2>4
<1>. QED
  BY <1>2, <1>3 DEF Laws

LEMMA CodewordSound ==
    ASSUME NEW l \in Laws, NEW b \in Byte
    PROVE  CodewordFailures(l, b) = {}
<1>1. DecodeSample(l, FlipBit(b, 128)) = -DecodeSample(l, b)
  <2>1. CASE b \in 0..127
    <3>1. FlipBit(b, 128) = b + 128
      BY <2>1, SignBitApart DEF FlipBit
    <3>. QED
      BY <2>1, <3>1, SignNegates
  <2>2. CASE b \in 128..255
    <3>. DEFINE x == b - 128
    <3>1. x \in 0..127 /\ b = x + 128 /\ x \in Byte
      BY <2>2 DEF Byte
    <3>. HIDE DEF x
    <3>2. FlipBit(b, 128) = x
      BY <3>1, SignBitApart DEF FlipBit
    <3>3. DecodeSample(l, b) = -DecodeSample(l, x)
      BY <3>1, SignNegates
    <3>4. DecodeSample(l, x) \in Int
      BY <3>1, SampleRecovers, S16Bounds
    <3>. QED
      BY <3>2, <3>3, <3>4
  <2>. QED
    BY <2>1, <2>2 DEF Byte
<1>. QED
  BY <1>1 DEF CodewordFailures

-----------------------------------------------------------------------------
(* The batch replay.                                                       *)

(* Decoding a slice into samples decodes each codeword, encoding one       *)
(* encodes each sample.                                                    *)
LEMMA SliceElement ==
    ASSUME NEW l \in Laws, NEW input, NEW i \in 1..Len(input)
    PROVE  /\ DecodeSlice(l, input)[i] = DecodeSample(l, input[i])
           /\ EncodeSlice(l, input)[i] = EncodeSample(l, input[i])
BY DEF DecodeSlice, EncodeSlice, DecodeSample, EncodeSample, MulawDecodeSample,
       AlawDecodeSample, MulawEncodeSample, AlawEncodeSample

LEMMA BatchSound ==
    ASSUME NEW l \in Laws, data \in Seq(Byte)
    PROVE  BatchFailures(l) = {}
<1>. DEFINE n       == IF Len(data) < ReplayCap THEN Len(data) ELSE ReplayCap
            even    == n - (n % 2)
            bytes   == SubSeq(data, 1, n)
            le_pcm  == SubSeq(data, 1, even)
            samples == [i \in 1..(even \div 2) |-> SampleAt(data, i)]
            levels  == DecodeSlice(l, bytes)
            le      == DecodeSliceToLeBytes(l, bytes)
            wire_of == EncodeSlice(l, samples)
            wire_le == EncodeSliceFromLeBytes(l, le_pcm)
<1>1. Len(data) \in Nat /\ n \in Nat /\ n <= Len(data)
  BY InputsAssumption
<1>. HIDE DEF n
<1>2. /\ even \in Nat /\ even <= n /\ even % 2 = 0 /\ even \div 2 \in Nat
      /\ even = 2 * (even \div 2)
  BY <1>1
<1>. HIDE DEF even
<1>3. /\ bytes \in Seq(Byte) /\ Len(bytes) = n
      /\ \A i \in 1..n : bytes[i] = data[i]
  BY <1>1
<1>4. /\ le_pcm \in Seq(Byte) /\ Len(le_pcm) = even
      /\ \A i \in 1..even : le_pcm[i] = data[i]
  BY <1>1, <1>2
<1>. HIDE DEF bytes, le_pcm
<1>5. Len(samples) = even \div 2
  BY <1>2
<1>6. ASSUME NEW i \in 1..n
      PROVE  /\ levels[i] = DecodeSample(l, data[i])
             /\ <<le[2 * i - 1], le[2 * i]>> = ToLeBytes(DecodeSample(l, data[i]))
  <2>1. i \in 1..Len(bytes) /\ bytes[i] = data[i]
    BY <1>3
  <2>2. /\ le[2 * i - 1] = ToLeBytes(DecodeSample(l, bytes[i]))[1]
        /\ le[2 * i] = ToLeBytes(DecodeSample(l, bytes[i]))[2]
    BY <1>3, <2>1, DecodedElement
  <2>3. levels[i] = DecodeSample(l, bytes[i])
    BY <2>1, SliceElement
  <2>. QED
    BY <2>1, <2>2, <2>3 DEF ToLeBytes
<1>7. ASSUME NEW i \in 1..Len(samples)
      PROVE  /\ wire_of[i] = EncodeSample(l, samples[i])
             /\ wire_le[i] = EncodeSample(l, samples[i])
  <2>1. i \in 1..(Len(le_pcm) \div 2)
    BY <1>4, <1>5
  <2>2. wire_le[i] = EncodeSample(l, SampleAt(le_pcm, i))
    BY <1>4, <2>1, EncodedElement
  <2>3. 2 * i - 1 \in 1..even /\ 2 * i \in 1..even
    BY <1>2, <1>4, <2>1
  <2>4. SampleAt(le_pcm, i) = SampleAt(data, i)
    BY <1>4, <2>3 DEF SampleAt
  <2>5. samples[i] = SampleAt(data, i)
    BY <1>5
  <2>6. wire_of[i] = EncodeSample(l, samples[i])
    BY SliceElement
  <2>. QED
    BY <2>2, <2>4, <2>5, <2>6
<1>8. Len(le_pcm) = 2 * Len(samples)
  BY <1>2, <1>4, <1>5
<1>. HIDE DEF levels, le, wire_of, wire_le, samples
<1>. QED
  BY <1>6, <1>7, <1>8
     DEF BatchFailures, n, even, bytes, le_pcm, samples, levels, le, wire_of, wire_le

-----------------------------------------------------------------------------
(* All-zero suppression.                                                   *)

LEMMA SuppressionSound ==
    ASSUME NEW s \in S16
    PROVE  check_sample(s) = {}
<1>. DEFINE plain == MulawEncodeSample(s)
            supp  == MulawEncodeSampleZeroSuppress(s)
<1>1. supp = Suppress(plain)
  BY SuppressedIs
<1>2. supp # MULAW_ZERO_CODEWORD
  BY <1>1 DEF Suppress, MULAW_ZERO_CODEWORD, MULAW_ZERO_SUPPRESS_CODEWORD
<1>3. supp = IF plain = MULAW_ZERO_CODEWORD
             THEN MULAW_ZERO_SUPPRESS_CODEWORD ELSE plain
  BY <1>1 DEF Suppress
<1>. HIDE DEF plain, supp
<1>4. ({} \cup {}) = {}
  OBVIOUS
<1>. QED
  BY <1>2, <1>3, <1>4, Zenon DEF check_sample, plain, supp

LEMMA LevelsNearZeroOctet ==
    /\ MulawDecodeSample(0) = -32124
    /\ MulawDecodeSample(1) = -31100
    /\ MulawDecodeSample(2) = -30076
<1>1. Complement(0) = 255 /\ Complement(1) = 254 /\ Complement(2) = 253
  BY DEF Complement
<1>2. /\ MantissaOf(255) = 15 /\ MantissaOf(254) = 14 /\ MantissaOf(253) = 13
      /\ SegmentOf(255) = 7 /\ SegmentOf(254) = 7 /\ SegmentOf(253) = 7
      /\ BitSet(255, 128) /\ BitSet(254, 128) /\ BitSet(253, 128)
  BY DEF MantissaOf, SegmentOf, BitSet
<1>3. Pow2(7) = 128
  BY DEF Pow2, PowersOfTwo
<1>4. /\ MulawDecode(0) = -32124
      /\ MulawDecode(1) = -31100
      /\ MulawDecode(2) = -30076
  BY <1>1, <1>2, <1>3 DEF MulawDecode, MULAW_BIAS
<1>. QED
  BY <1>4 DEF MulawDecodeSample, MULAW_DECODE, Byte

LEMMA OrderSound == OrderFailures = {}
BY LevelsNearZeroOctet
   DEF OrderFailures, MULAW_ZERO_CODEWORD, MULAW_ZERO_SUPPRESS_CODEWORD

(* Every octet but 0 has a level of at least that of octet 1.              *)
LEMMA OtherLevels ==
    ASSUME NEW b \in Byte, b # 0
    PROVE  MulawDecodeSample(b) >= -31100
<1>. DEFINE c   == Complement(b)
            a   == MantissaOf(c)
            p   == Pow2(SegmentOf(c))
            level == (a * 8 + 132) * p - 132
<1>1. c \in 0..254 /\ c \in Int
  BY DEF Complement, Byte
<1>2. /\ SegmentOf(c) \in 0..7 /\ a \in 0..15
      /\ p \in {1, 2, 4, 8, 16, 32, 64, 128}
  BY <1>1, FieldsInRange, ScaleValues
<1>3. MulawDecodeSample(b) = IF BitSet(c, 128) THEN -level ELSE level
  BY DEF MulawDecodeSample, MULAW_DECODE, MulawDecode, MULAW_BIAS
<1>4. BitSet(c, 128) => ~(SegmentOf(c) = 7 /\ a = 15)
  BY <1>1 DEF BitSet, SegmentOf, MantissaOf
<1>5. SegmentOf(c) # 7 => p <= 64
  <2>. HIDE DEF c
  <2>1. SegmentOf(c) # 7 => SegmentOf(c) \in {0, 1, 2, 3, 4, 5, 6}
    BY <1>2
  <2>2. /\ Pow2(0) = 1 /\ Pow2(1) = 2 /\ Pow2(2) = 4 /\ Pow2(3) = 8
        /\ Pow2(4) = 16 /\ Pow2(5) = 32 /\ Pow2(6) = 64
    BY DEF Pow2, PowersOfTwo
  <2>. QED
    BY <2>1, <2>2
<1>. HIDE DEF c
<1>6. BitSet(c, 128) => a <= 14 \/ p <= 64
  <2>. HIDE DEF p, a
  <2>. QED
    BY <1>2, <1>4, <1>5
<1>. HIDE DEF a, p
<1>7. level \in Int /\ level >= 0
  BY <1>2
<1>8. a <= 14 \/ p <= 64 => level <= 31100
  BY <1>2
<1>. HIDE DEF level
<1>. QED
  BY <1>3, <1>6, <1>7, <1>8

(* The octet on the wire represents its sample, or it was rewritten and    *)
(* the sample lies at the negative end of the range.                       *)
LEMMA WireOctet ==
    ASSUME NEW s \in S16
    PROVE  LET octet == MulawEncodeSampleZeroSuppress(s)
               d     == MulawDecodeSample(octet)
           IN  /\ \/ Represents("mulaw", octet, s)
                  \/ s <= -31612 /\ s <= d /\ d - s <= 2692
               /\ d = IF MulawEncodeSample(s) = 0 THEN -30076
                      ELSE MulawDecodeSample(MulawEncodeSample(s))
<1>. DEFINE plain == MulawEncodeSample(s)
            octet == MulawEncodeSampleZeroSuppress(s)
<1>1. /\ s \in Int /\ -32768 <= s /\ s <= 32767
      /\ plain = EncodeSample("mulaw", s)
  BY S16Bounds DEF EncodeSample
<1>2. Represents("mulaw", plain, s)
  BY <1>1, EncodingRepresents DEF Laws
<1>3. octet = Suppress(plain)
  BY SuppressedIs
<1>. HIDE DEF plain, octet
<1>. DEFINE d    == MulawDecodeSample(octet)
            Fits == \/ Represents("mulaw", octet, s)
                    \/ s <= -31612 /\ s <= d /\ d - s <= 2692
            Is   == d = IF plain = 0 THEN -30076 ELSE MulawDecodeSample(plain)
<1>4. ASSUME plain # 0
      PROVE  Fits /\ Is
  <2>1. octet = plain
    BY <1>3, <1>4 DEF Suppress, MULAW_ZERO_CODEWORD
  <2>. QED
    BY <1>2, <1>4, <2>1
<1>5. ASSUME plain = 0
      PROVE  Fits /\ Is
  <2>1. octet = 2
    BY <1>3, <1>5
       DEF Suppress, MULAW_ZERO_CODEWORD, MULAW_ZERO_SUPPRESS_CODEWORD
  <2>2. d = -30076
    BY <2>1, LevelsNearZeroOctet
  <2>3. s < 0 /\ 31612 <= ClampTo(Magnitude(s), 32635)
    <3>1. DecodeSample("mulaw", 0) = -32124
      BY LevelsNearZeroOctet DEF DecodeSample
    <3>2. HalfStep("mulaw", 0) = 512
      <4>1. Complement(0) = 255 /\ SegmentOf(255) = 7 /\ Pow2(7) = 128
        BY DEF Complement, SegmentOf, Pow2, PowersOfTwo
      <4>. QED
        BY <4>1 DEF HalfStep
    <3>3. Magnitude(-32124) = 32124
      <4>1. \A x \in Int : x + 32124 = 0 => Magnitude(x) = 32124
        BY DEF Magnitude
      <4>2. -32124 \in Int /\ -32124 + 32124 = 0
        OBVIOUS
      <4>. QED
        BY <4>1, <4>2
    <3>. QED
      BY <1>2, <1>5, <3>1, <3>2, <3>3 DEF Represents, Overload
  <2>4. s <= -31612
    BY <1>1, <2>3 DEF ClampTo, Magnitude
  <2>. HIDE DEF d
  <2>. QED
    BY <1>1, <1>5, <2>2, <2>4
<1>6. Fits /\ Is
  BY <1>4, <1>5
<1>. QED
  BY <1>6 DEF plain, octet

(* Two octets on the wire are out of order by one level at most.           *)
LEMMA WireOrder ==
    ASSUME NEW s \in S16, NEW t \in S16, s <= t
    PROVE  MulawDecodeSample(MulawEncodeSampleZeroSuppress(s))
             <= MulawDecodeSample(MulawEncodeSampleZeroSuppress(t)) + 1024
<1>. DEFINE b == MulawEncodeSample(s)
            c == MulawEncodeSample(t)
            x == MulawDecodeSample(MulawEncodeSampleZeroSuppress(s))
            y == MulawDecodeSample(MulawEncodeSampleZeroSuppress(t))
<1>1. /\ b \in Byte /\ c \in Byte
      /\ MulawDecodeSample(b) \in Int /\ MulawDecodeSample(c) \in Int
  <2>1. "mulaw" \in Laws
    BY DEF Laws
  <2>2. b \in Byte /\ c \in Byte
    BY EncodeSampleType, S16Bounds
  <2>. HIDE DEF b, c
  <2>3. DecodeSample("mulaw", b) \in Int /\ DecodeSample("mulaw", c) \in Int
    BY <2>1, <2>2, SampleRecovers, S16Bounds
  <2>. QED
    BY <2>2, <2>3 DEF DecodeSample
<1>2. MulawDecodeSample(b) <= MulawDecodeSample(c)
  <2>1. DecodeSample("mulaw", EncodeSample("mulaw", s))
          <= DecodeSample("mulaw", EncodeSample("mulaw", t))
    BY RecodedInOrder DEF Laws
  <2>. QED
    BY <2>1 DEF DecodeSample, EncodeSample
<1>3. x = IF b = 0 THEN -30076 ELSE MulawDecodeSample(b)
  BY WireOctet
<1>4. y = IF c = 0 THEN -30076 ELSE MulawDecodeSample(c)
  BY WireOctet
<1>5. c # 0 => MulawDecodeSample(c) >= -31100
  BY <1>1, OtherLevels
<1>. HIDE DEF b, c, x, y
<1>6. MulawDecodeSample(0) = -32124
  BY LevelsNearZeroOctet
<1>7. x <= y + 1024
  <2>1. CASE c = 0 /\ b # 0
    <3>1. MulawDecodeSample(b) <= -32124
      BY <1>2, <1>6, <2>1
    <3>. QED
      BY <1>1, <1>3, <1>4, <2>1, <3>1
  <2>2. CASE b = 0 /\ c # 0
    BY <1>1, <1>3, <1>4, <1>5, <2>2
  <2>3. CASE b # 0 /\ c # 0
    BY <1>1, <1>2, <1>3, <1>4, <2>3
  <2>4. CASE b = 0 /\ c = 0
    BY <1>3, <1>4, <2>4
  <2>. QED
    BY <2>1, <2>2, <2>3, <2>4
<1>. QED
  BY <1>7 DEF x, y

-----------------------------------------------------------------------------
(* The bytes and samples of an input.                                      *)

LEMMA ByteAtType ==
    ASSUME data \in Seq(Byte), NEW i \in Nat \ {0}
    PROVE  ByteAt(i) \in Byte
<1>1. CASE i <= Len(data)
  <2>1. i \in 1..Len(data)
    BY <1>1
  <2>. QED
    BY <1>1, <2>1 DEF ByteAt
<1>2. CASE ~(i <= Len(data))
  BY <1>2 DEF ByteAt, Byte
<1>. QED
  BY <1>1, <1>2

LEMMA OperandType ==
    ASSUME data \in Seq(Byte), ops \in Nat
    PROVE  Operand[1] \in Byte /\ FromLeBytes(Operand) \in S16
<1>1. 3 * ops + 2 \in Nat \ {0} /\ 3 * ops + 3 \in Nat \ {0}
  OBVIOUS
<1>2. ByteAt(3 * ops + 2) \in Byte /\ ByteAt(3 * ops + 3) \in Byte
  BY <1>1, ByteAtType
<1>. QED
  BY <1>2, FromLeBytesType DEF Operand

LEMMA SampleOfType ==
    ASSUME data \in Seq(Byte), NEW i \in Nat \ {0}, 2 * (i - 1) < Len(data)
    PROVE  SampleOf(i) \in S16
<1>1. 2 * i - 1 \in 1..Len(data) /\ 2 * i \in Nat \ {0}
  OBVIOUS
<1>2. data[2 * i - 1] \in Byte /\ ByteAt(2 * i) \in Byte
  BY <1>1, ByteAtType
<1>. QED
  BY <1>2, FromLeBytesType DEF SampleOf

-----------------------------------------------------------------------------
LEMMA InvInit == Init => Inv
BY InputsAssumption DEF Init, Inv, WithinInput, WireIsWhole, AssertionsHold

(* An operation of per_sample_invariants.                                  *)
LEMMA PerformInv ==
    Inv /\ (MulawSample \/ MulawCodeword \/ AlawSample \/ AlawCodeword) => Inv'
<1>. SUFFICES ASSUME Inv, MulawSample \/ MulawCodeword \/ AlawSample \/ AlawCodeword
              PROVE  Inv'
  OBVIOUS
<1>1. data \in Seq(Byte) /\ ops \in Nat
  BY DEF Inv
<1>2. "mulaw" \in Laws /\ "alaw" \in Laws
  BY DEF Laws
<1>3. Operand[1] \in Byte /\ FromLeBytes(Operand) \in S16
  BY <1>1, OperandType
<1>4. ChunkLeft /\ Perform({})
  <2>1. CASE MulawSample
    BY <1>2, <1>3, <2>1, SampleSound DEF MulawSample
  <2>2. CASE MulawCodeword
    BY <1>2, <1>3, <2>2, CodewordSound DEF MulawCodeword
  <2>3. CASE AlawSample
    BY <1>2, <1>3, <2>3, SampleSound DEF AlawSample
  <2>4. CASE AlawCodeword
    BY <1>2, <1>3, <2>4, CodewordSound DEF AlawCodeword
  <2>. QED
    BY <2>1, <2>2, <2>3, <2>4
<1>5. /\ target = "per_sample" /\ failed' = {} /\ ops' = ops + 1
      /\ UNCHANGED <<target, data, wire>>
  BY <1>4 DEF ChunkLeft, Running, Perform, Assert
<1>6. wire = <<>>
  BY <1>5 DEF Inv, WireIsWhole
<1>. QED
  BY <1>1, <1>5, <1>6 DEF Inv, WithinInput, WireIsWhole, AssertionsHold

(* The replay of the input through the batch helpers.                      *)
LEMMA ReplayInv == Inv /\ Replay => Inv'
<1>. SUFFICES ASSUME Inv, Replay
              PROVE  Inv'
  OBVIOUS
<1>1. BatchFailures("mulaw") = {} /\ BatchFailures("alaw") = {}
  BY BatchSound DEF Inv, Laws
<1>2. /\ target = "per_sample" /\ failed' = {}
      /\ UNCHANGED <<target, data, ops, wire>>
  BY <1>1 DEF Replay, Running, Assert
<1>3. wire = <<>>
  BY <1>2 DEF Inv, WireIsWhole
<1>. QED
  BY <1>2, <1>3 DEF Inv, WithinInput, WireIsWhole, AssertionsHold

(* The checks of zero_suppress_invariants before its slice.                *)
LEMMA CheckInv == Inv /\ (PinOrdering \/ CheckEmpty \/ CheckNext) => Inv'
<1>. SUFFICES ASSUME Inv, PinOrdering \/ CheckEmpty \/ CheckNext
              PROVE  Inv'
  OBVIOUS
<1>1. data \in Seq(Byte) /\ ops \in Nat /\ wire = <<>>
  BY DEF Inv, WireIsWhole, PinOrdering, CheckEmpty, CheckNext, Running
<1>2. CASE PinOrdering \/ CheckEmpty
  <2>1. 0 \in S16
    BY S16Bounds
  <2>2. failed' = {} /\ UNCHANGED <<target, data, ops, wire>>
    BY <1>2, <2>1, OrderSound, SuppressionSound
       DEF PinOrdering, CheckEmpty, Assert
  <2>. QED
    BY <1>1, <2>2 DEF Inv, WithinInput, WireIsWhole, AssertionsHold
<1>3. CASE CheckNext
  <2>1. /\ 2 * ops < Len(data) /\ ops' = ops + 1
        /\ Assert(check_sample(SampleOf(ops + 1)), "running")
        /\ UNCHANGED <<target, data, wire>>
    BY <1>3 DEF CheckNext, Assert
  <2>2. SampleOf(ops + 1) \in S16
    <3>1. ops + 1 \in Nat \ {0} /\ 2 * ((ops + 1) - 1) < Len(data)
      BY <1>1, <2>1
    <3>. QED
      BY <1>1, <3>1, SampleOfType
  <2>3. failed' = {}
    BY <2>1, <2>2, SuppressionSound DEF Assert
  <2>4. WithinInput'
    BY <1>1, <2>1 DEF WithinInput
  <2>. QED
    BY <1>1, <2>1, <2>3, <2>4 DEF Inv, WireIsWhole, AssertionsHold
<1>. QED
  BY <1>2, <1>3

(* The samples again as one slice.                                         *)
LEMMA ReplaySliceInv == Inv /\ ReplaySlice => Inv'
<1>. SUFFICES ASSUME Inv, ReplaySlice
              PROVE  Inv'
  OBVIOUS
<1>. DEFINE samples == [i \in 1..ops |-> SampleOf(i)]
<1>1. /\ data \in Seq(Byte) /\ ops \in Nat /\ target = "zero_suppress"
      /\ wire' = EncodeSliceZeroSuppress(samples)
      /\ UNCHANGED <<target, data, ops>>
  BY DEF Inv, ReplaySlice, Running, Assert
<1>2. Len(samples) = ops /\ \A i \in 1..ops : samples[i] = SampleOf(i)
  BY <1>1
<1>. HIDE DEF samples
<1>3. \A i \in 1..ops : wire'[i] = MulawEncodeSampleZeroSuppress(SampleOf(i))
  BY <1>1, <1>2 DEF EncodeSliceZeroSuppress, MulawEncodeSampleZeroSuppress
<1>4. failed' = {} /\ status' = "finished"
  BY <1>3 DEF ReplaySlice, Assert
<1>5. [i \in 1..ops |-> SampleOf(i)]' = samples
  BY <1>1 DEF SampleOf, ByteAt, samples
<1>6. WireIsWhole'
  BY <1>1, <1>4, <1>5 DEF WireIsWhole, EncodeSliceZeroSuppress
<1>. QED
  BY <1>1, <1>4, <1>6 DEF Inv, WithinInput, AssertionsHold

LEMMA InvStep == Inv /\ [Next]_vars => Inv'
<1>. SUFFICES ASSUME Inv, UNCHANGED vars
              PROVE  Inv'
  BY PerformInv, ReplayInv, CheckInv, ReplaySliceInv DEF Next
<1>1. UNCHANGED <<target, data, ops, wire, failed, status>>
  BY DEF vars
<1>2. WireIsWhole'
  BY <1>1 DEF Inv, WireIsWhole, SampleOf, ByteAt
<1>. QED
  BY <1>1, <1>2 DEF Inv, WithinInput, AssertionsHold

LEMMA Invariant == Spec => []Inv
BY InvInit, InvStep, PTL DEF Spec

-----------------------------------------------------------------------------
(* No assertion of either fuzz target fails, on any input of any length.   *)
THEOREM AssertionsSound == Spec => []AssertionsHold
BY Invariant, PTL DEF Inv

(* What is on the wire.                                                    *)
LEMMA WireElements ==
    ASSUME Inv, NEW i \in 1..Len(wire)
    PROVE  /\ SampleOf(i) \in S16
           /\ wire[i] = MulawEncodeSampleZeroSuppress(SampleOf(i))
<1>. DEFINE samples == [k \in 1..ops |-> SampleOf(k)]
<1>1. /\ data \in Seq(Byte) /\ ops \in Nat /\ wire # <<>>
      /\ wire = EncodeSliceZeroSuppress(samples)
      /\ target = "zero_suppress"
  BY DEF Inv, WireIsWhole
<1>2. Len(samples) = ops /\ \A k \in 1..ops : samples[k] = SampleOf(k)
  BY <1>1
<1>. HIDE DEF samples
<1>3. Len(wire) = ops
  BY <1>1, <1>2 DEF EncodeSliceZeroSuppress
<1>4. wire[i] = MulawEncodeSampleZeroSuppress(SampleOf(i))
  BY <1>1, <1>2, <1>3 DEF EncodeSliceZeroSuppress, MulawEncodeSampleZeroSuppress
<1>5. i \in Nat \ {0} /\ 2 * (i - 1) < Len(data)
  BY <1>1, <1>3 DEF Inv, WithinInput
<1>. QED
  BY <1>1, <1>4, <1>5, SampleOfType

(* A decoder that knows nothing of suppression recovers every sample of    *)
(* the wire within half a step, or weaker by at most 2692 where its octet  *)
(* was rewritten: for any samples, any number of them.                     *)
THEOREM WireFaithful == Spec => []WireIsFaithful
<1>1. Inv => WireIsFaithful
  BY WireElements, WireOctet DEF WireIsFaithful
<1>. QED
  BY <1>1, Invariant, PTL

(* Suppression puts two samples of the wire in the wrong order by one      *)
(* level of the outermost segment at most.                                 *)
THEOREM OrderSlips == Spec => []OrderSlipsOneLevel
<1>1. Inv => OrderSlipsOneLevel
  BY WireElements, WireOrder DEF OrderSlipsOneLevel
<1>. QED
  BY <1>1, Invariant, PTL
=============================================================================
