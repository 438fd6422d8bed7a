-------------------------- MODULE CompandingProofs --------------------------
(***************************************************************************)
(* Lemmas about the companding arithmetic of src/src/tables.rs, on which   *)
(* the theorems about the components rest:                                 *)
(*   - which values the formulas, tables and slice functions produce;      *)
(*   - encoding: the segment in which a magnitude lies, and what the       *)
(*     codeword packed for it decodes to;                                  *)
(*   - decoding, then encoding: every codeword comes back, the negative    *)
(*     zero of mu-law excepted;                                            *)
(*   - order: encoding and decoding never swaps two samples.               *)
(***************************************************************************)
EXTENDS G711Tables, TLAPS

-----------------------------------------------------------------------------
(* Types.                                                                  *)

(* The powers of two used as shifts are positive.                          *)
LEMMA Pow2Positive ==
    ASSUME NEW n \in 0..14
    PROVE  Pow2(n) \in Nat \ {0}
<1>1. PowersOfTwo \in [1..15 -> Nat \ {0}]
  BY DEF PowersOfTwo
<1>2. n + 1 \in 1..15
  OBVIOUS
<1>. QED
  BY <1>1, <1>2 DEF Pow2

(* Quotients and remainders of naturals are naturals.                      *)
LEMMA DivModNat ==
    ASSUME NEW a \in Nat, NEW m \in Nat \ {0}
    PROVE  a \div m \in Nat /\ a % m \in Nat
<1>1. a \in Int /\ a >= 0 /\ m \in Int /\ m > 0
  OBVIOUS
<1>2. a \div m \in Int /\ a \div m >= 0 /\ a % m \in Int /\ a % m >= 0
  BY <1>1
<1>. QED
  BY <1>2

(* The count of whole samples accounts for every byte.                     *)
LEMMA ExactCount ==
    ASSUME NEW n \in Nat, NEW ch \in Nat \ {0}, n % ch = 0
    PROVE  (n \div ch) * ch = n
<1>1. n = ch * (n \div ch) + (n % ch)
  OBVIOUS
<1>2. n \div ch \in Nat
  BY DivModNat
<1>. QED
  BY <1>1, <1>2

(* A count that fits is not truncated.                                     *)
LEMMA NotTruncated ==
    ASSUME NEW n \in Nat, NEW modulus \in Nat \ {0}, n < modulus
    PROVE  n % modulus = n
OBVIOUS

(* A segment number has three bits, a mantissa four.                       *)
LEMMA FieldsInRange ==
    ASSUME NEW code \in Int
    PROVE  /\ SegmentOf(code) \in 0..7
           /\ MantissaOf(code) \in 0..15
BY DEF SegmentOf, MantissaOf

(* A sample read as a u16 is an index of the encode tables, and every      *)
(* index read as an i16 is an integer.                                     *)
LEMMA IndexType ==
    /\ \A s \in Int : AsU16(s) \in U16
    /\ \A i \in U16 : AsI16(i) \in Int
<1>1. ASSUME NEW s \in Int
      PROVE  AsU16(s) \in U16
  BY SMTT(60) DEF AsU16, U16
<1>2. ASSUME NEW i \in U16
      PROVE  AsI16(i) \in Int
  <2>1. i \in Int
    BY SMTT(60) DEF U16
  <2>. QED
    BY <2>1 DEF AsI16
<1>. QED
  BY <1>1, <1>2

(* A sample is serialised as two bytes.                                    *)
LEMMA ToLeBytesType ==
    ASSUME NEW s \in Int
    PROVE  ToLeBytes(s) \in Byte \X Byte
<1>1. /\ AsU16(s) \in Int
      /\ 0 <= AsU16(s) /\ AsU16(s) <= 65535
  BY DEF AsU16
<1>2. ASSUME NEW u \in Int, 0 <= u, u <= 65535
      PROVE  /\ u % 256 \in Int /\ u \div 256 \in Int
             /\ 0 <= u % 256    /\ u % 256 <= 255
             /\ 0 <= u \div 256 /\ u \div 256 <= 255
  BY <1>2
<1>3. AsU16(s) % 256 \in Byte /\ AsU16(s) \div 256 \in Byte
  BY <1>1, <1>2 DEF Byte
<1>. QED
  BY <1>3 DEF ToLeBytes

(* Both decode formulas are integer-valued.                                *)
LEMMA DecodeType ==
    ASSUME NEW b \in Byte
    PROVE  MulawDecode(b) \in Int /\ AlawDecode(b) \in Int
<1>1. MulawDecode(b) \in Int
  <2>1. Complement(b) \in Int
    BY DEF Complement, Byte
  <2>2. /\ MantissaOf(Complement(b)) \in Int
        /\ SegmentOf(Complement(b)) \in 0..14
    BY <2>1, FieldsInRange
  <2>3. Pow2(SegmentOf(Complement(b))) \in Int
    BY <2>2, Pow2Positive
  <2>. QED
    BY <2>2, <2>3 DEF MulawDecode, MULAW_BIAS
<1>2. AlawDecode(b) \in Int
  <2>1. AlawXor(b) \in Int
    BY DEF AlawXor, FlipBit, Byte
  <2>2. /\ MantissaOf(AlawXor(b)) \in Int
        /\ SegmentOf(AlawXor(b)) \in 0..7
    BY <2>1, FieldsInRange
  <2>3. SegmentOf(AlawXor(b)) # 0 => Pow2(SegmentOf(AlawXor(b)) - 1) \in Int
    BY <2>2, Pow2Positive
  <2>. QED
    BY <2>2, <2>3 DEF AlawDecode
<1>. QED
  BY <1>1, <1>2

(* The tables of byte pairs hold bytes.                                    *)
LEMMA DecodeLeType ==
    /\ MULAW_DECODE_LE \in [Byte -> Byte \X Byte]
    /\ ALAW_DECODE_LE  \in [Byte -> Byte \X Byte]
<1>1. \A b \in Byte : MULAW_DECODE[b] \in Int /\ ALAW_DECODE[b] \in Int
  BY DecodeType DEF MULAW_DECODE, ALAW_DECODE
<1>2. \A b \in Byte : /\ ToLeBytes(MULAW_DECODE[b]) \in Byte \X Byte
                      /\ ToLeBytes(ALAW_DECODE[b]) \in Byte \X Byte
  BY <1>1, ToLeBytesType
<1>. QED
  BY <1>2 DEF MULAW_DECODE_LE, ALAW_DECODE_LE

(* Copying pairs of bytes yields two bytes per input byte.                 *)
LEMMA CopyPairsType ==
    ASSUME NEW table \in [Byte -> Byte \X Byte], NEW input \in Seq(Byte)
    PROVE  /\ CopyPairs(table, input) \in Seq(Byte)
           /\ Len(CopyPairs(table, input)) = 2 * Len(input)
<1>. DEFINE entry(k) ==
               table[input[(k + 1) \div 2]][IF k % 2 = 1 THEN 1 ELSE 2]
<1>1. Len(input) \in Nat
  OBVIOUS
<1>2. ASSUME NEW k \in 1..(2 * Len(input))
      PROVE  entry(k) \in Byte
  <2>1. (k + 1) \div 2 \in 1..Len(input)
    BY <1>1
  <2>2. input[(k + 1) \div 2] \in Byte
    BY <2>1
  <2>3. table[input[(k + 1) \div 2]] \in Byte \X Byte
    BY <2>2
  <2>. QED
    BY <2>3
<1>3. CopyPairs(table, input) = [k \in 1..(2 * Len(input)) |-> entry(k)]
  BY DEF CopyPairs
<1>. QED
  BY <1>1, <1>2, <1>3

(* A decoded plane is a sequence of bytes twice as long as the packet.     *)
LEMMA DecodeSliceType ==
    ASSUME NEW l \in Laws, NEW input \in Seq(Byte)
    PROVE  /\ DecodeSliceToLeBytes(l, input) \in Seq(Byte)
           /\ Len(DecodeSliceToLeBytes(l, input)) = 2 * Len(input)
BY DecodeLeType, CopyPairsType
   DEF DecodeSliceToLeBytes, MulawDecodeSliceToLeBytes, AlawDecodeSliceToLeBytes

-----------------------------------------------------------------------------
(* The segment search always stops: some segment in 0..7 meets the         *)
(* condition that MulawSegment chooses by.                                 *)
LEMMA MulawSegmentType ==
    ASSUME NEW mag \in Nat
    PROVE  MulawSegment(mag) \in 0..7
<1>. DEFINE Bit(s) == BitSet(mag, Pow2(s + 7))
            Stops(s) == /\ s > 0 => Bit(s)
                        /\ \A above \in (s + 1)..7 : ~Bit(above)
<1>1. \E s \in 0..7 : Stops(s)
  <2>. HIDE DEF Bit
  <2>7. CASE Bit(7)
    BY <2>7
  <2>6. CASE ~Bit(7) /\ Bit(6)
    BY <2>6
  <2>5. CASE ~Bit(7) /\ ~Bit(6) /\ Bit(5)
    BY <2>5
  <2>4. CASE ~Bit(7) /\ ~Bit(6) /\ ~Bit(5) /\ Bit(4)
    BY <2>4
  <2>3. CASE ~Bit(7) /\ ~Bit(6) /\ ~Bit(5) /\ ~Bit(4) /\ Bit(3)
    BY <2>3
  <2>2. CASE ~Bit(7) /\ ~Bit(6) /\ ~Bit(5) /\ ~Bit(4) /\ ~Bit(3) /\ Bit(2)
    BY <2>2
  <2>1. CASE \A s \in 2..7 : ~Bit(s)
    BY <2>1
  <2>. QED
    BY <2>1, <2>2, <2>3, <2>4, <2>5, <2>6, <2>7
<1>2. MulawSegment(mag) = CHOOSE s \in 0..7 : Stops(s)
  BY DEF MulawSegment
<1>. HIDE DEF Stops
<1>. QED
  BY <1>1, <1>2

(* Likewise for the threshold loop of A-law.                               *)
LEMMA AlawSegmentType ==
    ASSUME NEW mag \in Nat
    PROVE  AlawSegment(mag) \in 0..7
<1>. DEFINE Below(s) == mag < Pow2(s + 8)
            Past(s)  == mag >= Pow2(s + 8)
            Stops(s) == /\ s < 7 => Below(s)
                        /\ \A below \in 1..(s - 1) : Past(below)
<1>1. CASE mag < 256
  BY <1>1 DEF AlawSegment
<1>2. CASE ~(mag < 256)
  <2>1. \A s \in 1..6 : Below(s) \/ Past(s)
    <3>1. ASSUME NEW s \in 1..6
          PROVE  Below(s) \/ Past(s)
      <4>1. Pow2(s + 8) \in Nat
        BY Pow2Positive
      <4>. QED
        BY <4>1
    <3>. QED
      BY <3>1
  <2>2. \E s \in 1..7 : Stops(s)
    <3>. HIDE DEF Below, Past
    <3>1. CASE Below(1)
      BY <3>1
    <3>2. CASE Past(1) /\ Below(2)
      BY <3>2
    <3>3. CASE Past(1) /\ Past(2) /\ Below(3)
      BY <3>3
    <3>4. CASE Past(1) /\ Past(2) /\ Past(3) /\ Below(4)
      BY <3>4
    <3>5. CASE Past(1) /\ Past(2) /\ Past(3) /\ Past(4) /\ Below(5)
      BY <3>5
    <3>6. CASE Past(1) /\ Past(2) /\ Past(3) /\ Past(4) /\ Past(5) /\ Below(6)
      BY <3>6
    <3>7. CASE \A s \in 1..6 : Past(s)
      BY <3>7
    <3>. QED
      BY <2>1, <3>1, <3>2, <3>3, <3>4, <3>5, <3>6, <3>7
  <2>3. AlawSegment(mag) = CHOOSE s \in 1..7 : Stops(s)
    BY <1>2 DEF AlawSegment
  <2>. HIDE DEF Stops
  <2>4. AlawSegment(mag) \in 1..7
    BY <2>2, <2>3
  <2>. QED
    BY <2>4
<1>. QED
  BY <1>1, <1>2

(* Flipping a bit of a byte gives a byte.                                  *)
LEMMA AlawXorType ==
    ASSUME NEW b \in Byte
    PROVE  AlawXor(b) \in Byte
<1>1. ASSUME NEW x \in Byte
      PROVE  FlipBit(x, 1) \in Byte
  BY DEF FlipBit, BitSet, Byte
<1>2. ASSUME NEW x \in Byte
      PROVE  FlipBit(x, 4) \in Byte
  BY DEF FlipBit, BitSet, Byte
<1>3. ASSUME NEW x \in Byte
      PROVE  FlipBit(x, 16) \in Byte
  BY DEF FlipBit, BitSet, Byte
<1>4. ASSUME NEW x \in Byte
      PROVE  FlipBit(x, 64) \in Byte
  BY DEF FlipBit, BitSet, Byte
<1>. QED
  BY <1>1, <1>2, <1>3, <1>4 DEF AlawXor

(* A packed codeword is a byte: sign, segment and mantissa do not overlap. *)
LEMMA MulawPackType ==
    ASSUME NEW s \in Int, NEW seg \in 0..7, NEW mag \in Nat
    PROVE  MulawPack(s, seg, mag) \in Byte
<1>1. Pow2(seg + 3) \in Nat \ {0}
  BY Pow2Positive
<1>2. MantissaOf(mag \div Pow2(seg + 3)) \in 0..15
  BY <1>1, DivModNat, FieldsInRange
<1>. QED
  BY <1>2 DEF MulawPack, Complement, Byte

(* The same for A-law.                                                     *)
LEMMA AlawPackType ==
    ASSUME NEW s \in Int, NEW seg \in 0..7, NEW mag \in Nat
    PROVE  AlawPack(s, seg, mag) \in Byte
<1>1. AlawShift(seg) \in 0..14
  BY DEF AlawShift
<1>2. Pow2(AlawShift(seg)) \in Nat \ {0}
  BY <1>1, Pow2Positive
<1>3. MantissaOf(mag \div Pow2(AlawShift(seg))) \in 0..15
  BY <1>2, DivModNat, FieldsInRange
<1>4. (IF s < 0 THEN 0 ELSE 128)
         + seg * 16 + MantissaOf(mag \div Pow2(AlawShift(seg))) \in Byte
  BY <1>3 DEF Byte
<1>. QED
  BY <1>4, AlawXorType DEF AlawPack

(* Both arithmetic encoders return a byte for every sample.                *)
LEMMA EncodeArithType ==
    ASSUME NEW s \in Int
    PROVE  MulawEncodeArith(s) \in Byte /\ AlawEncodeArith(s) \in Byte
<1>1. MulawEncodeArith(s) \in Byte
  <2>1. MulawBiased(s) \in Nat
    BY DEF MulawBiased, ClampTo, Magnitude, MULAW_BIAS
  <2>2. MulawSegment(MulawBiased(s)) \in 0..7
    BY <2>1, MulawSegmentType
  <2>. QED
    BY <2>1, <2>2, MulawPackType DEF MulawEncodeArith
<1>2. AlawEncodeArith(s) \in Byte
  <2>1. AlawClamped(s) \in Nat
    BY DEF AlawClamped, ClampTo, Magnitude
  <2>2. AlawSegment(AlawClamped(s)) \in 0..7
    BY <2>1, AlawSegmentType
  <2>. QED
    BY <2>1, <2>2, AlawPackType DEF AlawEncodeArith
<1>. QED
  BY <1>1, <1>2

(* Looking a sample up in an encode table gives a byte: every index the    *)
(* reinterpretation as u16 produces is in the table.                       *)
LEMMA EncodeSampleType ==
    ASSUME NEW s \in Int
    PROVE  MulawEncodeSample(s) \in Byte /\ AlawEncodeSample(s) \in Byte
<1>1. AsU16(s) \in U16
  BY IndexType
<1>2. ASSUME NEW i \in U16
      PROVE  MULAW_ENCODE[i] \in Byte /\ ALAW_ENCODE[i] \in Byte
  <2>1. AsI16(i) \in Int
    BY IndexType
  <2>. QED
    BY <2>1, EncodeArithType DEF MULAW_ENCODE, ALAW_ENCODE
<1>. QED
  BY <1>1, <1>2 DEF MulawEncodeSample, AlawEncodeSample

(* An encoded plane is a sequence of bytes, one per pair of input bytes.   *)
LEMMA EncodeSliceType ==
    ASSUME NEW l \in Laws, NEW plane \in Seq(Byte)
    PROVE  /\ EncodeSliceFromLeBytes(l, plane) \in Seq(Byte)
           /\ Len(EncodeSliceFromLeBytes(l, plane)) = Len(plane) \div 2
<1>1. Len(plane) \in Nat /\ Len(plane) \div 2 \in Nat
  BY DivModNat
<1>2. ASSUME NEW i \in 1..(Len(plane) \div 2)
      PROVE  SampleAt(plane, i) \in Int
  <2>1. 2 * i - 1 \in 1..Len(plane) /\ 2 * i \in 1..Len(plane)
    BY <1>1
  <2>2. \A k \in 1..Len(plane) : plane[k] \in Byte
    OBVIOUS
  <2>3. plane[2 * i - 1] \in Byte /\ plane[2 * i] \in Byte
    BY <2>1, <2>2, Zenon
  <2>4. \A x \in Byte : x \in Int
    BY DEF Byte
  <2>5. plane[2 * i - 1] \in Int /\ plane[2 * i] \in Int
    BY <2>3, <2>4, Zenon
  <2>. QED
    BY <2>5 DEF SampleAt, FromLeBytes, AsI16
<1>3. /\ MulawEncodeSliceFromLeBytes(plane) \in Seq(Byte)
      /\ Len(MulawEncodeSliceFromLeBytes(plane)) = Len(plane) \div 2
  <2>1. \A i \in 1..(Len(plane) \div 2) :
            MulawEncodeSample(SampleAt(plane, i)) \in Byte
    BY <1>2, EncodeSampleType
  <2>. QED
    BY <1>1, <2>1 DEF MulawEncodeSliceFromLeBytes
<1>4. /\ AlawEncodeSliceFromLeBytes(plane) \in Seq(Byte)
      /\ Len(AlawEncodeSliceFromLeBytes(plane)) = Len(plane) \div 2
  <2>1. \A i \in 1..(Len(plane) \div 2) :
            AlawEncodeSample(SampleAt(plane, i)) \in Byte
    BY <1>2, EncodeSampleType
  <2>. QED
    BY <1>1, <2>1 DEF AlawEncodeSliceFromLeBytes
<1>. QED
  BY <1>3, <1>4 DEF EncodeSliceFromLeBytes

-----------------------------------------------------------------------------
(* Encoding.                                                               *)

(* The bit a search looks at, of a number with no higher bit, is set       *)
(* exactly when the number reaches it.                                     *)
LEMMA TopBit ==
    ASSUME NEW x \in Nat, NEW m \in Nat \ {0}, x < 2 * m
    PROVE  BitSet(x, m) <=> m <= x
<1>1. CASE x < m
  <2>1. x \div m = 0
    BY <1>1
  <2>. QED
    BY <1>1, <2>1 DEF BitSet
<1>2. CASE m <= x
  <2>1. x \div m = 1
    BY <1>2
  <2>. QED
    BY <1>2, <2>1 DEF BitSet
<1>. QED
  BY <1>1, <1>2

(* U15 by its bounds.                                                      *)
LEMMA U15Bounds ==
    /\ \A x \in U15 : x \in Nat /\ x <= 32767
    /\ \A x \in Nat : x <= 32767 => x \in U15
<1>1. ASSUME NEW top \in Nat
      PROVE  \A x : x \in 0..top <=> x \in Nat /\ x <= top
  OBVIOUS
<1>2. I16_MAX \in Nat
  BY DEF I16_MAX
<1>3. \A x : x \in U15 <=> x \in Nat /\ x <= I16_MAX
  BY <1>1, <1>2 DEF U15
<1>. QED
  BY <1>3 DEF I16_MAX

(* S16 by its bounds.                                                      *)
LEMMA S16Bounds ==
    /\ \A x \in S16 : x \in Int /\ -32768 <= x /\ x <= 32767
    /\ \A x \in Int : -32768 <= x /\ x <= 32767 => x \in S16
<1>1. I16_MIN \in Int /\ I16_MAX \in Int
  BY DEF I16_MIN, I16_MAX
<1>2. \A x : x \in S16 <=> x \in Int /\ I16_MIN <= x /\ x <= I16_MAX
  BY <1>1 DEF S16
<1>. QED
  BY <1>2 DEF I16_MIN, I16_MAX

(* Halving a mask gives the next lower one.                                *)
LEMMA MaskHalves ==
    ASSUME NEW n \in 1..7
    PROVE  /\ Pow2(n + 7) = 2 * Pow2(n + 6)
           /\ Pow2(n + 7) \div 2 = Pow2(n + 6)
           /\ Pow2(n + 6) \in Nat \ {0}
<1>1. n = 1 \/ n = 2 \/ n = 3 \/ n = 4 \/ n = 5 \/ n = 6 \/ n = 7
  OBVIOUS
<1>2. /\ Pow2(7) = 128 /\ Pow2(8) = 256 /\ Pow2(9) = 512 /\ Pow2(10) = 1024
      /\ Pow2(11) = 2048 /\ Pow2(12) = 4096 /\ Pow2(13) = 8192
      /\ Pow2(14) = 16384
  BY DEF Pow2, PowersOfTwo
<1>. QED
  BY <1>1, <1>2

(* Every higher mask is at least twice a lower one.                        *)
LEMMA MasksGrow ==
    ASSUME NEW s \in 0..7, NEW t \in 0..7, s < t
    PROVE  Pow2(t + 7) \in Nat \ {0} /\ 2 * Pow2(s + 7) <= Pow2(t + 7)
<1>1. /\ Pow2(7) = 128 /\ Pow2(8) = 256 /\ Pow2(9) = 512 /\ Pow2(10) = 1024
      /\ Pow2(11) = 2048 /\ Pow2(12) = 4096 /\ Pow2(13) = 8192
      /\ Pow2(14) = 16384
  BY DEF Pow2, PowersOfTwo
<1>2. t = 1 \/ t = 2 \/ t = 3 \/ t = 4 \/ t = 5 \/ t = 6 \/ t = 7
  OBVIOUS
<1>3. s = 0 \/ s = 1 \/ s = 2 \/ s = 3 \/ s = 4 \/ s = 5 \/ s = 6
  OBVIOUS
<1>. QED
  BY <1>1, <1>2, <1>3

(* The segment the closed form chooses is the one the magnitude lies in.   *)
LEMMA MulawSegmentFound ==
    ASSUME NEW m \in Nat, NEW s \in 0..7,
           Pow2(s + 7) <= m, m < 2 * Pow2(s + 7)
    PROVE  MulawSegment(m) = s
<1>. DEFINE Bit(t)   == BitSet(m, Pow2(t + 7))
            Stops(t) == /\ t > 0 => Bit(t)
                        /\ \A above \in (t + 1)..7 : ~Bit(above)
<1>1. Pow2(s + 7) \in Nat \ {0}
  BY Pow2Positive
<1>2. Bit(s)
  BY <1>1, TopBit
<1>3. ASSUME NEW t \in 0..7, s < t
      PROVE  ~Bit(t)
  <2>1. Pow2(t + 7) \in Nat \ {0} /\ m < Pow2(t + 7)
    BY <1>1, <1>3, MasksGrow
  <2>. QED
    BY <2>1, TopBit
<1>4. MulawSegment(m) = CHOOSE t \in 0..7 : Stops(t)
  BY DEF MulawSegment
<1>. HIDE DEF Bit
<1>5. Stops(s)
  BY <1>2, <1>3
<1>6. ASSUME NEW t \in 0..7, Stops(t)
      PROVE  t = s
  <2>1. CASE s < t
    BY <1>3, <1>6, <2>1
  <2>2. CASE t < s
    BY <1>2, <1>6, <2>2
  <2>. QED
    BY <2>1, <2>2
<1>. HIDE DEF Stops
<1>. QED
  BY <1>4, <1>5, <1>6

(* The bias guarantees bit 7, the clamp keeps bit 15 clear.                *)
LEMMA MulawBiasedRange ==
    ASSUME NEW s \in S16
    PROVE  /\ MulawBiased(s) \in Nat
           /\ 132 <= MulawBiased(s) /\ MulawBiased(s) <= 32767
<1>1. s \in Int
  BY DEF S16
<1>2. Magnitude(s) \in Nat
  BY <1>1 DEF Magnitude
<1>3. /\ ClampTo(Magnitude(s), 32635) \in Nat
      /\ ClampTo(Magnitude(s), 32635) <= 32635
  BY <1>2 DEF ClampTo
<1>. QED
  BY <1>3 DEF MulawBiased, MULAW_BIAS

(* Sign, segment and mantissa can be read back from a codeword.            *)
LEMMA FieldsBack ==
    ASSUME NEW sign \in {0, 128}, NEW s \in 0..7, NEW mant \in 0..15
    PROVE  /\ SegmentOf(sign + s * 16 + mant) = s
           /\ MantissaOf(sign + s * 16 + mant) = mant
           /\ BitSet(sign + s * 16 + mant, 128) <=> sign = 128
<1>1. (sign + s * 16 + mant) % 16 = mant
  OBVIOUS
<1>2. (sign + s * 16 + mant) \div 16 = (sign \div 16) + s
  OBVIOUS
<1>3. ((sign \div 16) + s) % 8 = s
  OBVIOUS
<1>4. (sign + s * 16 + mant) \div 128 = sign \div 128
  OBVIOUS
<1>5. (sign \div 128) % 2 = 1 <=> sign = 128
  OBVIOUS
<1>. QED
  BY <1>1, <1>2, <1>3, <1>4, <1>5 DEF SegmentOf, MantissaOf, BitSet

(* A magnitude lies in the interval its segment and mantissa stand for.    *)
LEMMA MantissaInterval ==
    ASSUME NEW p \in {1, 2, 4, 8, 16, 32, 64, 128}, NEW m \in Nat,
           128 * p <= m, m < 256 * p
    PROVE  LET mant == MantissaOf(m \div (8 * p))
           IN  /\ mant \in 0..15
               /\ (mant * 8 + 128) * p <= m
               /\ m < (mant * 8 + 136) * p
<1>. DEFINE q == m \div (8 * p)
<1>1. q \in Nat /\ 8 * p * q <= m /\ m < 8 * p * (q + 1)
  BY SMTT(60)
<1>2. 16 <= q /\ q <= 31
  BY <1>1, SMTT(60)
<1>. HIDE DEF q
<1>3. MantissaOf(q) = q - 16
  BY <1>1, <1>2 DEF MantissaOf
<1>4. /\ (MantissaOf(q) * 8 + 128) * p <= m
      /\ m < (MantissaOf(q) * 8 + 136) * p
  BY <1>1, <1>2, <1>3, SMTT(60)
<1>5. MantissaOf(q) \in 0..15
  BY <1>1, FieldsInRange
<1>. QED
  BY <1>4, <1>5 DEF q

(* The codeword packed for a sample whose magnitude lies in segment s      *)
(* represents that sample.                                                 *)
LEMMA MulawPackedRepresents ==
    ASSUME NEW x \in S16, NEW s \in 0..7,
           Pow2(s + 7) <= MulawBiased(x), MulawBiased(x) < 2 * Pow2(s + 7)
    PROVE  Represents("mulaw", MulawPack(x, s, MulawBiased(x)), x)
<1>. DEFINE m     == MulawBiased(x)
            p     == Pow2(s)
            mant  == MantissaOf(m \div Pow2(s + 3))
            b     == MulawPack(x, s, m)
            level == (mant * 8 + 132) * p - 132
<1>1. x \in Int /\ m \in Nat
  <2>1. x \in Int
    BY DEF S16
  <2>2. m \in Nat
    BY MulawBiasedRange
  <2>. QED
    BY <2>1, <2>2
<1>2. /\ p \in {1, 2, 4, 8, 16, 32, 64, 128}
      /\ Pow2(s + 3) = 8 * p
      /\ Pow2(s + 7) = 128 * p
  <2>1. s = 0 \/ s = 1 \/ s = 2 \/ s = 3 \/ s = 4 \/ s = 5 \/ s = 6 \/ s = 7
    OBVIOUS
  <2>. QED
    BY <2>1 DEF Pow2, PowersOfTwo
<1>3. m = ClampTo(Magnitude(x), 32635) + 132
  BY DEF MulawBiased, MULAW_BIAS
<1>4. ClampTo(Magnitude(x), 32635) \in Nat
  BY <1>1 DEF ClampTo, Magnitude
<1>. HIDE DEF m, p
<1>5. /\ mant \in 0..15
      /\ (mant * 8 + 128) * p <= m
      /\ m < (mant * 8 + 136) * p
  BY <1>1, <1>2, MantissaInterval DEF m
<1>6. /\ b \in Byte
      /\ SegmentOf(Complement(b)) = s
      /\ MulawDecode(b) = IF x < 0 THEN -level ELSE level
  <2>. DEFINE sign == IF x < 0 THEN 128 ELSE 0
              code == sign + s * 16 + mant
  <2>1. b = Complement(code)
    BY DEF MulawPack
  <2>. HIDE DEF mant, b
  <2>2. sign \in {0, 128} /\ (sign = 128 <=> x < 0)
    OBVIOUS
  <2>3. Complement(b) = code
    BY <1>5, <2>1, <2>2 DEF Complement
  <2>4. /\ SegmentOf(code) = s /\ MantissaOf(code) = mant
        /\ BitSet(code, 128) <=> x < 0
    BY <1>5, <2>2, FieldsBack
  <2>5. b \in Byte
    BY <1>1, MulawPackType DEF b
  <2>. HIDE DEF code
  <2>. QED
    BY <2>3, <2>4, <2>5 DEF MulawDecode, MULAW_BIAS, p
<1>. HIDE DEF mant
<1>7. level \in Nat
  BY <1>2, <1>5, SMTT(60)
<1>8. /\ level - 4 * p <= m - 132
      /\ m - 132 < level + 4 * p
  BY <1>1, <1>2, <1>5, SMTT(60)
<1>. HIDE DEF b, level
<1>9. DecodeSample("mulaw", b) = MulawDecode(b)
  BY <1>6 DEF DecodeSample, MulawDecodeSample, MULAW_DECODE
<1>10. HalfStep("mulaw", b) = 4 * p
  BY <1>6 DEF HalfStep, p
<1>11. Magnitude(MulawDecode(b)) = level
  BY <1>6, <1>7 DEF Magnitude
<1>12. ClampTo(Magnitude(x), Overload("mulaw")) = m - 132
  BY <1>3, <1>4 DEF Overload
<1>13. Represents("mulaw", b, x)
  <2>1. MulawDecode(b) < 0 => x < 0
    BY <1>1, <1>6, <1>7
  <2>2. MulawDecode(b) > 0 => x >= 0
    BY <1>1, <1>6, <1>7
  <2>. QED
    BY <1>8, <1>9, <1>10, <1>11, <1>12, <2>1, <2>2 DEF Represents
<1>. QED
  BY <1>13 DEF b, m

-----------------------------------------------------------------------------
(* The clamp of alaw_encode_arith.                                         *)
LEMMA AlawClampedRange ==
    ASSUME NEW s \in S16
    PROVE  AlawClamped(s) \in Nat /\ AlawClamped(s) <= 32256
<1>1. s \in Int
  BY DEF S16
<1>2. Magnitude(s) \in Nat
  BY <1>1 DEF Magnitude
<1>. QED
  BY <1>2 DEF AlawClamped, ClampTo

(* Thresholds double from segment to segment.                              *)
LEMMA ThresholdsDouble ==
    /\ 256 * Pow2(0) = 256
    /\ \A s \in 0..6 : /\ 256 * Pow2(s) \in Nat
                       /\ 256 * Pow2(s + 1) = 256 * Pow2(s) * 2
                       /\ 256 * Pow2(s) = Pow2(s + 8)
    /\ 256 * Pow2(7) = 32768
<1>1. /\ Pow2(0) = 1 /\ Pow2(1) = 2 /\ Pow2(2) = 4 /\ Pow2(3) = 8
      /\ Pow2(4) = 16 /\ Pow2(5) = 32 /\ Pow2(6) = 64 /\ Pow2(7) = 128
  BY DEF Pow2, PowersOfTwo
<1>2. /\ Pow2(8) = 256 /\ Pow2(9) = 512 /\ Pow2(10) = 1024
      /\ Pow2(11) = 2048 /\ Pow2(12) = 4096 /\ Pow2(13) = 8192
      /\ Pow2(14) = 16384
  BY DEF Pow2, PowersOfTwo
<1>3. ASSUME NEW s \in 0..6
      PROVE  /\ 256 * Pow2(s) \in Nat
             /\ 256 * Pow2(s + 1) = 256 * Pow2(s) * 2
             /\ 256 * Pow2(s) = Pow2(s + 8)
  <2>1. s = 0 \/ s = 1 \/ s = 2 \/ s = 3 \/ s = 4 \/ s = 5 \/ s = 6
    OBVIOUS
  <2>. QED
    BY <1>1, <1>2, <2>1
<1>. QED
  BY <1>1, <1>3

(* A magnitude in a higher segment has passed every lower threshold.       *)
LEMMA ThresholdsGrow ==
    ASSUME NEW s \in 0..6, NEW t \in 1..7, s < t
    PROVE  256 * Pow2(s) <= 128 * Pow2(t) /\ 128 * Pow2(t) \in Nat
<1>1. /\ Pow2(0) = 1 /\ Pow2(1) = 2 /\ Pow2(2) = 4 /\ Pow2(3) = 8
      /\ Pow2(4) = 16 /\ Pow2(5) = 32 /\ Pow2(6) = 64 /\ Pow2(7) = 128
  BY DEF Pow2, PowersOfTwo
<1>2. s = 0 \/ s = 1 \/ s = 2 \/ s = 3 \/ s = 4 \/ s = 5 \/ s = 6
  OBVIOUS
<1>3. t = 1 \/ t = 2 \/ t = 3 \/ t = 4 \/ t = 5 \/ t = 6 \/ t = 7
  OBVIOUS
<1>. QED
  BY <1>1, <1>2, <1>3

(* The segment the closed form chooses is the one the magnitude lies in.   *)
LEMMA AlawSegmentFound ==
    ASSUME NEW m \in Nat, NEW s \in 0..7,
           s > 0 => 128 * Pow2(s) <= m, m < 256 * Pow2(s)
    PROVE  AlawSegment(m) = s
<1>. DEFINE Below(t) == m < Pow2(t + 8)
            Past(t)  == m >= Pow2(t + 8)
            Stops(t) == /\ t < 7 => Below(t)
                        /\ \A below \in 1..(t - 1) : Past(below)
<1>1. CASE s = 0
  BY <1>1, ThresholdsDouble DEF AlawSegment
<1>2. CASE s > 0
  <2>1. ASSUME NEW t \in 0..6, t < s
        PROVE  Past(t) /\ ~Below(t)
    BY <1>2, <2>1, ThresholdsGrow, ThresholdsDouble
  <2>2. ASSUME s \in 0..6
        PROVE  Below(s) /\ ~Past(s)
    BY <2>2, ThresholdsDouble
  <2>3. 256 <= m
    <3>1. Past(0)
      BY <1>2, <2>1
    <3>. QED
      BY <3>1 DEF Pow2, PowersOfTwo
  <2>4. AlawSegment(m) = CHOOSE t \in 1..7 : Stops(t)
    BY <2>3 DEF AlawSegment
  <2>. HIDE DEF Below, Past
  <2>5. Stops(s)
    BY <2>1, <2>2
  <2>6. ASSUME NEW t \in 1..7, Stops(t)
        PROVE  t = s
    <3>1. CASE t < s
      BY <2>1, <2>6, <3>1
    <3>2. CASE s < t
      BY <1>2, <2>2, <2>6, <3>2
    <3>. QED
      BY <3>1, <3>2
  <2>7. s \in 1..7
    BY <1>2
  <2>. HIDE DEF Stops
  <2>. QED
    BY <2>4, <2>5, <2>6, <2>7
<1>. QED
  BY <1>1, <1>2

(* XORing with 0x55 twice changes nothing.                                 *)
LEMMA AlawXorInvolution ==
    ASSUME NEW b \in Byte
    PROVE  AlawXor(AlawXor(b)) = b
<1>1. ASSUME NEW x \in Byte, NEW m \in {1, 4, 16, 64}
      PROVE  FlipBit(x, m) \in Byte /\ FlipBit(FlipBit(x, m), m) = x
  BY <1>1 DEF FlipBit, BitSet, Byte
<1>2. ASSUME NEW x \in Byte
      PROVE  /\ FlipBit(FlipBit(x, 1), 4) = FlipBit(FlipBit(x, 4), 1)
             /\ FlipBit(FlipBit(x, 1), 16) = FlipBit(FlipBit(x, 16), 1)
             /\ FlipBit(FlipBit(x, 1), 64) = FlipBit(FlipBit(x, 64), 1)
  <2>1. FlipBit(FlipBit(x, 1), 4) = FlipBit(FlipBit(x, 4), 1)
    BY DEF FlipBit, BitSet, Byte
  <2>2. FlipBit(FlipBit(x, 1), 16) = FlipBit(FlipBit(x, 16), 1)
    BY DEF FlipBit, BitSet, Byte
  <2>3. FlipBit(FlipBit(x, 1), 64) = FlipBit(FlipBit(x, 64), 1)
    BY DEF FlipBit, BitSet, Byte
  <2>. QED
    BY <2>1, <2>2, <2>3
<1>3. ASSUME NEW x \in Byte
      PROVE  /\ FlipBit(FlipBit(x, 4), 16) = FlipBit(FlipBit(x, 16), 4)
             /\ FlipBit(FlipBit(x, 4), 64) = FlipBit(FlipBit(x, 64), 4)
             /\ FlipBit(FlipBit(x, 16), 64) = FlipBit(FlipBit(x, 64), 16)
  <2>1. FlipBit(FlipBit(x, 4), 16) = FlipBit(FlipBit(x, 16), 4)
    BY DEF FlipBit, BitSet, Byte
  <2>2. FlipBit(FlipBit(x, 4), 64) = FlipBit(FlipBit(x, 64), 4)
    BY DEF FlipBit, BitSet, Byte
  <2>3. FlipBit(FlipBit(x, 16), 64) = FlipBit(FlipBit(x, 64), 16)
    BY DEF FlipBit, BitSet, Byte
  <2>. QED
    BY <2>1, <2>2, <2>3
<1>. DEFINE x1 == FlipBit(b, 1)
            x2 == FlipBit(x1, 4)
            x3 == FlipBit(x2, 16)
            x4 == FlipBit(x3, 64)
<1>4. x1 \in Byte /\ x2 \in Byte /\ x3 \in Byte /\ x4 \in Byte
  BY <1>1
<1>5. FlipBit(x4, 1) = FlipBit(FlipBit(FlipBit(b, 4), 16), 64)
  BY <1>1, <1>2, <1>4
<1>6. FlipBit(FlipBit(x4, 1), 4) = FlipBit(FlipBit(b, 16), 64)
  BY <1>1, <1>3, <1>5
<1>7. FlipBit(FlipBit(FlipBit(x4, 1), 4), 16) = FlipBit(b, 64)
  BY <1>1, <1>3, <1>6
<1>. QED
  BY <1>1, <1>7 DEF AlawXor

(* The codeword packed for a sample whose magnitude lies in segment s      *)
(* represents that sample.                                                 *)
LEMMA AlawPackedRepresents ==
    ASSUME NEW x \in S16, NEW s \in 0..7,
           s > 0 => 128 * Pow2(s) <= AlawClamped(x),
           AlawClamped(x) < 256 * Pow2(s)
    PROVE  Represents("alaw", AlawPack(x, s, AlawClamped(x)), x)
<1>. DEFINE m     == AlawClamped(x)
            mant  == MantissaOf(m \div Pow2(AlawShift(s)))
            half  == IF s = 0 THEN 8 ELSE 8 * Pow2(s - 1)
            level == IF s = 0 THEN mant * 16 + 8
                              ELSE (mant * 16 + 264) * Pow2(s - 1)
            b     == AlawPack(x, s, m)
<1>1. x \in Int /\ m \in Nat
  <2>1. x \in Int
    BY DEF S16
  <2>2. m \in Nat
    BY AlawClampedRange
  <2>. QED
    BY <2>1, <2>2
<1>2. m = ClampTo(Magnitude(x), Overload("alaw"))
  BY DEF AlawClamped, Overload
<1>3. (s > 0 => 128 * Pow2(s) <= m) /\ m < 256 * Pow2(s)
  OBVIOUS
<1>. HIDE DEF m
<1>4. /\ mant \in 0..15 /\ half \in Nat \ {0} /\ level \in Nat \ {0}
      /\ level - half <= m /\ m < level + half
  <2>1. CASE s = 0
    <3>1. Pow2(AlawShift(s)) = 16 /\ m < 256
      BY <1>3, <2>1 DEF AlawShift, Pow2, PowersOfTwo
    <3>2. m \div 16 \in 0..15 /\ 16 * (m \div 16) <= m /\ m < 16 * (m \div 16) + 16
      BY <1>1, <3>1
    <3>3. mant = m \div 16
      BY <3>1, <3>2 DEF MantissaOf
    <3>. HIDE DEF mant
    <3>. QED
      BY <1>1, <2>1, <3>2, <3>3
  <2>2. CASE s > 0
    <3>. DEFINE p == Pow2(s - 1)
    <3>1. /\ 2 * p \in {1, 2, 4, 8, 16, 32, 64, 128} /\ p \in Nat \ {0}
          /\ Pow2(AlawShift(s)) = 8 * (2 * p)
          /\ Pow2(s) = 2 * p
      <4>1. s = 1 \/ s = 2 \/ s = 3 \/ s = 4 \/ s = 5 \/ s = 6 \/ s = 7
        BY <2>2
      <4>. QED
        BY <4>1 DEF AlawShift, Pow2, PowersOfTwo
    <3>. HIDE DEF p
    <3>2. 128 * (2 * p) <= m /\ m < 256 * (2 * p)
      BY <1>3, <2>2, <3>1
    <3>3. /\ mant \in 0..15
          /\ (mant * 8 + 128) * (2 * p) <= m
          /\ m < (mant * 8 + 136) * (2 * p)
      <4>. DEFINE d == 2 * p
      <4>1. /\ d \in {1, 2, 4, 8, 16, 32, 64, 128}
            /\ mant = MantissaOf(m \div (8 * d))
            /\ 128 * d <= m /\ m < 256 * d
        BY <3>1, <3>2
      <4>. HIDE DEF mant, d
      <4>2. /\ mant \in 0..15
            /\ (mant * 8 + 128) * d <= m
            /\ m < (mant * 8 + 136) * d
        BY <1>1, <4>1, MantissaInterval
      <4>. QED
        BY <4>2 DEF d
    <3>4. half = 8 * p /\ level = (mant * 16 + 264) * p
      BY <2>2 DEF p
    <3>. HIDE DEF mant, half, level
    <3>5. half \in Nat \ {0} /\ level \in Nat
      BY <3>1, <3>3, <3>4, SMTT(60)
    <3>6. level - half = (mant * 8 + 128) * (2 * p)
      BY <3>1, <3>3, <3>4, SMTT(60)
    <3>7. level + half = (mant * 8 + 136) * (2 * p)
      BY <3>1, <3>3, <3>4, SMTT(60)
    <3>8. level # 0
      BY <3>1, <3>3, <3>4, SMTT(60)
    <3>. QED
      BY <3>3, <3>5, <3>6, <3>7, <3>8
  <2>. QED
    BY <2>1, <2>2
<1>5. /\ b \in Byte
      /\ SegmentOf(AlawXor(b)) = s
      /\ AlawDecode(b) = IF x < 0 THEN -level ELSE level
  <2>. DEFINE sign == IF x < 0 THEN 0 ELSE 128
              code == sign + s * 16 + mant
  <2>1. b = AlawXor(code)
    BY DEF AlawPack
  <2>. HIDE DEF mant, b
  <2>2. sign \in {0, 128} /\ (sign = 128 <=> ~(x < 0))
    OBVIOUS
  <2>3. code \in Byte
    BY <1>4, <2>2 DEF Byte
  <2>4. /\ SegmentOf(code) = s /\ MantissaOf(code) = mant
        /\ BitSet(code, 128) <=> ~(x < 0)
    BY <1>4, <2>2, FieldsBack
  <2>. HIDE DEF code
  <2>5. AlawXor(b) = code /\ b \in Byte
    BY <2>1, <2>3, AlawXorInvolution, AlawXorType
  <2>. QED
    BY <2>4, <2>5 DEF AlawDecode
<1>6. HalfStep("alaw", b) = half
  BY <1>5 DEF HalfStep
<1>. HIDE DEF mant, half, level, b
<1>7. DecodeSample("alaw", b) = AlawDecode(b)
  BY <1>5 DEF DecodeSample, AlawDecodeSample, ALAW_DECODE
<1>8. Magnitude(AlawDecode(b)) = level
  BY <1>4, <1>5 DEF Magnitude
<1>9. (AlawDecode(b) < 0 => x < 0) /\ (AlawDecode(b) > 0 => x >= 0)
  BY <1>1, <1>4, <1>5
<1>10. Represents("alaw", b, x)
  BY <1>2, <1>4, <1>6, <1>7, <1>8, <1>9 DEF Represents
<1>. QED
  BY <1>10 DEF b, m

-----------------------------------------------------------------------------
(* The table entry of a sample is the arithmetic encoding of the sample.   *)
LEMMA EncodeSampleArith ==
    ASSUME NEW x \in S16
    PROVE  /\ MulawEncodeSample(x) = MulawEncodeArith(x)
           /\ AlawEncodeSample(x) = AlawEncodeArith(x)
<1>1. /\ AsU16(x) \in U16
      /\ AsI16(AsU16(x)) = x
  <2>1. x \in Int /\ -32768 <= x /\ x <= 32767
    BY S16Bounds
  <2>2. AsU16(x) \in U16
    BY <2>1, IndexType
  <2>3. CASE x < 0
    <3>1. AsU16(x) = x + 65536
      BY <2>1, <2>3 DEF AsU16
    <3>. QED
      BY <2>1, <2>2, <3>1 DEF AsI16
  <2>4. CASE x >= 0
    <3>1. AsU16(x) = x
      BY <2>1, <2>4 DEF AsU16
    <3>. QED
      BY <2>1, <2>2, <3>1 DEF AsI16
  <2>. QED
    BY <2>1, <2>2, <2>3, <2>4
<1>. QED
  BY <1>1 DEF MulawEncodeSample, MULAW_ENCODE, AlawEncodeSample, ALAW_ENCODE

(* Every codeword an encoder emits represents its sample, for both laws.   *)
LEMMA EncodingRepresents ==
    ASSUME NEW l \in Laws, NEW x \in S16
    PROVE  Represents(l, EncodeSample(l, x), x)
<1>1. Represents("mulaw", MulawEncodeArith(x), x)
  <2>. DEFINE m == MulawBiased(x)
  <2>1. m \in Nat /\ 132 <= m /\ m <= 32767
    BY MulawBiasedRange
  <2>. HIDE DEF m
  <2>2. PICK s \in 0..7 : Pow2(s + 7) <= m /\ m < 2 * Pow2(s + 7)
    <3>1. /\ Pow2(7) = 128 /\ Pow2(8) = 256 /\ Pow2(9) = 512
          /\ Pow2(10) = 1024 /\ Pow2(11) = 2048 /\ Pow2(12) = 4096
          /\ Pow2(13) = 8192 /\ Pow2(14) = 16384
      BY DEF Pow2, PowersOfTwo
    <3>2. /\ 0 + 7 = 7 /\ 1 + 7 = 8 /\ 2 + 7 = 9 /\ 3 + 7 = 10
          /\ 4 + 7 = 11 /\ 5 + 7 = 12 /\ 6 + 7 = 13 /\ 7 + 7 = 14
      OBVIOUS
    <3>. QED
      BY <2>1, <3>1, <3>2, SMTT(60)
  <2>3. MulawSegment(m) = s
    BY <2>1, <2>2, MulawSegmentFound
  <2>. QED
    BY <2>2, <2>3, MulawPackedRepresents DEF MulawEncodeArith, m
<1>2. Represents("alaw", AlawEncodeArith(x), x)
  <2>. DEFINE m == AlawClamped(x)
  <2>1. m \in Nat /\ m <= 32256
    BY AlawClampedRange
  <2>. HIDE DEF m
  <2>2. PICK s \in 0..7 : (s > 0 => 128 * Pow2(s) <= m) /\ m < 256 * Pow2(s)
    <3>1. /\ Pow2(0) = 1 /\ Pow2(1) = 2 /\ Pow2(2) = 4 /\ Pow2(3) = 8
          /\ Pow2(4) = 16 /\ Pow2(5) = 32 /\ Pow2(6) = 64 /\ Pow2(7) = 128
      BY DEF Pow2, PowersOfTwo
    <3>. QED
      BY <2>1, <3>1, SMTT(60)
  <2>3. AlawSegment(m) = s
    BY <2>1, <2>2, AlawSegmentFound
  <2>. QED
    BY <2>2, <2>3, AlawPackedRepresents DEF AlawEncodeArith, m
<1>. QED
  BY <1>1, <1>2, EncodeSampleArith DEF EncodeSample, Laws

(* Two bytes make a 16-bit sample.                                         *)
LEMMA FromLeBytesType ==
    ASSUME NEW low \in Byte, NEW high \in Byte
    PROVE  FromLeBytes(<<low, high>>) \in S16
<1>1. low \in Int /\ high \in Int /\ 0 <= low /\ low <= 255
      /\ 0 <= high /\ high <= 255
  BY DEF Byte
<1>2. /\ AsI16(low + 256 * high) \in Int
      /\ -32768 <= AsI16(low + 256 * high)
      /\ AsI16(low + 256 * high) <= 32767
  BY <1>1 DEF AsI16
<1>. QED
  BY <1>2, S16Bounds DEF FromLeBytes

(* So do two bytes of a plane.                                             *)
LEMMA SampleAtType ==
    ASSUME NEW plane \in Seq(Byte), NEW k \in 1..(Len(plane) \div 2)
    PROVE  SampleAt(plane, k) \in S16
<1>1. plane[2 * k - 1] \in Byte /\ plane[2 * k] \in Byte
  <2>1. Len(plane) \in Nat
    OBVIOUS
  <2>2. 2 * k - 1 \in 1..Len(plane) /\ 2 * k \in 1..Len(plane)
    BY <2>1
  <2>3. \A i \in 1..Len(plane) : plane[i] \in Byte
    OBVIOUS
  <2>. QED
    BY <2>2, <2>3, Zenon
<1>. QED
  BY <1>1, FromLeBytesType DEF SampleAt

(* A codeword of an encoded plane is the encoding of its sample.           *)
LEMMA EncodedElement ==
    ASSUME NEW l \in Laws, NEW plane \in Seq(Byte),
           NEW k \in 1..(Len(plane) \div 2)
    PROVE  EncodeSliceFromLeBytes(l, plane)[k] = EncodeSample(l, SampleAt(plane, k))
BY DEF EncodeSliceFromLeBytes, MulawEncodeSliceFromLeBytes,
       AlawEncodeSliceFromLeBytes, EncodeSample

(* Every codeword of an encoded plane represents the sample it stands for. *)
LEMMA SliceRepresents ==
    ASSUME NEW l \in Laws, NEW plane \in Seq(Byte),
           NEW k \in 1..(Len(plane) \div 2)
    PROVE  Represents(l, EncodeSliceFromLeBytes(l, plane)[k], SampleAt(plane, k))
BY EncodedElement, SampleAtType, EncodingRepresents

(* Negative zero decodes to what positive zero does, with the same step.   *)
LEMMA CanonicalDecodes ==
    ASSUME NEW l \in Laws, NEW b \in Byte
    PROVE  /\ DecodeSample(l, Canonical(l, b)) = DecodeSample(l, b)
           /\ HalfStep(l, Canonical(l, b)) = HalfStep(l, b)
<1>1. CASE Canonical(l, b) = b
  BY <1>1
<1>2. CASE l = "mulaw" /\ b = 127
  <2>1. MulawDecode(127) = 0 /\ MulawDecode(255) = 0
    <3>1. Complement(127) = 128 /\ Complement(255) = 0
      BY DEF Complement
    <3>2. /\ MantissaOf(128) = 0 /\ SegmentOf(128) = 0
          /\ MantissaOf(0) = 0 /\ SegmentOf(0) = 0
      BY DEF MantissaOf, SegmentOf
    <3>3. Pow2(0) = 1
      BY DEF Pow2, PowersOfTwo
    <3>. QED
      BY <3>1, <3>2, <3>3 DEF MulawDecode, MULAW_BIAS
  <2>2. DecodeSample(l, 127) = 0 /\ DecodeSample(l, 255) = 0
    BY <1>2, <2>1 DEF DecodeSample, MulawDecodeSample, MULAW_DECODE, Byte
  <2>3. HalfStep(l, 127) = HalfStep(l, 255)
    BY <1>2 DEF HalfStep, Complement, SegmentOf
  <2>4. Canonical(l, b) = 255
    BY <1>2 DEF Canonical
  <2>. QED
    BY <1>2, <2>2, <2>3, <2>4
<1>. QED
  BY <1>1, <1>2 DEF Canonical

(* Positive zero represents what negative zero does.                       *)
LEMMA CanonicalRepresents ==
    ASSUME NEW l \in Laws, NEW b \in Byte, NEW s, Represents(l, b, s)
    PROVE  Represents(l, Canonical(l, b), s)
BY CanonicalDecodes DEF Represents

(* All-zero suppression rewrites what the plain encoder returns.           *)
LEMMA SuppressedIs ==
    ASSUME NEW s \in S16
    PROVE  MulawEncodeSampleZeroSuppress(s) = Suppress(MulawEncodeSample(s))
<1>1. s \in Int
  BY S16Bounds
<1>2. AsU16(s) \in U16
  BY <1>1, IndexType
<1>. QED
  BY <1>2 DEF MulawEncodeSampleZeroSuppress, MULAW_ENCODE_ZERO_SUPPRESS,
              MulawEncodeSample, MULAW_ENCODE

-----------------------------------------------------------------------------
(* Decoding, then encoding.                                                *)

(* A codeword is its sign, its segment and its mantissa.                   *)
LEMMA CodeFields ==
    ASSUME NEW code \in Byte
    PROVE  code = (IF BitSet(code, 128) THEN 128 ELSE 0)
                    + SegmentOf(code) * 16 + MantissaOf(code)
<1>1. code \in Int /\ 0 <= code /\ code <= 255
  BY DEF Byte
<1>. QED
  BY <1>1 DEF BitSet, SegmentOf, MantissaOf

(* A level in the middle of its interval has the mantissa of the interval. *)
LEMMA MantissaOfLevel ==
    ASSUME NEW p \in {1, 2, 4, 8, 16, 32, 64, 128}, NEW mant \in 0..15
    PROVE  LET m == (mant * 8 + 132) * p
           IN  /\ m \in Nat /\ 128 * p <= m /\ m < 256 * p
               /\ MantissaOf(m \div (8 * p)) = mant
<1>. DEFINE m == (mant * 8 + 132) * p
<1>1. /\ m \in Nat /\ 128 * p <= m /\ m < 256 * p
      /\ 8 * p * (mant + 16) <= m /\ m < 8 * p * (mant + 17)
  BY SMTT(60)
<1>2. m \div (8 * p) = mant + 16
  BY SMTT(60)
<1>. HIDE DEF m
<1>3. MantissaOf(mant + 16) = mant
  BY DEF MantissaOf
<1>. QED
  BY <1>1, <1>2, <1>3 DEF m

-----------------------------------------------------------------------------
(* Encoding the level of a mu-law codeword gives the codeword back, but    *)
(* for the negative zero.                                                  *)
LEMMA MulawRecovers ==
    ASSUME NEW b \in Byte
    PROVE  /\ MulawDecode(b) \in S16
           /\ MulawEncodeArith(MulawDecode(b)) = Canonical("mulaw", b)
<1>. DEFINE code  == Complement(b)
            s     == SegmentOf(code)
            mant  == MantissaOf(code)
            p     == Pow2(s)
            m     == (mant * 8 + 132) * p
            x     == MulawDecode(b)
<1>1. /\ code \in Byte /\ b \in Int
      /\ b = 255 - code
  BY DEF Complement, Byte
<1>2. code \in Int
  BY <1>1 DEF Byte
<1>3. s \in 0..7 /\ mant \in 0..15
  BY <1>2, FieldsInRange
<1>4. code = (IF BitSet(code, 128) THEN 128 ELSE 0) + s * 16 + mant
  BY <1>1, CodeFields
<1>5. x = IF BitSet(code, 128) THEN -(m - 132) ELSE m - 132
  BY DEF MulawDecode, MULAW_BIAS
<1>. HIDE DEF code, s, mant, x
<1>6. /\ p \in {1, 2, 4, 8, 16, 32, 64, 128}
      /\ Pow2(s + 3) = 8 * p /\ Pow2(s + 7) = 128 * p
      /\ p = 1 => s = 0
  <2>1. s = 0 \/ s = 1 \/ s = 2 \/ s = 3 \/ s = 4 \/ s = 5 \/ s = 6 \/ s = 7
    BY <1>3
  <2>. QED
    BY <2>1 DEF Pow2, PowersOfTwo
<1>. HIDE DEF p
<1>7. /\ m \in Nat /\ 128 * p <= m /\ m < 256 * p
      /\ MantissaOf(m \div (8 * p)) = mant
  BY <1>3, <1>6, MantissaOfLevel
<1>8. /\ 132 <= m /\ m <= 32256
      /\ m = 132 => p = 1 /\ mant = 0
  BY <1>3, <1>6, SMTT(60)
<1>. HIDE DEF m
<1>9. x \in Int /\ Magnitude(x) = m - 132 /\ (x < 0 <=> BitSet(code, 128) /\ m # 132)
  BY <1>5, <1>7, <1>8 DEF Magnitude
<1>10. x \in S16
  BY <1>5, <1>7, <1>8, S16Bounds
<1>11. MulawBiased(x) = m
  BY <1>7, <1>8, <1>9 DEF MulawBiased, ClampTo, MULAW_BIAS
<1>12. MulawSegment(m) = s
  BY <1>3, <1>6, <1>7, MulawSegmentFound
<1>13. MulawEncodeArith(x)
         = 255 - ((IF x < 0 THEN 128 ELSE 0) + s * 16 + mant)
  BY <1>6, <1>7, <1>11, <1>12 DEF MulawEncodeArith, MulawPack, Complement
<1>14. CASE BitSet(code, 128) /\ m = 132
  <2>1. code = 128 /\ s = 0 /\ mant = 0
    BY <1>4, <1>6, <1>8, <1>14
  <2>2. b = 127 /\ MulawEncodeArith(x) = 255
    BY <1>1, <1>9, <1>13, <1>14, <2>1
  <2>. QED
    BY <1>10, <2>2 DEF x, Canonical
<1>15. CASE ~(BitSet(code, 128) /\ m = 132)
  <2>1. MulawEncodeArith(x) = b
    BY <1>1, <1>2, <1>4, <1>9, <1>13, <1>15
  <2>2. b # 127
    <3>1. SUFFICES ASSUME b = 127 PROVE FALSE
      OBVIOUS
    <3>2. code = 128
      BY <1>1, <1>2, <3>1
    <3>3. s = 0 /\ mant = 0 /\ BitSet(code, 128)
      BY <3>2 DEF s, mant, SegmentOf, MantissaOf, BitSet
    <3>4. p = 1
      BY <3>3 DEF p, Pow2, PowersOfTwo
    <3>. QED
      BY <1>15, <3>3, <3>4 DEF m
  <2>. QED
    BY <1>10, <2>1, <2>2 DEF x, Canonical
<1>. QED
  BY <1>14, <1>15

(* Encoding the level of an A-law codeword gives the codeword back.        *)
LEMMA AlawRecovers ==
    ASSUME NEW b \in Byte
    PROVE  /\ AlawDecode(b) \in S16
           /\ AlawEncodeArith(AlawDecode(b)) = b
<1>. DEFINE code  == AlawXor(b)
            s     == SegmentOf(code)
            mant  == MantissaOf(code)
            level == IF s = 0 THEN mant * 16 + 8
                              ELSE (mant * 16 + 264) * Pow2(s - 1)
            x     == AlawDecode(b)
<1>1. code \in Byte /\ AlawXor(code) = b
  BY AlawXorType, AlawXorInvolution
<1>2. code \in Int
  BY <1>1 DEF Byte
<1>3. s \in 0..7 /\ mant \in 0..15
  BY <1>2, FieldsInRange
<1>4. code = (IF BitSet(code, 128) THEN 128 ELSE 0) + s * 16 + mant
  BY <1>1, CodeFields
<1>5. x = IF BitSet(code, 128) THEN level ELSE -level
  BY DEF AlawDecode
<1>. HIDE DEF code, s, mant, x
<1>6. /\ level \in Nat \ {0} /\ level <= 32256
      /\ AlawSegment(level) = s
      /\ MantissaOf(level \div Pow2(AlawShift(s))) = mant
  <2>1. CASE s = 0
    <3>1. level = mant * 16 + 8 /\ level \in Nat \ {0} /\ level < 256
      BY <1>3, <2>1
    <3>2. Pow2(AlawShift(s)) = 16
      BY <2>1 DEF AlawShift, Pow2, PowersOfTwo
    <3>3. level \div 16 = mant
      BY <1>3, <3>1
    <3>4. MantissaOf(mant) = mant
      BY <1>3 DEF MantissaOf
    <3>. HIDE DEF level
    <3>5. AlawSegment(level) = 0
      BY <3>1 DEF AlawSegment
    <3>. QED
      BY <2>1, <3>1, <3>2, <3>3, <3>4, <3>5
  <2>2. CASE s > 0
    <3>. DEFINE d == 2 * Pow2(s - 1)
    <3>1. /\ d \in {2, 4, 8, 16, 32, 64, 128}
          /\ Pow2(AlawShift(s)) = 8 * d
          /\ Pow2(s) = d
      <4>1. s = 1 \/ s = 2 \/ s = 3 \/ s = 4 \/ s = 5 \/ s = 6 \/ s = 7
        BY <1>3, <2>2
      <4>. QED
        BY <4>1 DEF AlawShift, Pow2, PowersOfTwo
    <3>2. level = (mant * 8 + 132) * d
      <4>1. Pow2(s - 1) \in Nat
        BY <1>3, <2>2, Pow2Positive
      <4>. QED
        BY <1>3, <2>2, <4>1
    <3>. HIDE DEF d, level
    <3>3. /\ level \in Nat /\ 128 * d <= level /\ level < 256 * d
          /\ MantissaOf(level \div (8 * d)) = mant
      BY <1>3, <3>1, <3>2, MantissaOfLevel
    <3>4. level # 0 /\ level <= 32256
      BY <1>3, <3>1, <3>2, SMTT(60)
    <3>5. AlawSegment(level) = s
      BY <1>3, <3>1, <3>3, AlawSegmentFound
    <3>. QED
      BY <3>1, <3>3, <3>4, <3>5
  <2>. QED
    BY <1>3, <2>1, <2>2
<1>. HIDE DEF level
<1>7. x \in Int /\ Magnitude(x) = level /\ (x < 0 <=> ~BitSet(code, 128))
  BY <1>5, <1>6 DEF Magnitude
<1>8. x \in S16
  BY <1>5, <1>6, S16Bounds
<1>9. AlawClamped(x) = level
  BY <1>6, <1>7 DEF AlawClamped, ClampTo
<1>10. AlawEncodeArith(x) = AlawPack(x, s, level)
  BY <1>6, <1>9 DEF AlawEncodeArith
<1>11. AlawPack(x, s, level) = AlawXor(code)
  <2>1. (IF x < 0 THEN 0 ELSE 128) + s * 16 + mant = code
    BY <1>4, <1>7
  <2>. QED
    BY <1>6, <2>1 DEF AlawPack
<1>. QED
  BY <1>1, <1>8, <1>10, <1>11 DEF x

(* The same through the tables, for both laws.                             *)
LEMMA SampleRecovers ==
    ASSUME NEW l \in Laws, NEW b \in Byte
    PROVE  /\ DecodeSample(l, b) \in S16
           /\ EncodeSample(l, DecodeSample(l, b)) = Canonical(l, b)
<1>1. CASE l = "mulaw"
  <2>1. DecodeSample(l, b) = MulawDecode(b)
    BY <1>1 DEF DecodeSample, MulawDecodeSample, MULAW_DECODE
  <2>. QED
    BY <1>1, <2>1, MulawRecovers, EncodeSampleArith DEF EncodeSample
<1>2. CASE l = "alaw"
  <2>1. DecodeSample(l, b) = AlawDecode(b)
    BY <1>2 DEF DecodeSample, AlawDecodeSample, ALAW_DECODE
  <2>. QED
    BY <1>2, <2>1, AlawRecovers, EncodeSampleArith
       DEF EncodeSample, Canonical
<1>. QED
  BY <1>1, <1>2 DEF Laws

-----------------------------------------------------------------------------
(* The little-endian bytes of a sample read back as the sample.            *)
LEMMA LeBytesRecover ==
    ASSUME NEW x \in S16
    PROVE  FromLeBytes(ToLeBytes(x)) = x
<1>1. x \in Int /\ -32768 <= x /\ x <= 32767
  BY S16Bounds
<1>2. /\ AsU16(x) \in Int /\ 0 <= AsU16(x)
      /\ AsU16(x) = IF x < 0 THEN x + 65536 ELSE x
  BY <1>1 DEF AsU16
<1>3. (AsU16(x) % 256) + 256 * (AsU16(x) \div 256) = AsU16(x)
  BY <1>2
<1>4. AsI16(AsU16(x)) = x
  BY <1>1, <1>2 DEF AsI16
<1>. QED
  BY <1>3, <1>4 DEF FromLeBytes, ToLeBytes

(* A decoded plane holds the bytes of one sample per codeword.             *)
LEMMA DecodedElement ==
    ASSUME NEW l \in Laws, NEW input \in Seq(Byte), NEW k \in 1..Len(input)
    PROVE  /\ DecodeSliceToLeBytes(l, input)[2 * k - 1]
                = ToLeBytes(DecodeSample(l, input[k]))[1]
           /\ DecodeSliceToLeBytes(l, input)[2 * k]
                = ToLeBytes(DecodeSample(l, input[k]))[2]
<1>. DEFINE n     == Len(input)
            plane == DecodeSliceToLeBytes(l, input)
<1>1. n \in Nat /\ input[k] \in Byte
  OBVIOUS
<1>2. /\ 2 * k - 1 \in 1..(2 * n) /\ 2 * k \in 1..(2 * n)
      /\ (2 * k - 1 + 1) \div 2 = k /\ (2 * k + 1) \div 2 = k
      /\ (2 * k - 1) % 2 = 1 /\ (2 * k) % 2 # 1
  BY <1>1
<1>3. ASSUME NEW table \in [Byte -> Byte \X Byte]
      PROVE  /\ CopyPairs(table, input)[2 * k - 1] = table[input[k]][1]
             /\ CopyPairs(table, input)[2 * k] = table[input[k]][2]
  BY <1>2 DEF CopyPairs
<1>4. CASE l = "mulaw"
  <2>1. plane = CopyPairs(MULAW_DECODE_LE, input)
    BY <1>4 DEF DecodeSliceToLeBytes, MulawDecodeSliceToLeBytes
  <2>2. MULAW_DECODE_LE[input[k]] = ToLeBytes(DecodeSample(l, input[k]))
    BY <1>1, <1>4 DEF MULAW_DECODE_LE, DecodeSample, MulawDecodeSample
  <2>. QED
    BY <1>3, <2>1, <2>2, DecodeLeType
<1>5. CASE l = "alaw"
  <2>1. plane = CopyPairs(ALAW_DECODE_LE, input)
    BY <1>5 DEF DecodeSliceToLeBytes, AlawDecodeSliceToLeBytes
  <2>2. ALAW_DECODE_LE[input[k]] = ToLeBytes(DecodeSample(l, input[k]))
    BY <1>1, <1>5 DEF ALAW_DECODE_LE, DecodeSample, AlawDecodeSample
  <2>. QED
    BY <1>3, <2>1, <2>2, DecodeLeType
<1>. QED
  BY <1>4, <1>5 DEF Laws

(* A packet decoded to a byte plane and encoded again is the packet.       *)
LEMMA SliceRecovers ==
    ASSUME NEW l \in Laws, NEW input \in Seq(Byte)
    PROVE  EncodeSliceFromLeBytes(l, DecodeSliceToLeBytes(l, input))
             = [k \in 1..Len(input) |-> Canonical(l, input[k])]
<1>. DEFINE n     == Len(input)
            plane == DecodeSliceToLeBytes(l, input)
<1>1. n \in Nat /\ plane \in Seq(Byte) /\ Len(plane) = 2 * n
  BY DecodeSliceType
<1>2. Len(plane) \div 2 = n
  BY <1>1
<1>3. ASSUME NEW k \in 1..n
      PROVE  SampleAt(plane, k) = DecodeSample(l, input[k])
  <2>1. input[k] \in Byte
    OBVIOUS
  <2>2. SampleAt(plane, k) = FromLeBytes(ToLeBytes(DecodeSample(l, input[k])))
    BY DecodedElement DEF SampleAt, FromLeBytes
  <2>. QED
    BY <2>1, <2>2, SampleRecovers, LeBytesRecover
<1>4. EncodeSliceFromLeBytes(l, plane)
        = [k \in 1..n |-> EncodeSample(l, SampleAt(plane, k))]
  BY <1>2 DEF EncodeSliceFromLeBytes, MulawEncodeSliceFromLeBytes,
              AlawEncodeSliceFromLeBytes, EncodeSample
<1>5. ASSUME NEW k \in 1..n
      PROVE  EncodeSample(l, SampleAt(plane, k)) = Canonical(l, input[k])
  BY <1>3, SampleRecovers
<1>. HIDE DEF plane
<1>. QED
  BY <1>4, <1>5 DEF plane

-----------------------------------------------------------------------------
(* Order.                                                                  *)

LEMMA ScaleValues ==
    \A s \in 0..7 : Pow2(s) \in {1, 2, 4, 8, 16, 32, 64, 128}
<1>1. /\ Pow2(0) = 1 /\ Pow2(1) = 2 /\ Pow2(2) = 4 /\ Pow2(3) = 8
      /\ Pow2(4) = 16 /\ Pow2(5) = 32 /\ Pow2(6) = 64 /\ Pow2(7) = 128
  BY DEF Pow2, PowersOfTwo
<1>2. \A s \in 0..7 : s \in {0, 1, 2, 3, 4, 5, 6, 7}
  OBVIOUS
<1>. QED
  BY <1>1, <1>2

(* The levels of a law, with the unit p of a segment, are midpoints of     *)
(* consecutive intervals of 8 p; a segment with a larger unit lies above   *)
(* all the intervals of a smaller one.  The linear segment of A-law, of    *)
(* the smallest unit, goes on below with negative mantissas.               *)
LEMMA IntervalsApart ==
    ASSUME NEW p \in {1, 2, 4, 8, 16, 32, 64, 128}, NEW a \in -16..15,
           NEW q \in {1, 2, 4, 8, 16, 32, 64, 128}, NEW c \in -16..15,
           a < 0 => p <= q, c < 0 => q <= p,
           (a * 8 + 132) * p > (c * 8 + 132) * q
    PROVE  (a * 8 + 128) * p >= (c * 8 + 136) * q
<1>1. CASE p = q
  <2>1. a > c
    BY <1>1
  <2>2. a * 8 + 128 >= c * 8 + 136
    BY <2>1
  <2>. QED
    BY <1>1, <2>2
<1>2. CASE p > q
  <2>1. p >= 2 * q
    BY <1>2
  <2>2. (a * 8 + 128) * p >= 128 * p
    BY <1>2
  <2>3. (c * 8 + 136) * q <= 256 * q
    OBVIOUS
  <2>. QED
    BY <2>1, <2>2, <2>3
<1>3. CASE p < q
  <2>1. 2 * p <= q
    BY <1>3
  <2>2. (a * 8 + 132) * p <= 252 * p
    OBVIOUS
  <2>3. (c * 8 + 132) * q >= 132 * q
    BY <1>3
  <2>. QED
    BY <2>1, <2>2, <2>3
<1>. QED
  BY <1>1, <1>2, <1>3

Offset(l) == IF l = "mulaw" THEN 132 ELSE 0

(* A codeword's level and step in terms of a unit and a mantissa.          *)
LevelForm(l, b, p, a) ==
    /\ l = "alaw" => p >= 2
    /\ a < 0 => l = "alaw" /\ p = 2
    /\ Magnitude(DecodeSample(l, b)) = (a * 8 + 132) * p - Offset(l)
    /\ HalfStep(l, b) = 4 * p

LEMMA LevelsHaveForm ==
    ASSUME NEW l \in Laws, NEW b \in Byte
    PROVE  \E p \in {1, 2, 4, 8, 16, 32, 64, 128}, a \in -16..15 :
              LevelForm(l, b, p, a)
<1>1. CASE l = "mulaw"
  <2>. DEFINE code == Complement(b)
              p    == Pow2(SegmentOf(code))
              a    == MantissaOf(code)
  <2>1. code \in Int
    BY DEF Complement, Byte
  <2>2. a \in 0..15 /\ p \in {1, 2, 4, 8, 16, 32, 64, 128}
    BY <2>1, FieldsInRange, ScaleValues
  <2>. DEFINE mag == (a * 8 + 132) * p - 132
  <2>3. /\ DecodeSample(l, b) = IF BitSet(code, 128) THEN -mag ELSE mag
        /\ HalfStep(l, b) = 4 * p
    BY <1>1 DEF DecodeSample, MulawDecodeSample, MULAW_DECODE, MulawDecode,
                MULAW_BIAS, HalfStep
  <2>. HIDE DEF a, p, code
  <2>4. mag \in Nat
    <3>1. (a * 8 + 132) * p >= 132 * p /\ 132 * p >= 132
      BY <2>2
    <3>2. (a * 8 + 132) * p \in Int
      BY <2>2
    <3>. QED
      BY <3>1, <3>2, <2>2
  <2>. HIDE DEF mag
  <2>5. Magnitude(DecodeSample(l, b)) = mag
    BY <2>3, <2>4 DEF Magnitude
  <2>6. LevelForm(l, b, p, a)
    BY <1>1, <2>2, <2>3, <2>5 DEF LevelForm, Offset, mag
  <2>. QED
    BY <2>2, <2>6
<1>2. CASE l = "alaw"
  <2>. DEFINE code == AlawXor(b)
              s    == SegmentOf(code)
              mant == MantissaOf(code)
              mag  == IF s = 0 THEN mant * 16 + 8
                               ELSE (mant * 16 + 264) * Pow2(s - 1)
              half == IF s = 0 THEN 8 ELSE 8 * Pow2(s - 1)
  <2>1. code \in Int
    <3>1. code \in Byte
      BY AlawXorType
    <3>. QED
      BY <3>1 DEF Byte
  <2>2. mant \in 0..15 /\ s \in 0..7
    BY <2>1, FieldsInRange
  <2>3. /\ DecodeSample(l, b) = IF BitSet(code, 128) THEN mag ELSE -mag
        /\ HalfStep(l, b) = half
    BY <1>2 DEF DecodeSample, AlawDecodeSample, ALAW_DECODE, AlawDecode, HalfStep
  <2>. HIDE DEF s, mant, code
  <2>4. CASE s = 0
    <3>1. mag = ((mant - 16) * 8 + 132) * 2 /\ mag \in Nat /\ half = 4 * 2
      BY <2>2, <2>4
    <3>. HIDE DEF mag, half
    <3>2. Magnitude(DecodeSample(l, b)) = mag
      BY <2>3, <3>1 DEF Magnitude
    <3>3. LevelForm(l, b, 2, mant - 16)
      BY <1>2, <2>3, <3>1, <3>2 DEF LevelForm, Offset
    <3>4. mant - 16 \in -16..15
      BY <2>2
    <3>. QED
      BY <3>3, <3>4
  <2>5. CASE s # 0
    <3>. DEFINE p == Pow2(s)
    <3>1. p \in {2, 4, 8, 16, 32, 64, 128} /\ p = 2 * Pow2(s - 1)
      <4>1. /\ Pow2(0) = 1 /\ Pow2(1) = 2 /\ Pow2(2) = 4 /\ Pow2(3) = 8
            /\ Pow2(4) = 16 /\ Pow2(5) = 32 /\ Pow2(6) = 64 /\ Pow2(7) = 128
        BY DEF Pow2, PowersOfTwo
      <4>2. s \in {1, 2, 3, 4, 5, 6, 7}
        BY <2>2, <2>5
      <4>. QED
        BY <4>1, <4>2
    <3>2. Pow2(s - 1) \in {1, 2, 4, 8, 16, 32, 64}
      <4>1. s - 1 \in 0..7
        BY <2>2, <2>5
      <4>. QED
        BY <3>1, <4>1, ScaleValues
    <3>. HIDE DEF p
    <3>3. mag = (mant * 8 + 132) * p /\ mag \in Nat /\ half = 4 * p
      <4>1. mag = (mant * 16 + 264) * Pow2(s - 1) /\ half = 8 * Pow2(s - 1)
        BY <2>5
      <4>. HIDE DEF mag, half
      <4>. QED
        BY <2>2, <3>1, <3>2, <4>1
    <3>. HIDE DEF mag, half
    <3>4. Magnitude(DecodeSample(l, b)) = mag
      BY <2>3, <3>3 DEF Magnitude
    <3>5. LevelForm(l, b, p, mant)
      BY <1>2, <2>2, <2>3, <3>1, <3>3, <3>4 DEF LevelForm, Offset
    <3>6. p \in {1, 2, 4, 8, 16, 32, 64, 128} /\ mant \in -16..15
      BY <2>2, <3>1
    <3>. QED
      BY <3>5, <3>6
  <2>. QED
    BY <2>4, <2>5
<1>. QED
  BY <1>1, <1>2 DEF Laws

(* A magnitude that one level represents is below those a larger level     *)
(* represents.                                                             *)
LEMMA LevelsInOrder ==
    ASSUME NEW l \in Laws, NEW b \in Byte, NEW c \in Byte,
           NEW m \in Int, NEW n \in Int, m <= n,
           Magnitude(DecodeSample(l, b)) - HalfStep(l, b) <= m,
           n < Magnitude(DecodeSample(l, c)) + HalfStep(l, c)
    PROVE  Magnitude(DecodeSample(l, b)) <= Magnitude(DecodeSample(l, c))
<1>1. PICK p \in {1, 2, 4, 8, 16, 32, 64, 128}, a \in -16..15 :
              LevelForm(l, b, p, a)
  BY LevelsHaveForm
<1>2. PICK q \in {1, 2, 4, 8, 16, 32, 64, 128}, d \in -16..15 :
              LevelForm(l, c, q, d)
  BY LevelsHaveForm
<1>. DEFINE lo == (a * 8 + 128) * p
            hi == (d * 8 + 136) * q
            x  == (a * 8 + 132) * p
            y  == (d * 8 + 132) * q
<1>3. /\ a < 0 => p <= q
      /\ d < 0 => q <= p
  BY <1>1, <1>2 DEF LevelForm
<1>4. x > y => lo >= hi
  BY <1>3, IntervalsApart
<1>5. /\ x \in Int /\ y \in Int /\ lo = x - 4 * p /\ hi = y + 4 * q
      /\ p \in Int /\ q \in Int
  OBVIOUS
<1>6. /\ Magnitude(DecodeSample(l, b)) = x - Offset(l) /\ HalfStep(l, b) = 4 * p
      /\ Magnitude(DecodeSample(l, c)) = y - Offset(l) /\ HalfStep(l, c) = 4 * q
      /\ Offset(l) \in Int
  BY <1>1, <1>2 DEF LevelForm, Offset
<1>. HIDE DEF lo, hi, x, y
<1>. QED
  BY <1>4, <1>5, <1>6

(* A sample is encoded as a byte, which decodes to a sample.               *)
LEMMA RecodedType ==
    ASSUME NEW l \in Laws, NEW s \in S16
    PROVE  EncodeSample(l, s) \in Byte /\ DecodeSample(l, EncodeSample(l, s)) \in S16
<1>1. EncodeSample(l, s) \in Byte
  BY EncodeSampleType, S16Bounds DEF EncodeSample
<1>. QED
  BY <1>1, SampleRecovers

(* Encoding and decoding keeps the order of any two samples.               *)
LEMMA RecodedInOrder ==
    ASSUME NEW l \in Laws, NEW s \in S16, NEW t \in S16, s <= t
    PROVE  DecodeSample(l, EncodeSample(l, s))
             <= DecodeSample(l, EncodeSample(l, t))
<1>. DEFINE b == EncodeSample(l, s)
            c == EncodeSample(l, t)
            x == DecodeSample(l, b)
            y == DecodeSample(l, c)
            m == ClampTo(Magnitude(s), Overload(l))
            n == ClampTo(Magnitude(t), Overload(l))
<1>1. /\ s \in Int /\ t \in Int /\ b \in Byte /\ c \in Byte
      /\ x \in Int /\ y \in Int
  BY RecodedType, SampleRecovers, S16Bounds
<1>2. /\ Magnitude(x) - HalfStep(l, b) <= m /\ m < Magnitude(x) + HalfStep(l, b)
      /\ x < 0 => s < 0
      /\ x > 0 => s >= 0
  BY EncodingRepresents DEF Represents
<1>3. /\ Magnitude(y) - HalfStep(l, c) <= n /\ n < Magnitude(y) + HalfStep(l, c)
      /\ y < 0 => t < 0
      /\ y > 0 => t >= 0
  BY EncodingRepresents DEF Represents
<1>4. m \in Int /\ n \in Int
  BY <1>1 DEF ClampTo, Magnitude, Overload
<1>5. CASE s < 0 /\ t >= 0
  <2>1. x <= 0 /\ y >= 0
    BY <1>1, <1>2, <1>3, <1>5
  <2>. QED
    BY <1>1, <2>1
<1>6. CASE s >= 0
  <2>1. m <= n
    BY <1>1, <1>6 DEF ClampTo, Magnitude, Overload
  <2>2. Magnitude(x) <= Magnitude(y)
    <3>. HIDE DEF b, c, m, n
    <3>. QED
      BY <1>1, <1>2, <1>3, <1>4, <2>1, LevelsInOrder
  <2>3. x >= 0 /\ y >= 0
    BY <1>1, <1>2, <1>3, <1>6
  <2>. QED
    BY <1>1, <2>2, <2>3 DEF Magnitude
<1>7. CASE t < 0
  <2>1. n <= m
    BY <1>1, <1>7 DEF ClampTo, Magnitude, Overload
  <2>2. Magnitude(y) <= Magnitude(x)
    <3>. HIDE DEF b, c, m, n
    <3>. QED
      BY <1>1, <1>2, <1>3, <1>4, <2>1, LevelsInOrder
  <2>3. x <= 0 /\ y <= 0
    BY <1>1, <1>2, <1>3, <1>7
  <2>. QED
    BY <1>1, <2>2, <2>3 DEF Magnitude
<1>. QED
  BY <1>1, <1>5, <1>6, <1>7
=============================================================================
