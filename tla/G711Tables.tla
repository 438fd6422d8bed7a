----------------------------- MODULE G711Tables -----------------------------
(***************************************************************************)
(* The companding arithmetic of oxideav-g711 (src/src/tables.rs): the      *)
(* decode formulas, the arithmetic encoders with the value their           *)
(* segment-search loops return, and the lookup tables every run-time path  *)
(* indexes.  The loops themselves, step by step, are EncodeLoop.           *)
(*                                                                         *)
(* Bit operations are written as arithmetic on the widths the code uses:   *)
(* !b on a u8 is 255 - b, x << n is x * 2^n, x >> n (x >= 0) is x \div 2^n *)
(* and x & 2^n # 0 is a parity test.  Powers of two are a table, so that   *)
(* no definition here is recursive.                                        *)
(***************************************************************************)
EXTENDS Integers, Sequences

Byte == 0..255
U16  == 0..65535
Laws == {"mulaw", "alaw"}

I16_MIN == -32768
I16_MAX == 32767
S16     == I16_MIN..I16_MAX
U15     == 0..I16_MAX

-----------------------------------------------------------------------------
(* Fixed-width helpers.                                                    *)

PowersOfTwo ==
    <<1, 2, 4, 8, 16, 32, 64, 128, 256, 512, 1024, 2048, 4096, 8192, 16384>>

Pow2(n) == PowersOfTwo[n + 1]

BitSet(x, m) == (x \div m) % 2 = 1     \* (x & m) != 0, m a power of two

Complement(b) == 255 - b               \* !b on a u8

Magnitude(s) == IF s < 0 THEN -s ELSE s

ClampTo(x, top) == IF x > top THEN top ELSE x

SegmentOf(code)  == (code \div 16) % 8 \* (code >> 4) & 0x07
MantissaOf(code) == code % 16          \* code & 0x0F

-----------------------------------------------------------------------------
(* Mu-law.                                                                 *)

MULAW_BIAS == 132

(* Mutant: the bias is added and never removed.                            *)
MulawDecodeBiased(b) ==
    LET inv == Complement(b)
        mag == (MantissaOf(inv) * 8 + MULAW_BIAS) * Pow2(SegmentOf(inv))
    IN  IF BitSet(inv, 128) THEN -mag ELSE mag

(* Mutant: the level is taken at the bottom of its interval.               *)
MulawDecodeFloor(b) ==
    LET inv == Complement(b)
        mag == (MantissaOf(inv) * 8 + 128) * Pow2(SegmentOf(inv)) - MULAW_BIAS
    IN  IF BitSet(inv, 128) THEN -mag ELSE mag

MulawDecode(b) ==
    LET inv == Complement(b)
        mag == (MantissaOf(inv) * 8 + MULAW_BIAS) * Pow2(SegmentOf(inv))
                 - MULAW_BIAS
    IN  IF BitSet(inv, 128) THEN -mag ELSE mag

(* The segment at which the search loop stops: it walks down from 7 and    *)
(* stops at the first set bit, or at 0.                                    *)
MulawSegment(mag) ==
    CHOOSE seg \in 0..7 :
        /\ seg > 0 => BitSet(mag, Pow2(seg + 7))
        /\ \A above \in (seg + 1)..7 : ~BitSet(mag, Pow2(above + 7))

(* Mutant: encoding without the bias that decoding removes.                *)
MulawUnbiased(sample) == ClampTo(Magnitude(sample), 32635)

(* Mutant: encoding without the clamp.                                     *)
MulawUnclamped(sample) == Magnitude(sample) + MULAW_BIAS

MulawBiased(sample) == ClampTo(Magnitude(sample), 32635) + MULAW_BIAS

MulawPack(sample, seg, mag) ==
    Complement((IF sample < 0 THEN 128 ELSE 0)
                 + seg * 16 + MantissaOf(mag \div Pow2(seg + 3)))

MulawEncodeArith(sample) ==
    LET mag == MulawBiased(sample)
    IN  MulawPack(sample, MulawSegment(mag), mag)

-----------------------------------------------------------------------------
(* A-law.                                                                  *)

FlipBit(b, m) == IF BitSet(b, m) THEN b - m ELSE b + m

AlawXor(b) == FlipBit(FlipBit(FlipBit(FlipBit(b, 1), 4), 16), 64)  \* b ^ 0x55

AlawDecode(b) ==
    LET inv == AlawXor(b)
        exp == SegmentOf(inv)
        mag == IF exp = 0 THEN MantissaOf(inv) * 16 + 8
                          ELSE (MantissaOf(inv) * 16 + 264) * Pow2(exp - 1)
    IN  IF BitSet(inv, 128) THEN mag ELSE -mag

(* The segment at which the threshold loop stops: the first one whose      *)
(* upper threshold exceeds the magnitude, or 7; 0 below 256.               *)
AlawSegment(mag) ==
    IF mag < 256
    THEN 0
    ELSE CHOOSE seg \in 1..7 :
            /\ seg < 7 => mag < Pow2(seg + 8)
            /\ \A below \in 1..(seg - 1) : mag >= Pow2(below + 8)

AlawClamped(sample) == ClampTo(Magnitude(sample), 32256)

(* Mutant: the linear segment shifts like segment n > 0.                   *)
AlawShiftUniform(seg) == seg + 3

AlawShift(seg) == IF seg = 0 THEN 4 ELSE seg + 3

(* Mutant: the sign convention of mu-law.                                  *)
AlawPackMulawSign(sample, seg, mag) ==
    AlawXor((IF sample < 0 THEN 128 ELSE 0)
              + seg * 16 + MantissaOf(mag \div Pow2(AlawShift(seg))))

AlawPack(sample, seg, mag) ==
    AlawXor((IF sample < 0 THEN 0 ELSE 128)
              + seg * 16 + MantissaOf(mag \div Pow2(AlawShift(seg))))

AlawEncodeArith(sample) ==
    LET mag == AlawClamped(sample)
    IN  AlawPack(sample, AlawSegment(mag), mag)

-----------------------------------------------------------------------------
(* Two's complement: a table index is the sample as a u16, an entry is     *)
(* filled for the index as an i16, and PCM travels as little-endian bytes. *)

AsU16(s) == s % 65536
AsI16(i) == IF i < 32768 THEN i ELSE i - 65536

(* Mutant: the high byte is the signed sample shifted right, not masked.   *)
ToLeBytesSigned(s) == <<AsU16(s) % 256, s \div 256>>

ToLeBytes(s) == <<AsU16(s) % 256, AsU16(s) \div 256>>

FromLeBytes(p) == AsI16(p[1] + 256 * p[2])

(* Lookup tables.                                                          *)

MULAW_DECODE    == [b \in Byte |-> MulawDecode(b)]
ALAW_DECODE     == [b \in Byte |-> AlawDecode(b)]
MULAW_DECODE_LE == [b \in Byte |-> ToLeBytes(MULAW_DECODE[b])]
ALAW_DECODE_LE  == [b \in Byte |-> ToLeBytes(ALAW_DECODE[b])]

MULAW_ENCODE == [i \in U16 |-> MulawEncodeArith(AsI16(i))]
ALAW_ENCODE  == [i \in U16 |-> AlawEncodeArith(AsI16(i))]

(* All-zero suppression: the octet 0 never goes on the wire.               *)

MULAW_ZERO_CODEWORD          == 0
MULAW_ZERO_SUPPRESS_CODEWORD == 2

Suppress(code) == IF code = MULAW_ZERO_CODEWORD
                  THEN MULAW_ZERO_SUPPRESS_CODEWORD ELSE code

MULAW_ENCODE_ZERO_SUPPRESS ==
    [i \in U16 |-> Suppress(MulawEncodeArith(AsI16(i)))]

-----------------------------------------------------------------------------
(* Single samples, by table lookup.                                        *)

MulawDecodeSample(b) == MULAW_DECODE[b]
AlawDecodeSample(b)  == ALAW_DECODE[b]
MulawEncodeSample(s) == MULAW_ENCODE[AsU16(s)]
AlawEncodeSample(s)  == ALAW_ENCODE[AsU16(s)]

MulawEncodeSampleZeroSuppress(s) == MULAW_ENCODE_ZERO_SUPPRESS[AsU16(s)]

DecodeSample(law, b) ==
    IF law = "mulaw" THEN MulawDecodeSample(b) ELSE AlawDecodeSample(b)

EncodeSample(law, s) ==
    IF law = "mulaw" THEN MulawEncodeSample(s) ELSE AlawEncodeSample(s)

(* Whole slices.  A plane is interleaved samples, two little-endian bytes  *)
(* each; the tables of byte pairs spare the decoders the serialisation.    *)

CopyPairs(table, input) ==
    [k \in 1..(2 * Len(input)) |->
        table[input[(k + 1) \div 2]][IF k % 2 = 1 THEN 1 ELSE 2]]

MulawDecodeSliceToLeBytes(input) == CopyPairs(MULAW_DECODE_LE, input)
AlawDecodeSliceToLeBytes(input)  == CopyPairs(ALAW_DECODE_LE, input)

SampleAt(plane, i) == FromLeBytes(<<plane[2 * i - 1], plane[2 * i]>>)

MulawEncodeSliceFromLeBytes(plane) ==
    [i \in 1..(Len(plane) \div 2) |-> MulawEncodeSample(SampleAt(plane, i))]
AlawEncodeSliceFromLeBytes(plane) ==
    [i \in 1..(Len(plane) \div 2) |-> AlawEncodeSample(SampleAt(plane, i))]

DecodeSliceToLeBytes(law, input) ==
    IF law = "mulaw" THEN MulawDecodeSliceToLeBytes(input)
                     ELSE AlawDecodeSliceToLeBytes(input)

EncodeSliceFromLeBytes(law, plane) ==
    IF law = "mulaw" THEN MulawEncodeSliceFromLeBytes(plane)
                     ELSE AlawEncodeSliceFromLeBytes(plane)

-----------------------------------------------------------------------------
(* What a codeword stands for, used to state properties: the magnitudes    *)
(* from half a step below its level up to half a step above it.            *)

HalfStep(law, b) ==
    IF law = "mulaw"
    THEN 4 * Pow2(SegmentOf(Complement(b)))
    ELSE LET exp == SegmentOf(AlawXor(b))
         IN  IF exp = 0 THEN 8 ELSE 8 * Pow2(exp - 1)

Overload(law) == IF law = "mulaw" THEN 32635 ELSE 32256

(* Codeword b represents sample s: same sign, and the decoded magnitude    *)
(* within half a step of the magnitude the law does not clip.              *)
Represents(law, b, s) ==
    LET level == DecodeSample(law, b)
        half  == HalfStep(law, b)
        m     == ClampTo(Magnitude(s), Overload(law))
    IN  /\ Magnitude(level) - half <= m
        /\ m < Magnitude(level) + half
        /\ level < 0 => s < 0
        /\ level > 0 => s >= 0

(* The one codeword that does not survive decoding and encoding again:     *)
(* negative zero (0x7F) shares the value 0 with 0xFF.                      *)
Canonical(law, b) == IF law = "mulaw" /\ b = 127 THEN 255 ELSE b
=============================================================================
