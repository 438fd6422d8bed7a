----------------------------- MODULE SampleProbe -----------------------------
(***************************************************************************)
(* Two fuzz targets on the single-sample functions as programs.            *)
(*                                                                         *)
(* per_sample_invariants.rs reads its input in chunks of three bytes, an   *)
(* opcode and an operand, each of which is an operation on the functions   *)
(* of one law, and replays the input through the batch helpers.            *)
(*                                                                         *)
(* zero_suppress_invariants.rs compares the levels around the forbidden    *)
(* octet, reads its input two bytes at a time, encodes each sample with    *)
(* all-zero suppression, and encodes the samples again as one slice, the   *)
(* wire.                                                                   *)
(*                                                                         *)
(* An assertion of a target that fails is recorded by its name and ends    *)
(* the run, as the panic does.                                             *)
(***************************************************************************)
EXTENDS G711Tables

CONSTANTS PerSampleInputs,     \* the byte strings either target may be given
          ZeroSuppressInputs,
          ReplayCap            \* bytes replayed by per_sample_invariants (4096)

ASSUME InputsAssumption ==
    /\ PerSampleInputs \subseteq Seq(Byte)
    /\ ZeroSuppressInputs \subseteq Seq(Byte)
    /\ ReplayCap \in Nat

VARIABLES target,  \* "per_sample", "zero_suppress"
          data,    \* the input
          ops,     \* operations performed, or samples checked
          wire,    \* the octets of the suppressing slice encoder
          failed,  \* names of the assertions that failed
          status   \* "pinning", "running", "finished", "panicked"

vars == <<target, data, ops, wire, failed, status>>

-----------------------------------------------------------------------------
ByteAt(i) == IF i <= Len(data) THEN data[i] ELSE 0   \* .copied().unwrap_or(0)

Opcode  == ByteAt(3 * ops + 1) % 4
Operand == <<ByteAt(3 * ops + 2), ByteAt(3 * ops + 3)>>

(* Sample i of zero_suppress_invariants; a lone last byte is its low byte. *)
SampleOf(i) == FromLeBytes(<<data[2 * i - 1], ByteAt(2 * i)>>)

alaw_step_bound(seg)  == Pow2(seg + 4)
mulaw_step_bound(seg) == Pow2(seg + 3)

StepBound(law, seg) ==
    IF law = "alaw" THEN alaw_step_bound(seg) ELSE mulaw_step_bound(seg)

segment_from_byte(law, byte) ==
    SegmentOf(IF law = "alaw" THEN AlawXor(byte) ELSE Complement(byte))

SaturationSlack(law, s) ==
    CASE law = "mulaw" /\ Magnitude(s) > 32635 -> 644
      [] law = "alaw"  /\ Magnitude(s) > 32256 -> 512
      [] OTHER -> 0

ZeroCollapse(law, d, b, b2) == law = "mulaw" /\ d = 0 /\ b = 127 /\ b2 = 255

(* The assertions of a sample-side operation that fail for sample s.       *)
SampleFailures(law, s) ==
    LET b   == EncodeSample(law, s)
        d   == DecodeSample(law, b)
        b2  == EncodeSample(law, d)
        err == Magnitude(s - d)
    IN  (IF b = b2 \/ ZeroCollapse(law, d, b, b2) THEN {} ELSE {"projection"})
        \cup
        (IF err <= StepBound(law, segment_from_byte(law, b))
                     + SaturationSlack(law, s)
         THEN {} ELSE {"step bound"})

(* Those of a codeword-side operation: flipping the sign bit negates, the  *)
(* two zeros of mu-law excepted.                                           *)
CodewordFailures(law, b) ==
    IF \/ law = "mulaw" /\ b % 128 = 127
       \/ DecodeSample(law, FlipBit(b, 128)) = -DecodeSample(law, b)
    THEN {} ELSE {"sign symmetry"}

DecodeSlice(law, input) ==
    [i \in 1..Len(input) |->
        IF law = "mulaw" THEN MULAW_DECODE[input[i]] ELSE ALAW_DECODE[input[i]]]

EncodeSlice(law, input) ==
    [i \in 1..Len(input) |->
        IF law = "mulaw" THEN MULAW_ENCODE[AsU16(input[i])]
                         ELSE ALAW_ENCODE[AsU16(input[i])]]

(* Those of the batch replay, with the name of the slice function each is  *)
(* about: the four of a law agree with its single-sample functions at      *)
(* every position.  Their own assertions on the lengths fail here only if  *)
(* the odd last byte, which is no sample, is not left out.                 *)
BatchFailures(law) ==
    LET n       == IF Len(data) < ReplayCap THEN Len(data) ELSE ReplayCap
        even    == n - (n % 2)
        bytes   == SubSeq(data, 1, n)
        le_pcm  == SubSeq(data, 1, even)
        samples == [i \in 1..(even \div 2) |-> SampleAt(data, i)]
        pcm     == DecodeSlice(law, bytes)
        le      == DecodeSliceToLeBytes(law, bytes)
        wire_of == EncodeSlice(law, samples)
        wire_le == EncodeSliceFromLeBytes(law, le_pcm)
    IN  (IF \A i \in 1..n : pcm[i] = DecodeSample(law, data[i])
         THEN {} ELSE {"decode_slice"})
        \cup
        (IF \A i \in 1..n : <<le[2 * i - 1], le[2 * i]>>
                              = ToLeBytes(DecodeSample(law, data[i]))
         THEN {} ELSE {"decode_slice_to_le_bytes"})
        \cup
        (IF \A i \in 1..Len(samples) : wire_of[i] = EncodeSample(law, samples[i])
         THEN {} ELSE {"encode_slice"})
        \cup
        (IF \A i \in 1..Len(samples) : wire_le[i] = EncodeSample(law, samples[i])
         THEN {} ELSE {"encode_slice_from_le_bytes"})
        \cup
        (IF Len(le_pcm) = 2 * Len(samples) THEN {} ELSE {"lengths must match"})

(* zero_suppress_invariants: the assertions about one sample that fail.    *)
check_sample(s) ==
    LET plain == MulawEncodeSample(s)
        supp  == MulawEncodeSampleZeroSuppress(s)
    IN  (IF supp = MULAW_ZERO_CODEWORD THEN {"zero emitted"} ELSE {})
        \cup
        (IF supp = (IF plain = MULAW_ZERO_CODEWORD
                    THEN MULAW_ZERO_SUPPRESS_CODEWORD ELSE plain)
         THEN {} ELSE {"rewrite"})

OrderFailures ==
    LET v00 == MulawDecodeSample(MULAW_ZERO_CODEWORD)
        v01 == MulawDecodeSample(1)
        v02 == MulawDecodeSample(MULAW_ZERO_SUPPRESS_CODEWORD)
    IN  IF v00 < v01 /\ v01 < v02 /\ v02 < 0 /\ v01 - v00 = v02 - v01
        THEN {} ELSE {"order"}

EncodeSliceZeroSuppress(input) ==
    [i \in 1..Len(input) |-> MULAW_ENCODE_ZERO_SUPPRESS[AsU16(input[i])]]

-----------------------------------------------------------------------------
Init ==
    /\ \/ target = "per_sample" /\ data \in PerSampleInputs /\ status = "running"
       \/ target = "zero_suppress" /\ data \in ZeroSuppressInputs
          /\ status = "pinning"
    /\ ops = 0 /\ wire = <<>>
    /\ failed = {}

Assert(failures, otherwise) ==
    /\ failed' = failures
    /\ status' = IF failures = {} THEN otherwise ELSE "panicked"
    /\ UNCHANGED <<target, data>>

Running(t) == target = t /\ status = "running"

-----------------------------------------------------------------------------
Perform(failures) ==
    /\ Assert(failures, "running")
    /\ ops' = ops + 1
    /\ UNCHANGED wire

ChunkLeft == Running("per_sample") /\ 3 * ops < Len(data)

MulawSample ==
    ChunkLeft /\ Opcode = 0 /\ Perform(SampleFailures("mulaw", FromLeBytes(Operand)))
MulawCodeword ==
    ChunkLeft /\ Opcode = 1 /\ Perform(CodewordFailures("mulaw", Operand[1]))
AlawSample ==
    ChunkLeft /\ Opcode = 2 /\ Perform(SampleFailures("alaw", FromLeBytes(Operand)))
AlawCodeword ==
    ChunkLeft /\ Opcode = 3 /\ Perform(CodewordFailures("alaw", Operand[1]))

(* The chunks are used up: the mu-law, then the A-law batch helpers.       *)
Replay ==
    /\ Running("per_sample") /\ 3 * ops >= Len(data)
    /\ Assert(BatchFailures("mulaw") \cup BatchFailures("alaw"), "finished")
    /\ UNCHANGED <<ops, wire>>

-----------------------------------------------------------------------------
(* The levels of 0x00, 0x01 and 0x02, once per run.                        *)
PinOrdering ==
    /\ status = "pinning"
    /\ Assert(OrderFailures, "running")
    /\ UNCHANGED <<ops, wire>>

(* An empty input checks the sample 0 and returns.                         *)
CheckEmpty ==
    /\ Running("zero_suppress") /\ data = <<>>
    /\ Assert(check_sample(0), "finished")
    /\ UNCHANGED <<ops, wire>>

CheckNext ==
    /\ Running("zero_suppress") /\ 2 * ops < Len(data)
    /\ Assert(check_sample(SampleOf(ops + 1)), "running")
    /\ ops' = ops + 1
    /\ UNCHANGED wire

ReplaySlice ==
    /\ Running("zero_suppress") /\ data # <<>> /\ 2 * ops >= Len(data)
    /\ wire' = EncodeSliceZeroSuppress([i \in 1..ops |-> SampleOf(i)])
    /\ Assert(IF \A i \in 1..ops :
                     wire'[i] = MulawEncodeSampleZeroSuppress(SampleOf(i))
              THEN {} ELSE {"slice"},
              "finished")
    /\ UNCHANGED ops

Next == \/ MulawSample \/ MulawCodeword \/ AlawSample \/ AlawCodeword \/ Replay
        \/ PinOrdering \/ CheckEmpty \/ CheckNext \/ ReplaySlice

Spec == Init /\ [][Next]_vars

-----------------------------------------------------------------------------
(* No assertion of either target fails, for any sample or codeword:        *)
(*   projection    encoding a decoded sample lands on the first codeword,  *)
(*                 the two zeros of mu-law excepted: copies do not drift;  *)
(*   step bound    a sample comes back to within the step of its segment,  *)
(*                 with a slack where the encoder clips;                   *)
(*   sign symmetry decode_sample is odd in the codeword's sign bit;        *)
(*   decode_slice, decode_slice_to_le_bytes, encode_slice,                 *)
(*   encode_slice_from_le_bytes, slice  each of the slice functions agrees *)
(*                 with the sample function, position by position;         *)
(*   lengths must match  none of them is given a lone half of a sample;    *)
(*   zero emitted, rewrite  suppression removes the octet 0x00 from the    *)
(*                 wire and changes no other;                              *)
(*   order         the octet it is rewritten to lies two levels inward.    *)
AssertionsHold == failed = {}

(* A decoder that knows nothing of suppression recovers the sign of every  *)
(* sample on the wire, and its magnitude as well as from a plain encoder,  *)
(* except where the octet was rewritten: that sample lies at the negative  *)
(* end of the range and comes back weaker by at most 2692.                 *)
WireIsFaithful ==
    \A i \in 1..Len(wire) :
        LET s == SampleOf(i)
            d == MulawDecodeSample(wire[i])
        IN  \/ Represents("mulaw", wire[i], s)
            \/ s <= -31612 /\ s <= d /\ d - s <= 2692

(* The rewritten octet jumps over one level, so two samples may come back  *)
(* in the wrong order, but never by more than that level's step of 1024:   *)
(* suppression does not reorder anything further in.                       *)
OrderSlipsOneLevel ==
    \A i, j \in 1..Len(wire) :
        SampleOf(i) <= SampleOf(j) =>
            MulawDecodeSample(wire[i]) <= MulawDecodeSample(wire[j]) + 1024

=============================================================================
