----------------------------- MODULE G711Slices -----------------------------
(***************************************************************************)
(* The batch helpers of src/src/mulaw.rs and src/src/alaw.rs, one loop     *)
(* iteration at a time: a caller brings an input and a buffer, fresh or    *)
(* left over from its last call; the helper asserts that the lengths match *)
(* and writes one element per iteration into the buffer.                   *)
(*                                                                         *)
(* The two store loops src/examples/profile_g711.rs times are helpers of   *)
(* the same form that assert nothing: like all of them they zip input and  *)
(* buffer, and rely on the one buffer of 2 * n bytes profile_decode makes  *)
(* for both of them.                                                       *)
(***************************************************************************)
EXTENDS G711Tables

CONSTANTS ByteInputs,    \* codeword sequences and PCM byte planes
          SampleInputs,  \* sequences of 16-bit samples
          BufferSizes,   \* lengths of the buffers a caller brings
          MaxCalls       \* bound on calls

ASSUME InputsAssumption ==
    /\ ByteInputs \subseteq Seq(Byte)
    /\ SampleInputs \subseteq Seq(S16)
    /\ BufferSizes \subseteq Nat
    /\ MaxCalls \in Nat

VARIABLES law, helper, input,  \* the call
          output,              \* the caller's buffer
          before,              \* history: the buffer at the call
          done,                \* iterations completed
          status,              \* "idle", "called", "looping", "returned", "panicked"
          calls                \* calls so far

vars == <<law, helper, input, output, before, done, status, calls>>

StoreLoops == {"store_recompute", "store_le_lut"}

Helpers == {"decode_slice", "decode_slice_to_le_bytes", "encode_slice",
            "encode_slice_from_le_bytes"} \cup StoreLoops

Calls == Laws \X Helpers \cup {<<"mulaw", "encode_slice_zero_suppress">>}

TakesSamples(h) == h \in {"encode_slice", "encode_slice_zero_suppress"}
FillsSamples(h) == h = "decode_slice"

(* The element types of a helper's two arguments: i16 or u8.               *)
InputOf(h)  == IF TakesSamples(h) THEN S16 ELSE Byte
BufferOf(h) == IF FillsSamples(h) THEN S16 ELSE Byte

Reads(h)  == IF h = "encode_slice_from_le_bytes" THEN 2 ELSE 1
Writes(h) == IF h \in StoreLoops \cup {"decode_slice_to_le_bytes"} THEN 2 ELSE 1

-----------------------------------------------------------------------------
(* What iteration i writes, as the tuple of elements it stores.            *)
MulawElement(h, in, i) ==
    CASE h = "decode_slice"                -> <<MULAW_DECODE[in[i]]>>
      [] h = "decode_slice_to_le_bytes"    -> MULAW_DECODE_LE[in[i]]
      [] h = "encode_slice"                -> <<MULAW_ENCODE[AsU16(in[i])]>>
      [] h = "encode_slice_from_le_bytes"  ->
            <<MULAW_ENCODE[AsU16(SampleAt(in, i))]>>
      [] h = "encode_slice_zero_suppress"  ->
            <<MULAW_ENCODE_ZERO_SUPPRESS[AsU16(in[i])]>>

AlawElement(h, in, i) ==
    CASE h = "decode_slice"                -> <<ALAW_DECODE[in[i]]>>
      [] h = "decode_slice_to_le_bytes"    -> ALAW_DECODE_LE[in[i]]
      [] h = "encode_slice"                -> <<ALAW_ENCODE[AsU16(in[i])]>>
      [] h = "encode_slice_from_le_bytes"  ->
            <<ALAW_ENCODE[AsU16(SampleAt(in, i))]>>

(* Mutant: the pre-serialised table of the example is big-endian.          *)
StoreElementSwapped(l, h, in, i) ==
    LET pair == ToLeBytes(DecodeSample(l, in[i]))
    IN  IF h = "store_le_lut" THEN <<pair[2], pair[1]>> ELSE pair

(* The example loads an i16 and serialises it per sample, or loads from a  *)
(* table it has serialised beforehand out of decode_sample.                *)
StoreElement(l, h, in, i) ==
    LET le_lut == [b \in Byte |-> ToLeBytes(DecodeSample(l, b))]
    IN  IF h = "store_le_lut" THEN le_lut[in[i]]
                              ELSE ToLeBytes(DecodeSample(l, in[i]))

Element(l, h, in, i) ==
    CASE h \in StoreLoops -> StoreElement(l, h, in, i)
      [] h \notin StoreLoops /\ l = "mulaw" -> MulawElement(h, in, i)
      [] h \notin StoreLoops /\ l = "alaw"  -> AlawElement(h, in, i)

Smaller(x, y) == IF x < y THEN x ELSE y

(* Iterations of a loop that zips the input with the buffer.               *)
Zipped(h, in, out) == Smaller(Len(in) \div Reads(h), Len(out) \div Writes(h))

LengthsMatch(h, in, out) ==
    h \in StoreLoops \/ Len(in) * Writes(h) = Len(out) * Reads(h)

-----------------------------------------------------------------------------
Init ==
    /\ law = "mulaw" /\ helper = "decode_slice"
    /\ input = <<>> /\ output = <<>> /\ before = <<>>
    /\ done = 0 /\ calls = 0
    /\ status = "idle"

(* The caller's side: an input, and a zeroed buffer or the one it has.     *)
Call(l, h, in, out) ==
    /\ status \notin {"called", "looping"}
    /\ calls < MaxCalls
    /\ law' = l /\ helper' = h /\ input' = in
    /\ output' = out /\ before' = out
    /\ done' = 0
    /\ status' = "called"
    /\ calls' = calls + 1

ZeroBuffers(sizes) == {[k \in 1..n |-> 0] : n \in sizes}

(* The buffers there are for a call: one of any size for a helper, which   *)
(* checks it; for a store loop the one made for it.                        *)
Buffers(h, in) ==
    LET sizes == IF h \in StoreLoops THEN {Len(in) * Writes(h)} ELSE BufferSizes
        reused == /\ BufferOf(h) = BufferOf(helper)
                  /\ h \in StoreLoops => Len(output) \in sizes
    IN  ZeroBuffers(sizes) \cup (IF reused THEN {output} ELSE {})

(* The assertion on the lengths, before the loop.                          *)
Enter ==
    /\ status = "called"
    /\ status' = IF LengthsMatch(helper, input, output) THEN "looping"
                                                        ELSE "panicked"
    /\ UNCHANGED <<law, helper, input, output, before, done, calls>>

(* Mutant: the buffer is written at the input's index.                     *)
IterateAtInputIndex ==
    /\ status = "looping"
    /\ done < Zipped(helper, input, output)
    /\ LET item == Element(law, helper, input, done + 1)
       IN  output' = [k \in DOMAIN output |->
                        IF k \in done + 1..done + Writes(helper)
                        THEN item[k - done] ELSE output[k]]
    /\ done' = done + 1
    /\ UNCHANGED <<law, helper, input, before, status, calls>>

Iterate ==
    /\ status = "looping"
    /\ done < Zipped(helper, input, output)
    /\ LET base == done * Writes(helper)
           item == Element(law, helper, input, done + 1)
       IN  output' = [k \in DOMAIN output |->
                        IF k \in base + 1..base + Writes(helper)
                        THEN item[k - base] ELSE output[k]]
    /\ done' = done + 1
    /\ UNCHANGED <<law, helper, input, before, status, calls>>

Return ==
    /\ status = "looping"
    /\ done >= Zipped(helper, input, output)
    /\ status' = "returned"
    /\ UNCHANGED <<law, helper, input, output, before, done, calls>>

Next ==
    \/ \E c \in Calls :
          \E in \in (IF TakesSamples(c[2]) THEN SampleInputs ELSE ByteInputs) :
             \E out \in Buffers(c[2], in) : Call(c[1], c[2], in, out)
    \/ Enter \/ Iterate \/ Return

Spec == Init /\ [][Next]_vars

-----------------------------------------------------------------------------
(* The call is one there is, and input and buffer hold elements of the     *)
(* types the called helper declares: in particular a &mut [u8] holds bytes *)
(* only, whatever encode_slice*, decode_slice_to_le_bytes or a store loop  *)
(* has written into it.                                                    *)
TypeOK ==
    /\ <<law, helper>> \in Calls
    /\ input \in Seq(InputOf(helper))
    /\ output \in Seq(BufferOf(helper)) /\ before \in Seq(BufferOf(helper))
    /\ done \in Nat /\ calls \in 0..MaxCalls
    /\ status \in {"idle", "called", "looping", "returned", "panicked"}

(* Loop invariant of the batch helpers: the elements of the iterations     *)
(* done are in place at their own positions, and everything behind them is *)
(* still what the caller's buffer held.                                    *)
PrefixConverted ==
    LET w == Writes(helper)
    IN  /\ Len(output) = Len(before)
        /\ done <= Zipped(helper, input, output)
        /\ \A k \in 1..Len(output) :
              output[k] = IF k <= done * w
                          THEN Element(law, helper, input,
                                       (k + w - 1) \div w)[((k - 1) % w) + 1]
                          ELSE before[k]

(* The conversion of a whole input, in the terms the decoder and the       *)
(* encoder are modelled in.                                                *)
Converted(l, h, in) ==
    CASE h = "decode_slice" -> [i \in 1..Len(in) |-> DecodeSample(l, in[i])]
      [] h \in StoreLoops \cup {"decode_slice_to_le_bytes"} ->
            DecodeSliceToLeBytes(l, in)
      [] h = "encode_slice" -> [i \in 1..Len(in) |-> EncodeSample(l, in[i])]
      [] h = "encode_slice_from_le_bytes" ->
            EncodeSliceFromLeBytes(l, in)
      [] h = "encode_slice_zero_suppress" ->
            [i \in 1..Len(in) |-> MulawEncodeSampleZeroSuppress(in[i])]

(* A call that returns has converted the whole input into the whole        *)
(* buffer, whatever the buffer held: nothing is left over from an earlier  *)
(* call, nothing was dropped by a zip that ended early, and the loops      *)
(* receive_frame and send_frame delegate to compute what those are         *)
(* modelled to produce.                                                    *)
ReturnsConversion ==
    status = "returned" => output = Converted(law, helper, input)
=============================================================================
