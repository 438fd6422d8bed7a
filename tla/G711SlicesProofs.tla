--------------------------- MODULE G711SlicesProofs ---------------------------
(***************************************************************************)
(* Theorems about the batch helpers, for every input, every buffer and any *)
(* number of calls: the loop invariant, and that a call which returns has  *)
(* converted the whole input.                                              *)
(***************************************************************************)
EXTENDS G711Slices, CompandingProofs

(* Strengthening: a checked helper that got past the assertion, and a     *)
(* store loop at any time, has input and buffer of matching lengths.       *)
LengthsAgree == Len(input) * Writes(helper) = Len(output) * Reads(helper)

Checked ==
    helper \in StoreLoops \/ status \in {"looping", "returned"} => LengthsAgree

Inv == TypeOK /\ Checked

-----------------------------------------------------------------------------
(* An iteration consumes one or two elements and stores one or two.        *)
LEMMA Strides ==
    ASSUME NEW h
    PROVE  Reads(h) \in {1, 2} /\ Writes(h) \in {1, 2}
BY DEF Reads, Writes

LEMMA AllHelpers ==
    ASSUME NEW l, NEW h, <<l, h>> \in Calls
    PROVE  /\ l = "mulaw" \/ l = "alaw"
           /\ \/ h \in StoreLoops
              \/ h = "decode_slice"
              \/ h = "decode_slice_to_le_bytes"
              \/ h = "encode_slice"
              \/ h = "encode_slice_from_le_bytes"
              \/ h = "encode_slice_zero_suppress" /\ l = "mulaw"
BY DEF Calls, Helpers, Laws

(* What an iteration stores, in terms of the single-sample functions.      *)
LEMMA ElementIs ==
    ASSUME NEW l, NEW h, <<l, h>> \in Calls, NEW in, in \in Seq(InputOf(h)),
           NEW i \in 1..(Len(in) \div Reads(h))
    PROVE  /\ h \in StoreLoops \cup {"decode_slice_to_le_bytes"} =>
                 /\ in[i] \in Byte
                 /\ Element(l, h, in, i) = ToLeBytes(DecodeSample(l, in[i]))
           /\ h = "decode_slice" =>
                 /\ in[i] \in Byte
                 /\ Element(l, h, in, i) = <<DecodeSample(l, in[i])>>
           /\ h = "encode_slice" =>
                 /\ in[i] \in S16
                 /\ Element(l, h, in, i) = <<EncodeSample(l, in[i])>>
           /\ h = "encode_slice_from_le_bytes" =>
                 /\ SampleAt(in, i) \in S16
                 /\ Element(l, h, in, i) = <<EncodeSample(l, SampleAt(in, i))>>
           /\ h = "encode_slice_zero_suppress" =>
                 /\ in[i] \in S16
                 /\ Element(l, h, in, i) = <<MulawEncodeSampleZeroSuppress(in[i])>>
<1>1. CASE h \in StoreLoops
  <2>1. in \in Seq(Byte) /\ Reads(h) = 1
    BY <1>1 DEF InputOf, TakesSamples, StoreLoops, Reads
  <2>2. in[i] \in Byte
    BY <2>1
  <2>3. Element(l, h, in, i) = StoreElement(l, h, in, i)
    BY <1>1 DEF Element
  <2>4. StoreElement(l, h, in, i) = ToLeBytes(DecodeSample(l, in[i]))
    BY <2>2 DEF StoreElement
  <2>. QED
    BY <1>1, <2>2, <2>3, <2>4 DEF StoreLoops
<1>2. CASE h = "decode_slice_to_le_bytes"
  <2>1. in \in Seq(Byte) /\ Reads(h) = 1 /\ h \notin StoreLoops
    BY <1>2 DEF InputOf, TakesSamples, StoreLoops, Reads
  <2>2. in[i] \in Byte
    BY <2>1
  <2>3. CASE l = "mulaw"
    BY <1>2, <2>1, <2>2, <2>3
       DEF Element, MulawElement, MULAW_DECODE_LE, DecodeSample, MulawDecodeSample
  <2>4. CASE l = "alaw"
    BY <1>2, <2>1, <2>2, <2>4
       DEF Element, AlawElement, ALAW_DECODE_LE, DecodeSample, AlawDecodeSample
  <2>. QED
    BY <1>2, <2>2, <2>3, <2>4, AllHelpers
<1>3. CASE h = "decode_slice"
  <2>1. in \in Seq(Byte) /\ Reads(h) = 1 /\ h \notin StoreLoops
    BY <1>3 DEF InputOf, TakesSamples, StoreLoops, Reads
  <2>2. in[i] \in Byte
    BY <2>1
  <2>3. CASE l = "mulaw"
    BY <1>3, <2>1, <2>3
       DEF Element, MulawElement, DecodeSample, MulawDecodeSample
  <2>4. CASE l = "alaw"
    BY <1>3, <2>1, <2>4
       DEF Element, AlawElement, DecodeSample, AlawDecodeSample
  <2>. QED
    BY <1>3, <2>1, <2>2, <2>3, <2>4, AllHelpers
<1>4. CASE h = "encode_slice"
  <2>1. in \in Seq(S16) /\ Reads(h) = 1 /\ h \notin StoreLoops
    BY <1>4 DEF InputOf, TakesSamples, StoreLoops, Reads
  <2>2. in[i] \in S16
    BY <2>1
  <2>3. CASE l = "mulaw"
    BY <1>4, <2>1, <2>3
       DEF Element, MulawElement, EncodeSample, MulawEncodeSample
  <2>4. CASE l = "alaw"
    BY <1>4, <2>1, <2>4
       DEF Element, AlawElement, EncodeSample, AlawEncodeSample
  <2>. QED
    BY <1>4, <2>1, <2>2, <2>3, <2>4, AllHelpers
<1>5. CASE h = "encode_slice_from_le_bytes"
  <2>1. in \in Seq(Byte) /\ Reads(h) = 2 /\ h \notin StoreLoops
    BY <1>5 DEF InputOf, TakesSamples, StoreLoops, Reads
  <2>2. SampleAt(in, i) \in S16
    BY <2>1, SampleAtType
  <2>3. CASE l = "mulaw"
    BY <1>5, <2>1, <2>2, <2>3
       DEF Element, MulawElement, EncodeSample, MulawEncodeSample
  <2>4. CASE l = "alaw"
    BY <1>5, <2>1, <2>2, <2>4
       DEF Element, AlawElement, EncodeSample, AlawEncodeSample
  <2>. QED
    BY <1>5, <2>1, <2>2, <2>3, <2>4, AllHelpers
<1>6. CASE h = "encode_slice_zero_suppress"
  <2>1. in \in Seq(S16) /\ Reads(h) = 1 /\ h \notin StoreLoops /\ l = "mulaw"
    BY <1>6, AllHelpers DEF InputOf, TakesSamples, StoreLoops, Reads
  <2>2. in[i] \in S16
    BY <2>1
  <2>. QED
    BY <1>6, <2>1, <2>2
       DEF Element, MulawElement, MulawEncodeSampleZeroSuppress
<1>. QED
  BY <1>1, <1>2, <1>3, <1>4, <1>5, <1>6, AllHelpers

(* Suppression leaves a byte a byte.                                       *)
LEMMA SuppressedType ==
    ASSUME NEW x \in S16
    PROVE  MulawEncodeSampleZeroSuppress(x) \in Byte
<1>1. MulawEncodeSample(x) \in Byte
  BY EncodeSampleType, S16Bounds
<1>2. \A code \in Byte : Suppress(code) \in Byte
  BY DEF Suppress, Byte, MULAW_ZERO_CODEWORD, MULAW_ZERO_SUPPRESS_CODEWORD
<1>. QED
  BY <1>1, <1>2, SuppressedIs

(* An iteration stores as many elements as it should, all of a type that   *)
(* fits the buffer.                                                        *)
LEMMA ElementType ==
    ASSUME NEW l, NEW h, <<l, h>> \in Calls, NEW in, in \in Seq(InputOf(h)),
           NEW i \in 1..(Len(in) \div Reads(h)), NEW j \in 1..Writes(h)
    PROVE  Element(l, h, in, i)[j] \in BufferOf(h)
<1>1. l \in Laws
  BY AllHelpers DEF Laws
<1>2. CASE h \in StoreLoops \cup {"decode_slice_to_le_bytes"}
  <2>1. DecodeSample(l, in[i]) \in Int
    BY <1>1, <1>2, ElementIs, SampleRecovers, S16Bounds
  <2>2. ToLeBytes(DecodeSample(l, in[i])) \in Byte \X Byte
    BY <2>1, ToLeBytesType
  <2>3. j = 1 \/ j = 2
    BY Strides
  <2>4. BufferOf(h) = Byte
    BY <1>2 DEF BufferOf, FillsSamples, StoreLoops
  <2>. QED
    BY <1>2, <2>2, <2>3, <2>4, ElementIs
<1>3. CASE h \notin StoreLoops \cup {"decode_slice_to_le_bytes"}
  <2>1. j = 1
    BY <1>3 DEF Writes
  <2>2. CASE h = "decode_slice"
    BY <1>1, <2>1, <2>2, ElementIs, SampleRecovers DEF BufferOf, FillsSamples
  <2>3. CASE h = "encode_slice" \/ h = "encode_slice_from_le_bytes"
    <3>1. \A x \in S16 : EncodeSample(l, x) \in Byte
      BY EncodeSampleType, S16Bounds DEF EncodeSample
    <3>2. BufferOf(h) = Byte
      BY <2>3 DEF BufferOf, FillsSamples
    <3>. QED
      BY <2>1, <2>3, <3>1, <3>2, ElementIs
  <2>4. CASE h = "encode_slice_zero_suppress"
    BY <2>1, <2>4, ElementIs, SuppressedType DEF BufferOf, FillsSamples
  <2>. QED
    BY <1>3, <2>2, <2>3, <2>4, AllHelpers
<1>. QED
  BY <1>2, <1>3

-----------------------------------------------------------------------------
(* The loop stays within both sides of its zip.                            *)
LEMMA ZippedBounds ==
    ASSUME NEW h, NEW in, NEW out, Len(in) \in Nat, Len(out) \in Nat
    PROVE  /\ Zipped(h, in, out) \in Nat
           /\ Zipped(h, in, out) <= Len(in) \div Reads(h)
           /\ Zipped(h, in, out) * Writes(h) <= Len(out)
<1>1. CASE Reads(h) = 1 /\ Writes(h) = 1
  BY <1>1 DEF Zipped, Smaller
<1>2. CASE Reads(h) = 2 /\ Writes(h) = 1
  BY <1>2 DEF Zipped, Smaller
<1>3. CASE Reads(h) = 1 /\ Writes(h) = 2
  BY <1>3 DEF Zipped, Smaller
<1>4. CASE Reads(h) = 2 /\ Writes(h) = 2
  BY <1>4 DEF Zipped, Smaller
<1>. QED
  BY <1>1, <1>2, <1>3, <1>4, Strides

(* An iteration writes its own positions of the buffer and no other.       *)
LEMMA IterateStores ==
    ASSUME TypeOK, Iterate
    PROVE  /\ output' \in Seq(BufferOf(helper)) /\ Len(output') = Len(output)
           /\ done + 1 \in 1..(Len(input) \div Reads(helper))
           /\ (done + 1) * Writes(helper) <= Len(output)
           /\ \A k \in 1..Len(output) :
                 output'[k] =
                   IF k \in done * Writes(helper) + 1
                              ..(done * Writes(helper) + Writes(helper))
                   THEN Element(law, helper, input, done + 1)
                          [k - done * Writes(helper)]
                   ELSE output[k]
<1>. DEFINE w    == Writes(helper)
            base == done * w
            item == Element(law, helper, input, done + 1)
            new(k) == IF k \in base + 1..base + w THEN item[k - base] ELSE output[k]
<1>1. /\ Len(input) \in Nat /\ Len(output) \in Nat /\ done \in Nat
      /\ output \in Seq(BufferOf(helper))
  BY DEF TypeOK
<1>2. /\ done < Zipped(helper, input, output)
      /\ output' = [k \in DOMAIN output |-> new(k)]
  BY DEF Iterate
<1>3. done + 1 <= Zipped(helper, input, output)
  BY <1>1, <1>2, ZippedBounds
<1>4. w \in {1, 2} /\ base \in Nat
  BY <1>1, Strides
<1>5. Len(input) \div Reads(helper) \in Nat
  BY <1>1, Strides, DivModNat
<1>6. done + 1 \in 1..(Len(input) \div Reads(helper))
  BY <1>1, <1>3, <1>5, ZippedBounds
<1>7. (done + 1) * w <= Len(output)
  <2>1. /\ Zipped(helper, input, output) \in Nat
        /\ Zipped(helper, input, output) * w <= Len(output)
    BY <1>1, ZippedBounds
  <2>. HIDE DEF w
  <2>2. CASE w = 1
    BY <1>1, <1>3, <2>1, <2>2
  <2>3. CASE w = 2
    BY <1>1, <1>3, <2>1, <2>3
  <2>. QED
    BY <1>4, <2>2, <2>3
<1>8. ASSUME NEW k \in 1..Len(output)
      PROVE  new(k) \in BufferOf(helper)
  <2>1. CASE k \in base + 1..base + w
    <3>1. k - base \in 1..w
      BY <1>4, <2>1
    <3>2. item[k - base] \in BufferOf(helper)
      BY <1>6, <3>1, ElementType DEF TypeOK
    <3>. QED
      BY <2>1, <3>2
  <2>2. CASE k \notin base + 1..base + w
    BY <1>1, <2>2
  <2>. QED
    BY <2>1, <2>2
<1>. HIDE DEF new
<1>9. DOMAIN output = 1..Len(output)
  BY <1>1
<1>10. output' \in Seq(BufferOf(helper)) /\ Len(output') = Len(output)
  BY <1>1, <1>2, <1>8, <1>9
<1>11. \A k \in 1..Len(output) : output'[k] = new(k)
  BY <1>2, <1>9
<1>. QED
  BY <1>6, <1>7, <1>10, <1>11 DEF new

(* Before the first call the invariant holds.                              *)
LEMMA InvInit == Init => Inv
<1>. SUFFICES ASSUME Init PROVE Inv
  OBVIOUS
<1>1. /\ input = <<>> /\ output = <<>> /\ before = <<>>
      /\ law = "mulaw" /\ helper = "decode_slice"
      /\ done = 0 /\ calls = 0 /\ status = "idle"
  BY DEF Init
<1>2. <<law, helper>> \in Calls /\ helper \notin StoreLoops
  BY <1>1 DEF Calls, Laws, Helpers, StoreLoops
<1>3. TypeOK
  BY <1>1, <1>2, InputsAssumption DEF TypeOK
<1>. QED
  BY <1>1, <1>2, <1>3 DEF Inv, Checked

(* A caller's input has the type and the buffer it brings too; the one a   *)
(* store loop gets is of twice the length.                                 *)
LEMMA CallerTyped ==
    ASSUME TypeOK, NEW c \in Calls,
           NEW in \in (IF TakesSamples(c[2]) THEN SampleInputs ELSE ByteInputs),
           NEW out \in Buffers(c[2], in)
    PROVE  /\ in \in Seq(InputOf(c[2])) /\ out \in Seq(BufferOf(c[2]))
           /\ c[2] \in StoreLoops =>
                 Len(in) * Writes(c[2]) = Len(out) * Reads(c[2])
<1>1. in \in Seq(InputOf(c[2]))
  BY InputsAssumption DEF InputOf
<1>. DEFINE sizes == IF c[2] \in StoreLoops THEN {Len(in) * Writes(c[2])}
                                            ELSE BufferSizes
<1>2. sizes \subseteq Nat
  <2>1. Len(in) * Writes(c[2]) \in Nat
    BY <1>1, Strides
  <2>. QED
    BY <2>1, InputsAssumption
<1>3. \/ \E n \in sizes : out = [k \in 1..n |-> 0]
      \/ /\ out = output /\ BufferOf(c[2]) = BufferOf(helper)
         /\ c[2] \in StoreLoops => Len(output) \in sizes
  BY DEF Buffers, ZeroBuffers
<1>4. out \in Seq(BufferOf(c[2])) /\ (c[2] \in StoreLoops => Len(out) \in sizes)
  <2>. HIDE DEF sizes
  <2>1. CASE \E n \in sizes : out = [k \in 1..n |-> 0]
    <3>1. PICK n \in sizes : out = [k \in 1..n |-> 0]
      BY <2>1
    <3>2. n \in Nat /\ 0 \in BufferOf(c[2])
      BY <1>2, S16Bounds DEF BufferOf, Byte
    <3>. QED
      BY <3>1, <3>2
  <2>2. CASE out = output /\ BufferOf(c[2]) = BufferOf(helper)
             /\ (c[2] \in StoreLoops => Len(output) \in sizes)
    BY <2>2 DEF TypeOK
  <2>. QED
    BY <1>3, <2>1, <2>2
<1>5. ASSUME c[2] \in StoreLoops
      PROVE  Len(in) * Writes(c[2]) = Len(out) * Reads(c[2])
  <2>1. Reads(c[2]) = 1 /\ Len(out) \in Nat
    BY <1>4, <1>5 DEF Reads, StoreLoops
  <2>. QED
    BY <1>4, <1>5, <2>1
<1>. QED
  BY <1>1, <1>4, <1>5

(* Calling, panicking, iterating and returning preserve it.                *)
LEMMA InvStep == Inv /\ [Next]_vars => Inv'
<1>. SUFFICES ASSUME Inv, [Next]_vars PROVE Inv'
  OBVIOUS
<1>. USE DEF Inv
<1>1. ASSUME NEW c \in Calls,
             NEW in \in (IF TakesSamples(c[2]) THEN SampleInputs ELSE ByteInputs),
             NEW out \in Buffers(c[2], in), Call(c[1], c[2], in, out)
      PROVE  Inv'
  <2>1. /\ law' = c[1] /\ helper' = c[2] /\ input' = in
        /\ output' = out /\ before' = out /\ done' = 0
        /\ status' = "called" /\ calls' = calls + 1 /\ calls < MaxCalls
    BY <1>1 DEF Call
  <2>2. <<c[1], c[2]>> \in Calls
    BY DEF Calls, Laws
  <2>3. calls' \in 0..MaxCalls
    BY <2>1, InputsAssumption DEF TypeOK
  <2>4. TypeOK'
    BY <2>1, <2>2, <2>3, CallerTyped DEF TypeOK
  <2>5. Checked'
    BY <2>1, CallerTyped DEF Checked, LengthsAgree
  <2>. QED
    BY <2>4, <2>5
<1>2. CASE Enter
  <2>1. TypeOK'
    BY <1>2 DEF Enter, TypeOK
  <2>2. status' = "looping" => LengthsMatch(helper, input, output)
    BY <1>2 DEF Enter
  <2>3. /\ status' \in {"looping", "panicked"}
        /\ UNCHANGED <<helper, input, output>>
    BY <1>2 DEF Enter
  <2>. QED
    BY <2>1, <2>2, <2>3 DEF Checked, LengthsAgree, LengthsMatch
<1>3. CASE Iterate
  <2>1. /\ done' = done + 1
        /\ UNCHANGED <<law, helper, input, before, status, calls>>
        /\ status = "looping"
    BY <1>3 DEF Iterate
  <2>2. output' \in Seq(BufferOf(helper)) /\ Len(output') = Len(output)
    BY <1>3, IterateStores
  <2>3. TypeOK'
    BY <2>1, <2>2 DEF TypeOK
  <2>4. Checked'
    BY <2>1, <2>2 DEF Checked, LengthsAgree
  <2>. QED
    BY <2>3, <2>4
<1>4. CASE Return
  <2>1. TypeOK'
    BY <1>4 DEF Return, TypeOK
  <2>. QED
    BY <1>4, <2>1 DEF Return, Checked, LengthsAgree
<1>5. CASE UNCHANGED vars
  BY <1>5 DEF vars, TypeOK, Checked, LengthsAgree
<1>. QED
  BY <1>1, <1>2, <1>3, <1>4, <1>5 DEF Next

(* Input and buffer keep the element types of the helper called: no helper *)
(* stores a value its buffer cannot hold, a byte buffer bytes only.        *)
THEOREM TypeCorrect == Spec => []TypeOK
<1>1. Inv => TypeOK
  BY DEF Inv
<1>. QED
  BY <1>1, InvInit, InvStep, PTL DEF Spec

(* No helper returns from buffers of different lengths: the zip would have *)
(* ended early and dropped samples without an error.                       *)
LEMMA NoTruncation ==
    ASSUME Inv, status = "returned"
    PROVE  LengthsAgree
BY DEF Inv, Checked

-----------------------------------------------------------------------------
(* Which element position k of the buffer belongs to.                      *)
LEMMA Position ==
    ASSUME NEW w \in {1, 2}, NEW d \in Nat, NEW k \in Nat \ {0}
    PROVE  /\ k \in d * w + 1..d * w + w =>
                 /\ (k + w - 1) \div w = d + 1
                 /\ ((k - 1) % w) + 1 = k - d * w
                 /\ k <= (d + 1) * w /\ ~(k <= d * w)
           /\ k \notin d * w + 1..d * w + w =>
                 (k <= (d + 1) * w <=> k <= d * w)
<1>1. CASE w = 1
  BY <1>1
<1>2. CASE w = 2
  BY <1>2
<1>. QED
  BY <1>1, <1>2

(* Before the first call nothing has been converted.                       *)
LEMMA PrefixInit == Init => PrefixConverted
<1>. SUFFICES ASSUME Init PROVE PrefixConverted
  OBVIOUS
<1>1. /\ Len(output) = 0 /\ Len(input) = 0 /\ output = before /\ done = 0
  BY DEF Init
<1>2. Zipped(helper, input, output) \in Nat
  BY <1>1, ZippedBounds
<1>. QED
  BY <1>1, <1>2 DEF PrefixConverted

(* An iteration adds its element to the converted prefix.                  *)
LEMMA PrefixStep ==
    Inv /\ Inv' /\ PrefixConverted /\ [Next]_vars => PrefixConverted'
<1>. SUFFICES ASSUME Inv, Inv', PrefixConverted, [Next]_vars
              PROVE  PrefixConverted'
  OBVIOUS
<1>1. ASSUME NEW c \in Calls,
             NEW in \in (IF TakesSamples(c[2]) THEN SampleInputs ELSE ByteInputs),
             NEW out \in Buffers(c[2], in), Call(c[1], c[2], in, out)
      PROVE  PrefixConverted'
  <2>1. output' = before' /\ done' = 0
    BY <1>1 DEF Call
  <2>2. Len(input') \in Nat /\ Len(output') \in Nat
    BY DEF Inv, TypeOK
  <2>3. Zipped(helper', input', output') \in Nat
    BY <2>2, ZippedBounds
  <2>4. Writes(helper') \in {1, 2}
    BY Strides
  <2>5. \A k \in 1..Len(output') : ~(k <= done' * Writes(helper'))
    BY <2>1, <2>4
  <2>. QED
    BY <2>1, <2>3, <2>5 DEF PrefixConverted
<1>2. CASE Iterate
  <2>. DEFINE w == Writes(helper)
              wanted(k, d) == IF k <= d * w
                              THEN Element(law, helper, input,
                                           (k + w - 1) \div w)[((k - 1) % w) + 1]
                              ELSE before[k]
  <2>1. /\ done' = done + 1 /\ done \in Nat
        /\ UNCHANGED <<law, helper, input, before>>
        /\ done < Zipped(helper, input, output)
    BY <1>2 DEF Iterate, Inv, TypeOK
  <2>2. /\ Len(output') = Len(output)
        /\ \A k \in 1..Len(output) :
              output'[k] =
                IF k \in done * w + 1..done * w + w
                THEN Element(law, helper, input, done + 1)[k - done * w]
                ELSE output[k]
    BY <1>2, IterateStores DEF Inv
  <2>3. w \in {1, 2}
    BY Strides
  <2>4. /\ Len(output) = Len(before)
        /\ \A k \in 1..Len(output) : output[k] = wanted(k, done)
    BY DEF PrefixConverted
  <2>5. ASSUME NEW k \in 1..Len(output)
        PROVE  output'[k] = wanted(k, done + 1)
    <3>. HIDE DEF w
    <3>1. k \in Nat \ {0}
      BY DEF Inv, TypeOK
    <3>2. CASE k \in done * w + 1..done * w + w
      <4>1. output'[k] = Element(law, helper, input, done + 1)[k - done * w]
        BY <2>2, <3>2
      <4>2. /\ (k + w - 1) \div w = done + 1
            /\ ((k - 1) % w) + 1 = k - done * w
            /\ k <= (done + 1) * w
        BY <2>1, <2>3, <3>1, <3>2, Position
      <4>. QED
        BY <4>1, <4>2
    <3>3. CASE k \notin done * w + 1..done * w + w
      <4>1. output'[k] = output[k] /\ output[k] = wanted(k, done)
        BY <2>2, <2>4, <3>3
      <4>2. k <= (done + 1) * w <=> k <= done * w
        BY <2>1, <2>3, <3>1, <3>3, Position
      <4>. QED
        BY <4>1, <4>2
    <3>. QED
      BY <3>2, <3>3
  <2>6. done' <= Zipped(helper', input', output')
    <3>1. Zipped(helper', input', output') = Zipped(helper, input, output)
      BY <2>1, <2>2 DEF Zipped
    <3>2. Zipped(helper, input, output) \in Nat
      <4>1. Len(input) \in Nat /\ Len(output) \in Nat
        BY DEF Inv, TypeOK
      <4>. QED
        BY <4>1, ZippedBounds
    <3>. QED
      BY <2>1, <3>1, <3>2
  <2>7. Len(output') = Len(before')
    BY <2>1, <2>2, <2>4
  <2>8. \A k \in 1..Len(output') :
          output'[k] = IF k <= done' * Writes(helper')
                       THEN Element(law', helper', input',
                                    (k + Writes(helper') - 1) \div Writes(helper'))
                              [((k - 1) % Writes(helper')) + 1]
                       ELSE before'[k]
    BY <2>1, <2>2, <2>5
  <2>. QED
    BY <2>6, <2>7, <2>8 DEF PrefixConverted
<1>3. CASE UNCHANGED <<law, helper, input, output, before, done>>
  BY <1>3 DEF PrefixConverted
<1>. QED
  BY <1>1, <1>2, <1>3 DEF Next, Enter, Return, vars

(* The loop invariant of the batch helpers, for every input and buffer:    *)
(* what the iterations done have stored is in place at its own positions,  *)
(* and nothing behind it has been touched.                                 *)
THEOREM PrefixCorrect == Spec => []PrefixConverted
<1>1. Inv /\ PrefixConverted /\ [Next]_vars => Inv' /\ PrefixConverted'
  BY InvStep, PrefixStep
<1>. QED
  BY <1>1, InvInit, PrefixInit, PTL DEF Spec

-----------------------------------------------------------------------------
(* When lengths match, a finished loop has been over both sides entirely.  *)
LEMMA WholeLoop ==
    ASSUME NEW h, NEW in, NEW out, Len(in) \in Nat, Len(out) \in Nat,
           Len(in) * Writes(h) = Len(out) * Reads(h),
           ~(Reads(h) = 2 /\ Writes(h) = 2)
    PROVE  /\ Zipped(h, in, out) = Len(in) \div Reads(h)
           /\ Zipped(h, in, out) * Writes(h) = Len(out)
<1>1. CASE Reads(h) = 1 /\ Writes(h) = 1
  BY <1>1 DEF Zipped, Smaller
<1>2. CASE Reads(h) = 2 /\ Writes(h) = 1
  BY <1>2 DEF Zipped, Smaller
<1>3. CASE Reads(h) = 1 /\ Writes(h) = 2
  BY <1>3 DEF Zipped, Smaller
<1>. QED
  BY <1>1, <1>2, <1>3, Strides

(* A helper that stores one element per iteration has stored, at each      *)
(* position, what the single-sample function gives.                        *)
LEMMA SingleConverted ==
    ASSUME NEW l, NEW h, <<l, h>> \in Calls, NEW in, in \in Seq(InputOf(h)),
           h \notin StoreLoops \cup {"decode_slice_to_le_bytes"},
           NEW S, NEW out \in Seq(S), Len(out) = Len(in) \div Reads(h),
           \A k \in 1..Len(out) : out[k] = Element(l, h, in, k)[1]
    PROVE  out = Converted(l, h, in)
<1>1. out = [k \in 1..Len(out) |-> out[k]]
  OBVIOUS
<1>2. Len(in) \in Nat
  OBVIOUS
<1>3. CASE h = "decode_slice"
  <2>1. Len(out) = Len(in)
    BY <1>2, <1>3 DEF Reads
  <2>2. \A k \in 1..Len(out) : out[k] = DecodeSample(l, in[k])
    BY <1>3, ElementIs
  <2>. QED
    BY <1>1, <1>3, <2>1, <2>2 DEF Converted
<1>4. CASE h = "encode_slice"
  <2>1. Len(out) = Len(in)
    BY <1>2, <1>4 DEF Reads
  <2>2. \A k \in 1..Len(out) : out[k] = EncodeSample(l, in[k])
    BY <1>4, ElementIs
  <2>. QED
    BY <1>1, <1>4, <2>1, <2>2 DEF Converted, StoreLoops
<1>5. CASE h = "encode_slice_from_le_bytes"
  <2>1. Len(out) = Len(in) \div 2
    BY <1>5 DEF Reads
  <2>2. \A k \in 1..Len(out) : out[k] = EncodeSample(l, SampleAt(in, k))
    BY <1>5, ElementIs
  <2>3. EncodeSliceFromLeBytes(l, in)
          = [k \in 1..(Len(in) \div 2) |-> EncodeSample(l, SampleAt(in, k))]
    BY DEF EncodeSliceFromLeBytes, MulawEncodeSliceFromLeBytes,
           AlawEncodeSliceFromLeBytes, EncodeSample
  <2>4. Converted(l, h, in) = EncodeSliceFromLeBytes(l, in)
    BY <1>5 DEF Converted, StoreLoops
  <2>. QED
    BY <1>1, <2>1, <2>2, <2>3, <2>4
<1>6. CASE h = "encode_slice_zero_suppress"
  <2>1. Len(out) = Len(in)
    BY <1>2, <1>6 DEF Reads
  <2>2. \A k \in 1..Len(out) : out[k] = MulawEncodeSampleZeroSuppress(in[k])
    BY <1>6, ElementIs
  <2>. QED
    BY <1>1, <1>6, <2>1, <2>2 DEF Converted, StoreLoops
<1>. QED
  BY <1>3, <1>4, <1>5, <1>6, AllHelpers

(* The first of a pair is at the odd position.                             *)
LEMMA HalfOfPair ==
    ASSUME NEW k \in Int
    PROVE  ((k - 1) % 2) + 1 = IF k % 2 = 1 THEN 1 ELSE 2
OBVIOUS

(* A helper that stores two bytes per iteration has stored the byte plane. *)
LEMMA PairsConverted ==
    ASSUME NEW l, NEW h, <<l, h>> \in Calls, NEW in, in \in Seq(InputOf(h)),
           h \in StoreLoops \cup {"decode_slice_to_le_bytes"},
           NEW S, NEW out \in Seq(S), Len(out) = 2 * Len(in),
           \A k \in 1..Len(out) :
              out[k] = Element(l, h, in, (k + 1) \div 2)[((k - 1) % 2) + 1]
    PROVE  out = Converted(l, h, in)
<1>1. out = [k \in 1..Len(out) |-> out[k]]
  OBVIOUS
<1>2. /\ in \in Seq(Byte) /\ Len(in) \in Nat /\ Reads(h) = 1
      /\ Len(in) \div Reads(h) = Len(in)
  BY DEF InputOf, TakesSamples, StoreLoops, Reads
<1>. DEFINE pair(i) == ToLeBytes(DecodeSample(l, in[i]))
<1>3. ASSUME NEW k \in 1..Len(out)
      PROVE  /\ in[(k + 1) \div 2] \in Byte
             /\ out[k] = pair((k + 1) \div 2)[IF k % 2 = 1 THEN 1 ELSE 2]
  <2>1. (k + 1) \div 2 \in 1..(Len(in) \div Reads(h))
    BY <1>2
  <2>2. ((k - 1) % 2) + 1 = IF k % 2 = 1 THEN 1 ELSE 2
    <3>1. k \in Int
      BY <1>2
    <3>. QED
      BY <3>1, HalfOfPair
  <2>3. /\ in[(k + 1) \div 2] \in Byte
        /\ Element(l, h, in, (k + 1) \div 2) = pair((k + 1) \div 2)
    BY <2>1, ElementIs
  <2>. QED
    BY <2>2, <2>3
<1>4. ASSUME NEW table, \A b \in Byte : table[b] = ToLeBytes(DecodeSample(l, b))
      PROVE  out = CopyPairs(table, in)
  <2>1. \A k \in 1..Len(out) :
           out[k] = table[in[(k + 1) \div 2]][IF k % 2 = 1 THEN 1 ELSE 2]
    BY <1>3, <1>4
  <2>. QED
    BY <1>1, <2>1 DEF CopyPairs
<1>5. Converted(l, h, in) = DecodeSliceToLeBytes(l, in)
  BY DEF Converted, StoreLoops
<1>6. CASE l = "mulaw"
  <2>1. \A b \in Byte : MULAW_DECODE_LE[b] = ToLeBytes(DecodeSample(l, b))
    BY <1>6 DEF MULAW_DECODE_LE, DecodeSample, MulawDecodeSample
  <2>2. out = CopyPairs(MULAW_DECODE_LE, in)
    BY <1>4, <2>1
  <2>. QED
    BY <1>5, <1>6, <2>2 DEF DecodeSliceToLeBytes, MulawDecodeSliceToLeBytes
<1>7. CASE l = "alaw"
  <2>1. \A b \in Byte : ALAW_DECODE_LE[b] = ToLeBytes(DecodeSample(l, b))
    BY <1>7 DEF ALAW_DECODE_LE, DecodeSample, AlawDecodeSample
  <2>2. out = CopyPairs(ALAW_DECODE_LE, in)
    BY <1>4, <2>1
  <2>. QED
    BY <1>5, <1>7, <2>2 DEF DecodeSliceToLeBytes, AlawDecodeSliceToLeBytes
<1>. QED
  BY <1>6, <1>7, AllHelpers

(* Strengthening: a call returns only when its loop is over.               *)
Finished == status = "returned" => done >= Zipped(helper, input, output)

LEMMA AlwaysFinished == Spec => []Finished
<1>1. Init => Finished
  BY DEF Init, Finished
<1>2. Finished /\ [Next]_vars => Finished'
  BY DEF Finished, Next, Call, Enter, Iterate, Return, vars
<1>. QED
  BY <1>1, <1>2, PTL DEF Spec

(* A call that returns has converted the whole input: element by element,  *)
(* the loop computes the functions the decoder and the encoder are         *)
(* modelled with, whatever the buffer held.                                *)
THEOREM WholeInput == Spec => []ReturnsConversion
<1>1. Inv /\ PrefixConverted /\ Finished => ReturnsConversion
  <2>. SUFFICES ASSUME Inv, PrefixConverted, Finished, status = "returned"
                PROVE  output = Converted(law, helper, input)
    BY DEF ReturnsConversion
  <2>0. Len(input) * Writes(helper) = Len(output) * Reads(helper)
    BY NoTruncation DEF LengthsAgree
  <2>. DEFINE w == Writes(helper)
  <2>1. /\ Len(input) \in Nat /\ Len(output) \in Nat /\ done \in Nat
        /\ output \in Seq(BufferOf(helper))
    BY DEF Inv, TypeOK
  <2>2. <<law, helper>> \in Calls /\ input \in Seq(InputOf(helper))
    BY DEF Inv, TypeOK
  <2>3. ~(Reads(helper) = 2 /\ Writes(helper) = 2)
    BY DEF Reads, Writes, StoreLoops
  <2>4. done = Zipped(helper, input, output)
    <3>1. Zipped(helper, input, output) \in Nat
      BY <2>1, ZippedBounds
    <3>. QED
      BY <2>1, <3>1 DEF PrefixConverted, Finished
  <2>5. done = Len(input) \div Reads(helper) /\ done * w = Len(output)
    BY <2>0, <2>1, <2>3, <2>4, WholeLoop
  <2>6. \A k \in 1..Len(output) :
           output[k] = Element(law, helper, input, (k + w - 1) \div w)
                          [((k - 1) % w) + 1]
    BY <2>1, <2>5 DEF PrefixConverted
  <2>7. CASE helper \in StoreLoops \cup {"decode_slice_to_le_bytes"}
    <3>1. w = 2 /\ Reads(helper) = 1
      BY <2>7 DEF Writes, Reads, StoreLoops
    <3>2. Len(output) = 2 * Len(input)
      BY <2>1, <2>5, <3>1
    <3>3. \A k \in 1..Len(output) : (k + w - 1) \div w = (k + 1) \div 2
      BY <3>1
    <3>. HIDE DEF w
    <3>4. \A k \in 1..Len(output) :
             output[k] = Element(law, helper, input, (k + 1) \div 2)
                            [((k - 1) % 2) + 1]
      BY <2>6, <3>1, <3>3
    <3>. QED
      BY <2>1, <2>2, <2>7, <3>2, <3>4, PairsConverted
  <2>8. CASE helper \notin StoreLoops \cup {"decode_slice_to_le_bytes"}
    <3>1. w = 1
      BY <2>8 DEF Writes
    <3>2. Len(output) = Len(input) \div Reads(helper)
      BY <2>1, <2>5, <3>1
    <3>3. \A k \in 1..Len(output) : /\ (k + w - 1) \div w = k
                                     /\ ((k - 1) % w) + 1 = 1
      BY <3>1
    <3>. HIDE DEF w
    <3>4. \A k \in 1..Len(output) : output[k] = Element(law, helper, input, k)[1]
      BY <2>6, <3>3
    <3>. QED
      BY <2>1, <2>2, <2>8, <3>2, <3>4, SingleConverted
  <2>. QED
    BY <2>7, <2>8
<1>2. Spec => []Inv
  BY InvInit, InvStep, PTL DEF Spec
<1>. QED
  BY <1>1, <1>2, PrefixCorrect, AlwaysFinished, PTL
=============================================================================
