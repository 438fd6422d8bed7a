----------------------------- MODULE FuzzTargets -----------------------------
(***************************************************************************)
(* The drivers of src/fuzz/fuzz_targets as client programs: for every      *)
(* input, the calls the target makes on the trait surface and the          *)
(* assertions it ends with.  The expected results are computed as the      *)
(* targets do, sample by sample, without any object.                       *)
(*                                                                         *)
(* An input too short for its target is the empty program.                 *)
(***************************************************************************)
EXTENDS ClientCalls

CONSTANT MaxPayload  \* cap on payload bytes, and on samples per channel (4096)

ASSUME PayloadAssumption == MaxPayload \in Nat

From(data, i) == SubSeq(data, i, Len(data))

Capped(bytes, n) == SubSeq(bytes, 1, Smaller(Len(bytes), n))

TrimToMultiple(n, k) == (n \div k) * k

U16FromLe(b1, b2) == b1 + 256 * b2

AtLeastOne(n) == IF n = 0 THEN 1 ELSE n

(* A u32 modulo 192000, a byte at a time so that it fits an integer here.  *)
RateFromLe(b1, b2, b3, b4) ==
    LET high == (65536 * b4 + 256 * b3 + b2) % 192000
    IN  AtLeastOne((256 * high + b1) % 192000)

OtherLaw(law) == IF law = "mulaw" THEN "alaw" ELSE "mulaw"

-----------------------------------------------------------------------------
(* decode_pipeline.rs: both decoders, with an empty packet, a packet that  *)
(* the channel count may not divide, a second packet on a taken slot, and  *)
(* a receive after the flush.                                              *)
DecodePipeline(data) ==
    LET channels == (data[1] % 8) + 1
        payload  == PacketNew(Tail(data))
        Drive(law) ==
            << NewDecoder(law, channels, "return"),
               SendPacketCall(PacketNew(<<>>), "skip"), ReceiveFrameCall("ignore"),
               SendPacketCall(payload, "skip"), ReceiveFrameCall("ignore"),
               SendPacketCall(payload, "ignore"), SendPacketCall(payload, "ignore"),
               ReceiveFrameCall("ignore"),
               FlushDecoderCall, ReceiveFrameCall("ignore"), Drop(NoValue) >>
    IN  IF data = <<>> THEN <<>> ELSE Drive("mulaw") \o Drive("alaw")

-----------------------------------------------------------------------------
(* encode_pipeline.rs: one frame through an encoder and a decoder of the   *)
(* same parameters, compared with the samples taken one by one.            *)
RoundTrip(law, bytes, slots) ==
    [i \in 1..slots |-> DecodeSample(law, EncodeSample(law, SampleAt(bytes, i)))]

(* Mutant: the slots are not cut to whole sample groups.                   *)
EncodeSlotsUntrimmed(bytes, channels) ==
    Smaller(Len(bytes) \div 2, MaxPayload * channels)

EncodeSlots(bytes, channels) ==
    TrimToMultiple(Smaller(Len(bytes) \div 2, MaxPayload * channels), channels)

EncodePipeline(data) ==
    LET channels == (data[1] % 8) + 1
        rate     == RateFromLe(data[2], data[3], data[4], data[5])
        law      == IF data[6] % 2 = 1 THEN "alaw" ELSE "mulaw"
        raw      == From(data, 7)
        slots    == EncodeSlots(raw, channels)
        bytes    == SubSeq(raw, 1, 2 * slots)
    IN  IF Len(data) < 8 THEN <<>>
        ELSE IF slots = 0 THEN <<>>
        ELSE << NewEncoder(law, channels, "S16", rate, "return"),
                NewDecoder(law, channels, "return"),
                SendFrameCall(AudioFrame(slots \div channels, 0, <<bytes>>), "return"),
                ReceivePacketCall("return"),
                AssertPacket(NoValue, slots, NoValue),
                ForwardPacket("return"),
                ReceiveFrameCall("return"),
                AssertFrame(NoValue, channels, slots, RoundTrip(law, bytes, slots)) >>

-----------------------------------------------------------------------------
(* factory_params.rs: one factory with any parameters, and one cycle of    *)
(* calls on what it makes.  The codec id it passes is modelled in          *)
(* G711Registry.                                                           *)
SAMPLE_FORMATS ==
    << NoValue, "U8", "S8", "S16", "S24", "S32", "F32", "F64",
       "U8P", "S16P", "S32P", "F32P", "F64P" >>

DriveDecoder(law, channels, payload) ==
    LET cap == IF channels = 0 THEN Len(payload) ELSE channels * 64
    IN  << NewDecoder(law, channels, "return"),
           SendPacketCall(PacketNew(Capped(payload, cap)), "skip"),
           ReceiveFrameCall("ignore"),
           FlushDecoderCall, ReceiveFrameCall("ignore") >>

DriveEncoder(law, channels, format, rate, payload) ==
    LET even == TrimToMultiple(Len(payload), 2)
    IN  << NewEncoder(law, channels, format, rate, "return"),
           SendFrameCall(AudioFrame(even \div 2, 0, <<Capped(payload, even)>>), "skip"),
           ReceivePacketCall("repeat"),
           FlushEncoderCall >>

FactoryParams(data) ==
    LET variant  == data[1] % 4
        law      == IF variant < 2 THEN "mulaw" ELSE "alaw"
        channels == U16FromLe(data[2], data[3])
        format   == SAMPLE_FORMATS[(data[4] % 13) + 1]
        rate     == U16FromLe(data[5], data[6]) + 65536 * U16FromLe(data[7], data[8])
        payload  == Capped(From(data, 9), MaxPayload)
    IN  IF Len(data) < 8 THEN <<>>
        ELSE IF variant % 2 = 0
        THEN DriveDecoder(law, channels, payload)
        ELSE DriveEncoder(law, channels, format, rate, payload)

-----------------------------------------------------------------------------
(* cross_law_transcode.rs: a gateway decodes one law and encodes the       *)
(* other, and on request goes back through a second pair.                  *)
Transcode(from, to, bytes) ==
    [i \in 1..Len(bytes) |-> EncodeSample(to, DecodeSample(from, bytes[i]))]

(* One direction, the packet to transcode at hand.                         *)
TranscodeCalls(from, to, channels, rate, send, expected) ==
    << NewDecoder(from, channels, "return"),
       NewEncoder(to, channels, "S16", rate, "return"),
       send, ReceiveFrameCall("return"),
       AssertFrame(NoValue, NoValue, Len(expected), NoValue),
       Reframe("return"), ReceivePacketCall("return"),
       AssertPacket(NoValue, Len(expected), expected) >>

(* One trip, and on request the way back, a session of its own.  The code  *)
(* keeps the first pair until it ends but makes no further call on it; the *)
(* one decoder and one encoder here stand for either pair in turn.         *)
Trips(near, far, channels, rate, reverse, payload) ==
    LET there == Transcode(near, far, payload)
        back  == <<Drop(NoValue)>>
                 \o TranscodeCalls(far, near, channels, rate,
                                   ForwardPacket("return"),
                                   Transcode(far, near, there))
    IN  TranscodeCalls(near, far, channels, rate,
                       SendPacketCall(PacketNew(payload), "return"), there)
        \o (IF reverse THEN back ELSE <<>>)

Gateway(data) ==
    LET near     == IF BitSet(data[1], 1) THEN "alaw" ELSE "mulaw"
        channels == ((data[1] \div 4) % 8) + 1
        rate     == AtLeastOne(U16FromLe(data[2], data[3]) % 192000)
        capped   == Capped(From(data, 4), MaxPayload)
        payload  == Capped(capped, TrimToMultiple(Len(capped), channels))
    IN  IF Len(data) < 3 THEN <<>>
        ELSE IF payload = <<>> THEN <<>>
        ELSE Trips(near, OtherLaw(near), channels, rate, BitSet(data[1], 2),
                   payload)

-----------------------------------------------------------------------------
(* streaming_pipeline.rs: a session of up to eight frames through one      *)
(* encoder, drained after each frame or all at once after the flush, then  *)
(* one packet at a time through a decoder, which in some sessions is       *)
(* flushed and replaced after every other packet.                          *)
MAX_FRAMES == 8

(* The input is carved into frames: a length byte, then the bytes of that  *)
(* many samples per channel, or of as many whole sample groups as there    *)
(* are left.  A length of zero is passed over; no whole group ends it.     *)
NextFrame(data, channels, state) ==
    LET marker == data[state.cursor]
        start  == state.cursor + 1
        take   == TrimToMultiple(
                      Smaller(2 * marker * channels, Len(data) - state.cursor),
                      2 * channels)
        samples == take \div (2 * channels)
    IN  IF state.stopped \/ state.cursor > Len(data)
        THEN state
        ELSE IF marker = 0 THEN [state EXCEPT !.cursor = start]
        ELSE IF take = 0   THEN [state EXCEPT !.stopped = TRUE]
        ELSE [state EXCEPT
                !.cursor  = start + take,
                !.pts     = @ + samples,
                !.frames  = Append(@, AudioFrame(samples, state.pts,
                                <<SubSeq(data, start, start + take - 1)>>))]

Carve(data, channels, frame_count) ==
    FoldLeft(LAMBDA state, n : NextFrame(data, channels, state),
             [cursor |-> 8, pts |-> 0, frames |-> <<>>, stopped |-> FALSE],
             [n \in 1..frame_count |-> n]).frames

(* A packet is fetched, compared with its frame and put aside.             *)
Collect(frame) ==
    << ReceivePacketCall("return"),
       AssertPacket(frame.pts, Len(frame.data[1]) \div 2, NoValue), Keep >>

Produce(frames, eager) ==
    IF eager
    THEN FlattenSeq([i \in DOMAIN frames |->
             <<SendFrameCall(frames[i], "return")>> \o Collect(frames[i])])
         \o <<FlushEncoderCall>>
    ELSE [i \in DOMAIN frames |-> SendFrameCall(frames[i], "return")]
         \o <<FlushEncoderCall>>
         \o FlattenSeq([i \in DOMAIN frames |-> Collect(frames[i])])
         \o <<ReceivePacketCall("need_more")>>

Consume(law, channels, frames, flush) ==
    LET Packet(i) ==
            LET bytes == frames[i].data[1]
                slots == Len(bytes) \div 2
            IN  << SendKept(i, frames[i].pts, "return"), ReceiveFrameCall("return"),
                   AssertFrame(frames[i].pts, NoValue, slots,
                               RoundTrip(law, bytes, slots)) >>
        Replacement ==
            << FlushDecoderCall, ReceiveFrameCall("eof"),
               DropDecoder, NewDecoder(law, channels, "return") >>
    IN  FlattenSeq([i \in DOMAIN frames |->
            Packet(i) \o (IF flush /\ i % 2 = 0 THEN Replacement ELSE <<>>)])

StreamingPipeline(data) ==
    LET law      == IF data[1] % 2 = 1 THEN "alaw" ELSE "mulaw"
        channels == (data[2] % 8) + 1
        rate     == AtLeastOne(U16FromLe(data[3], data[4]) % 192000)
        frames   == Carve(data, channels, (data[5] % MAX_FRAMES) + 1)
    IN  IF Len(data) < 8 THEN <<>>
        ELSE IF frames = <<>> THEN <<>>
        ELSE << NewEncoder(law, channels, "S16", rate, "return"),
                NewDecoder(law, channels, "return") >>
             \o Produce(frames, data[6] % 2 = 1)
             \o Consume(law, channels, frames, data[7] % 2 = 1)
             \o << ReceiveFrameCall("need_more"), FlushDecoderCall,
                   ReceiveFrameCall("eof") >>
=============================================================================
