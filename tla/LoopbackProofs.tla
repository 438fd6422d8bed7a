---------------------------- MODULE LoopbackProofs ----------------------------
(***************************************************************************)
(* Theorems about the stream from an encoder through a client to a         *)
(* decoder, for every set of frames, every channel option, any number of   *)
(* frames and every interleaving of the client's calls: nothing is lost,   *)
(* duplicated or reordered on the way, what comes out is faithful to what  *)
(* went in, and a finished stream is complete.                             *)
(***************************************************************************)
EXTENDS Loopback, CompandingProofs

(* The payload of the packet that a frame becomes.                         *)
PayloadOf(l, frame) ==
    [pts |-> frame.pts, data |-> EncodeSliceFromLeBytes(l, frame.data[1])]

(* Before the factory has made an encoder nothing has been sent.           *)
EncoderFresh ==
    ~eMade => eAccepted = <<>> /\ eQueue = <<>> /\ held = NoValue

(* The decoder is made after the encoder and with its parameters.          *)
DecoderFollows ==
    /\ dMade => eMade /\ dLaw = eLaw /\ dChannels = eOutput.channels
    /\ ~dMade => dPending = NoValue /\ dAccepted = <<>> /\ dResolved = <<>>

(* The encoder has accepted only frames that it could encode.              *)
OnlyEncodable ==
    \A i \in 1..Len(eAccepted) : Enc!Encodable(eAccepted[i])

(* The client ends the stream after the last packet has left its hand, and *)
(* has seen Eof only from an empty decoder.                                *)
Closing ==
    /\ phase \in {"ending", "draining", "finished"} =>
          eQueue = <<>> /\ held = NoValue
    /\ phase = "finished" => dPending = NoValue
    /\ dReply.status = "eof" => dPending = NoValue

(* The inductive invariant.                                                *)
Inv ==
    /\ TypeOK
    /\ EncoderFresh /\ DecoderFollows /\ OnlyEncodable /\ Closing
    /\ Dec!AnsweredInOrder
    /\ NothingLostInTransit

-----------------------------------------------------------------------------
(* Each end brings its own copy of G711Tables; the copies are the same.    *)

LEMMA SameTypes ==
    /\ Enc!Byte = Byte /\ Enc!Laws = Laws
    /\ Dec!Byte = Byte /\ Dec!Laws = Laws
BY DEF Byte, Laws, Enc!Byte, Enc!Laws, Dec!Byte, Dec!Laws

LEMMA SameParts ==
    ASSUME NEW x, NEW m
    PROVE  /\ Enc!BitSet(x, m) = BitSet(x, m) /\ Enc!FlipBit(x, m) = FlipBit(x, m)
           /\ Enc!Pow2(x) = Pow2(x)
           /\ Enc!Complement(x) = Complement(x)
           /\ Enc!MantissaOf(x) = MantissaOf(x)
           /\ Dec!BitSet(x, m) = BitSet(x, m) /\ Dec!FlipBit(x, m) = FlipBit(x, m)
           /\ Dec!Pow2(x) = Pow2(x)
           /\ Dec!Complement(x) = Complement(x)
           /\ Dec!MantissaOf(x) = MantissaOf(x)
           /\ Dec!SegmentOf(x) = SegmentOf(x)
BY DEF BitSet, FlipBit, Pow2, PowersOfTwo, Complement, MantissaOf, SegmentOf,
       Enc!BitSet, Enc!FlipBit, Enc!Pow2, Enc!PowersOfTwo, Enc!Complement,
       Enc!MantissaOf, Dec!BitSet, Dec!FlipBit, Dec!Pow2, Dec!PowersOfTwo,
       Dec!Complement, Dec!MantissaOf, Dec!SegmentOf

LEMMA SameXor ==
    ASSUME NEW b
    PROVE  Enc!AlawXor(b) = AlawXor(b) /\ Dec!AlawXor(b) = AlawXor(b)
<1>1. \A y, m : Enc!FlipBit(y, m) = FlipBit(y, m) /\ Dec!FlipBit(y, m) = FlipBit(y, m)
  BY SameParts
<1>. QED
  BY <1>1, SMT DEF AlawXor, Enc!AlawXor, Dec!AlawXor

LEMMA SameSegments ==
    ASSUME NEW mag
    PROVE  /\ Enc!MulawSegment(mag) = MulawSegment(mag)
           /\ Enc!AlawSegment(mag) = AlawSegment(mag)
BY DEF MulawSegment, AlawSegment, BitSet, Pow2, PowersOfTwo,
       Enc!MulawSegment, Enc!AlawSegment, Enc!BitSet, Enc!Pow2, Enc!PowersOfTwo

LEMMA SameMagnitudes ==
    ASSUME NEW x
    PROVE  /\ Enc!MulawBiased(x) = MulawBiased(x)
           /\ Enc!AlawClamped(x) = AlawClamped(x)
           /\ Enc!AlawShift(x) = AlawShift(x)
BY DEF MulawBiased, AlawClamped, AlawShift, MULAW_BIAS, Magnitude, ClampTo,
       Enc!MulawBiased, Enc!AlawClamped, Enc!AlawShift, Enc!MULAW_BIAS,
       Enc!Magnitude, Enc!ClampTo

LEMMA SamePacks ==
    ASSUME NEW x, NEW seg, NEW mag
    PROVE  /\ Enc!MulawPack(x, seg, mag) = MulawPack(x, seg, mag)
           /\ Enc!AlawPack(x, seg, mag) = AlawPack(x, seg, mag)
<1>1. Enc!MulawPack(x, seg, mag) = MulawPack(x, seg, mag)
  BY SameParts, Zenon DEF MulawPack, Enc!MulawPack
<1>2. Enc!AlawPack(x, seg, mag) = AlawPack(x, seg, mag)
  BY SameParts, SameXor, SameMagnitudes, Zenon DEF AlawPack, Enc!AlawPack
<1>. QED
  BY <1>1, <1>2

LEMMA SameEncodings ==
    ASSUME NEW x
    PROVE  /\ Enc!MulawEncodeArith(x) = MulawEncodeArith(x)
           /\ Enc!AlawEncodeArith(x) = AlawEncodeArith(x)
BY SameSegments, SameMagnitudes, SamePacks, Zenon
   DEF MulawEncodeArith, AlawEncodeArith,
       Enc!MulawEncodeArith, Enc!AlawEncodeArith

LEMMA SameEncodedSlices ==
    ASSUME NEW l, NEW plane
    PROVE  Enc!EncodeSliceFromLeBytes(l, plane) = EncodeSliceFromLeBytes(l, plane)
<1>1. /\ Enc!U16 = U16
      /\ \A i : Enc!AsI16(i) = AsI16(i)
  BY DEF U16, AsI16, Enc!U16, Enc!AsI16
<1>2. /\ Enc!MULAW_ENCODE = MULAW_ENCODE
      /\ Enc!ALAW_ENCODE = ALAW_ENCODE
  BY <1>1, SameEncodings, Zenon
     DEF MULAW_ENCODE, ALAW_ENCODE, Enc!MULAW_ENCODE, Enc!ALAW_ENCODE
<1>. QED
  BY <1>2
     DEF EncodeSliceFromLeBytes, MulawEncodeSliceFromLeBytes,
         AlawEncodeSliceFromLeBytes, MulawEncodeSample, AlawEncodeSample,
         SampleAt, FromLeBytes, AsI16, AsU16,
         Enc!EncodeSliceFromLeBytes, Enc!MulawEncodeSliceFromLeBytes,
         Enc!AlawEncodeSliceFromLeBytes, Enc!MulawEncodeSample,
         Enc!AlawEncodeSample, Enc!SampleAt, Enc!FromLeBytes, Enc!AsI16, Enc!AsU16

LEMMA SameDecodings ==
    ASSUME NEW b
    PROVE  /\ Dec!MulawDecode(b) = MulawDecode(b)
           /\ Dec!AlawDecode(b) = AlawDecode(b)
<1>1. /\ \A n : Dec!Pow2(n) = Pow2(n)
      /\ \A x : Dec!SegmentOf(x) = SegmentOf(x) /\ Dec!MantissaOf(x) = MantissaOf(x)
      /\ \A x, m : Dec!BitSet(x, m) = BitSet(x, m)
      /\ \A x : Dec!Complement(x) = Complement(x)
      /\ Dec!MULAW_BIAS = MULAW_BIAS
  BY DEF Pow2, PowersOfTwo, SegmentOf, MantissaOf, BitSet, Complement, MULAW_BIAS,
         Dec!Pow2, Dec!PowersOfTwo, Dec!SegmentOf, Dec!MantissaOf, Dec!BitSet,
         Dec!Complement, Dec!MULAW_BIAS
<1>2. \A x, m : Dec!FlipBit(x, m) = FlipBit(x, m)
  BY <1>1 DEF FlipBit, Dec!FlipBit
<1>3. Dec!AlawXor(b) = AlawXor(b)
  BY <1>2, Zenon DEF AlawXor, Dec!AlawXor
<1>4. Dec!MulawDecode(b) = MulawDecode(b)
  BY <1>1, Zenon DEF MulawDecode, Dec!MulawDecode
<1>5. Dec!AlawDecode(b) = AlawDecode(b)
  BY <1>1, <1>3 DEF AlawDecode, Dec!AlawDecode
<1>. QED
  BY <1>4, <1>5

LEMMA SameDecodedSlices ==
    ASSUME NEW l, NEW input
    PROVE  Dec!DecodeSliceToLeBytes(l, input) = DecodeSliceToLeBytes(l, input)
<1>1. /\ Dec!MULAW_DECODE = MULAW_DECODE
      /\ Dec!ALAW_DECODE = ALAW_DECODE
  BY SameDecodings, SameTypes
     DEF MULAW_DECODE, ALAW_DECODE, Dec!MULAW_DECODE, Dec!ALAW_DECODE
<1>2. /\ Dec!MULAW_DECODE_LE = MULAW_DECODE_LE
      /\ Dec!ALAW_DECODE_LE = ALAW_DECODE_LE
  BY <1>1, SameTypes
     DEF MULAW_DECODE_LE, ALAW_DECODE_LE, ToLeBytes, AsU16,
         Dec!MULAW_DECODE_LE, Dec!ALAW_DECODE_LE, Dec!ToLeBytes, Dec!AsU16
<1>. QED
  BY <1>2
     DEF DecodeSliceToLeBytes, MulawDecodeSliceToLeBytes,
         AlawDecodeSliceToLeBytes, CopyPairs,
         Dec!DecodeSliceToLeBytes, Dec!MulawDecodeSliceToLeBytes,
         Dec!AlawDecodeSliceToLeBytes, Dec!CopyPairs

-----------------------------------------------------------------------------
(* Frames and packets.                                                     *)

LEMMA FrameParts ==
    ASSUME NEW frame \in Frames, Enc!Encodable(frame)
    PROVE  /\ frame.pts \in Timestamps /\ frame.samples \in Nat
           /\ frame.data[1] \in Seq(Byte)
           /\ Len(frame.data[1]) \in Nat /\ Len(frame.data[1]) % 2 = 0
<1>1. /\ frame.pts \in Timestamps /\ frame.samples \in Nat
      /\ frame.data \in Seq(Seq(Byte))
  BY StreamAssumption
<1>2. frame.data # <<>> /\ Len(frame.data[1]) % 2 = 0
  BY DEF Enc!Encodable
<1>3. 1 \in 1..Len(frame.data)
  BY <1>1, <1>2
<1>4. frame.data[1] \in Seq(Byte)
  BY <1>1, <1>3
<1>5. Len(frame.data[1]) \in Nat
  BY <1>4
<1>. QED
  BY <1>1, <1>2, <1>4, <1>5

(* An accepted frame becomes a well-formed packet, whose payload is one    *)
(* that a client may send to the decoder.                                  *)
LEMMA PacketOfFrame ==
    ASSUME NEW l \in Laws, NEW tb \in Enc!TimeBases, NEW frame \in Frames,
           Enc!Encodable(frame)
    PROVE  /\ Enc!EncodedPacket(l, tb, frame) \in Enc!PacketType
           /\ Payload(Enc!EncodedPacket(l, tb, frame)) = PayloadOf(l, frame)
           /\ PayloadOf(l, frame) \in Payloads
<1>1. EncodeSliceFromLeBytes(l, frame.data[1]) \in Seq(Byte)
  BY FrameParts, EncodeSliceType
<1>2. Enc!EncodedPacket(l, tb, frame) \in Enc!PacketType
  BY <1>1, FrameParts, SameTypes, SameEncodedSlices
     DEF Enc!EncodedPacket, Enc!PacketType
<1>3. PayloadOf(l, frame) \in Payloads
  BY DEF PayloadOf, Payloads
<1>. QED
  BY <1>2, <1>3, SameEncodedSlices DEF Payload, PayloadOf, Enc!EncodedPacket

(* What the decoder is sent has a timestamp and bytes.                     *)
LEMMA PayloadParts ==
    ASSUME NEW packet \in Payloads
    PROVE  /\ packet # NoValue
           /\ packet.pts \in Timestamps
           /\ packet.data \in Seq(Byte)
<1>1. PICK l \in Laws, f \in {frame \in Frames : Enc!Encodable(frame)} :
        packet = [pts |-> f.pts, data |-> EncodeSliceFromLeBytes(l, f.data[1])]
  BY DEF Payloads
<1>2. packet.pts = f.pts /\ packet.data = EncodeSliceFromLeBytes(l, f.data[1])
  BY <1>1
<1>3. f.pts \in Timestamps /\ f.data[1] \in Seq(Byte)
  BY FrameParts
<1>4. EncodeSliceFromLeBytes(l, f.data[1]) \in Seq(Byte)
  BY <1>3, EncodeSliceType
<1>. QED
  BY <1>2, <1>3, <1>4, StreamAssumption

-----------------------------------------------------------------------------
(* The order of the stream, as a relation between what was sent, what is   *)
(* in transit and what has arrived.                                        *)
InOrder(l, sent, transit, arrived) ==
    /\ Len(sent) = Len(arrived) + Len(transit)
    /\ \A i \in 1..Len(arrived) : arrived[i] = PayloadOf(l, sent[i])
    /\ \A i \in 1..Len(transit) :
          Payload(transit[i]) = PayloadOf(l, sent[Len(arrived) + i])

LEMMA OrderIs ==
    /\ NothingLostInTransit <=> InOrder(eLaw, eAccepted, Transit, dAccepted)
    /\ NothingLostInTransit' <=> InOrder(eLaw', eAccepted', Transit', dAccepted')
<1>1. ASSUME NEW l, NEW tb, NEW frame
      PROVE  Payload(Enc!EncodedPacket(l, tb, frame)) = PayloadOf(l, frame)
  BY SameEncodedSlices DEF Payload, PayloadOf, Enc!EncodedPacket
<1>2. NothingLostInTransit <=> InOrder(eLaw, eAccepted, Transit, dAccepted)
  BY <1>1 DEF NothingLostInTransit, InOrder, Encoded
<1>3. NothingLostInTransit' <=> InOrder(eLaw', eAccepted', Transit', dAccepted')
  BY <1>1 DEF NothingLostInTransit, InOrder, Encoded
<1>. QED
  BY <1>2, <1>3

(* A frame is sent: its packet joins the end of what is in transit.        *)
LEMMA SentInOrder ==
    ASSUME NEW F, NEW P, NEW D, NEW l,
           NEW sent \in Seq(F), NEW transit \in Seq(P), NEW arrived \in Seq(D),
           NEW frame \in F, NEW packet \in P,
           Payload(packet) = PayloadOf(l, frame),
           InOrder(l, sent, transit, arrived)
    PROVE  InOrder(l, Append(sent, frame), Append(transit, packet), arrived)
<1>. DEFINE s == Append(sent, frame)
            t == Append(transit, packet)
<1>1. /\ Len(sent) \in Nat /\ Len(transit) \in Nat /\ Len(arrived) \in Nat
      /\ Len(sent) = Len(arrived) + Len(transit)
  BY DEF InOrder
<1>2. /\ Len(s) = Len(sent) + 1 /\ s[Len(sent) + 1] = frame
      /\ \A i \in 1..Len(sent) : s[i] = sent[i]
  OBVIOUS
<1>3. /\ Len(t) = Len(transit) + 1 /\ t[Len(transit) + 1] = packet
      /\ \A i \in 1..Len(transit) : t[i] = transit[i]
  OBVIOUS
<1>. HIDE DEF s, t
<1>4. ASSUME NEW i \in 1..Len(arrived)
      PROVE  arrived[i] = PayloadOf(l, s[i])
  <2>1. i \in 1..Len(sent)
    BY <1>1
  <2>. QED
    BY <1>2, <2>1 DEF InOrder
<1>5. ASSUME NEW i \in 1..Len(t)
      PROVE  Payload(t[i]) = PayloadOf(l, s[Len(arrived) + i])
  <2>1. CASE i \in 1..Len(transit)
    <3>1. Len(arrived) + i \in 1..Len(sent)
      BY <1>1, <2>1
    <3>. QED
      BY <1>2, <1>3, <2>1, <3>1 DEF InOrder
  <2>2. CASE i = Len(transit) + 1
    <3>1. Len(arrived) + i = Len(sent) + 1
      BY <1>1, <2>2
    <3>. QED
      BY <1>2, <1>3, <2>2, <3>1
  <2>. QED
    BY <1>1, <1>3, <2>1, <2>2
<1>6. Len(s) = Len(arrived) + Len(t)
  BY <1>1, <1>2, <1>3
<1>. QED
  BY <1>4, <1>5, <1>6 DEF InOrder, s, t

(* A packet arrives: it was the first in transit.                          *)
LEMMA ArrivedInOrder ==
    ASSUME NEW F, NEW P, NEW D, NEW l,
           NEW sent \in Seq(F), NEW transit \in Seq(P), NEW arrived \in Seq(D),
           transit # <<>>, Payload(Head(transit)) \in D,
           InOrder(l, sent, transit, arrived)
    PROVE  InOrder(l, sent, Tail(transit),
                   Append(arrived, Payload(Head(transit))))
<1>. DEFINE t == Tail(transit)
            h == Payload(Head(transit))
            a == Append(arrived, h)
<1>1. /\ Len(transit) \in Nat /\ Len(transit) > 0 /\ Len(arrived) \in Nat
      /\ Len(sent) \in Nat /\ Len(sent) = Len(arrived) + Len(transit)
  BY DEF InOrder
<1>2. /\ Len(t) = Len(transit) - 1
      /\ \A i \in 1..Len(t) : t[i] = transit[i + 1]
  BY <1>1
<1>3. h = PayloadOf(l, sent[Len(arrived) + 1])
  <2>1. Head(transit) = transit[1] /\ 1 \in 1..Len(transit)
    BY <1>1
  <2>. QED
    BY <2>1 DEF InOrder
<1>4. /\ Len(a) = Len(arrived) + 1 /\ a[Len(arrived) + 1] = h
      /\ \A i \in 1..Len(arrived) : a[i] = arrived[i]
  <2>. HIDE DEF h
  <2>1. h \in D
    BY DEF h
  <2>. QED
    BY <2>1
<1>. HIDE DEF t, a, h
<1>5. ASSUME NEW i \in 1..Len(a)
      PROVE  a[i] = PayloadOf(l, sent[i])
  <2>1. CASE i \in 1..Len(arrived)
    BY <1>4, <2>1 DEF InOrder
  <2>2. CASE i = Len(arrived) + 1
    BY <1>3, <1>4, <2>2
  <2>. QED
    BY <1>1, <1>4, <2>1, <2>2
<1>6. ASSUME NEW i \in 1..Len(t)
      PROVE  Payload(t[i]) = PayloadOf(l, sent[Len(a) + i])
  <2>1. i + 1 \in 1..Len(transit) /\ Len(arrived) + (i + 1) = Len(a) + i
    BY <1>1, <1>2, <1>4
  <2>2. Payload(transit[i + 1]) = PayloadOf(l, sent[Len(arrived) + (i + 1)])
    BY <2>1 DEF InOrder
  <2>. QED
    BY <1>2, <2>1, <2>2
<1>7. Len(sent) = Len(a) + Len(t)
  BY <1>1, <1>2, <1>4
<1>. QED
  BY <1>5, <1>6, <1>7 DEF InOrder, t, a, h

(* A packet in the hand comes before a queue of packets.                   *)
LEMMA HandFirst ==
    ASSUME NEW P, NEW h \in P, NEW q \in Seq(P)
    PROVE  /\ <<h>> \o q \in Seq(P) /\ <<h>> \o q # <<>>
           /\ Head(<<h>> \o q) = h
           /\ Tail(<<h>> \o q) = q
           /\ \A p \in P : <<h>> \o Append(q, p) = Append(<<h>> \o q, p)
<1>1. /\ <<h>> \in Seq(P) /\ Len(<<h>>) = 1 /\ <<h>>[1] = h
      /\ Len(q) \in Nat
  OBVIOUS
<1>2. /\ <<h>> \o q \in Seq(P) /\ Len(<<h>> \o q) = Len(q) + 1
      /\ (<<h>> \o q)[1] = h
      /\ \A i \in 1..Len(q) : (<<h>> \o q)[i + 1] = q[i]
  BY <1>1
<1>3. Tail(<<h>> \o q) = q
  BY <1>1, <1>2
<1>4. ASSUME NEW p \in P
      PROVE  <<h>> \o Append(q, p) = Append(<<h>> \o q, p)
  BY <1>1, <1>2
<1>. QED
  BY <1>2, <1>3, <1>4

-----------------------------------------------------------------------------
(* The steps of each end.                                                  *)

EncoderStep ==
    \/ \E l \in Laws, option \in ChannelOptions :
          Enc!MakeEncoder(l, option, NoValue, NoValue)
    \/ \E frame \in Frames : Enc!SendFrame(frame)
    \/ Enc!ReceivePacket
    \/ Enc!Flush
    \/ UNCHANGED encoder

DecoderStep ==
    \/ Dec!MakeDecoder(eLaw, eOutput.channels)
    \/ \E packet \in Payloads : Dec!SendPacket(packet)
    \/ Dec!ReceiveFrame
    \/ Dec!Flush
    \/ RebuildDecoder
    \/ UNCHANGED decoder

LEMMA StatusTypes ==
    /\ \A s \in Enc!Statuses : Enc!Status(s) \in Enc!Replies
    /\ \A s \in Dec!Statuses : Dec!Status(s) \in Dec!Replies
BY DEF Enc!Status, Enc!Replies, Dec!Status, Dec!Replies

(* The encoder keeps its types.                                            *)
LEMMA EncoderTyped == Enc!TypeOK /\ EncoderStep => Enc!TypeOK'
<1>. SUFFICES ASSUME Enc!TypeOK, EncoderStep
              PROVE  Enc!TypeOK'
  OBVIOUS
<1>1. ASSUME NEW l \in Laws, NEW option \in ChannelOptions,
             Enc!MakeEncoder(l, option, NoValue, NoValue)
      PROVE  Enc!TypeOK'
  <2>1. /\ Enc!UnwrapOr(option, 1) \in Nat
        /\ Enc!UnwrapOr(NoValue, Enc!DefaultRate) = 8000
        /\ Enc!UnwrapOr(NoValue, "S16") = "S16"
    BY StreamAssumption DEF Enc!UnwrapOr, Enc!DefaultRate
  <2>2. UNCHANGED <<eQueue, eAccepted, eReceived>>
    BY <1>1 DEF Enc!MakeEncoder
  <2>3. CASE Enc!UnwrapOr(option, 1) = 0
    <3>1. eReply' = Enc!Status("unsupported")
          /\ UNCHANGED <<eMade, eLaw, eOutput, eTimeBase>>
      BY <1>1, <2>3 DEF Enc!MakeEncoder
    <3>2. eReply' \in Enc!Replies
      BY <3>1, StatusTypes DEF Enc!Statuses
    <3>. QED
      BY <2>2, <3>1, <3>2 DEF Enc!TypeOK
  <2>4. CASE Enc!UnwrapOr(option, 1) # 0
    <3>1. /\ eReply' = Enc!Status("created") /\ eMade' = TRUE /\ eLaw' = l
          /\ eOutput' = [channels |-> Enc!UnwrapOr(option, 1),
                         sample_format |-> "S16", sample_rate |-> 8000]
          /\ eTimeBase' = <<1, 8000>>
      BY <1>1, <2>1, <2>4 DEF Enc!MakeEncoder
    <3>2. eReply' \in Enc!Replies
      BY <3>1, StatusTypes DEF Enc!Statuses
    <3>3. eOutput' \in [channels : Nat \ {0}, sample_format : {"S16"},
                        sample_rate : Nat]
      BY <2>1, <2>4, <3>1
    <3>4. eTimeBase' \in Enc!TimeBases
      BY <3>1 DEF Enc!TimeBases
    <3>5. eMade' \in BOOLEAN /\ eLaw' \in Enc!Laws
      BY <3>1, SameTypes
    <3>. QED
      BY <2>2, <3>2, <3>3, <3>4, <3>5 DEF Enc!TypeOK
  <2>. QED
    BY <2>3, <2>4
<1>2. ASSUME NEW frame \in Frames, Enc!SendFrame(frame)
      PROVE  Enc!TypeOK'
  <2>. DEFINE packet == Enc!EncodedPacket(eLaw, eTimeBase, frame)
  <2>1. UNCHANGED <<eMade, eLaw, eOutput, eTimeBase, eReceived>>
    BY <1>2 DEF Enc!SendFrame
  <2>2. eReply' \in Enc!Replies
    BY <1>2, StatusTypes DEF Enc!SendFrame, Enc!Statuses
  <2>3. CASE Enc!Encodable(frame)
    <3>1. eQueue' = Append(eQueue, packet) /\ eAccepted' = Append(eAccepted, frame)
      BY <1>2, <2>3 DEF Enc!SendFrame
    <3>2. packet \in Enc!PacketType
      BY <2>3, PacketOfFrame, SameTypes DEF Enc!TypeOK
    <3>. HIDE DEF packet
    <3>3. eQueue' \in Seq(Enc!PacketType) /\ eAccepted' \in Seq(Frames)
      BY <3>1, <3>2 DEF Enc!TypeOK
    <3>. QED
      BY <2>1, <2>2, <3>3 DEF Enc!TypeOK
  <2>4. CASE ~Enc!Encodable(frame)
    <3>1. UNCHANGED <<eQueue, eAccepted>>
      BY <1>2, <2>4 DEF Enc!SendFrame
    <3>. QED
      BY <2>1, <2>2, <3>1 DEF Enc!TypeOK
  <2>. QED
    BY <2>3, <2>4
<1>3. CASE Enc!ReceiveQueued
  <2>1. /\ eQueue # <<>> /\ eQueue' = Tail(eQueue)
        /\ eReply' = Enc!PacketReply(Head(eQueue))
        /\ eReceived' = Append(eReceived, Head(eQueue))
        /\ UNCHANGED <<eMade, eLaw, eOutput, eTimeBase, eAccepted>>
    BY <1>3 DEF Enc!ReceiveQueued
  <2>2. Head(eQueue) \in Enc!PacketType /\ eQueue' \in Seq(Enc!PacketType)
    BY <2>1 DEF Enc!TypeOK
  <2>3. eReply' \in Enc!Replies
    BY <2>1, <2>2 DEF Enc!PacketReply, Enc!Replies
  <2>4. eReceived' \in Seq(Enc!PacketType)
    BY <2>1, <2>2 DEF Enc!TypeOK
  <2>. QED
    BY <2>1, <2>2, <2>3, <2>4 DEF Enc!TypeOK
<1>4. CASE Enc!ReceiveNothing \/ Enc!Flush
  <2>1. eReply' \in Enc!Replies
    BY <1>4, StatusTypes DEF Enc!ReceiveNothing, Enc!Flush, Enc!Statuses
  <2>. QED
    BY <1>4, <2>1 DEF Enc!ReceiveNothing, Enc!Flush, Enc!TypeOK
<1>5. CASE UNCHANGED encoder
  BY <1>5 DEF encoder, Enc!TypeOK
<1>. QED
  BY <1>1, <1>2, <1>3, <1>4, <1>5 DEF EncoderStep, Enc!ReceivePacket

(* The answer to any payload is a reply, a frame or an error.              *)
LEMMA AnswerType ==
    ASSUME NEW l \in Laws, NEW ch \in Nat \ {0}, NEW packet \in Payloads
    PROVE  /\ Dec!Outcome(l, ch, packet) \in Dec!Replies
           /\ Dec!Outcome(l, ch, packet).status \in {"frame", "invalid"}
<1>1. packet.pts \in Timestamps /\ packet.data \in Seq(Byte)
  BY PayloadParts
<1>2. Len(packet.data) \in Nat
  BY <1>1
<1>3. ASSUME NEW n \in Nat, NEW plane \in Seq(Byte)
      PROVE  /\ Dec!FrameReply(n, packet.pts, plane) \in Dec!Replies
             /\ Dec!FrameReply(n, packet.pts, plane).status = "frame"
  <2>1. <<plane>> \in Seq(Seq(Dec!Byte))
    BY SameTypes
  <2>. QED
    BY <1>1, <2>1 DEF Dec!FrameReply, Dec!Replies, Dec!AudioFrames
<1>4. CASE Len(packet.data) = 0
  <2>1. <<>> \in Seq(Byte) /\ 0 \in Nat
    OBVIOUS
  <2>2. Dec!Outcome(l, ch, packet) = Dec!FrameReply(0, packet.pts, <<>>)
    BY <1>4 DEF Dec!Outcome
  <2>. QED
    BY <1>3, <2>1, <2>2
<1>5. CASE Len(packet.data) # 0 /\ Len(packet.data) % ch # 0
  BY <1>5 DEF Dec!Outcome, Dec!Status, Dec!Replies, Dec!Statuses
<1>6. CASE Len(packet.data) # 0 /\ Len(packet.data) % ch = 0
  <2>1. Len(packet.data) \div ch \in Nat
    BY <1>2, DivModNat
  <2>2. (Len(packet.data) \div ch) % U32Modulus \in Nat
    BY <2>1, DivModNat, StreamAssumption
  <2>3. Dec!DecodeSliceToLeBytes(l, packet.data) \in Seq(Byte)
    BY <1>1, DecodeSliceType, SameDecodedSlices
  <2>. QED
    BY <1>3, <1>6, <2>2, <2>3 DEF Dec!Outcome
<1>. QED
  BY <1>4, <1>5, <1>6

(* The decoder keeps its types; it is made from the parameters of an       *)
(* encoder that keeps its own.                                             *)
LEMMA DecoderTyped == Enc!TypeOK /\ Dec!TypeOK /\ DecoderStep => Dec!TypeOK'
<1>. SUFFICES ASSUME Enc!TypeOK, Dec!TypeOK, DecoderStep
              PROVE  Dec!TypeOK'
  OBVIOUS
<1>1. CASE Dec!MakeDecoder(eLaw, eOutput.channels)
  <2>1. eOutput.channels \in Nat \ {0} /\ eLaw \in Dec!Laws
    BY SameTypes DEF Enc!TypeOK
  <2>2. Dec!UnwrapOr(eOutput.channels, 1) = eOutput.channels
    BY <2>1, StreamAssumption DEF Dec!UnwrapOr
  <2>3. /\ dReply' = Dec!Status("created")
        /\ dMade' = TRUE /\ dLaw' = eLaw /\ dChannels' = eOutput.channels
        /\ UNCHANGED <<dPending, dEof, dAccepted, dResolved>>
    BY <1>1, <2>1, <2>2 DEF Dec!MakeDecoder
  <2>4. dReply' \in Dec!Replies
    BY <2>3, StatusTypes DEF Dec!Statuses
  <2>. QED
    BY <2>1, <2>3, <2>4 DEF Dec!TypeOK
<1>2. ASSUME NEW packet \in Payloads, Dec!SendPacket(packet)
      PROVE  Dec!TypeOK'
  <2>1. dReply' \in Dec!Replies
    BY <1>2, StatusTypes DEF Dec!SendPacket, Dec!Statuses
  <2>2. dPending' \in {dPending, packet}
    BY <1>2 DEF Dec!SendPacket
  <2>3. dAccepted' = dAccepted \/ dAccepted' = Append(dAccepted, packet)
    BY <1>2 DEF Dec!SendPacket
  <2>4. dPending' \in Payloads \cup {NoValue} /\ dAccepted' \in Seq(Payloads)
    BY <2>2, <2>3 DEF Dec!TypeOK
  <2>5. UNCHANGED <<dMade, dLaw, dChannels, dEof, dResolved>>
    BY <1>2 DEF Dec!SendPacket
  <2>. QED
    BY <2>1, <2>4, <2>5 DEF Dec!TypeOK
<1>3. CASE Dec!ReceivePending
  <2>1. /\ dPending' = NoValue /\ dPending # NoValue
        /\ dReply' = Dec!Outcome(dLaw, dChannels, dPending)
        /\ dResolved' = Append(dResolved, dReply')
        /\ UNCHANGED <<dMade, dLaw, dChannels, dEof, dAccepted>>
    BY <1>3 DEF Dec!ReceivePending
  <2>2. dReply' \in Dec!Replies
    BY <2>1, AnswerType, SameTypes DEF Dec!TypeOK
  <2>3. dResolved' \in Seq(Dec!Replies)
    BY <2>1, <2>2 DEF Dec!TypeOK
  <2>. QED
    BY <2>1, <2>2, <2>3 DEF Dec!TypeOK
<1>4. CASE Dec!ReceiveNothing \/ Dec!Flush \/ RebuildDecoder
  <2>1. dReply' \in Dec!Replies
    BY <1>4, StatusTypes
       DEF Dec!ReceiveNothing, Dec!Flush, RebuildDecoder, Dec!Statuses
  <2>2. /\ dPending' \in {dPending, NoValue} /\ dEof' \in {dEof, TRUE, FALSE}
        /\ UNCHANGED <<dMade, dLaw, dChannels, dAccepted, dResolved>>
    BY <1>4 DEF Dec!ReceiveNothing, Dec!Flush, RebuildDecoder
  <2>. QED
    BY <2>1, <2>2 DEF Dec!TypeOK
<1>5. CASE UNCHANGED decoder
  BY <1>5 DEF decoder, Dec!TypeOK
<1>. QED
  BY <1>1, <1>2, <1>3, <1>4, <1>5 DEF DecoderStep, Dec!ReceiveFrame

(* The decoder answers in order, also when it is replaced after Eof.       *)
LEMMA DecoderInOrder ==
    Dec!TypeOK /\ DecoderFollows /\ Closing /\ Dec!AnsweredInOrder /\ DecoderStep
        => Dec!AnsweredInOrder'
<1>. SUFFICES ASSUME Dec!TypeOK, DecoderFollows, Closing, Dec!AnsweredInOrder,
                     DecoderStep
              PROVE  Dec!AnsweredInOrder'
  OBVIOUS
<1>1. CASE Dec!MakeDecoder(eLaw, eOutput.channels)
  <2>1. dPending = NoValue /\ dAccepted = <<>> /\ dResolved = <<>>
    BY <1>1 DEF Dec!MakeDecoder, DecoderFollows
  <2>2. UNCHANGED <<dPending, dAccepted, dResolved>>
    BY <1>1 DEF Dec!MakeDecoder
  <2>. QED
    BY <2>1, <2>2 DEF Dec!AnsweredInOrder
<1>2. ASSUME NEW packet \in Payloads, Dec!SendPacket(packet)
      PROVE  Dec!AnsweredInOrder'
  <2>1. CASE dPending # NoValue
    BY <1>2, <2>1 DEF Dec!SendPacket, Dec!AnsweredInOrder
  <2>2. CASE dPending = NoValue
    <3>1. /\ dPending' = packet /\ packet # NoValue
          /\ dAccepted' = Append(dAccepted, packet)
          /\ UNCHANGED <<dLaw, dChannels, dResolved>>
      BY <1>2, <2>2, PayloadParts DEF Dec!SendPacket
    <3>2. Len(dAccepted) = Len(dResolved)
      BY <2>2 DEF Dec!AnsweredInOrder, Dec!TypeOK
    <3>3. /\ Len(dAccepted') = Len(dAccepted) + 1
          /\ dAccepted'[Len(dAccepted')] = packet
          /\ \A i \in 1..Len(dAccepted) : dAccepted'[i] = dAccepted[i]
      BY <3>1 DEF Dec!TypeOK
    <3>. QED
      BY <3>1, <3>2, <3>3 DEF Dec!AnsweredInOrder, Dec!TypeOK
  <2>. QED
    BY <2>1, <2>2
<1>3. CASE Dec!ReceivePending
  <2>. DEFINE answer == Dec!Outcome(dLaw, dChannels, dPending)
  <2>1. /\ dPending # NoValue /\ dPending' = NoValue
        /\ dResolved' = Append(dResolved, answer)
        /\ UNCHANGED <<dLaw, dChannels, dAccepted>>
    BY <1>3 DEF Dec!ReceivePending
  <2>2. /\ Len(dAccepted) = Len(dResolved) + 1
        /\ dPending = dAccepted[Len(dResolved) + 1]
    BY <2>1 DEF Dec!AnsweredInOrder, Dec!TypeOK
  <2>3. /\ Len(dResolved') = Len(dResolved) + 1
        /\ dResolved'[Len(dResolved) + 1] = answer
        /\ \A i \in 1..Len(dResolved) : dResolved'[i] = dResolved[i]
    <3>1. answer \in Dec!Replies
      BY <2>1, AnswerType, SameTypes DEF Dec!TypeOK
    <3>. HIDE DEF answer
    <3>. QED
      BY <2>1, <3>1 DEF Dec!TypeOK
  <2>. QED
    BY <2>1, <2>2, <2>3 DEF Dec!AnsweredInOrder, Dec!TypeOK
<1>4. CASE Dec!ReceiveNothing \/ Dec!Flush \/ RebuildDecoder
  <2>1. UNCHANGED <<dLaw, dChannels, dPending, dAccepted, dResolved>>
    BY <1>4 DEF Dec!ReceiveNothing, Dec!Flush, RebuildDecoder, Closing
  <2>. QED
    BY <2>1 DEF Dec!AnsweredInOrder
<1>5. CASE UNCHANGED decoder
  BY <1>5 DEF decoder, Dec!AnsweredInOrder
<1>. QED
  BY <1>1, <1>2, <1>3, <1>4, <1>5 DEF DecoderStep, Dec!ReceiveFrame

-----------------------------------------------------------------------------
(* The steps of the client.                                                *)

LEMMA TransitType == TypeOK => Transit \in Seq(Enc!PacketType)
<1>. SUFFICES ASSUME TypeOK
              PROVE  Transit \in Seq(Enc!PacketType)
  OBVIOUS
<1>1. eQueue \in Seq(Enc!PacketType)
  BY DEF TypeOK, Enc!TypeOK
<1>2. CASE held = NoValue
  BY <1>1, <1>2 DEF Transit
<1>3. CASE held # NoValue
  <2>1. held \in Enc!PacketType
    BY <1>3 DEF TypeOK
  <2>. QED
    BY <1>1, <1>3, <2>1, HandFirst DEF Transit
<1>. QED
  BY <1>2, <1>3

(* What the client holds is the packet of a frame the encoder took, so it  *)
(* is one that may be sent.                                                *)
LEMMA HeldPayload == Inv /\ held # NoValue => Payload(held) \in Payloads
<1>. SUFFICES ASSUME Inv, held # NoValue
              PROVE  Payload(held) \in Payloads
  OBVIOUS
<1>1. /\ held \in Enc!PacketType /\ eQueue \in Seq(Enc!PacketType)
      /\ eAccepted \in Seq(Frames) /\ dAccepted \in Seq(Payloads)
      /\ eLaw \in Laws /\ eTimeBase \in Enc!TimeBases
  BY SameTypes DEF Inv, TypeOK, Enc!TypeOK, Dec!TypeOK
<1>. DEFINE n == Len(dAccepted) + 1
<1>2. Transit \in Seq(Enc!PacketType) /\ Transit # <<>> /\ Head(Transit) = held
  BY <1>1, HandFirst DEF Transit
<1>3. Len(Transit) \in Nat \ {0} /\ Transit[1] = held
  BY <1>2
<1>4. InOrder(eLaw, eAccepted, Transit, dAccepted)
  BY OrderIs DEF Inv
<1>5. Payload(held) = PayloadOf(eLaw, eAccepted[n])
  BY <1>3, <1>4 DEF InOrder
<1>6. n \in 1..Len(eAccepted)
  BY <1>1, <1>3, <1>4 DEF InOrder
<1>7. eAccepted[n] \in Frames /\ Enc!Encodable(eAccepted[n])
  BY <1>1, <1>6 DEF Inv, OnlyEncodable
<1>. HIDE DEF n
<1>. QED
  BY <1>1, <1>5, <1>7, PacketOfFrame

(* Nothing on its way moves.                                               *)
LEMMA NothingMoves ==
    NothingLostInTransit
    /\ UNCHANGED <<eLaw, eAccepted, eQueue, held, dAccepted>>
        => NothingLostInTransit'
BY OrderIs DEF Transit

LEMMA InvInit == Init => Inv
<1>. SUFFICES ASSUME Init
              PROVE  Inv
  OBVIOUS
<1>1. Enc!TypeOK
  <2>1. eReply \in Enc!Replies
    BY StatusTypes DEF Init, Enc!Init, Enc!Statuses
  <2>2. /\ eQueue \in Seq(Enc!PacketType)
        /\ eAccepted \in Seq(Frames) /\ eReceived \in Seq(Enc!PacketType)
    <3>1. eQueue = <<>> /\ eAccepted = <<>> /\ eReceived = <<>>
      BY DEF Init, Enc!Init
    <3>. QED
      BY <3>1
  <2>3. eMade \in BOOLEAN /\ eLaw \in Enc!Laws
    BY DEF Init, Enc!Init, Enc!Laws
  <2>4. /\ eOutput \in [channels : Nat \ {0}, sample_format : {"S16"},
                         sample_rate : Nat]
        /\ eTimeBase \in Enc!TimeBases
    BY DEF Init, Enc!Init, Enc!DefaultRate, Enc!TimeBases
  <2>. QED
    BY <2>1, <2>2, <2>3, <2>4 DEF Enc!TypeOK
<1>2. Dec!TypeOK
  <2>1. dReply \in Dec!Replies
    BY StatusTypes DEF Init, Dec!Init, Dec!Statuses
  <2>2. dAccepted \in Seq(Payloads) /\ dResolved \in Seq(Dec!Replies)
    <3>1. dAccepted = <<>> /\ dResolved = <<>>
      BY DEF Init, Dec!Init
    <3>. QED
      BY <3>1
  <2>3. dMade \in BOOLEAN /\ dLaw \in Dec!Laws /\ dEof \in BOOLEAN
    BY DEF Init, Dec!Init, Dec!Laws
  <2>4. dChannels \in Nat \ {0} /\ dPending \in Payloads \cup {NoValue}
    BY DEF Init, Dec!Init
  <2>. QED
    BY <2>1, <2>2, <2>3, <2>4 DEF Dec!TypeOK
<1>3. held = NoValue /\ phase = "feeding"
  BY DEF Init
<1>4. EncoderFresh /\ DecoderFollows /\ OnlyEncodable
  BY <1>3 DEF Init, Enc!Init, Dec!Init, EncoderFresh, DecoderFollows, OnlyEncodable
<1>5. Closing
  BY <1>3 DEF Init, Dec!Init, Dec!Status, Closing
<1>6. Dec!AnsweredInOrder
  BY DEF Init, Dec!Init, Dec!AnsweredInOrder
<1>7. NothingLostInTransit
  <2>1. Transit = <<>> /\ eAccepted = <<>> /\ dAccepted = <<>>
    BY <1>3 DEF Init, Enc!Init, Dec!Init, Transit
  <2>. QED
    BY <2>1 DEF NothingLostInTransit
<1>. QED
  BY <1>1, <1>2, <1>3, <1>4, <1>5, <1>6, <1>7 DEF Inv, TypeOK

-----------------------------------------------------------------------------
(* What is left of the invariant for each step of the client, the two ends *)
(* being dealt with above.                                                 *)
ClientInv ==
    /\ held \in Enc!PacketType \cup {NoValue}
    /\ phase \in {"feeding", "closing", "ending", "draining", "finished"}
    /\ EncoderFresh /\ DecoderFollows /\ OnlyEncodable /\ Closing
    /\ NothingLostInTransit

LEMMA OpenEncoderInv == Inv /\ OpenEncoder => ClientInv'
<1>. SUFFICES ASSUME Inv, OpenEncoder
              PROVE  ClientInv'
  OBVIOUS
<1>1. PICK l \in Laws, option \in ChannelOptions :
        Enc!MakeEncoder(l, option, NoValue, NoValue)
  BY DEF OpenEncoder
<1>2. /\ ~eMade
      /\ UNCHANGED <<decoder, held, phase, eQueue, eAccepted>>
  BY <1>1 DEF OpenEncoder, Enc!MakeEncoder
<1>3. /\ eQueue = <<>> /\ eAccepted = <<>> /\ held = NoValue
      /\ ~dMade /\ dPending = NoValue /\ dAccepted = <<>> /\ dResolved = <<>>
  BY <1>2 DEF Inv, EncoderFresh, DecoderFollows
<1>4. UNCHANGED <<dMade, dPending, dReply, dAccepted, dResolved>>
  BY <1>2 DEF decoder
<1>5. /\ held' \in Enc!PacketType \cup {NoValue}
      /\ phase' \in {"feeding", "closing", "ending", "draining", "finished"}
  BY <1>2 DEF Inv, TypeOK
<1>6. EncoderFresh' /\ DecoderFollows' /\ OnlyEncodable'
  BY <1>2, <1>3, <1>4 DEF EncoderFresh, DecoderFollows, OnlyEncodable
<1>7. Closing'
  BY <1>2, <1>3, <1>4 DEF Closing
<1>8. NothingLostInTransit'
  <2>1. Transit' = <<>> /\ eAccepted' = <<>> /\ dAccepted' = <<>>
    BY <1>2, <1>3, <1>4 DEF Transit
  <2>. QED
    BY <2>1 DEF NothingLostInTransit
<1>. QED
  BY <1>5, <1>6, <1>7, <1>8 DEF ClientInv

LEMMA OpenDecoderInv == Inv /\ OpenDecoder => ClientInv'
<1>. SUFFICES ASSUME Inv, OpenDecoder
              PROVE  ClientInv'
  OBVIOUS
<1>1. /\ eMade /\ ~dMade /\ Dec!MakeDecoder(eLaw, eOutput.channels)
      /\ UNCHANGED <<encoder, held, phase, dPending, dAccepted, dResolved>>
  BY DEF OpenDecoder, Dec!MakeDecoder
<1>2. UNCHANGED <<eMade, eLaw, eOutput, eQueue, eAccepted>>
  BY <1>1 DEF encoder
<1>3. /\ dPending = NoValue /\ dAccepted = <<>> /\ dResolved = <<>>
  BY <1>1 DEF Inv, DecoderFollows
<1>4. eOutput.channels # NoValue
  BY StreamAssumption DEF Inv, TypeOK, Enc!TypeOK
<1>5. dMade' => dLaw' = eLaw' /\ dChannels' = eOutput'.channels
  BY <1>1, <1>2, <1>4 DEF Dec!MakeDecoder, Dec!UnwrapOr
<1>6. DecoderFollows'
  BY <1>1, <1>2, <1>3, <1>5 DEF DecoderFollows
<1>7. Closing'
  BY <1>1, <1>2, <1>3 DEF Inv, Closing
<1>8. NothingLostInTransit'
  BY <1>1, <1>2, NothingMoves DEF Inv
<1>9. /\ held' \in Enc!PacketType \cup {NoValue}
      /\ phase' \in {"feeding", "closing", "ending", "draining", "finished"}
      /\ EncoderFresh' /\ OnlyEncodable'
  BY <1>1, <1>2 DEF Inv, TypeOK, EncoderFresh, OnlyEncodable
<1>. QED
  BY <1>6, <1>7, <1>8, <1>9 DEF ClientInv

LEMMA FeedInv == Inv /\ Feed => ClientInv'
<1>. SUFFICES ASSUME Inv, Feed
              PROVE  ClientInv'
  OBVIOUS
<1>1. PICK frame \in Frames : Enc!SendFrame(frame)
  BY DEF Feed
<1>2. /\ phase = "feeding" /\ eMade
      /\ UNCHANGED <<decoder, held, phase, eMade, eLaw, eOutput>>
  BY <1>1 DEF Feed, Ready, Enc!SendFrame
<1>3. UNCHANGED <<dMade, dLaw, dChannels, dPending, dReply, dAccepted, dResolved>>
  BY <1>2 DEF decoder
<1>4. /\ held' \in Enc!PacketType \cup {NoValue}
      /\ phase' \in {"feeding", "closing", "ending", "draining", "finished"}
  BY <1>2 DEF Inv, TypeOK
<1>5. EncoderFresh' /\ DecoderFollows' /\ Closing'
  BY <1>2, <1>3 DEF Inv, EncoderFresh, DecoderFollows, Closing
<1>6. OnlyEncodable' /\ NothingLostInTransit'
  <2>1. CASE ~Enc!Encodable(frame)
    <3>1. UNCHANGED <<eQueue, eAccepted>>
      BY <1>1, <2>1 DEF Enc!SendFrame
    <3>. QED
      BY <1>2, <1>3, <3>1, NothingMoves DEF Inv, OnlyEncodable
  <2>2. CASE Enc!Encodable(frame)
    <3>. DEFINE packet == Enc!EncodedPacket(eLaw, eTimeBase, frame)
    <3>1. eQueue' = Append(eQueue, packet) /\ eAccepted' = Append(eAccepted, frame)
      BY <1>1, <2>2 DEF Enc!SendFrame
    <3>2. /\ eLaw \in Laws /\ eTimeBase \in Enc!TimeBases
          /\ eQueue \in Seq(Enc!PacketType) /\ eAccepted \in Seq(Frames)
          /\ dAccepted \in Seq(Payloads)
          /\ Transit \in Seq(Enc!PacketType)
      BY SameTypes, TransitType DEF Inv, TypeOK, Enc!TypeOK, Dec!TypeOK
    <3>3. packet \in Enc!PacketType /\ Payload(packet) = PayloadOf(eLaw, frame)
      BY <2>2, <3>2, PacketOfFrame
    <3>. HIDE DEF packet
    <3>4. /\ Len(eAccepted') = Len(eAccepted) + 1 /\ Len(eAccepted) \in Nat
          /\ eAccepted'[Len(eAccepted) + 1] = frame
          /\ \A i \in 1..Len(eAccepted) : eAccepted'[i] = eAccepted[i]
      BY <3>1, <3>2
    <3>5. OnlyEncodable'
      <4>1. ASSUME NEW i \in 1..Len(eAccepted')
            PROVE  Enc!Encodable(eAccepted'[i])
        BY <2>2, <3>4 DEF Inv, OnlyEncodable
      <4>. QED
        BY <4>1 DEF OnlyEncodable
    <3>6. Transit' = Append(Transit, packet)
      <4>1. CASE held = NoValue
        BY <1>2, <3>1, <3>2, <3>3, <4>1 DEF Transit
      <4>2. CASE held # NoValue
        <5>1. held \in Enc!PacketType
          BY <4>2 DEF Inv, TypeOK
        <5>. QED
          BY <1>2, <3>1, <3>2, <3>3, <4>2, <5>1, HandFirst DEF Transit
      <4>. QED
        BY <4>1, <4>2
    <3>7. InOrder(eLaw, eAccepted, Transit, dAccepted)
      BY OrderIs DEF Inv
    <3>8. InOrder(eLaw, Append(eAccepted, frame), Append(Transit, packet), dAccepted)
      BY <3>2, <3>3, <3>7, SentInOrder
    <3>9. NothingLostInTransit'
      BY <1>2, <1>3, <3>1, <3>6, <3>8, OrderIs
    <3>. QED
      BY <3>5, <3>9
  <2>. QED
    BY <2>1, <2>2
<1>. QED
  BY <1>4, <1>5, <1>6 DEF ClientInv

LEMMA FetchInv == Inv /\ Fetch => ClientInv'
<1>. SUFFICES ASSUME Inv, Fetch
              PROVE  ClientInv'
  OBVIOUS
<1>1. /\ held = NoValue /\ phase \in {"feeding", "closing"} /\ eMade
      /\ UNCHANGED <<decoder, eMade, eLaw, eOutput, eAccepted>>
  BY DEF Fetch, Ready, Enc!ReceivePacket, Enc!ReceiveQueued, Enc!ReceiveNothing
<1>2. UNCHANGED <<dMade, dLaw, dChannels, dPending, dReply, dAccepted, dResolved>>
  BY <1>1 DEF decoder
<1>3. EncoderFresh' /\ DecoderFollows' /\ OnlyEncodable'
  BY <1>1, <1>2 DEF Inv, EncoderFresh, DecoderFollows, OnlyEncodable
<1>4. CASE Enc!ReceiveQueued
  <2>1. /\ eQueue # <<>> /\ eQueue' = Tail(eQueue)
        /\ eReply'.status = "packet" /\ eReply'.packet = Head(eQueue)
    BY <1>4 DEF Enc!ReceiveQueued, Enc!PacketReply
  <2>2. held' = Head(eQueue) /\ phase' = phase
    BY <2>1 DEF Fetch
  <2>3. eQueue \in Seq(Enc!PacketType) /\ Head(eQueue) \in Enc!PacketType
    BY <2>1 DEF Inv, TypeOK, Enc!TypeOK
  <2>4. held' \in Enc!PacketType /\ held' # NoValue
    BY <2>2, <2>3, StreamAssumption
  <2>5. Transit' = Transit
    <3>1. <<Head(eQueue)>> \o Tail(eQueue) = eQueue
      BY <2>1, <2>3
    <3>. QED
      BY <1>1, <2>1, <2>2, <2>4, <3>1 DEF Transit
  <2>6. NothingLostInTransit'
    BY <1>1, <1>2, <2>5, OrderIs DEF Inv
  <2>7. Closing'
    BY <1>1, <1>2, <2>2 DEF Inv, Closing
  <2>8. phase' \in {"feeding", "closing", "ending", "draining", "finished"}
    BY <1>1, <2>2
  <2>. QED
    BY <1>3, <2>4, <2>6, <2>7, <2>8 DEF ClientInv
<1>5. CASE Enc!ReceiveNothing
  <2>1. eQueue = <<>> /\ UNCHANGED eQueue /\ eReply'.status = "need_more"
    BY <1>5 DEF Enc!ReceiveNothing, Enc!Status
  <2>2. held' = NoValue /\ phase' \in {phase, "ending"}
    BY <2>1 DEF Fetch
  <2>3. NothingLostInTransit'
    BY <1>1, <1>2, <2>1, <2>2, NothingMoves DEF Inv
  <2>4. Closing'
    BY <1>1, <1>2, <2>1, <2>2 DEF Inv, Closing
  <2>. QED
    BY <1>1, <1>3, <2>2, <2>3, <2>4 DEF ClientInv
<1>. QED
  BY <1>4, <1>5 DEF Fetch, Enc!ReceivePacket

LEMMA ForwardInv == Inv /\ Forward => ClientInv'
<1>. SUFFICES ASSUME Inv, Forward
              PROVE  ClientInv'
  OBVIOUS
<1>. DEFINE packet == Payload(held)
<1>1. /\ held # NoValue /\ dMade /\ Dec!SendPacket(packet)
      /\ UNCHANGED <<encoder, phase, dMade, dLaw, dChannels, dResolved>>
  BY DEF Forward, Ready, Dec!SendPacket
<1>2. UNCHANGED <<eMade, eLaw, eOutput, eQueue, eAccepted>>
  BY <1>1 DEF encoder
<1>3. /\ phase \in {"feeding", "closing"}
      /\ phase' \in {"feeding", "closing", "ending", "draining", "finished"}
  BY <1>1 DEF Inv, TypeOK, Closing
<1>4. packet \in Payloads
  BY <1>1, HeldPayload
<1>. HIDE DEF packet
<1>5. dReply'.status \in {"busy", "accepted"}
  BY <1>1 DEF Dec!SendPacket, Dec!Status
<1>6. EncoderFresh' /\ DecoderFollows' /\ OnlyEncodable' /\ Closing'
  <2>1. EncoderFresh'
    BY <1>1, <1>2 DEF Inv, EncoderFresh
  <2>2. DecoderFollows'
    BY <1>1, <1>2 DEF Inv, DecoderFollows
  <2>3. OnlyEncodable' /\ Closing'
    BY <1>1, <1>2, <1>3, <1>5 DEF Inv, OnlyEncodable, Closing
  <2>. QED
    BY <2>1, <2>2, <2>3
<1>7. CASE dPending # NoValue
  <2>1. held' = held /\ dAccepted' = dAccepted
    BY <1>1, <1>7 DEF Forward, Dec!SendPacket, Dec!Status
  <2>2. NothingLostInTransit'
    BY <1>2, <2>1, NothingMoves DEF Inv
  <2>. QED
    BY <1>3, <1>6, <2>1, <2>2 DEF ClientInv, Inv, TypeOK
<1>8. CASE dPending = NoValue
  <2>1. held' = NoValue /\ dAccepted' = Append(dAccepted, packet)
    BY <1>1, <1>8 DEF Forward, Dec!SendPacket, Dec!Status
  <2>2. /\ held \in Enc!PacketType /\ eQueue \in Seq(Enc!PacketType)
        /\ eAccepted \in Seq(Frames) /\ dAccepted \in Seq(Payloads)
        /\ Transit \in Seq(Enc!PacketType)
    BY <1>1, TransitType DEF Inv, TypeOK, Enc!TypeOK, Dec!TypeOK
  <2>3. Transit # <<>> /\ Head(Transit) = held /\ Tail(Transit) = eQueue
    BY <1>1, <2>2, HandFirst DEF Transit
  <2>4. Transit' = Tail(Transit)
    BY <1>2, <2>1, <2>2, <2>3 DEF Transit
  <2>5. InOrder(eLaw, eAccepted, Transit, dAccepted)
    BY OrderIs DEF Inv
  <2>6. InOrder(eLaw, eAccepted, Tail(Transit), Append(dAccepted, packet))
    BY <1>4, <2>2, <2>3, <2>5, ArrivedInOrder DEF packet
  <2>7. NothingLostInTransit'
    BY <1>2, <2>1, <2>4, <2>6, OrderIs
  <2>. QED
    BY <1>3, <1>6, <2>1, <2>7 DEF ClientInv
<1>. QED
  BY <1>7, <1>8

LEMMA DrainInv == Inv /\ Drain => ClientInv'
<1>. SUFFICES ASSUME Inv, Drain
              PROVE  ClientInv'
  OBVIOUS
<1>1. /\ phase # "finished" /\ dMade
      /\ UNCHANGED <<encoder, held, dMade, dLaw, dChannels, dAccepted>>
  BY DEF Drain, Ready, Dec!ReceiveFrame, Dec!ReceivePending, Dec!ReceiveNothing
<1>2. UNCHANGED <<eMade, eLaw, eOutput, eQueue, eAccepted>>
  BY <1>1 DEF encoder
<1>3. dPending' = NoValue
  BY DEF Drain, Dec!ReceiveFrame, Dec!ReceivePending, Dec!ReceiveNothing
<1>4. \/ phase' = phase
      \/ phase = "draining" /\ phase' = "finished"
  BY DEF Drain
<1>5. EncoderFresh' /\ DecoderFollows' /\ OnlyEncodable'
  <2>1. EncoderFresh' /\ OnlyEncodable'
    BY <1>1, <1>2 DEF Inv, EncoderFresh, OnlyEncodable
  <2>2. DecoderFollows'
    BY <1>1, <1>2 DEF Inv, DecoderFollows
  <2>. QED
    BY <2>1, <2>2
<1>6. Closing'
  BY <1>1, <1>2, <1>3, <1>4 DEF Inv, Closing
<1>7. NothingLostInTransit'
  BY <1>1, <1>2, NothingMoves DEF Inv
<1>8. /\ held' \in Enc!PacketType \cup {NoValue}
      /\ phase' \in {"feeding", "closing", "ending", "draining", "finished"}
  BY <1>1, <1>4 DEF Inv, TypeOK
<1>. QED
  BY <1>5, <1>6, <1>7, <1>8 DEF ClientInv

(* The flushes, the replacement of the decoder and the idle steps move     *)
(* nothing.                                                                *)
LEMMA QuietInv ==
    Inv /\ (Close \/ FlushDecoder \/ FlushMidStream \/ RebuildDecoder
             \/ UNCHANGED vars) => ClientInv'
<1>. SUFFICES ASSUME Inv,
                     Close \/ FlushDecoder \/ FlushMidStream \/ RebuildDecoder
                       \/ UNCHANGED vars
              PROVE  ClientInv'
  OBVIOUS
<1>1. /\ UNCHANGED <<held, eMade, eLaw, eOutput, eQueue, eAccepted,
                     dMade, dLaw, dChannels, dAccepted, dResolved>>
      /\ dPending' \in {dPending, NoValue}
  BY DEF Close, FlushDecoder, FlushMidStream, RebuildDecoder, Enc!Flush,
         Dec!Flush, vars, encoder, decoder
<1>2. \/ phase' = phase
      \/ phase = "feeding" /\ phase' = "closing"
      \/ phase = "ending" /\ phase' = "draining"
  BY DEF Close, FlushDecoder, FlushMidStream, RebuildDecoder, vars
<1>3. dReply' = dReply \/ dReply'.status \in {"flushed", "created"}
  BY DEF Close, FlushDecoder, FlushMidStream, RebuildDecoder,
         Dec!Flush, Dec!Status, vars, decoder
<1>4. EncoderFresh' /\ OnlyEncodable'
  BY <1>1 DEF Inv, EncoderFresh, OnlyEncodable
<1>5. DecoderFollows'
  BY <1>1 DEF Inv, DecoderFollows
<1>6. Closing'
  BY <1>1, <1>2, <1>3 DEF Inv, Closing
<1>7. NothingLostInTransit'
  BY <1>1, NothingMoves DEF Inv
<1>8. /\ held' \in Enc!PacketType \cup {NoValue}
      /\ phase' \in {"feeding", "closing", "ending", "draining", "finished"}
  BY <1>1, <1>2 DEF Inv, TypeOK
<1>. QED
  BY <1>4, <1>5, <1>6, <1>7, <1>8 DEF ClientInv

(* Every step of the client is a step of each end.                         *)
LEMMA StepsOfBothEnds == Inv /\ [Next]_vars => EncoderStep /\ DecoderStep
<1>. SUFFICES ASSUME Inv, [Next]_vars
              PROVE  EncoderStep /\ DecoderStep
  OBVIOUS
<1>1. CASE OpenEncoder
  BY <1>1 DEF OpenEncoder, EncoderStep, DecoderStep
<1>2. CASE OpenDecoder
  BY <1>2 DEF OpenDecoder, EncoderStep, DecoderStep
<1>3. CASE Feed
  BY <1>3 DEF Feed, EncoderStep, DecoderStep
<1>4. CASE Close \/ Fetch
  BY <1>4 DEF Close, Fetch, EncoderStep, DecoderStep, decoder
<1>5. CASE Forward
  BY <1>5, HeldPayload DEF Forward, EncoderStep, DecoderStep
<1>6. CASE Drain \/ FlushDecoder \/ FlushMidStream
  BY <1>6 DEF Drain, FlushDecoder, FlushMidStream, EncoderStep, DecoderStep
<1>7. CASE RebuildDecoder
  BY <1>7 DEF RebuildDecoder, EncoderStep, DecoderStep
<1>8. CASE UNCHANGED vars
  BY <1>8 DEF vars, EncoderStep, DecoderStep
<1>. QED
  BY <1>1, <1>2, <1>3, <1>4, <1>5, <1>6, <1>7, <1>8 DEF Next, Finished

LEMMA InvStep == Inv /\ [Next]_vars => Inv'
<1>. SUFFICES ASSUME Inv, [Next]_vars
              PROVE  Inv'
  OBVIOUS
<1>1. Enc!TypeOK' /\ Dec!TypeOK' /\ Dec!AnsweredInOrder'
  BY StepsOfBothEnds, EncoderTyped, DecoderTyped, DecoderInOrder DEF Inv, TypeOK
<1>2. ClientInv'
  BY OpenEncoderInv, OpenDecoderInv, FeedInv, FetchInv, ForwardInv, DrainInv,
     QuietInv DEF Next, Finished
<1>. QED
  BY <1>1, <1>2 DEF Inv, ClientInv, TypeOK

LEMMA Invariant == Spec => []Inv
BY InvInit, InvStep, PTL DEF Spec

-----------------------------------------------------------------------------
(* Both ends and the client keep their types, whatever the order of the    *)
(* calls.                                                                  *)
THEOREM TypeCorrect == Spec => []TypeOK
BY Invariant, PTL DEF Inv

(* End to end nothing is lost, duplicated or reordered, for any frames,    *)
(* any number of them and every interleaving of feeding, fetching,         *)
(* forwarding, draining, flushing and replacing the decoder.               *)
THEOREM Order == Spec => []NothingLostInTransit
BY Invariant, PTL DEF Inv

(* When the client has seen Eof after flushing both ends, every frame has  *)
(* been answered and nothing is left anywhere.                             *)
THEOREM Complete == Spec => []FinishedMeansComplete
<1>1. Inv => FinishedMeansComplete
  <2>. SUFFICES ASSUME Inv, phase = "finished"
                PROVE  /\ Len(dResolved) = Len(eAccepted)
                       /\ eQueue = <<>> /\ held = NoValue /\ dPending = NoValue
    BY DEF FinishedMeansComplete
  <2>1. eQueue = <<>> /\ held = NoValue /\ dPending = NoValue
    BY DEF Inv, Closing
  <2>2. Len(Transit) = 0
    BY <2>1 DEF Transit
  <2>3. /\ Len(dAccepted) \in Nat /\ Len(dResolved) \in Nat
        /\ Len(eAccepted) \in Nat
    BY DEF Inv, TypeOK, Enc!TypeOK, Dec!TypeOK
  <2>4. Len(eAccepted) = Len(dAccepted)
    BY <2>2, <2>3 DEF Inv, NothingLostInTransit
  <2>5. Len(dAccepted) = Len(dResolved)
    BY <2>1, <2>3 DEF Inv, Dec!AnsweredInOrder
  <2>. QED
    BY <2>1, <2>4, <2>5
<1>. QED
  BY <1>1, Invariant, PTL

-----------------------------------------------------------------------------
(* What RoundTripIsFaithful asks of the answer to one frame.               *)
FaithfulReply(l, ch, source, answer) ==
    LET n == SampleCount(source)
    IN  IF n % ch # 0
        THEN answer.status = "invalid"
        ELSE /\ answer.status = "frame"
             /\ LET frame == answer.frame
                    plane == frame.data[1]
                IN  /\ frame.pts = source.pts
                    /\ n \div ch < U32Modulus => frame.samples * ch = n
                    /\ Len(plane) = 2 * n
                    /\ \A k \in 1..n :
                          Represents(l, EncodeSample(l, SampleAt(plane, k)),
                                     SampleAt(source.data[1], k))

(* Encoding, decoding and encoding again represents the first samples.     *)
LEMMA DecodedRepresents ==
    ASSUME NEW l \in Laws, NEW plane \in Seq(Byte),
           NEW k \in 1..(Len(plane) \div 2)
    PROVE  Represents(l,
               EncodeSample(l,
                   SampleAt(DecodeSliceToLeBytes(l,
                                EncodeSliceFromLeBytes(l, plane)), k)),
               SampleAt(plane, k))
<1>. DEFINE code == EncodeSliceFromLeBytes(l, plane)
            back == DecodeSliceToLeBytes(l, code)
<1>1. code \in Seq(Byte) /\ Len(code) = Len(plane) \div 2 /\ Len(code) \in Nat
  BY EncodeSliceType
<1>2. code[k] \in Byte /\ Represents(l, code[k], SampleAt(plane, k))
  BY <1>1, SliceRepresents
<1>. HIDE DEF code
<1>3. back \in Seq(Byte) /\ Len(back) = 2 * Len(code)
  BY <1>1, DecodeSliceType
<1>4. k \in 1..Len(code) /\ k \in 1..(Len(back) \div 2)
  BY <1>1, <1>3
<1>5. EncodeSliceFromLeBytes(l, back)[k] = Canonical(l, code[k])
  BY <1>1, <1>4, SliceRecovers
<1>6. EncodeSliceFromLeBytes(l, back)[k] = EncodeSample(l, SampleAt(back, k))
  BY <1>3, <1>4, EncodedElement
<1>7. Represents(l, Canonical(l, code[k]), SampleAt(plane, k))
  BY <1>2, CanonicalRepresents
<1>. QED
  BY <1>5, <1>6, <1>7 DEF code

LEMMA AnswerFaithful ==
    ASSUME NEW l \in Laws, NEW ch \in Nat \ {0}, NEW source \in Frames,
           Enc!Encodable(source)
    PROVE  FaithfulReply(l, ch, source, Dec!Outcome(l, ch, PayloadOf(l, source)))
<1>. DEFINE plane  == source.data[1]
            n      == SampleCount(source)
            code   == EncodeSliceFromLeBytes(l, plane)
            back   == DecodeSliceToLeBytes(l, code)
            count  == (n \div ch) % U32Modulus
            packet == PayloadOf(l, source)
<1>1. plane \in Seq(Byte) /\ n = Len(plane) \div 2 /\ n \in Nat
  <2>1. plane \in Seq(Byte)
    BY FrameParts
  <2>2. Len(plane) \in Nat /\ 2 \in Nat \ {0}
    BY <2>1
  <2>3. Len(plane) \div 2 \in Nat
    BY <2>2, DivModNat
  <2>. QED
    BY <2>1, <2>3 DEF SampleCount
<1>2. code \in Seq(Byte) /\ Len(code) = n
  BY <1>1, EncodeSliceType
<1>3. packet.pts = source.pts /\ packet.data = code
  BY DEF PayloadOf
<1>4. Dec!DecodeSliceToLeBytes(l, code) = back
  BY SameDecodedSlices
<1>. HIDE DEF packet
<1>5. CASE n % ch # 0
  <2>1. n # 0
    BY <1>5
  <2>2. Dec!Outcome(l, ch, packet) = Dec!Status("invalid")
    BY <1>2, <1>3, <1>5, <2>1 DEF Dec!Outcome
  <2>. QED
    BY <1>5, <2>2 DEF FaithfulReply, Dec!Status, packet
<1>6. CASE n % ch = 0 /\ n = 0
  <2>1. Dec!Outcome(l, ch, packet) = Dec!FrameReply(0, source.pts, <<>>)
    BY <1>2, <1>3, <1>6 DEF Dec!Outcome
  <2>2. /\ Dec!FrameReply(0, source.pts, <<>>).status = "frame"
        /\ Dec!FrameReply(0, source.pts, <<>>).frame.pts = source.pts
        /\ Dec!FrameReply(0, source.pts, <<>>).frame.samples = 0
        /\ Dec!FrameReply(0, source.pts, <<>>).frame.data[1] = <<>>
    BY DEF Dec!FrameReply
  <2>3. 0 * ch = n /\ Len(<<>>) = 2 * n /\ 1..n = {}
    BY <1>6
  <2>. HIDE DEF n
  <2>. QED
    BY <1>6, <2>1, <2>2, <2>3 DEF FaithfulReply, packet, n
<1>7. CASE n % ch = 0 /\ n # 0
  <2>1. Dec!Outcome(l, ch, packet) = Dec!FrameReply(count, source.pts, back)
    BY <1>2, <1>3, <1>4, <1>7 DEF Dec!Outcome
  <2>2. n \div ch < U32Modulus => count * ch = n
    <3>. HIDE DEF n
    <3>1. n \div ch \in Nat /\ (n \div ch) * ch = n
      BY <1>1, <1>7, DivModNat, ExactCount
    <3>2. n \div ch < U32Modulus => count = n \div ch
      BY <3>1, NotTruncated, StreamAssumption
    <3>. QED
      BY <3>1, <3>2
  <2>3. Len(back) = 2 * n
    BY <1>2, DecodeSliceType
  <2>4. ASSUME NEW k \in 1..n
        PROVE  Represents(l, EncodeSample(l, SampleAt(back, k)), SampleAt(plane, k))
    BY <1>1, DecodedRepresents
  <2>. HIDE DEF count, back
  <2>5. /\ Dec!FrameReply(count, source.pts, back).status = "frame"
        /\ Dec!FrameReply(count, source.pts, back).frame.pts = source.pts
        /\ Dec!FrameReply(count, source.pts, back).frame.samples = count
        /\ Dec!FrameReply(count, source.pts, back).frame.data[1] = back
    BY DEF Dec!FrameReply
  <2>. HIDE DEF n
  <2>. QED
    BY <1>7, <2>1, <2>2, <2>3, <2>4, <2>5 DEF FaithfulReply, packet, n
<1>. QED
  BY <1>5, <1>6, <1>7

(* What comes out of the decoder is faithful to what went into the         *)
(* encoder: the timestamp, the sample count and every sample to within     *)
(* half a quantising step, or an error exactly when the channels do not    *)
(* divide the samples.  For any frames, channel count and interleaving.    *)
THEOREM Faithful == Spec => []RoundTripIsFaithful
<1>1. Inv => RoundTripIsFaithful
  <2>. SUFFICES ASSUME Inv, NEW i \in 1..Len(dResolved)
                PROVE  FaithfulReply(eLaw, eOutput.channels, eAccepted[i],
                                     dResolved[i])
    BY DEF RoundTripIsFaithful, FaithfulReply
  <2>1. /\ eLaw \in Laws /\ eOutput.channels \in Nat \ {0}
        /\ eAccepted \in Seq(Frames) /\ Transit \in Seq(Enc!PacketType)
        /\ dAccepted \in Seq(Payloads) /\ dResolved \in Seq(Dec!Replies)
    BY SameTypes, TransitType DEF Inv, TypeOK, Enc!TypeOK, Dec!TypeOK
  <2>2. dLaw = eLaw /\ dChannels = eOutput.channels
    BY <2>1 DEF Inv, DecoderFollows
  <2>3. dResolved[i] = Dec!Outcome(eLaw, eOutput.channels, dAccepted[i])
    BY <2>2 DEF Inv, Dec!AnsweredInOrder
  <2>4. i \in 1..Len(dAccepted)
    BY <2>1 DEF Inv, Dec!AnsweredInOrder
  <2>5. InOrder(eLaw, eAccepted, Transit, dAccepted)
    BY OrderIs DEF Inv
  <2>6. dAccepted[i] = PayloadOf(eLaw, eAccepted[i]) /\ i \in 1..Len(eAccepted)
    BY <2>1, <2>4, <2>5 DEF InOrder
  <2>7. eAccepted[i] \in Frames /\ Enc!Encodable(eAccepted[i])
    BY <2>1, <2>6 DEF Inv, OnlyEncodable
  <2>. QED
    BY <2>1, <2>3, <2>6, <2>7, AnswerFaithful
<1>. QED
  BY <1>1, Invariant, PTL
=============================================================================
