-------------------------- MODULE G711EncoderProofs --------------------------
(***************************************************************************)
(* Theorems about the encoder, for every set of frames, every parameter    *)
(* and any number of calls: its variables are well typed, and the packets  *)
(* handed out and queued are the encodings of the accepted frames, once    *)
(* each and in order.                                                      *)
(***************************************************************************)
EXTENDS G711Encoder, CompandingProofs

(* A frame send_frame accepts is encoded to a well-formed packet.          *)
LEMMA EncodedPacketType ==
    ASSUME NEW l \in Laws, NEW tb \in TimeBases, NEW frame \in Frames,
           Encodable(frame)
    PROVE  EncodedPacket(l, tb, frame) \in PacketType
<1>1. /\ frame.pts \in Timestamps /\ frame.samples \in Nat
      /\ frame.data \in Seq(Seq(Byte))
  BY FramesAssumption
<1>2. frame.data[1] \in Seq(Byte)
  <2>1. frame.data # <<>>
    BY DEF Encodable
  <2>2. 1 \in 1..Len(frame.data)
    BY <1>1, <2>1
  <2>. QED
    BY <1>1, <2>2
<1>3. EncodeSliceFromLeBytes(l, frame.data[1]) \in Seq(Byte)
  BY <1>2, EncodeSliceType
<1>. QED
  BY <1>1, <1>3 DEF EncodedPacket, PacketType

(* A status other than "packet" is a reply by itself.                      *)
LEMMA StatusType == \A s \in Statuses : Status(s) \in Replies
BY DEF Status, Replies

(* The default sample rate of make_encoder is a natural.                   *)
LEMMA DefaultRateType == DefaultRate \in Nat
BY DEF DefaultRate

(* A missing or natural option with a natural default is a natural.        *)
LEMMA UnwrapOrType ==
    ASSUME NEW default \in Nat, NEW option \in Nat \cup {NoValue}
    PROVE  UnwrapOr(option, default) \in Nat
BY DEF UnwrapOr

-----------------------------------------------------------------------------
(* The variables of the encoder keep their types, its channel count is     *)
(* never 0 and its format never other than S16.                            *)
THEOREM TypeCorrect == Spec => []TypeOK
<1>1. Init => TypeOK
  <2>. SUFFICES ASSUME Init
                PROVE  TypeOK
    OBVIOUS
  <2>1. reply \in Replies
    BY StatusType DEF Init, Statuses
  <2>2. made \in BOOLEAN
    BY DEF Init
  <2>3. law \in Laws
    BY DEF Init, Laws
  <2>4. /\ queue \in Seq(PacketType)
        /\ accepted \in Seq(Frames) /\ received \in Seq(PacketType)
    <3>1. queue = <<>> /\ accepted = <<>> /\ received = <<>>
      BY DEF Init
    <3>. QED
      BY <3>1
  <2>5. /\ output \in [channels : Nat \ {0}, sample_format : {"S16"},
                       sample_rate : Nat]
        /\ time_base \in TimeBases
    BY DefaultRateType DEF Init, TimeBases
  <2>. QED
    BY <2>1, <2>2, <2>3, <2>4, <2>5 DEF TypeOK
<1>2. TypeOK /\ [Next]_vars => TypeOK'
  <2>. SUFFICES ASSUME TypeOK, [Next]_vars
                PROVE  TypeOK'
    OBVIOUS
  <2>1. ASSUME NEW l \in Laws, NEW channels \in ChannelOptions,
               NEW format \in FormatOptions, NEW rate \in RateOptions,
               MakeEncoder(l, channels, format, rate)
        PROVE  TypeOK'
    <3>1. UnwrapOr(channels, 1) \in Nat /\ UnwrapOr(rate, DefaultRate) \in Nat
      BY UnwrapOrType, DefaultRateType, OptionsAssumption
    <3>2. CASE UnwrapOr(channels, 1) = 0 \/ UnwrapOr(format, "S16") # "S16"
      <4>1. reply' \in Replies
        BY <2>1, <3>2, StatusType DEF MakeEncoder, Statuses
      <4>. QED
        BY <2>1, <3>2, <4>1 DEF MakeEncoder, TypeOK
    <3>3. CASE ~(UnwrapOr(channels, 1) = 0 \/ UnwrapOr(format, "S16") # "S16")
      <4>1. reply' \in Replies
        BY <2>1, <3>3, StatusType DEF MakeEncoder, Statuses
      <4>2. made' \in BOOLEAN /\ law' \in Laws
        BY <2>1, <3>3 DEF MakeEncoder
      <4>3. output' \in [channels : Nat \ {0}, sample_format : {"S16"},
                         sample_rate : Nat]
        BY <2>1, <3>1, <3>3 DEF MakeEncoder
      <4>4. time_base' \in TimeBases
        BY <2>1, <3>1, <3>3 DEF MakeEncoder, TimeBases
      <4>. QED
        BY <2>1, <4>1, <4>2, <4>3, <4>4 DEF MakeEncoder, TypeOK
    <3>. QED
      BY <3>2, <3>3
  <2>2. ASSUME NEW frame \in Frames, SendFrame(frame)
        PROVE  TypeOK'
    <3>1. reply' \in Replies
      BY <2>2, StatusType DEF SendFrame, Statuses
    <3>2. CASE Encodable(frame)
      <4>1. EncodedPacket(law, time_base, frame) \in PacketType
        BY <3>2, EncodedPacketType DEF TypeOK
      <4>2. queue' \in Seq(PacketType) /\ accepted' \in Seq(Frames)
        <5>1. /\ queue' = Append(queue, EncodedPacket(law, time_base, frame))
              /\ accepted' = Append(accepted, frame)
          BY <2>2, <3>2 DEF SendFrame
        <5>2. queue \in Seq(PacketType) /\ accepted \in Seq(Frames)
          BY DEF TypeOK
        <5>. QED
          BY <4>1, <5>1, <5>2
      <4>. QED
        BY <2>2, <3>1, <4>2 DEF SendFrame, TypeOK
    <3>3. CASE ~Encodable(frame)
      BY <2>2, <3>1, <3>3 DEF SendFrame, TypeOK
    <3>. QED
      BY <3>2, <3>3
  <2>3. CASE ReceiveQueued
    <3>1. /\ Head(queue) \in PacketType
          /\ Tail(queue) \in Seq(PacketType)
      BY <2>3 DEF ReceiveQueued, TypeOK
    <3>2. reply' \in Replies
      BY <2>3, <3>1 DEF ReceiveQueued, PacketReply, Replies
    <3>3. received' \in Seq(PacketType)
      BY <2>3, <3>1 DEF ReceiveQueued, TypeOK
    <3>. QED
      BY <2>3, <3>1, <3>2, <3>3 DEF ReceiveQueued, TypeOK
  <2>4. CASE ReceiveNothing
    <3>1. reply' \in Replies
      BY <2>4, StatusType DEF ReceiveNothing, Statuses
    <3>. QED
      BY <2>4, <3>1 DEF ReceiveNothing, TypeOK
  <2>5. CASE Flush
    <3>1. reply' \in Replies
      BY <2>5, StatusType DEF Flush, Statuses
    <3>. QED
      BY <2>5, <3>1 DEF Flush, TypeOK
  <2>6. CASE UNCHANGED vars
    BY <2>6 DEF vars, TypeOK
  <2>. QED
    BY <2>1, <2>2, <2>3, <2>4, <2>5, <2>6 DEF Next, ReceivePacket
<1>. QED
  BY <1>1, <1>2, PTL DEF Spec

-----------------------------------------------------------------------------
(* Strengthening: before the factory succeeds nothing has been sent, and   *)
(* the time base is always that of the announced sample rate.              *)
Consistent ==
    /\ ~made => queue = <<>> /\ accepted = <<>> /\ received = <<>>
    /\ time_base = <<1, output.sample_rate>>

LEMMA AlwaysConsistent == Spec => []Consistent
<1>1. Init => Consistent
  BY DEF Init, Consistent
<1>2. Consistent /\ [Next]_vars => Consistent'
  <2>. SUFFICES ASSUME Consistent, [Next]_vars
                PROVE  Consistent'
    OBVIOUS
  <2>1. ASSUME NEW l \in Laws, NEW channels \in ChannelOptions,
               NEW format \in FormatOptions, NEW rate \in RateOptions,
               MakeEncoder(l, channels, format, rate)
        PROVE  Consistent'
    BY <2>1 DEF MakeEncoder, Consistent
  <2>2. ASSUME NEW frame \in Frames, SendFrame(frame)
        PROVE  Consistent'
    BY <2>2 DEF SendFrame, Consistent
  <2>3. CASE ReceivePacket
    BY <2>3 DEF ReceivePacket, ReceiveQueued, ReceiveNothing, Consistent
  <2>4. CASE Flush
    BY <2>4 DEF Flush, Consistent
  <2>5. CASE UNCHANGED vars
    BY <2>5 DEF vars, Consistent
  <2>. QED
    BY <2>1, <2>2, <2>3, <2>4, <2>5 DEF Next
<1>. QED
  BY <1>1, <1>2, PTL DEF Spec

(* Every accepted frame leaves as one packet, encoded with the encoder's   *)
(* law and time base, in the order of acceptance.                          *)
THEOREM Order == Spec => []PacketsInOrder
<1>1. Init => PacketsInOrder
  BY DEF Init, PacketsInOrder
<1>2. TypeOK /\ Consistent /\ PacketsInOrder /\ [Next]_vars => PacketsInOrder'
  <2>. SUFFICES ASSUME TypeOK, Consistent, PacketsInOrder, [Next]_vars
                PROVE  PacketsInOrder'
    OBVIOUS
  <2>1. ASSUME NEW l \in Laws, NEW channels \in ChannelOptions,
               NEW format \in FormatOptions, NEW rate \in RateOptions,
               MakeEncoder(l, channels, format, rate)
        PROVE  PacketsInOrder'
    <3>1. queue = <<>> /\ accepted = <<>> /\ received = <<>>
      BY <2>1 DEF MakeEncoder, Consistent
    <3>2. UNCHANGED <<queue, accepted, received>>
      BY <2>1 DEF MakeEncoder
    <3>. QED
      BY <3>1, <3>2 DEF PacketsInOrder
  <2>2. ASSUME NEW frame \in Frames, SendFrame(frame)
        PROVE  PacketsInOrder'
    <3>1. CASE ~Encodable(frame)
      BY <2>2, <3>1 DEF SendFrame, PacketsInOrder
    <3>2. CASE Encodable(frame)
      <4>. DEFINE packet == EncodedPacket(law, <<1, output.sample_rate>>, frame)
      <4>1. /\ queue' = Append(queue, packet)
            /\ accepted' = Append(accepted, frame)
            /\ UNCHANGED <<law, output, received>>
        BY <2>2, <3>2 DEF SendFrame, Consistent
      <4>. HIDE DEF packet
      <4>2. /\ Len(queue') = Len(queue) + 1
            /\ queue'[Len(queue) + 1] = packet
            /\ \A i \in 1..Len(queue) : queue'[i] = queue[i]
        BY <4>1 DEF TypeOK
      <4>3. /\ Len(accepted') = Len(accepted) + 1
            /\ accepted'[Len(accepted) + 1] = frame
            /\ \A i \in 1..Len(accepted) : accepted'[i] = accepted[i]
        BY <4>1 DEF TypeOK
      <4>4. Len(accepted) = Len(received) + Len(queue)
        BY DEF PacketsInOrder
      <4>5. Len(queue) \in Nat /\ Len(received) \in Nat
        BY DEF TypeOK
      <4>6. ASSUME NEW i \in 1..Len(received')
            PROVE  received'[i] = EncodedPacket(law', <<1, output'.sample_rate>>,
                                                accepted'[i])
        <5>1. i \in 1..Len(received) /\ i \in 1..Len(accepted)
          BY <4>1, <4>4, <4>5
        <5>. QED
          BY <4>1, <4>3, <5>1 DEF PacketsInOrder
      <4>7. ASSUME NEW i \in 1..Len(queue')
            PROVE  queue'[i] = EncodedPacket(law', <<1, output'.sample_rate>>,
                                             accepted'[Len(received') + i])
        <5>1. CASE i \in 1..Len(queue)
          <6>1. Len(received) + i \in 1..Len(accepted)
            BY <4>4, <4>5, <5>1
          <6>. QED
            BY <4>1, <4>2, <4>3, <5>1, <6>1 DEF PacketsInOrder
        <5>2. CASE i = Len(queue) + 1
          <6>1. Len(received) + i = Len(accepted) + 1
            BY <4>4, <4>5, <5>2
          <6>. QED
            BY <4>1, <4>2, <4>3, <5>2, <6>1 DEF packet
        <5>. QED
          BY <4>2, <4>5, <5>1, <5>2
      <4>8. Len(accepted') = Len(received') + Len(queue')
        BY <4>1, <4>2, <4>3, <4>4, <4>5
      <4>. QED
        BY <4>6, <4>7, <4>8 DEF PacketsInOrder
    <3>. QED
      BY <3>1, <3>2
  <2>3. CASE ReceiveQueued
    <3>1. /\ queue # <<>> /\ queue' = Tail(queue)
          /\ received' = Append(received, Head(queue))
          /\ UNCHANGED <<law, output, accepted>>
      BY <2>3 DEF ReceiveQueued
    <3>2. /\ Len(queue) \in Nat \ {0} /\ Len(received) \in Nat
          /\ Head(queue) = queue[1]
          /\ Len(queue') = Len(queue) - 1
          /\ \A i \in 1..(Len(queue) - 1) : queue'[i] = queue[i + 1]
      BY <3>1 DEF TypeOK
    <3>3. /\ Len(received') = Len(received) + 1
          /\ received'[Len(received) + 1] = queue[1]
          /\ \A i \in 1..Len(received) : received'[i] = received[i]
      BY <3>1, <3>2 DEF TypeOK
    <3>4. queue[1] = EncodedPacket(law, <<1, output.sample_rate>>,
                                   accepted[Len(received) + 1])
      <4>1. 1 \in 1..Len(queue)
        BY <3>2
      <4>2. \A i \in 1..Len(queue) :
               queue[i] = EncodedPacket(law, <<1, output.sample_rate>>,
                                        accepted[Len(received) + i])
        BY DEF PacketsInOrder
      <4>. QED
        BY <4>1, <4>2
    <3>5. ASSUME NEW i \in 1..Len(received')
          PROVE  received'[i] = EncodedPacket(law', <<1, output'.sample_rate>>,
                                              accepted'[i])
      <4>1. CASE i \in 1..Len(received)
        BY <3>1, <3>3, <4>1 DEF PacketsInOrder
      <4>2. CASE i = Len(received) + 1
        BY <3>1, <3>3, <3>4, <4>2
      <4>. QED
        BY <3>2, <3>3, <4>1, <4>2
    <3>6. ASSUME NEW i \in 1..Len(queue')
          PROVE  queue'[i] = EncodedPacket(law', <<1, output'.sample_rate>>,
                                           accepted'[Len(received') + i])
      <4>1. /\ i \in 1..(Len(queue) - 1) /\ i + 1 \in 1..Len(queue)
            /\ Len(received) + (i + 1) = Len(received') + i
        BY <3>2, <3>3
      <4>2. queue[i + 1] = EncodedPacket(law, <<1, output.sample_rate>>,
                                         accepted[Len(received) + (i + 1)])
        BY <4>1 DEF PacketsInOrder
      <4>. QED
        BY <3>1, <3>2, <4>1, <4>2
    <3>7. Len(accepted') = Len(received') + Len(queue')
      <4>1. Len(accepted) = Len(received) + Len(queue)
        BY DEF PacketsInOrder
      <4>. QED
        BY <3>1, <3>2, <3>3, <4>1
    <3>. QED
      BY <3>5, <3>6, <3>7 DEF PacketsInOrder
  <2>4. CASE ReceiveNothing
    BY <2>4 DEF ReceiveNothing, PacketsInOrder
  <2>5. CASE Flush
    BY <2>5 DEF Flush, PacketsInOrder
  <2>6. CASE UNCHANGED vars
    BY <2>6 DEF vars, PacketsInOrder
  <2>. QED
    BY <2>1, <2>2, <2>3, <2>4, <2>5, <2>6 DEF Next, ReceivePacket
<1>. QED
  BY <1>1, <1>2, TypeCorrect, AlwaysConsistent, PTL DEF Spec

-----------------------------------------------------------------------------
(* Strengthening: what send_frame has accepted passed its checks.          *)
AcceptedEncodable == \A i \in 1..Len(accepted) : Encodable(accepted[i])

LEMMA AlwaysEncodable == Spec => []AcceptedEncodable
<1>1. Init => AcceptedEncodable
  BY DEF Init, AcceptedEncodable
<1>2. TypeOK /\ AcceptedEncodable /\ [Next]_vars => AcceptedEncodable'
  <2>. SUFFICES ASSUME TypeOK, AcceptedEncodable, [Next]_vars
                PROVE  AcceptedEncodable'
    OBVIOUS
  <2>1. CASE UNCHANGED accepted
    BY <2>1 DEF AcceptedEncodable
  <2>2. ASSUME NEW frame \in Frames, SendFrame(frame), Encodable(frame)
        PROVE  AcceptedEncodable'
    <3>1. accepted' = Append(accepted, frame) /\ accepted \in Seq(Frames)
      BY <2>2 DEF SendFrame, TypeOK
    <3>2. /\ Len(accepted') = Len(accepted) + 1 /\ Len(accepted) \in Nat
          /\ accepted'[Len(accepted) + 1] = frame
          /\ \A i \in 1..Len(accepted) : accepted'[i] = accepted[i]
      BY <3>1
    <3>3. ASSUME NEW i \in 1..Len(accepted')
          PROVE  Encodable(accepted'[i])
      BY <2>2, <3>2 DEF AcceptedEncodable
    <3>. QED
      BY <3>3 DEF AcceptedEncodable
  <2>3. UNCHANGED accepted
        \/ \E frame \in Frames : SendFrame(frame) /\ Encodable(frame)
    BY DEF Next, vars, MakeEncoder, SendFrame, ReceivePacket, ReceiveQueued,
           ReceiveNothing, Flush
  <2>. QED
    BY <2>1, <2>2, <2>3
<1>. QED
  BY <1>1, <1>2, TypeCorrect, PTL DEF Spec

(* The data of every packet handed out represents the plane of its frame:  *)
(* one codeword per 16-bit sample, within half a quantising step of it,    *)
(* for every plane of any length.                                          *)
THEOREM Faithful == Spec => []PacketsAreFaithful
<1>1. TypeOK /\ AcceptedEncodable /\ PacketsInOrder => PacketsAreFaithful
  <2>. SUFFICES ASSUME TypeOK, AcceptedEncodable, PacketsInOrder,
                       NEW i \in 1..Len(received)
                PROVE  LET plane == accepted[i].data[1]
                           data  == received[i].data
                       IN  /\ 2 * Len(data) = Len(plane)
                           /\ \A k \in 1..Len(data) :
                                 Represents(law, data[k], SampleAt(plane, k))
    BY DEF PacketsAreFaithful
  <2>. DEFINE plane == accepted[i].data[1]
              data  == received[i].data
  <2>1. i \in 1..Len(accepted) /\ accepted[i] \in Frames
    <3>1. /\ Len(accepted) = Len(received) + Len(queue)
          /\ Len(queue) \in Nat /\ Len(received) \in Nat
      BY DEF PacketsInOrder, TypeOK
    <3>. QED
      BY <3>1 DEF TypeOK
  <2>2. data = EncodeSliceFromLeBytes(law, plane)
    <3>1. received[i] = EncodedPacket(law, <<1, output.sample_rate>>, accepted[i])
      BY DEF PacketsInOrder
    <3>. QED
      BY <3>1 DEF EncodedPacket
  <2>3. plane \in Seq(Byte) /\ Len(plane) % 2 = 0
    <3>1. Encodable(accepted[i])
      BY <2>1 DEF AcceptedEncodable
    <3>2. accepted[i].data \in Seq(Seq(Byte)) /\ accepted[i].data # <<>>
      BY <2>1, <3>1, FramesAssumption DEF Encodable
    <3>3. 1 \in 1..Len(accepted[i].data)
      BY <3>2
    <3>4. plane \in Seq(Byte)
      BY <3>2, <3>3
    <3>5. Len(plane) % 2 = 0
      BY <3>1, Zenon DEF Encodable
    <3>. QED
      BY <3>4, <3>5
  <2>4. law \in Laws
    BY DEF TypeOK
  <2>. HIDE DEF plane, data
  <2>5. Len(data) = Len(plane) \div 2 /\ Len(plane) \in Nat
    BY <2>2, <2>3, <2>4, EncodeSliceType
  <2>6. 2 * Len(data) = Len(plane)
    BY <2>3, <2>5
  <2>7. \A k \in 1..Len(data) : Represents(law, data[k], SampleAt(plane, k))
    BY <2>2, <2>3, <2>4, <2>5, SliceRepresents
  <2>. QED
    BY <2>6, <2>7 DEF plane, data
<1>. QED
  BY <1>1, TypeCorrect, AlwaysEncodable, Order, PTL

-----------------------------------------------------------------------------
(* What the encoder owes for a queue: its packets, as replies.             *)
Due(q) == [i \in 1..Len(q) |-> PacketReply(q[i])]

LEMMA DueType ==
    ASSUME NEW q \in Seq(PacketType)
    PROVE  Due(q) \in Seq(Replies) /\ Len(Due(q)) = Len(q)
<1>1. Len(q) \in Nat
  OBVIOUS
<1>2. ASSUME NEW i \in 1..Len(q)
      PROVE  PacketReply(q[i]) \in Replies
  BY DEF PacketReply, Replies
<1>. QED
  BY <1>1, <1>2 DEF Due

(* Queueing a packet keeps the debts there are and adds one.               *)
LEMMA DueAppend ==
    ASSUME NEW q \in Seq(PacketType), NEW packet \in PacketType
    PROVE  /\ Len(Due(Append(q, packet))) = Len(Due(q)) + 1
           /\ SubSeq(Due(Append(q, packet)), 1, Len(Due(q))) = Due(q)
<1>. DEFINE longer == Append(q, packet)
<1>1. /\ longer \in Seq(PacketType)
      /\ Len(longer) = Len(q) + 1
      /\ \A i \in 1..Len(q) : longer[i] = q[i]
  OBVIOUS
<1>. HIDE DEF longer
<1>2. /\ Due(longer) \in Seq(Replies) /\ Len(Due(longer)) = Len(q) + 1
      /\ Due(q) \in Seq(Replies) /\ Len(Due(q)) = Len(q)
      /\ Len(q) \in Nat
  BY <1>1, DueType
<1>3. \A i \in 1..Len(q) : Due(longer)[i] = Due(q)[i]
  BY <1>1, <1>2 DEF Due
<1>4. SubSeq(Due(longer), 1, Len(q)) = Due(q)
  BY <1>2, <1>3
<1>. QED
  BY <1>2, <1>4 DEF longer

(* Handing out the first packet pays the oldest debt.                      *)
LEMMA DueTail ==
    ASSUME NEW q \in Seq(PacketType), q # <<>>
    PROVE  /\ Due(q) # <<>>
           /\ Head(Due(q)) = PacketReply(Head(q))
           /\ Due(Tail(q)) = Tail(Due(q))
<1>. DEFINE rest == Tail(q)
<1>1. /\ rest \in Seq(PacketType)
      /\ Len(q) \in Nat \ {0} /\ Len(rest) = Len(q) - 1
      /\ Head(q) = q[1]
  OBVIOUS
<1>2. \A i \in 1..Len(rest) : rest[i] = q[i + 1]
  BY <1>1
<1>. HIDE DEF rest
<1>3. /\ Due(rest) \in Seq(Replies) /\ Len(Due(rest)) = Len(q) - 1
      /\ Due(q) \in Seq(Replies) /\ Len(Due(q)) = Len(q)
  BY <1>1, DueType
<1>4. Due(q)[1] = PacketReply(q[1])
  BY <1>1 DEF Due
<1>5. ASSUME NEW i \in 1..Len(rest)
      PROVE  Due(rest)[i] = Due(q)[i + 1]
  <2>1. i + 1 \in 1..Len(q) /\ rest[i] = q[i + 1]
    BY <1>1, <1>2
  <2>. QED
    BY <2>1 DEF Due
<1>6. Due(rest) = Tail(Due(q))
  BY <1>1, <1>3, <1>5
<1>. QED
  BY <1>1, <1>3, <1>4, <1>6 DEF rest

-----------------------------------------------------------------------------
(* The encoder implements the stream stage.  PacketsInOrder bounds the     *)
(* queue by the frames accepted, so the stage never owes too much.         *)
THEOREM Refinement == Spec => ImplementsStage
<1>1. Init => Stage!Init
  BY DEF Init, Stage!Init, Status
<1>2. TypeOK /\ Consistent /\ PacketsInOrder /\ [Next]_vars
        => [Stage!Next]_Stage!vars
  <2>. SUFFICES ASSUME TypeOK, Consistent, PacketsInOrder, [Next]_vars
                PROVE  [Stage!Next]_Stage!vars
    OBVIOUS
  <2>1. ASSUME NEW l \in Laws, NEW channels \in ChannelOptions,
               NEW format \in FormatOptions, NEW rate \in RateOptions,
               MakeEncoder(l, channels, format, rate)
        PROVE  Stage!Neutral
    <3>1. reply'.status \in {"created", "unsupported", "invalid"}
      BY <2>1 DEF MakeEncoder, Status
    <3>2. UNCHANGED queue
      BY <2>1 DEF MakeEncoder
    <3>. QED
      BY <3>1, <3>2 DEF Stage!Neutral
  <2>2. ASSUME NEW frame \in Frames, SendFrame(frame), ~Encodable(frame)
        PROVE  Stage!Neutral
    <3>1. reply'.status \in {"created", "unsupported", "invalid"}
      BY <2>2 DEF SendFrame, Status
    <3>2. UNCHANGED queue
      BY <2>2 DEF SendFrame
    <3>. QED
      BY <3>1, <3>2 DEF Stage!Neutral
  <2>3. ASSUME NEW frame \in Frames, SendFrame(frame), Encodable(frame)
        PROVE  Stage!Accept
    <3>. DEFINE packet == EncodedPacket(law, time_base, frame)
    <3>1. /\ queue' = Append(queue, packet)
          /\ reply' = [status |-> "accepted"]
          /\ Len(accepted) < MaxFrames
      BY <2>3 DEF SendFrame, Status
    <3>2. packet \in PacketType
      BY <2>3, EncodedPacketType DEF TypeOK
    <3>. HIDE DEF packet
    <3>3. /\ Len(Due(queue')) = Len(Due(queue)) + 1
          /\ SubSeq(Due(queue'), 1, Len(Due(queue))) = Due(queue)
      BY <3>1, <3>2, DueAppend DEF TypeOK
    <3>4. Len(Due(queue)) < MaxFrames + 1
      <4>1. Len(accepted) = Len(received) + Len(queue)
        BY DEF PacketsInOrder
      <4>2. /\ Len(accepted) \in Nat /\ Len(received) \in Nat
            /\ Len(queue) \in Nat /\ MaxFrames \in Nat
        BY OptionsAssumption DEF TypeOK
      <4>3. Len(Due(queue)) = Len(queue)
        BY DueType DEF TypeOK
      <4>. QED
        BY <3>1, <4>1, <4>2, <4>3
    <3>. QED
      BY <3>1, <3>3, <3>4 DEF Stage!Accept, Due
  <2>4. CASE ReceiveQueued
    <3>1. /\ queue # <<>> /\ queue' = Tail(queue)
          /\ reply' = PacketReply(Head(queue))
      BY <2>4 DEF ReceiveQueued
    <3>2. /\ Due(queue) # <<>>
          /\ reply' = Head(Due(queue)) /\ Due(queue') = Tail(Due(queue))
      BY <3>1, DueTail DEF TypeOK
    <3>. QED
      BY <3>2 DEF Stage!Answer, Stage!Next, Due
  <2>5. CASE ReceiveNothing
    <3>1. queue = <<>> /\ UNCHANGED queue
      BY <2>5 DEF ReceiveNothing
    <3>2. reply' = [status |-> "need_more"]
      BY <2>5 DEF ReceiveNothing, Status
    <3>3. Stage!Starve
      BY <3>1, <3>2 DEF Stage!Starve
    <3>. QED
      BY <3>3 DEF Stage!Next
  <2>6. CASE Flush
    <3>1. UNCHANGED queue /\ reply' = [status |-> "flushed"]
      BY <2>6 DEF Flush, Status
    <3>2. Stage!End
      BY <3>1 DEF Stage!End
    <3>. QED
      BY <3>2 DEF Stage!Next
  <2>7. CASE UNCHANGED vars
    BY <2>7 DEF vars, Stage!vars
  <2>. QED
    BY <2>1, <2>2, <2>3, <2>4, <2>5, <2>6, <2>7
       DEF Next, ReceivePacket, Stage!Next
<1>. QED
  BY <1>1, <1>2, TypeCorrect, AlwaysConsistent, Order, PTL
     DEF Spec, ImplementsStage, Stage!Spec
=============================================================================
