-------------------------- MODULE G711DecoderProofs --------------------------
(***************************************************************************)
(* Theorems about the decoder, for every set of packets, every channel     *)
(* count and any number of calls: its variables are well typed, accepted   *)
(* packets are answered once each and in order, Eof means that the decoder *)
(* is drained, and the decoder implements StreamStage.                     *)
(***************************************************************************)
EXTENDS G711Decoder, CompandingProofs

(* What receive_frame returns for a packet is a reply, and it is either a  *)
(* frame or the error of a misaligned packet.                              *)
LEMMA OutcomeType ==
    ASSUME NEW l \in Laws, NEW ch \in Nat \ {0}, NEW packet \in Packets
    PROVE  /\ Outcome(l, ch, packet) \in Replies
           /\ Outcome(l, ch, packet).status \in {"frame", "invalid"}
<1>1. packet.pts \in Timestamps /\ packet.data \in Seq(Byte)
  BY PacketsAssumption
<1>2. Len(packet.data) \in Nat
  BY <1>1
<1>3. ASSUME NEW n \in Nat, NEW plane \in Seq(Byte)
      PROVE  /\ FrameReply(n, packet.pts, plane) \in Replies
             /\ FrameReply(n, packet.pts, plane).status = "frame"
  <2>1. <<plane>> \in Seq(Seq(Byte))
    OBVIOUS
  <2>. QED
    BY <1>1, <2>1 DEF FrameReply, Replies, AudioFrames
<1>4. CASE Len(packet.data) = 0
  <2>1. <<>> \in Seq(Byte) /\ 0 \in Nat
    OBVIOUS
  <2>2. Outcome(l, ch, packet) = FrameReply(0, packet.pts, <<>>)
    BY <1>4 DEF Outcome
  <2>. QED
    BY <1>3, <2>1, <2>2
<1>5. CASE Len(packet.data) # 0 /\ Len(packet.data) % ch # 0
  BY <1>5 DEF Outcome, Status, Replies, Statuses
<1>6. CASE Len(packet.data) # 0 /\ Len(packet.data) % ch = 0
  <2>1. Len(packet.data) \div ch \in Nat
    BY <1>2, DivModNat
  <2>2. (Len(packet.data) \div ch) % U32Modulus \in Nat
    BY <2>1, DivModNat, OptionsAssumption
  <2>3. DecodeSliceToLeBytes(l, packet.data) \in Seq(Byte)
    BY <1>1, DecodeSliceType
  <2>. QED
    BY <1>3, <1>6, <2>2, <2>3 DEF Outcome
<1>. QED
  BY <1>4, <1>5, <1>6

(* A status other than "frame" is a reply by itself.                       *)
LEMMA StatusType ==
    \A s \in Statuses : Status(s) \in Replies /\ Status(s).status = s
BY DEF Status, Replies

(* A channel option that is not refused is a positive channel count.       *)
LEMMA ChannelsPositive ==
    ASSUME NEW option \in ChannelOptions, UnwrapOr(option, 1) # 0
    PROVE  UnwrapOr(option, 1) \in Nat \ {0}
BY OptionsAssumption DEF UnwrapOr

-----------------------------------------------------------------------------
(* The variables of the decoder keep their types, and its channel count    *)
(* is never 0, whatever the client calls and in whatever order.            *)
THEOREM TypeCorrect == Spec => []TypeOK
<1>1. Init => TypeOK
  <2>. SUFFICES ASSUME Init
                PROVE  TypeOK
    OBVIOUS
  <2>1. reply \in Replies
    BY StatusType DEF Init, Statuses
  <2>2. law \in Laws
    BY DEF Init, Laws
  <2>3. accepted \in Seq(Packets) /\ resolved \in Seq(Replies)
    BY DEF Init
  <2>4. made \in BOOLEAN /\ eof \in BOOLEAN
    BY DEF Init
  <2>5. channels \in Nat \ {0} /\ pending \in Packets \cup {NoValue}
    BY DEF Init
  <2>. QED
    BY <2>1, <2>2, <2>3, <2>4, <2>5 DEF TypeOK
<1>2. TypeOK /\ [Next]_vars => TypeOK'
  <2>. SUFFICES ASSUME TypeOK, [Next]_vars
                PROVE  TypeOK'
    OBVIOUS
  <2>1. ASSUME NEW l \in Laws, NEW option \in ChannelOptions,
               MakeDecoder(l, option)
        PROVE  TypeOK'
    <3>1. reply' \in Replies
      BY <2>1, StatusType DEF MakeDecoder, Statuses
    <3>2. channels' \in Nat \ {0}
      BY <2>1, ChannelsPositive DEF MakeDecoder, TypeOK
    <3>3. made' \in BOOLEAN /\ law' \in Laws
      BY <2>1 DEF MakeDecoder, TypeOK
    <3>. QED
      BY <2>1, <3>1, <3>2, <3>3 DEF MakeDecoder, TypeOK
  <2>2. ASSUME NEW packet \in Packets, SendPacket(packet)
        PROVE  TypeOK'
    <3>1. reply' \in Replies
      BY <2>2, StatusType DEF SendPacket, Statuses
    <3>2. pending' \in {pending, packet}
      BY <2>2 DEF SendPacket
    <3>3. accepted' = accepted \/ accepted' = Append(accepted, packet)
      BY <2>2 DEF SendPacket
    <3>4. pending' \in Packets \cup {NoValue}
      BY <3>2 DEF TypeOK
    <3>5. accepted' \in Seq(Packets)
      BY <3>3 DEF TypeOK
    <3>6. UNCHANGED <<made, law, channels, eof, resolved>>
      BY <2>2 DEF SendPacket
    <3>. QED
      BY <3>1, <3>4, <3>5, <3>6 DEF TypeOK
  <2>3. CASE ReceivePending
    <3>1. reply' \in Replies
      BY <2>3, OutcomeType DEF ReceivePending, TypeOK
    <3>. QED
      BY <2>3, <3>1 DEF ReceivePending, TypeOK
  <2>4. CASE ReceiveNothing
    <3>1. reply' \in Replies
      BY <2>4, StatusType DEF ReceiveNothing, Statuses
    <3>. QED
      BY <2>4, <3>1 DEF ReceiveNothing, TypeOK
  <2>5. CASE Flush
    <3>1. reply' \in Replies
      BY <2>5, StatusType DEF Flush, Statuses
    <3>. QED
      BY <2>5, <3>1 DEF Flush, TypeOK
  <2>6. CASE UNCHANGED vars
    BY <2>6 DEF vars, TypeOK
  <2>. QED
    BY <2>1, <2>2, <2>3, <2>4, <2>5, <2>6 DEF Next, ReceiveFrame
<1>. QED
  BY <1>1, <1>2, PTL DEF Spec

-----------------------------------------------------------------------------
(* Strengthening: before the factory succeeds nothing has been sent, so    *)
(* the law and channel count it sets cannot contradict an earlier answer.  *)
UnusedUntilMade ==
    ~made => pending = NoValue /\ accepted = <<>> /\ resolved = <<>>

LEMMA Unused == Spec => []UnusedUntilMade
<1>1. Init => UnusedUntilMade
  BY DEF Init, UnusedUntilMade
<1>2. UnusedUntilMade /\ [Next]_vars => UnusedUntilMade'
  BY DEF UnusedUntilMade, Next, MakeDecoder, SendPacket, ReceiveFrame,
         ReceivePending, ReceiveNothing, Flush, vars
<1>. QED
  BY <1>1, <1>2, PTL DEF Spec

(* Every accepted packet is answered once, in the order of acceptance, and *)
(* the one packet not yet answered is the one in the slot.                 *)
THEOREM Order == Spec => []AnsweredInOrder
<1>1. Init => AnsweredInOrder
  BY DEF Init, AnsweredInOrder
<1>2. TypeOK /\ UnusedUntilMade /\ AnsweredInOrder /\ [Next]_vars
        => AnsweredInOrder'
  <2>. SUFFICES ASSUME TypeOK, UnusedUntilMade, AnsweredInOrder, [Next]_vars
                PROVE  AnsweredInOrder'
    OBVIOUS
  <2>1. ASSUME NEW l \in Laws, NEW option \in ChannelOptions,
               MakeDecoder(l, option)
        PROVE  AnsweredInOrder'
    <3>1. pending = NoValue /\ accepted = <<>> /\ resolved = <<>>
      BY <2>1 DEF MakeDecoder, UnusedUntilMade
    <3>2. UNCHANGED <<pending, accepted, resolved>>
      BY <2>1 DEF MakeDecoder
    <3>. QED
      BY <3>1, <3>2 DEF AnsweredInOrder
  <2>2. ASSUME NEW packet \in Packets, SendPacket(packet)
        PROVE  AnsweredInOrder'
    <3>1. CASE pending # NoValue
      BY <2>2, <3>1 DEF SendPacket, AnsweredInOrder
    <3>2. CASE pending = NoValue
      <4>1. /\ pending' = packet /\ packet # NoValue
            /\ accepted' = Append(accepted, packet)
            /\ UNCHANGED <<law, channels, resolved>>
        BY <2>2, <3>2, PacketsAssumption DEF SendPacket
      <4>2. Len(accepted) = Len(resolved)
        BY <3>2 DEF AnsweredInOrder, TypeOK
      <4>3. /\ Len(accepted') = Len(accepted) + 1
            /\ accepted'[Len(accepted')] = packet
            /\ \A i \in 1..Len(accepted) : accepted'[i] = accepted[i]
        BY <4>1 DEF TypeOK
      <4>. QED
        BY <4>1, <4>2, <4>3 DEF AnsweredInOrder, TypeOK
    <3>. QED
      BY <3>1, <3>2
  <2>3. CASE ReceivePending
    <3>1. /\ pending # NoValue /\ pending' = NoValue
          /\ resolved' = Append(resolved, Outcome(law, channels, pending))
          /\ UNCHANGED <<law, channels, accepted>>
      BY <2>3 DEF ReceivePending
    <3>2. /\ Len(accepted) = Len(resolved) + 1
          /\ pending = accepted[Len(resolved) + 1]
      BY <3>1 DEF AnsweredInOrder, TypeOK
    <3>3. /\ Len(resolved') = Len(resolved) + 1
          /\ resolved'[Len(resolved) + 1] = Outcome(law, channels, pending)
          /\ \A i \in 1..Len(resolved) : resolved'[i] = resolved[i]
      <4>1. Outcome(law, channels, pending) \in Replies
        BY <3>1, OutcomeType DEF TypeOK
      <4>. QED
        BY <3>1, <4>1 DEF TypeOK
    <3>. QED
      BY <3>1, <3>2, <3>3 DEF AnsweredInOrder, TypeOK
  <2>4. CASE ReceiveNothing
    BY <2>4 DEF ReceiveNothing, AnsweredInOrder
  <2>5. CASE Flush
    BY <2>5 DEF Flush, AnsweredInOrder
  <2>6. CASE UNCHANGED vars
    BY <2>6 DEF vars, AnsweredInOrder
  <2>. QED
    BY <2>1, <2>2, <2>3, <2>4, <2>5, <2>6 DEF Next, ReceiveFrame
<1>. QED
  BY <1>1, <1>2, TypeCorrect, Unused, PTL DEF Spec

(* Eof is reported only by a flushed decoder that owes no answer.          *)
THEOREM EofIsFinal == Spec => []EofMeansDrained
<1>1. Init => EofMeansDrained
  BY DEF Init, EofMeansDrained, Status
<1>2. TypeOK /\ AnsweredInOrder /\ EofMeansDrained /\ [Next]_vars
        => EofMeansDrained'
  <2>. SUFFICES ASSUME TypeOK, AnsweredInOrder, EofMeansDrained, [Next]_vars
                PROVE  EofMeansDrained'
    OBVIOUS
  <2>1. ASSUME NEW l \in Laws, NEW option \in ChannelOptions,
               MakeDecoder(l, option)
        PROVE  EofMeansDrained'
    BY <2>1 DEF MakeDecoder, EofMeansDrained, Status
  <2>2. ASSUME NEW packet \in Packets, SendPacket(packet)
        PROVE  EofMeansDrained'
    BY <2>2 DEF SendPacket, EofMeansDrained, Status
  <2>3. CASE ReceivePending
    <3>1. reply'.status \in {"frame", "invalid"}
      BY <2>3, OutcomeType DEF ReceivePending, TypeOK
    <3>. QED
      BY <3>1 DEF EofMeansDrained
  <2>4. CASE ReceiveNothing
    <3>1. Len(accepted) = Len(resolved)
      BY <2>4 DEF ReceiveNothing, AnsweredInOrder, TypeOK
    <3>2. reply'.status = "eof" => eof
      BY <2>4 DEF ReceiveNothing, Status
    <3>. QED
      BY <2>4, <3>1, <3>2 DEF ReceiveNothing, EofMeansDrained
  <2>5. CASE Flush
    BY <2>5 DEF Flush, EofMeansDrained, Status
  <2>6. CASE UNCHANGED vars
    BY <2>6 DEF vars, EofMeansDrained
  <2>. QED
    BY <2>1, <2>2, <2>3, <2>4, <2>5, <2>6 DEF Next, ReceiveFrame
<1>. QED
  BY <1>1, <1>2, TypeCorrect, Order, PTL DEF Spec

-----------------------------------------------------------------------------
(* What FramesAreFaithful asks of the answer to one packet.                *)
FaithfulAnswer(l, ch, packet, answer) ==
    LET n == Len(packet.data)
    IN  CASE answer.status = "frame" ->
                LET frame == answer.frame
                IN  /\ frame.pts = packet.pts
                    /\ n \div ch < U32Modulus => frame.samples * ch = n
                    /\ Len(frame.data) = 1
                    /\ EncodeSliceFromLeBytes(l, frame.data[1])
                         = [k \in 1..n |-> Canonical(l, packet.data[k])]
          [] answer.status = "invalid" -> n % ch # 0
          [] OTHER -> FALSE

(* Encoding a plane without bytes gives nothing.                           *)
LEMMA EmptyPlane ==
    ASSUME NEW l \in Laws, NEW input \in Seq(Byte), Len(input) = 0
    PROVE  EncodeSliceFromLeBytes(l, <<>>)
             = [k \in 1..Len(input) |-> Canonical(l, input[k])]
<1>1. <<>> \in Seq(Byte) /\ Len(<<>>) = 0 /\ 0 \div 2 = 0
  OBVIOUS
<1>2. /\ EncodeSliceFromLeBytes(l, <<>>) \in Seq(Byte)
      /\ Len(EncodeSliceFromLeBytes(l, <<>>)) = 0
  BY <1>1, EncodeSliceType
<1>3. EncodeSliceFromLeBytes(l, <<>>) = <<>>
  BY <1>2
<1>4. [k \in 1..Len(input) |-> Canonical(l, input[k])] = <<>>
  OBVIOUS
<1>. QED
  BY <1>3, <1>4

(* What receive_frame makes of any packet is faithful to it.               *)
LEMMA OutcomeFaithful ==
    ASSUME NEW l \in Laws, NEW ch \in Nat \ {0}, NEW packet \in Packets
    PROVE  FaithfulAnswer(l, ch, packet, Outcome(l, ch, packet))
<1>. DEFINE n     == Len(packet.data)
            count == (n \div ch) % U32Modulus
            plane == DecodeSliceToLeBytes(l, packet.data)
<1>1. packet.data \in Seq(Byte) /\ n \in Nat
  BY PacketsAssumption
<1>2. CASE n = 0
  <2>1. Outcome(l, ch, packet) = FrameReply(0, packet.pts, <<>>)
    BY <1>2 DEF Outcome
  <2>2. EncodeSliceFromLeBytes(l, <<>>)
          = [k \in 1..n |-> Canonical(l, packet.data[k])]
    BY <1>1, <1>2, EmptyPlane
  <2>3. 0 * ch = n
    BY <1>2
  <2>. QED
    BY <2>1, <2>2, <2>3 DEF FaithfulAnswer, FrameReply
<1>3. CASE n # 0 /\ n % ch # 0
  <2>1. Outcome(l, ch, packet) = Status("invalid")
    BY <1>3 DEF Outcome
  <2>. QED
    BY <1>3, <2>1 DEF FaithfulAnswer, Status
<1>4. CASE n # 0 /\ n % ch = 0
  <2>1. Outcome(l, ch, packet) = FrameReply(count, packet.pts, plane)
    BY <1>4 DEF Outcome
  <2>2. EncodeSliceFromLeBytes(l, plane)
          = [k \in 1..n |-> Canonical(l, packet.data[k])]
    BY <1>1, SliceRecovers
  <2>3. n \div ch < U32Modulus => count * ch = n
    <3>. HIDE DEF n
    <3>1. n \div ch \in Nat /\ (n \div ch) * ch = n
      BY <1>1, <1>4, DivModNat, ExactCount
    <3>2. n \div ch < U32Modulus => count = n \div ch
      BY <3>1, NotTruncated, OptionsAssumption
    <3>. QED
      BY <3>1, <3>2
  <2>. HIDE DEF n, count, plane
  <2>4. /\ FrameReply(count, packet.pts, plane).status = "frame"
        /\ FrameReply(count, packet.pts, plane).frame.pts = packet.pts
        /\ FrameReply(count, packet.pts, plane).frame.samples = count
        /\ Len(FrameReply(count, packet.pts, plane).frame.data) = 1
        /\ FrameReply(count, packet.pts, plane).frame.data[1] = plane
    BY DEF FrameReply
  <2>. QED
    BY <2>1, <2>2, <2>3, <2>4 DEF FaithfulAnswer, n
<1>. QED
  BY <1>2, <1>3, <1>4

(* Every frame handed out accounts for its whole packet, keeps its         *)
(* timestamp and carries PCM from which the encoder of the same law        *)
(* recovers every codeword; an error is reported only for a packet that is *)
(* not a whole number of samples.  For every packet of any length.         *)
THEOREM Faithful == Spec => []FramesAreFaithful
<1>1. TypeOK /\ AnsweredInOrder => FramesAreFaithful
  <2>. SUFFICES ASSUME TypeOK, AnsweredInOrder,
                       NEW i \in 1..Len(resolved)
                PROVE  FaithfulAnswer(law, channels, accepted[i], resolved[i])
    BY DEF FramesAreFaithful, FaithfulAnswer
  <2>1. resolved[i] = Outcome(law, channels, accepted[i])
    BY DEF AnsweredInOrder
  <2>2. accepted[i] \in Packets
    <3>1. i \in 1..Len(accepted)
      BY DEF AnsweredInOrder, TypeOK
    <3>. QED
      BY <3>1 DEF TypeOK
  <2>3. law \in Laws /\ channels \in Nat \ {0}
    BY DEF TypeOK
  <2>. QED
    BY <2>1, <2>2, <2>3, OutcomeFaithful
<1>. QED
  BY <1>1, TypeCorrect, Order, PTL

-----------------------------------------------------------------------------
(* The decoder implements the stream stage: every call is a step of the    *)
(* stage or none, so the answer to a packet is fixed by send_packet.       *)
THEOREM Refinement == Spec => ImplementsStage
<1>1. Init => Stage!Init
  BY DEF Init, Stage!Init, Status
<1>2. TypeOK /\ UnusedUntilMade /\ [Next]_vars => [Stage!Next]_Stage!vars
  <2>. SUFFICES ASSUME TypeOK, UnusedUntilMade, [Next]_vars
                PROVE  [Stage!Next]_Stage!vars
    OBVIOUS
  <2>1. ASSUME NEW l \in Laws, NEW option \in ChannelOptions,
               MakeDecoder(l, option)
        PROVE  Stage!Neutral
    <3>1. reply'.status \in {"created", "unsupported", "busy"}
      BY <2>1 DEF MakeDecoder, Status
    <3>2. pending = NoValue /\ UNCHANGED <<pending, eof>>
      BY <2>1 DEF MakeDecoder, UnusedUntilMade
    <3>. QED
      BY <3>1, <3>2 DEF Stage!Neutral
  <2>2. ASSUME NEW packet \in Packets, SendPacket(packet), pending # NoValue
        PROVE  Stage!Neutral
    <3>1. reply'.status \in {"created", "unsupported", "busy"}
      BY <2>2 DEF SendPacket, Status
    <3>2. UNCHANGED <<law, channels, pending, eof>>
      BY <2>2 DEF SendPacket
    <3>. QED
      BY <3>1, <3>2 DEF Stage!Neutral
  <2>3. ASSUME NEW packet \in Packets, SendPacket(packet), pending = NoValue
        PROVE  Stage!Accept
    <3>1. /\ pending' = packet /\ packet # NoValue
          /\ reply' = [status |-> "accepted"] /\ UNCHANGED eof
      BY <2>3, PacketsAssumption DEF SendPacket, Status
    <3>2. SubSeq(<<Outcome(law, channels, packet)>>, 1, 0) = <<>>
      OBVIOUS
    <3>. QED
      BY <2>3, <3>1, <3>2 DEF Stage!Accept, SendPacket
  <2>4. CASE ReceivePending
    <3>1. /\ pending # NoValue /\ pending' = NoValue
          /\ reply' = Outcome(law, channels, pending) /\ UNCHANGED eof
      BY <2>4 DEF ReceivePending
    <3>2. Stage!Answer
      BY <3>1 DEF Stage!Answer
    <3>. QED
      BY <3>2 DEF Stage!Next
  <2>5. CASE ReceiveNothing
    <3>1. /\ pending = NoValue /\ UNCHANGED <<pending, eof>>
          /\ reply' = [status |-> IF eof THEN "eof" ELSE "need_more"]
      BY <2>5 DEF ReceiveNothing, Status
    <3>2. Stage!Starve
      BY <3>1 DEF Stage!Starve
    <3>. QED
      BY <3>2 DEF Stage!Next
  <2>6. CASE Flush
    <3>1. /\ eof' = TRUE /\ UNCHANGED <<law, channels, pending>>
          /\ reply' = [status |-> "flushed"]
      BY <2>6 DEF Flush, Status
    <3>2. Stage!End
      BY <3>1 DEF Stage!End
    <3>. QED
      BY <3>2 DEF Stage!Next
  <2>7. CASE UNCHANGED vars
    BY <2>7 DEF vars, Stage!vars
  <2>. QED
    BY <2>1, <2>2, <2>3, <2>4, <2>5, <2>6, <2>7
       DEF Next, ReceiveFrame, Stage!Next
<1>. QED
  BY <1>1, <1>2, TypeCorrect, Unused, PTL
     DEF Spec, ImplementsStage, Stage!Spec
=============================================================================
