----------------------------- MODULE G711Encoder -----------------------------
(***************************************************************************)
(* UlawEncoder and AlawEncoder (src/src/mulaw.rs, src/src/alaw.rs): the    *)
(* factory with its defaults, the conversion send_frame performs at once,  *)
(* and the unbounded packet queue receive_packet drains.  The two structs  *)
(* differ only in the table they index, so the law is the variable the     *)
(* factory sets.                                                           *)
(*                                                                         *)
(* reply is what the last call returned.  accepted and received are        *)
(* history: the frames send_frame took and the packets handed out.         *)
(***************************************************************************)
EXTENDS G711Tables

CONSTANTS Frames,          \* the frames a client may send
          Timestamps,      \* the values of AudioFrame::pts
          ChannelOptions,  \* the values of CodecParameters::channels
          FormatOptions,   \* the values of CodecParameters::sample_format
          RateOptions,     \* the values of CodecParameters::sample_rate
          NoValue,         \* Option::None
          MaxFrames        \* bound on accepted frames

(* A frame of another media kind carries nothing the encoder looks at.     *)
ASSUME FramesAssumption ==
    Frames \subseteq [kind : {"audio", "other"}, pts : Timestamps,
                      samples : Nat, data : Seq(Seq(Byte))]

ASSUME OptionsAssumption ==
    /\ ChannelOptions \subseteq Nat \cup {NoValue}
    /\ RateOptions \subseteq Nat \cup {NoValue}
    /\ NoValue \notin Nat
    /\ NoValue # "S16"
    /\ MaxFrames \in Nat

VARIABLES made,      \* make_encoder has returned an encoder
          law,       \* whose factory made it
          output,    \* UlawEncoder::output, the parameters announced
          time_base, \* UlawEncoder::time_base, <<numerator, denominator>>
          queue,     \* UlawEncoder::queue
          reply,     \* what the last call returned
          accepted,  \* history: frames accepted, in order
          received   \* history: packets handed out, in order

vars == <<made, law, output, time_base, queue, reply, accepted, received>>

Status(s) == [status |-> s]

PacketReply(packet) == [status |-> "packet", packet |-> packet]

UnwrapOr(option, default) == IF option = NoValue THEN default ELSE option

DefaultRate == 8000    \* Hz, for a missing sample_rate

-----------------------------------------------------------------------------
Init ==
    /\ made = FALSE
    /\ law = "mulaw"
    /\ output = [channels      |-> 1,
                 sample_format |-> "S16",
                 sample_rate   |-> DefaultRate]
    /\ time_base = <<1, DefaultRate>>
    /\ queue = <<>>
    /\ reply = Status("idle")
    /\ accepted = <<>> /\ received = <<>>

(* Mutant: no check of the channel count.                                  *)
MakeEncoderUnchecked(l, channels, format, rate) ==
    /\ ~made
    /\ IF UnwrapOr(format, "S16") # "S16"
       THEN /\ reply' = Status("unsupported")
            /\ UNCHANGED <<made, law, output, time_base>>
       ELSE /\ reply' = Status("created")
            /\ made' = TRUE /\ law' = l
            /\ output' = [channels      |-> UnwrapOr(channels, 1),
                          sample_format |-> "S16",
                          sample_rate   |-> UnwrapOr(rate, DefaultRate)]
            /\ time_base' = <<1, UnwrapOr(rate, DefaultRate)>>
    /\ UNCHANGED <<queue, accepted, received>>

(* make_encoder: zero channels and any format but S16 are refused; missing *)
(* values become mono, S16 and 8000 Hz, and only missing ones: a rate of 0 *)
(* is kept and becomes the denominator of the time base.                   *)
MakeEncoder(l, channels, format, rate) ==
    /\ ~made
    /\ IF UnwrapOr(channels, 1) = 0 \/ UnwrapOr(format, "S16") # "S16"
       THEN /\ reply' = Status("unsupported")
            /\ UNCHANGED <<made, law, output, time_base>>
       ELSE /\ reply' = Status("created")
            /\ made' = TRUE /\ law' = l
            /\ output' = [channels      |-> UnwrapOr(channels, 1),
                          sample_format |-> "S16",
                          sample_rate   |-> UnwrapOr(rate, DefaultRate)]
            /\ time_base' = <<1, UnwrapOr(rate, DefaultRate)>>
    /\ UNCHANGED <<queue, accepted, received>>

(* Mutant: the last plane is encoded.                                      *)
EncodedPacketLastPlane(l, tb, frame) ==
    [time_base |-> tb,
     pts       |-> frame.pts,
     dts       |-> frame.pts,
     duration  |-> frame.samples,
     keyframe  |-> TRUE,
     data      |-> EncodeSliceFromLeBytes(l, frame.data[Len(frame.data)])]

(* The packet send_frame builds: the first plane only, timestamps copied,  *)
(* and the duration the frame claims, not the one its bytes amount to.     *)
EncodedPacket(l, tb, frame) ==
    [time_base |-> tb,
     pts       |-> frame.pts,
     dts       |-> frame.pts,
     duration  |-> frame.samples,
     keyframe  |-> TRUE,
     data      |-> EncodeSliceFromLeBytes(l, frame.data[1])]

(* The checks of send_frame: audio, at least one plane, whole samples.     *)
(* The sample count is not compared with the number of channels.           *)
Encodable(frame) ==
    /\ frame.kind = "audio"
    /\ frame.data # <<>>
    /\ Len(frame.data[1]) % 2 = 0

(* Mutant: the packet is pushed at the front of the queue.                 *)
SendFrameAtFront(frame) ==
    /\ made
    /\ Len(accepted) < MaxFrames
    /\ IF Encodable(frame)
       THEN /\ reply' = Status("accepted")
            /\ queue' = <<EncodedPacket(law, time_base, frame)>> \o queue
            /\ accepted' = Append(accepted, frame)
       ELSE /\ reply' = Status("invalid")
            /\ UNCHANGED <<queue, accepted>>
    /\ UNCHANGED <<made, law, output, time_base, received>>

SendFrame(frame) ==
    /\ made
    /\ Len(accepted) < MaxFrames
    /\ IF Encodable(frame)
       THEN /\ reply' = Status("accepted")
            /\ queue' = Append(queue, EncodedPacket(law, time_base, frame))
            /\ accepted' = Append(accepted, frame)
       ELSE /\ reply' = Status("invalid")
            /\ UNCHANGED <<queue, accepted>>
    /\ UNCHANGED <<made, law, output, time_base, received>>

ReceiveQueued ==
    /\ made
    /\ queue # <<>>
    /\ reply' = PacketReply(Head(queue))
    /\ queue' = Tail(queue)
    /\ received' = Append(received, Head(queue))
    /\ UNCHANGED <<made, law, output, time_base, accepted>>

(* An empty queue is NeedMore, before and after a flush: there is no Eof.  *)
ReceiveNothing ==
    /\ made
    /\ queue = <<>>
    /\ reply' = Status("need_more")
    /\ UNCHANGED <<made, law, output, time_base, queue, accepted, received>>

ReceivePacket == ReceiveQueued \/ ReceiveNothing

(* Mutant: flushing empties the queue.                                     *)
FlushClearing ==
    /\ made
    /\ reply' = Status("flushed")
    /\ queue' = <<>>
    /\ UNCHANGED <<made, law, output, time_base, accepted, received>>

(* flush changes nothing: the encoder holds no partial packet.             *)
Flush ==
    /\ made
    /\ reply' = Status("flushed")
    /\ UNCHANGED <<made, law, output, time_base, queue, accepted, received>>

Next ==
    \/ \E l \in Laws, channels \in ChannelOptions,
          format \in FormatOptions, rate \in RateOptions :
            MakeEncoder(l, channels, format, rate)
    \/ \E frame \in Frames : SendFrame(frame)
    \/ ReceivePacket
    \/ Flush

(* A client that owns an encoder keeps draining it.                        *)
Fairness == WF_vars(ReceivePacket)

Spec == Init /\ [][Next]_vars
FairSpec == Spec /\ Fairness

-----------------------------------------------------------------------------
Statuses == {"idle", "created", "unsupported", "accepted", "invalid",
             "need_more", "flushed"}

TimeBases == {1} \X Nat

PacketType == [time_base : TimeBases, pts : Timestamps, dts : Timestamps,
               duration : Nat, keyframe : {TRUE}, data : Seq(Byte)]

Replies == [status : Statuses] \cup [status : {"packet"}, packet : PacketType]

(* The variables have the types of the encoder struct.                     *)
TypeOK ==
    /\ made \in BOOLEAN
    /\ law \in Laws
    /\ output \in [channels : Nat \ {0}, sample_format : {"S16"},
                   sample_rate : Nat]
    /\ time_base \in TimeBases
    /\ queue \in Seq(PacketType)
    /\ reply \in Replies
    /\ accepted \in Seq(Frames)
    /\ received \in Seq(PacketType)

(* The queue between send_frame and receive_packet neither loses,          *)
(* duplicates nor reorders: the packets handed out followed by those still *)
(* queued are the encodings of the accepted frames, in order, one each,    *)
(* all in the time base of the announced sample rate.                      *)
PacketsInOrder ==
    /\ Len(accepted) = Len(received) + Len(queue)
    /\ \A i \in 1..Len(received) :
          received[i] = EncodedPacket(law, <<1, output.sample_rate>>, accepted[i])
    /\ \A i \in 1..Len(queue) :
          queue[i] = EncodedPacket(law, <<1, output.sample_rate>>,
                                   accepted[Len(received) + i])

(* A packet handed out holds one codeword per 16-bit sample of its frame's *)
(* first plane, each within half a quantising step of that sample as the   *)
(* decoder of the same law sees it.                                        *)
PacketsAreFaithful ==
    \A i \in 1..Len(received) :
        LET plane == accepted[i].data[1]
            data  == received[i].data
        IN  /\ 2 * Len(data) = Len(plane)
            /\ \A k \in 1..Len(data) :
                  Represents(law, data[k], SampleAt(plane, k))

(* Every frame send_frame accepts eventually leaves as a packet.           *)
EveryFrameDelivered ==
    \A n \in 1..MaxFrames :
        Len(accepted) >= n ~> Len(received) >= n

-----------------------------------------------------------------------------
(* The encoder is a stream stage that converts eagerly: what it owes is    *)
(* the queue itself.  MaxFrames + 1 stands for a queue without a limit.    *)
Stage == INSTANCE StreamStage WITH
    Capacity        <- MaxFrames + 1,
    AnnouncesEnd    <- FALSE,
    NeutralStatuses <- {"created", "unsupported", "invalid"},
    due   <- [i \in 1..Len(queue) |-> PacketReply(queue[i])],
    ended <- FALSE

(* Refinement: a rejected frame leaves no trace, flushing disturbs no      *)
(* queued packet, and a drained encoder always asks for more.              *)
ImplementsStage == Stage!Spec

-----------------------------------------------------------------------------
(* What factory_params.rs says of make_encoder: a sample rate of 0 becomes *)
(* 8000.  The code substitutes 8000 for a missing rate only.               *)
ZeroRateIsDefaulted == made => output.sample_rate # 0
=============================================================================
