------------------------------ MODULE Loopback ------------------------------
(***************************************************************************)
(* A client that drives an encoder and a decoder made from the same        *)
(* parameters, as src/fuzz/fuzz_targets/streaming_pipeline.rs and          *)
(* src/tests/multichannel_roundtrip.rs do: frames in, packets across,      *)
(* frames out, with draining eager or deferred at every step and the       *)
(* decoder possibly flushed, and possibly replaced, in mid-stream.         *)
(*                                                                         *)
(* The client holds at most one packet it has taken from the encoder and   *)
(* not yet got the decoder to accept.  To end the stream it flushes the    *)
(* encoder, waits for the encoder to ask for more, flushes the decoder and *)
(* drains it to Eof.                                                       *)
(***************************************************************************)
EXTENDS G711Tables

CONSTANTS Frames, Timestamps, ChannelOptions, NoValue, U32Modulus, MaxFrames

VARIABLES eMade, eLaw, eOutput, eTimeBase, eQueue, eReply, eAccepted, eReceived,
          dMade, dLaw, dChannels, dPending, dEof, dReply, dAccepted, dResolved,
          held,   \* packet between the two, or NoValue
          phase   \* "feeding", "closing", "ending", "draining", "finished"

encoder == <<eMade, eLaw, eOutput, eTimeBase, eQueue, eReply, eAccepted,
             eReceived>>
decoder == <<dMade, dLaw, dChannels, dPending, dEof, dReply, dAccepted,
             dResolved>>
vars    == <<encoder, decoder, held, phase>>

Enc == INSTANCE G711Encoder WITH
    FormatOptions <- {NoValue}, RateOptions <- {NoValue},
    made <- eMade, law <- eLaw, output <- eOutput, time_base <- eTimeBase,
    queue <- eQueue, reply <- eReply, accepted <- eAccepted,
    received <- eReceived

(* What the decoder looks at in a packet of the encoder.                   *)
Payload(packet) == [pts |-> packet.pts, data |-> packet.data]

Encoded(frame) == Payload(Enc!EncodedPacket(eLaw, eTimeBase, frame))

Payloads ==
    {[pts |-> f.pts, data |-> EncodeSliceFromLeBytes(l, f.data[1])] :
        l \in Laws, f \in {frame \in Frames : Enc!Encodable(frame)}}

Dec == INSTANCE G711Decoder WITH
    Packets <- Payloads,
    MaxSends <- MaxFrames,
    made <- dMade, law <- dLaw, channels <- dChannels, pending <- dPending,
    eof <- dEof, reply <- dReply, accepted <- dAccepted, resolved <- dResolved

(* What the two ends assume of their constants, for the constants here.    *)
ASSUME StreamAssumption ==
    /\ Frames \subseteq [kind : {"audio", "other"}, pts : Timestamps,
                         samples : Nat, data : Seq(Seq(Byte))]
    /\ ChannelOptions \subseteq Nat \cup {NoValue}
    /\ NoValue \notin Nat /\ NoValue # "S16"
    /\ NoValue \notin Payloads /\ NoValue \notin Enc!PacketType
    /\ U32Modulus \in Nat \ {0}
    /\ MaxFrames \in Nat

-----------------------------------------------------------------------------
Init == Enc!Init /\ Dec!Init /\ held = NoValue /\ phase = "feeding"

OpenEncoder ==
    /\ \E l \in Laws, option \in ChannelOptions :
          Enc!MakeEncoder(l, option, NoValue, NoValue)
    /\ UNCHANGED <<decoder, held, phase>>

(* The decoder is made from the parameters the encoder was made from; a    *)
(* missing channel count has the same default at both ends.                *)
OpenDecoder ==
    /\ eMade
    /\ Dec!MakeDecoder(eLaw, eOutput.channels)
    /\ UNCHANGED <<encoder, held, phase>>

Ready == eMade /\ dMade

Feed ==
    /\ Ready /\ phase = "feeding"
    /\ \E frame \in Frames : Enc!SendFrame(frame)
    /\ UNCHANGED <<decoder, held, phase>>

(* Mutant: the client does not wait for the encoder to run dry.            *)
CloseAtOnce ==
    /\ Ready /\ phase = "feeding"
    /\ Enc!Flush
    /\ phase' = "ending"
    /\ UNCHANGED <<decoder, held>>

Close ==
    /\ Ready /\ phase = "feeding"
    /\ Enc!Flush
    /\ phase' = "closing"
    /\ UNCHANGED <<decoder, held>>

(* Take a packet from the encoder; once closing, NeedMore means that the   *)
(* encoder has none left.                                                  *)
Fetch ==
    /\ Ready /\ held = NoValue /\ phase \in {"feeding", "closing"}
    /\ Enc!ReceivePacket
    /\ held' = IF eReply'.status = "packet" THEN eReply'.packet ELSE NoValue
    /\ phase' = IF phase = "closing" /\ eReply'.status = "need_more"
                THEN "ending" ELSE phase
    /\ UNCHANGED decoder

(* Mutant: a refused packet is forgotten.                                  *)
ForwardOnce ==
    /\ Ready /\ held # NoValue
    /\ Dec!SendPacket(Payload(held))
    /\ held' = NoValue
    /\ UNCHANGED <<encoder, phase>>

(* Offer the held packet to the decoder, and keep it if it is refused.     *)
Forward ==
    /\ Ready /\ held # NoValue
    /\ Dec!SendPacket(Payload(held))
    /\ held' = IF dReply'.status = "accepted" THEN NoValue ELSE held
    /\ UNCHANGED <<encoder, phase>>

Drain ==
    /\ Ready /\ phase # "finished"
    /\ Dec!ReceiveFrame
    /\ phase' = IF phase = "draining" /\ dReply'.status = "eof"
                THEN "finished" ELSE phase
    /\ UNCHANGED <<encoder, held>>

FlushDecoder ==
    /\ Ready /\ phase = "ending"
    /\ Dec!Flush
    /\ phase' = "draining"
    /\ UNCHANGED <<encoder, held>>

(* The mid-stream flush of the fuzz target.  A client that goes on with    *)
(* the flushed decoder finds that it accepts packets, and that it reports  *)
(* Eof instead of NeedMore in between.                                     *)
FlushMidStream ==
    /\ Ready /\ phase = "feeding" /\ ~dEof
    /\ Dec!Flush
    /\ UNCHANGED <<encoder, held, phase>>

(* Mutant: the client does not wait for Eof before it drops the decoder.   *)
RebuildDecoderEarly ==
    /\ Ready /\ phase = "feeding" /\ dEof
    /\ dPending' = NoValue /\ dEof' = FALSE
    /\ dReply' = Dec!Status("created")
    /\ UNCHANGED <<encoder, dMade, dLaw, dChannels, dAccepted, dResolved,
                   held, phase>>

(* Or, having read Eof from it, the client drops the flushed decoder and   *)
(* makes a fresh one from the same parameters; the histories go on.        *)
RebuildDecoder ==
    /\ Ready /\ phase = "feeding" /\ dEof
    /\ dReply.status = "eof"
    /\ dPending' = NoValue /\ dEof' = FALSE
    /\ dReply' = Dec!Status("created")
    /\ UNCHANGED <<encoder, dMade, dLaw, dChannels, dAccepted, dResolved,
                   held, phase>>

Finished == phase = "finished" /\ UNCHANGED vars

Next == \/ OpenEncoder \/ OpenDecoder \/ Feed \/ Close \/ Fetch \/ Forward
        \/ Drain \/ FlushDecoder \/ FlushMidStream \/ RebuildDecoder
        \/ Finished

(* The client opens both ends, ends its input some day, and keeps moving   *)
(* packets and draining; nothing obliges it to send a frame.               *)
Fairness ==
    /\ WF_vars(\E l \in Laws : Enc!MakeEncoder(l, NoValue, NoValue, NoValue)
                                /\ UNCHANGED <<decoder, held, phase>>)
    /\ WF_vars(OpenDecoder) /\ WF_vars(Close) /\ WF_vars(Fetch)
    /\ WF_vars(Forward) /\ WF_vars(Drain) /\ WF_vars(FlushDecoder)

Spec == Init /\ [][Next]_vars
FairSpec == Spec /\ Fairness

-----------------------------------------------------------------------------
(* Both components and the client's two variables are well typed.          *)
TypeOK ==
    /\ Enc!TypeOK
    /\ Dec!TypeOK
    /\ held \in Enc!PacketType \cup {NoValue}
    /\ phase \in {"feeding", "closing", "ending", "draining", "finished"}

(* The packets on their way: in the client's hand, then in the encoder.    *)
Transit == (IF held = NoValue THEN <<>> ELSE <<held>>) \o eQueue

(* End to end nothing is lost, duplicated or reordered: the packets the    *)
(* decoder accepted, then the one the client holds, then those queued in   *)
(* the encoder are the encodings of the frames sent, in order, whatever    *)
(* the interleaving of feeding and draining and whatever was refused.      *)
NothingLostInTransit ==
    /\ Len(eAccepted) = Len(dAccepted) + Len(Transit)
    /\ \A i \in 1..Len(dAccepted) : dAccepted[i] = Encoded(eAccepted[i])
    /\ \A i \in 1..Len(Transit) :
          Payload(Transit[i]) = Encoded(eAccepted[Len(dAccepted) + i])

SampleCount(frame) == Len(frame.data[1]) \div 2

(* What comes out of the decoder for a frame that went into the encoder:   *)
(* an error exactly when the channel count does not divide the frame's     *)
(* samples (the encoder lets it through, the decoder does not), and        *)
(* otherwise a frame with the timestamp and the samples per channel of the *)
(* source (as long as their count fits a u32), each sample within half a   *)
(* quantising step of the source.                                          *)
RoundTripIsFaithful ==
    \A i \in 1..Len(dResolved) :
        LET source == eAccepted[i]
            n      == SampleCount(source)
        IN  IF n % eOutput.channels # 0
            THEN dResolved[i].status = "invalid"
            ELSE /\ dResolved[i].status = "frame"
                 /\ LET frame == dResolved[i].frame
                        plane == frame.data[1]
                    IN  /\ frame.pts = source.pts
                        /\ n \div eOutput.channels < U32Modulus =>
                              frame.samples * eOutput.channels = n
                        /\ Len(plane) = 2 * n
                        /\ \A k \in 1..n :
                              Represents(eLaw,
                                         EncodeSample(eLaw, SampleAt(plane, k)),
                                         SampleAt(source.data[1], k))

(* The closing handshake is sound: when the client has seen Eof after      *)
(* flushing both ends, every frame it sent has been answered and nothing   *)
(* is left in the encoder, in its own hands or in the decoder, even if the *)
(* decoder was flushed or replaced in mid-stream before.                   *)
FinishedMeansComplete ==
    phase = "finished" =>
        /\ Len(dResolved) = Len(eAccepted)
        /\ eQueue = <<>> /\ held = NoValue /\ dPending = NoValue

(* The stream ends: no refusal, NeedMore or early Eof makes the two ends   *)
(* and the client wait for each other for ever.                            *)
StreamFinishes == <>(phase = "finished")
=============================================================================
