----------------------------- MODULE G711Decoder -----------------------------
(***************************************************************************)
(* UlawDecoder and AlawDecoder (src/src/mulaw.rs, src/src/alaw.rs): the    *)
(* factory, the one-slot mailbox between send_packet and receive_frame,    *)
(* and the sticky end-of-stream flag.  The two structs differ only in the  *)
(* table they index, so the law is the variable the factory sets.          *)
(*                                                                         *)
(* reply is what the last call returned.  accepted and resolved are        *)
(* history: the packets send_packet took and the answers receive_frame     *)
(* gave for them.                                                          *)
(***************************************************************************)
EXTENDS G711Tables

CONSTANTS Packets,         \* the packets a client may send: [pts, data]
          Timestamps,      \* the values of Packet::pts
          ChannelOptions,  \* the values of CodecParameters::channels
          NoValue,         \* Option::None
          U32Modulus,      \* `as u32` keeps the value modulo this (2^32)
          MaxSends         \* bound on accepted packets

ASSUME PacketsAssumption ==
    /\ Packets \subseteq [pts : Timestamps, data : Seq(Byte)]
    /\ NoValue \notin Packets

ASSUME OptionsAssumption ==
    /\ ChannelOptions \subseteq Nat \cup {NoValue}
    /\ NoValue \notin Nat
    /\ U32Modulus \in Nat \ {0}
    /\ MaxSends \in Nat

VARIABLES made,      \* make_decoder has returned a decoder
          law,       \* whose factory made it
          channels,  \* UlawDecoder::channels
          pending,   \* UlawDecoder::pending
          eof,       \* UlawDecoder::eof
          reply,     \* what the last call returned
          accepted,  \* history: packets accepted, in order
          resolved   \* history: answers to accepted packets, in order

vars == <<made, law, channels, pending, eof, reply, accepted, resolved>>

Status(s) == [status |-> s]

FrameReply(samples, pts, plane) ==
    [status |-> "frame",
     frame  |-> [samples |-> samples, pts |-> pts, data |-> <<plane>>]]

-----------------------------------------------------------------------------
Init ==
    /\ made = FALSE
    /\ law = "mulaw" /\ channels = 1
    /\ pending = NoValue /\ eof = FALSE
    /\ reply = Status("idle")
    /\ accepted = <<>> /\ resolved = <<>>

UnwrapOr(option, default) == IF option = NoValue THEN default ELSE option

(* Mutant: no check of the channel count.                                  *)
MakeDecoderUnchecked(l, option) ==
    /\ ~made
    /\ reply' = Status("created")
    /\ made' = TRUE /\ law' = l /\ channels' = UnwrapOr(option, 1)
    /\ UNCHANGED <<pending, eof, accepted, resolved>>

(* make_decoder: a missing channel count means mono, zero is refused.      *)
MakeDecoder(l, option) ==
    /\ ~made
    /\ LET ch == UnwrapOr(option, 1)
       IN  IF ch = 0
           THEN /\ reply' = Status("unsupported")
                /\ UNCHANGED <<made, law, channels>>
           ELSE /\ reply' = Status("created")
                /\ made' = TRUE /\ law' = l /\ channels' = ch
    /\ UNCHANGED <<pending, eof, accepted, resolved>>

(* Mutant: a packet in the slot is overwritten.                            *)
SendPacketOverwriting(packet) ==
    /\ made
    /\ Len(accepted) < MaxSends
    /\ reply' = Status("accepted")
    /\ pending' = packet
    /\ accepted' = Append(accepted, packet)
    /\ UNCHANGED <<made, law, channels, eof, resolved>>

(* send_packet: refused while the slot is taken; neither the packet's      *)
(* length nor the end-of-stream flag is looked at.                         *)
SendPacket(packet) ==
    /\ made
    /\ Len(accepted) < MaxSends
    /\ IF pending # NoValue
       THEN /\ reply' = Status("busy")
            /\ UNCHANGED <<pending, accepted>>
       ELSE /\ reply' = Status("accepted")
            /\ pending' = packet
            /\ accepted' = Append(accepted, packet)
    /\ UNCHANGED <<made, law, channels, eof, resolved>>

(* Mutant: the sample count is not divided by the channels.                *)
OutcomePerSample(l, ch, packet) ==
    LET n == Len(packet.data)
    IN  IF n = 0
        THEN FrameReply(0, packet.pts, <<>>)
        ELSE IF n % ch # 0
        THEN Status("invalid")
        ELSE FrameReply(n % U32Modulus, packet.pts,
                        DecodeSliceToLeBytes(l, packet.data))

(* What receive_frame makes of a packet it has taken from the slot.        *)
Outcome(l, ch, packet) ==
    LET n == Len(packet.data)
    IN  IF n = 0
        THEN FrameReply(0, packet.pts, <<>>)
        ELSE IF n % ch # 0
        THEN Status("invalid")
        ELSE FrameReply((n \div ch) % U32Modulus, packet.pts,
                        DecodeSliceToLeBytes(l, packet.data))

(* Mutant: the slot is looked at only before the end of the stream.        *)
ReceivePendingBeforeEof ==
    /\ made
    /\ pending # NoValue /\ ~eof
    /\ pending' = NoValue
    /\ reply' = Outcome(law, channels, pending)
    /\ resolved' = Append(resolved, reply')
    /\ UNCHANGED <<made, law, channels, eof, accepted>>

(* receive_frame with a packet in the slot: the slot is emptied first, so  *)
(* a packet that turns out to be misaligned is gone.                       *)
ReceivePending ==
    /\ made
    /\ pending # NoValue
    /\ pending' = NoValue
    /\ reply' = Outcome(law, channels, pending)
    /\ resolved' = Append(resolved, reply')
    /\ UNCHANGED <<made, law, channels, eof, accepted>>

(* Mutant: the flag is looked at before the slot.                          *)
ReceiveNothingEofFirst ==
    /\ made
    /\ pending = NoValue \/ eof
    /\ reply' = Status(IF eof THEN "eof" ELSE "need_more")
    /\ UNCHANGED <<made, law, channels, pending, eof, accepted, resolved>>

(* Mutant: the flag is never looked at.                                    *)
ReceiveNothingNoEof ==
    /\ made
    /\ pending = NoValue
    /\ reply' = Status("need_more")
    /\ UNCHANGED <<made, law, channels, pending, eof, accepted, resolved>>

(* receive_frame with an empty slot.                                       *)
ReceiveNothing ==
    /\ made
    /\ pending = NoValue
    /\ reply' = Status(IF eof THEN "eof" ELSE "need_more")
    /\ UNCHANGED <<made, law, channels, pending, eof, accepted, resolved>>

ReceiveFrame == ReceivePending \/ ReceiveNothing

(* Mutant: flushing empties the slot.                                      *)
FlushDropping ==
    /\ made
    /\ eof' = TRUE
    /\ pending' = NoValue
    /\ reply' = Status("flushed")
    /\ UNCHANGED <<made, law, channels, accepted, resolved>>

(* flush: raises the flag, which nothing lowers.                           *)
Flush ==
    /\ made
    /\ eof' = TRUE
    /\ reply' = Status("flushed")
    /\ UNCHANGED <<made, law, channels, pending, accepted, resolved>>

Next ==
    \/ \E l \in Laws, option \in ChannelOptions : MakeDecoder(l, option)
    \/ \E packet \in Packets : SendPacket(packet)
    \/ ReceiveFrame
    \/ Flush

(* A client that owns a decoder keeps draining it: every caller in the     *)
(* tests and benches follows a send by receive_frame.                      *)
Fairness == WF_vars(ReceiveFrame)

Spec == Init /\ [][Next]_vars
FairSpec == Spec /\ Fairness

-----------------------------------------------------------------------------
Statuses == {"idle", "created", "unsupported", "accepted", "busy",
             "need_more", "eof", "flushed", "invalid"}

AudioFrames == [samples : Nat, pts : Timestamps, data : Seq(Seq(Byte))]

Replies == [status : Statuses] \cup [status : {"frame"}, frame : AudioFrames]

(* The variables have the types of the decoder struct; channels is never   *)
(* 0, which the divisions in receive_frame rely on.                        *)
TypeOK ==
    /\ made \in BOOLEAN
    /\ law \in Laws
    /\ channels \in Nat \ {0}
    /\ pending \in Packets \cup {NoValue}
    /\ eof \in BOOLEAN
    /\ reply \in Replies
    /\ accepted \in Seq(Packets)
    /\ resolved \in Seq(Replies)

(* The mailbox of send_packet / receive_frame neither loses, duplicates    *)
(* nor reorders: the answers given are those of the accepted packets, in   *)
(* order, one each, and the only packet not answered is the one in the     *)
(* slot.  Errors count as answers: a misaligned packet is used up by the   *)
(* call that reports it and cannot be reported again.                      *)
AnsweredInOrder ==
    /\ Len(accepted) = Len(resolved) + (IF pending = NoValue THEN 0 ELSE 1)
    /\ pending # NoValue => pending = accepted[Len(accepted)]
    /\ \A i \in 1..Len(resolved) :
          resolved[i] = Outcome(law, channels, accepted[i])

(* receive_frame reports Eof only to a client that flushed and has been    *)
(* given the answer to every packet it sent: a drain loop that stops at    *)
(* Eof never leaves a frame behind.                                        *)
EofMeansDrained ==
    reply.status = "eof" => eof /\ Len(resolved) = Len(accepted)

(* A frame accounts for its whole packet: its sample count times the       *)
(* channels is the packet's length (as long as the count fits a u32), it   *)
(* keeps the timestamp, and it carries, whatever the count, PCM from which *)
(* the encoder of the same law recovers every codeword (negative zero      *)
(* becoming positive zero).  Only a packet whose length the channel count  *)
(* does not divide is answered by an error.                                *)
FramesAreFaithful ==
    \A i \in 1..Len(resolved) :
        LET packet == accepted[i]
            n      == Len(packet.data)
        IN  CASE resolved[i].status = "frame" ->
                    LET frame == resolved[i].frame
                    IN  /\ frame.pts = packet.pts
                        /\ n \div channels < U32Modulus =>
                              frame.samples * channels = n
                        /\ Len(frame.data) = 1
                        /\ EncodeSliceFromLeBytes(law, frame.data[1])
                             = [k \in 1..n |-> Canonical(law, packet.data[k])]
              [] resolved[i].status = "invalid" -> n % channels # 0
              [] OTHER -> FALSE

(* Every packet send_packet accepts is eventually answered, flushes and    *)
(* refused sends notwithstanding.                                          *)
EveryPacketAnswered ==
    \A n \in 1..MaxSends :
        Len(accepted) >= n ~> Len(resolved) >= n

(* A flushed decoder that is kept drained ends up reporting Eof, also when *)
(* the flush came while a packet was still in the slot.  MaxSends stands   *)
(* for the client running out of packets; without it a client that keeps   *)
(* sending after the flush keeps getting frames.                           *)
FlushLeadsToEof == eof ~> reply.status = "eof"

-----------------------------------------------------------------------------
(* The decoder is a stream stage of capacity 1 that converts on demand:    *)
(* what it owes is the outcome of the packet in its slot.                  *)
Stage == INSTANCE StreamStage WITH
    Capacity        <- 1,
    AnnouncesEnd    <- TRUE,
    NeutralStatuses <- {"created", "unsupported", "busy"},
    due   <- IF pending = NoValue THEN <<>>
                                  ELSE <<Outcome(law, channels, pending)>>,
    ended <- eof

(* Refinement: the answer to a packet is fixed when send_packet takes it;  *)
(* no flush or refused send in between alters, drops or repeats it.        *)
ImplementsStage == Stage!Spec

-----------------------------------------------------------------------------
(* What streaming_pipeline.rs calls the spec-level guarantee of flush:     *)
(* after it, once drained, the decoder is at its end.  The code goes on    *)
(* accepting packets and decoding them.                                    *)
FlushIsTerminal ==
    [][eof /\ Len(accepted) = Len(resolved) => accepted' = accepted]_vars
=============================================================================
