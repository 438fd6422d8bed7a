------------------------------- MODULE Session -------------------------------
(***************************************************************************)
(* A client program (ClientCalls) run against the decoder and the encoder  *)
(* it owns: each step is one call of the program, answered by the action   *)
(* of G711Decoder or G711Encoder, and followed by what the client does     *)
(* with the answer.  The programs of the repository's drivers are defined  *)
(* in FuzzTargets and Profiler.                                            *)
(***************************************************************************)
EXTENDS ClientCalls

CONSTANTS Programs,    \* the client programs, one of which is run
          U32Modulus,  \* `as u32` keeps the value modulo this (2^32)
          MaxCalls     \* at least the packets or frames of one session

ASSUME ProgramsAssumption ==
    Programs # {} /\ MaxCalls \in Nat /\ U32Modulus \in Nat \ {0}

VARIABLES eMade, eLaw, eOutput, eTimeBase, eQueue, eReply, eAccepted, eReceived,
          dMade, dLaw, dChannels, dPending, dEof, dReply, dAccepted, dResolved,
          program,  \* the program run, a sequence of calls
          pc,       \* the call to make next
          packet,   \* the packet the client received last, or NoValue
          produced, \* the packets the client has put aside
          frame,    \* the frame the client received last, or NoValue
          total_bytes,  \* bytes of the frames received in this session
          outcome   \* "running", "done", "returned", "panicked"

encoder == <<eMade, eLaw, eOutput, eTimeBase, eQueue, eReply, eAccepted,
             eReceived>>
decoder == <<dMade, dLaw, dChannels, dPending, dEof, dReply, dAccepted,
             dResolved>>
client  == <<program, packet, produced, frame, total_bytes>>
vars    == <<encoder, decoder, client, pc, outcome>>

Times == Int \cup {NoValue}

ASSUME NoneAssumption ==
    /\ NoValue \notin Int /\ NoValue # "S16"
    /\ NoValue \notin [pts : Times, data : Seq(Byte)]

Enc == INSTANCE G711Encoder WITH
    Frames <- [kind : {"audio"}, pts : Times, samples : Nat, data : Seq(Seq(Byte))],
    Timestamps <- Times, MaxFrames <- MaxCalls, ChannelOptions <- Nat,
    FormatOptions <- STRING, RateOptions <- Nat,
    made <- eMade, law <- eLaw, output <- eOutput, time_base <- eTimeBase,
    queue <- eQueue, reply <- eReply, accepted <- eAccepted,
    received <- eReceived

Dec == INSTANCE G711Decoder WITH
    Packets <- [pts : Times, data : Seq(Byte)],
    Timestamps <- Times, MaxSends <- MaxCalls, ChannelOptions <- Nat,
    made <- dMade, law <- dLaw, channels <- dChannels, pending <- dPending,
    eof <- dEof, reply <- dReply, accepted <- dAccepted, resolved <- dResolved

-----------------------------------------------------------------------------
Call == program[pc]

AtCall(name) == outcome = "running" /\ pc <= Len(program) /\ Call.call = name

(* Mutant: an error does not end the drain loop.                           *)
AfterReplyForever(reply, good) ==
    CASE Call.onError = "repeat" -> "stay"
      [] Call.onError \in {"need_more", "eof"} ->
            IF reply = Call.onError THEN "next"
            ELSE IF reply \in {good, "eof"} THEN "panic" ELSE "return"
      [] OTHER ->
            IF reply = good THEN "next"
            ELSE IF Call.onError = "ignore" THEN "next" ELSE Call.onError

(* How the client goes on after a reply, where good is a success.          *)
AfterReply(reply, good) ==
    CASE Call.onError = "repeat" -> IF reply = good THEN "stay" ELSE "next"
      [] Call.onError \in {"need_more", "eof"} ->
            IF reply = Call.onError THEN "next"
            ELSE IF reply \in {good, "eof"} THEN "panic" ELSE "return"
      [] OTHER ->
            IF reply = good THEN "next"
            ELSE IF Call.onError = "ignore" THEN "next" ELSE Call.onError

Proceed(reply, good) ==
    LET step == AfterReply(reply, good)
    IN  /\ pc' = pc + (CASE step = "next" -> 1 [] step = "skip" -> 2 [] OTHER -> 0)
        /\ outcome' = CASE step = "panic"  -> "panicked"
                        [] step = "return" -> "returned"
                        [] OTHER           -> outcome

Check(condition) ==
    /\ pc' = pc + 1
    /\ outcome' = IF condition THEN "running" ELSE "panicked"
    /\ UNCHANGED <<encoder, decoder, client>>

Init ==
    /\ Enc!Init /\ Dec!Init
    /\ program \in Programs
    /\ pc = 1
    /\ packet = NoValue /\ frame = NoValue
    /\ produced = <<>>
    /\ total_bytes = 0
    /\ outcome = "running"

MakeDecoder ==
    /\ AtCall("make_decoder")
    /\ Dec!MakeDecoder(Call.law, Call.channels)
    /\ Proceed(dReply'.status, "created")
    /\ UNCHANGED <<encoder, client>>

MakeEncoder ==
    /\ AtCall("make_encoder")
    /\ Enc!MakeEncoder(Call.law, Call.channels, Call.format, Call.rate)
    /\ Proceed(eReply'.status, "created")
    /\ UNCHANGED <<decoder, client>>

(* Packet::new has no timestamp, so that a rebuilt packet loses the one it *)
(* came with.                                                              *)
PacketToSend ==
    CASE Call.source = "given"    -> Call.packet
      [] Call.source = "received" -> [pts |-> packet.pts, data |-> packet.data]
      [] Call.source = "rebuilt"  -> PacketNew(packet.data)
      [] Call.source = "kept"     ->
            [pts |-> Call.pts, data |-> produced[Call.index].data]

SendPacket ==
    /\ AtCall("send_packet")
    /\ Dec!SendPacket(PacketToSend)
    /\ Proceed(dReply'.status, "accepted")
    /\ UNCHANGED <<encoder, client>>

ReceiveFrame ==
    /\ AtCall("receive_frame")
    /\ Dec!ReceiveFrame
    /\ IF dReply'.status = "frame"
       THEN /\ frame' = dReply'.frame
            /\ total_bytes' = total_bytes + Len(frame'.data[1])
       ELSE UNCHANGED <<frame, total_bytes>>
    /\ Proceed(dReply'.status, "frame")
    /\ UNCHANGED <<encoder, program, packet, produced>>

FrameToSend ==
    IF Call.source = "given"
    THEN Call.frame
    ELSE AudioFrame(frame.samples, 0, <<frame.data[1]>>)

SendFrame ==
    /\ AtCall("send_frame")
    /\ Enc!SendFrame(FrameToSend)
    /\ Proceed(eReply'.status, "accepted")
    /\ UNCHANGED <<decoder, client>>

ReceivePacket ==
    /\ AtCall("receive_packet")
    /\ Enc!ReceivePacket
    /\ packet' = IF eReply'.status = "packet" THEN eReply'.packet ELSE packet
    /\ Proceed(eReply'.status, "packet")
    /\ UNCHANGED <<decoder, program, produced, frame, total_bytes>>

FlushDecoder ==
    /\ AtCall("flush_decoder")
    /\ Dec!Flush
    /\ Proceed("done", "done")
    /\ UNCHANGED <<encoder, client>>

FlushEncoder ==
    /\ AtCall("flush_encoder")
    /\ Enc!Flush
    /\ Proceed("done", "done")
    /\ UNCHANGED <<decoder, client>>

CheckPacket ==
    /\ AtCall("assert_packet")
    /\ Check(/\ Len(packet.data) = Call.length
             /\ Call.pts # NoValue => packet.pts = Call.pts
             /\ Call.data # NoValue => packet.data = Call.data)

CheckFrame ==
    /\ AtCall("assert_frame")
    /\ LET plane == frame.data[1]
       IN  Check(/\ Call.pts # NoValue => frame.pts = Call.pts
                 /\ Call.channels # NoValue =>
                       frame.samples * Call.channels = Call.slots
                 /\ Len(plane) = 2 * Call.slots
                 /\ Call.samples # NoValue =>
                       Call.samples = [i \in 1..Call.slots |-> SampleAt(plane, i)])

KeepPacket ==
    /\ AtCall("keep")
    /\ pc' = pc + 1
    /\ produced' = Append(produced, packet)
    /\ UNCHANGED <<encoder, decoder, program, packet, frame, total_bytes, outcome>>

EndDecoder ==
    /\ dMade' = FALSE /\ dPending' = NoValue /\ dEof' = FALSE
    /\ dAccepted' = <<>> /\ dResolved' = <<>>
    /\ UNCHANGED <<dLaw, dChannels, dReply>>

ReplaceDecoder ==
    /\ AtCall("drop_decoder")
    /\ pc' = pc + 1
    /\ EndDecoder
    /\ UNCHANGED <<encoder, client, outcome>>

(* Both objects are dropped, with whatever they still hold.                *)
EndScope ==
    /\ AtCall("drop")
    /\ pc' = pc + 1
    /\ total_bytes' = 0
    /\ eMade' = FALSE /\ eQueue' = <<>> /\ eAccepted' = <<>> /\ eReceived' = <<>>
    /\ EndDecoder
    /\ UNCHANGED <<eLaw, eOutput, eTimeBase, eReply, program, packet, produced,
                   frame, outcome>>

Complete ==
    /\ outcome = "running" /\ pc > Len(program)
    /\ outcome' = "done"
    /\ UNCHANGED <<encoder, decoder, client, pc>>

Next == \/ MakeDecoder \/ MakeEncoder \/ SendPacket \/ ReceiveFrame \/ SendFrame
        \/ ReceivePacket \/ FlushDecoder \/ FlushEncoder \/ CheckPacket
        \/ CheckFrame \/ KeepPacket \/ ReplaceDecoder \/ EndScope \/ Complete

(* The client is the only thread: it keeps running.                        *)
Spec == Init /\ [][Next]_vars /\ WF_vars(Next)

-----------------------------------------------------------------------------
(* No .expect of a driver fails and no assert_eq! of a fuzz target does:   *)
(* what comes out of the two objects is the sample-by-sample result the    *)
(* target computes beside them, with the lengths and counts it expects.    *)
NeverPanics == outcome # "panicked"

(* A driver gives up only because a factory refused its parameters: after  *)
(* the trimming of its input no later call fails, so that the assertions   *)
(* at its end are reached.                                                 *)
GivesUpOnlyAtFactory ==
    outcome = "returned" => Call.call \in {"make_decoder", "make_encoder"}

(* Accepted frames whose client claims another number of samples than it   *)
(* has put into them; factory_params does, for more than one channel.  No  *)
(* call of either object checks the claim.                                 *)
FalseClaims ==
    {f \in ToSet(eAccepted) :
        /\ \E i \in 1..Len(program) :
              /\ program[i].call = "send_frame" /\ program[i].source = "given"
              /\ program[i].frame = f
        /\ f.samples * eOutput.channels # Len(f.data[1]) \div 2}

(* A packet lasts as long as its codewords amount to at the stream's       *)
(* channel count, unless the client's own claim about its frame was false, *)
(* and then it does not: the objects neither repair a count nor get one    *)
(* wrong that is right, such as the decoder's for the frames of a gateway. *)
(* Without false claims the packets form a true timeline: each starts      *)
(* where the one before it ends, without gap or overlap, whether drained   *)
(* eagerly or after the flush.                                             *)
GaplessTimeline ==
    \A i \in 1..Len(eReceived) :
        LET p == eReceived[i]
        IN  /\ p.duration * eOutput.channels = Len(p.data)
                  <=> eAccepted[i] \notin FalseClaims
            /\ FalseClaims = {} =>
                  p.pts = IF i = 1 THEN 0
                          ELSE eReceived[i - 1].pts + eReceived[i - 1].duration

(* The objects go out of scope: where a driver goes on without them, and   *)
(* where it ends or returns early.                                         *)
ScopeEnds == AtCall("drop") \/ outcome \in {"done", "returned"}

(* No object goes out of scope with a packet or a frame in it, be it at    *)
(* the end of a driver, on an early return, or where a decoder is          *)
(* replaced; and where the profiler counts the bytes of a burst it gets    *)
(* back (total_bytes), they are the bytes_per_iter it has put in, from     *)
(* which it computes the burst's throughput.                               *)
NothingLeftBehind ==
    /\ ScopeEnds => eQueue = <<>> /\ dPending = NoValue
    /\ AtCall("drop_decoder") => dPending = NoValue
    /\ AtCall("drop") /\ Call.bytes # NoValue => total_bytes = Call.bytes

(* Every program ends; in particular a drain loop over receive_packet      *)
(* does.                                                                   *)
Completes == <>(outcome # "running")
=============================================================================
