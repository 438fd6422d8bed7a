----------------------------- MODULE ClientCalls -----------------------------
(***************************************************************************)
(* A client that owns one decoder and one encoder is a straight-line       *)
(* program: a sequence of calls, each with what the client does when the   *)
(* call returns an error:                                                  *)
(*                                                                         *)
(*   "panic"   .expect(..)                                                 *)
(*   "return"  match .. { Err(_) => return }                               *)
(*   "ignore"  let _ = ..                                                  *)
(*   "skip"    if ...is_ok() { the next call }                             *)
(*   "repeat"  while ...is_ok() {}                                         *)
(*   "need_more", "eof"  the call has to fail with that error: it panics   *)
(*             when it succeeds or the stream ends too early, and returns  *)
(*             on any other error                                          *)
(*                                                                         *)
(* This module names the calls; Session runs them.                         *)
(***************************************************************************)
EXTENDS G711Tables, SequencesExt

CONSTANT NoValue   \* Option::None

NewDecoder(law, channels, onError) ==
    [call |-> "make_decoder", law |-> law, channels |-> channels,
     onError |-> onError]

NewEncoder(law, channels, format, rate, onError) ==
    [call |-> "make_encoder", law |-> law, channels |-> channels,
     format |-> format, rate |-> rate, onError |-> onError]

(* Packet::new(0, time_base, data): no timestamp is set.                   *)
PacketNew(data) == [pts |-> NoValue, data |-> data]

AudioFrame(samples, pts, data) ==
    [kind |-> "audio", pts |-> pts, samples |-> samples, data |-> data]

(* A packet of the client's own, the one last received as it is, a new one *)
(* around its data, or one with the data of packet i of those put aside    *)
(* and the timestamp the client has for it.                                *)
SendPacketCall(packet, onError) ==
    [call |-> "send_packet", source |-> "given", packet |-> packet,
     onError |-> onError]
ForwardPacket(onError) ==
    [call |-> "send_packet", source |-> "received", onError |-> onError]
RebuildPacket(onError) ==
    [call |-> "send_packet", source |-> "rebuilt", onError |-> onError]
SendKept(i, pts, onError) ==
    [call |-> "send_packet", source |-> "kept", index |-> i, pts |-> pts,
     onError |-> onError]

(* A frame of the client's own, or a new one (pts 0) around the plane of   *)
(* the frame last decoded.                                                 *)
SendFrameCall(frame, onError) ==
    [call |-> "send_frame", source |-> "given", frame |-> frame,
     onError |-> onError]
Reframe(onError) ==
    [call |-> "send_frame", source |-> "decoded", onError |-> onError]

ReceiveFrameCall(onError)  == [call |-> "receive_frame", onError |-> onError]
ReceivePacketCall(onError) == [call |-> "receive_packet", onError |-> onError]
FlushDecoderCall == [call |-> "flush_decoder", onError |-> "ignore"]
FlushEncoderCall == [call |-> "flush_encoder", onError |-> "ignore"]

(* The packet last received is put aside.                                  *)
Keep == [call |-> "keep"]

(* assert_eq! on the packet last received: its length, and its timestamp   *)
(* and its bytes if they are asserted.                                     *)
AssertPacket(pts, length, data) ==
    [call |-> "assert_packet", pts |-> pts, length |-> length, data |-> data]

(* assert_eq! on the frame last decoded: its timestamp, its samples over   *)
(* all channels and its plane, as sample values; each may go unasserted.   *)
AssertFrame(pts, channels, slots, samples) ==
    [call |-> "assert_frame", pts |-> pts, channels |-> channels,
     slots |-> slots, samples |-> samples]

(* The scope that owns the objects ends, and the client goes on.  bytes is *)
(* what the client has put in, where it counts what it gets back.          *)
Drop(bytes) == [call |-> "drop", bytes |-> bytes]

(* The client is about to assign a new decoder over the one it has.        *)
DropDecoder == [call |-> "drop_decoder"]

Repeat(n, calls) == FlattenSeq([i \in 1..n |-> calls])

Smaller(a, b) == IF a < b THEN a ELSE b
=============================================================================
