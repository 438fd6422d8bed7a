---------------------------- MODULE SessionProofs ----------------------------
(***************************************************************************)
(* Theorems about the fuzz targets on the trait surface whose calls are    *)
(* fixed but for the values in them (FixedTargets), for every input of any *)
(* length: none of their assertions fails, they give up at a factory only, *)
(* and none of their objects goes out of scope with anything left in it.   *)
(*                                                                         *)
(* decode_pipeline and factory_params assert nothing, and take whatever    *)
(* their calls return: TolerantInv follows them.  encode_pipeline and the  *)
(* gateway of cross_law_transcode compare results: EncodeState and         *)
(* GatewayState say call by call what the two objects and the client hold, *)
(* as functions of the bytes in the input.                                 *)
(***************************************************************************)
EXTENDS Session, FuzzTargets, CompandingProofs, SequenceTheorems

(* The calls that may refuse the parameters in the input.                  *)
Factories == {"make_decoder", "make_encoder"}

(* One sequence of calls after another.                                    *)
IsJoined(c, s, t) ==
    /\ Len(c) = Len(s) + Len(t)
    /\ \A i \in 1..Len(s) : c[i] = s[i]
    /\ \A i \in 1..Len(t) : c[Len(s) + i] = t[i]

(* What joining two sequences gives.                                       *)
LEMMA Joined ==
    ASSUME NEW S, NEW s \in Seq(S), NEW t \in Seq(S)
    PROVE  IsJoined(s \o t, s, t) /\ s \o t \in Seq(S)
  BY DEF IsJoined

(* Calls whose failure the client takes in its stride.                     *)
TolerantCall(c) ==
    \/ c.call \in Factories /\ c.onError = "return"
    \/ c.call \in {"send_packet", "send_frame"} /\ c.onError \in {"ignore", "skip"}
    \/ /\ c.call \in {"receive_frame", "receive_packet", "flush_decoder",
                      "flush_encoder"}
       /\ c.onError \in {"ignore", "repeat"}
    \/ c.call = "drop" /\ c.bytes = NoValue

(* Where a scope ends or one may be left early: a drop, a factory, and     *)
(* behind the last call.                                                   *)
Quiet(calls, i) ==
    i > Len(calls) \/ calls[i].call \in Factories \cup {"drop"}

(* A loop that fetches until there is nothing more.                        *)
Drains(calls, i) ==
    /\ i <= Len(calls)
    /\ calls[i].call = "receive_packet" /\ calls[i].onError = "repeat"

NoPackets(calls) == \A k \in 1..Len(calls) : calls[k].call # "send_packet"

(* A program of such calls.  A frame it sends is followed by a drain loop, *)
(* and a quiet place by its having just received or dropped, whichever way *)
(* it came there.                                                          *)
Tolerant(calls) ==
    /\ Len(calls) \in Nat
    /\ \A i \in 1..Len(calls) : TolerantCall(calls[i])
    /\ \A i \in 1..Len(calls) : calls[i].call = "send_frame" =>
          calls[i].onError = "skip" /\ Drains(calls, i + 1)
    /\ NoPackets(calls) \/
       \A i \in 2..(Len(calls) + 1) : Quiet(calls, i) =>
          /\ calls[i - 1].call \in {"receive_frame", "drop"}
          /\ i > 2 => calls[i - 2].call \notin {"send_packet", "send_frame"}

(* decode_pipeline on one decoder.                                         *)
DrivesDecoder(law, channels, payload) ==
    << NewDecoder(law, channels, "return"),
       SendPacketCall(PacketNew(<<>>), "skip"), ReceiveFrameCall("ignore"),
       SendPacketCall(payload, "skip"), ReceiveFrameCall("ignore"),
       SendPacketCall(payload, "ignore"), SendPacketCall(payload, "ignore"),
       ReceiveFrameCall("ignore"),
       FlushDecoderCall, ReceiveFrameCall("ignore"), Drop(NoValue) >>

(* Two halves that each start with a factory and end with a drop make a    *)
(* tolerant program.                                                       *)
IsHalf(half) ==
    /\ Len(half) = 11
    /\ \A i \in 1..11 : TolerantCall(half[i])
    /\ \A i \in 2..10 : half[i].call \notin Factories \cup {"drop"}
    /\ \A i \in 1..11 : half[i].call # "send_frame"
    /\ half[9].call = "flush_decoder" /\ half[10].call = "receive_frame"
    /\ half[11].call = "drop"

(* The calls decode_pipeline makes on either decoder are such a half.      *)
LEMMA HalfTolerant ==
    ASSUME NEW law, NEW channels, NEW payload
    PROVE  IsHalf(DrivesDecoder(law, channels, payload))
  BY DEF IsHalf, DrivesDecoder, TolerantCall, Factories, NewDecoder,
         SendPacketCall, ReceiveFrameCall, FlushDecoderCall, Drop

(* The quiet places are 1, 11, 12, 22 and 23, and what leads up to them is *)
(* in the half.                                                            *)
LEMMA HalvesTolerant ==
    ASSUME NEW S, NEW s \in Seq(S), NEW t \in Seq(S), IsHalf(s), IsHalf(t)
    PROVE  Tolerant(s \o t)
  <1>. DEFINE c == s \o t
  <1>1. Len(s) = 11 /\ Len(t) = 11
    BY DEF IsHalf
  <1>. HIDE DEF c
  <1>2. IsJoined(c, s, t)
    BY Joined DEF c
  <1>a. /\ Len(c) = 22
        /\ \A i \in 1..11 : c[i] = s[i]
        /\ \A i \in 1..11 : c[11 + i] = t[i]
    BY <1>1, <1>2 DEF IsJoined
  <1>3. ASSUME NEW i \in 1..22
        PROVE  /\ TolerantCall(c[i])
               /\ c[i].call # "send_frame"
               /\ c[i].call \in Factories \cup {"drop"} => i \in {1, 11, 12, 22}
    <2>1. CASE i \in 1..11
      <3>1. c[i] = s[i]
        BY <1>a, <2>1
      <3>2. i \notin {1, 11} => i \in 2..10
        BY <2>1
      <3>. QED  BY <2>1, <3>1, <3>2 DEF IsHalf
    <2>2. CASE i \in 12..22
      <3>1. PICK k \in 1..11 : i = 11 + k
        <4>1. i - 11 \in 1..11 /\ i = 11 + (i - 11)
          BY <2>2
        <4>. QED  BY <4>1
      <3>2. c[i] = t[k]
        BY <1>a, <3>1
      <3>3. i \notin {12, 22} => k \in 2..10
        BY <3>1
      <3>. QED  BY <3>2, <3>3 DEF IsHalf
    <2>. QED  BY <2>1, <2>2
  <1>4. /\ c[9].call = "flush_decoder" /\ c[10].call = "receive_frame"
        /\ c[11].call = "drop"
        /\ c[20].call = "flush_decoder" /\ c[21].call = "receive_frame"
        /\ c[22].call = "drop"
    <2>1. c[9] = s[9] /\ c[10] = s[10] /\ c[11] = s[11]
      BY <1>a
    <2>2. c[11 + 9] = t[9] /\ c[11 + 10] = t[10] /\ c[11 + 11] = t[11]
      BY <1>a
    <2>. QED  BY <2>1, <2>2 DEF IsHalf
  <1>5. ASSUME NEW i \in 2..23, Quiet(c, i)
        PROVE  /\ c[i - 1].call \in {"receive_frame", "drop"}
               /\ i > 2 => c[i - 2].call \notin {"send_packet", "send_frame"}
    <2>1. i \in {11, 12, 22, 23}
      <3>1. CASE i \in 2..22
        <4>1. i \in 1..22 /\ ~ (i > 22) /\ i # 1
          BY <3>1
        <4>. QED  BY <1>3, <1>5, <1>a, <4>1 DEF Quiet
      <3>2. CASE i = 23
        BY <3>2
      <3>. QED  BY <3>1, <3>2
    <2>2. CASE i = 11
      BY <1>4, <2>2
    <2>3. CASE i = 12
      BY <1>4, <2>3
    <2>4. CASE i = 22
      BY <1>4, <2>4
    <2>5. CASE i = 23
      BY <1>4, <2>5
    <2>. QED  BY <2>1, <2>2, <2>3, <2>4, <2>5
  <1>6. Tolerant(c)
    <2>1. \A i \in 2..(Len(c) + 1) : i \in 2..23
      BY <1>a
    <2>2. \A i \in 1..Len(c) : i \in 1..22
      BY <1>a
    <2>3. Len(c) \in Nat
      BY <1>a
    <2>4. \A i \in 1..Len(c) : TolerantCall(c[i]) /\ c[i].call # "send_frame"
      BY <1>3, <2>2
    <2>5. \A i \in 2..(Len(c) + 1) : Quiet(c, i) =>
             /\ c[i - 1].call \in {"receive_frame", "drop"}
             /\ i > 2 => c[i - 2].call \notin {"send_packet", "send_frame"}
      BY <1>5, <2>1
    <2>. QED  BY <2>3, <2>4, <2>5, Zenon DEF Tolerant
  <1>. QED  BY <1>6 DEF c

(* Both targets without assertions are tolerant, on every input.           *)
LEMMA DecodePipelineTolerant ==
    ASSUME NEW data \in Seq(Byte)
    PROVE  Tolerant(DecodePipeline(data))
  <1>. DEFINE channels == (data[1] % 8) + 1
              payload  == PacketNew(Tail(data))
              first    == DrivesDecoder("mulaw", channels, payload)
              second   == DrivesDecoder("alaw", channels, payload)
              S        == {first[i] : i \in 1..11} \cup {second[i] : i \in 1..11}
  <1>1. CASE data = <<>>
    BY <1>1 DEF DecodePipeline, Tolerant, NoPackets
  <1>2. CASE data # <<>>
    <2>1. DecodePipeline(data) = first \o second
      BY <1>2 DEF DecodePipeline, DrivesDecoder
    <2>2. first \in Seq(S)
      BY DEF DrivesDecoder
    <2>3. second \in Seq(S)
      BY DEF DrivesDecoder
    <2>4. IsHalf(first) /\ IsHalf(second)
      BY HalfTolerant
    <2>. HIDE DEF first, second, S
    <2>. QED  BY <2>1, <2>2, <2>3, <2>4, HalvesTolerant
  <1>. QED  BY <1>1, <1>2

(* What factory_params calls is tolerant, whichever factory it drives.     *)
LEMMA FactoryParamsTolerant ==
    ASSUME NEW data \in Seq(Byte)
    PROVE  Tolerant(FactoryParams(data))
  <1>1. ASSUME NEW law, NEW channels, NEW payload
        PROVE  Tolerant(DriveDecoder(law, channels, payload))
    <2>. DEFINE c == DriveDecoder(law, channels, payload)
    <2>1. /\ Len(c) = 5
          /\ \A i \in 1..5 : TolerantCall(c[i]) /\ c[i].call # "send_frame"
          /\ \A i \in 2..5 : c[i].call \notin Factories \cup {"drop"}
          /\ c[4].call = "flush_decoder" /\ c[5].call = "receive_frame"
      BY DEF DriveDecoder, TolerantCall, Factories, NewDecoder,
             SendPacketCall, ReceiveFrameCall, FlushDecoderCall
    <2>. HIDE DEF c
    <2>2. ASSUME NEW i \in 2..6, Quiet(c, i)
          PROVE  /\ c[i - 1].call \in {"receive_frame", "drop"}
                 /\ i > 2 => c[i - 2].call \notin {"send_packet", "send_frame"}
      <3>1. i = 6
        BY <2>1, <2>2 DEF Quiet
      <3>. QED  BY <2>1, <3>1
    <2>3. Tolerant(c)
      <3>1. \A i \in 2..(Len(c) + 1) : i \in 2..6
        BY <2>1
      <3>. QED  BY <2>1, <2>2, <3>1 DEF Tolerant
    <2>. QED  BY <2>3 DEF c
  <1>2. ASSUME NEW law, NEW channels, NEW format, NEW rate, NEW payload
        PROVE  Tolerant(DriveEncoder(law, channels, format, rate, payload))
    <2>. DEFINE c == DriveEncoder(law, channels, format, rate, payload)
    <2>1. /\ Len(c) = 4
          /\ \A i \in 1..4 : TolerantCall(c[i]) /\ c[i].call # "send_packet"
          /\ \A i \in 1..4 : c[i].call = "send_frame" => i = 2
          /\ c[2].onError = "skip"
          /\ c[3].call = "receive_packet" /\ c[3].onError = "repeat"
      BY DEF DriveEncoder, TolerantCall, Factories, NewEncoder,
             SendFrameCall, ReceivePacketCall, FlushEncoderCall
    <2>. HIDE DEF c
    <2>2. Drains(c, 2 + 1) /\ NoPackets(c)
      BY <2>1 DEF Drains, NoPackets
    <2>3. Tolerant(c)
      BY <2>1, <2>2 DEF Tolerant
    <2>. QED  BY <2>3 DEF c
  <1>3. Tolerant(<<>>)
    BY DEF Tolerant, NoPackets
  <1>4. CASE Len(data) < 8
    BY <1>3, <1>4 DEF FactoryParams
  <1>5. CASE ~(Len(data) < 8) /\ (data[1] % 4) % 2 = 0
    BY <1>1, <1>5 DEF FactoryParams
  <1>6. CASE ~(Len(data) < 8) /\ (data[1] % 4) % 2 # 0
    BY <1>2, <1>6 DEF FactoryParams
  <1>. QED  BY <1>4, <1>5, <1>6

-----------------------------------------------------------------------------
TolerantInv ==
    /\ Tolerant(program)
    /\ pc \in Nat \ {0}
    /\ outcome \in {"running", "done", "returned"}
    /\ outcome = "returned" => pc <= Len(program) /\ Call.call \in Factories
    /\ outcome = "done" => pc > Len(program)
    /\ Quiet(program, pc) => dPending = NoValue
    /\ NoPackets(program) => dPending = NoValue
    /\ eQueue # <<>> => Drains(program, pc)

(* How a tolerant client goes on after any reply whatever.                 *)
LEMMA TolerantProceeds ==
    ASSUME NEW reply, NEW good, TolerantCall(Call), Call.call # "drop",
           outcome = "running", pc \in Nat \ {0}, Proceed(reply, good)
    PROVE  \/ /\ outcome' = "running"
              /\ pc' \in {pc, pc + 1, pc + 2}
              /\ pc' = pc + 2 => Call.call \in {"send_packet", "send_frame"}
              /\ reply = good => pc' = IF Call.onError = "repeat" THEN pc ELSE pc + 1
           \/ outcome' = "returned" /\ pc' = pc /\ Call.call \in Factories
  <1>. DEFINE step == AfterReply(reply, good)
  <1>1. \/ /\ step \in {"next", "stay", "skip"}
           /\ step = "skip" => Call.call \in {"send_packet", "send_frame"}
           /\ reply = good => step = IF Call.onError = "repeat" THEN "stay" ELSE "next"
        \/ step = "return" /\ Call.call \in Factories
    BY DEF AfterReply, TolerantCall, Factories
  <1>2. /\ pc' = pc + (CASE step = "next" -> 1 [] step = "skip" -> 2 [] OTHER -> 0)
        /\ outcome' = CASE step = "panic"  -> "panicked"
                        [] step = "return" -> "returned"
                        [] OTHER           -> outcome
    BY DEF Proceed
  <1>. HIDE DEF step
  <1>3. CASE step = "next"
    BY <1>1, <1>2, <1>3
  <1>4. CASE step = "skip"
    BY <1>1, <1>2, <1>4
  <1>5. CASE step = "stay"
    BY <1>1, <1>2, <1>5
  <1>6. CASE step = "return"
    BY <1>1, <1>2, <1>6
  <1>. QED  BY <1>1, <1>3, <1>4, <1>5, <1>6

(* A call that is not a drop preserves the invariant if it leaves the slot *)
(* empty where it receives or makes an object, fills it only in a program  *)
(* that sends packets, and leaves the queue to a drain loop.               *)
LEMMA TolerantMoves ==
    ASSUME NEW reply, NEW good, TolerantInv,
           outcome = "running", pc <= Len(program), Call.call # "drop",
           Proceed(reply, good), program' = program,
           Call.call \in Factories \cup {"receive_frame"} => dPending' = NoValue,
           NoPackets(program) => dPending' = NoValue,
           eQueue' # <<>> => Drains(program, pc')
    PROVE  TolerantInv'
  <1>1. /\ Len(program) \in Nat /\ pc \in 1..Len(program)
        /\ \A i \in 1..Len(program) : TolerantCall(program[i])
        /\ NoPackets(program) \/
           \A i \in 2..(Len(program) + 1) : Quiet(program, i) =>
              /\ program[i - 1].call \in {"receive_frame", "drop"}
              /\ i > 2 => program[i - 2].call \notin {"send_packet", "send_frame"}
    BY DEF TolerantInv, Tolerant
  <1>2. Call = program[pc] /\ Call' = program[pc'] /\ TolerantCall(Call)
    BY <1>1 DEF Call
  <1>3. \/ /\ outcome' = "running"
           /\ pc' \in {pc, pc + 1, pc + 2}
           /\ pc' = pc + 2 => Call.call \in {"send_packet", "send_frame"}
        \/ outcome' = "returned" /\ pc' = pc /\ Call.call \in Factories
    BY <1>1, <1>2, TolerantProceeds
  <1>4. Tolerant(program)'
    BY DEF TolerantInv
  <1>5. pc' \in Nat \ {0}
    BY <1>1, <1>3
  <1>6. /\ outcome' \in {"running", "returned"}
        /\ outcome' = "returned" => pc' <= Len(program') /\ Call'.call \in Factories
    BY <1>1, <1>2, <1>3
  <1>7. ASSUME Quiet(program, pc'), ~ NoPackets(program)
        PROVE  dPending' = NoValue
    <2>1. CASE pc' = pc
      <3>1. Call.call \in Factories
        BY <1>1, <1>2, <1>7, <2>1 DEF Quiet
      <3>. QED  BY <3>1
    <2>2. CASE pc' = pc + 1
      <3>1. pc' \in 2..(Len(program) + 1) /\ pc' - 1 = pc
        BY <1>1, <2>2
      <3>2. program[pc' - 1].call \in {"receive_frame", "drop"}
        BY <1>1, <1>7, <3>1
      <3>3. Call.call = "receive_frame"
        BY <1>2, <3>1, <3>2
      <3>. QED  BY <3>3
    <2>3. CASE pc' = pc + 2
      <3>1. Call.call \in {"send_packet", "send_frame"}
        BY <1>1, <1>3, <2>3
      <3>2. CASE pc = Len(program)
        <4>1. /\ pc + 1 \in 2..(Len(program) + 1) /\ Quiet(program, pc + 1)
              /\ (pc + 1) - 1 = pc
          BY <1>1, <3>2 DEF Quiet
        <4>2. program[(pc + 1) - 1].call \in {"receive_frame", "drop"}
          BY <1>1, <1>7, <4>1
        <4>. QED  BY <1>2, <3>1, <4>1, <4>2
      <3>3. CASE pc # Len(program)
        <4>1. /\ pc' \in 2..(Len(program) + 1) /\ pc' - 2 = pc /\ pc' > 2
          BY <1>1, <2>3, <3>3
        <4>2. program[pc' - 2].call \notin {"send_packet", "send_frame"}
          BY <1>1, <1>7, <4>1
        <4>. QED  BY <1>2, <3>1, <4>1, <4>2
      <3>. QED  BY <3>2, <3>3
    <2>. QED  BY <1>1, <1>3, <2>1, <2>2, <2>3
  <1>8. /\ (Quiet(program, pc) => dPending = NoValue)'
        /\ (NoPackets(program) => dPending = NoValue)'
        /\ (eQueue # <<>> => Drains(program, pc))'
    BY <1>7 DEF Quiet, NoPackets, Drains
  <1>. QED  BY <1>4, <1>5, <1>6, <1>8 DEF TolerantInv

(* Every call preserves the invariant: outside a drain loop the queue is   *)
(* empty, and what a send_frame puts there is before the next one.         *)
LEMMA TolerantInvStep == TolerantInv /\ [Next]_vars => TolerantInv'
  <1>. SUFFICES ASSUME TolerantInv, [Next]_vars PROVE TolerantInv'
    OBVIOUS
  <1>0. /\ pc \in Nat \ {0}
        /\ Len(program) \in Nat
        /\ outcome = "running" /\ pc <= Len(program) => TolerantCall(Call)
        /\ pc <= Len(program) /\ Call.call = "send_frame" =>
              Call.onError = "skip" /\ Drains(program, pc + 1)
    BY DEF TolerantInv, Tolerant, Call
  <1>b. /\ eQueue # <<>> => Call.call = "receive_packet" /\ Call.onError = "repeat"
        /\ pc <= Len(program) /\ Call.call \in Factories => dPending = NoValue
        /\ NoPackets(program) => dPending = NoValue
    BY DEF TolerantInv, Drains, Quiet, Call
  <1>1. CASE MakeDecoder
    <2>1. /\ AtCall("make_decoder") /\ Proceed(dReply'.status, "created")
          /\ UNCHANGED <<program, eQueue>>
          /\ Dec!MakeDecoder(Call.law, Call.channels)
      BY <1>1 DEF MakeDecoder, encoder, client
    <2>2. dPending' = dPending
      BY <2>1 DEF Dec!MakeDecoder
    <2>. QED  BY <1>b, <2>1, <2>2, TolerantMoves DEF AtCall, Factories
  <1>2. CASE MakeEncoder
    <2>1. /\ AtCall("make_encoder") /\ Proceed(eReply'.status, "created")
          /\ UNCHANGED <<program, dPending>>
          /\ Enc!MakeEncoder(Call.law, Call.channels, Call.format, Call.rate)
      BY <1>2 DEF MakeEncoder, decoder, client
    <2>2. eQueue' = eQueue
      BY <2>1 DEF Enc!MakeEncoder
    <2>. QED  BY <1>b, <2>1, <2>2, TolerantMoves DEF AtCall, Factories
  <1>3. CASE SendPacket
    <2>1. /\ AtCall("send_packet") /\ Proceed(dReply'.status, "accepted")
          /\ UNCHANGED <<program, eQueue>>
      BY <1>3 DEF SendPacket, encoder, client
    <2>2. ~ NoPackets(program)
      BY <1>0, <2>1 DEF AtCall, Call, NoPackets
    <2>. QED  BY <1>b, <2>1, <2>2, TolerantMoves DEF AtCall, Factories
  <1>4. CASE ReceiveFrame
    <2>1. /\ AtCall("receive_frame") /\ Proceed(dReply'.status, "frame")
          /\ UNCHANGED <<program, eQueue>>
      BY <1>4 DEF ReceiveFrame, encoder
    <2>2. dPending' = NoValue
      BY <1>4 DEF ReceiveFrame, Dec!ReceiveFrame, Dec!ReceivePending,
                  Dec!ReceiveNothing
    <2>. QED  BY <1>b, <2>1, <2>2, TolerantMoves DEF AtCall
  <1>5. CASE SendFrame
    <2>1. /\ AtCall("send_frame") /\ Proceed(eReply'.status, "accepted")
          /\ UNCHANGED <<program, dPending>> /\ Enc!SendFrame(FrameToSend)
      BY <1>5 DEF SendFrame, decoder, client
    <2>2. eQueue = <<>>
      BY <1>b, <2>1 DEF AtCall
    <2>3. eReply'.status = "accepted" \/ eQueue' = eQueue
      BY <2>1 DEF Enc!SendFrame, Enc!Status
    <2>4. eReply'.status = "accepted" => pc' = pc + 1
      BY <1>0, <2>1, TolerantProceeds DEF AtCall, Factories
    <2>5. eQueue' # <<>> => Drains(program, pc')
      BY <1>0, <2>1, <2>2, <2>3, <2>4 DEF AtCall
    <2>. QED  BY <1>b, <2>1, <2>5, TolerantMoves DEF AtCall, Factories
  <1>6. CASE ReceivePacket
    <2>1. /\ AtCall("receive_packet") /\ Proceed(eReply'.status, "packet")
          /\ UNCHANGED <<program, dPending>> /\ Enc!ReceivePacket
      BY <1>6 DEF ReceivePacket, decoder
    <2>2. eQueue' # <<>> => eReply'.status = "packet" /\ eQueue # <<>>
      BY <2>1 DEF Enc!ReceivePacket, Enc!ReceiveQueued, Enc!ReceiveNothing,
                  Enc!PacketReply
    <2>3. eQueue' # <<>> => pc' = pc
      BY <1>0, <1>b, <2>1, <2>2, TolerantProceeds DEF AtCall, Factories
    <2>4. eQueue' # <<>> => Drains(program, pc')
      BY <1>b, <2>1, <2>2, <2>3 DEF AtCall, Drains, Call
    <2>. QED  BY <1>b, <2>1, <2>4, TolerantMoves DEF AtCall, Factories
  <1>7. CASE FlushDecoder
    <2>1. /\ AtCall("flush_decoder") /\ Proceed("done", "done")
          /\ UNCHANGED <<program, eQueue>> /\ Dec!Flush
      BY <1>7 DEF FlushDecoder, encoder, client
    <2>2. dPending' = dPending
      BY <2>1 DEF Dec!Flush
    <2>. QED  BY <1>b, <2>1, <2>2, TolerantMoves DEF AtCall, Factories
  <1>8. CASE FlushEncoder
    <2>1. /\ AtCall("flush_encoder") /\ Proceed("done", "done")
          /\ UNCHANGED <<program, dPending>> /\ Enc!Flush
      BY <1>8 DEF FlushEncoder, decoder, client
    <2>2. eQueue' = eQueue
      BY <2>1 DEF Enc!Flush
    <2>. QED  BY <1>b, <2>1, <2>2, TolerantMoves DEF AtCall, Factories
  <1>9. CASE CheckPacket \/ CheckFrame \/ KeepPacket \/ ReplaceDecoder
    BY <1>0, <1>9 DEF CheckPacket, CheckFrame, KeepPacket, ReplaceDecoder,
                      AtCall, TolerantCall, Factories
  <1>10. CASE EndScope
    <2>1. /\ outcome = "running"
          /\ pc' = pc + 1 /\ dPending' = NoValue /\ eQueue' = <<>>
          /\ UNCHANGED <<program, outcome>>
      BY <1>10 DEF EndScope, EndDecoder, AtCall
    <2>. QED  BY <1>0, <2>1 DEF TolerantInv
  <1>11. CASE Complete
    <2>1. /\ pc > Len(program) /\ outcome' = "done"
          /\ UNCHANGED <<program, pc, dPending, eQueue>>
      BY <1>11 DEF Complete, encoder, decoder, client
    <2>. QED  BY <1>0, <2>1 DEF TolerantInv, Call
  <1>12. CASE UNCHANGED vars
    <2>1. UNCHANGED <<program, pc, outcome, dPending, eQueue>>
      BY <1>12 DEF vars, encoder, decoder, client
    <2>. QED  BY <2>1 DEF TolerantInv, Call
  <1>. QED
    BY <1>1, <1>2, <1>3, <1>4, <1>5, <1>6, <1>7, <1>8, <1>9, <1>10, <1>11,
       <1>12 DEF Next

(* A client starts with empty objects.                                     *)
LEMMA TolerantInvInit == Init /\ Tolerant(program) => TolerantInv
  BY DEF Init, Enc!Init, Dec!Init, TolerantInv, Tolerant, Call

(* What follows from the invariant for the three properties: a scope ends  *)
(* at a quiet place, which is no drain loop.                               *)
LEMMA TolerantSafe ==
    TolerantInv => NeverPanics /\ GivesUpOnlyAtFactory /\ NothingLeftBehind
  <1>. SUFFICES ASSUME TolerantInv
                PROVE  NeverPanics /\ GivesUpOnlyAtFactory /\ NothingLeftBehind
    OBVIOUS
  <1>1. NeverPanics /\ GivesUpOnlyAtFactory
    BY DEF TolerantInv, NeverPanics, GivesUpOnlyAtFactory, Factories
  <1>2. pc \in Nat \ {0} /\ Len(program) \in Nat /\ Call = program[pc]
    BY DEF TolerantInv, Tolerant, Call
  <1>3. ASSUME ScopeEnds
        PROVE  eQueue = <<>> /\ dPending = NoValue
    <2>1. Quiet(program, pc)
      BY <1>2, <1>3 DEF ScopeEnds, AtCall, TolerantInv, Quiet
    <2>2. ~ Drains(program, pc)
      BY <1>2, <2>1 DEF Quiet, Drains, Factories
    <2>. QED  BY <2>1, <2>2 DEF TolerantInv
  <1>4. ASSUME NEW name, AtCall(name)
        PROVE  /\ name # "drop_decoder"
               /\ name = "drop" => Call.bytes = NoValue
    <2>1. pc \in 1..Len(program) /\ Call.call = name
      BY <1>2, <1>4 DEF AtCall
    <2>2. TolerantCall(Call)
      BY <1>2, <2>1 DEF TolerantInv, Tolerant
    <2>. QED  BY <2>1, <2>2 DEF TolerantCall, Factories
  <1>5. NothingLeftBehind
    BY <1>3, <1>4 DEF NothingLeftBehind
  <1>. QED  BY <1>1, <1>5

-----------------------------------------------------------------------------
(* Each end brings its own copy of G711Tables; the copies are the same.    *)

(* The sets of bytes and laws.                                             *)
LEMMA SameTypes ==
    /\ Enc!Byte = Byte /\ Enc!Laws = Laws
    /\ Dec!Byte = Byte /\ Dec!Laws = Laws
BY DEF Byte, Laws, Enc!Byte, Enc!Laws, Dec!Byte, Dec!Laws

(* The helpers on bits and powers of two.                                  *)
LEMMA SameParts ==
    ASSUME NEW x, NEW m
    PROVE  /\ Enc!BitSet(x, m) = BitSet(x, m) /\ Enc!FlipBit(x, m) = FlipBit(x, m)
           /\ Enc!Pow2(x) = Pow2(x)
           /\ Enc!Complement(x) = Complement(x)
           /\ Enc!MantissaOf(x) = MantissaOf(x)
           /\ Dec!BitSet(x, m) = BitSet(x, m) /\ Dec!FlipBit(x, m) = FlipBit(x, m)
           /\ Dec!Pow2(x) = Pow2(x)
           /\ Dec!Complement(x) = Complement(x)
           /\ Dec!MantissaOf(x) = MantissaOf(x)
           /\ Dec!SegmentOf(x) = SegmentOf(x)
BY DEF BitSet, FlipBit, Pow2, PowersOfTwo, Complement, MantissaOf, SegmentOf,
       Enc!BitSet, Enc!FlipBit, Enc!Pow2, Enc!PowersOfTwo, Enc!Complement,
       Enc!MantissaOf, Dec!BitSet, Dec!FlipBit, Dec!Pow2, Dec!PowersOfTwo,
       Dec!Complement, Dec!MantissaOf, Dec!SegmentOf

(* The A-law inversion of even bits.                                       *)
LEMMA SameXor ==
    ASSUME NEW b
    PROVE  Enc!AlawXor(b) = AlawXor(b) /\ Dec!AlawXor(b) = AlawXor(b)
<1>1. \A y, m : Enc!FlipBit(y, m) = FlipBit(y, m) /\ Dec!FlipBit(y, m) = FlipBit(y, m)
  BY SameParts
<1>. QED
  BY <1>1, SMT DEF AlawXor, Enc!AlawXor, Dec!AlawXor

(* The segment of a magnitude.                                             *)
LEMMA SameSegments ==
    ASSUME NEW mag
    PROVE  /\ Enc!MulawSegment(mag) = MulawSegment(mag)
           /\ Enc!AlawSegment(mag) = AlawSegment(mag)
BY DEF MulawSegment, AlawSegment, BitSet, Pow2, PowersOfTwo,
       Enc!MulawSegment, Enc!AlawSegment, Enc!BitSet, Enc!Pow2, Enc!PowersOfTwo

(* The magnitude an encoder takes of a sample.                             *)
LEMMA SameMagnitudes ==
    ASSUME NEW x
    PROVE  /\ Enc!MulawBiased(x) = MulawBiased(x)
           /\ Enc!AlawClamped(x) = AlawClamped(x)
           /\ Enc!AlawShift(x) = AlawShift(x)
BY DEF MulawBiased, AlawClamped, AlawShift, MULAW_BIAS, Magnitude, ClampTo,
       Enc!MulawBiased, Enc!AlawClamped, Enc!AlawShift, Enc!MULAW_BIAS,
       Enc!Magnitude, Enc!ClampTo

(* The codeword packed from sign, segment and mantissa.                    *)
LEMMA SamePacks ==
    ASSUME NEW x, NEW seg, NEW mag
    PROVE  /\ Enc!MulawPack(x, seg, mag) = MulawPack(x, seg, mag)
           /\ Enc!AlawPack(x, seg, mag) = AlawPack(x, seg, mag)
<1>1. Enc!MulawPack(x, seg, mag) = MulawPack(x, seg, mag)
  BY SameParts, Zenon DEF MulawPack, Enc!MulawPack
<1>2. Enc!AlawPack(x, seg, mag) = AlawPack(x, seg, mag)
  BY SameParts, SameXor, SameMagnitudes, Zenon DEF AlawPack, Enc!AlawPack
<1>. QED
  BY <1>1, <1>2

(* The encoder of one sample.                                              *)
LEMMA SameEncodings ==
    ASSUME NEW x
    PROVE  /\ Enc!MulawEncodeArith(x) = MulawEncodeArith(x)
           /\ Enc!AlawEncodeArith(x) = AlawEncodeArith(x)
BY SameSegments, SameMagnitudes, SamePacks, Zenon
   DEF MulawEncodeArith, AlawEncodeArith,
       Enc!MulawEncodeArith, Enc!AlawEncodeArith

(* The encoder of a byte plane.                                            *)
LEMMA SameEncodedSlices ==
    ASSUME NEW l, NEW plane
    PROVE  Enc!EncodeSliceFromLeBytes(l, plane) = EncodeSliceFromLeBytes(l, plane)
<1>1. /\ Enc!U16 = U16
      /\ \A i : Enc!AsI16(i) = AsI16(i)
  BY DEF U16, AsI16, Enc!U16, Enc!AsI16
<1>2. /\ Enc!MULAW_ENCODE = MULAW_ENCODE
      /\ Enc!ALAW_ENCODE = ALAW_ENCODE
  BY <1>1, SameEncodings, Zenon
     DEF MULAW_ENCODE, ALAW_ENCODE, Enc!MULAW_ENCODE, Enc!ALAW_ENCODE
<1>. QED
  BY <1>2
     DEF EncodeSliceFromLeBytes, MulawEncodeSliceFromLeBytes,
         AlawEncodeSliceFromLeBytes, MulawEncodeSample, AlawEncodeSample,
         SampleAt, FromLeBytes, AsI16, AsU16,
         Enc!EncodeSliceFromLeBytes, Enc!MulawEncodeSliceFromLeBytes,
         Enc!AlawEncodeSliceFromLeBytes, Enc!MulawEncodeSample,
         Enc!AlawEncodeSample, Enc!SampleAt, Enc!FromLeBytes, Enc!AsI16, Enc!AsU16

(* The decoder of one codeword.                                            *)
LEMMA SameDecodings ==
    ASSUME NEW b
    PROVE  /\ Dec!MulawDecode(b) = MulawDecode(b)
           /\ Dec!AlawDecode(b) = AlawDecode(b)
<1>1. /\ \A n : Dec!Pow2(n) = Pow2(n)
      /\ \A x : Dec!SegmentOf(x) = SegmentOf(x) /\ Dec!MantissaOf(x) = MantissaOf(x)
      /\ \A x, m : Dec!BitSet(x, m) = BitSet(x, m)
      /\ \A x : Dec!Complement(x) = Complement(x)
      /\ Dec!MULAW_BIAS = MULAW_BIAS
  BY DEF Pow2, PowersOfTwo, SegmentOf, MantissaOf, BitSet, Complement, MULAW_BIAS,
         Dec!Pow2, Dec!PowersOfTwo, Dec!SegmentOf, Dec!MantissaOf, Dec!BitSet,
         Dec!Complement, Dec!MULAW_BIAS
<1>2. \A x, m : Dec!FlipBit(x, m) = FlipBit(x, m)
  BY <1>1 DEF FlipBit, Dec!FlipBit
<1>3. Dec!AlawXor(b) = AlawXor(b)
  BY <1>2, Zenon DEF AlawXor, Dec!AlawXor
<1>4. Dec!MulawDecode(b) = MulawDecode(b)
  BY <1>1, Zenon DEF MulawDecode, Dec!MulawDecode
<1>5. Dec!AlawDecode(b) = AlawDecode(b)
  BY <1>1, <1>3 DEF AlawDecode, Dec!AlawDecode
<1>. QED
  BY <1>4, <1>5

(* The decoder of a slice.                                                 *)
LEMMA SameDecodedSlices ==
    ASSUME NEW l, NEW input
    PROVE  Dec!DecodeSliceToLeBytes(l, input) = DecodeSliceToLeBytes(l, input)
<1>1. /\ Dec!MULAW_DECODE = MULAW_DECODE
      /\ Dec!ALAW_DECODE = ALAW_DECODE
  BY SameDecodings, SameTypes
     DEF MULAW_DECODE, ALAW_DECODE, Dec!MULAW_DECODE, Dec!ALAW_DECODE
<1>2. /\ Dec!MULAW_DECODE_LE = MULAW_DECODE_LE
      /\ Dec!ALAW_DECODE_LE = ALAW_DECODE_LE
  BY <1>1, SameTypes
     DEF MULAW_DECODE_LE, ALAW_DECODE_LE, ToLeBytes, AsU16,
         Dec!MULAW_DECODE_LE, Dec!ALAW_DECODE_LE, Dec!ToLeBytes, Dec!AsU16
<1>. QED
  BY <1>2
     DEF DecodeSliceToLeBytes, MulawDecodeSliceToLeBytes,
         AlawDecodeSliceToLeBytes, CopyPairs,
         Dec!DecodeSliceToLeBytes, Dec!MulawDecodeSliceToLeBytes,
         Dec!AlawDecodeSliceToLeBytes, Dec!CopyPairs


-----------------------------------------------------------------------------
(* The name of the call to make selects the action.                        *)
LEMMA OneAction ==
    ASSUME [Next]_vars, outcome = "running", pc <= Len(program),
           pc \in Nat, Len(program) \in Nat
    PROVE  \/ UNCHANGED vars
           \/ /\ Call.call = "make_decoder"   => MakeDecoder
              /\ Call.call = "make_encoder"   => MakeEncoder
              /\ Call.call = "send_packet"    => SendPacket
              /\ Call.call = "receive_frame"  => ReceiveFrame
              /\ Call.call = "send_frame"     => SendFrame
              /\ Call.call = "receive_packet" => ReceivePacket
              /\ Call.call = "assert_packet"  => CheckPacket
              /\ Call.call = "assert_frame"   => CheckFrame
              /\ Call.call = "drop"           => EndScope
  <1>1. ~ Complete
    BY DEF Complete
  <1>. QED
    BY <1>1 DEF Next, AtCall, MakeDecoder, MakeEncoder, SendPacket, ReceiveFrame,
           SendFrame, ReceivePacket, FlushDecoder, FlushEncoder, CheckPacket,
           CheckFrame, KeepPacket, ReplaceDecoder, EndScope

(* A program that has ended stays as it is.                                *)
LEMMA Stopped ==
    ASSUME [Next]_vars, outcome # "running"
    PROVE  UNCHANGED vars
  BY DEF Next, AtCall, MakeDecoder, MakeEncoder, SendPacket, ReceiveFrame,
         SendFrame, ReceivePacket, FlushDecoder, FlushEncoder, CheckPacket,
         CheckFrame, KeepPacket, ReplaceDecoder, EndScope, Complete

(* Behind its last call a program can only end.                            *)
LEMMA Finishing ==
    ASSUME [Next]_vars, outcome = "running", pc > Len(program),
           pc \in Nat, Len(program) \in Nat
    PROVE  UNCHANGED vars \/ Complete
  <1>1. ASSUME NEW name PROVE ~ AtCall(name)
    BY DEF AtCall
  <1>. QED
    BY <1>1 DEF Next, MakeDecoder, MakeEncoder, SendPacket, ReceiveFrame,
           SendFrame, ReceivePacket, FlushDecoder, FlushEncoder, CheckPacket,
           CheckFrame, KeepPacket, ReplaceDecoder, EndScope

(* A call that succeeds, and that the client does not expect to fail.      *)
LEMMA Success ==
    ASSUME NEW good, Proceed(good, good), Call.onError = "return",
           outcome = "running"
    PROVE  pc' = pc + 1 /\ outcome' = "running"
  BY DEF Proceed, AfterReply

(* What each call does where the targets with assertions make it.          *)
LEMMA DecoderMade ==
    ASSUME MakeDecoder, Call.onError = "return", Call.channels \in 1..8
    PROVE  /\ pc' = pc + 1 /\ outcome' = "running"
           /\ dLaw' = Call.law /\ dChannels' = Call.channels
           /\ UNCHANGED <<dPending, encoder, client>>
  <1>1. Call.channels # NoValue /\ Call.channels # 0
    BY NoneAssumption
  <1>2. /\ dReply' = [status |-> "created"]
        /\ dLaw' = Call.law /\ dChannels' = Call.channels
        /\ UNCHANGED <<dPending, encoder, client>>
    BY <1>1 DEF MakeDecoder, Dec!MakeDecoder, Dec!UnwrapOr, Dec!Status
  <1>3. outcome = "running" /\ Proceed("created", "created")
    BY <1>2 DEF MakeDecoder, AtCall
  <1>. QED  BY <1>2, <1>3, Success

(* The encoder's factory, with parameters it accepts.                      *)
LEMMA EncoderMade ==
    ASSUME MakeEncoder, Call.onError = "return", Call.channels \in 1..8,
           Call.format = "S16"
    PROVE  /\ pc' = pc + 1 /\ outcome' = "running"
           /\ eLaw' = Call.law
           /\ UNCHANGED <<eQueue, decoder, client>>
  <1>1. Call.channels # NoValue /\ Call.channels # 0 /\ Call.format # NoValue
    BY NoneAssumption
  <1>2. /\ eReply' = [status |-> "created"]
        /\ eLaw' = Call.law
        /\ UNCHANGED <<eQueue, decoder, client>>
    BY <1>1 DEF MakeEncoder, Enc!MakeEncoder, Enc!UnwrapOr, Enc!Status
  <1>3. outcome = "running" /\ Proceed("created", "created")
    BY <1>2 DEF MakeEncoder, AtCall
  <1>. QED  BY <1>2, <1>3, Success

(* A packet put into an empty slot.                                        *)
LEMMA PacketSent ==
    ASSUME SendPacket, Call.onError = "return", dPending = NoValue
    PROVE  /\ pc' = pc + 1 /\ outcome' = "running"
           /\ dPending' = PacketToSend
           /\ UNCHANGED <<dLaw, dChannels, encoder, client>>
  <1>1. /\ dReply' = [status |-> "accepted"]
        /\ dPending' = PacketToSend
        /\ UNCHANGED <<dLaw, dChannels, encoder, client>>
    BY DEF SendPacket, Dec!SendPacket, Dec!Status
  <1>2. outcome = "running" /\ Proceed("accepted", "accepted")
    BY <1>1 DEF SendPacket, AtCall
  <1>. QED  BY <1>1, <1>2, Success

(* A whole number of sample groups taken out of the slot.                  *)
LEMMA FrameReceived ==
    ASSUME ReceiveFrame, Call.onError = "return",
           dPending # NoValue, dPending.data \in Seq(Byte),
           dPending.data # <<>>, dChannels \in Nat \ {0},
           Len(dPending.data) % dChannels = 0
    PROVE  /\ pc' = pc + 1 /\ outcome' = "running"
           /\ dPending' = NoValue
           /\ frame'.data = <<DecodeSliceToLeBytes(dLaw, dPending.data)>>
           /\ frame'.samples = (Len(dPending.data) \div dChannels) % U32Modulus
           /\ UNCHANGED <<encoder, program, packet>>
  <1>. DEFINE n == Len(dPending.data)
              count == (n \div dChannels) % U32Modulus
              plane == DecodeSliceToLeBytes(dLaw, dPending.data)
  <1>1. n # 0
    OBVIOUS
  <1>2. dReply' = Dec!Outcome(dLaw, dChannels, dPending) /\ dPending' = NoValue
    BY DEF ReceiveFrame, Dec!ReceiveFrame, Dec!ReceivePending, Dec!ReceiveNothing
  <1>3. dReply' = [status |-> "frame",
                   frame |-> [samples |-> count, pts |-> dPending.pts,
                              data |-> <<plane>>]]
    BY <1>1, <1>2, SameDecodedSlices DEF Dec!Outcome, Dec!FrameReply
  <1>. HIDE DEF count, plane
  <1>4. dReply'.status = "frame" /\ frame' = dReply'.frame
    BY <1>3 DEF ReceiveFrame
  <1>5. outcome = "running" /\ Proceed("frame", "frame")
    BY <1>4 DEF ReceiveFrame, AtCall
  <1>6. UNCHANGED <<encoder, program, packet>>
    BY DEF ReceiveFrame
  <1>7. pc' = pc + 1 /\ outcome' = "running"
    BY <1>5, Success
  <1>8. frame'.data = <<plane>> /\ frame'.samples = count
    BY <1>3, <1>4
  <1>. QED  BY <1>2, <1>6, <1>7, <1>8 DEF count, plane

(* An audio frame of whole samples put into an empty queue.                *)
LEMMA FrameSent ==
    ASSUME SendFrame, Call.onError = "return", eQueue = <<>>,
           FrameToSend.kind = "audio", NEW plane,
           FrameToSend.data = <<plane>>, Len(plane) % 2 = 0
    PROVE  /\ pc' = pc + 1 /\ outcome' = "running"
           /\ \E p : /\ eQueue' = <<p>> /\ p.pts = FrameToSend.pts
                     /\ p.data = EncodeSliceFromLeBytes(eLaw, plane)
           /\ UNCHANGED <<decoder, client>>
  <1>. DEFINE p == Enc!EncodedPacket(eLaw, eTimeBase, FrameToSend)
  <1>1. Enc!Encodable(FrameToSend)
    BY DEF Enc!Encodable
  <1>2. eReply' = [status |-> "accepted"] /\ eQueue' = Append(eQueue, p)
    BY <1>1 DEF SendFrame, Enc!SendFrame, Enc!Status
  <1>3. p.pts = FrameToSend.pts /\ p.data = EncodeSliceFromLeBytes(eLaw, plane)
    BY SameEncodedSlices DEF Enc!EncodedPacket
  <1>4. outcome = "running" /\ Proceed("accepted", "accepted")
    BY <1>2 DEF SendFrame, AtCall
  <1>5. UNCHANGED <<decoder, client>>
    BY DEF SendFrame
  <1>6. pc' = pc + 1 /\ outcome' = "running"
    BY <1>4, Success
  <1>. HIDE DEF p
  <1>7. eQueue' = <<p>>
    BY <1>2
  <1>. QED  BY <1>3, <1>5, <1>6, <1>7

(* The only packet of the queue taken out of it.                           *)
LEMMA PacketReceived ==
    ASSUME ReceivePacket, Call.onError = "return", NEW p, eQueue = <<p>>
    PROVE  /\ pc' = pc + 1 /\ outcome' = "running"
           /\ eQueue' = <<>> /\ packet' = p
           /\ UNCHANGED <<eLaw, decoder, program, frame>>
  <1>1. /\ eReply' = [status |-> "packet", packet |-> p] /\ eQueue' = <<>>
        /\ UNCHANGED eLaw
    BY DEF ReceivePacket, Enc!ReceivePacket, Enc!ReceiveQueued,
           Enc!ReceiveNothing, Enc!PacketReply
  <1>2. eReply'.status = "packet" /\ eReply'.packet = p
    BY <1>1
  <1>3. /\ outcome = "running" /\ Proceed("packet", "packet")
        /\ packet' = p /\ UNCHANGED <<decoder, program, frame>>
    BY <1>2 DEF ReceivePacket, AtCall
  <1>. QED  BY <1>1, <1>3, Success

-----------------------------------------------------------------------------
(* Slices against samples: what the targets compute beside the objects.    *)

(* A sample of a decoded slice is the sample decoded.                      *)
LEMMA DecodedSample ==
    ASSUME NEW l \in Laws, NEW input \in Seq(Byte), NEW k \in 1..Len(input)
    PROVE  SampleAt(DecodeSliceToLeBytes(l, input), k) = DecodeSample(l, input[k])
  <1>1. input[k] \in Byte
    OBVIOUS
  <1>2. SampleAt(DecodeSliceToLeBytes(l, input), k)
          = FromLeBytes(ToLeBytes(DecodeSample(l, input[k])))
    BY DecodedElement DEF SampleAt, FromLeBytes
  <1>. QED  BY <1>1, <1>2, SampleRecovers, LeBytesRecover

(* The expected transcoding is what a decoder and an encoder make of it.   *)
LEMMA TranscodedSlice ==
    ASSUME NEW from \in Laws, NEW to \in Laws, NEW bytes \in Seq(Byte)
    PROVE  /\ Transcode(from, to, bytes)
                = EncodeSliceFromLeBytes(to, DecodeSliceToLeBytes(from, bytes))
           /\ Transcode(from, to, bytes) \in Seq(Byte)
           /\ Len(Transcode(from, to, bytes)) = Len(bytes)
  <1>. DEFINE n     == Len(bytes)
              plane == DecodeSliceToLeBytes(from, bytes)
  <1>1. n \in Nat /\ plane \in Seq(Byte) /\ Len(plane) = 2 * n
    BY DecodeSliceType
  <1>2. Len(plane) \div 2 = n
    BY <1>1
  <1>3. ASSUME NEW k \in 1..n
        PROVE  SampleAt(plane, k) = DecodeSample(from, bytes[k])
    BY DecodedSample
  <1>4. EncodeSliceFromLeBytes(to, plane)
          = [k \in 1..n |-> EncodeSample(to, SampleAt(plane, k))]
    BY <1>2 DEF EncodeSliceFromLeBytes, MulawEncodeSliceFromLeBytes,
                AlawEncodeSliceFromLeBytes, EncodeSample
  <1>5. /\ EncodeSliceFromLeBytes(to, plane) \in Seq(Byte)
        /\ Len(EncodeSliceFromLeBytes(to, plane)) = n
    BY <1>1, <1>2, EncodeSliceType
  <1>. HIDE DEF plane
  <1>6. Transcode(from, to, bytes) = EncodeSliceFromLeBytes(to, plane)
    BY <1>3, <1>4 DEF Transcode
  <1>. QED  BY <1>5, <1>6 DEF plane

(* The expected round trip is what an encoder and a decoder make of it.    *)
LEMMA RoundTripSlice ==
    ASSUME NEW l \in Laws, NEW plane \in Seq(Byte), NEW n \in Nat,
           Len(plane) = 2 * n, NEW result,
           result = DecodeSliceToLeBytes(l, EncodeSliceFromLeBytes(l, plane))
    PROVE  /\ Len(result) = 2 * n
           /\ RoundTrip(l, plane, n) = [i \in 1..n |-> SampleAt(result, i)]
  <1>. DEFINE codes == EncodeSliceFromLeBytes(l, plane)
  <1>1. Len(plane) \div 2 = n
    OBVIOUS
  <1>2. codes \in Seq(Byte) /\ Len(codes) = n
    BY <1>1, EncodeSliceType
  <1>3. Len(result) = 2 * n
    BY <1>2, DecodeSliceType
  <1>4. ASSUME NEW i \in 1..n
        PROVE  SampleAt(result, i)
                 = DecodeSample(l, EncodeSample(l, SampleAt(plane, i)))
    <2>1. SampleAt(result, i) = DecodeSample(l, codes[i])
      BY <1>2, DecodedSample
    <2>2. codes[i] = EncodeSample(l, SampleAt(plane, i))
      BY <1>1, EncodedElement
    <2>. QED  BY <2>1, <2>2
  <1>. QED  BY <1>3, <1>4 DEF RoundTrip

-----------------------------------------------------------------------------
(* One direction of the gateway, the calls after the first base ones.      *)
IsTrip(calls, base, from, to, channels, bytes) ==
    /\ calls[base + 1] = NewDecoder(from, channels, "return")
    /\ \E rate :
          calls[base + 2] = NewEncoder(to, channels, "S16", rate, "return")
    /\ calls[base + 3] \in {SendPacketCall(PacketNew(bytes), "return"),
                            ForwardPacket("return")}
    /\ calls[base + 4] = ReceiveFrameCall("return")
    /\ calls[base + 5] = AssertFrame(NoValue, NoValue, Len(bytes), NoValue)
    /\ calls[base + 6] = Reframe("return")
    /\ calls[base + 7] = ReceivePacketCall("return")
    /\ calls[base + 8] = AssertPacket(NoValue, Len(bytes),
                                      Transcode(from, to, bytes))

(* What the client and its objects hold before the k-th call of a trip;    *)
(* send is the trip's third call.                                          *)
TripState(k, send, from, to, channels, bytes) ==
    /\ k \in 1..3 /\ send = ForwardPacket("return") =>
          packet.pts \in Times /\ packet.data = bytes
    /\ k \in 2..4 => dLaw = from /\ dChannels = channels
    /\ k \in 3..6 => eLaw = to
    /\ k # 4 => dPending = NoValue
    /\ k = 4 => dPending \in [pts : Times, data : {bytes}]
    /\ k \in 5..6 => frame.data = <<DecodeSliceToLeBytes(from, bytes)>>
    /\ k # 7 => eQueue = <<>>
    /\ k = 7 => \E p : /\ eQueue = <<p>> /\ p.pts = 0
                       /\ p.data = Transcode(from, to, bytes)
    /\ k \in 8..9 => packet.pts = 0 /\ packet.data = Transcode(from, to, bytes)

(* A group of bytes that the channels divide.                              *)
Aligned(bytes, channels) ==
    /\ bytes \in Seq(Byte) /\ bytes # <<>>
    /\ channels \in 1..8
    /\ Len(bytes) % channels = 0

(* Each call of a trip succeeds, or its assertion holds, and leaves what the*)
(* next one needs.                                                         *)
LEMMA TripStep ==
    ASSUME NEW from \in Laws, NEW to \in Laws, NEW channels, NEW bytes,
           Aligned(bytes, channels), NEW base \in Nat, NEW k \in 1..8,
           pc = base + k, pc <= Len(program), Len(program) \in Nat,
           outcome = "running", [Next]_vars,
           IsTrip(program, base, from, to, channels, bytes),
           TripState(k, program[base + 3], from, to, channels, bytes)
    PROVE  \/ UNCHANGED vars
           \/ /\ pc' = pc + 1 /\ outcome' = "running" /\ program' = program
              /\ TripState(k + 1, program[base + 3], from, to, channels, bytes)'
  <1>. DEFINE send == program[base + 3]
  <1>0. /\ bytes \in Seq(Byte) /\ bytes # <<>> /\ channels \in 1..8
        /\ Len(bytes) % channels = 0
    BY DEF Aligned
  <1>a. Call = program[base + k]
    BY DEF Call
  <1>. SUFFICES ASSUME ~ UNCHANGED vars
                PROVE  /\ pc' = pc + 1 /\ outcome' = "running"
                       /\ program' = program
                       /\ TripState(k + 1, send, from, to, channels, bytes)'
    OBVIOUS
  <1>b. /\ Call.call = "make_decoder"   => MakeDecoder
        /\ Call.call = "make_encoder"   => MakeEncoder
        /\ Call.call = "send_packet"    => SendPacket
        /\ Call.call = "receive_frame"  => ReceiveFrame
        /\ Call.call = "send_frame"     => SendFrame
        /\ Call.call = "receive_packet" => ReceivePacket
        /\ Call.call = "assert_packet"  => CheckPacket
        /\ Call.call = "assert_frame"   => CheckFrame
    BY OneAction
  <1>1. CASE k = 1
    <2>1. Call = NewDecoder(from, channels, "return")
      BY <1>a, <1>1 DEF IsTrip
    <2>2. /\ MakeDecoder /\ Call.onError = "return"
          /\ Call.law = from /\ Call.channels = channels
      BY <1>b, <2>1 DEF NewDecoder
    <2>3. /\ pc' = pc + 1 /\ outcome' = "running"
          /\ dLaw' = from /\ dChannels' = channels
          /\ UNCHANGED <<dPending, eQueue, program, packet>>
      BY <1>0, <2>2, DecoderMade DEF encoder, client
    <2>. QED  BY <1>1, <2>3 DEF TripState
  <1>2. CASE k = 2
    <2>1. PICK rate : Call = NewEncoder(to, channels, "S16", rate, "return")
      BY <1>a, <1>2 DEF IsTrip
    <2>2. /\ MakeEncoder /\ Call.onError = "return" /\ Call.law = to
          /\ Call.channels = channels /\ Call.format = "S16"
      BY <1>b, <2>1 DEF NewEncoder
    <2>3. /\ pc' = pc + 1 /\ outcome' = "running" /\ eLaw' = to
          /\ UNCHANGED <<eQueue, dLaw, dChannels, dPending, program, packet>>
      BY <1>0, <2>2, EncoderMade DEF decoder, client
    <2>. QED  BY <1>2, <2>3 DEF TripState
  <1>3. CASE k = 3
    <2>1. Call = send /\ Call \in {SendPacketCall(PacketNew(bytes), "return"),
                                   ForwardPacket("return")}
      BY <1>a, <1>3 DEF IsTrip
    <2>2. SendPacket /\ Call.onError = "return"
      BY <1>b, <2>1 DEF SendPacketCall, ForwardPacket
    <2>3. PacketToSend \in [pts : Times, data : {bytes}]
      <3>1. CASE Call = SendPacketCall(PacketNew(bytes), "return")
        BY <3>1 DEF PacketToSend, SendPacketCall, PacketNew, Times
      <3>2. CASE Call = ForwardPacket("return")
        BY <1>3, <2>1, <3>2 DEF PacketToSend, ForwardPacket, TripState
      <3>. QED  BY <2>1, <3>1, <3>2
    <2>4. /\ pc' = pc + 1 /\ outcome' = "running" /\ dPending' = PacketToSend
          /\ UNCHANGED <<eLaw, eQueue, dLaw, dChannels, program, packet>>
      BY <1>3, <2>2, PacketSent DEF encoder, client, TripState
    <2>. QED  BY <1>3, <2>3, <2>4 DEF TripState
  <1>4. CASE k = 4
    <2>1. Call = ReceiveFrameCall("return")
      BY <1>a, <1>4 DEF IsTrip
    <2>2. ReceiveFrame /\ Call.onError = "return"
      BY <1>b, <2>1 DEF ReceiveFrameCall
    <2>3. /\ dPending.data = bytes /\ dPending # NoValue
          /\ dLaw = from /\ dChannels = channels
      BY <1>0, <1>4, NoneAssumption DEF TripState
    <2>4. /\ pc' = pc + 1 /\ outcome' = "running" /\ dPending' = NoValue
          /\ frame'.data = <<DecodeSliceToLeBytes(from, bytes)>>
          /\ UNCHANGED <<eLaw, eQueue, program, packet>>
      BY <1>0, <2>2, <2>3, FrameReceived DEF encoder
    <2>. QED  BY <1>4, <2>4 DEF TripState
  <1>5. CASE k = 5
    <2>1. Call = AssertFrame(NoValue, NoValue, Len(bytes), NoValue)
      BY <1>a, <1>5 DEF IsTrip
    <2>2. /\ CheckFrame /\ Call.pts = NoValue /\ Call.channels = NoValue
          /\ Call.slots = Len(bytes) /\ Call.samples = NoValue
      BY <1>b, <2>1 DEF AssertFrame
    <2>3. Len(frame.data[1]) = 2 * Len(bytes)
      <3>1. frame.data[1] = DecodeSliceToLeBytes(from, bytes)
        BY <1>5 DEF TripState
      <3>. QED  BY <1>0, <3>1, DecodeSliceType
    <2>4. /\ pc' = pc + 1 /\ outcome' = "running"
          /\ UNCHANGED <<encoder, decoder, client>>
      BY <2>2, <2>3 DEF CheckFrame, Check
    <2>5. UNCHANGED <<eLaw, eQueue, dPending, program, packet, frame>>
      BY <2>4 DEF encoder, decoder, client
    <2>. QED  BY <1>5, <2>4, <2>5 DEF TripState
  <1>6. CASE k = 6
    <2>. DEFINE plane == DecodeSliceToLeBytes(from, bytes)
    <2>1. Call = Reframe("return")
      BY <1>a, <1>6 DEF IsTrip
    <2>2. SendFrame /\ Call.onError = "return" /\ Call.source = "decoded"
      BY <1>b, <2>1 DEF Reframe
    <2>3. /\ FrameToSend.kind = "audio" /\ FrameToSend.pts = 0
          /\ FrameToSend.data = <<plane>>
      BY <1>6, <2>2 DEF FrameToSend, AudioFrame, TripState
    <2>4. Len(plane) % 2 = 0
      <3>1. Len(plane) = 2 * Len(bytes) /\ Len(bytes) \in Nat
        BY <1>0, DecodeSliceType
      <3>. HIDE DEF plane
      <3>. QED  BY <3>1
    <2>. HIDE DEF plane
    <2>5. /\ pc' = pc + 1 /\ outcome' = "running"
          /\ \E p : /\ eQueue' = <<p>> /\ p.pts = FrameToSend.pts
                    /\ p.data = EncodeSliceFromLeBytes(eLaw, plane)
          /\ UNCHANGED <<decoder, client>>
      BY <1>6, <2>2, <2>3, <2>4, FrameSent DEF TripState
    <2>6. eLaw = to /\ dPending = NoValue
      BY <1>6 DEF TripState
    <2>7. EncodeSliceFromLeBytes(to, plane) = Transcode(from, to, bytes)
      BY <1>0, TranscodedSlice DEF plane
    <2>8. UNCHANGED <<dPending, program>>
      BY <2>5 DEF decoder, client
    <2>9. \E p : /\ eQueue' = <<p>> /\ p.pts = 0
                 /\ p.data = Transcode(from, to, bytes)
      BY <2>3, <2>5, <2>6, <2>7
    <2>. QED  BY <1>6, <2>5, <2>6, <2>8, <2>9 DEF TripState
  <1>7. CASE k = 7
    <2>1. Call = ReceivePacketCall("return")
      BY <1>a, <1>7 DEF IsTrip
    <2>2. ReceivePacket /\ Call.onError = "return"
      BY <1>b, <2>1 DEF ReceivePacketCall
    <2>3. PICK p : /\ eQueue = <<p>> /\ p.pts = 0
                   /\ p.data = Transcode(from, to, bytes)
      BY <1>7 DEF TripState
    <2>4. /\ pc' = pc + 1 /\ outcome' = "running"
          /\ eQueue' = <<>> /\ packet' = p /\ UNCHANGED <<dPending, program>>
      BY <2>2, <2>3, PacketReceived DEF decoder
    <2>. QED  BY <1>7, <2>3, <2>4 DEF TripState
  <1>8. CASE k = 8
    <2>1. Call = AssertPacket(NoValue, Len(bytes), Transcode(from, to, bytes))
      BY <1>a, <1>8 DEF IsTrip
    <2>2. /\ CheckPacket /\ Call.pts = NoValue /\ Call.length = Len(bytes)
          /\ Call.data = Transcode(from, to, bytes)
      BY <1>b, <2>1 DEF AssertPacket
    <2>3. packet.data = Transcode(from, to, bytes)
      BY <1>8 DEF TripState
    <2>4. Len(packet.data) = Len(bytes)
      BY <1>0, <2>3, TranscodedSlice
    <2>5. /\ pc' = pc + 1 /\ outcome' = "running"
          /\ UNCHANGED <<encoder, decoder, client>>
      BY <2>2, <2>3, <2>4 DEF CheckPacket, Check
    <2>6. UNCHANGED <<eQueue, dPending, program, packet>>
      BY <2>5 DEF encoder, decoder, client
    <2>. QED  BY <1>8, <2>5, <2>6 DEF TripState
  <1>. QED  BY <1>1, <1>2, <1>3, <1>4, <1>5, <1>6, <1>7, <1>8

-----------------------------------------------------------------------------
(* The gateway: one trip, or a trip there and one back.                    *)
IsGateway(calls, near, far, channels, bytes) ==
    /\ near \in Laws /\ far \in Laws /\ Aligned(bytes, channels)
    /\ IsTrip(calls, 0, near, far, channels, bytes)
    /\ calls[3] = SendPacketCall(PacketNew(bytes), "return")
    /\ \/ Len(calls) = 8
       \/ /\ Len(calls) = 17 /\ calls[9] = Drop(NoValue)
          /\ IsTrip(calls, 9, far, near, channels, Transcode(near, far, bytes))

(* The first trip, and the second with the bytes the first has brought.    *)
GatewayState(near, far, channels, bytes) ==
    /\ IsGateway(program, near, far, channels, bytes)
    /\ pc \in 1..(Len(program) + 1)
    /\ outcome \in {"running", "done"}
    /\ outcome = "done" => pc = Len(program) + 1
    /\ pc \in 1..9 => TripState(pc, program[3], near, far, channels, bytes)
    /\ pc \in 10..18 => TripState(pc - 9, program[12], far, near, channels,
                                  Transcode(near, far, bytes))

(* TranscodeCalls makes a trip, and so do eight calls that agree with one. *)
LEMMA TripTuple ==
    ASSUME NEW from \in Laws, NEW to \in Laws, NEW channels, NEW rate,
           NEW bytes \in Seq(Byte),
           NEW send \in {SendPacketCall(PacketNew(bytes), "return"),
                         ForwardPacket("return")},
           NEW trip, trip = TranscodeCalls(from, to, channels, rate, send,
                                           Transcode(from, to, bytes)),
           NEW S, \A i \in 1..8 : trip[i] \in S
    PROVE  /\ Len(trip) = 8 /\ trip[3] = send /\ trip \in Seq(S)
           /\ IsTrip(trip, 0, from, to, channels, bytes)
  <1>1. Len(Transcode(from, to, bytes)) = Len(bytes)
    BY TranscodedSlice
  <1>. DEFINE expected == Transcode(from, to, bytes)
  <1>. HIDE DEF expected
  <1>2. trip = << NewDecoder(from, channels, "return"),
                  NewEncoder(to, channels, "S16", rate, "return"),
                  send, ReceiveFrameCall("return"),
                  AssertFrame(NoValue, NoValue, Len(bytes), NoValue),
                  Reframe("return"), ReceivePacketCall("return"),
                  AssertPacket(NoValue, Len(bytes), expected) >>
    BY <1>1 DEF TranscodeCalls, expected
  <1>3. Len(trip) = 8 /\ trip[3] = send /\ trip \in Seq(S)
    BY <1>2
  <1>4. IsTrip(trip, 0, from, to, channels, bytes)
    BY <1>2 DEF IsTrip, expected
  <1>. QED  BY <1>3, <1>4

(* Where eight calls of a program are a trip, the program makes it there.  *)
LEMMA TripWithin ==
    ASSUME NEW calls, NEW trip, NEW base \in Nat,
           NEW from, NEW to, NEW channels, NEW bytes,
           \A i \in 1..8 : calls[base + i] = trip[i],
           IsTrip(trip, 0, from, to, channels, bytes)
    PROVE  IsTrip(calls, base, from, to, channels, bytes)
  BY DEF IsTrip

(* What trimming and capping leave.                                        *)
LEMMA TrimmedDivides ==
    ASSUME NEW n \in Nat, NEW k \in Nat \ {0}
    PROVE  /\ TrimToMultiple(n, k) \in 0..n
           /\ TrimToMultiple(n, k) % k = 0
           /\ TrimToMultiple(n, k) \div k = n \div k
  BY DivModNat DEF TrimToMultiple

(* What a cap leaves of an input.                                          *)
LEMMA PrefixOf ==
    ASSUME NEW S, NEW data \in Seq(S), NEW n \in Nat
    PROVE  /\ Capped(data, n) \in Seq(S)
           /\ Len(Capped(data, n)) = Smaller(Len(data), n)
  BY DEF Capped, Smaller

(* What is left of an input behind its header.                             *)
LEMMA SuffixOf ==
    ASSUME NEW S, NEW data \in Seq(S), NEW i \in Nat \ {0}
    PROVE  From(data, i) \in Seq(S)
  BY DEF From

(* A trip, a drop and a second trip are where IsGateway wants them.        *)
LEMMA TripsMakeGateway ==
    ASSUME NEW near \in Laws, NEW far \in Laws, NEW channels, NEW rate,
           NEW reverse \in BOOLEAN, NEW payload, Aligned(payload, channels),
           NEW calls, calls = Trips(near, far, channels, rate, reverse, payload)
    PROVE  /\ Len(calls) \in {8, 17}
           /\ IsGateway(calls, near, far, channels, payload)
  <1>. DEFINE there    == Transcode(near, far, payload)
              given    == SendPacketCall(PacketNew(payload), "return")
              first    == TranscodeCalls(near, far, channels, rate, given, there)
              back     == TranscodeCalls(far, near, channels, rate,
                                         ForwardPacket("return"),
                                         Transcode(far, near, there))
              between  == <<Drop(NoValue)>>
  <1>1. payload \in Seq(Byte)
    BY DEF Aligned
  <1>2. calls = first \o (IF reverse THEN between \o back ELSE <<>>)
    BY Zenon DEF Trips
  <1>3. there \in Seq(Byte)
    BY <1>1, TranscodedSlice
  <1>. DEFINE S == {first[i] : i \in 1..8} \cup {back[i] : i \in 1..8}
                   \cup {Drop(NoValue)}
  <1>. HIDE DEF there
  <1>4. /\ Len(first) = 8 /\ first[3] = given /\ first \in Seq(S)
        /\ IsTrip(first, 0, near, far, channels, payload)
    <2>1. there = Transcode(near, far, payload)
      BY DEF there
    <2>2. \A i \in 1..8 : first[i] \in S
      OBVIOUS
    <2>. HIDE DEF first, S
    <2>. QED  BY <1>1, <2>1, <2>2, TripTuple DEF first
  <1>5. /\ Len(back) = 8 /\ back \in Seq(S)
        /\ IsTrip(back, 0, far, near, channels, there)
    <2>1. \A i \in 1..8 : back[i] \in S
      OBVIOUS
    <2>. HIDE DEF back, S
    <2>. QED  BY <1>3, <2>1, TripTuple DEF back
  <1>6. Drop(NoValue) \in S
    OBVIOUS
  <1>. HIDE DEF first, back, S
  <1>7. CASE ~ reverse
    <2>1. calls = first
      BY <1>2, <1>4, <1>7
    <2>2. IsGateway(calls, near, far, channels, payload)
      BY <1>4, <2>1 DEF IsGateway
    <2>. QED  BY <1>4, <2>1, <2>2
  <1>8. CASE reverse
    <2>1. between \in Seq(S) /\ Len(between) = 1 /\ between[1] = Drop(NoValue)
      BY <1>6
    <2>. DEFINE rest == between \o back
    <2>. HIDE DEF between
    <2>2. IsJoined(rest, between, back) /\ rest \in Seq(S)
      BY <1>5, <2>1, Joined
    <2>3. calls = first \o rest
      BY <1>2, <1>8
    <2>. HIDE DEF rest
    <2>4. IsJoined(calls, first, rest)
      BY <1>4, <2>2, <2>3, Joined
    <2>5. Len(rest) = 9 /\ rest[1] = Drop(NoValue)
          /\ \A i \in 1..8 : rest[1 + i] = back[i]
      BY <1>5, <2>1, <2>2 DEF IsJoined
    <2>6. /\ Len(calls) = 17
          /\ \A i \in 1..8 : calls[i] = first[i]
          /\ \A i \in 1..9 : calls[8 + i] = rest[i]
      BY <1>4, <2>4, <2>5 DEF IsJoined
    <2>7. calls[9] = Drop(NoValue) /\ \A i \in 1..8 : calls[9 + i] = back[i]
      <3>1. calls[8 + 1] = rest[1]
        BY <2>6
      <3>2. ASSUME NEW i \in 1..8 PROVE calls[9 + i] = back[i]
        <4>1. i + 1 \in 1..9 /\ 8 + (i + 1) = 9 + i /\ 1 + i = i + 1
          OBVIOUS
        <4>2. calls[8 + (i + 1)] = rest[i + 1]
          BY <2>6, <4>1
        <4>3. rest[1 + i] = back[i]
          BY <2>5
        <4>. QED  BY <4>1, <4>2, <4>3
      <3>. QED  BY <2>5, <3>1, <3>2
    <2>8. IsTrip(calls, 0, near, far, channels, payload)
      <3>1. \A i \in 1..8 : calls[0 + i] = first[i]
        BY <2>6
      <3>. QED  BY <1>4, <3>1, TripWithin
    <2>9. IsTrip(calls, 9, far, near, channels, Transcode(near, far, payload))
      BY <1>5, <2>7, TripWithin DEF there
    <2>10. calls[3] = given
      BY <1>4, <2>6
    <2>11. IsGateway(calls, near, far, channels, payload)
      BY <2>6, <2>7, <2>8, <2>9, <2>10 DEF IsGateway
    <2>. QED  BY <2>6, <2>11
  <1>. QED  BY <1>7, <1>8

(* What cross_law_transcode makes of any input: nothing, or such a program *)
(* with a law pair, a channel count and bytes the channels divide.         *)
LEMMA GatewayProgram ==
    ASSUME NEW data \in Seq(Byte)
    PROVE  \/ Gateway(data) = <<>>
           \/ /\ Len(Gateway(data)) \in {8, 17}
              /\ \E near, far, channels, bytes :
                    IsGateway(Gateway(data), near, far, channels, bytes)
  <1>. DEFINE near     == IF BitSet(data[1], 1) THEN "alaw" ELSE "mulaw"
              far      == OtherLaw(near)
              reverse  == BitSet(data[1], 2)
              seed     == data[1]
              channels == ((seed \div 4) % 8) + 1
              rate     == AtLeastOne(U16FromLe(data[2], data[3]) % 192000)
              capped   == Capped(From(data, 4), MaxPayload)
              payload  == Capped(capped, TrimToMultiple(Len(capped), channels))
  <1>. SUFFICES ASSUME Gateway(data) # <<>>
                PROVE  /\ Len(Gateway(data)) \in {8, 17}
                       /\ \E n, f, c, b : IsGateway(Gateway(data), n, f, c, b)
    OBVIOUS
  <1>1. ~ (Len(data) < 3) /\ payload # <<>>
    BY SMT DEF Gateway
  <1>2. near \in Laws /\ far \in Laws
    BY DEF Laws, OtherLaw
  <1>3. channels \in 1..8
    <2>1. seed \in 0..255
      <3>1. 1 \in 1..Len(data)
        BY <1>1
      <3>2. data[1] \in Byte
        BY <3>1
      <3>. QED  BY <3>2 DEF Byte
    <2>. HIDE DEF seed
    <2>. QED  BY <2>1
  <1>4. capped \in Seq(Byte)
    BY SuffixOf, PrefixOf, PayloadAssumption
  <1>5. Aligned(payload, channels)
    <2>. HIDE DEF capped, channels
    <2>1. Len(capped) \in Nat /\ channels \in Nat \ {0}
      BY <1>3, <1>4
    <2>2. /\ TrimToMultiple(Len(capped), channels) \in 0..Len(capped)
          /\ TrimToMultiple(Len(capped), channels) % channels = 0
      BY <2>1, TrimmedDivides
    <2>3. /\ payload \in Seq(Byte)
          /\ Len(payload) = Smaller(Len(capped),
                                    TrimToMultiple(Len(capped), channels))
      BY <1>4, <2>2, PrefixOf
    <2>4. Len(payload) = TrimToMultiple(Len(capped), channels)
      BY <1>4, <2>2, <2>3 DEF Smaller
    <2>. QED  BY <1>1, <1>3, <2>2, <2>3, <2>4 DEF Aligned
  <1>6. Gateway(data) = Trips(near, far, channels, rate, reverse, payload)
    BY <1>1, SMT DEF Gateway
  <1>7. reverse \in BOOLEAN
    BY DEF BitSet
  <1>. HIDE DEF near, far, channels, rate, reverse, payload
  <1>. QED  BY <1>2, <1>5, <1>6, <1>7, TripsMakeGateway

(* Some gateway is running.                                                *)
IsGatewayRun == \E near, far, channels, bytes :
                   GatewayState(near, far, channels, bytes)

(* It starts with its own packet to send, and empty objects.               *)
LEMMA GatewayInit ==
    ASSUME Init, NEW data \in Seq(Byte), program = Gateway(data),
           program # <<>>
    PROVE  IsGatewayRun
  <1>1. PICK near, far, channels, bytes :
           IsGateway(program, near, far, channels, bytes)
    BY GatewayProgram
  <1>2. Len(program) \in {8, 17}
    BY <1>1 DEF IsGateway
  <1>3. /\ pc = 1 /\ outcome = "running" /\ packet = NoValue
        /\ dPending = NoValue /\ eQueue = <<>>
    BY DEF Init, Enc!Init, Dec!Init
  <1>4. program[3] # ForwardPacket("return")
    BY <1>1 DEF IsGateway, SendPacketCall, ForwardPacket
  <1>5. TripState(1, program[3], near, far, channels, bytes)
    BY <1>3, <1>4 DEF TripState
  <1>6. GatewayState(near, far, channels, bytes)
    BY <1>1, <1>2, <1>3, <1>5 DEF GatewayState
  <1>. QED  BY <1>6 DEF IsGatewayRun

(* Through the first trip, over the drop, through the second, to the end.  *)
LEMMA GatewayStep ==
    ASSUME NEW near, NEW far, NEW channels, NEW bytes,
           GatewayState(near, far, channels, bytes), [Next]_vars
    PROVE  GatewayState(near, far, channels, bytes)'
  <1>. DEFINE there == Transcode(near, far, bytes)
  <1>1. /\ IsGateway(program, near, far, channels, bytes)
        /\ pc \in 1..(Len(program) + 1)
        /\ Len(program) \in {8, 17}
    BY DEF GatewayState, IsGateway
  <1>2. /\ near \in Laws /\ far \in Laws /\ Aligned(bytes, channels)
        /\ IsTrip(program, 0, near, far, channels, bytes)
    BY <1>1 DEF IsGateway
  <1>a. ASSUME Len(program) # 8
        PROVE  /\ Len(program) = 17 /\ program[9] = Drop(NoValue)
               /\ IsTrip(program, 9, far, near, channels, there)
    BY <1>1, <1>a, Zenon DEF IsGateway, there
  <1>b. /\ Len(program) \in Nat /\ Len(program) >= 8 /\ Len(program) <= 17
        /\ pc \in Nat
    <2>. DEFINE n == Len(program)
    <2>1. n \in {8, 17} /\ pc \in 1..(n + 1)
      BY <1>1
    <2>. HIDE DEF n
    <2>2. n \in Nat /\ n >= 8 /\ n <= 17
      BY <2>1
    <2>3. pc \in Nat
      BY <2>1, <2>2
    <2>. QED  BY <2>2, <2>3 DEF n
  <1>3. Aligned(there, channels)
    <2>1. there \in Seq(Byte) /\ Len(there) = Len(bytes)
      BY <1>2, TranscodedSlice DEF Aligned
    <2>. HIDE DEF there
    <2>. QED  BY <1>2, <2>1 DEF Aligned
  <1>. HIDE DEF there
  <1>4. CASE UNCHANGED vars
    <2>1. UNCHANGED <<program, pc, outcome, packet, frame, dPending, dLaw,
                      dChannels, eLaw, eQueue>>
      BY <1>4 DEF vars, encoder, decoder, client
    <2>. QED  BY <2>1 DEF GatewayState, TripState, there
  <1>5. CASE outcome # "running"
    BY <1>4, <1>5, Stopped
  <1>6. CASE outcome = "running" /\ pc \in 1..8
    <2>1. PICK k \in 1..8 : pc = k
      BY <1>6
    <2>2. TripState(k, program[3], near, far, channels, bytes)
      BY <2>1 DEF GatewayState
    <2>3. pc = 0 + k /\ pc <= Len(program) /\ 0 + 3 = 3 /\ 0 \in Nat
      BY <1>b, <2>1
    <2>4. \/ UNCHANGED vars
          \/ /\ pc' = pc + 1 /\ outcome' = "running" /\ program' = program
             /\ TripState(k + 1, program[3], near, far, channels, bytes)'
      BY <1>2, <1>b, <1>6, <2>2, <2>3, TripStep, Zenon
    <2>5. ASSUME pc' = pc + 1, outcome' = "running", program' = program,
                 TripState(k + 1, program[3], near, far, channels, bytes)'
          PROVE  GatewayState(near, far, channels, bytes)'
      <3>1. pc' = k + 1 /\ pc' \in 1..(Len(program) + 1) /\ pc' \in 1..9
        BY <1>b, <2>1, <2>3, <2>5
      <3>. QED  BY <1>1, <2>5, <3>1 DEF GatewayState
    <2>. QED  BY <1>4, <2>4, <2>5
  <1>7. CASE outcome = "running" /\ pc = 9 /\ Len(program) # 8
    <2>1. Call = Drop(NoValue) /\ pc <= Len(program)
      BY <1>a, <1>7 DEF Call
    <2>2. EndScope \/ UNCHANGED vars
      BY <1>b, <1>7, <2>1, OneAction DEF Drop
    <2>3. CASE EndScope
      <3>1. TripState(9, program[3], near, far, channels, bytes)
        BY <1>7 DEF GatewayState
      <3>2. packet.pts = 0 /\ packet.data = there
        BY <3>1 DEF TripState, there
      <3>3. /\ pc' = 10 /\ outcome' = "running" /\ dPending' = NoValue
            /\ eQueue' = <<>> /\ UNCHANGED <<program, packet>>
        BY <1>7, <2>3 DEF EndScope, EndDecoder
      <3>4. TripState(1, program[12], far, near, channels, there)'
        BY <3>2, <3>3 DEF TripState, Times
      <3>5. pc' - 9 = 1 /\ pc' \in 1..(Len(program) + 1) /\ pc' \notin 1..9
        BY <1>a, <1>7, <3>3
      <3>. QED  BY <1>1, <3>3, <3>4, <3>5 DEF GatewayState, there
    <2>. QED  BY <1>4, <2>2, <2>3
  <1>8. CASE outcome = "running" /\ pc \in 10..17 /\ Len(program) # 8
    <2>1. PICK k \in 1..8 : pc = 9 + k
      <3>1. pc - 9 \in 1..8 /\ pc = 9 + (pc - 9)
        BY <1>8
      <3>. QED  BY <3>1
    <2>2. TripState(k, program[9 + 3], far, near, channels, there)
      <3>1. pc - 9 = k /\ 9 + 3 = 12 /\ pc \in 10..18
        BY <2>1, <1>8
      <3>. QED  BY <3>1 DEF GatewayState, there
    <2>a. Len(program) = 17
      BY <1>a, <1>8
    <2>3. pc <= Len(program) /\ 9 \in Nat
      BY <1>8, <2>a
    <2>4. \/ UNCHANGED vars
          \/ /\ pc' = pc + 1 /\ outcome' = "running" /\ program' = program
             /\ TripState(k + 1, program[9 + 3], far, near, channels, there)'
      BY <1>2, <1>3, <1>a, <1>b, <1>8, <2>1, <2>2, <2>3, TripStep, Zenon
    <2>5. ASSUME pc' = pc + 1, outcome' = "running", program' = program,
                 TripState(k + 1, program[9 + 3], far, near, channels, there)'
          PROVE  GatewayState(near, far, channels, bytes)'
      <3>1. /\ pc' - 9 = k + 1 /\ pc' \in 1..(Len(program) + 1)
            /\ pc' \notin 1..9 /\ 9 + 3 = 12
        BY <1>8, <2>1, <2>a, <2>5
      <3>. QED  BY <1>1, <2>5, <3>1 DEF GatewayState, there
    <2>. QED  BY <1>4, <2>4, <2>5
  <1>9. CASE outcome = "running" /\ pc > Len(program)
    <2>1. CASE Complete
      <3>1. /\ outcome' = "done"
            /\ UNCHANGED <<program, pc, packet, frame, dPending, dLaw,
                           dChannels, eLaw, eQueue>>
        BY <2>1 DEF Complete, encoder, decoder, client
      <3>2. pc = Len(program) + 1
        <4>. DEFINE n == Len(program)
        <4>1. n \in Nat /\ pc \in 1..(n + 1) /\ pc > n
          BY <1>b, <1>1, <1>9
        <4>. HIDE DEF n
        <4>2. pc = n + 1
          BY <4>1
        <4>. QED  BY <4>2 DEF n
      <3>3. pc' = Len(program') + 1
        BY <3>1, <3>2
      <3>. QED  BY <3>1, <3>3 DEF GatewayState, TripState, there
    <2>. QED  BY <1>b, <1>4, <1>9, <2>1, Finishing
  <1>10. \/ pc \in 1..8 \/ pc > Len(program)
         \/ (Len(program) # 8 /\ (pc = 9 \/ pc \in 10..17))
    <2>. DEFINE n == Len(program)
    <2>1. pc \in 1..(n + 1) /\ (n = 8 \/ n = 17)
      BY <1>1
    <2>. HIDE DEF n
    <2>2. pc \in 1..8 \/ pc > n \/ (n # 8 /\ (pc = 9 \/ pc \in 10..17))
      BY <2>1
    <2>. QED  BY <2>2 DEF n
  <1>. QED  BY <1>4, <1>5, <1>6, <1>7, <1>8, <1>9, <1>10

(* The drop is the ninth call, where the first trip has been drained; the  *)
(* program ends where its last trip has been.                              *)
LEMMA GatewaySafe ==
    ASSUME NEW near, NEW far, NEW channels, NEW bytes,
           GatewayState(near, far, channels, bytes)
    PROVE  NeverPanics /\ GivesUpOnlyAtFactory /\ NothingLeftBehind
  <1>1. NeverPanics /\ GivesUpOnlyAtFactory
    BY DEF GatewayState, NeverPanics, GivesUpOnlyAtFactory
  <1>a. /\ IsGateway(program, near, far, channels, bytes)
        /\ pc \in 1..(Len(program) + 1)
        /\ Len(program) \in {8, 17}
    BY DEF GatewayState, IsGateway
  <1>2. ASSUME NEW name \in {"drop", "drop_decoder"}, AtCall(name)
        PROVE  pc = 9 /\ Call = Drop(NoValue)
    <2>1. Call.call = name /\ Call = program[pc] /\ pc <= Len(program)
      BY <1>2 DEF AtCall, Call
    <2>2. ASSUME NEW base \in {0, 9}, NEW k \in 1..8, pc = base + k,
                 NEW from, NEW to, NEW b,
                 IsTrip(program, base, from, to, channels, b)
          PROVE  FALSE
      <3>1. k = 1 \/ k = 2 \/ k = 3 \/ k = 4 \/ k = 5 \/ k = 6 \/ k = 7 \/ k = 8
        OBVIOUS
      <3>2. program[base + k].call \notin {"drop", "drop_decoder"}
        BY <2>2, <3>1
           DEF IsTrip, NewDecoder, NewEncoder, SendPacketCall, ForwardPacket,
               ReceiveFrameCall, AssertFrame, Reframe, ReceivePacketCall,
               AssertPacket
      <3>. QED  BY <2>1, <2>2, <3>2
    <2>4. pc \notin 1..8
      <3>. SUFFICES ASSUME pc \in 1..8 PROVE FALSE
        OBVIOUS
      <3>1. PICK k \in 1..8 : pc = 0 + k
        <4>1. pc = 0 + pc
          OBVIOUS
        <4>. QED  BY <4>1
      <3>. QED  BY <1>a, <2>2, <3>1 DEF IsGateway
    <2>5. pc <= 17
      BY <1>a, <2>1
    <2>6. Len(program) # 8
      BY <1>a, <2>1, <2>4
    <2>7. /\ Len(program) = 17 /\ program[9] = Drop(NoValue)
          /\ IsTrip(program, 9, far, near, channels, Transcode(near, far, bytes))
      BY <1>a, <2>6, Zenon DEF IsGateway
    <2>8. pc \notin 10..17
      <3>. SUFFICES ASSUME pc \in 10..17 PROVE FALSE
        OBVIOUS
      <3>1. PICK k \in 1..8 : pc = 9 + k
        <4>1. pc - 9 \in 1..8 /\ pc = 9 + (pc - 9)
          OBVIOUS
        <4>. QED  BY <4>1
      <3>. QED  BY <2>2, <2>7, <3>1
    <2>9. pc = 9
      BY <1>a, <2>4, <2>5, <2>8
    <2>. QED
      BY <2>1, <2>7, <2>9
  <1>3. ASSUME ScopeEnds
        PROVE  eQueue = <<>> /\ dPending = NoValue
    <2>1. pc = 9 \/ pc = 18
      <3>1. CASE AtCall("drop")
        BY <1>2, <3>1
      <3>2. CASE outcome = "done"
        <4>. DEFINE n == Len(program)
        <4>1. pc = n + 1 /\ (n = 8 \/ n = 17)
          BY <1>a, <3>2 DEF GatewayState
        <4>. HIDE DEF n
        <4>. QED  BY <4>1
      <3>3. outcome # "returned"
        BY DEF GatewayState
      <3>. QED  BY <1>3, <3>1, <3>2, <3>3 DEF ScopeEnds
    <2>2. CASE pc = 9
      BY <2>2 DEF GatewayState, TripState
    <2>3. CASE pc = 18
      <3>1. pc \in 10..18 /\ pc - 9 = 9
        BY <2>3
      <3>. QED  BY <3>1 DEF GatewayState, TripState
    <2>. QED  BY <2>1, <2>2, <2>3
  <1>4. AtCall("drop_decoder") => FALSE
    BY <1>2 DEF AtCall, Drop
  <1>5. AtCall("drop") => Call.bytes = NoValue
    BY <1>2 DEF Drop
  <1>. QED  BY <1>1, <1>3, <1>4, <1>5 DEF NothingLeftBehind


-----------------------------------------------------------------------------
(* encode_pipeline: one frame there and back.                              *)
IsEncode(calls, law, channels, bytes, slots) ==
    /\ law \in Laws /\ channels \in 1..8
    /\ slots \in Nat \ {0} /\ slots % channels = 0
    /\ slots \div channels <= MaxPayload
    /\ bytes \in Seq(Byte) /\ Len(bytes) = 2 * slots
    /\ Len(calls) = 8
    /\ \E rate : calls[1] = NewEncoder(law, channels, "S16", rate, "return")
    /\ calls[2] = NewDecoder(law, channels, "return")
    /\ calls[3] = SendFrameCall(AudioFrame(slots \div channels, 0, <<bytes>>),
                                "return")
    /\ calls[4] = ReceivePacketCall("return")
    /\ calls[5] = AssertPacket(NoValue, slots, NoValue)
    /\ calls[6] = ForwardPacket("return")
    /\ calls[7] = ReceiveFrameCall("return")
    /\ calls[8] = AssertFrame(NoValue, channels, slots,
                              RoundTrip(law, bytes, slots))

(* What the objects and the client hold before each of the eight calls.    *)
EncodeState(law, channels, bytes, slots) ==
    LET codes == EncodeSliceFromLeBytes(law, bytes)
    IN  /\ IsEncode(program, law, channels, bytes, slots)
        /\ pc \in 1..9
        /\ outcome \in {"running", "done"}
        /\ outcome = "done" => pc = 9
        /\ pc \in 2..3 => eLaw = law
        /\ pc \in 3..7 => dLaw = law /\ dChannels = channels
        /\ pc # 4 => eQueue = <<>>
        /\ pc = 4 => \E p : eQueue = <<p>> /\ p.pts = 0 /\ p.data = codes
        /\ pc \in 5..6 => packet.pts = 0 /\ packet.data = codes
        /\ pc # 7 => dPending = NoValue
        /\ pc = 7 => dPending = [pts |-> 0, data |-> codes]
        /\ pc = 8 => /\ frame.data = <<DecodeSliceToLeBytes(law, codes)>>
                     /\ frame.samples = slots \div channels

(* What encode_pipeline makes of any input: nothing, or such a program with*)
(* whole sample groups of which no channel has more than the cap.          *)
LEMMA EncodePipelineProgram ==
    ASSUME NEW data \in Seq(Byte)
    PROVE  \/ EncodePipeline(data) = <<>>
           \/ \E law, channels, bytes, slots :
                 IsEncode(EncodePipeline(data), law, channels, bytes, slots)
  <1>. DEFINE seed     == data[1]
              channels == (seed % 8) + 1
              rate     == RateFromLe(data[2], data[3], data[4], data[5])
              law      == IF data[6] % 2 = 1 THEN "alaw" ELSE "mulaw"
              raw      == From(data, 7)
              slots    == EncodeSlots(raw, channels)
              bytes    == SubSeq(raw, 1, 2 * slots)
              calls    == EncodePipeline(data)
  <1>. SUFFICES ASSUME calls # <<>>
                PROVE  \E l, c, b, s : IsEncode(calls, l, c, b, s)
    OBVIOUS
  <1>1. ~ (Len(data) < 8) /\ slots # 0
    BY SMT DEF EncodePipeline
  <1>2. calls = << NewEncoder(law, channels, "S16", rate, "return"),
                   NewDecoder(law, channels, "return"),
                   SendFrameCall(AudioFrame(slots \div channels, 0, <<bytes>>),
                                 "return"),
                   ReceivePacketCall("return"),
                   AssertPacket(NoValue, slots, NoValue),
                   ForwardPacket("return"),
                   ReceiveFrameCall("return"),
                   AssertFrame(NoValue, channels, slots,
                               RoundTrip(law, bytes, slots)) >>
    BY <1>1, SMT DEF EncodePipeline
  <1>3. law \in Laws
    BY DEF Laws
  <1>4. channels \in 1..8
    <2>1. seed \in 0..255
      <3>1. 1 \in 1..Len(data)
        BY <1>1
      <3>2. data[1] \in Byte
        BY <3>1
      <3>. QED  BY <3>2 DEF Byte
    <2>. HIDE DEF seed
    <2>. QED  BY <2>1
  <1>5. raw \in Seq(Byte)
    BY SuffixOf
  <1>. HIDE DEF calls, law, channels, rate, raw
  <1>6. /\ slots \in Nat \ {0} /\ slots % channels = 0
        /\ slots \div channels <= MaxPayload
        /\ 2 * slots <= Len(raw)
    <2>. DEFINE all == Smaller(Len(raw) \div 2, MaxPayload * channels)
    <2>1. /\ all \in Nat /\ 2 * all <= Len(raw) /\ all <= MaxPayload * channels
      <3>. DEFINE n == Len(raw)
                  h == n \div 2
                  m == MaxPayload * channels
      <3>1. n \in Nat
        BY <1>5
      <3>. HIDE DEF n
      <3>2. h \in Nat /\ 2 * h <= n
        BY <3>1
      <3>3. m \in Nat
        BY <1>4, PayloadAssumption
      <3>. HIDE DEF h, m
      <3>4. all = IF h < m THEN h ELSE m
        BY DEF Smaller, h, m, n
      <3>5. all \in Nat /\ 2 * all <= n /\ all <= m
        BY <3>1, <3>2, <3>3, <3>4
      <3>. QED  BY <3>5 DEF m, n
    <2>2. slots = TrimToMultiple(all, channels)
      BY DEF EncodeSlots
    <2>. HIDE DEF slots, all
    <2>3. channels \in Nat \ {0}
      BY <1>4
    <2>4. /\ slots \in 0..all /\ slots % channels = 0
          /\ slots \div channels = all \div channels
      BY <2>1, <2>2, <2>3, TrimmedDivides
    <2>5. all \div channels <= MaxPayload
      <3>1. CASE channels = 1  BY <2>1, <3>1, PayloadAssumption
      <3>2. CASE channels = 2  BY <2>1, <3>2, PayloadAssumption
      <3>3. CASE channels = 3  BY <2>1, <3>3, PayloadAssumption
      <3>4. CASE channels = 4  BY <2>1, <3>4, PayloadAssumption
      <3>5. CASE channels = 5  BY <2>1, <3>5, PayloadAssumption
      <3>6. CASE channels = 6  BY <2>1, <3>6, PayloadAssumption
      <3>7. CASE channels = 7  BY <2>1, <3>7, PayloadAssumption
      <3>8. CASE channels = 8  BY <2>1, <3>8, PayloadAssumption
      <3>. QED  BY <1>4, <3>1, <3>2, <3>3, <3>4, <3>5, <3>6, <3>7, <3>8
    <2>6. 2 * slots <= Len(raw)
      BY <1>5, <2>1, <2>4
    <2>. QED  BY <1>1, <2>1, <2>4, <2>5, <2>6
  <1>. HIDE DEF slots
  <1>7. bytes \in Seq(Byte) /\ Len(bytes) = 2 * slots
    BY <1>5, <1>6
  <1>. HIDE DEF bytes
  <1>8. IsEncode(calls, law, channels, bytes, slots)
    BY <1>2, <1>3, <1>4, <1>6, <1>7 DEF IsEncode
  <1>. QED  BY <1>8


(* It starts with empty objects.                                           *)
LEMMA EncodeInit ==
    ASSUME Init, NEW law, NEW channels, NEW bytes, NEW slots,
           IsEncode(program, law, channels, bytes, slots)
    PROVE  EncodeState(law, channels, bytes, slots)
  <1>1. /\ pc = 1 /\ outcome = "running" /\ dPending = NoValue /\ eQueue = <<>>
    BY DEF Init, Enc!Init, Dec!Init
  <1>. QED  BY <1>1 DEF EncodeState

(* Each call succeeds or its assertion holds.  The sample count comes back *)
(* whole because the cap is below what a u32 holds.                        *)
LEMMA EncodeStep ==
    ASSUME MaxPayload < U32Modulus,
           NEW law, NEW channels, NEW bytes, NEW slots,
           EncodeState(law, channels, bytes, slots), [Next]_vars
    PROVE  EncodeState(law, channels, bytes, slots)'
  <1>. DEFINE codes == EncodeSliceFromLeBytes(law, bytes)
              plane == DecodeSliceToLeBytes(law, codes)
  <1>0. /\ law \in Laws /\ channels \in 1..8
        /\ slots \in Nat \ {0} /\ slots % channels = 0
        /\ slots \div channels <= MaxPayload
        /\ bytes \in Seq(Byte) /\ Len(bytes) = 2 * slots
        /\ Len(program) = 8
        /\ IsEncode(program, law, channels, bytes, slots)
        /\ pc \in 1..9
    BY DEF EncodeState, IsEncode
  <1>a. codes \in Seq(Byte) /\ Len(codes) = slots
    <2>1. Len(bytes) \div 2 = slots
      BY <1>0
    <2>. QED  BY <1>0, <2>1, EncodeSliceType
  <1>b. /\ Len(plane) = 2 * slots
        /\ RoundTrip(law, bytes, slots) = [i \in 1..slots |-> SampleAt(plane, i)]
    BY <1>0, RoundTripSlice
  <1>c. ASSUME outcome = "running", pc \in 1..8
        PROVE  \/ UNCHANGED vars
               \/ /\ Call.call = "make_decoder"   => MakeDecoder
                  /\ Call.call = "make_encoder"   => MakeEncoder
                  /\ Call.call = "send_packet"    => SendPacket
                  /\ Call.call = "receive_frame"  => ReceiveFrame
                  /\ Call.call = "send_frame"     => SendFrame
                  /\ Call.call = "receive_packet" => ReceivePacket
                  /\ Call.call = "assert_packet"  => CheckPacket
                  /\ Call.call = "assert_frame"   => CheckFrame
    <2>1. pc <= Len(program) /\ pc \in Nat /\ Len(program) \in Nat
      BY <1>0, <1>c
    <2>. QED  BY <1>c, <2>1, OneAction
  <1>. HIDE DEF codes, plane
  <1>10. CASE UNCHANGED vars
    <2>1. UNCHANGED <<program, pc, outcome, packet, frame, dPending, dLaw,
                      dChannels, eLaw, eQueue>>
      BY <1>10 DEF vars, encoder, decoder, client
    <2>. QED  BY <2>1 DEF EncodeState
  <1>. SUFFICES ASSUME ~ UNCHANGED vars
                PROVE  EncodeState(law, channels, bytes, slots)'
    BY <1>10
  <1>11. outcome = "running"
    BY Stopped
  <1>1. CASE pc = 1
    <2>1. PICK rate : Call = NewEncoder(law, channels, "S16", rate, "return")
      BY <1>0, <1>1 DEF IsEncode, Call
    <2>2. /\ MakeEncoder /\ Call.onError = "return" /\ Call.law = law
          /\ Call.channels = channels /\ Call.format = "S16"
      BY <1>1, <1>11, <1>c, <2>1 DEF NewEncoder
    <2>3. /\ pc' = 2 /\ outcome' = "running" /\ eLaw' = law
          /\ UNCHANGED <<eQueue, dPending, program>>
      BY <1>0, <1>1, <2>2, EncoderMade DEF decoder, client
    <2>. QED  BY <1>1, <2>3 DEF EncodeState
  <1>2. CASE pc = 2
    <2>1. Call = NewDecoder(law, channels, "return")
      BY <1>0, <1>2 DEF IsEncode, Call
    <2>2. /\ MakeDecoder /\ Call.onError = "return"
          /\ Call.law = law /\ Call.channels = channels
      BY <1>2, <1>11, <1>c, <2>1 DEF NewDecoder
    <2>3. /\ pc' = 3 /\ outcome' = "running"
          /\ dLaw' = law /\ dChannels' = channels
          /\ UNCHANGED <<eLaw, eQueue, dPending, program>>
      BY <1>0, <1>2, <2>2, DecoderMade DEF encoder, client
    <2>. QED  BY <1>2, <2>3 DEF EncodeState
  <1>3. CASE pc = 3
    <2>1. Call = SendFrameCall(AudioFrame(slots \div channels, 0, <<bytes>>),
                               "return")
      BY <1>0, <1>3 DEF IsEncode, Call
    <2>2. SendFrame /\ Call.onError = "return"
      BY <1>3, <1>11, <1>c, <2>1 DEF SendFrameCall
    <2>3. /\ FrameToSend.kind = "audio" /\ FrameToSend.pts = 0
          /\ FrameToSend.data = <<bytes>>
      BY <2>1 DEF FrameToSend, SendFrameCall, AudioFrame
    <2>4. Len(bytes) % 2 = 0
      BY <1>0
    <2>5. eQueue = <<>> /\ eLaw = law /\ dPending = NoValue
          /\ dLaw = law /\ dChannels = channels
      BY <1>3 DEF EncodeState
    <2>6. /\ pc' = pc + 1 /\ outcome' = "running"
          /\ \E p : /\ eQueue' = <<p>> /\ p.pts = FrameToSend.pts
                    /\ p.data = EncodeSliceFromLeBytes(eLaw, bytes)
          /\ UNCHANGED <<decoder, client>>
      BY <2>2, <2>3, <2>4, <2>5, FrameSent
    <2>7. \E p : eQueue' = <<p>> /\ p.pts = 0 /\ p.data = codes
      BY <2>3, <2>5, <2>6 DEF codes
    <2>8. pc' = 4 /\ UNCHANGED <<dLaw, dChannels, dPending, program>>
      BY <1>3, <2>6 DEF decoder, client
    <2>. QED  BY <1>3, <2>5, <2>6, <2>7, <2>8 DEF EncodeState, codes
  <1>4. CASE pc = 4
    <2>1. Call = ReceivePacketCall("return")
      BY <1>0, <1>4 DEF IsEncode, Call
    <2>2. ReceivePacket /\ Call.onError = "return"
      BY <1>4, <1>11, <1>c, <2>1 DEF ReceivePacketCall
    <2>3. PICK p : eQueue = <<p>> /\ p.pts = 0 /\ p.data = codes
      BY <1>4 DEF EncodeState, codes
    <2>4. /\ pc' = 5 /\ outcome' = "running"
          /\ eQueue' = <<>> /\ packet' = p
          /\ UNCHANGED <<dLaw, dChannels, dPending, program>>
      BY <1>4, <2>2, <2>3, PacketReceived DEF decoder
    <2>. QED  BY <1>4, <2>3, <2>4 DEF EncodeState, codes
  <1>5. CASE pc = 5
    <2>1. Call = AssertPacket(NoValue, slots, NoValue)
      BY <1>0, <1>5 DEF IsEncode, Call
    <2>2. /\ CheckPacket /\ Call.pts = NoValue /\ Call.length = slots
          /\ Call.data = NoValue
      BY <1>5, <1>11, <1>c, <2>1 DEF AssertPacket
    <2>3. packet.data = codes
      BY <1>5 DEF EncodeState, codes
    <2>4. /\ pc' = 6 /\ outcome' = "running"
          /\ UNCHANGED <<encoder, decoder, client>>
      BY <1>5, <1>a, <2>2, <2>3 DEF CheckPacket, Check
    <2>5. UNCHANGED <<eQueue, dLaw, dChannels, dPending, program, packet>>
      BY <2>4 DEF encoder, decoder, client
    <2>. QED  BY <1>5, <2>4, <2>5 DEF EncodeState
  <1>6. CASE pc = 6
    <2>1. Call = ForwardPacket("return")
      BY <1>0, <1>6 DEF IsEncode, Call
    <2>2. SendPacket /\ Call.onError = "return" /\ Call.source = "received"
      BY <1>6, <1>11, <1>c, <2>1 DEF ForwardPacket
    <2>3. packet.pts = 0 /\ packet.data = codes /\ dPending = NoValue
      BY <1>6 DEF EncodeState, codes
    <2>4. PacketToSend = [pts |-> 0, data |-> codes]
      BY <2>2, <2>3 DEF PacketToSend
    <2>5. /\ pc' = 7 /\ outcome' = "running" /\ dPending' = PacketToSend
          /\ UNCHANGED <<eQueue, dLaw, dChannels, program>>
      BY <1>6, <2>2, <2>3, PacketSent DEF encoder, client
    <2>. QED  BY <1>6, <2>4, <2>5 DEF EncodeState, codes
  <1>7. CASE pc = 7
    <2>1. Call = ReceiveFrameCall("return")
      BY <1>0, <1>7 DEF IsEncode, Call
    <2>2. ReceiveFrame /\ Call.onError = "return"
      BY <1>7, <1>11, <1>c, <2>1 DEF ReceiveFrameCall
    <2>3. /\ dPending = [pts |-> 0, data |-> codes]
          /\ dLaw = law /\ dChannels = channels
      BY <1>7 DEF EncodeState, codes
    <2>4. /\ dPending # NoValue /\ dPending.data = codes /\ codes # <<>>
          /\ dChannels \in Nat \ {0} /\ Len(dPending.data) % dChannels = 0
      <3>1. dPending \in [pts : Times, data : Seq(Byte)]
        BY <1>a, <2>3 DEF Times
      <3>2. dPending # NoValue
        BY <3>1, NoneAssumption
      <3>. QED  BY <1>0, <1>a, <2>3, <3>2
    <2>5. /\ pc' = 8 /\ outcome' = "running" /\ dPending' = NoValue
          /\ frame'.data = <<plane>>
          /\ frame'.samples = (slots \div channels) % U32Modulus
          /\ UNCHANGED <<eQueue, program>>
      BY <1>7, <1>a, <2>2, <2>3, <2>4, FrameReceived DEF encoder, plane
    <2>6. (slots \div channels) % U32Modulus = slots \div channels
      <3>. DEFINE q == slots \div channels
      <3>1. q \in Nat /\ q <= MaxPayload
        BY <1>0, DivModNat
      <3>. HIDE DEF q
      <3>2. q % U32Modulus = q
        BY <3>1, PayloadAssumption, ProgramsAssumption
      <3>. QED  BY <3>2 DEF q
    <2>. QED  BY <1>7, <2>5, <2>6 DEF EncodeState, codes, plane
  <1>8. CASE pc = 8
    <2>1. Call = AssertFrame(NoValue, channels, slots,
                             RoundTrip(law, bytes, slots))
      BY <1>0, <1>8 DEF IsEncode, Call
    <2>2. /\ CheckFrame /\ Call.pts = NoValue /\ Call.channels = channels
          /\ Call.slots = slots /\ Call.samples = RoundTrip(law, bytes, slots)
      BY <1>8, <1>11, <1>c, <2>1 DEF AssertFrame
    <2>3. frame.data[1] = plane /\ frame.samples = slots \div channels
      BY <1>8 DEF EncodeState, codes, plane
    <2>4. frame.samples * channels = slots
      <3>1. channels \in Nat \ {0}
        BY <1>0
      <3>. DEFINE q == slots \div channels
      <3>2. q \in Nat /\ slots = channels * q
        BY <1>0, <3>1, DivModNat
      <3>. HIDE DEF q
      <3>3. q * channels = slots
        BY <1>0, <3>1, <3>2
      <3>. QED  BY <2>3, <3>3 DEF q
    <2>5. /\ pc' = 9 /\ outcome' = "running"
          /\ UNCHANGED <<encoder, decoder, client>>
      BY <1>8, <1>b, <2>2, <2>3, <2>4 DEF CheckFrame, Check
    <2>6. UNCHANGED <<eQueue, dPending, program>>
      BY <2>5 DEF encoder, decoder, client
    <2>. QED  BY <1>8, <2>5, <2>6 DEF EncodeState
  <1>9. CASE pc = 9
    <2>1. Complete
      BY <1>0, <1>9, <1>11, Finishing
    <2>2. /\ outcome' = "done"
          /\ UNCHANGED <<program, pc, packet, frame, dPending, dLaw, dChannels,
                         eLaw, eQueue>>
      BY <2>1 DEF Complete, encoder, decoder, client
    <2>. QED  BY <1>9, <2>2 DEF EncodeState
  <1>. QED  BY <1>0, <1>1, <1>2, <1>3, <1>4, <1>5, <1>6, <1>7, <1>8, <1>9

(* There is no drop in this program: its one scope ends with it, where     *)
(* packet and frame have been fetched.                                     *)
LEMMA EncodeSafe ==
    ASSUME NEW law, NEW channels, NEW bytes, NEW slots,
           EncodeState(law, channels, bytes, slots)
    PROVE  NeverPanics /\ GivesUpOnlyAtFactory /\ NothingLeftBehind
  <1>1. NeverPanics /\ GivesUpOnlyAtFactory
    BY DEF EncodeState, NeverPanics, GivesUpOnlyAtFactory
  <1>2. ASSUME NEW name \in {"drop", "drop_decoder"}, AtCall(name) PROVE FALSE
    <2>1. /\ program[pc].call = name /\ pc \in 1..8
          /\ IsEncode(program, law, channels, bytes, slots)
      BY <1>2 DEF AtCall, Call, EncodeState, IsEncode
    <2>2. \A k \in 1..8 : program[k].call \notin {"drop", "drop_decoder"}
      <3>. SUFFICES ASSUME NEW k \in 1..8
                    PROVE  program[k].call \notin {"drop", "drop_decoder"}
        OBVIOUS
      <3>1. k = 1 \/ k = 2 \/ k = 3 \/ k = 4 \/ k = 5 \/ k = 6 \/ k = 7 \/ k = 8
        OBVIOUS
      <3>. QED
        BY <2>1, <3>1
           DEF IsEncode, NewDecoder, NewEncoder, SendFrameCall, ForwardPacket,
               ReceiveFrameCall, AssertFrame, ReceivePacketCall, AssertPacket
    <2>. QED  BY <2>1, <2>2
  <1>3. ScopeEnds => outcome = "done"
    BY <1>2 DEF ScopeEnds, EncodeState
  <1>4. outcome = "done" => eQueue = <<>> /\ dPending = NoValue
    BY DEF EncodeState
  <1>. QED  BY <1>1, <1>2, <1>3, <1>4 DEF NothingLeftBehind


-----------------------------------------------------------------------------
(* What the four targets do on every input.  streaming_pipeline folds over *)
(* its input, which puts it out of reach here.                             *)
FixedTargets ==
    UNION {{DecodePipeline(data), EncodePipeline(data), FactoryParams(data),
            Gateway(data)} : data \in Seq(Byte)}

(* Some encode_pipeline is running.                                        *)
IsEncodeRun == \E law, channels, bytes, slots :
                  EncodeState(law, channels, bytes, slots)

(* The strengthening of the three properties: the program, how far it is   *)
(* and what the two objects and the client hold at that point.             *)
TargetInv == TolerantInv \/ IsEncodeRun \/ IsGatewayRun

(* The invariant holds at the start of each target, by cases; an empty     *)
(* program is tolerant.                                                    *)
LEMMA TargetInit == Init /\ program \in FixedTargets => TargetInv
  <1>. SUFFICES ASSUME Init, program \in FixedTargets PROVE TargetInv
    OBVIOUS
  <1>1. PICK data \in Seq(Byte) :
           program \in {DecodePipeline(data), EncodePipeline(data),
                       FactoryParams(data), Gateway(data)}
    BY DEF FixedTargets
  <1>2. CASE program = <<>>
    <2>1. Tolerant(program)
      BY <1>2 DEF Tolerant
    <2>. QED  BY <2>1, TolerantInvInit DEF TargetInv
  <1>3. CASE program = DecodePipeline(data)
    BY <1>3, DecodePipelineTolerant, TolerantInvInit DEF TargetInv
  <1>4. CASE program = FactoryParams(data)
    BY <1>4, FactoryParamsTolerant, TolerantInvInit DEF TargetInv
  <1>5. CASE program = EncodePipeline(data) /\ program # <<>>
    BY <1>5, EncodePipelineProgram, EncodeInit DEF TargetInv, IsEncodeRun
  <1>6. CASE program = Gateway(data) /\ program # <<>>
    BY <1>6, GatewayInit DEF TargetInv
  <1>. QED  BY <1>1, <1>2, <1>3, <1>4, <1>5, <1>6

(* A running target stays the target it is.                                *)
LEMMA TargetStep ==
    ASSUME MaxPayload < U32Modulus
    PROVE  TargetInv /\ [Next]_vars => TargetInv'
  <1>. SUFFICES ASSUME TargetInv, [Next]_vars PROVE TargetInv'
    OBVIOUS
  <1>1. CASE TolerantInv
    BY <1>1, TolerantInvStep DEF TargetInv
  <1>2. CASE IsEncodeRun
    <2>1. PICK law, channels, bytes, slots :
             EncodeState(law, channels, bytes, slots)
      BY <1>2 DEF IsEncodeRun
    <2>2. EncodeState(law, channels, bytes, slots)'
      BY <2>1, EncodeStep
    <2>. QED  BY <2>2 DEF TargetInv, IsEncodeRun
  <1>3. CASE IsGatewayRun
    <2>1. PICK near, far, channels, bytes :
             GatewayState(near, far, channels, bytes)
      BY <1>3 DEF IsGatewayRun
    <2>2. GatewayState(near, far, channels, bytes)'
      BY <2>1, GatewayStep
    <2>. QED  BY <2>2 DEF TargetInv, IsGatewayRun
  <1>. QED  BY <1>1, <1>2, <1>3 DEF TargetInv

(* Each of the three parts implies the properties.                         *)
LEMMA TargetSafe ==
    TargetInv => NeverPanics /\ GivesUpOnlyAtFactory /\ NothingLeftBehind
  BY TolerantSafe, EncodeSafe, GatewaySafe
     DEF TargetInv, IsEncodeRun, IsGatewayRun

(* TargetInv holds as long as one of these programs runs.                  *)
LEMMA TargetsStayInv ==
    ASSUME MaxPayload < U32Modulus
    PROVE  Spec /\ program \in FixedTargets => []TargetInv
  <1>1. Init /\ program \in FixedTargets => TargetInv
    BY TargetInit
  <1>2. TargetInv /\ [Next]_vars => TargetInv'
    BY TargetStep
  <1>. QED  BY <1>1, <1>2, PTL DEF Spec

(* Whatever bytes the fuzzer hands to decode_pipeline, encode_pipeline,    *)
(* factory_params or cross_law_transcode, no assert_eq! of the target      *)
(* fails: the traits hand out the sample-by-sample result, with the        *)
(* lengths and counts the target computed beside them.                     *)
THEOREM TargetsNeverPanic ==
    ASSUME MaxPayload < U32Modulus
    PROVE  Spec /\ program \in FixedTargets => []NeverPanics
  <1>1. TargetInv => NeverPanics
    BY TargetSafe
  <1>. QED  BY <1>1, TargetsStayInv, PTL

(* Whatever its input, such a target reaches its last assertion unless a   *)
(* factory refuses its parameters: no call after that fails on it.         *)
THEOREM TargetsGiveUpOnlyAtFactory ==
    ASSUME MaxPayload < U32Modulus
    PROVE  Spec /\ program \in FixedTargets => []GivesUpOnlyAtFactory
  <1>1. TargetInv => GivesUpOnlyAtFactory
    BY TargetSafe
  <1>. QED  BY <1>1, TargetsStayInv, PTL

(* Whatever its input, such a target leaves no packet and no frame behind  *)
(* in its objects, be it where it goes on to a second pair, where it ends  *)
(* or where a factory makes it return: each call that could have put one   *)
(* there is followed by the call, or the loop, that fetches it.            *)
THEOREM TargetsLeaveNothingBehind ==
    ASSUME MaxPayload < U32Modulus
    PROVE  Spec /\ program \in FixedTargets => []NothingLeftBehind
  <1>1. TargetInv => NothingLeftBehind
    BY TargetSafe
  <1>. QED  BY <1>1, TargetsStayInv, PTL

=============================================================================
