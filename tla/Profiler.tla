------------------------------ MODULE Profiler ------------------------------
(***************************************************************************)
(* src/examples/profile_g711.rs as client programs: for every mode of its  *)
(* command line, the calls the example makes on the trait surface, row by  *)
(* row of its scenario tables.  Every call of it is an .expect.            *)
(*                                                                         *)
(* Three scales keep the programs small and every ratio that matters: the  *)
(* sizes n are divided by SizeScale, the samples per frame by FrameScale,  *)
(* the frames per burst by BurstScale.  The default iteration counts are   *)
(* all DefaultIters.  Only the trait surface is here; the loops over the   *)
(* sample and store functions are in G711Slices.                           *)
(***************************************************************************)
EXTENDS ClientCalls, Xorshift

CONSTANTS SizeScale, FrameScale, BurstScale, DefaultIters

ASSUME ScalesAssumption ==
    /\ SizeScale \in Nat \ {0} /\ FrameScale \in Nat \ {0}
    /\ BurstScale \in Nat \ {0} /\ DefaultIters \in Nat

-----------------------------------------------------------------------------
Scaled(scen) == [scen EXCEPT !.n = @ \div SizeScale]

StreamingScenario(law, channels, rate, count, samples, seed, eager_drain) ==
    [law |-> law, channels |-> channels, sample_rate |-> rate,
     frame_count |-> count \div BurstScale,
     samples_per_channel |-> samples \div FrameScale,
     seed |-> seed, eager_drain |-> eager_drain]

streaming_scenarios ==
    << StreamingScenario("mulaw", 1, 8000, 50, 160, CafeFood, TRUE),
       StreamingScenario("alaw", 1, 8000, 50, 160, BadCoffe, TRUE),
       StreamingScenario("mulaw", 2, 8000, 50, 160, FeedFace, TRUE),
       StreamingScenario("mulaw", 1, 8000, 50, 160, DeadBeef, FALSE),
       StreamingScenario("alaw", 8, 48000, 100, 480, OneToEight, TRUE) >>

(* params and streaming_params: the parameters of both factories.          *)
Decoder(scen) == NewDecoder(scen.law, scen.channels, "panic")
Encoder(scen) ==
    NewEncoder(scen.law, scen.channels, "S16", scen.sample_rate, "panic")

(* A warm-up, then the timed iterations, each with objects of its own.     *)
WarmAndTimed(iters, body) == Repeat(1 + iters, body)

-----------------------------------------------------------------------------
profile_decode(iters) ==
    LET Row(scen) ==
            WarmAndTimed(iters,
                << Decoder(scen),
                   SendPacketCall(PacketNew(build_bytes(scen.n, scen.seed)), "panic"),
                   ReceiveFrameCall("panic"), Drop(NoValue) >>)
    IN  FlattenSeq([i \in DOMAIN scenarios |-> Row(Scaled(scenarios[i]))])

(* The frame that carries a whole row's samples.                           *)
RowFrame(scen) ==
    AudioFrame(scen.n \div scen.channels, 0,
               <<pcm_le_bytes(build_pcm(scen.n, scen.seed))>>)

profile_encode(iters) ==
    LET Row(scen) ==
            WarmAndTimed(iters,
                << Encoder(scen), SendFrameCall(RowFrame(scen), "panic"),
                   ReceivePacketCall("panic"), Drop(NoValue) >>)
    IN  FlattenSeq([i \in DOMAIN scenarios |-> Row(Scaled(scenarios[i]))])

profile_roundtrip(iters) ==
    LET Row(scen) ==
            WarmAndTimed(iters,
                << Encoder(scen), Decoder(scen),
                   SendFrameCall(RowFrame(scen), "panic"), ReceivePacketCall("panic"),
                   ForwardPacket("panic"), ReceiveFrameCall("panic"),
                   Drop(NoValue) >>)
    IN  FlattenSeq([i \in DOMAIN scenarios |-> Row(Scaled(scenarios[i]))])

-----------------------------------------------------------------------------
(* Mutant: timestamps count frames.                                        *)
BurstTimestampByFrame(scen, i) == i - 1

BurstTimestamp(scen, i) == (i - 1) * scen.samples_per_channel

(* The frames of a burst: consecutive draws of one generator, timestamps   *)
(* that count samples.                                                     *)
build_profile_burst(scen) ==
    LET total_i16 == scen.samples_per_channel * scen.channels
        pcm       == build_pcm(scen.frame_count * total_i16, scen.seed)
    IN  [i \in 1..scen.frame_count |->
            AudioFrame(scen.samples_per_channel, BurstTimestamp(scen, i),
                <<pcm_le_bytes(SubSeq(pcm, (i - 1) * total_i16 + 1, i * total_i16))>>)]

(* The bytes of the burst's planes, which the throughput is computed from. *)
bytes_per_iter(scen) ==
    2 * scen.frame_count * scen.samples_per_channel * scen.channels

FetchAndDecode ==
    << ReceivePacketCall("panic"), RebuildPacket("panic"), ReceiveFrameCall("panic") >>

(* Mutant: a frame is not fetched before the next packet is fetched.       *)
drive_burst_eager_behind(burst) ==
    FlattenSeq([i \in 1..Len(burst) |->
                   << SendFrameCall(burst[i], "panic"),
                      ReceivePacketCall("panic"), RebuildPacket("panic") >>])
    \o Repeat(Len(burst), <<ReceiveFrameCall("panic")>>)

drive_burst_eager(burst) ==
    FlattenSeq([i \in 1..Len(burst) |->
                   <<SendFrameCall(burst[i], "panic")>> \o FetchAndDecode])

(* Mutant: the drain loop stops one packet short.                          *)
drive_burst_deferred_short(burst) ==
    [i \in 1..Len(burst) |-> SendFrameCall(burst[i], "panic")]
    \o <<FlushEncoderCall>> \o Repeat(Len(burst) - 1, FetchAndDecode)

drive_burst_deferred(burst) ==
    [i \in 1..Len(burst) |-> SendFrameCall(burst[i], "panic")]
    \o <<FlushEncoderCall>> \o Repeat(Len(burst), FetchAndDecode)

profile_streaming(iters) ==
    LET Row(scen) ==
            WarmAndTimed(iters,
                << Encoder(scen), Decoder(scen) >>
                \o (IF scen.eager_drain
                    THEN drive_burst_eager(build_profile_burst(scen))
                    ELSE drive_burst_deferred(build_profile_burst(scen)))
                \o << Drop(bytes_per_iter(scen)) >>)
    IN  FlattenSeq([i \in DOMAIN streaming_scenarios |->
                       Row(streaming_scenarios[i])])

-----------------------------------------------------------------------------
(* main: the mode and the iteration count of the command line.  An unknown *)
(* mode makes no call.                                                     *)
ProfileMain(mode, iters_override) ==
    LET iters == IF iters_override = NoValue THEN DefaultIters ELSE iters_override
    IN  CASE mode = "decode"    -> profile_decode(iters)
          [] mode = "encode"    -> profile_encode(iters)
          [] mode = "roundtrip" -> profile_roundtrip(iters)
          [] mode = "streaming" -> profile_streaming(iters)
          [] mode = "all"       -> profile_decode(iters) \o profile_encode(iters)
                                     \o profile_roundtrip(iters)
                                     \o profile_streaming(iters)
          [] OTHER              -> <<>>
=============================================================================
