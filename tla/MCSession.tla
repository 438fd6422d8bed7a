------------------------------ MODULE MCSession ------------------------------
(***************************************************************************)
(* Model of Session for TLC: every driver of the repository.               *)
(*                                                                         *)
(* The fuzz targets on every combination of law, direction and channel     *)
(* count they read from their input, with payloads that are empty, of one  *)
(* byte, whole and not whole multiples of the channels, and longer than    *)
(* the cap.                                                                *)
(*                                                                         *)
(* The modes of the profiler, with the default iteration count, none, and  *)
(* two: rows of 4 to 48 samples, bursts of 2 and 4 frames of 1 or 3        *)
(* samples per channel.                                                    *)
(***************************************************************************)
EXTENDS Session, FuzzTargets, Profiler

Payload0 == <<>>
Payload1 == <<127>>
Payload5 == <<0, 128, 255, 127, 85>>
Payload8 == <<0, 128, 254, 255, 213, 2, 1, 16>>
Payload21 == Payload8 \o Payload5 \o Payload8

Payloads == {Payload0, Payload1, Payload5, Payload8, Payload21}

Rate8k   == <<64, 31, 0, 0>>
RateZero == <<0, 0, 0, 0>>
RateTop  == <<255, 255, 255, 127>>

(* byte 0 of decode_pipeline and encode_pipeline is a channel seed         *)
DecodeInputs == {<<>>} \cup {<<c>> \o p : c \in {0, 1, 2, 7, 8}, p \in Payloads}

EncodeInputs ==
    {<<0, 1, 2>>} \cup
    {<<c>> \o r \o <<law>> \o p : c \in {0, 1, 2, 7, 9},
        r \in {Rate8k, RateZero, <<255, 255, 255, 255>>}, law \in {0, 1},
        p \in Payloads}

FactoryInputs ==
    {<<0, 1>>} \cup
    {<<v>> \o ch \o <<f>> \o r \o p :
        v \in 0..3, ch \in {<<0, 0>>, <<1, 0>>, <<2, 0>>, <<255, 255>>},
        f \in {0, 1, 3, 16}, r \in {RateZero, RateTop}, p \in Payloads}

(* bits 0 and 1: law and reverse trip; bits 2 to 4: channels               *)
GatewayInputs ==
    {<<0>>, <<0, 1>>} \cup
    {<<seed + 4 * (c - 1)>> \o r \o p : seed \in 0..3, c \in {1, 2, 3, 8},
        r \in {<<64, 31>>, <<0, 0>>}, p \in Payloads}

(* law, channels, rate, frame count, eager drain, mid-stream flush; then    *)
(* frames: of two, one, three and no samples per channel for one channel,  *)
(* cut short or to nothing for more                                        *)
Streamed ==
    {<<>>, <<0>>, <<1, 7>>, <<2, 0, 128, 255, 127, 0, 0, 1, 5, 250>>,
     <<2, 1, 0, 2, 0, 255, 255, 0, 128, 1, 85, 213, 0, 3, 16, 0, 32, 0, 64, 0>>}

StreamInputs ==
    {<<law, c, 64, 31, count, eager, flush>> \o p :
        law \in {0, 1}, c \in {0, 1, 8}, count \in {1, 7}, eager \in {0, 1},
        flush \in {0, 1}, p \in Streamed}

FuzzPrograms == {DecodePipeline(d) : d \in DecodeInputs}
                \cup {EncodePipeline(d) : d \in EncodeInputs}
                \cup {FactoryParams(d) : d \in FactoryInputs}
                \cup {Gateway(d) : d \in GatewayInputs}
                \cup {StreamingPipeline(d) : d \in StreamInputs}

ProfilerPrograms ==
    {ProfileMain(mode, iters) :
        mode \in {"decode", "encode", "roundtrip", "streaming", "all", "help"},
        iters \in {NoValue, 0, 2}}

MCPrograms == FuzzPrograms \cup ProfilerPrograms
=============================================================================
