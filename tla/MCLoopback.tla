----------------------------- MODULE MCLoopback -----------------------------
(***************************************************************************)
(* Model of Loopback for TLC: mono and stereo streams of up to MaxFrames   *)
(* frames of zero, one or two samples, with honest and false sample        *)
(* counts, and a frame the encoder refuses.                                *)
(***************************************************************************)
EXTENDS Loopback

MCTimestamps == {1, 2, NoValue}

Audio(pts, samples, data) ==
    [kind |-> "audio", pts |-> pts, samples |-> samples, data |-> data]

MCFrames ==
    { Audio(1, 1, << <<0, 128, 255, 127>> >>),
      Audio(2, 1, << <<254, 255>> >>),
      Audio(1, 3, << <<254, 255>> >>),
      Audio(NoValue, 0, << <<>> >>),
      Audio(2, 1, << <<1, 2, 3>> >>) }

MCChannelOptions == {NoValue, 0, 2}
=============================================================================
