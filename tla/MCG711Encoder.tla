---------------------------- MODULE MCG711Encoder ----------------------------
(***************************************************************************)
(* Model of G711Encoder for TLC.  The frames are one with the extremes     *)
(* and both zeros' neighbours, two equal ones at different times, one with *)
(* two planes and a wrong sample count, an empty plane, and each kind of   *)
(* frame the encoder refuses.                                              *)
(***************************************************************************)
EXTENDS G711Encoder

MCTimestamps == {1, 2, NoValue}

Audio(pts, samples, data) ==
    [kind |-> "audio", pts |-> pts, samples |-> samples, data |-> data]

MCFrames ==
    { Audio(1, 4, << <<0, 128, 255, 127, 255, 255, 0, 0>> >>),
      Audio(1, 1, << <<232, 3>> >>),
      Audio(2, 1, << <<232, 3>> >>),
      Audio(NoValue, 7, << <<3, 255>>, <<1, 0>> >>),
      Audio(2, 0, << <<>> >>),
      Audio(1, 1, << <<1, 2, 3>> >>),
      Audio(1, 0, <<>>),
      [kind |-> "other", pts |-> 1, samples |-> 0, data |-> <<>>] }

MCChannelOptions == {NoValue, 0, 2}
MCFormatOptions  == {NoValue, "S16", "F32"}
MCRateOptions    == {NoValue, 0, 48000}
=============================================================================
