---------------------------- MODULE MCG711Decoder ----------------------------
(***************************************************************************)
(* Model of G711Decoder for TLC.  The packets are an empty one, one of     *)
(* each length 1 to 4 (so that 1, 2 and 3 channels each divide some and    *)
(* not others), and two that differ only in their timestamp; their         *)
(* codewords cover both zeros, both extremes and both signs of each law.   *)
(***************************************************************************)
EXTENDS G711Decoder

MCTimestamps == {1, 2, NoValue}

MCPackets ==
    { [pts |-> 1,       data |-> <<>>],
      [pts |-> 1,       data |-> <<0>>],
      [pts |-> 2,       data |-> <<0>>],
      [pts |-> NoValue, data |-> <<127, 255>>],
      [pts |-> 2,       data |-> <<85, 128, 213>>],
      [pts |-> 1,       data |-> <<42, 170, 1, 254>>] }

MCChannelOptions == {NoValue, 0, 1, 2, 3}
=============================================================================
