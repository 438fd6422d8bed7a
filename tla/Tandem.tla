------------------------------- MODULE Tandem -------------------------------
(***************************************************************************)
(* A sample crossing a chain of companded links: each hop encodes the PCM  *)
(* value under one law and decodes it again, and the next hop may use the  *)
(* other law, as in the gateway of src/tests/cross_law_transcode.rs.  The  *)
(* chain is as long as one likes and mixes the laws in any order; the      *)
(* values reached are finitely many, so every chain is checked.  A         *)
(* neighbouring sample, one above at the origin, takes the same path.      *)
(***************************************************************************)
EXTENDS G711Tables

CONSTANTS Origins,   \* the PCM values that enter the chain
          NoValue    \* no hop of that law yet

ASSUME OriginsAssumption ==
    /\ Origins \subseteq S16 \ {I16_MAX}
    /\ NoValue \notin Byte /\ NoValue \notin Laws

VARIABLES origin,     \* the value that entered the chain
          pcm,        \* the value after the last hop
          neighbour,  \* what origin + 1 has become along the same path
          codes,      \* law -> the last codeword seen under it
          lastLaw,    \* the law of the last hop
          crossings   \* changes of law so far, counted up to 2

chain == <<origin, pcm, neighbour, codes, lastLaw, crossings>>

ChainInit ==
    /\ origin \in Origins
    /\ pcm = origin
    /\ neighbour = origin + 1
    /\ codes = [law \in Laws |-> NoValue]
    /\ lastLaw = NoValue
    /\ crossings = 0

Requantise(law, s) == DecodeSample(law, EncodeSample(law, s))

Hop(law) ==
    /\ pcm' = Requantise(law, pcm)
    /\ neighbour' = Requantise(law, neighbour)
    /\ codes' = [codes EXCEPT ![law] = EncodeSample(law, pcm)]
    /\ lastLaw' = law
    /\ crossings' = IF lastLaw \in Laws \ {law} /\ crossings < 2
                    THEN crossings + 1 ELSE crossings
    /\ UNCHANGED origin

ChainNext == \E law \in Laws : Hop(law)

ChainSpec == ChainInit /\ [][ChainNext]_chain

-----------------------------------------------------------------------------
StepAt(s) ==
    LET m == HalfStep("mulaw", EncodeSample("mulaw", s))
        a == HalfStep("alaw", EncodeSample("alaw", s))
    IN  2 * (IF m > a THEN m ELSE a)

Distance(x, y) == IF x > y THEN x - y ELSE y - x

(* However long the chain and however its laws alternate, a sample stays   *)
(* within two quantising steps (of the coarser law, at its own level) of   *)
(* where it started: quantising errors do not accumulate hop by hop.       *)
DriftBounded == Distance(pcm, origin) <= 2 * StepAt(origin)

(* No chain of hops swaps two samples: the companding curves are monotonic *)
(* through the table look-ups, across the sign change and the segment      *)
(* boundaries included.                                                    *)
OrderPreserved == pcm <= neighbour

(* Requantising under the law just used is lossless: the second generation *)
(* has the codeword of the first, negative zero excepted.                  *)
SameLawIsLossless ==
    [][\A l \in Laws :
          lastLaw = l /\ lastLaw' = l =>
              codes'[l] = Canonical(l, codes[l])]_chain

(* Cross-law transcoding settles: after a sample has gone over to the      *)
(* other law and back, no further hop of either law changes a codeword.    *)
(* This is the double-transcode promise of cross_law_transcode.rs, for     *)
(* every sample and every order of the laws.                               *)
SettlesAfterRoundTrip == [][crossings = 2 => codes' = codes]_chain

-----------------------------------------------------------------------------
(* What the README says of the codec: encode, decode, encode gives the     *)
(* same codeword for every sample.  The samples -1, -2 and -3 of mu-law    *)
(* become negative zero, then positive zero.                               *)
EncodeDecodeEncodeIdempotent ==
    [][\A law \in Laws :
          lastLaw = law /\ lastLaw' = law => codes'[law] = codes[law]]_chain
=============================================================================
