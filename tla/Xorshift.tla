------------------------------ MODULE Xorshift ------------------------------
(***************************************************************************)
(* The pseudo-random input of src/examples/profile_g711.rs: xorshift32 on  *)
(* a u32, written as a pair of 16-bit halves <<high, low>> because TLC's   *)
(* integers are signed, the bytes and samples made of the low bits of its  *)
(* successive states, and the rows they are made for.                      *)
(***************************************************************************)
EXTENDS G711Tables, Bitwise

XorHalves(x, y) == <<x[1] ^^ y[1], x[2] ^^ y[2]>>

(* x << n and x >> n on 32 bits, for the shifts used.                      *)
ShiftLeft(x, n) ==
    <<(x[1] * Pow2(n) + x[2] \div Pow2(16 - n)) % 65536, (x[2] * Pow2(n)) % 65536>>

ShiftRight17(x) == <<0, x[1] \div 2>>

xorshift32(state) ==
    LET a == XorHalves(state, ShiftLeft(state, 13))
        b == XorHalves(a, ShiftRight17(a))
    IN  XorHalves(b, ShiftLeft(b, 5))

(* The states after 1, 2, .., n calls.                                     *)
Draws(n, seed) ==
    LET drawn[k \in 0..n] ==
            IF k = 0 THEN <<seed>>
            ELSE LET before == drawn[k - 1]
                 IN  Append(before, xorshift32(before[k]))
    IN  Tail(drawn[n])

LowByte(state)   == state[2] % 256
LowSample(state) == AsI16(state[2])

build_bytes(n, seed) ==
    LET draws == Draws(n, seed) IN [i \in 1..n |-> LowByte(draws[i])]

build_pcm(n, seed) ==
    LET draws == Draws(n, seed) IN [i \in 1..n |-> LowSample(draws[i])]

(* Interleaved little-endian bytes of a sequence of samples.               *)
pcm_le_bytes(pcm) ==
    [k \in 1..(2 * Len(pcm)) |->
        ToLeBytes(pcm[(k + 1) \div 2])[IF k % 2 = 1 THEN 1 ELSE 2]]
-----------------------------------------------------------------------------
Scenario(law, channels, sample_rate, n, seed) ==
    [law |-> law, channels |-> channels, sample_rate |-> sample_rate,
     n |-> n, seed |-> seed]

(* 0xCAFE_F00D and so on, as halves.                                       *)
CafeFood == <<51966, 61453>>
BadCoffe == <<47836, 4094>>
DeadBeef == <<57005, 48879>>
FeedFace == <<65261, 64206>>
OneToEight == <<4660, 22136>>

scenarios ==
    << Scenario("mulaw", 1, 8000, 8000, CafeFood),
       Scenario("alaw", 1, 8000, 8000, BadCoffe),
       Scenario("mulaw", 2, 8000, 16000, DeadBeef),
       Scenario("alaw", 2, 8000, 16000, FeedFace),
       Scenario("mulaw", 8, 48000, 96000, OneToEight) >>
=============================================================================
