# TLA+ models of oxideav-g711

`oxideav-g711` is a Rust crate that converts between 16-bit PCM and the two
companded formats of ITU-T G.711, mu-law and A-law, one byte per sample. This
directory holds its formal models: TLA+ modules translated from the source,
TLC configurations that check them on small instances, and TLAPS proofs of the
theorems that hold for every instance. Paths below are relative to the
repository, which is mounted as `src/`; the crate's own code is `src/src/`.

## 1. Inventory

| Component | Source | State | Operations |
|---|---|---|---|
| Companding tables | `tables.rs` | none; constants computed at compile time | `mulaw_decode`, `alaw_decode`, `mulaw_encode_arith`, `alaw_encode_arith`, and the tables filled from them |
| Single-sample functions | `mulaw.rs`, `alaw.rs` | none | `decode_sample`, `encode_sample`, `encode_sample_arith`, `encode_sample_zero_suppress` |
| Batch helpers | `mulaw.rs`, `alaw.rs` | the caller's output buffer | `decode_slice`, `decode_slice_to_le_bytes`, `encode_slice`, `encode_slice_from_le_bytes`, `encode_slice_zero_suppress`; each panics on a length mismatch |
| Decoders `UlawDecoder`, `AlawDecoder` | `mulaw.rs`, `alaw.rs` | `codec_id`, `channels`, `pending: Option<Packet>`, `eof` | `make_decoder`, `send_packet`, `receive_frame`, `flush` |
| Encoders `UlawEncoder`, `AlawEncoder` | `mulaw.rs`, `alaw.rs` | `output` parameters, `time_base`, `queue` of packets | `make_encoder`, `send_frame`, `receive_packet`, `flush` |
| Registration | `lib.rs` | entries in a `CodecRegistry` | `register_codecs`, `register` |
| Streaming clients | `fuzz/fuzz_targets/streaming_pipeline.rs`, `tests/multichannel_roundtrip.rs` | frames and packets in hand | feed, drain, forward, flush |
| Fuzz targets on the trait surface | `decode_pipeline.rs`, `encode_pipeline.rs`, `factory_params.rs`, `cross_law_transcode.rs`, `streaming_pipeline.rs` | the input, the objects, what was received | fixed sequences of calls computed from the input, and assertions |
| Fuzz targets on samples | `per_sample_invariants.rs`, `zero_suppress_invariants.rs` | position in the input | assertions about single samples and slices |
| Profiler | `examples/profile_g711.rs` | pseudo-random input, buffers, objects | one sequence of calls per mode of the command line, and store loops |
| oxideav-core | external crate | | `Packet`, `Frame`, `CodecParameters`, the `Decoder` and `Encoder` traits |

**How they interact.** The encoders and decoders are passive objects: a client
calls them, and the order of its calls is the only concurrency there is (no
thread, lock, callback or I/O in the crate). A decoder converts when it is
*drained*: `send_packet` parks the packet in a one-slot mailbox and
`receive_frame` converts it. An encoder converts when it is *fed*:
`send_frame` encodes at once and queues the packet, `receive_packet` pops it.
Both run the batch helpers, which index the tables, which are filled by the
arithmetic formulas. A round trip joins an encoder to a decoder through a
client; a gateway joins a decoder of one law to an encoder of the other. A container
finds the factories through the registry, by one of six ids or two tags.

**What is hard.** Legal call sequences: a second send into a taken slot, a
flush with a packet still in the slot, packets after a flush, late draining of
a deep queue, refused calls in the middle. The end of a stream: the decoder
says `Eof`, the encoder never does. Errors half-way: `receive_frame` takes the
packet out of the slot before it finds that it cannot be decoded, and the
encoder accepts frames that the decoder of the same parameters refuses. And the
arithmetic: clamps and segment boundaries, `-32768`, two representations of
zero, little-endian pairs and sign reinterpretation, truncation of the sample
count, and what repeated requantising does. Buffers that a caller reuses, of
the wrong length. Several entries under one tag, and factories that repeat
whatever codec id they are given. Drivers that trim their input, rebuild
packets and drain late, and rely on each call succeeding.

**What makes each part correct.** Tables: the encoder's byte decodes to a level
within half a step of the sample, the searches terminate and find the right
segment. Decoder: one answer per accepted packet, in order, faithful to the
packet; `Eof` only when drained. Encoder: one faithful packet per accepted
frame, in order. Round trip: nothing lost or reordered between the two ends,
and a closing handshake that neither loses a frame nor waits for ever. Tandem:
errors do not add up, samples keep their order, codewords settle. Batch
helpers: the whole buffer is converted or the call panics. Registry: the law
follows from the id or the tag a client asked for. Drivers: no assertion or
`.expect` fails, nothing is left in the objects, every loop ends.

`PROJECT.json` lists the places where these can go wrong ("hazards"), with the
properties that watch each of them.

## 2. Modules

| Module | Models | Role |
|---|---|---|
| `G711Tables` | `tables.rs`, single-sample functions, the two byte-plane helpers | operators only; used by every other module |
| `EncodeLoop` | the bodies of `mulaw_encode_arith`, `alaw_encode_arith` | one action per statement group and loop iteration |
| `G711Slices` | all batch helpers, and the store loops of the profiler | one action per loop iteration, on the caller's buffer |
| `StreamStage` | the contract of the `Decoder`/`Encoder` traits as the code relies on it | abstract specification |
| `G711Decoder`, `G711Encoder` | both decoders, both encoders | state machines, each implements `StreamStage` |
| `Loopback` | a client, an encoder and a decoder | composition of the two by `INSTANCE`, every interleaving |
| `Tandem` | chains of hops through either law | composition of the single-sample functions |
| `SampleProbe` | `per_sample_invariants.rs`, `zero_suppress_invariants.rs` | the two targets as programs |
| `G711Registry` | `lib.rs`, and clients that open codecs | state machine over the external registry |
| `ClientCalls`, `Session` | a client program run against an encoder and a decoder | composition by `INSTANCE`, one call per step |
| `FuzzTargets`, `Profiler` | the programs of the drivers | operators: input to sequence of calls |
| `Xorshift` | the profiler's generator and scenario table | operators |
| `MC...` | | values of the constants for TLC |
| `...Proofs` | | lemmas and theorems (section 4) |

### How state and actions correspond to the code

*Tables.* `MulawDecode`, `AlawDecode` are the decode formulas. Bit operations
are arithmetic on the widths the code uses (`!b` on a `u8` is `255 - b`,
`x >> n` is `x \div 2^n`, `b ^ 0x55` flips four bits). `MulawEncodeArith` and
`AlawEncodeArith` give the encoders in closed form, with the segment as the
place where the loop stops; `EncodeLoop` shows that the loops stop there.
The tables are functions over `0..255` or `0..65535`, filled as the code fills
them: the encode tables index by the sample as a `u16` (`AsU16`) and their
entries were computed from the index as an `i16` (`AsI16`). The
zero-suppressing table rewrites one codeword of the plain one (`Suppress`).

*Loops.* One behaviour of `EncodeLoop` is one call of either function.
`...Prepare...` stands for the lines before the loop, `...Search` for one
iteration, `...Return` for the lines after it. A-law has two prepare actions,
for the magnitudes below 256 that skip the loop, and two ways out of it, the
comparison and the counter.

*Batch helpers.* `Call` is the caller's side: an input, and a fresh buffer or
the one left from the last call. `Enter` is the length assertion, `Iterate` one
iteration of the zip, `Return` its end. `Element` says what each helper stores,
`InputOf` and `BufferOf` the element types it declares. The store loops of the
profiler assert nothing; they are called as the profiler calls them, on the
buffer of `2 * n` bytes made for the input, so that no zip is ever cut short.

*Decoder.* `channels`, `pending`, `eof` are the fields of the struct, `law` is
the module whose factory made it (the two structs are the same but for the
table), `made` says that a factory has succeeded. `reply` is what the last call
returned; `accepted` and `resolved` are history variables, read by properties
and by the bound only. The actions are `MakeDecoder`, `SendPacket`,
`ReceiveFrame` (`ReceivePending` or `ReceiveNothing`) and `Flush`; each is a
whole call with all its error paths. `Outcome` is what `receive_frame` makes of
the packet it took. A packet is its timestamp and its bytes: the decoder looks
at nothing else.

*Encoder.* `output`, `time_base`, `queue` are the fields of the struct. The
actions are `MakeEncoder`, `SendFrame`, `ReceivePacket` and `Flush`.
`EncodedPacket` is the packet `send_frame` builds: the first plane only, the
timestamp copied to `pts` and `dts`, the duration the frame claims.

*Loopback.* The client of `fuzz/fuzz_targets/streaming_pipeline.rs`, with its
phases as one state machine: `Feed`, `Fetch`, `Forward`, `Drain`, `Close`
(flush the encoder), `FlushDecoder`, `FlushMidStream` and `RebuildDecoder`. Where the fuzz
target picks eager or deferred draining for a whole session, the model may
choose anew at every step, and where the target stops at a refusal the model
keeps the packet and tries again, as `tests/multichannel_roundtrip.rs` may.
After a flush in mid-stream the target reads `Eof` and goes on with a fresh
decoder; the model may do the same (`RebuildDecoder`) or go on with the flushed
one, which the code allows.

*Tandem.* A hop is `decode_sample(encode_sample(s))` under either law, as the
oracles of `tests/cross_law_transcode.rs` compose them. The state follows a
sample and its upper neighbour along the same path.

*Sample probe.* One step is one operation of a target: a chunk of three bytes
of `per_sample_invariants.rs` (an opcode and an operand), the batch replay at
its end, or a sample of `zero_suppress_invariants.rs`, the pinned order of the
levels before them and the slice after them. An assertion that fails is recorded
by name in `failed` and ends the run.

*Registry.* `Register` is the call of `register`, `RegisterMulaw` and
`RegisterAlaw` are one round each of the two loops of `register_codecs`. A
registration borrows the registry exclusively, so clients act between
registrations only: `OpenById`, `OpenByTag`, `OpenDirect` (the factories). The
registry itself belongs to oxideav-core; it is modelled as an ordered list in
which a lookup takes the first match, which is what `lib.rs` and its tests rely
on.

*Sessions.* A driver of the repository is straight-line code but for its loops
over the input, so for each input it is a finite program: the sequence of
calls it makes, each with what it does when the call fails (`"panic"` for
`.expect`, `"return"`, `"skip"` the next call, `"ignore"`, `"repeat"` for a
drain loop that ends at the first error, and `"need_more"` and `"eof"` for a
call that has to fail with that error). `FuzzTargets` and `Profiler` compute
these programs from the input bytes and from the command line, expected results
included; `Session` runs one, each step being one call answered by the action
of `G711Decoder` or `G711Encoder`. `assert_eq!` on a packet or a frame is a
call too (`AssertPacket`, `AssertFrame`), `Keep` puts a packet aside, and `Drop`
and `DropDecoder` are the end of a scope and of a decoder that is replaced.
(The gateway keeps its first pair of objects until the end, but makes no further
call on it: its second trip starts with a `Drop`.)
`streaming_pipeline.rs` is modelled twice: as the program it is
(`StreamingPipeline`, input carving included), and as the client of `Loopback`,
which is free to interleave what the target does in phases.

Definitions commented "Mutant" are the code with a plausible bug. Nothing uses
them; substituting one for the definition it mutates must make the property
that `PROJECT.json` pairs it with fail, which shows that the property can fail.

## 3. Checks

| Run | Distinct states (about) | Question |
|---|---|---|
| `decoder` | 13 000 | Does a decoder under every sequence of calls answer each packet once, in order, faithfully, and say `Eof` at the right time? Does it implement `StreamStage`? |
| `encoder` | 20 000 | The same for an encoder and its queue |
| `loopback` | 67 000 | Is the round trip complete, ordered and faithful in every interleaving, and does the closing handshake end? |
| `tandem` | 243 000 | What do chains of hops of any length and mixture do to a sample? |
| `encode_loop` | 850 000 (all 65 536 arguments, both laws) | Do the loops terminate in the right segment, and does the byte decode back? |
| `slices` | 3 900 | Do the element loops convert the whole input, whatever the buffer held, never part of it in silence, and store only what the buffer's type holds? |
| `sample_probe` | 91 000 | Do the assertions of the two sample targets hold, and what does zero suppression cost? |
| `registry` | 14 000 | Do ids and tags lead to the law they name, also when registration is repeated? |
| `sessions` | 6 200 | Do the drivers get through, with every call they expect to succeed succeeding? |

The passing runs check:

* `decoder`: `AnsweredInOrder` (nothing lost, duplicated or reordered,
  errors counted as answers), `EofMeansDrained`, `FramesAreFaithful` (sample
  count, timestamp, and PCM from which the same law's encoder recovers the
  packet), `ImplementsStage` (refinement), `EveryPacketAnswered`,
  `FlushLeadsToEof`.
* `encoder`: `PacketsInOrder`, `PacketsAreFaithful` (each codeword within
  half a step of its sample), `ImplementsStage`, `EveryFrameDelivered`.
* `loopback`: `NothingLostInTransit`, `RoundTripIsFaithful` (an error exactly
  for frames whose samples the channel count does not divide; the sample count
  comes back when it fits the `u32` field, the samples always do),
  `FinishedMeansComplete`, `StreamFinishes`.
* `tandem`: `DriftBounded` (never more than two steps from the origin),
  `OrderPreserved`, `SameLawIsLossless`, `SettlesAfterRoundTrip`.
* `encode_loop`: `SearchInvariant`, `ByteRepresentsSample`,
  `ImplementsClosedForm`, `Terminates`.
* `slices`: `TypeOK` (input and buffer hold elements of the types the called
  helper declares, so a byte buffer holds bytes only), `PrefixConverted` (the
  loop invariant, with what is behind the position untouched) and
  `ReturnsConversion` (a return of any helper or store loop means the whole
  input is in the whole buffer).
* `sample_probe`: `AssertionsHold` (projection, step bound with the clipping
  slack, sign symmetry, agreement of `decode_slice`, `encode_slice` and both
  byte-plane helpers of either law with the single samples, the suppression
  rules), `WireIsFaithful` and `OrderSlipsOneLevel`. The last two say what the
  code's documents do not: a sample whose octet is rewritten comes back weaker
  by up to 2692, and since the rewrite jumps over the level in between, two of
  the loudest negative samples may change places, by that one level of 1024.
* `registry`: `CodecIdTellsLaw`, `TagsAreCanonical`, `RegistrationCompletes`.
* `sessions`: `NeverPanics` (no `.expect`, no `assert_eq!`),
  `GivesUpOnlyAtFactory` (no call after the factories makes a target return
  early, so its assertions are reached), `GaplessTimeline`,
  `NothingLeftBehind`, `Completes`. `GaplessTimeline` speaks of every packet
  received: its duration agrees with its bytes exactly when the frame's claim
  did (`FalseClaims`; `factory_params` makes false ones, and nothing in the code
  repairs or checks them), and a stream without a false claim has neither gap nor
  overlap. `NothingLeftBehind` holds wherever objects go out of scope
  (`ScopeEnds`): at the end of a driver, where it returns early, and where it
  starts over with new ones; and for the profiler's bursts it compares the bytes
  that came back (`total_bytes`) with those put in (`bytes_per_iter`).

### Bounds, and why they are enough

* `MaxSends = 3`, `MaxFrames = 3`: accepted inputs per stream. The decoder
  holds one packet, so three fill the slot with one answered before and one
  refused or sent after; in `Loopback` three frames fill the decoder's slot,
  the client's hand and the encoder's queue at once. The order properties of
  decoder and encoder are also proved without the bound.
* Packets and frames (`MCG711Decoder`, `MCG711Encoder`, `MCLoopback`): lengths
  0 to 4, so that each channel count divides some and not others; payloads with
  both zeros, both signs and both extremes; equal payloads at different times;
  false sample counts; every kind of frame the encoder refuses.
* `U32Modulus = 4` in `decoder` scales the `as u32` truncation down to the
  lengths of the instance; `Loopback` and `Session` take a modulus no packet
  reaches.
* Missing, zero and several channel counts; missing, right and wrong formats;
  missing, zero and other rates.
* `Tandem`: every threshold of either law is at a magnitude divisible by 4, so
  codewords are constant on the blocks `4k..4k+3` of magnitudes. The runs start
  from both ends of every block, and the neighbour of an upper end is in the
  next block: all `i16` values are represented. The chain has no bound, since
  only finitely many values occur; the count of law changes stops at 2, which
  is all `SettlesAfterRoundTrip` asks.
* `encode_loop` takes every `i16`.
* `slices`: inputs of up to three elements (four bytes for byte planes, an odd
  length included) with both extremes, buffers of 0 to 9 elements, so one too
  short and one too long for each (the store loops get the size they need); two
  calls, so a reused buffer. The proofs
  have neither bound.
* `sample_probe`: every codeword; every sample on either side of a decision
  level; inputs cut off in an operand, and longer than `ReplayCap` (8 here, 4096
  in the code). For suppression every high byte with six low bytes, alone and in
  front of the loudest sample.
* `registry`: two registrations (a repetition) and two objects, with every id,
  tag, law, channel count and format at hand.
* `sessions`: inputs that make some 450 distinct programs of the fuzz targets,
  over laws, directions, channel seeds, formats and rates, with payloads that
  are empty, odd, whole and not whole multiples of the channels, and longer
  than the cap (`MaxPayload` 16, 4096 in the code); streams of up to four
  frames, cut short, empty, drained eagerly and late, with and without a flush
  in the middle; all modes of the profiler. Three scales shrink its rows by a
  constant factor (`SizeScale`, `FrameScale`, `BurstScale`) and keep their
  ratios. TLC's integers are signed, so the top byte of a rate stays below
  128.

Behaviours of `EncodeLoop`, `G711Slices`, `SampleProbe`, `G711Registry` and
`Session` end, as a call or a program does (a registry at its bound, too), so
these runs do not check for deadlock; all others do.

### Fairness

Safety needs none. The liveness properties assume that a client which holds a
decoder or encoder keeps draining it (weak fairness of `ReceiveFrame` or
`ReceivePacket`), as every caller in the tests, benches and fuzz targets does;
nothing obliges it to send or flush. Draining is always enabled once the object
exists, so weak fairness is the weakest assumption that says so.
`FlushLeadsToEof` also uses the bound on sends, which stands for a client that
runs out of packets: the code lets a client that keeps sending after a flush
keep getting frames. In `Loopback` the client opens both ends (the factory is
asked at some time without a zero channel count), closes its input some day,
and keeps fetching, forwarding and draining; sending and flushing in mid-stream
are up to it. `EncodeLoop` and `Session` have weak fairness of `Next`: a
function that is called runs, and a driver is the only thread of its program.
`G711Registry` has it for the rounds of the two loops only: `register_codecs` is
one synchronous call, while nothing obliges a client to call it.

### Where the code and its documents disagree

Three configurations check one claim each that a document or comment makes, and
TLC finds a counterexample:

| Run | Claim | What happens |
|---|---|---|
| `decoder_flush_terminal` | `streaming_pipeline.rs:327`: flush is terminal | a flushed, drained decoder accepts and decodes further packets (which lines 308-311 of the same file expect) |
| `encoder_zero_rate` | `factory_params.rs:48`: rate 0 is replaced by 8000 | it is kept, and is the denominator of the time base |
| `tandem_idempotent` | `README.md:152`: encode/decode/encode is idempotent for every sample | -1, -2, -3 give 0x7F, then 0xFF under mu-law |

Modelling brought up smaller ones, for which there is no run:
`streaming_pipeline.rs:129` says that an empty plane is rejected (it becomes an
empty packet); `tables.rs:295` gives the extreme magnitude as 30844 (it is
32124, as the formula quoted there evaluates); `README.md:194` puts thresholds
at the midpoints of the levels (at A-law segment boundaries they are not);
`per_sample_invariants.rs:59` and `:77` describe short inputs and the A-law step
differently from the code below them; `zero_suppress_invariants.rs:23` says
that the rewrite moves one step inward (it moves two levels);
`factory_params.rs:222` says that frames are aligned to the channel count (they
are cut to whole samples only); `profile_g711.rs:716` says that a pair of
objects is reused (each iteration makes its own).

## 4. Proofs

TLAPS checks these for every value of the constants that meets the named
assumptions of each module: any packets and frames, any channel options (zero
and missing included), any modulus, any inputs and buffers, any origins, any
bound.

* `CompandingProofs`: the lemmas about the tables that all others cite.
  * Types: of table entries, arithmetic encoders and whole slices
    (`DecodeSliceType`, `EncodeSliceType`). The segment is a `CHOOSE`, so these
    first show that such a segment exists.
  * Encoding: `MulawSegmentFound` and `AlawSegmentFound` identify the `CHOOSE`
    with the segment whose bounds enclose the magnitude; `MantissaInterval` then
    gives `EncodingRepresents`: the codeword of any sample has its sign and a
    level within half a step.
  * Decoding, then encoding: `SampleRecovers`: every codeword but the negative
    mu-law zero comes back; `SliceRecovers` for byte planes.
  * Order: `LevelsHaveForm` writes a level as a unit and a mantissa,
    `IntervalsApart` and `LevelsInOrder` say that what two levels of a law
    represent does not overlap, and `RecodedInOrder` that encoding and decoding
    is monotonic.
* `G711DecoderProofs`
  * `TypeCorrect`: `Spec => []TypeOK`. Its core is that no call makes
    `channels` zero.
  * `Order`: `Spec => []AnsweredInOrder`. The invariant is not inductive alone:
    it says what the answers are in terms of `law` and `channels`, which
    `MakeDecoder` sets. The strengthening `UnusedUntilMade` (no packet accepted
    before the factory has succeeded) keeps the factory from rewriting history.
  * `EofIsFinal`: `Spec => []EofMeansDrained`, from `Order`: an empty slot and
    matching lengths mean that everything is answered.
  * `Refinement`: `Spec => ImplementsStage`, action by action: `SendPacket` is
    `Accept` or `Neutral`, `ReceivePending` is `Answer`, `ReceiveNothing` is
    `Starve`, `Flush` is `End`, `MakeDecoder` is `Neutral`.
  * `Faithful`: `Spec => []FramesAreFaithful`, from `Order` and `SliceRecovers`.
* `G711EncoderProofs`
  * `TypeCorrect`: `Spec => []TypeOK`.
  * `Order`: `Spec => []PacketsInOrder`, strengthened by `Consistent`: nothing
    has been sent or queued before the factory has succeeded, and the time base
    is always the one of the announced rate.
  * `Refinement`: `Spec => ImplementsStage`. `Order` is needed here: it bounds
    the queue by the frames accepted, hence the debts by the stage's capacity.
    The lemmas `DueAppend` and `DueTail` say what queueing and handing out a
    packet do to the debts.
  * `Faithful`: `Spec => []PacketsAreFaithful`, from `Order` and
    `EncodingRepresents`.
* `G711SlicesProofs`: `TypeCorrect`, which needs that each element a helper
  stores is of the type its buffer declares; `PrefixCorrect`, the loop invariant
  for every input, buffer and number of calls (strengthened by `Checked`: in the
  loop the lengths match, by the assertion or, for a store loop, by how its
  buffer was made); `WholeInput`: a return means that the whole input is
  converted. So the operators the decoder and encoder are modelled with
  are what the element loops compute.
* `LoopbackProofs`: `TypeCorrect`, `Order` (`NothingLostInTransit`), `Complete`
  (`FinishedMeansComplete`), `Faithful` (`RoundTripIsFaithful`).
  * The round trip joins an encoder and a decoder that know nothing of each
    other, so the inductive invariant has to say what ties them together:
    `EncoderFresh` (nothing is in the encoder before its factory has succeeded),
    `DecoderFollows` (the decoder is made from the parameters the encoder
    announces, with their law and channels), `OnlyEncodable` (only frames
    that encode are ever accepted), `Closing` (what is already empty in each
    phase of the closing handshake), and the decoder's own `AnsweredInOrder`.
  * `Complete` follows from the order: the closing phases empty the queue, then
    the hand, then the slot. `Faithful` reads the order packet by packet, and
    composes `EncodedElement`, `EncodingRepresents` and `DecodedElement`.
  * The two ends are instances, each with its own copy of `G711Tables`: the
    lemmas `Same...` prove that the copies are equal.
* `SingleSampleProofs`: the three machines over single samples.
  * The segment searches (`EncodeLoop`): `TypeCorrect`; `SearchCorrect`: when a
    search stops, the magnitude lies in the segment found. Inductive because
    `LoopInv` says, while the loop runs, that the magnitude is below everything
    already passed (mu-law, going down) or above it (A-law, going up).
    `ClosedForm`: the loops return the closed forms of `G711Tables`;
    `Representative`: what they return represents the argument.
  * The chains (`Tandem`): `Order`, no chain swaps two neighbours, from
    `RecodedInOrder`; `Lossless`, a hop under the law just used repeats the
    codeword, from the invariant that the value after a hop is what its codeword
    decodes to.
  * `Settles` and `Drift` rest on the invariant `Travelled`, which says all the
    places where a chain can be: the origin; the level x it takes under its
    first law; the level y that x takes under the other law; and the level z that
    y takes under the first law again. That nothing else is reachable is
    `CrossingsSettle`: z under the other law is y. Its core, `BackInInterval`, is
    a statement about the grids of the two laws, which TLC can only enumerate:
    if y represents x and z represents y, then y represents z. `OneCodeword`
    turns it into equal codewords. `CrossingsNear` bounds the distances of x, y
    and z from the origin, clipping and the sign change at zero included.
  * The sample targets (`SampleProbe`): `AssertionsSound` (`AssertionsHold`),
    `WireFaithful` (`WireIsFaithful`), `OrderSlips` (`OrderSlipsOneLevel`), on
    inputs of any length and content and for any cap. Each group of assertions is
    a lemma. `SampleSound`: a half step never exceeds the step the target allows
    for the segment (`StepCoversHalf`), and where the encoder clips, the slack
    covers what is cut off; encoding again gives the canonical codeword.
    `CodewordSound`: flipping the sign bit negates the level (`SignNegates`).
    `BatchSound`: all eight batch assertions, the tables at every element being
    the single-sample functions (`SliceElement`). `SuppressionSound` and `OrderSound`:
    the rewritten octet and the pinned levels around it.
  * The wire: the octet rewritten is the one of the outermost level, so a sample
    that has it is at most 2692 stronger than what comes back (`WireOctet`), and
    every other level compares with the rewritten one as with the original but
    for the one between them (`WireOrder`).
* `G711RegistryProofs`: `IdsTellLaw` (`CodecIdTellsLaw`) and `TagsNameOneCodec`
  (`TagsAreCanonical`), for any number of registrations and of objects.
  * The invariant `RegistryInv` says that the registry holds only entries the two
    loops of `register_codecs` add (`Entries`), in whatever multiplicity, and
    what follows for the law and the name of every object opened so far.
  * `FirstFound`: a lookup returns an entry that matches, since a nonempty set
    of positions has a least one (well-foundedness of the naturals). `EntryTells`:
    the name of an entry tells its law, and a tag sits on the first name of its
    law only; `OneClaimant` says the same of what the registry lists.
  * `NoneIsNoTag` assumes that the absent tag (`Option::None`) is no tag value.
* `SessionProofs`: `TargetsNeverPanic`, `TargetsGiveUpOnlyAtFactory`,
  `TargetsLeaveNothingBehind`, for the programs of `decode_pipeline`,
  `encode_pipeline`, `factory_params` and the gateway of `cross_law_transcode`
  (`FixedTargets`) on inputs of any length and content, inputs too short for
  their target included.
  * `TargetsLeaveNothingBehind` covers each scope of these targets: the two
    halves of `decode_pipeline`, each drive of `factory_params`, the only pair of
    `encode_pipeline`, one or two pairs of the gateway, and every early return.
  * The first and the third take whatever their calls return. `TolerantInv` says
    of such programs that each call is allowed to fail, that a frame sent is
    followed by a loop that drains the queue (`Drains`), and that the decoder's
    slot is empty wherever a scope can end (`Quiet`: a drop, a factory, behind
    the last call), since a `receive_frame` or another drop came just before, on
    whatever path the place was reached.
  * The other two compare results. `EncodeState` and `GatewayState` say, call
    by call, what the encoder's queue, the decoder's slot and the client hold, as
    functions of the input, and that queue and slot are empty once the last call
    is done. `TripStep` is one trip of the gateway, which runs it once or twice;
    the second trip starts from the packet the first returned.
  * What the targets expect is computed sample by sample without any object.
    `TranscodedSlice` and `RoundTripSlice` show that the slices going through
    the traits have the same elements, `EncodePipelineProgram` and
    `TripsMakeGateway` that what is left after trimming divides by the channels.
  * Hypothesis: `MaxPayload < U32Modulus` (4096 and 2^32 in the code), so that the
    sample count a frame announces is the number of samples, not a remainder. It
    is needed: above the modulus, the `assert_eq!` on the count would fail.

**Only model-checked.**

* Liveness: `EveryPacketAnswered`, `FlushLeadsToEof`, `EveryFrameDelivered`,
  `StreamFinishes`, `Terminates`, `Completes`, `RegistrationCompletes`. They
  need fairness and `ENABLED`, which TLAPS does not treat.
* `streaming_pipeline` and the profiler among the programs of `Session`. The
  first is a fold over its input, so that what it calls is known only by
  induction over data. The second is computed with `Bitwise` (`Xorshift`), and
  its programs are a finite table, each of which TLC runs to its end.
* `GaplessTimeline`: it compares the encoder's histories with the calls of the
  whole program, `streaming_pipeline` and the profiler included. What it needs
  of the encoder for every frame, that a packet carries the claimed duration, the
  frame's timestamp and one byte per sample, is proved in `G711EncoderProofs`.

Each inductive invariant was checked by TLC on the instance of its component's
run before it was proved.

## 5. Plan

1. *Done*: tables, loops, decoder, encoder, their common contract, the round
   trip, tandem hops; type, order, refinement and faithfulness theorems.
2. *Done*: `G711Slices` with its theorems, `G711Registry`, `SampleProbe`, the
   drivers as `Session` programs (the gateway of `cross_law_transcode.rs` among
   them), tandem order and losslessness (`SingleSampleProofs`).
3. *Done*: the round trip end to end (`LoopbackProofs`), the assertions of the
   sample targets for every input, drift and settling of chains for every sample
   (`SingleSampleProofs`).
4. *Done*: the two invariants of the registry (`G711RegistryProofs`) and the
   four fixed fuzz targets on the trait surface (`SessionProofs`).
5. Left: `streaming_pipeline` for inputs of any length, and liveness, neither of
   which TLAPS reaches.

## 6. What is not modelled

* `extradata` and the other parameters a factory only copies.
* Error messages, capabilities, logging.
* The benches: they time the calls that `Profiler` models. In the profiler,
  timing and printing, and the warm-up and timed sums over the sample functions.
* `oxideav-core`: an external crate, represented by the fields the code uses, by
  `StreamStage`, and by the list in `G711Registry`.
* Allocation failure, and files or containers read by `tests/docs_corpus.rs`.
