# A TLA+ model of libpo

This directory models libpo (`src/core`), the freestanding C99 library that
reads, writes, sends and receives the audio data format of the Pocket Operator
drum machines and samplers. The modules are model-checked with TLC on small
instances, and the invariants that carry the most weight are proved with TLAPS
for every value of the constants.

All paths below are relative to the repository.

## 1. Inventory

libpo keeps no global state, allocates nothing and starts no thread. Every
component is a struct owned by the caller and a set of functions on it; what
makes the code hard is not parallelism but *re-entry* (a callback runs in the
middle of a decoder's loop and may call back into the decoder), *chunking* (a
stream is cut anywhere and state has to survive the cut), *bad input* (any
symbol of a recording may be wrong) and *partial failure* (a call that gives up
after it has written half of its output).

| component | source | state | operations | what makes it correct |
| --- | --- | --- | --- | --- |
| wire layer | `po_wire_internal.h` | a 16-bit running state threaded through every byte | write/read byte, packet, tail; counter preamble | what is written reads back, only with the same state, and the state continues from packet to packet |
| PO-32 frames | `po32.c` 56-254 | none | `po32_frame_parse` | reports exactly the packets a frame holds, at their offsets; accepts only with a valid tail |
| PO-32 builder | `po32.c` 256-309, 525-609 | buffer, length, state, finished | init, reset, append_packet, append, finish | never writes past the buffer; a finished frame reads back |
| PO-32 demodulator | `po32.c` 1072-1401 | oscillator and correlator; sync window, byte accumulator, offset; state, work buffer, count, done, stopped, tail | init, push (chunk), flush, desync, queries; a callback per packet | see the properties of `Po32Demod` and `Po32Link` |
| PO-32 one-shot decoder | `po32.c` 1403-1503 | a demodulator feeding a builder | `po32_decode_f32` | success means a complete, parseable frame |
| PO-32 pattern editor | `po32.c` 317-435, 458-465 | steps, morph lanes, accent mask | init, clear, set/clear trigger, clear step, set accent | three views of one accent stay in step; what is stored can be encoded |
| PO-32 pattern codec | `po32.c` 467-523, 793-863 | none | packet encode and decode | decode inverts encode |
| other typed packets | `po32.c` 611-791, 865-901 | none | patch, knob, reset, state codecs | decode inverts encode |
| PO-32 modulator | `po32.c` 907-1070 | bit cursor, phase, sample index | init, reset, render (chunk), remaining, done | chunks concatenate to the one-shot rendering |
| PO-33 framing, topology | `po33.c` 1-543, 726-741 | the sound record being gathered, owners and references per selector | builder, parse, requirements, build | each record once, with its own bytes, spans and references |
| PO-33 pool edits | `po33.c` 545-703, 863-1421 | plan, staged workspace | plan, rebuild | a rebuild does what its plan says or changes nothing; nobody's sound changes but the target's |
| PO-33 capacity account | `po33.c` 743-861 | none | measure, project | the projection is what is measured afterwards |
| PO-33 other edits | `po33.c` 1430-2032 | plan, staged workspace | insert, detach, range edit, single-sound transfer | as pool edits |
| PO-35 framing, speech | `po35.c` | as PO-33 | builder, parse, plan, rebuild | as PO-33 |
| stereo modem | `po_stereo.c` | position, symbol, differential phases; candidate cursor | modulator, candidates iterator, decode | chunk independence; every candidate once, also after a retry |
| PO-33, PO-35 payloads | `po33_data.c`, `po35.c` 112-272, 711-801 | none | decode, encode, root note | what decodes encodes to itself, but for the fields that were set |
| patch import | `po32_patch_import.c` | parser position, mode hints | parse `.mtdrum` text | the patch the text says in any order of lines, or an error and zeros |
| drum synthesiser | `po32_synth.c` | a voice: envelopes, oscillator, generator, filters, position | init, reset, render (chunk), remaining | pieces and earlier hits do not show |
| speech synthesiser | `po35_synth.c` | a voice: filter delays, noise pair, record, boundaries | init, reset, render (chunk), one-shot render | as the drum synthesiser; records end on their times |
| PO-33 audio | `po33_audio.c`, `po33.c` 14-40, `po_resample_internal.h` | none | size, convert, sample bytes | exact sizes, no sample skipped, bytes that settle |
| speech analysis | `po35_analysis.c` | a fixed window | size, analyse | records span the sound, reads stay in the window |

How they interact. Builder and parsers call the wire layer. The demodulator
calls the wire layer and the tag table, and hands each packet to the caller's
callback from inside its loop; `po32_decode_f32` supplies a callback that files
the packet into a builder, so that one call runs three state machines against
each other. The modulator and the demodulator meet only through audio.
The PO-33 and PO-35 families share the wire layer and go through the stereo
modem instead.

## 2. Modules

| module | models | kind |
| --- | --- | --- |
| `POWire` | `po_wire_internal.h` | operators |
| `Po32Frame` | tag table, packet decoding, `po32_frame_parse` | operators |
| `Po32Builder` | `po32_builder_*` | state machine |
| `Po32Demod` | `po32_demodulator_*` from the bit decision upwards | state machine |
| `PacketLink` | what a receiver promises its caller | abstract specification |
| `Po32Link` | `Po32Demod` listening to a recording through a bad channel | composition |
| `Po32Decode` | `po32_decode_f32`: `Po32Link` and `Po32Builder` | composition |
| `Po32Pattern` | `po32_pattern_*` editing calls | state machine |
| `Po32PatternWire` | the pattern packet codec around `Po32Pattern` | state machine and operators |
| `Po33Sound` | PO-33 packets, `po33_frame_parse` feeding the sound stream, the topology | operators |
| `Po33Plans` | the two replacement plans, the capacity account | operators |
| `Po33Topology` | the sound stream fed by any sender | state machine |
| `Po33PoolEdit` | plan and staged rebuild of a pool edit, with its caller | state machine |
| `Po33Edits` | insert, detach, range and transfer, with a caller who holds plans | state machine |
| `Po33Backup` | what a PO-33 owner sees: groups, sounds, audio | abstract specification |
| `Po35Speech` | PO-35 speech edit plan and rebuild, with their caller | state machine |
| `Po35Voices` | what a PO-35 owner sees: recordings in slots | abstract specification |
| `PoAliases` | the regions a rebuilding call is given, what it clears, reads and writes | state machine |
| `PoFrames` | PO-33 and PO-35 frame builders and parsers, byte by byte | state machine |
| `Po32Packets` | patch, knob, reset and state packets | state machine |
| `PoPayloads` | the twelve typed payloads of PO-33 and PO-35, as layouts | state machine |
| `Po33Samples` | the sample bytes of a PO-33 | sweep over all samples |
| `Po33Audio` | sizes and reach of the PO-33 conversion | state machine |
| `Po35Analysis` | how a sound is cut into speech records | state machine |
| `PoStereo` | stereo modulator, tape, demodulator and searches | state machine |
| `Po32Modem` | PO-32 modulator and the sample level of its demodulator | state machine |
| `Po32Synth`, `Po35Synth` | the voices of the two synthesisers | state machines |
| `Po32PatchImport` | the import of a patch | state machine |
| `RunTheorems` | induction in the form the proofs use, and what it says of recursive functions | lemmas |
| `POWire_proofs` | the bytes of packets and tails (`POWire`) | proofs |
| `PoFrames_proofs` | the frames of the PO-33 and the PO-35 (`PoFrames`) | proofs |
| `Po32Decode_proofs` | the parser's loop (`Po32Frame`), the builder (`Po32Builder`), the demodulator (`Po32Demod`), then `Po32Link` and `Po32Decode` | proofs |
| `Po33Sound_proofs` | the groups the parser records (`Po33Sound`), and what a plan is made of (`Po33Plans`) | proofs |
| `Po33Topology_proofs` | the frame (`Po33Topology`) and the memory (`PoAliases`) a rebuilding call is given | proofs |
| `Po32Pattern_proofs`, `Po33PoolEdit_proofs` | theorems about the module they are named after | proofs |
| `MC*` | constants for TLC | instances |

Five of the `MC` modules (`MCFrames`, `MCRebuilds`, `MCModems`, `MCCodecs`,
`MCSound`) hold several components that share no state. A variable `part`, fixed
initially, says which of them a behaviour is one of; the variables of the others
are parked at a value that is never changed. A property of such a run is a
component's own, which a parked component satisfies, or the conjunction of
several under `part = ...`.

### Correspondence with the code

**`POWire`.** A buffer is a sequence of bytes; `uint16_t` and `uint8_t`
wrap-around is `%`, shifts are multiplications and divisions. The C functions
advance a position and a state byte by byte; here `StatesWriting` and
`StatesReading` are the states such a run passes through and `WriteBytes` and
`ReadBytes` its bytes and final state. The exclusive or is by nibble table.
CRC, whitening, trailers and tail are computed for real, never abstracted: the
properties depend on a wrong byte being noticed.

**`Po32Frame`.** `ParseStep` is one turn of the loop of `po32_frame_parse`: tail
first, then packet. Its callback is one that never stops the parse.

**`Po32Builder`.** `buffer` is what has been written, so `Len(buffer)` is
`builder->length`. `AppendObjection` lists the refusals in the order the code
makes them. A `NULL` argument is left out everywhere in this project.

**`Po32Demod`.** One action per call boundary (`PushBegin`, `PushEnd`, `Flush`,
`Desync`, `Reinit`) and one per symbol (`PushBit`, with the whole byte handler
and callback inside it). `po32_demodulator_push` copies the hot fields to a
local struct, loops, and commits them: between `PushBegin` and `PushEnd` only
`synced` is read and written on both sides (the callback may desync the
original), so only it is kept twice (`synced` and `run_synced`). The callback's
behaviour is the record `Reply`: it may ask to stop, desync the demodulator it
is called from, both or neither. The analogue half (oscillator, correlator,
timing recovery) is reduced to its outcome, a bit; by itself the module lets
that bit be arbitrary, which includes every possible signal. `pending` stands
for the comparison of `symbol_phase` that `flush` makes: any push may leave it
either way. `heard`, `delivered` and `lost` are history variables.

**`Po32Link`.** The environment: `Recording` is the bit sequence the modulator
sends for a few transmissions, `Hear`, `HearWrong`, `HearExtra` and `Miss` what
the channel makes of a symbol, `ChunkBegins`, `ChunkEnds`, `CallerDesyncs`,
`FinalFlush` and `Reuse` what a caller does. The demodulator is `Po32Demod`
unchanged.

**`Po32Decode`.** `po32_decode_prepare`, one push, one flush and
`po32_decode_finalize` are stages. The collecting callback is conjoined to the
step that delivers a packet (`Collect`), since it runs inside it, and the
callback's answer is the one the builder's answer calls for. The recording may
end anywhere.

**`Po32Pattern`, `Po32PatternWire`.** The arrays are functions on slot numbers
with the code's index formula; `accent_bits` is the set of steps whose bit is
up. The codec lays out and reads the payload with the code's positions.
A decoded pattern (`Load`) is then edited like any other, so the round trip is
checked for edited patterns, decoded patterns and mixtures.

**`Po33Sound`, `Po33Topology`.** A PO-33 frame is its sequence of packets; a
packet is a tag and a payload, its length on the wire the payload's and five
bytes. Packets whose trailer is wrong, the counter preamble and trailing bytes
that make no packet are left out: they end the parse with an error before the
stream sees them, and are `POWire`'s matter. Settings, pattern and unknown tags
are one tag, `"other"`, since a sound treats them alike. `ParseStep` is one turn
of the loop of `po33_frame_parse` with `topology_packet` as its callback, and
`stream.seen` the records the passes' callbacks are called with: every pass of
the code reads the same frame and takes every record, so the passes differ only
in what they compute of `seen`. `NoIndex` is `SIZE_MAX`; indices count from 1.

**`Po33Plans`.** `ReplacementPlan` is the plan over a topology, `EditPlan` the plan
over a frame with `full` for `po33_sample_edit_plan`. The list of objections keeps
the order in which the code tests them, which decides the reason reported. The
plan's fields are the struct's (`requested` for `requested_sample_bytes` and so
on). Overflow guards against `SIZE_MAX`, the 32-bit limit of a sample length and
the `policy` marker of a sample edit plan are left out.

**`Po33PoolEdit`.** One action per call and, in the rebuild, one per packet of the
old frame (`RebuildPacket` is one call of `pool_edit_rebuild_packet`). Between
plan and rebuild the caller may turn to another frame or other samples, which
the rebuild has to notice: it makes the plan again (`expected`), compares, and goes
on with its own. `rebuild` is the workspace with its builder, `out` what
reaches the caller. Workspace and output have the same size (`room`), exact or
one byte short. Overlapping buffers are left out.

**`Po33Edits`, `Po33Backup`.** `InsertPlan`, `DetachPlan`, `RangePlan` and their
`...Rebuild`s are operators that return a status and a plan or a frame; `Plan`,
`Rebuild` and `Transfer` are the calls of a client that holds one plan of each
kind while the frame goes on changing, and calls again with other arguments or
short workspaces. A rebuild is one step, since nothing but the library runs
between its packets; its callbacks are the functions given to `Rewritten`, which
stops at the first failure as `po33_frame_parse` does. Detach strips the alias
and inserts into what is left, in one workspace. `Backup` maps a frame to groups
(`BackupIn`), and `ImplementsBackup` says that every call that succeeds is one
step of `Po33Backup` for the group, samples or range it was `asked` for, and that
every other changes nothing.

**`Po35Speech`, `Po35Voices`.** `Scanned` folds the callback of the scan over the
packets, `EditPlan` and `EditRebuild` are the two calls. A header is its slot,
count, rate and metadata. The abstract store replaces just the recordings `asked`
for by the request that was served, all at once, and moves nothing.

**`PoAliases`.** One call with its six regions placed by the caller, as steps:
`Clear` (the returned length, first), `Refuse`, `Check` (reads), `Rebuild` (writes
the workspace), `Deliver`. `memory` says who wrote an octet last.
`CanClear` and `InvalidAliases` are the two tests the code makes.

**`PoFrames`.** Both devices' builders are one machine with a constant per
difference: opening, closing, reserved tags. `Parse` is the parser with a
callback that stops at a given packet. The wire layer is `POWire`, computed for
real. The variables are named `frame_...` because one run checks this builder
together with the one of the PO-32.

**`Po32Packets`, `PoPayloads`.** A client decodes payloads into one struct, sets
fields and encodes. The payloads of PO-33 and PO-35 are tables (`Layout`): field
to octet, with rows, stride, width, byte order and sign; `Decoded` and `Encoded`
read and write through the table, and the exceptions of the code (chains that
copy only their count, limits, the order of range and buffer tests) are spelled
out. Values are below 2^31. A patch parameter is an integer for the 16 bits the
float is rounded to. The encoders of PO-32 do not check an instrument's range,
nor do these.

**`PoStereo`.** A sample is the symbol it sounds and the phases it moves between.
The receiver's filters and pilot are a clock locked wherever there is signal;
what it decides are the nibbles of `Demodulated`, in order or swapped. `FindFrame`
is the one-shot search, which tries all of one alignment first, so it need not
return the first frame of a tape: `OneShotIsACandidate` is what it does promise,
for buffers of every size in `Capacities`. It reads the recording and keeps nothing,
so it is an operator and no action.

**`Po32Modem`.** Modulator and demodulator with integer phases, `Unit` to a
symbol. A sample is the sign of its carrier, so a window's correlation is the
sum over it. The step is rounded down as a float may be, which makes the
boundaries drift late against the count of samples. `Flush` tests that the
stream has started where the code tests `synced`, which belongs to `Po32Demod`. With misaligned windows a
flush in the middle of a frame may guess its last bit, as a comment of the code
admits; `EveryBitArrives` and `OnlyBitsSent` say when it may not.

**`Po32Synth`, `Po35Synth`.** The arithmetic is replaced by its history: a sample
is the record of what it was computed from (how often a recursion was applied
since its seed, which draw of the generator, which inputs a filter has seen).
`SampleAt` gives the same record in closed form, from the hit and the index
alone.

**`Po33Audio`, `Po35Analysis`.** Sizes exactly as the code computes them (two
parts, ceilings, wrap at the machine's word), and for each output the set of
inputs its filter or window reaches. Weights are left out: `heard` counts how many
outputs each sample of the PCM is weighed for, and away from the ends all of them
must be weighed equally often, which a filter that does not widen going down in
rate violates even where it still reaches every sample.

**`Po32PatchImport`.** The two passes over the lines (`IsFor`: the modes in the
first, the rest in the second), the values that hang on hints, the failure that
clears the patch. Digits and curves are left out: a value is a curve's name and a
number.

**`PacketLink`.** The abstract specification of a receiver: it hands over the
packets of one transmission in order from the first one, may start over, and
says "complete" only with all of them handed over. It knows no bits, bytes,
CRCs or chunks. `Po32Link` implements it (`ImplementsLink`).

Operators whose comment begins with "Mutant" are seeded faults: one plausible
mistake in the definition that follows, used to confirm that a property would
notice it. No specification uses them.

## 3. Runs

| run | checks | result |
| --- | --- | --- |
| `link` | `OffsetsTile`, `StreamMatchesParse`, `CleanBytesKeepSync`, `StopIsTerminal`, `NothingAfterLoss`, `ImplementsLink` | holds |
| `recovery` | `Recovers` | holds |
| `decode` | `BuilderFollows`, `OneLockReturnsTheFrame`, `ReportIsTrue` | holds |
| `decode_offsets` | `OffsetsIndexTheFrame` | violated, see 6 |
| `pattern` | `InSync`, `NoGhostAccent` | holds |
| `frames` | `BufferFits`, `ReadsBack` (PO-32); `BracketedReadsBack` (PO-33, PO-35) | holds |
| `topology` | `SpansInOrder`, `RecordsAreExact`, `PlansAgree`, `GrantedPlansAreUnambiguous` | holds |
| `pool_edit` | `PlannedSizesAreExact`, `OnlyTheTargetChanges`, `SamplesStay`, `ProjectionHolds` | holds |
| `rebuilds` | `EditsFollowPlans`, `EditsImplementBackup` (PO-33); `SpeechFollowsPlans`, `SpeechImplementsStore` (PO-35); `MemoryIsKept` | holds |
| `modems` | `StereoWiresArrive`, `StereoCandidatesOnce`; `BitsArrive` (PO-32) | holds |
| `codecs` | `PatternsReturn`, `PacketsReturn`, `PayloadsReturn`, `SampleBytesSettle` | holds |
| `sound` | `ImportIsFaithful`, `ImportEnds`, `ChunksDoNotShow`, `ConversionHearsAll`, `AnalysisSpansTheSound` | holds |

Each run takes under three minutes on two workers.

Bounds, and why they are enough:

* **The preamble** has 12 fill bytes instead of 124. The sync pattern is the
  code's own, 8 bytes with the real sync word; the fill before it only has to be
  longer than the pattern for the hunt to slide through it. (The builder's run
  uses the sync word alone: the builder only copies the preamble.)
* **Two transmissions**, of two packets and of one, of the shortest tags: enough
  for a lock to be lost in the first and found in the second, for state to
  carry over from one packet to the next, and for packets of two transmissions to
  be mixed up if they can be.
* **One fault**, at any symbol from the second byte of the sync word to the end
  of the first body (`FaultyZone`), a wrong bit, a lost symbol, an extra symbol,
  or a desync from the caller. With two faults a 16-bit check can be fooled, and
  then `ImplementsLink` would not be a property of the code.
* **Chunks** may end before every 5th symbol (`link`), which is prime to 8 and so
  cuts bytes at each of their positions, or every 40th (`recovery`), at the end of
  the recording, and after the stream is done or stopped.
* **`decode`**: the recording may end before every 5th symbol; the buffer sizes
  are no room for the preamble, for a frame without its tail, for a first packet
  but not a second, and for everything. `work_size` is the code's 280.
* **`frames`**: PO-32: known packets, a wrong payload length, an unknown tag, a
  payload longer than a byte can count and a packet with the tail's shape, in
  buffers at each boundary. PO-33 and PO-35: a counter of two bytes, packets with
  every tag either builder reserves, and buffers for none, some and all of a frame;
  every finished buffer is parsed at every length and with a stop at every packet.
* **`pattern`, `codecs` (patterns)**: two steps and two lanes instead of 16 and 4;
  steps and lanes do not interact beyond "same step" and "same lane", and two of
  each tell both apart. Arguments run one past every limit.
* **`codecs`, the rest**: packets and payloads of full size, with the full PO-33 and
  PO-35 chains; two fields of each set to the ends of their ranges and one past, in
  the first and the last cell of an array; all 65536 samples.
* **`topology`, `pool_edit`**: range coordinates of one byte (headers of three), blocks
  of four bytes, payloads of at most three in what the rebuild writes, hence two
  packets per block where the code has 17 (`SizesAssumption` relates the three as
  4096, 255 and 17 are related). `topology` takes every sequence of up to eight of
  eleven packets that the parser goes on with: two groups with a split header each,
  or with extensions, fit between BEGIN and END, and so does a packet after END. The
  frames of `pool_edit` have up to three groups, of one-block pools, split, unaligned
  and extended ones, aliases and bare selectors; samples fill nothing, part of a
  block, a block exactly and more than two blocks, so that growth takes none, one and
  two blocks.
* **`rebuilds`**: two edits in a row, since the second meets whatever the first may
  leave; PO-33 frames with pools, split headers, aliases (of aliases, of a slot not
  yet recorded), duplicate and bare selectors and extensions, recordings of nothing,
  of a block with and without its guard byte. PO-35: two slots, records of two
  bytes, two to a packet, so that recordings have no packet, one not full, one just
full, and one more; requests for no, one and two slots with every fault the
  plan reports, and frames the scan refuses. Memory: nine addresses, every place of
  the frame, the workspace and the output in them, and a workspace that claims all.
* **`modems`**: a counter of one byte and two and a half frames to a symbol, so that
  symbols begin between frames; chunks of nine and twenty-four; a wire with a byte
  before the counter, one after the marker, and one with two preambles, for two
  candidates on one tape; the tape ends anywhere; buffers for nothing, for less than
a candidate and for any. PO-32: all frames of six bits, six
  and two thirds samples to a symbol, a step rounded down, silences that put the
  windows early, late and aligned.
* **`sound`**: every text of up to four lines, since a meaning hangs on two lines at
  most, twice set or not; hits of five samples, speeches of up to four records of
  one to four samples, up to five or six calls on one voice; the conversion at the
  code's eight taps on either side, with a clock of 11/2 and a word of 255, so that it
  expands up to 11/4 and reduces down to 40 : 5.5 (the code 2.9 and 8.2), sums do
  wrap where they can, and a count beyond half of the word is refused; the analysis
  at the real rates with the longest speech there is (65535 records).

Deadlock is checked except in the runs over a recording, a tape, a frame or one
edit, which end.

**Fairness.** `sound` assumes that an import goes on reading, which a call that
returns does; `ImportEnds` says it does not read for ever. The other use is
`recovery`. `WF(ChunkBegins)` says that a caller with
recording left goes on pushing while the demodulator accepts samples; the strong
fairness of a symbol passing says that chunks are not empty for ever. Both are
assumptions on the caller of the streaming API (`po32.h`: push "may be called
repeatedly with successive chunks"); nothing is assumed of the channel, the
callback or the demodulator. Faults are bounded, so there is a whole
transmission to be heard.

## 4. What the properties say

* `OffsetsTile`: packets reported since the last acquisition tile the received
  bytes from the end of the preamble on, with the work buffer as the remainder.
* `StreamMatchesParse`: the streaming decoder and `po32_frame_parse` are two
  parsers of one format that share little code; on the bytes heard they report
  the same packets, and the stream is done exactly when the parser accepts.
* `CleanBytesKeepSync`: bytes are rejected only if nobody sent them.
* `StopIsTerminal`, `NothingAfterLoss`: after a stop, or after a loss of sync
  and before the preamble is found again, nothing comes out, whatever is pushed,
  flushed, desynced or answered by a callback in between.
* `ImplementsLink`, `Recovers`: the receiver as its caller sees it.
* `BuilderFollows`: during `po32_decode_f32` the builder stands at the byte and
  in the state of the demodulator, and has rebuilt the very bytes it heard.
* `OneLockReturnsTheFrame`, `ReportIsTrue`: what the outcomes of `po32_decode_f32`
  mean. A success parses, with the reported packets and tail; a failure reports no
  length and no completion.
* `BufferFits`, `ReadsBack`, `BracketedReadsBack`: the builders' memory safety and
  their inverse; the exception for packets no parser knows is spelled out in the
  property. A frame cut anywhere yields its whole packets and no completion; a
  callback that stops at END is not told of one either.
* `InSync`, `NoGhostAccent`, `PatternsReturn`: the pattern and its codec.
* `RecordsAreExact`: the stream's records are the groups of the frame, defined
  from the whole frame and not packet by packet, and the counts of the first pass
  are those of the records. `SpansInOrder`: no subtraction of
  offsets wraps and no two spans overlap, on every frame however broken.
* `PlansAgree`: two implementations of the replacement plan return the same status,
  reason and figures. `GrantedPlansAreUnambiguous`: what a granted plan promises.
* `PlannedSizesAreExact`: what is written, what is left and the growth to come add
  up to the planned size after every packet; a rebuild that begins cannot fail.
* `OnlyTheTargetChanges`, `SamplesStay`, `ProjectionHolds`: the frame
  that comes out against the one that went in, the samples and a second plan, and the
  capacity account.
* `EditsFollowPlans`, `SpeechFollowsPlans`: with a plan that was granted a rebuild
  fails only for the workspace or the output being short, and its result has the
  planned size; a plan of another state is refused or as good as a new one; new
  sounds can be edited like any other; speech edits of different slots commute.
* `EditsImplementBackup`, `SpeechImplementsStore`: the refinements; what comes out is
  what was asked for, where it was asked for, and no more. The first also
  says that the capacity account grows by the blocks of the new record and only then.
* `MemoryIsKept`: nothing that is read was written before it, the result is whole, and
  regions that share nothing are never refused.
* `StereoWiresArrive`, `BitsArrive`: a waveform does not depend on chunks and resets,
  and its wire or bits are decided, none invented. `StereoCandidatesOnce`: no
  candidate is skipped or given twice, also when the caller's buffer was too small,
  and the one-shot search finds one of them or asks for the room it needs.
* `PacketsReturn`, `PayloadsReturn`, `SampleBytesSettle`: whatever a decoder takes its
  encoder writes, the same but for what was set; levels are nearest ones.
* `ImportIsFaithful`, `ImportEnds`: the patch is a function of what the lines say and
  not of the order of the two passes; every text is read to an end.
* `ChunksDoNotShow`: every sample of a hit or a speech is the one a fresh voice would
  make in one piece; lengths and record ends are exact; a failure stands until reset.
* `ConversionHearsAll`, `AnalysisSpansTheSound`: sizes do not wrap, no input sample
  is left out or weighed less often than its neighbours, windows stay in bounds, and a refused sound
  leaves nothing half made.

## 5. Proofs

| theorem | module | says |
| --- | --- | --- |
| `PacketReadsBack`, `TailReadsBack` | `POWire_proofs` | a written packet or tail is read as what was written, and leaves the same running state |
| `PacketWritesBack` | `POWire_proofs` | whatever the reader accepts is what the writer writes for it |
| `PacketAsTail` | `POWire_proofs` | a written packet is taken for a tail exactly when it is empty and has the markers for a tag |
| `DemodTypeCorrect` | `Po32Decode_proofs` | `Spec => []TypeOK` |
| `PacketOffsetsTile` | `Po32Decode_proofs` | `Spec => []OffsetsTile` |
| `StreamIsParse` | `Po32Decode_proofs` | `Spec => []StreamMatchesParse` |
| `StoppedForGood` | `Po32Decode_proofs` | `Spec => StopIsTerminal` |
| `SilentAfterLoss` | `Po32Decode_proofs` | `Spec => NothingAfterLoss` |
| `WorkBufferNeverFills` | `Po32Decode_proofs` | the overrun branch of the byte handler is dead code |
| `BuilderTypeCorrect`, `BuilderStaysInBuffer` | `Po32Decode_proofs` | `BuilderTypeOK`, `BufferFits` |
| `BuilderReadsBack` | `Po32Decode_proofs` | `ReadsBack` |
| `FramesReadBack` | `PoFrames_proofs` | `BracketedReadsBack` of a PO-33 or PO-35 builder |
| `LinkIsDemod`, `DecodeIsDemod` | `Po32Decode_proofs` | `LinkSpec => Spec`, `DecodeSpec => Spec` |
| `CleanBytesAreKept` | `Po32Decode_proofs` | `LinkSpec => []CleanBytesKeepSync` |
| `LinkKeepsOffsets` | `Po32Decode_proofs` | `OffsetsTile` and `StreamMatchesParse` of `LinkSpec`, which the run `link` checks |
| `ReportsAreTrue` | `Po32Decode_proofs` | `DecodeSpec => []ReportIsTrue` |
| `TheBuilderFollows` | `Po32Decode_proofs` | `DecodeSpec => []BuilderFollows` |
| `EditorTypeCorrect`, `EditorKeepsSlotsSound`, `EditorKeepsInSync`, `EditorLeavesNoGhostAccent` | `Po32Pattern_proofs` | type, `SlotsAreSound`, `InSync`, `NoGhostAccent` |
| `TopologyTypeCorrect`, `SpansAreInOrder` | `Po33Topology_proofs` | `TopologyTypeOK`, `SpansInOrder` |
| `RequirementsHold` | `Po33Topology_proofs` | `RequirementsAreExact` |
| `GrantsAreUnambiguous` | `Po33Topology_proofs` | `GrantedPlansAreUnambiguous` |
| `TheTwoPlansAgree` | `Po33Topology_proofs` | `PlansAgree` |
| `RecordsHold` | `Po33Topology_proofs` | `TopologySpec => []RecordsAreExact` |
| `EditTypeCorrect` | `Po33PoolEdit_proofs` | `EditSpec => []EditTypeOK` |
| `SizesHold` | `Po33PoolEdit_proofs` | `EditSpec => []PlannedSizesAreExact` |
| `OnlyTargetHolds` | `Po33PoolEdit_proofs` | `EditSpec => []OnlyTheTargetChanges` |
| `SamplesHold` | `Po33PoolEdit_proofs` | `EditSpec => []SamplesStay` |
| `AccountHolds` | `Po33PoolEdit_proofs` | `EditSpec => []ProjectionHolds` |
| `RegionsAreRespected` | `Po33Topology_proofs` | `MemoryIsKept` |

**Assumptions.** Only those the modules name. The preamble is a sequence of
bytes no shorter than the sync pattern, and the work buffer holds at least the
longest packet (`WorkAssumption`: 280 >= 216 in the code); capacities, pattern
sizes and inputs have their types. The demodulator's theorems are about
`Po32Demod` alone, where every bit and every reply is arbitrary: they hold for
every signal, every callback and every caller. Those of `Po32Link` and
`Po32Decode` hold for every broadcast of packets of the format
(`BroadcastAssumption`), every number of faults and every stride; those of
`Po33Topology` for every set of packets with byte payloads, every header and
block length. Those of `Po33PoolEdit` hold for every frame of packets with byte
payloads, every record index, every run of samples and every output room
(`CallerAssumption`), also when the caller changes samples or frame between the
plan and the rebuild, and for every size of preamble, range, block and packet
with which the 17 packets per block of the code are the number a block is cut into
(`SizesAssumption`). `FramesAssumption`: the length of the counter and the capacities
are numbers, a packet has a 16-bit tag and any number of bytes.
`AliasesAssumption`: addresses and sizes are numbers, and the returned length is
an object that takes some room (a `size_t`).

The type invariants `TypeOK`, `BuilderTypeOK` and `PatternTypeOK`, and `SlotsAreSound`,
are proved only and no run repeats them: the theorems hold for every value of the constants.

**The byte layer.** A packet is read back because reading undoes whitening byte
by byte and both ways run through the same states; a number of two bytes is its
halves. That a packet is also the *only* string that reads as it needs the other
direction, from coded bytes to raw ones and back. The recursive functions of
`POWire` exist and stay in their sets by `RunExists` and `RunStaysIn`; those rest
on `NatSetInduction`, a principle of induction stated for sets, since the
library's, which has an operator for a parameter, cannot be used here.

**The demodulator's inductive invariant** is `DemodInv`: `TypeOK` and
`OffsetsTile` are not inductive by themselves. A packet is complete only when the
work buffer has *exactly* its length, so its offset is right only if no byte can
be missed or doubled between the counter and the buffer; that needs
`ByteFits` (the accumulator is below the weight of the next bit, so that a
finished byte is a byte), `WorkHasRoom` (an incomplete packet is shorter than the
work buffer, from the header test and `MaxPacketBytes`, so the branch that drops
a full buffer is never taken), `LossUnlocks` (a lost lock is not a lock) and
`StopRests` (a stopped demodulator stands at a byte boundary, or one bit past
it with no symbol pending: this is why a flush that does not look at `stopped` still hands nothing
over). `StopIsTerminal` and `NothingAfterLoss` follow from the last two, one step
at a time.

**The stream is the parser** (`StreamInv`, relative to `DemodInv`). After as many
turns as there are packets delivered, the parser's loop on the bytes heard stands
behind the last of them with those packets and, while the lock holds, in the
running state of the demodulator; what is left is the work buffer. The bytes
there are neither a tail nor a packet, because each of them was looked at when it
came (`NeedsMore`: what is still missing is decided by the first byte and the
header). The lemmas about the loop say that bytes which come later do not change
its earlier turns.

**The builder's** two bounds are inductive together (`BuilderInv`): the room
for a packet is tested against the length its writing will have, and that length
is a fact about what is written (`WritePacketType`, `WriteTailType`). For
`ReadsBack`, `BackInv` says that the parser's loop on what has been written takes
the packets appended one by one up to the first that no parser knows, and there
stands before that packet, the tail, or nothing. A packet of the tail's shape is
the case `PacketAsTail` singles out.

**Frames of the PO-33 and the PO-35.** `FramesInv` says how a buffer is laid out
(`Framed`): behind the counter every packet begins where the one before ended and is
what the writer writes for it from the state after that one; a finished frame then
ends with the tail, or its last packet is END. The layout decides where the parser
stands after each round, over any bytes that agree with the buffer as far as it has
read (`RunTakes`): over the buffer cut short, where the next packet or tail is too long
to be read (`CutShort`, `CutNowhere`), and over the buffer with other bytes behind it,
which are never looked at (`StopsAt`, `FinishesFrame`). No whole packet is misread as a
tail, because the PO-35's builder refuses the tail's tag and `PacketAsTail` says that no
other has its bytes. That the layout is kept is `LaidAppend`, `EndCompletes` and
`TailCompletes`, one for each thing a builder writes.

**Clean bytes.** The listener steps only as the demodulator does (`LinkIsDemod`:
its guards depend on the recording, its effect does not). Bytes heard since the
preamble that begin a body somebody sent are never rejected: the parser, and so
by `StreamInv` the stream, finds in a prefix of a body exactly the packets that
are whole, and what is left begins the next packet or the tail, whose first
bytes pass every test the byte handler makes on an incomplete packet.

**The one-shot decoder** is demodulator and builder together. `DecodeInv` keeps
the invariants of both, and that all packets filed are of a kind the parser
knows (the demodulator delivers no others), so the finished frame falls under
`BackInv` with nothing after its packets but the tail. `FollowInv` says that on
the first lock what was heard is what has been written and then the work buffer
(`Together`): a packet delivered was read from exactly the bytes the builder
writes for it, by `PacketWritesBack`.

**The editor's** invariant is `PatternTypeOK`, `SlotsAreSound` and `InSync`
together. The arithmetic of the slot index (distinct pairs have distinct slots)
is a lemma.

**The sound stream.** `ParseInv`: `parse` is what parsing the packets received
from the start gives, with a stream in order: every span begins at or after the
end of the one before and ends at or before the place reached. Types and order
follow. The two plans are compared on any list of records of these types: the
counters of the measuring passes, which stop at two, are the numbers of owners and of
records that name a selector, cut off at two (`RunTheorems` for the induction
over the records), and a selector owned once is where the topology finds its
pool. What is granted has been counted by both.

**The records of a frame.** `RecordsAreGroups` says what the parser has recorded from
the packets as a whole: each selector packet with the data and other packets up
to the next one. `GroupsInv` says it of a prefix, and of the group still open: the
selector it began with is the last one before the place reached, its data are
those of the packets since, its prefix of the header is cut from them. It is
inductive turn by turn (`ParsedAt`, one turn of the parser's loop), and END closes
the last group.

**The sizes of an edit.** `EditInv`: between the calls nothing is built; while a
rebuild runs, the plan is the plan of that very frame, record and samples, since it
was made again and compared, the builder has room for the planned size, and
what is written, what is left of the old frame and what is still to grow
add up to it. The last holds because a granted plan is for a pool that stands in
one piece (`GroupsInv` again), so that the packets of the target are counted to
exactly its length, its last packet is met, and the growth is written then, once;
and because what the loop over blocks writes is what the plan's multiplication says.

**Only the target changes.** `RetellInv` adds that what has been written *retells*
the packets handed over (`Tracks`). Two parsers are run side by side, one on the old
frame up to the packet reached, one on what has been written for it. Before the
target's data they are in the same state. Inside it (`Inside`) the new one has
gathered as many bytes, with the header rewritten as the edit writes it. The growth
packets are read by the new parser alone (`GrowthRun`). Behind them (`Past`) every
position is the old one plus the growth, the target's record is longer by
it, and the records finished correspond one to one (`SeenMoves`). The parser's turns
on a prefix do not depend on what follows (`ParsedPrefix`), so at END both are
exact, and `RecordsMove` carries the correspondence to the topology: selectors,
sources and owners are the same, so each record leads to the same pool.

**The samples arrive.** `RetellInv` also says place by place what has been written
(`Fills`): the packets before the target as they were, those of the target as long
as they were and carrying the samples from where each of them stands in the pool
(`Carries`), then the growth, whose chunks begin where the ones before ended
(`NextChunk`). That the same edit is granted again (`EditSettles`) follows from
`SeenMoves`: records of one shape are judged alike (`SameJudgement`), a grant is a
condition on the records alone (`GrantedIs`, for all six objections), and a growth
is made of whole blocks, so that what was required is there. The place of that
second plan tells where the new pool lies; packet by packet it is the one written
(`PoolFilled`), and its length is the length required.

**The account.** The two capacity reports are sums and counts over the records. By
`SeenMoves` the records keep selectors, sources and owners, and only the target's
size changes (`SizesStay`), so the totals differ by what its pool was and is rounded
up to (`TotalsDiffer`, an induction over the records). That the new frame
can be measured at all needs its packets: `Fills` says that what is no data among
them stands in the old frame, in the same order (`MarksStay`), so that no selector
is doubled and nothing foreign has come behind one.

**Memory.** `AliasInv`: a call that got past the tests has regions that share
nothing it may write; whatever was written lies in one of the regions that may
be written, and only then; so what is read is as the caller left it.

**Only model-checked**, with the reason:

* liveness (`Recovers`, `ImportEnds`): temporal reasoning under fairness needs
  ENABLED, which the prover does not do.
* `OneLockReturnsTheFrame` and `ImplementsLink` depend on the check value telling
  a spoiled frame from a sound one. That is true of given transmissions with one
  fault and not of all.
* `EditsFollowPlans` and `SpeechFollowsPlans` with the refinements: they sum, flatten
  and group sequences with operators of the community modules that are defined by folds
  over an operator parameter, which the solvers do not see through.
* `PatternsReturn`, and the properties of the modems, the
  codecs and the sound parts: not tried yet.

## 6. Findings

`decode_offsets`: `docs/api/PO32.md` says of `packet->offset` that it "matches
the offset `po32_builder_append_packet(...)` reports for the same packet, so it
can be used to index a reconstructed frame". Within one `po32_decode_f32` call a
lock may be lost and found again. The demodulator then counts bytes and packets
from the new preamble, but the packets of the abandoned lock have been filed and
stay in `out_frame` in front of the new ones. The call succeeds, the frame is
well formed (`ReportIsTrue` holds), but its packets are those of two
transmissions, `packet_count` counts only the last, and the offsets reported by
the demodulator are not offsets into it.

## 7. Plan

Modelled and checked: every component of the library (sections 2-4). Proved: the
PO-32 from the byte to `po32_decode_f32`, the editor, the frames of the PO-33 and
the PO-35, the topology and plans of the PO-33 with the records they are made from, the pool edit (every invariant its run
checks), the memory of a call. Still to be proved, in order of importance:

1. **Pattern codec**: `PatternsReturn`, from the slot arithmetic already proved.
2. **Refinements**: `SpeechImplementsStore`, `EditsImplementBackup`, step by step.
3. **All or nothing**: `RefusedIsZero` of `Po32PatchImport`, `WholeOrNothing` of
   `Po33Audio` and `Po35Analysis`.
4. **Stereo modulator**: the phases against their closed form.

Modules with parameters that only an instance fixes state their assumptions as a
definition (`...Assumption`), which the `MC` module assumes of its instance; the
modules that theorems are about state theirs as an ASSUME.

## 8. Not modelled

The values of floating-point code: the oscillator and correlator of the PO-32
modem, the filters, pilot and waveform of the stereo modem, the sources, filters
and tables of both synthesisers, the weights of the resampler, linear prediction
and pitch in the speech analysis, the curves of the patch import and the
approximations in `po_math_internal.h` and `po32_param_maps.h`. Their
correctness is accuracy; what they remember from call to call is modelled.

The hosted tools in `examples/` (capture, comparison, transfer verification, WAV files, the
pattern editor), the tests and the fuzzers: file and terminal input and output
around the library. `NULL` and most `INVALID_ARG` paths, which return before any
state is touched; sums beyond `SIZE_MAX` in the PO-33 and PO-35 plans.
`po32_demodulator_init` called from inside a callback, which nothing in the
documentation provides for.
