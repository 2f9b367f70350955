# TLA+ models of the xz library

This directory specifies and checks the parts of the library whose correctness
depends on order: goroutines and channels in the parallel reader, chunk
boundaries in the LZMA2 writer, buffers that wrap and grow, and files that end
or break half way. The models are translated from the Go code in `src/`, not
from its documentation; `PROJECT.json` maps every definition to the lines it
stands for, and lists the hazards, the runs and the theorems.

## The system

| Part | Files | State | Operations | What makes it hard |
|---|---|---|---|---|
| Parallel reader, pipeline | `parallelreader.go` 520–1010 | error, `started`, channels `jobs`, `queue`, `done`, `bufPool`, one result channel per block | `Read`, `WriteTo`, `Close`, dispatcher, workers, cleanup | any interleaving; Close from another goroutine; buffers recycled under the consumer; results out of order |
| Parallel reader, parse | `parallelreader.go` 60–520 | list of blocks | `parseBlocks` backwards from the footer | records trusted before their blocks are seen |
| xz Reader | `reader.go` | stream, block and index position | `Read` | where the input may end; index after blocks; padding and further streams |
| xz Writer | `writer.go` | block under construction, records, `closed`, error | `NewWriter`, `Write`, `Close` | a write may fail anywhere; block split |
| Format pieces | `format.go`, `bits.go` | none | marshal, parse, sizes | padding and varint lengths |
| LZMA2 filter | `lzmafilter.go` | cached `Reader2` | reader, writer factories | state left over from the previous block |
| LZMA2 writer | `lzma/writer2.go`, `encoder.go`, `encoderdict.go`, `bytewriter.go` | chunk state, snapshot of coder state, dictionary, limited writer | `Write`, `Flush`, `Close` | three limits at once; stored or compressed; roll-back |
| LZMA2 reader | `lzma/reader2.go`, `header2.go` | chunk state, decoder, dictionary | `Read`, `Reset` | chunk types decide what is reset; truncation between chunks |
| Decoder dictionary | `lzma/decoderdict.go`, `buffer.go` | circular buffer, growth threshold | `Write`, `WriteByte`, `writeMatch`, `Read`, `Reset`, grow | overlap, wrap and growth in one call |
| Range coder and codecs | `lzma/rangecodec.go`, `state.go`, `*codec.go` | low, range, cache; probabilities | encode, decode a bit, an operation | carry, space accounting |
| Matcher | `lzma/hashtable.go`, `matchalgorithm.go`, `internal/hash` | hash table, chains | `NextOp` | ring next to a ring |
| Classic LZMA | `lzma/reader.go`, `writer.go`, `header.go` | size left, end marker | `Read`, `Write`, `Close` | known and unknown size |

How they interact: `Writer` opens a block and writes through `Writer2`, which
drives the encoder, its dictionary and the range coder; when the block is full it
closes it and records its sizes for the index. `Reader` parses the same pieces
forwards and decodes each block with a `Reader2` that it resets from block to
block. `ParallelReader` first parses the file backwards to find the blocks and
then decodes them concurrently with the same block decoder.

## The modules

| Module | Models | Kind |
|---|---|---|
| `ParallelReader` | the pipeline of `parallelreader.go` | state machine |
| `DeliveryContract` | what a sequential reader promises its caller | abstract specification, implemented by `ParallelReader` |
| `ParallelTypeProofs`, `ParallelBufferProofs`, `ParallelReaderProofs`, `ParallelPlaceProofs`, `ParallelMemoryProofs`, `ParallelContractProofs` | theorems about the two, each extending the ones before | TLAPS |
| `DecoderDict` | dictionary and circular buffer | state machine |
| `Dictionary` | a dictionary allocated in full, without indices | abstract specification, implemented by `DecoderDict` |
| `ChunkState` | chunk types, the automaton, header lengths | operators |
| `Writer2` | the LZMA2 writer | state machine |
| `Reader2` | the LZMA2 reader | state machine |
| `LZMA2Stream` | `Writer2` and `Reader2` on a pipe | composition |
| `XZFormat` | pieces of a file and their sizes | operators |
| `XZWriter`, `XZReader` | the sequential writer and reader | state machines |
| `BackwardParse` | `parseBlocks` and what each block must satisfy | operators |
| `XZRoundTrip` | writer, then both readers, on what it left | composition |
| `MC…` | small instances | for TLC |

Definitions marked `Mutant:` stand before the definition they alter. Each is a
plausible slip in that code (a missing guard, an off-by-one, a skipped
roll-back); no specification uses them. They exist to show that the property
named with them in `PROJECT.json` would notice.

### ParallelReader

The dispatcher (`disp`, `next`), every worker (`wpc`, `wblk`, `wres`), the
consumer inside `Read` or `WriteTo` (`rpc`, `rblk`, `cur`, `curPos`, `rerr`) and
every `Close` (`cpc`) have a control variable each. A step is what one goroutine
does between two points where another could tell: a send, a receive, a select
case, a critical section under `mu`, or a use of a shared buffer. A select with
several ready cases is a disjunction. `queue` is a sequence of at most
`workers+2`, `jobs` is a rendezvous (`Handoff`), each `result` channel holds one
value, `done` is a flag that is only ever set.

Bytes are numbered, so order and loss are visible: block `b` holds the bytes
`Offset[b]+1 .. Offset[b+1]`. A buffer is an identity and the block last decoded
into it; delivering from a buffer delivers *what the buffer holds at that
moment*. Decoding a block is four steps (header, getBuf, fill, check), each of
which may fail for the blocks in `Faulty`. A panic in a block is the same path as
an error, as `decodeOne` recovers. `getBuf` and `Fill` replace a pooled buffer
that is too small: which buffers are too small for a block is free for the blocks
in `Large`, and never happens to the others. The writer given to `WriteTo` takes
any part of what it is handed and may fail with any of `WriteErrs`; an `io.EOF` of
its own (`"writeEOF"`) is no longer told apart once `setErr` has recorded it
(`Recorded`).

### Writer2, Reader2, LZMA2Stream

The coder state is the history of operations since its last reset, which is
exactly what it is a function of. A chunk record carries the state its encoder
started from; a decoder that starts anywhere else decodes garbage. Which
operation the matcher picks, and how many bytes the range coder spends on it, is
a free choice from `Ops`. The dictionary is two counts: what it holds of the
history and what is buffered. Any write to the underlying writer may fail, with
part of the chunk taken.

### DecoderDict

Cells and indices as in the code, including the doubling copy of the fast path of
`writeMatch` and the runs of the slow one. `Dictionary` has no indices: its
window is the last `DictCap` bytes. The refinement maps the buffer to it.

### XZFormat, XZWriter, XZReader, BackwardParse, XZRoundTrip

A file is a sequence of pieces (header, block header, data, check, index, footer,
padding), each with its length, whether its own magic or CRC holds, and whether
the file ends inside it. Sizes are real: the lengths of padding and varints are
computed as the code computes them, since block offsets depend on them. The
contents of a piece are its fields. A write of the `Writer` that fails may have
taken none, some or all of the piece; a stream is `Whole` once its footer is out,
which a failing last write may also have achieved. Bytes parsed where the file has
something else, the rest of a check that the stream's flags do not announce, say,
fail one way or the other, and the reader's error is a choice.

## What is checked

Every passing run is exhaustive for its bounds.

| Run | Module | Shows |
|---|---|---|
| `pr_read` | `MCParallelReader` | 2 workers, blocks of 2, 0 and 1 bytes, the first two possibly failing, `Read` of up to 2 bytes and `WriteTo` in any mix: bytes in order (`InOrder`), an end of data is complete (`CleanEndIsComplete`), one owner per buffer (`BufferOwnership`), and the contract (`MeetsContract`) |
| `pr_live` | `MCParallelReader` | 1 worker, 5 blocks, so the queue fills and the dispatcher waits, with a Close, or the reader dropped, at any moment: quiet after Close (`QuietAfterClose`), memory in flight bounded (`BuffersBounded`), `Read` and `WriteTo` return (`CallsReturn`), Close returns (`CloseReturns`), goroutines exit once the reader has ended, failed, been closed or been dropped (`GoroutinesExit`) |
| `pr_close_eof` | `MCParallelReader` | violation, finding 1 |
| `pr_writer_eof` | `MCParallelReader` | violation, finding 2 |
| `pr_stop_takes` | `MCParallelReader` | violation, finding 3 |
| `dict_grow` | `MCDecoderDict` | growth 1 → 2 → 4 and wrapping: nothing has wrapped while growth is possible, and growing cannot be observed |
| `w2` | `MCWriter2` | chunks fit their header fields, no internal error or panic, no gap, nothing written after a failure, flush writes all, calls return |
| `w2_limit` | `MCWriter2` | violation, finding 4 |
| `r2` | `MCReader2` | every sequence of up to 4 chunk types (cut short or not) then a Reset onto up to 2: illegal types and only those are refused, data is the sequence's own, a clean end is whole, calls return |
| `lzma2` | `MCLZMA2Stream` | round trip through the pipe, the reader ends as the writer did, both sides in step |
| `xzr` | `MCXZReader` | both readers on every small file with at most one thing wrong |
| `xzrt` | `XZRoundTrip` | the writer with one write failing anywhere, with none, some or all of it taken, and what both readers make of the result |

Bounds, and why they are enough for the cases at hand:

- *Workers, blocks.* Two workers are the least that can finish out of order; an
  empty block exercises the loop that takes a second block within one call; two
  blocks that may fail let the later one fail first. The queue of one worker holds
  three blocks, so with five the dispatcher waits for room, and a Close or a dropped
  reader must reach it there. More of each is covered by the proofs, liveness
  excepted.
- *Chunk limits.* `MaxUncompressed`, `MaxCompressed` and the dictionary are
  scaled down so that each of the three can be the one that ends a chunk. As in the
  code a chunk takes more input than compressed bytes (16 to 14), so a chunk of
  matches may hold more than the size field of a stored chunk, whose 16 bits are
  those of `maxCompressed`, could express. In `w2` the dictionary
  (`DictCap + BufSize` = 15) can hold such a chunk, and is still smaller than the
  largest, so that a chunk's first bytes may be gone when it would be stored; a
  buffer of one longest match is the least `Verify` admits. In `lzma2` stored
  chunks alternate with compressed ones and the state is rolled back. An operation of `w2` and `lzma2` costs at most
  `Margin - CloseLen` bytes, so that closing the range coder has room; `w2_limit`
  lets one cost all of `Margin`. The scale keeps `BufSize >= MaxMatchLen` and
  `MaxCompressed >= CloseLen + Margin`, as in the code.
- *Dictionary.* Capacities 1, 2 and 4 give two growths and a full-size ring;
  matches of length 4 at distance 1 double twice; `MaxHead` lets every cell be
  overwritten after the last growth.
- *Files.* Up to two blocks in a stream and two streams, with sizes chosen so that
  padding and varint lengths differ between them.

`MaxRead`, `MaxInput`, `WriteSizes`, `MaxFill`, `MaxHead`, `MaxWrite` and the
buffers in `BufIds` are bounds of the models only, and `Large` keeps the choice of
buffer to the blocks where it matters. Symmetry is used for the
workers of `pr_read`, which checks no liveness.

Fairness: weak fairness of each goroutine's own steps (`DispatcherStep`, each
`WorkerStep`, `ConsumerStep`, each `CloserStep`, the runtime's `Cleanup`), which
the Go scheduler gives a goroutine that stays runnable, and of the steps inside a
call of the sequential parts. Nobody is assumed to call anything. The consumer's
caller and the underlying reader or writer are assumed to return.

Deadlock is checked except where the modelled caller may stop for good: a closed
or abandoned reader (`pr_live`), a finished read (`xzr`, `xzrt`).

## What is proved

For every finite non-empty set of workers, any number and size of blocks, any
buffers, faults and concurrent Closes, `ParallelReaderProofs` and
`ParallelMemoryProofs` prove:

- `TypeCorrect`: `Spec => []TypeOK`
- `DeliversInOrder`: `Spec => []InOrder`
- `BuffersHaveOneOwner`: `Spec => []BufferOwnership`
- `CloseIsQuiet`: `Spec => []QuietAfterClose`
- `MemoryIsBounded`: `Spec => []BuffersBounded`

and `ParallelContractProofs`, when no `Close` runs concurrently (`Closers = {}`)
and the caller's writer does not fail with `io.EOF` (`"writeEOF" \notin WriteErrs`):

- `EndIsComplete`: `Spec => []CleanEndIsComplete`
- `ImplementsContract`: `Spec => MeetsContract`, the refinement of
  `DeliveryContract`.

Both assumptions are necessary: `pr_close_eof` refutes the first of the two with
one Close, `pr_writer_eof` with such a writer.

Assumptions: `BlocksAssumption` (offsets start at 0 and never decrease, which
`parseBlocks` establishes) and `ProcessAssumption` (buffer identities are
positive, `Faulty` and `Large` name blocks, `WriteErrs` errors). TLC evaluates both.

The argument. None of the properties is inductive alone. `InOrder` needs to know
that the current buffer still holds the consumer's block and that what has been
delivered ends where the consumer stands in it (`PositionInv`); that needs
results to hold their own block's bytes (`ResultInv`), which needs the same of
the worker that reports them (`WorkerInv`), and all three need that the only step
which changes a buffer, `Fill`, has it to itself, which is `BufferOwnership`. That
the next block is the one due needs the queue to be the run of blocks from the
consumer's to the dispatcher's (`QueueInv`). `QuietAfterClose` needs that a Close
past its critical section has left an error that keeps `begin` from starting
anything (`CloseInv`, `StartInv`). `IInv` is their conjunction, and each conjunct
has a lemma with one case per action (`ParallelTypeProofs`, `ParallelBufferProofs`,
`ParallelReaderProofs`).

`BuffersBounded` is a count. A buffer outside the pool belongs to a block from the
one being read to the last one queued, and no two to the same block: the blocks of
workers, of results and of the consumer are distinct, and none lies outside that
span (`SpanInv`, `PlaceInv`, in `ParallelPlaceProofs`). The span is one longer than
queue's capacity, and `getBuf` adds a buffer only when the pool is empty: one that is
too small is dropped for its replacement.

For the contract, `EndInv` adds why the
pipeline may be stopped (`StopInv`), that a dispatcher that was not stopped passed
every block on (`DispatchedInv`), and what an error on its way to the caller, or
an answer, says about the bytes delivered (`CauseInv`, `AnswerInv`).

Only model-checked: liveness (outside the prover's reach) and everything about the
other modules. What
`FastCopy`, `SlowCopy`, `IndexLen` and the other recursive functions compute for
every input would need induction over data, which the prover cannot do.

## Findings

1. `pr_close_eof`, `parallelreader.go:921`. After `Close` has set `done`, the
   dispatcher may exit and close `queue` with blocks undispatched. A `Read` then
   in `nextBlock` finds both the closed queue and `done` ready; if the select
   takes the queue, `Read` reports `io.EOF`, and `WriteTo` success, with data
   missing. `parallelreader.go:907` and `contract_parallel_close_test.go:47` say
   otherwise.
2. `pr_writer_eof`, `parallelreader.go:856`. A writer that fails with `io.EOF`
   under `WriteTo` (a pipe whose reader was closed with that error) leaves `io.EOF`
   as the reader's own error. The call itself reports it; from then on `Read`
   reports `io.EOF` and `WriteTo` success, with data undelivered, for the reason
   `parallelreader.go:819` gives: "An exhausted reader has nothing left to write".
   It is not exhausted.
3. `pr_stop_takes`, `parallelreader.go:589`. The dispatcher's select may prefer
   `jobs` to `done`, so workers may take up blocks after `stop`;
   `parallelreader.go:868` and `:876` say that they finish the block in hand.
4. `w2_limit`, `lzma/rangecodec.go:105`. `bytewriter.go:13` says that `errLimit`
   does not reach a caller. That rests on how many bytes one operation can take:
   `encoder.go:19` gives `opLenMargin` as the upper limit, and an operation that
   attained it would leave too little for the range coder's `Close`, whose
   `errLimit` is returned and recorded. The run takes the limit as attained, by a
   match. An upper limit need not be attained: both comments hold if the longest
   operation of the real coder stays five bytes below it, which is a question of the
   coder's arithmetic and is not modelled. A literal stays far below it; only a long
   match at a great distance could come near.

## What is not modelled

- The bytes of headers, footers, varints and block headers (their sizes are), and
  the arithmetic of checksums: whether a check holds is a field of the piece.
- The range coder's arithmetic, the probability models and bit-tree codecs, and
  the matcher: a chunk's operations are a free choice.
- Classic LZMA (`lzma/reader.go`, `lzma/writer.go`).
- Errors of the underlying reader, other than its end; calls to `Reader.Read`
  after it has returned an error; declared sizes near 2^63.
- `internal/randtxt`, `internal/lzmaspec`, `internal/upstreamdiff`, `example.go`:
  test support.

## What would come next

In the order of how much could go wrong unnoticed: the range coder on a scaled word
(carry through a run of `0xff`, and the number of bytes an operation can cost, which
decides finding 4); the rep distances and the twelve states, encoder against decoder;
the encoder dictionary and the hash-chain matcher; classic LZMA; `lzma2Cache` and
`Reader.Read` after an error; proofs for `Writer2` (`Contiguous`, `ChunksFit`) and
`DecoderDict` (`NotWrappedWhileGrowing`).
