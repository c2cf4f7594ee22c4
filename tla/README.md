# Verification of the liblzma port

The repository holds two implementations of one library and the program on top
of it: `src/original` is XZ Utils 5.4.5 in C (liblzma, `xz` and small tools),
`src/safe` is a Rust port of liblzma behind the same C interface. The port
translates the C library closely, rewrites its threaded coders and replaces the
LZMA codec by a vendored crate. This directory models both: what the port does
in its own way from the Rust text (`StreamState`, `OutQueue`, `EncoderMt`,
`BlockDecoder`, `DecoderMt`), everything else from the C text, which is also
what the translated Rust modules have to agree with. TLC checks the models on
small instances; TLAPS proves theorems about the core for every value of the
constants. `PROJECT.json` maps each definition to the lines it stands for.

Paths of Rust files are relative to `src/safe/src/internal`, those of the C
library to `src/original/src/liblzma`, those of the program to
`src/original/src/xz`.

## 1. The system

| Component | Source | State | Operations | Correct when |
|---|---|---|---|---|
| Stream protocol | `stream_state.rs` | sequence, saved `avail_in`, supported actions, `allow_buf_error`, coder | init, `lzma_code`, `lzma_end` | a flush keeps its action and input; BUF_ERROR is the second fruitless call; a dead stream stays dead |
| Output queue | `container/outqueue.rs`, `common/outqueue.c` | FIFO of buffers, cache, memory counters | prealloc, get, read, take_head_worker, clear_cache | output in order, each buffer once, memory accounted |
| Threaded encoder (Rust; C) | `container/stream_encoder_mt.rs`; `common/stream_encoder_mt.c` | shared state, one state per worker, sequence and Index of the application's thread | code, update, get_progress, worker loop, shutdown, in C re-initialisation | Blocks whole, in order, once; no thread lost; calls return |
| Threaded decoder (Rust; C) | `container/stream_decoder_mt.rs`; `common/stream_decoder_mt.c` | the same, with memory limits and partial output | code, memconfig, worker loop, shutdown | what one thread would deliver; memory within the limit; calls return |
| Stream and Block coders | `common/stream_{en,de}coder.c`, `block_{en,de}coder.c`, headers, `index_hash.c` | sequence, position in the current field, sizes | code, update | output independent of how input and output are cut; nothing damaged accepted |
| Block coder, Rust | `block/coder.rs` over `upstream.rs` | source, output read ahead, target sizes | code | ends with the Block exactly; loses and repeats nothing |
| Other containers | `common/{alone,lzip,auto,microlzma}_*.c` | position in the header, chosen coder | code | the same, and format detection |
| LZ and LZMA coders | `lz/*`, `lzma/*` | window, hash chains and trees, price tables, range coder, dictionary | code, flush, option updates | the decoder reads what the encoder was given |
| Delta and branch filters | `delta/*`, `simple/*` | history; bytes held back | code | inverse to each other in any pieces |
| Index | `common/index*.c` | Streams, groups of Records, running sums, iterators | append, cat, dup, iterate, encode, decode, hash | sizes and offsets are sums over the list, without overflow |
| File info decoder | `common/file_info.c` | where in the file, what is still to read | code with seeks | all Indexes of a file, from its end, in any pieces |
| Buffer-to-buffer functions | `common/*_buffer_{en,de}coder.c` | none | one call | all or nothing; the promised bounds suffice |
| Filter chains, filter strings | `common/filter_*.c`, `common/string_conversion.c` | none | validate, flags, to and from text | round trip, exactly the valid chains |
| `xz` | `file_io.c`, `coder.c`, `list.c`, `args.c`, `options.c`, `suffix.c`, `hardware.c`, `main.c`, `signals.c` | descriptors and their flags, buffers, `user_abort`, options, exit status | open, read, write, close, unlink; coding loop; listing; option parsing | no data lost, flags restored, status true, limits kept |

How they interact. `lzma_code` is the only entry to every coder: an initialiser
registers a coder's `code`, `end`, `update` callbacks with the actions it
supports, and `lzma_code` filters what the application may ask and interprets
what the coder answers. Coders nest: Stream over Block over chain of filters
over LZ over LZMA; each consumes from the caller's input and writes into the
caller's room, in any pieces. The threaded coders start worker threads that
share with the application's thread one mutex and condition variable (queue,
free threads, first error, counters), per worker another pair (command, input,
partial output) and in Rust one mutex per output buffer. Commands go to a
worker through its mutex; results come back through the queue. `xz` reads into a
buffer, calls `lzma_code` and writes; signals set `user_abort` and write to a
pipe of its own that wakes `poll`.

What is hard. (1) Every ordering of the critical sections. (2) A call may return
at any wait because of a time-out, and the next one goes on from there. (3) Input
and output are cut anywhere. (4) Workers fail while the application feeds them,
and coders are re-initialised while they run. (5) Memory limits depend on
counters kept by hand. (6) Sums at many levels, each with its own limit.
(7) Iterators into structures that grow. (8) The encoder's window, tables and
symbol statistics must stay in step with a decoder through flushes, option
changes and stored chunks. (9) A system call fails, or a signal arrives, between
any two steps of `xz`.

## 2. Modules

| Module | Models | Role |
|---|---|---|
| `StreamState` | `stream_state.rs` | the `lzma_code` protocol over an arbitrary coder |
| `OutQueue`, `OutQueueUse` | `outqueue.rs`, `outqueue.c` | the queue as operators on a record; driven by any callers that keep to its discipline |
| `OrderedBlocks` | - | abstract: what a Stream encoder promises |
| `EncoderMt` | `container/stream_encoder_mt.rs` | all threads of the Rust encoder |
| `StreamEncoderMt` | `common/stream_encoder_mt.c` | all threads of the C encoder, over `OutQueue` |
| `DecodedFile` | - | abstract: what decoding a .xz file promises |
| `BlockDecoder`, `BlockDecoderUse` | `block/coder.rs`, decoder half of `upstream.rs`, the `read` of the vendored LZMA2 reader | a resumable Block decoder as operators; one Block fed in any pieces |
| `DecoderMt` | `container/stream_decoder_mt.rs` | all threads of the Rust decoder, over `OutQueue`; direct mode over `BlockDecoder` |
| `StreamDecoderMt` | `common/stream_decoder_mt.c` | all threads of the C decoder, over `OutQueue` |
| `Stepwise` | - | loops as operators, used by the modules below |
| `IndexTree`, `LzmaIndex` | `index.c`, `index.h`, `vli_size.c` | the append-only tree; the whole of `lzma_index` |
| `IndexList` | `api/lzma/index.h` | abstract: a list of Streams, every number a sum over it |
| `IndexCoder` | `index_{en,de}coder.c`, `index_hash.c`, `vli_*.c` | the Index field as bytes |
| `FileInfo`, `IndexOfFile` | `file_info.c` | the seeking decoder and its application; the life of an Index, built or read |
| `MatchFinder`, `LzmaEncoder`, `Lzma2Encoder`, `LzmaDecoder` | `lz`, `lzma`, `rangecoder` | match finders, both parsers, chunks, window; dictionary and decoders |
| `Filters` | `delta`, `simple` | the filters in front of LZMA2 |
| `StreamFields`, `StreamCoder` | `stream_flags_*.c`, `block_*.c`, `filter_*.c`, `stream_{en,de}coder.c` | fields around Blocks; single-threaded Stream coders |
| `Containers` | `alone_*.c`, `lzip_decoder.c`, `auto_decoder.c`, `microlzma_*.c`, `*_buffer_*.c` | the other containers; everything in one call |
| `StreamUse` | - | an application that encodes, flushes, changes filters and decodes what arrives |
| `FileIO` | `file_io.c`, `signals.c`, `suffix.c` | files of `xz`, system calls that fail, signals |
| `XzCoder` | `coder.c`, `list.c` | what `xz` does with one file |
| `XzArgs` | `string_conversion.c`, `options.c`, `args.c`, `hardware.c` | chains as text; options, threads, limits |
| `Xz` | `main.c` | the program as a whole |
| `OutQueueLemmas`, `*Proofs` | - | theorems (section 5) |
| `MC*` | - | values for TLC, where a constant is more than a number |

**State.** Variables and fields carry the names of the source where there is
one. In the threaded modules `pc` is where the application's thread is
(`"app"`: outside the library), `ws[w]` is what a worker's mutex protects,
`wl[w]` the worker's own local variables and place. History variables are named
as such; no action reads one, but for bounds.

**Granularity.** In the threaded modules one action is what a thread does while
it holds one mutex, or a run of unlocked code on data of its own; between any
two actions any other thread may run. A notification sent within, or right
after, a critical section wakes the sleeper in the same action; one that is sent
without the mutex its receiver tests under is an action of its own (`Notify` of
`DecoderMt`). In the single-threaded modules a coder is a record, and one call
of `code` is an operator on it; the application chooses pieces and room, so
every way to suspend a coder is a state. `FileInfo` has one action per state of
the decoder, `FileIO` one per system call.

**Data.** In the threaded modules input is a sequence of numbered units, so that
order, loss and duplication are visible; headers, Index, footers and bytes of
Stream Padding are one unit each, and a file says which of them is wrong
(`Flaws`). In the stream modules data are bytes below 4 and really compressed: the
match finders run on a real window, and the bytes that come out are decoded
again. The range coder is abstracted to a queue of symbols, each with the state
it was coded in and how far the probabilities have adapted, so that a decoder
out of step reads something else; prices are a function the model is given.
A CRC is a small digest, a variable-length integer has base 16, little-endian
fields base 8. Constants are scaled (an uncompressed chunk's header takes 2
bytes rather than 3; a group of Records holds 2 rather than 512; a KiB is 2^9;
fields of instructions converted by branch filters are bytes below 4). Of the
filters, one in front of LZMA2 is modelled. `xz` sees liblzma from outside: a
unit x is coded as `Code + x`, a file is a head, Blocks and a foot.

**Abstract specifications.** `OrderedBlocks`: the input accepted is cut into
non-empty Blocks, which come out Block by Block, complete, once, in input order;
the Stream may be finished only when nothing is left inside. `DecodedFile`: what
comes out is at any time a prefix of the file's data up to the first flaw, the
end is reported only at the end, an error of the file only when all sound data
in front of it is out, unless `LZMA_FAIL_FAST` is set. `IndexList`: Streams with
Blocks, joined and walked over, every number the sum it should be. The detailed
modules are shown to implement them (`INSTANCE ... WITH` and a property).

## 3. Runs

| Run | Instance | Distinct states | Question |
|---|---|---|---|
| `lzma_code` | 0..2 units of input, encoders' and decoders' action sets, any answers but BUF_ERROR | 1 176 | does the protocol keep flushes, BUF_ERROR and dead streams as documented? |
| `out_queue` | 2 buffers, sizes 1 and 2, 4 jobs, reads of 0, 1, 3 | 4 720 | does the queue with its cache stay within its bound? |
| `encoder` | 2 threads, 2 units, Blocks of 2, chunks of 1, all flushes, failing allocations and encoders, incompressible Blocks, time-outs that need not come, 2 chains | 125 546 | Rust encoder: are Blocks in order and whole, flushes complete, and do calls return? |
| `encoder_lost_job` | 1 thread, 2 Blocks of 1 | - | does FINISH end? (it does not: section 6) |
| `encoder_c` | 2 threads, 5 setups: time-outs, flushes with changing filters, more Blocks than threads, failures, re-initialisation | 244 182 | C encoder: are threads, filters, Blocks and progress right, does FINISH end? |
| `block_decoder` | Blocks of 1 to 3 chunks, pieces of 0, 1, 2, 3, 6, room of 0 to 4, truncation | 4 392 | does the Block decoder end exactly and keep the order? |
| `decoder` | 2 threads, 12 setups | 1 821 901 | Rust decoder: is the output what the file deserves, memory bounded? |
| `decoder_live` | 2 threads, 2 Blocks, truncation, no time-out, fairness | 175 339 | do its calls return and finishing end? |
| `decoder_c` | 2 threads, 9 setups | 69 664 | C decoder: the same, and is a thread being fed alive? |
| `index` | Indexes built by appends and joins, 15 files sound and damaged | 50 825 | is an Index the list it stands for, also to an iterator that outlives changes, and a file's Index found? |
| `stream` | data, filters, match finders, containers, damage at each byte, foreign files, single calls | 20 981 | is what is encoded what is decoded, in any pieces? |
| `xz` | command lines, files, failing calls, signals | 14 268 | does the program keep data, flags, limits and its word? |

A behaviour of a run with setups keeps to one of them, chosen in `Init`, so that
one configuration covers kinds of use that would be too many together. Of the
Rust decoder they are `Waits` (time-outs, input by 0 or 1 units, room of 0, 1,
3), `Flawed` (a corrupt Block, truncation, failing allocations), `FailsFast`,
`Grows` (a third Block that takes all of `memlimit_threading`, so that the cache
has to be cleared), `Directly` (concatenated Streams, a Block without sizes, one
above `memlimit_stop`), `Torn` (a Block decoded directly, cut within its data)
and `Ruined` (one file for each other thing that may be wrong: Stream header,
Block sizes no Index can hold, Index, footer, padding). The C decoder has setups
of the same kinds. The MC modules describe theirs.

Why these bounds. Two workers are the least with which results arrive out of
order; a worker is free while another works, jobs are reassigned, and the queue
(two buffers per thread) fills and empties. Two units with Blocks of 2 and
chunks of 1 give full Blocks and, with flushes, Blocks of 1 and a second Block
in flight; three Blocks in the decoders give a buffer that is recycled and a
thread that is used again. Groups of 2 Records make new groups, reallocation and
rotations of the tree with three to four Blocks. 42 bytes over a window of 14 to
26 move the window, normalize the tables, reach the end of the search depth, and
fill chunks of LZMA2. `xz`'s buffer of 2 units makes holes begin, go on and end
within and across buffers. The bounds on behaviours are `Units`, `Jobs`, the
number of inits, of changes of an Index (`MaxCalls`, `MaxLooks`,
`UsesAfterFile`) and the files; everything else is cyclic.

`CHECK_DEADLOCK FALSE` stands where the process ends: after `lzma_end`, after an
abort, when all is decoded.

**Fairness.** `WF` for each thread, which the operating system schedules, and
`WF` for the application's next call once it has announced FINISH or a flush,
which it is documented to repeat, in the decoders with output space. In the C
encoder `SF` for a call with room, among calls that may bring none. The decoders'
workers get `SF` for the step that waits for the shared mutex, which the
application's thread takes and releases many times: a waiting thread gets it
eventually. A time-out is never fair: no deadline has to pass, so a thread that
sleeps without a notification sleeps for ever, and a missed one shows. Nothing
is assumed of applications that stop calling. In `index`
and `xz` the program itself is fair, and so is the world around it as far as its
pipes are not announced as silent (`stalls`, `stays_open`); a program that waits
on a silent pipe (`Waits`) is as it should be. In the Rust coders, liveness is
stated up to the races of section 6 (`Derailed`), in the C encoder up to a lost
or unsettled thread.

## 4. Hazards and the properties against them

`PROJECT.json` lists each hazard with its line.

| Part | Property | What would go wrong |
|---|---|---|
| Protocol | `FlushInputFrozen`, `FlushNotDropped`, `BufErrorIsSecondIdleCall` | a flush changed on the way; BUF_ERROR too early or never |
| Queue | `BuffersBounded` | cache and active buffers exceed what was promised |
| Rust encoder | `ImplementsOrderedBlocks`, `FlushBoundary`, `CallReturns` | Blocks out of order, twice, cut; a flush that leaves a Block open; a missed wake-up |
| C encoder | `ImplementsOrderedBlocks`, `ThreadsAccounted`, `FiltersPerBlock`, `ProgressAdvances`, `FinishCompletes` | a thread lost or handed out twice when stopped or re-initialised; a Block with the wrong chain; progress that goes back |
| Block decoder | `EndIsExact`, `PrefixUnlessCut` | input behind the Block consumed; data lost or repeated at a cut |
| Rust decoder | `ImplementsDecodedFile`, `ThreadingMemoryBounded`, `CallReturns`, `FinishCompletes` | an error before the sound data in front of it, a sound file refused; memory above the limit; a hang |
| C decoder | the same, `MemoryBounded`, `FedThreadIsLive` | input copied into a thread that gave its buffer back |
| Index | `ImplementsIndexList`, `SizesExact`, `IteratorLives`, `FileUnderstood`, `FileEnds` | a sum forgotten at one level; a dangling iterator; a seek that makes no progress |
| Streams | `FlushedIsReadable`, `AcceptedIsWhole`, `NeverStuck`, `TellsWhatIsMissing` | coders out of step; damage accepted; a sound file refused, or decoding that stalls with input left; the wrong error from a single call |
| `xz` | `SourceKept`, `TargetsWhole`, `FlagsRestored`, `ExitTellsTruth`, `StaysWithinLimit`, `FiltersAsShown`, `AbortEnds`, `FlushedInTime` | a source removed too early; a descriptor left non-blocking; status 0 with a source never read, data missing or wrong totals; a chain shown that is not the one used |

For every one there is a mutant of the code (a dropped guard, a swapped order, a
forgotten reset, a missing notification) that violates it under the same
configuration; a mutant stands before the definition it replaces.

## 5. Proofs

Every theorem holds for every value of the constants that satisfies the module's
named assumptions (types of the constants; what a Block is, in
`BlockDecoderUse`). The inductive invariants were first checked by TLC.

`StreamStateProofs`: `TypeCorrect`; `FlushInputIsFrozen`, where `FlushTracked`
adds that outside a flush the history is blank; `BufErrorNeedsTwoIdleCalls`,
under the contract that coders do not return BUF_ERROR themselves;
`FinishedCoderLeftAlone` and `PendingFlushKept` (`FlushNotDropped`), two action
properties: what a refused or unsuccessful call must leave alone.

`OutQueueLemmas`, for any kind of buffer: what each operation of the queue does
to its buffers, its cache and the memory in use; sums and folds over numbered
things, and the counters of the queue that are such sums (`Counted`). Induction
over data is out of reach in the form of the library's theorems, which take an
operator; a sum, which one change alters in one place, needs it only once, for
the fact that folds over finite sets exist and do not depend on the order, and
that is done with a least counterexample (`WFMin`); likewise for pieces joined
one after the other (`JoinsExists`, `JoinsUnique`). `OutQueueProofs`:
`LimitHolds`, `OneSizeCached` and `CountersExact`. `Read` pushes a drained
buffer back to the cache, so the bound needs the count of both lists, and it
clears the cache first if the size differs, which is where uniformity comes
from.

`EncoderMtProofs` (Rust encoder, any number of threads, any sizes, all failures):

- `EncoderFlushBoundary`: when a flush returns STREAM_END, no Block is open, the
  last one ends at the last unit accepted, and but for a barrier all are in the
  Index.
- `EncoderImplementsOrderedBlocks`: the encoder implements `OrderedBlocks`.
  Initial states map to initial states; `FeedWorker` maps to accepting input or
  closing a Block, the read that drains the head of the queue to delivering it,
  the footer to finishing, and everything else to a stutter.

Both rest on `EncoderInv`. `FlushBoundary` speaks of the moment a call returns;
what makes it true is spread over the threads. `Boundary`: the open Block is the
only one that is not cut, it belongs to `current_worker`, and Blocks cut and
open are those in the Index and the queue. `Offered`: a worker that may be
chosen rests, and is offered once. `Working`: each job a worker holds is a
buffer of the queue that nobody else holds, and what the worker was given is
exactly its Block's part of the input. `Written`: every finished buffer and
every Record of the Index is the Block of its place. `Exiting` and `Aborted` say
what holds at the ends. The invariant also holds in the presence of the race
`lost` and of the panic `crashed` (section 6): a job that is wiped is never
published, so what was wrong never reaches the output. That order and
completeness survive those two races is a result, and it is why they show as
hangs.

`StreamEncoderMtProofs` (C encoder, any number of threads, any setups):

- `EncoderAccount` and `EncoderThreadsAccounted`: every thread is made or not,
  idle in the free stack, working, or stopped, and none is lost or offered twice,
  up to the race of `threads_stop`. `ThreadsAccounted` is not inductive: that a
  thread pushed back was not there already follows from the state it was in
  before it reported (`ReportsDone`, `FreeIsIdle`), that one is chosen only from
  the stack from `Chosen` and `OneFree`, and that stopping leaves nothing behind
  from `Stops` and `NoneLost`.
- `EncoderFiltersPerBlock`: each Block is encoded with the chain that was chosen
  when it began. The chain travels from the coder (`Recorded`) through the cached
  copy (`CacheFits`) to the thread (`JobsFit`), the buffer (`BufsFit`) and the
  Index (`IndexFits`); a thread that is idle has none left over (`IdleIsDone`).
- `EncoderCImplementsOrderedBlocks`: the encoder implements `OrderedBlocks`,
  initialisations again included: each is a step to an initial state of
  `OrderedBlocks`. On top of `EncoderAccount` this needs to know what the data
  are. `ThreadInv`: what a thread has encoded is a prefix of what it was given,
  and one that leaves its Block having finished it has all of it and is not fed.
  `DataInv`: how far the Stream has come fits the call (`CallFits`), every Block
  begun is in the Index or queued and all but the one being fed are closed
  (`Counts`), buffers stand in the order of their Blocks and a finished one is
  the Block of its place (`QueueFits`), a thread at work was given its Block's
  part of the input (`Given`). Stated up to `unsettled`, the race of
  `threads_stop`.
- `EncoderCProgressAdvances`: what `get_progress` sums over all threads and the
  finished Blocks never goes back while a Block moves from one to the other, and
  never exceeds the input taken. `Covered`: the total and what busy threads hold
  are together no more than what was accepted; a thread's own progress is at most
  what it holds. `Faultless`: undisturbed, a thread that leaves its Block adds all
  of it.

`StreamDecoderMtProofs` (C decoder, any number of threads, any limits, any file,
any calls):

- `DecoderAccount`: the inductive invariant `IInv` itself. `ThreadInv`: a free
  thread does nothing, any other works on the Block it was given and on no more
  input than it got. `QueueInv`: the queue holds Blocks in order, the one that is
  fed last, and each buffer belongs to the thread at work on it. `MemoryInv`:
  what every counter is worth.
- `DecoderFedThreadIsLive`, where `PartialAtHead` adds that only the thread at
  the head of the queue, or of a buffer that has left it, was asked for partial
  output.
- `DecoderMemoryBounded`. `MemoryBounded` is not inductive: room is made in two
  steps under two mutexes, on a list of free threads read in the first
  (`seen_free`). That the list has only grown at its front (`Behind`) and that
  `mem_cached` is the sum over those in it (`CachedExact`) give what the second
  step needs (`AllocatedFits`). The bound is stated up to what the model showed:
  what is allocated is not bounded once a thread became free between the two
  steps and was taken instead (`overtaken`), nor after MEM_ERROR, where the
  counters hold a Block nothing was allocated for.
- `DecoderImplementsDecodedFile`: every step of the decoder is a step of
  `DecodedFile` or none. To what `DecoderAccount` knows of threads and queue,
  `DataInv` adds what the data are. `InputInv`: how much input was taken is where
  decoding stands in the file (`Placed`), and everything parsed so far was sound
  (`Parsed`). `OutputInv`: the Blocks handed over so far are those that have left
  the queue, whole, and those in it, in order; what was given out is the former
  and the first `read_pos` units of the next (`Delivered`). `WorkInv`: a thread at
  work fills a buffer of the queue that no other one fills, and has decoded at
  least what the buffer shows. `Faults`: an error that is remembered has its
  buffer in the queue, so it is reached only by what is in front of it. Beside
  these stands `Running`: while nobody waits for the threads to stop, one that
  decodes was not told to. The data of a file are joined by recursion
  (`DecodedFile!DataOf`); that the function exists, is unique and goes on by one
  Block at a time is proved in `OutQueueLemmas` (`JoinsExists`, `JoinsUnique`).
  Assumed of a setup: flaws of the Index, footer and padding are at a Stream's
  last Block, and one of the padding, or another Stream, is there only with
  `LZMA_CONCATENATED`, without which nothing behind the first Stream is looked at.

`DecoderMtProofs` (Rust decoder, likewise, lost jobs and failing workers
included): `DecoderThreadingMemoryBounded`. Memory is given up by whoever ends a
Block, under the shared mutex; what it gives up is what it took only because a
worker's job does not change while it works (`JobsSound`). Room is made in one
step and taken in another; `RoomMade` says what the first leaves to the second:
room beside all that is cached, or a cache that can only be used for this Block.

`BlockDecoderProofs` (any Block, any cut of input and output): `BlockEndIsExact`
and `BlockPrefixUnlessCut`. `DecoderInv` relates the positions of the decoder:
the reader has read no more than its chunks hold and holds no more than it was
given (`Sound`), what is pending was read last (`Ahead`), what was given out is
the start of the data unless something was lost (`Kept`, `Lossless`), and all of
it stays within the Block's sizes (`Between`). The step is proved along the code:
filling the source, the loop of reads, the pending output, the look ahead at the
end.

Only model-checked, and why:

- Liveness: fairness and ENABLED are out of reach of the prover.
- `ImplementsDecodedFile` of the Rust decoder: the argument is that of the C
  decoder, with another for Blocks decoded directly (`BlockDecoder`) and for the
  three cuts the property excepts; it has not been carried out.
- Index, Stream and filters of `xz`: what they check compares recursive
  definitions (trees, byte strings, match finders, option lists), and what such a
  definition computes for every input is an induction over data.
- Files and signals of `xz` (`SourceKept`, `TargetsWhole`, `FlagsRestored`,
  `ExitTellsTruth`): nothing stands in the way but the size of the step, one
  process with many system calls that may fail. TLC covers every such failure in
  every place on the setups of the run; the proofs went first to the modules with
  any number of threads.

## 6. Disagreements found

With a run and a counterexample, `encoder_lost_job`: a worker of the Rust encoder
pushes itself on the free list (`stream_encoder_mt.rs:582`) before it clears its
finished job under its own mutex (601-616). If `start_worker` assigns it the next
Block in between, the clearing wipes that Block; its buffer at the head of the
queue is never finished and `lzma_code` waits for ever. The C original marks the
thread idle first.

Found with the models as well; the behaviours are in them, and the properties
named here are stated up to them:

- *Rust encoder*: a worker whose encoder fails resets itself while it is still
  `current_worker`. `stream_encode_in`, past its check of `thread_error`
  (`stream_encoder_mt.rs:904`), tells it to finish; it finds no filters and
  panics (819), which aborts the process (`crashed` in `CallReturns`).
- *Rust decoder*: a worker publishes `decoder_in_pos` and notifies without the
  shared mutex (`stream_decoder_mt.rs:525-531`), between the application's check
  (399) and its wait (407): without a time-out and with a truncated file nobody
  wakes it again (`missed`). It has the encoder's race at 610 (`lost`). With
  `LZMA_FAIL_FAST`, FINISH and a truncated Block, `abort_workers` locks all
  workers while the guard of one is held (1101-1105, `selflock`).
- *Rust decoder*: asked for partial output, a worker tries the input it has. If
  that ends after the compressed data and before the end of the check, the trial
  succeeds and is reported as DATA_ERROR (541): a sound file is called corrupt,
  depending on how input is cut. The setups cut there too; the property admits
  this refusal by name (`Misled`), requiring that what was delivered is right.
- *Rust decoder, directly decoded Blocks*: the Block decoder reports a sound
  Block as DATA_ERROR when its sizes are used up by a call before the raw decoder
  has seen the end marker (`block/coder.rs:246`, `upstream.rs:1224`; `Misled`
  again). Input that ends within an LZMA2 chunk under RUN loses data of that
  chunk (`upstream.rs:233`): from such a cut on nothing is claimed (`torn` in
  `ImplementsDecodedFile`, `cut` in `PrefixUnlessCut`).
- *C encoder*: a thread stopped before it has taken its command is marked idle
  in one critical section (402-407) and returned in another (409-429);
  `threads_stop` waits for the first only. Initialised again with one thread,
  such an encoder waits for ever (`unsettled`, `strayed` in `ThreadsAccounted`
  and `FinishCompletes`).
- *C decoder*: a thread freed while room was made for a Block may be taken by
  `get_thread` instead of the one that had been counted on, so that what is
  allocated exceeds the limit (`stream_decoder_mt.c:622`; `overtaken` in
  `MemoryBounded`).
- *Index*: an iterator that stands in an empty Stream skips a Block appended
  there (`index.c:1010`, 1139-1203), though `api/lzma/index.h:382-385` allows to
  add Blocks while iterating (`SkipsFirst`).
- *LZMA decoder*: that an end marker is allowed is kept in a local variable
  (`lzma_decoder.c:358`, 405, 713) while the decoder returns in the middle of the
  marker. A .lzma file with a known size and a marker decodes in one piece and is
  a DATA_ERROR in smaller ones, after all of its data; the run decodes it both
  ways (`MarkerForgotten` in `NeverStuck`).
- *Single calls*: `lzma_block_buffer_decode` tells too little room from damage
  by "the last byte produces no output" (`block_buffer_decoder.c:50-62`), which is
  not so with a branch filter and no check (`LastByteMayGiveOutput`).
- *xz -vv* shows the chain before memory limits cut the dictionary down
  (`coder.c:207`, 382-409): 64 MiB may be shown and 40 MiB used, of which a
  warning tells. `FiltersAsShown` demands that nothing else differ, and this
  only by a user's limit.
- *xz*: with SIGPIPE ignored, a broken pipe sets no exit status
  (`file_io.c:1341`), so that `xz` ends with 0 and data missing (`EndsWell` of
  `Xz` excepts it).

Read in the code on the way: `lzma_index_dup` does not copy `checks` (the Rust
`core.rs:445` does); `lzma_index_prealloc` of 0 after an empty Index leaves the
next group no room; nothing bounds the uncompressed total of joined Indexes;
`lzma_filters_update` after SYNC_FLUSH leaves some options changed when it
returns PROG_ERROR (`lz_encoder.c:520-524`), and the raw encoder never compares
the last filter's id; the option parsers of `xz` and liblzma differ ("max",
blanks and suffixes only in `xz`, a repeated "e" only in liblzma: `Repeats`); in
.lz nothing protects the dictionary size.

The Rust translation of a Block without sizes that is buffered gets BUF_ERROR
when the input is short (`stream_decoder_mt.rs:1240`); its going to direct mode
leaves cached buffers allocated (816-838); with `LZMA_FAIL_FAST` and FINISH it
gives up a truncated file before complete Blocks in front are delivered
(974-977); an inner BUF_ERROR in direct mode ends the outer stream (1223).

## 7. Not modelled

- Branches that are in the models and that no instance small enough takes: an
  optimum reached by a literal and a repeat without the two pairs in front
  (`StateAt`), a chunk cut at `LZMA2_UNCOMPRESSED_MAX`, OPTIONS_ERROR from an
  update of LZMA2, the limits of sizes near LZMA_VLI_MAX in a Stream and an Index
  that therefore refuses a Record, a Block begun by RUN without input, MicroLZMA
  with wrong properties or more input than its size.
- Within modelled components: `get_progress` of the Rust encoder and of the
  decoders, memory usage of encoders, re-initialisation of the C decoder, in the
  C decoder a Block decoder that cannot be initialised for want of memory
  (`stream_decoder_mt.c:1474`: the MEM_ERROR then waits for what is in front of
  it; the other allocations of a thread, whose failure stops everything, are
  modelled), a failing re-initialisation of the C encoder after its threads have
  stopped (which frees the coder, as `Restart` and `End` together do), flags that
  `lzma_index_stream_flags` refuses (its caller has had them checked), copying and freeing of chains,
  `lzma_str_list_filters` and the places of errors in filter strings, the preset
  lookup of the easy functions, spurious wake-ups in the encoders (their loops
  test their whole condition again; in the Rust decoder they are modelled), EINTR
  where descriptors are non-blocking, the moment between `stat` and `unlink`.
- Components: check algorithms and the numeric kernels of the Rust port (the
  vendored crate), tables, hardware queries, the C interface, which forwards,
  messages and progress display of `xz`, `xzdec`, `lzmainfo`, scripts.
  `src/original/.pc` holds earlier states of four patched files and is no part of
  the program.
