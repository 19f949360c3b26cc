# Formal models of hurray

TLA+ specifications of *hurray*, a Rust library for exchanging tensors as byte
streams, files, C handles and Python objects. Modules sit side by side; `MC*`
modules and their `.cfg` files are the model-checking instances, `*_proof`
modules hold TLAPS proofs. `PROJECT.json` maps definitions to source lines.

## 1. Inventory of the system

| component | source | state | operations | what makes it correct |
|---|---|---|---|---|
| Composite validation | `hurray-core/src/composite.rs` | rule, member boxes, volume, next index | `CompositeValidator::new`, `push_member`, `finish`; `CompositeTensor::new` | an accepted partition is an exact cover, an accepted overlay has one base below every cell, and nothing legal is refused |
| Stream writer core | `hurray-io/src/stream/sans_io/write.rs` | `unusable`, `torn`, the live `WriteOp` (frame, payload queue, stack of members) | `tensor`, `composite`, `step`, `output_src`, `report_written`, `report_sink_closed`, `mark_unusable`, drop | bytes of two items never mix; `emitted`/`torn` agree with the sink; a retired core stays retired |
| Stream reader core | `hurray-io/src/stream/sans_io/read.rs` | state machine Prefix/Descriptor/Buffer/TensorReady/Finished/Failed/Unusable, staging, pending tensor | `step`, `input_dst`, `report_filled`, `take_tensor`, `mark_unusable` | only whole tensors leave; no byte lost or read twice; a cut stream never ends clean |
| Composite assembler | `hurray-io/src/stream/sans_io/composite.rs` | stack of open heads with validators | `push`, `finish`, `depth` | items come out as they went in and are valid at every level |
| Async stream drivers | `hurray-io/src/stream/{writer,reader}.rs` | the core and the transport | `write_tensor`, `write_composite`, `finish`, `next_item`, `next_tensor` | the two ends implement a reliable item channel; what one end completes the other accepts |
| File writer core | `hurray-io/src/file/sans_io/write.rs` | `offset`, `entries`, `seen_names`, `torn`, `unusable`, the live operation and its plan | `header`, `tensor`, `finish`, `step`, `report_written` | a file that opens is complete; index offsets match the bytes |
| File reader core | `hurray-io/src/file/sans_io/read.rs` | phase, index, current job, composite walk | `step`, `input_dst`, `report_filled`, `begin_*`, `take_*` | a job returns what was indexed under its name; a failed job does not poison the next |
| Sections of a file | `hurray-io/src/file/sans_io/sections.rs`, `hurray-ffi/src/file/kv.rs`, `hurray-python/src/file_io.rs` | none | `encode_*`, `parse_*`, `KvTable`, `kv_from_c`, `py_to_kv_value`, `load_kv` | key-values mean the same in Rust, C and Python and after a rewrite; bytes have one reading |
| Async file drivers | `hurray-io/src/file/{writer,reader}.rs` | core and sink/source | `write_*`, `finish`, `open`, `read_*` | as the stream drivers |
| C ABI stream drivers | `hurray-ffi/src/stream/{writer,reader,transport}.rs`, `composite.rs`, `item.rs` | handle, transport callbacks, one call at a time | `hurray_writer_*`, `hurray_reader_*` | a status tells whether the writer may go on; what was written reads back; the transport context is released once; every call returns |
| C ABI file drivers | `hurray-ffi/src/file/` | handle, core, transport callbacks | `hurray_file_writer_*`, `hurray_file_reader_*` | a status tells whether the file can still be finished and what is in it; the context is released once |
| C ABI handles | `hurray-ffi/src/{buffer,buffer_list,item,tensor_context,descriptor}.rs`, `stream/tensor.rs` | ownership of buffers, lists, descriptors, tensors, items, contexts | create, push, get, take, destroy, release callbacks | every allocation freed exactly once, whatever a callback calls; borrowed pointers are good while their owner is |
| C ABI accessors | `hurray-ffi/src/field/`, status codes | none | getters | – |
| Descriptor codec | `hurray-core/src/descriptor/` | none | `new`, `encode`, `decode` | decode inverts encode, has one reading of every byte string, and skips what a newer minor version appends |
| Layouts and addressing | `hurray-core/src/layout/` | none | constructors, `validate_against_shape`, `element_offset`, sparse lookups, `byte_address` | offsets are exact or refused, injective and in bounds; a lookup finds what is stored |
| Shapes, element types, buffers | `hurray-core/src/{shape,element_type,buffer}.rs` | none | element counts, tags, buffer handles | sizes do not wrap |
| Quantization | `hurray-core/src/quantization/` | none | constructors, wire form, checks against a tensor | a decoded scheme is the encoded one and names buffers that are there |
| Aligned allocation | `hurray-io/src/aligned.rs` | memory | allocate | – |
| Python asyncio bindings | `hurray-python/python/hurray/aio.py`, `src/aio.rs` | one operation in flight, its pinned payload, registered callbacks, futures | `write`, `finish`, `next_item`, `close`, cancellation | a suspended or cancelled call leaves the objects as they report themselves; nothing is lost; every call ends |
| Python tensors and shared memory | `hurray-python/src/{buffer,tensor,interop,dlpack,native_protocol,scipy_interop,sparse,numpy_allocator}.rs` | buffer stores with the objects that keep them alive, capsules, NumPy's handler | `Tensor`, views, `__dlpack__`, `__array__`, `__hurray__`, `from_numpy`, `from_scipy`, `sparse_coo`, `from_hurray`, `aligned_allocator` | no pointer outlives its memory, everything is released once, declarations about shared bytes are true |
| Python files | `hurray-python/src/{file_io,blocking,composite}.rs` | the dict being written or read, the names a composite claims | `hurray.Composite`, `hurray.save`, `hurray.load` | what is saved loads back, everything once and under its name |
| Other Python bindings | rest of `hurray-python/src/` | – | constructors of arrays, blocking stream drivers, conversions, printing | – |
| Inspector, conformance tools, facade crate | `hurray-inspect/`, `conformance/`, `hurray/` | none | – | – |

**How they interact.** The cores do no I/O. A driver loop asks a core to `step`,
gets a request (bytes to take or a region to fill), performs one transfer of any
length up to the one offered, and reports the count. The drivers differ in what a
transfer is: a Rust future, a C callback, a non-blocking descriptor on an asyncio
loop. A count may be lost (a future is cancelled between the transfer and the
report): the core is then marked unusable. An operation may be dropped at any
point. The writer validates items with `CompositeValidator` on submission; the
reader hands tensors to the assembler, which runs the same validator as members
arrive. Descriptors, with their layouts and quantization sections, are encoded by
the writer and decoded by the reader; a consumer then uses the addressing
functions to find elements. C and Python programs own what they were given
through reference counts and release callbacks.

**What is hard.** Transfers of arbitrary length at both ends; an operation that
stops part-way; flags (`torn`, `unusable`, `emitted`) that have to agree with a
sink the core never sees; a reader with four nested positions (frame, buffer,
head, level); zero-sized buffers; one tensor that closes several levels; geometry
and addressing in arithmetic that saturates, wraps or is checked; callbacks that
re-enter the library while it destroys the object they belong to; tasks that are
cancelled while half an item is on the wire; objects that point into memory of
other objects. There is no timer and no thread inside the library; concurrency is
between the two ends of a transport, between the tasks of one event loop, and
between a core and the application that may abandon it.

## 2. Modules

| module | models | notes |
|---|---|---|
| `CompositeRules` | the checks of `composite.rs` as operators | u64 arithmetic at width `U64Max`: `SatAdd` saturates, products and sums overflow to "unknown" as `checked_mul`/`checked_add` do |
| `CompositeValidator` | `CompositeValidator` as a state machine | one action per call |
| `Frames` | what the stream cores see of a descriptor: length, buffer table, whether it encodes and decodes | a byte is a record *which descriptor, which part, which offset*: enough to tell every byte from every other |
| `StreamWrite` | `StreamWriterCore` + `WriteOp` | `wire` is a history of the bytes that the sink took, with the submission they belong to |
| `StreamRead` | `StreamReaderCore` | `wire`/`pos` are the transport; `delivered` a history of `take_tensor` |
| `CompositeAssembler` | `CompositeAssembler` | `deliver` closes the whole chain of full heads in one action, as the code does in one call |
| `ItemChannel` | nothing: the abstract promise | items arrive whole and in order, a clean end means all of them |
| `StreamPipe` | both async drivers, writer and reader sharing one transport | instances `W`, `R`, `A` of the three cores |
| `FileFormat` | sections of the container, alignment, index entries and trailer | a byte is *which operation, which section, which offset* |
| `FileWrite` | `FileWriterCore` + `FileWriteOp` and the `FileWriter` that drives them | an operation has a plan of segments; a composite is a loop of the driver over several operations (`group`, `index`) |
| `FileRead` | `FileReaderCore` and the `FileReader` that drives it | the methods of the core are operators from core to core, chained as the code chains them, so that one `Step` is one whole `advance` |
| `FilePipe` | a file written, left after any byte, and read back | extends `FileWrite`, instance `R` of `FileRead`, which in turn takes the chain of closings from `CompositeAssembler` |
| `FfiFile` | the C file drivers over the same cores | `told` is what the statuses have said so far |
| `PyFile` | `hurray.Composite`, `save` and `load` over the blocking drivers | an item has no name of its own: `Dotted` is the `format!` that gives members theirs |
| `MCFilePipe` | one file written in one language and read in another | composes the two above with `FilePipe`, and holds the small instance |
| `Layouts` | `layout/*.rs`: constructors and `validate_against_shape` | machine words of `WordBits` bits; a nested tiling is a chain of levels |
| `DenseAddressing` | `layout/addressing/`: row-major, column-major, strided, tiled, Morton, Hilbert, byte addresses | results are `Ok`, `Err` or `Panic`, `?` is `Then`; bit operations come from `Bitwise` |
| `SparseAddressing` | the same for COO, CSR, CSC, CSF and block-paged, with `validate_index_buffers` | binary searches are recursive functions |
| `ElementAccess` | a consumer that validates a tensor and asks for its elements one by one | composes the three above |
| `Wire` | `descriptor/cursor.rs`: little-endian bytes and the bounded cursor | `U32` and `U64` are the byte lengths of the words |
| `Quantization` | the five schemes: constructors, wire form, checks | an f32 is its bits |
| `DescriptorCodec` | `TensorDescriptor::new`, `encode`, `decode`, every section and layout, byte for byte | |
| `DescriptorExchange` | a descriptor that is sent, arrives whole, cut, altered or from a newer producer, is relayed and admitted | composes the three above |
| `KvExchange` | the index and the key-values of a file, byte for byte, as C structs and as Python objects; a section that a Rust, C or Python writer is given, read whole, cut or altered, and rewritten through any language | a value is its tag, its bytes or number, and its elements; a C pointer to elements is a place in a sequence; `MetadataSpec` composes it with `DescriptorExchange`: one of the two is on the wire |
| `FfiObjects` | the handles of the C ABI and the C program that owns them | `frames` is the stack of destroy functions; the C program runs when it is empty or a release callback is on top, so callbacks re-enter the library |
| `FfiTree` | `members_of` and its inverse: a tree as a flat array | folds over the array, with the explicit stacks of the code |
| `FfiStream` | the C stream drivers over instances of `StreamWrite`, `StreamRead` and `CompositeAssembler` | every callback is a step |
| `PyAio` | `aio.py` over `aio.rs`, over the same three cores, on one event loop | `running` is the task that runs; others are suspended in `_Readiness.wait` |
| `PyMemory` | which Python object keeps whose bytes alive | `heap` holds objects with reference counts, `mem` allocations; a call is one action because it holds the GIL; `Finalise` runs before the program goes on |
| `MCData` | nothing: small descriptors and items | recursive; only used by TLC |
| `*_proof` | – | theorems, section 5 |

State variables carry the names of the Rust fields where possible (`unusable`,
`torn`, `index`, `staging`, `payloads`, `written`, `emitted`; `filled`,
`pending`, `ready`). Reader variables that would clash with the writer's in a
composition have an `r` in front.

Abstractions: payload and descriptor *content* is replaced by provenance in the
transport models and kept byte for byte in `DescriptorCodec`; error *kinds* are
kept only where a caller can act on them (the reason a writer is unusable;
clean/torn/refused/lost at the reader; which statuses a C caller may retry);
`input_dst`/`output_src` borrows are merged with the transfer that follows, which
borrows guarantee in Rust; limits (`max_descriptor_bytes`, `max_buffer_bytes`,
`max_composite_depth`) are constants.

A prefix of bytes that is not the beginning of a descriptor (only reachable when
the position was lost) decodes to "refused": the real decoder checks a magic
number and a version. Likewise the last bytes of a file that was cut short are
never taken for a trailer: the code tells by a magic number and by the checksum
of the index. These are the two places where the model is more certain than the
code.

*File models.* In the pipe the key-value section and each index record have a fixed
length and their parsing is whole-or-refused (their bytes are in `KvExchange`); the alignment the reader takes from the header
is the writer's; a file is read after its writer is gone, never while it grows.
`submitted` keeps what each operation commits, as the meaning of the bytes it
wrote. When `stopped` becomes true the writer's memory is gone: only the file and
the histories the properties speak of are kept. A `FileWriter` is consumed by a
failing constructor or `finish`; the model lets the caller try again, as a user of
the core may.

*C models.* The C program keeps the documented contract: it destroys what it
holds and does not push what it gave away. Transport callbacks move part of what
they are offered, or fail having moved nothing, or report their end. In `FfiFile` a
callback does not fail before the first byte of a later member (finding 18
otherwise). `next_tensor`
is called only while no group is open (finding 11 otherwise).

*Python models.* In `PyAio` a transfer and its report are one step (one call into
the extension); the application never makes two `next_item` calls at once and
stops at the end or at an error. In `PyMemory` addresses are never reused, so a
use after a free is visible; an allocation is [length, alignment, whether its
bytes await an event]; a matrix has two arrays in place of three; an object that
is gone keeps only its kind and its counts. In `PyFile` a dict with an overlay of
composites is left out (finding 2), and `load` without names is asked only of files
whose index is in file order (finding 19 otherwise). Interpreter shutdown and allocation
failure are left out.

## 3. Runs

| run | question | bounds |
|---|---|---|
| `composite_validator` | Is a closed partition an exact cover, an overlay based, and nothing legal refused? | two-dimensional heads with sides up to 2 and one of the largest integer, the three rules, up to 3 members at every offset and shape that fits and at one that does not |
| `stream_write` | Do the wire and `emitted` agree under every cut, drop, fault and resubmission? Is the wire the reference encoding? Does a retired core stay retired, does every operation end? | 3 submissions of plain, empty-buffer, nested, partition and invalid items; a step is taken in any number of pieces |
| `stream_read` | Nothing lost, repeated or delivered in part under every cut of the reads; no clean end of a cut stream; a whole frame is delivered; an ended reader stays ended | all truncations of two-frame transports, refused and unallocatable buffers, undecodable and oversized descriptors, a shifted transport |
| `composite_assembler` | What comes out is what went in and is valid at every level; a clean end means nothing is held back | every sequence of up to 5 tensors and heads of the three rules, depth limit 2 |
| `stream_pipe` | Do two concurrent ends implement `ItemChannel`? Does the reader accept all the writer completes? Do completed items arrive, and does the reader end after the writer closes? | 2 submissions from {two-buffer tensor with an empty buffer, nested composite whose last tensor closes two levels}; faults at either end at any time |
| `file_pipe` | Is a file that opens complete, wherever its writer stopped? Does its index point at its bytes? Does every job return what was written under its name, whatever was abandoned before, and fail only for cause? Does a finished file open, and every call end? Do the C statuses tell what became of the file? Does a saved dict load back? | Rust to Rust, C to C, Rust to Python, Python to Python and Python to C; a tensor with an empty and two filled buffers, a composite nested two deep, a composite with an unallocatable buffer and a name that may be taken: up to seven tensors and 10 operations, sorted index, with and without key-values; writes in any pieces, drops, failures, a crash at any byte; any sequence of jobs; six node arrays and three tensors with null pointers, wrong counts and names that are not UTF-8; five dicts, among them an overlay, one that `Composite` refuses and one whose key is a member's name |
| `element_access` | Is every offset exact or refused, do no two elements share one, do tiles and curves keep neighbours together, do lookups find exactly what is stored, do bytes not overlap? | words of 8 bits; some 10 000 tensors: ten shapes up to 400 elements for the linear layouts, tilings up to three deep, Morton with even and uneven bits, Hilbert up to order 3 and rank 3, every 2x3 sparse matrix, every cube of up to 3 entries with every single damaged index entry, every block table of up to 3 pages; elements of 1 to 32 bits |
| `descriptor_exchange` | Does a descriptor mean the same after one and two hops, with any combination of sections and from a newer producer? Is a cut or altered one refused or read in one way only? Are quantization parameters reachable? The same of the key-values and the index of a file, written and rewritten in Rust, C and Python | a u32 of 2 bytes and a u64 of 3 (the smallest in which an index, the absent index and an overlong length differ); 44 descriptors, every cut, every byte replaced by one of five; a u16 of one byte, 28 lists of pairs with every kind of value and array, among them the ones the encoder refuses, 8 C tables with shared elements, null pointers and wrong kinds, 9 dicts, 2 indexes |
| `ffi_objects` | Is everything freed exactly once, and is every pointer good, whatever release callbacks call? | 3 handles given to the program, lists of 2 buffers, debug assertions on |
| `ffi_stream` | Do the statuses tell what is on the wire, is an array refused exactly when it is no tree, does the reader return what was written, is the context released once, does every call return? | 2 calls of the writer over six arrays and three tensors; callbacks that move any part, fail or end |
| `py_aio` | Do suspended, cancelled, interrupted and refused calls leave writer and reader as they report themselves; is nothing lost; does every call end? | two writing tasks, one reading task, two `write` calls, one cancellation, one spurious wakeup or EINTR, a pipe of 3 bytes, smaller than any item |
| `py_memory` | Does no object point into freed memory, is everything released once, is what is declared of shared bytes true? | 4 objects of any kind at a time and in total (an array shared by a tensor shared by a capsule shared by an array), two nested `aligned_allocator()` blocks, read-in tensors with a page-aligned and an unsynchronised buffer |

All pass.

**Properties of several parts.** A property is the conjunction of named parts
where the parts answer one question; each part is a definition with its own
comment:

`ReadIsFaithful` = `NoByteLost` ∧ `CleanEndIsWhole`;
`GroupingIsExact` = `TypeOK` ∧ `NothingLost` ∧ `ReturnedIsValid` ∧ `CleanMeansAllReturned`;
`EverythingArrives` = `WrittenItemsArrive` ∧ `ReaderEnds`;
`CoverageIsExact` = `NoCellIsUncovered` ∧ `NoFalseAlarm`;
`FilesHoldWholeItems` = `TypeOK` ∧ `IndexMatchesFile` ∧ `OpensMeansComplete` ∧ `FinishedGroupsAreWhole`;
`FileStatusesAreTrue` = `StatusTellsTheFile` ∧ `FileContextReleasedOnce`, for the sides that are C;
`SaveLoadsBack` = `LoadedIsSaved` ∧ `NothingTwice` ∧ `SaveRaisesForCause` ∧ `LoadRaisesForCause`;
`CallsAnswerForTheFile` = `AnswersAreRight` ∧ `CallsFailForCause` ∧ `FinishedFilesOpen`;
`AddressesAreExact` = `TypeOK` ∧ `ExactOrRefused` ∧ `FillsItsBuffer` ∧ `BytesDoNotOverlap`;
`NeighboursStayTogether` = `TilesAreContiguous` ∧ `HilbertStepsAreAdjacent`;
`IndexedElementsAreFound` = `ValidatedAnswers` ∧ `SparseFindsTheStored` ∧ `EachStoredElementHasOneIndex` ∧ `PagesAreSharedOnlyTogether`;
`MeaningSurvives` = `RoundTrip` ∧ `NewerIsReadable` ∧ `RelayKeepsMeaning`;
`OneReading` = `TypeOK` ∧ `CutIsRefused` ∧ `OneSpelling` ∧ `NothingBeyondLength`;
`SurvivesTheWire` = `MeaningSurvives` ∧ `SectionsComeBack` ∧ `RewritesKeepMeaning`;
`OneReadingOnly` = `OneReading` ∧ `SectionsHaveOneReading`;
`QuantizationIsUsable` = `QuantizationSurvives` ∧ `ParametersAreReachable`;
`PointersAreGood` = `TypeOK` ∧ `BorrowedIsLive` ∧ `NoDanglingHandle`;
`FreedExactlyOnce` = `FreedOnce` ∧ `NothingLeaks`;
`StatusesAreTrue` = `TypeOK` ∧ `StatusTellsTheWire`;
`StreamReadsBack` = `ReadsWhatWasWritten` ∧ `EndMeansAll` ∧ `FailureHasACause` ∧ `ShapeRefusedForCause`;
`AwaitsAreSafe` = `TypeOK` ∧ `OneOperationPerWrite` ∧ `PoisonedForCause`.

Each part has a mutant: an operator named after the definition it replaces
(`X_<what went wrong>`), under which the run finds the property violated.

**Why the bounds are enough.** Cores keep nothing of an item once it is finished
but flags and counters, so two submissions show every effect of one on the
next. Prefix and minimal descriptor lengths are 2 and 3: the smallest values for
which a transfer may end strictly inside each, and at each boundary. Buffers of
size 0, 1 and 2 give *nothing to transfer*, *one transfer* and *a cut*. Three
members give every pairwise and *earlier-but-not-last* relation of the overlap
test. Two levels of nesting give *close one* and *close several*. In the file
runs header, trailer and alignments are 2, 2, 2 and 4 bytes (the code has 64,
40, 8 and at least 4096): padding of 0 to 3 bytes occurs before buffers, and
`ZerosLen = 1` makes it be offered in several pieces as a page of zeroes is.
`MaxOps` bounds the operations that put a byte in the file; an operation that
ends before its first byte is not counted and may be repeated for ever.
With words of 8 bits tensors of a few hundred elements overflow every intermediate
product of the addressing functions, at the places where the code's checks are;
nothing in them depends on the width otherwise. Two writing tasks are enough for
one to meet the other's operation at each of its suspensions. A cycle of borrowing
is impossible in Python memory (a base is always older), so a chain of four
objects has every link twice over.

**Deadlock** checking is off: the application may stop, a retired core has no
step, and a stream has an end.

**Fairness.** `StreamWrite.FairSpec`: the drain loop (`writer.rs`) steps and
transfers as long as the operation is alive; an abandoned operation ends by its
drop, so nothing is asked of the application. `StreamRead.FairSpec` and
`StreamPipe.FairSpec`: the `next_item` loop steps, reads what is there and takes
what is ready. `FairDriversSpec`: the loops of
the file drivers go on (`WF(Loops)`), which wait for nothing but the operating
system or a callback; nothing is asked of the Rust writer, whose futures may be
dropped. `FfiStream.FairSpec`: a call in
progress goes on (`WF_vars(Driver)`), since the loops of the C drivers wait for
nothing but the callbacks. `PyAio.FairSpec`: the event loop runs every task that
is ready and polls both descriptors, as asyncio does; the reading application
keeps calling `next_item` and the writing one finally calls `finish`, without
which a reader rightly waits. Spurious wakeups and EINTR are bounded, since a
loop that is interrupted for ever makes no progress in the code either.
Submitting, cancelling, dropping and losing counts are never fair.
`WrittenItemsArrive` assumes no fairness of the writer at all: an item that was
reported written needs nothing more from it.

## 4. Findings

Where the code and its documents disagree. The passing runs leave out exactly the
case at hand; the parameter that lets it in is given, with the property that fails
then.

1. **A partition whose volume overflows u64 is not checked for gaps**
   (`hurray-core/src/composite.rs:493`). `composite.md` demands rejection; the
   comment calls the branch unreachable, but a static head `[2^33, 2^33]`
   reaches it. `MCCompositeValidator.cfg` with `U64Max = 7` and
   `HeadShapes <- WideHeadShapes`: `CoverageIsExact`.
2. **A nested head in an overlay passes submission and fails in mid-stream**
   (`write.rs:609`): `check_overlay_member_role` demands a role, `encode`
   refuses a head that has one. `MCStreamWrite.cfg` with the invariant
   `FailsBeforeFirstByte`.
3. **A refused member loses its head** (`sans_io/composite.rs:188`): a caller
   that reads on sees the rest of its members delivered into the parent.
   `MCCompositeAssembler.cfg` with `KeepGoing = TRUE`: `MembershipAsOnWire`.
4. **A composite with no members is never closed by the assembler**
   (`sans_io/composite.rs:126`), although the writer writes it and the layout
   permits it. The walk of the file reader has the same shape
   (`file/sans_io/read.rs:974`), so such items are left out of the file run.
   `MCStreamPipe.cfg` with `Items <- EmptyItems`, `Nodes <- EmptyNodes`:
   `CompletedItemsAreReadable`.
5. **A head passed as `CompositeNode::Tensor` is written without members**
   (`write.rs:249`), and the reader waits for them. The file writer accepts one
   too. Same with `LoneItems`, `LoneNodes`.
6. **A cancelled `write_composite` of a file is not noticed**
   (`file/writer.rs:184`): the core is poisoned on the error path only. When the
   future is dropped while it awaits the first write of a later member, nothing
   is torn and nothing is poisoned, and `finish` writes a clean index over a head
   with too few members, which the comment on that line rules out.
   `MCFilePipe.cfg` with `CancelGroups = TRUE`: `FilesHoldWholeItems`.
7. **Elements of a nested tiling may share an offset**
   (`layout/addressing/tiled.rs:59`) when the inner tile does not divide the outer
   one (2x3 in 2x4): the inner level pads its own grid, the outer level spaces its
   tiles by the unpadded product. `TiledLayout::new` accepts such a tiling;
   `docs/spec/layouts/tiled.md:11-12` promises tiles "without overlap or gap".
   `ElementAccess.cfg` with `Ragged = TRUE`: `NeighboursStayTogether` and, checked
   alone, `NoTwoElementsShare`.
8. **Morton codes of uneven bit counts exceed `2^(sum(morton_bits))`**, the
   capacity `layout/morton.rs:15` states. `ElementAccess.cfg` with the invariant
   `MortonCodesFit`.
9. **A layout is not checked against its shape on decoding**: the comment at
   `layout/mod.rs:498` says that Layer 4 calls `validate_against_shape`, but
   neither `new` nor `decode` does. `MCDescriptorExchange.cfg` with the invariant
   `DecodedLayoutFitsShape`.
10. **A shard that exceeds its parent is built and encoded, and refused by the
    reader** (`descriptor/decode.rs:177`). The last descriptor of
    `MCDescriptorExchange.Incoherent`; `RoundTrip` excludes it.
11. **`next_tensor` while a group is open** (`hurray-ffi/src/stream/reader.rs:259`):
    the tensors it returns never reach the open head, and later ones fill the group.
12. **The protection against a double free** of a list destroyed from a release
    callback (`hurray-ffi/src/buffer_list.rs:315`) is compiled only with debug
    assertions. `FfiObjects.cfg` with `Debug = FALSE`: `FreedExactlyOnce`.
13. **`hurray_writer_write_tensor` does not refuse a composite head**, although
    `hurray-ffi/src/stream/writer.rs:157` and `file/writer.rs:182` say so; the same
    root as 5.
14. **A cancelled `next_item` may leave its successor waiting for ever**
    (`aio.py:182`): `task.cancel(); await reader.next_item()` registers the new
    callback before the cancelled task removes "its own", which is by then the new
    one. `MCPyAio.cfg` with `AwaitCancelled = FALSE`, `Readers = {"r1", "r2"}`:
    `EveryCallEnds`. Two concurrent calls meet the same.
15. **An exception other than `CancelledError` out of `_Readiness.wait`** leaves
    the operation of `write` in flight (`aio.py:293`): later writes are refused as
    "already being written", and `poisoned()` is false.
16. **`from_hurray` does not keep the capsule's tensor**
    (`hurray-python/src/native_protocol.rs:476-483`): it destroys the context,
    which owns the source, and keeps the object it was given. For an object whose
    `__hurray__` answers with a capsule of a tensor it does not keep otherwise, the
    new tensor points into freed memory; line 158 says that `tensor_ref` moves into
    the new bases, and `docs/impl/python-bindings.md:312-314` that any such object
    must be accepted. `PyMemory.cfg` with `Fleeting = TRUE`:
    `BytesOutliveReaders`.
17. **`from_scipy` holds the matrix, not its arrays**
    (`hurray-python/src/scipy_interop.rs:157`): assigning `matrix.data` while a
    tensor shares it frees bytes under the tensor. `PyMemory.cfg` with
    `Reassigns = TRUE`: `BytesOutliveReaders`.
18. **A callback that fails between the tensors of a group** makes
    `hurray_file_writer_write_composite` return the callback's own status
    (`hurray-ffi/src/file/writer.rs:443-455`) although the writer is poisoned then
    (`:339`). Its documentation (`:275-281`) keeps that status for a failure "before
    any byte of the group reached the sink", after which the call "MAY be retried",
    and promises SINK_CLOSED once part of the group is out. `MCFilePipe.cfg` with
    `BetweenTensors = TRUE`: `FileStatusesAreTrue`.
19. **`hurray.load` returns a member twice** from a file with a sorted index when
    the member's name sorts before its head's: names are claimed in the order of the
    index (`hurray-python/src/file_io.rs:294`), where `:246-247` say that members "do
    not also appear under their own names". `MCFilePipe.cfg` with
    `LoadSorted = TRUE`: `SaveLoadsBack`.
20. **Key-values that are read cannot always be written again.** `parse_kv_value`
    accepts an array of no elements, even with element tag 0
    (`hurray-io/src/file/sans_io/sections.rs:167-179`), where
    `docs/spec/file-format.md:162` says that the tag "MUST be `0x01`–`0x06`"; the
    encoder refuses it (`:248`). `hurray-ffi/src/file/writer.rs:365-367` says that
    entries read out of another file "can be passed straight in". Without the clause
    `HasEmptyArray(Pairs)` `RewritesKeepMeaning` is violated in every language. In
    Python a uint64 above the largest int64 is read by `load_kv` and refused by
    `save` with an `OverflowError`, and a smaller one is written as an int64.

Smaller observations. *Streams and files:* `report_sink_closed` after
`mark_unusable` turns the reason `LostWriteCount` into `IncompleteOutput`
(`write.rs:512`), whose documentation says that the count is known;
`DEFAULT_MAX_COMPOSITE_DEPTH` is 64 where `docs/spec/layouts/composite.md:176` sets
8; bytes behind the last entry of a section, and the reserved
flags of an index entry, are read by nobody (`sections.rs:94`); lengths of strings and
of the section are cast to u32 unchecked (`sections.rs:236`). *Addressing:* a bit width of 0 divides by zero (`addressing/mod.rs:115`); a tile
number of 2^63 or more wraps (`tiled.rs:49`); `TiledLayout::new` checks neither the
number of strides nor the inner rank (`layout/tiled.rs:99`); only the first byte of
an element is checked against the buffer (`addressing/mod.rs:122`).
*Descriptors:* `layer_index` `Some(0xFFFFFFFF)` comes back as `None`; a newer-minor
descriptor cut inside its unknown fields is accepted if its length says so;
version 0 is accepted; `ext_type` is decoded without `validate_fields`
(`ext_type.rs:230`); NF4, MXFP and asymmetric per-channel constructors take the
absent-buffer index that decoding refuses; re-encoding a newer-minor descriptor
drops the unknown fields and keeps the minor. *C ABI:* a callback that over-reports
on its first write yields TRANSPORT with the writer usable (`transport.rs:281`); a
missing callback releases the context, a null out-handle does not
(`transport.rs:135`); destroying a null tensor is ERR_INTERNAL, a null list OK; the
same buffer pushed twice is not detected; an array with a null pointer and no elements
makes a slice of a null pointer (`file/kv.rs:278`), which Rust leaves undefined. *Python:* `from_numpy` maps one-byte
NumPy bools to one-bit ones and ignores byte order; `__dlpack__` ignores
`byte_offset` and exports read-only arrays as writable; `__array__` ignores
`copy=True`; `from_scipy` does not check contiguity; `aligned_allocator()` blocks
left out of order leave the aligned handler installed; a `save` that is refused has
already truncated the file that was there; a dict with a composite `"g"` and a tensor
`"g.0"` is refused only when the second of the two is written; `load` with
`names=["g", "g.0"]` leaves `"g.0"` out of its result.

## 5. Proofs

All are checked by TLAPS for every value of the constants that satisfies the
named assumptions (`Frames`, `StreamWrite`, `StreamRead`, `StreamPipe`, `CompositeRules`, `CompositeValidator`,
`FfiStream`, `PyAio` and `PyMemory` state them: lengths are natural numbers, a descriptor is at
least a prefix long, items are made of the nodes given, nodes are finite trees (a `CompositeNode` owns its members), no task is both a writer and
a reader, a tensor that is constructed has a buffer, and a buffer that is read in has
the alignment the reader allocates with).

*`StreamWrite_proof`.* `TypeInvariant`, `WriterNeverSplices`,
`FlagsMatchTheWire`, `RetiredForGood`, `WireHoldsImages`. `NoSplice` speaks of neighbouring bytes
on the wire, so a step that appends a byte has to know how the live operation
relates to the *last* byte: the inductive invariant adds `EmittedIsExact` (the
operation's `emitted` is the rank of the last byte of the current submission, or
zero if none was taken), `UsableMeansWhole`, `TornMeansUnfinished` and
`Bookkeeping` (a lost count leaves the core unusable, an operation that still
offers bytes is not done, and a live operation has torn the core exactly when it
emitted something). `RetiredForGood` is an action property from the same
invariant. None is inductive alone: `NoSplice` needs the flags for a fresh
operation, the flags need `emitted`, `emitted` needs `NoSplice` on the previous
step. For the drivers above the core there is `Driven`, the invariant with what
holds between the steps of a loop that never over-reports, and a lemma for each of the
five things a driver does to the core: `FfiStream_proof` and `PyAio_proof` cite them
through an instance. `WireHoldsImages` is about trees of any shape: what the sink received of an item
is the depth-first image of its tree (`Encoded`, a recursive function), although the code
walks the tree with a stack of frames. The invariant it needs, `OnTrack`, says that what
the operation has yet to emit (`Rest`: the rest of the slice it offers, the payloads after
it, then what is left of every open frame, innermost first) is what the wire does not have
of the image. Then `begin_payload`, which passes over empty payloads, and `next_node`, which pops
finished frames and opens a new one, leave `Rest` as it is; a report takes its first bytes
away; and an operation that is done has no `Rest`. That `Encoded` is well defined is proved
as well (`CodingExists`, `CodingUnique`): it follows from nodes being trees. The type invariant, `UsableMeansWhole` and `TornMeansUnfinished` are proved
and no longer run.

*`StreamRead_proof`.* `ReaderTypeInvariant`, `ReaderDeliversWholeTensors`,
`ReaderLosesNothing`, `ReaderEndsForGood`. The strengthening `Assembling` says that the buffers finished
so far have their handle's size, that `rindex` is the next one, and that `dest`
holds exactly `filled` bytes of `target`. `ReaderEndsForGood` is an action
property: a reader that finished, failed or became unusable never reads again,
whatever is reported to it, by cases on the actions, each of which asks for a
state that is not one of the three or keeps within them. `ReaderLosesNothing` says that
what was taken from the transport is the images of the tensors delivered followed by
what the core holds (`Held`), for every transport content: malformed and truncated
streams included. A step has to know where the core keeps its bytes: `Staged` adds that
staging still holds the whole descriptor, byte for byte, while its buffers are filled,
that `pending` is empty between frames, and that a clean end is met with nothing staged
and nothing left to read. Then `begin_buffer` only moves bytes (empty buffers it passes
over add none), a read appends to both sides, and `take_tensor` moves one image from one
side to the other.

*Concatenation.* Images are concatenations (`Joined` of `Frames`, a recursive function).
`StreamWrite_proof` begins with what `Joined` makes of a sequence with an element more at
either end, of one with empty elements, and of a suffix of one: proved from its definition
by taking the least length at which each would fail. `StreamRead_proof` has the part of
it that it needs.

*`StreamPipe_proof`.* `PipeImplementsChannel`: every step of the two drivers over the
three cores is a step of `ItemChannel` or none, so what `next_item` returns are the items
that were sent, whole, unaltered and in order, a clean end means all of them and a torn
one all but the last. `PipeKeepsCompletedItems`: what the writer reported written is
accepted by the reader. Both are about trees of any width and depth, any cut of the writes
and of the reads, and faults at either end at any time. The invariant has three parts.

- `WInv`, the writer's: the wire is the images of the items begun, one after the other,
  all but the end of the last one, and the whole of that one when it is `done`. An item
  that is cut is the last. It rests on the inductive invariant behind
  `WireHoldsImages` (`EInv`), cited through an instance. `StreamOf` only grows,
  so what the reader has read stays where it is.
- `LInv`, the reader's: `FInv` of the reader core (what was taken is the images of the
  tensors delivered and of the frame in progress) and `Cursor`. A cursor is a place in the
  trees of the items sent: `p[k]` is the k-th head that is open, `c[k]` how many members
  it already has, and each open head is the next node of the level below (`Path`). It ties
  three things that no code relates: the position in the bytes (`Laid`: from there on lie
  the images of the nodes that are left, innermost level first), the stack of the
  assembler (`Heads`: the members so far and the validator as the pushes left it), and
  what was returned (the items before `c[0]`). The writer walks the tree and checks it
  on submission; the reader sees a flat sequence of tensors and checks it again, member
  by member. They agree because `CompositeValidator` is a fold over the members
  (`Seen`): what `LevelAccepted` accepted at once no `push` refuses.
- `EndInv`: a reader that ended has returned everything, or all but an item that was cut.

A read ends a frame where the bytes of the next node end, since its descriptor is decoded
from those bytes (`AtFrame`), and no check of the reader refuses it. A tensor that completes
closes a chain of heads: `CarriedReaches` follows the value that `deliver` carries up
through all of them, by least counterexample, and the cursor goes on at `StopLevel`. An end of input
meets either no bytes and no open head, or an item that the writer did not report
(`CutShort`).

Both theorems assume `NodesWithinLimits`: buffer sizes and descriptor lengths below the
reader's maxima and allocatable, descriptors that decode, composites with members, no
tensor with a head's layout, and a height that `max_depth` admits. Nothing in the writer enforces
it (the limits are options of the reader alone: `read.rs:443`, `:500`,
`composite.rs:122`), and a reader with a smaller limit does refuse what was written.
`MCStreamPipe` and `MCPyAio` state it of their instances as an assumption, so the runs are
inside it.

*`CompositeValidator_proof`.* `PartitionIsDisjoint` (no cell of a partition has
two owners: members that share a cell fail the pairwise test, saturation of the end
coordinates included), `CoverageDecided`, `OverlayHasABase` and
`RecordMatchesPushes`. Strengthening: the recorded boxes are those of the members
pushed and end within the head, the base is member one, and a closed validator has the
declared number of members. `CoverageDecided` says that the test of `finish` is exact:
a partition it accepts has an owner for every cell, and one that covers every cell once
is accepted. For that the arithmetic of the code has to be a count of cells.
`VolumeCounts`: the checked product over the dimensions is the number of cells of the
box, and overflows as soon as the product of the first few dimensions does (a box of
`k` dimensions is in bijection with one of `k - 1` times an interval). A member lies in
the head, in the first `k` dimensions too, so its partial products fit when the head's
do (`MemberIsCounted`). `CoveredCounts`: for boxes that do not meet, the checked sum is
the number of cells they hold together, and it does not overflow in a head whose volume
fits. A subset of a finite set with as many elements is the whole set. Conversely
non-empty boxes that fail the pairwise test share the cell at the larger of their
offsets (`OverlapSharesCell`). That nothing is left uncovered has the hypothesis
`Volume(head.shape) # Overflow`, which is finding 1: past it the code compares nothing.
That an exact cover is accepted has none.

*`PyAio_proof`.* `OperationsBelongToTheirCalls`, `AwaitedWritesAreHonest` and
`AwaitedReadsResume`. First: an operation of the asyncio writer
is in flight exactly while the `write()` that submitted it is, at most one at a
time, with its payload pinned for as long, for any number of tasks and
cancellations. The inductive invariant is `OneOperationPerWrite` with the type of
the tasks. Most steps leave the writing side alone or go on with the same call:
`GoesOn` says so once, and the steps that remain are those where a call begins,
returns, is cancelled or fails. On top of it, what the calls report: a `write()` that
returned has its whole item on the pipe and one that raised has not, the writer is
poisoned between calls exactly for an item cut short or a `write(2)` that took nothing,
and no call is told "poisoned" before another failed. This needs the write core
(`Driven`, through an instance, as for the C drivers), that the loop runs one task at a
time (`Loop`), and that a suspended writer has bytes left to offer (`Waiting`): a
cancellation meets an operation that is not done, so the item it abandons is not one that
was written.

`AwaitedReadsResume` is about the other end, under the `NodesWithinLimits` of
`StreamPipe_proof`: what `next_item()` returned are the first items written; it returns
`None` only after all of them, each of which was reported written; it raises only when the
writer is closed and left its last item unfinished. Every step of a task on the cores is
one that the invariant of the pipe admits, so `PInv` is cited through an instance (the
`Same...` lemmas say that both instances of a core are one), and the steps of the loop
leave it alone. What this driver adds is `Fed`: it never loses a count, and an operation
that is over was done or left the wire short of the item (`Short`), because `Waiting` says
that a `write()` is abandoned only with bytes to offer. A closed writer whose items were all
returned is not short, hence its last item is done (`CleanMeansDone`), and the earlier ones
are (`EarlierDone`). `Heard` ties the last answer to the state of the reading side.

*`FfiObjects_proof`.* `HandlesFreedOnce` and `PointersStayGood`: for any number of
handles, lists of any length and release callbacks that call the library again to
any depth, every handle is freed once and every callback called once, nothing is
left when the C program has destroyed what it holds, and no pointer it may still use
dangles. The inductive invariant is unique ownership, `Ownership(h, fr, H, hand)`: an
allocation that is not freed is held by the C program, or is in one slot of one
other allocation, or is the argument of a destroy function on the stack, or is
`hand`. The *hand* is there because a teardown loop takes a pointer out of its slot,
then calls the destroy function on it: in between nobody else owns it, and the
lemmas about taking, freeing and calling compose through it. `Framed` (what is
marked and not freed is on the stack) ties the sentinel to a destroy function still
under way, so that an empty stack means nothing is half destroyed. `TensorBytes` and
`QuietInside` are about re-entry: the list inside a tensor holds only buffers the
library allocated, so no callback runs while the destroy function of a tensor or an
item is on the stack, and the C program never sees one of those half torn down.
Both theorems assume `Debug`: the
sentinel that a second destroy meets is a debug assertion, and a release build
really frees twice when a callback destroys the list it is released by (section 4),
so the hypothesis cannot be dropped.

*`FfiStream_proof`.* `StatusesCanBeActedOn` and `ContextsAreReleased`: for every array
a C program passes, however its callbacks cut the transfers or fail. `Told` says what a
status says while a later call is under way too; it is inductive with `WriteCalls` (the
call under way is the last submission, and what returned is about an earlier one) and
`Driven`. Most steps change nothing that was told (`GoesOn`); a submission and a return
are the two that do.

*`PyMemory_proof`.* `BytesStayForReaders`, `EverythingIsReleasedOnce` and
`DeclarationsAreTrue`: for any number of objects and buffers, and calls and `del` in
any order. That no object points into freed memory is a fact about a chain of owners,
which no single step sees; it follows from three facts that are local. The count of
an object is the number of references to it (`CountsWith`: from objects that still
own theirs, from the names of the program, from a call under way). A reference leads
to an *older* object (`Older`; a view refers to a tensor, a tensor to the array or
matrix it was made from). What an object points to is its own, or is kept by what it
refers to (`Kept`). An object is finalised when its count is zero, so nobody refers to
it; if somebody pointed to what it owns, the oldest such reader (`NoOtherReader`)
would be covered by an older one that does too. Nothing is left when the program
holds nothing, because the newest object left (`NothingIsLeft`) would have a count of
zero. A call counts a reference before an object owns it, or takes it from one before
it is uncounted: `Loose(m, h, H, c, s)` is the invariant with the references `s` in
hand, and each operation is a chain of steps from `Loose` to `Loose`. The capsule of a
`__hurray__` that failed owns nothing it refers to and is the newest object
(`Newest`), so it is finalised before anything else happens. `BytesStayForReaders`
assumes `~Fleeting` and `~Reassigns`, which are findings 16 and 17: the runs with
either show the theorem false without them. `EverythingIsReleasedOnce` assumes
`~Reassigns`, since an array that is assigned to the matrix it came from makes a cycle.
`DeclarationsAreTrue` assumes neither.

**Only model-checked.**

- Liveness (`EverythingArrives`, `EveryCallEnds` and the others under fairness): out of
  the prover's reach.
- `GroupingIsExact`: its reference definition is recursive over trees. For the trees that a
  writer sends, that grouping is exact is part of `PipeImplementsChannel`.
- `StreamReadsBack`, the same over the C drivers, which may be called in any order and
  leave a reader unusable.
- Addressing (`AddressesAreExact`, `NoTwoElementsShare`, `NeighboursStayTogether`,
  `IndexedElementsAreFound`): the modules use `Bitwise` and compute by recursion over the
  index.
- The codec and the sections (`SurvivesTheWire`, `OneReadingOnly`,
  `QuantizationIsUsable`): what a recursive parser makes of every input.
- Everything about files.

## 6. Not modelled, and the plan

*Not modelled.* Accessors, status tables,
names and formatting have no state. The dequantization formulas are floating
point. Allocation is a call to the allocator. The rest of the Python bindings
(array constructors, blocking stream drivers, conversions, printing, `to_scipy`,
`to_torch`), the inspector, the conformance tools and the facade crate convert or
print. About two thirds of the lines of the implementation files are inline tests
and documentation comments, which no definition translates; the mapped share of
all lines is low for that reason.

*Next.* The blocking stream drivers of Python over the stream cores. Theorems: the
file writer's type correctness and `IndexMatchesFile`; the invariant of the pipe
for the C readers.
