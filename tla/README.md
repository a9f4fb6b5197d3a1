# Verification of the web-driver HTTP client

TLA+ models of the C code under `driver/` (an HTTP client with its own memory
pool) and `tools/` (vectors and allocation), TLC configurations that check them on small instances, and TLAPS proofs.
File and line numbers refer to the files of the repository; plain line numbers
in this document are lines of `driver/client.c`.

## 1. The system

| component | state | operations | hard behaviour | what makes it correct |
|---|---|---|---|---|
| memory pool, 351-540 | `__mp__`, `__free__`, `__tail__`, the 16-bit capacity in front of each chunk, links in the chunks' first words | `webdriverMemoryPool`, `Get`, `DeleteChunk`, `GrowChunk`, `Delete` | links live in memory the callers used; stale pointers; long sequences of legal calls | chunks never overlap; the list is what was given back; no chunk in two hands, none lost; memory refused only when there is none; the walk ends |
| request buffer, 209-349 | `buf__`, `bufsize__`, `bufc__`, `malloc__` | `webdriverSetbuf`, `Unsetbuf`, `SetHttpCmd`, `AddHttpHeader`, `RawHttpHeader`, `BufferUsed`, `ShowHttpHeaders` | growing and resuming in the middle of a line; realloc that moves; failure in the middle | nothing written past the block; a line is there as a whole or as a prefix; earlier lines survive; the caller's memory is never freed, and of the client's own only what a moving realloc answered is lost |
| client creation, 83-208 | a client block, a descriptor, an address list | `webdriverCreateClient`, `webdriverDestroyClient` | every library call may fail after others succeeded; a loop over addresses | what was acquired is given back on every path; the recorded address is the socket's; the loop ends |
| error numbers, `client.h` 187-190 | none | `webdriverError` | a number that means failure and is 0 | every failure is seen |
| object table, 542-656, `object.h` | 28 pointers and 4-bit ids per table | `webdriverObject`, find, add | open addressing with a cache of ids | an object added is found |
| aligned allocation, `tools/memtool.c` | the distance to the raw block, kept before the payload | `mvpgAlloc`, `mvpgDealloc` | rounding after the slack was added | payloads keep apart, free gets the raw address back, a payload lies in its block (it need not) |
| vectors, `tools/v_base.h` | capacity, use, elements, the block's bytes | push, pop, insert, shrink, clear, map | limits; sizes and indices that wrap | the items in use are a stack; use never passes capacity; an index let through is an item inside the block; map visits every element |
| safe arithmetic, `tools/include.h` 110-146 | none | checked multiply, checked multiply and add | width | a size that overflows is refused |
| integer to text, `tools/include.c`, 66-81 | the digits written, two pointers | `MvpgInclude_Itoa`, `uitoa` | digits turned round in place; sign, zero; an unsequenced read | the digits are the number's, the length is the text's, it ends |
| format masks, `tools/v_misc.c` 225-287 | a mask of 16 bits, the entry of the character before | `formatMask`, `valInt` | bits kept from one character to the next; repetitions; an unsequenced read | one type and one length; length and base as meant |

The request buffer and the client's socket are fields of one
`Webdriver_Client` and are created and destroyed together. The object table
takes its tables from the memory pool. Vectors take their memory from the
aligned allocator and size it with the safe arithmetic. All calls are
synchronous: there are no callbacks, no messages and no shared state beyond
the structs. The code runs in one thread, as `_LOCK` and `_UNLOCK`
(`client.h:76`) are empty and no call in the repository shares anything between
threads; what is concurrent is the caller's use of several
chunks and pointers between calls, and what the library calls answer.

The hazards of this code, each at its line, with the properties that would
catch them, are listed in `PROJECT.json`.

## 2. The modules

### MemoryPool: the pool as the code has it

The pool is a block of `PoolSize` bytes. Addresses are offsets from it, so the
layout is byte by byte: `mp` is `__mp__`, `Top` is `__tp__`, `header[c]` is the
16-bit capacity written in front of chunk `c`, whose domain is the chunks
carved so far. Of a chunk's payload only the first word is kept, since that is
where the list's links live: `word[c]` is a chunk's address, `NULL`, or `Data`,
bytes of the caller. `ptr` holds the callers' pointer variables. Two history
variables, `owns` and `freed`, say what the callers may use and what they gave
back; no guard of the code reads them.

| action | code |
|---|---|
| `CreatePool`, `DeletePool` | 365-384, 478-489 |
| `Get`, through `StartGet` and `Fits` | 442-457, 415-440, 412 |
| `ScanStep`, `ScanTake`, `ScanMiss`, `ScanWild`, one turn of the list's loop each | 386-401 |
| `DeleteChunk`, through `Recycle` and `ClearsPointer` | 459-476 |
| `GrowToNothing`, `GrowInPlace` or `ShrinkOutside`, `GrowByMoving` with `ReturnGrow` or `CopyOutside` | 491-523 |
| `Write` | a caller storing bytes in its chunk |

Three actions are undefined behaviour, after which the model stops: `ScanWild`,
the loop dereferencing the callers' bytes; `ShrinkOutside`, the `memset` of
504-509 that starts as many bytes behind the chunk as are given up and runs past
the pool's block; and `CopyOutside`, the `memcpy` of 517, which copies the bytes
asked for (`call.asked`) from a chunk that has fewer, and reads past the block
when the chunk found lies below. A copy whose source meets the new chunk just
above it is undefined as well; it is left in `ReturnGrow`, because what it may
garble is the callers' bytes and never the first word, the only one kept here,
and the allocator goes on. `Unlink` keeps the code's three-way choice at
397-398 as it is, `Recycle` its early return at 466-470, and `GrowInPlace` its
`memset` at 504-509, computed over the headers and first words it covers.

### CarefulPool and ChunkQueue: what the pool promises, and to whom

`CarefulPool` is the same pool, same actions, under callers that keep off four
steps of the code that go wrong: taking the last of several recycled chunks
(398), shrinking to less than half (504-509), growing a chunk to a size that
would lead from it past the block's end (517), and using a pointer that the
first deletion left set (466-470). `ChunkQueue` is the abstract specification:
chunks of unchanging capacity, and a first-fit queue of the ones given back,
without addresses, links or walks. `CarefulPool!ImplementsQueue` is the
refinement, with a call taking effect when its answer is known. It is a
statement about safety: every step of the pool is a step of the queue or
changes nothing of it.

### HttpBuffer: joining lines

`buf`, `text`, `live`: which block `buf__` points to, its bytes, and whether it
is still allocated. A byte is a triple (string, length, position), so that a
property can tell where it came from. An add is a small machine with the states
`join` (one string per step, `strroutine_Join`) and `grow`
(`webdriverGrowbuf`), as realloc may refuse, extend in place, or move. Since
the code drops realloc's result (243), a move leaves `live` false and the new
block without an owner: two history variables, `blocks` and `lost`, count the
blocks of the client's own that are allocated and those of them whose address
was dropped.
`webdriverGrowbuf` ends without a return (249): its caller goes on or gives up.
Undefined behaviour ends the model in `wild`, with the cause in `result`.

`RequestText` is the abstract specification: the text of a request, to which a
line is added as a whole, or in part when the caller is told `EOMEM`; no sizes,
no growth, no resumption. `HttpBuffer!ImplementsText` is the refinement. An add
takes effect when its answer is known; until then the text is what it was
(`call.before`). A buffer that realloc moved, or undefined behaviour, maps to
`lost`, after which the abstract text promises nothing.

### ClientSocket: creating and destroying a client

`webdriverCreateClient` as steps `CreateClient`, `Resolve`, `TryAddress` or
`SocketFails` per turn of the loop, `Finish`, or `Connect` for a client with a
port. Every library call fails or succeeds; `getaddrinfo` finds any list of up
to `MaxAddrs` addresses for a name; `fds` holds the process's open descriptors
with their family and what they are bound to. The digits of the port and the
bytes copied into `addr__` are left out. `MCClientSocket` adds `webdriverError`.

### WebClient: a client's whole life

Composes `ClientSocket` with an instance of `HttpBuffer`: the buffer is used
while the caller has a client, and `webdriverDestroyClient` closes the socket,
unsets the buffer and frees the block in one step.

### AlignedAlloc: the manual aligned allocation

`tools/memtool.c` 48-91, for systems without an aligned allocation of their own
(elsewhere `mvpgAlloc` passes through). `blocks` holds the raw blocks by their
address with the size asked for, `offset` the two bytes in front of each
payload, the distance back that free needs. malloc answers any address of
`Raws` whose block meets no other. `NativeAlignedAlloc` and `Fill` store bytes
at absolute addresses, so an offset they meet, anybody's, is `Garbage`
(`AfterStore`); `NativeAlignedFree` goes back by what it reads. The branch does
not build as it stands: `MvpgMalloc` (90) passes three arguments to a function
of two, and 103 takes a returned pointer for an error number. What is modelled
is the function. What lies between two raw blocks, malloc's own bytes, is left
out, so that a store there harms nobody in the model, and so is the wrap of
71 for sizes within the slack of `SIZE_MAX` (see the hazards).
`MCAlignedAlloc` adds what the comment at 53 says the slack is for.

### Vector and ItemStack: vectors are stacks

`Vector` has the cells behind the header of `tools/v_base.h` (capacity is their
number) and `used`. One action per operation: `Create`, `Push`, `Pop`, `Insert`,
`Clear`, `Map`, `Shrink`, `Destroy`; and one for each way an operation goes
wrong: `PushFull` (the resize at 225 is a stub, so the item is written behind
the block), `PopEmpty`, `InsertOutside`, `MapEmpty`, `ShrinkFails`. Those end
the model, `aborted` by an assertion or `wild`. `Checks` says whether
`VEC_assert` is compiled in. `ItemStack` is the abstract specification, a stack
whose items may be replaced and which may be cut to a smaller bound; the
refinement maps a vector to its first `used` cells, so an insertion behind the
use is a stutter.

### SafeArith and VectorBlock: sizes and indices

`Vector` takes for granted that `n` cells exist. `VectorBlock` has the bytes:
what is asked for when a vector is made or cut (`BlockBytes`), in the checked
arithmetic of `SafeArith`, and which item an index means (`VEC_cvtindex`,
`Accepted`), in arithmetic that wraps at `MaxWord`. An assertion that fails
ends the model in `aborted`; `VEC_shrink` to more than the vector holds reads
past the old block (236) and ends in `wild`. The models are of builds with
assertions: with `NDEBUG` the arithmetic of `include.h` 128-143, which stands
inside `assert`, is gone.

### IntegerText: digits

One call of `strDec`, `strHex` or `uitoa` at a time, a digit per step
(`StoreDigit`), then one swap per step (`Rotate`). A text is a sequence of
characters. `uitoa` divides `n` and subtracts from it in one expression (73)
whose order the language leaves open, so each of its digits may be another
character; its length and its NUL are still determined.

### FormatMask: formats

One character of the format per step (`ReadChar`); the mask is the set of its
bits. `mapChar` is the table, `clrMask` which bits a character keeps,
`setNewMask` which it sets. The line's other unsequenced read (`v_misc.c:283`)
is `readsMapped`, chosen once, as a build does.

### MCTools

The five modules `Vector`, `VectorBlock`, `IntegerText`, `FormatMask` and
`AlignedAlloc` know nothing of one another. `MCTools` runs one at a time from its initial state
while the others rest, so that one run covers them without their product.

The operators whose comment begins with "Mutant" are plausible bugs. Nothing
uses them; `PROJECT.json` names, for each property, the one that breaks it.

## 3. What TLC checks

| run | question | size and why it is enough |
|---|---|---|
| `pool_mixed` | What survives any use? `TypeOK`, `ChunksInPool`, `ListUsable`, `AnswerFits`, `CopyStaysInBlock`, `CallAnswers`; and does a new pool serve every size up to its limit, `MaxAllocServed`? | 45 bytes, of which the pool's struct takes 8: up to 3 chunks of several capacities, the largest size admitted and one above, growing above and below the old chunk and past the block's end, shrinking below half inside the block and past it, deleting through stale pointers. 61109 states; all four ends of the walk occur. |
| `pool_careful` | Is it a queue under careful callers? `FreeListIsFreed`, `NoDoubleHandOut`, `Conservation`, `RefusesOnlyWhenFull`, `WalkOnList`, `ImplementsQueue` | 61 bytes, up to 5 chunks: lists long enough to have a head, a middle and a tail. 45963 states. |
| `pool_frees_counted` | Does the list count the frees (`driver/test/mempool.c:85`)? Violated | 60 bytes, three callers, two sizes |
| `http_buffer` | `TypeOK`, `SpaceAccounted`, `NoWriteOutside`, `HeapAccounted`, `AnswersTell`, `GivenBufferSafe`, `ShowsJoined`, `AddAnswers`; does it implement `RequestText` (`ImplementsText`)? | Blocks of 0 to 9 bytes, 3 more per growth, `SizeMax` 13: a line needs one, two or more growths, and the size runs into the limit. 134928 states. |
| `http_join` | "attempt to join until success or memory error" (295)? Violated | as above |
| `client_socket` | `TypeOK`, `ResourcesAccounted`, `AddressIsSockets`, `DomainHonoured`, `CreateAnswers` | 2 descriptors, so that they run out; 2 addresses, so that the loop has a next one and a family may be first, second or absent. 11281 states. |
| `client_tried` | Is every address tried (132)? Violated | as above |
| `client_failure` | Is every failure an error (`driver/test/test.c:12`)? Violated | as above |
| `web_client` | `NothingWithoutClient` | Both with the smallest buffers that still grow. 638881 states. |
| `aligned_slack` | Does the slack cater for the worst case (`memtool.c:53`)? Violated | Every residue of the raw address. |
| `tools` | `TypeOK`, `ImplementsStack` of vectors; `CellsInBlock`, `IndexMeansCell` of their blocks; `TextIsRight`, `ConversionEnds` of integers as text; `OneReading`, `LengthAndBase` of formats; `FreeFindsRaw`, `PayloadsApart` of aligned blocks | Vectors: capacities 0, 1, 3, two items, indices from the end and the start, inside and outside: cut below and above the use. Blocks: words of 10 bits (`MaxWord` 1023), a header of 24 bytes, item sizes 0, 1, 4, 8, capacities on both sides of each overflow (249 and 250 items of 4 bytes, 124 and 125 of 8, 999 and 1000 of 1), indices at both ends of their types. Text: numbers of one to four digits in base 10, one to three in base 16, and the negation of each. Formats: up to 4 characters of 16, both orders of evaluation. Aligned blocks: alignment 4, offsets of 2 bytes, raw addresses 1 to 20, sizes below, at and above the alignment: every residue, and two blocks side by side. 157678 states. |
| `vector_map` | Is the function called on each member (`v_base.h:166`)? Violated | as above |

The bounds are the values of the constants; no run has a state constraint.
`PoolSize` bounds the chunks (a header and at least 8 bytes each), `SizeMax` the
buffer, `Descriptors` the sockets, `Raws` the raw blocks, `MaxBound` the
vectors, `MaxWord` every size in bytes, `MaxFormat` the formats (the mask
depends on the last two characters and bits kept from before; four hold a
length read twice, a `#` and a type). Sizes of callers are multiples of the word
and sizes that have to be rounded up; growth asks for less than half, half,
more than the chunk, and nothing. A size of 0 is left out of `Sizes`: a chunk
of 0 bytes would have its link in the next chunk's header (see the hazards).

**Fairness.** `WF_vars(Continue)` in each component (`TextFairness` in
`IntegerText`), and nothing else: a call
that was started runs on, because it waits for nobody, and the library calls it
makes return. That callers call is not assumed. Under it every call answers
(`CallAnswers`, `AddAnswers`, `CreateAnswers`, `ConversionEnds`): the first says the walk over a
list in callers' memory never becomes circular, which is not obvious when
chunks can be given back twice.

**Deadlock** is checked except where the model can end in undefined behaviour,
which has no next state: `MemoryPool`, `HttpBuffer`, `WebClient`, and in
`MCTools` `Vector` and `VectorBlock` (which may also stop at an assertion) and
`FormatMask` (a format ends). Careful
callers never get there, so `pool_careful` checks it.

### Findings

1. `free_firstFit` takes the last of several recycled chunks by moving
   `__tail__` only (398); the node before keeps a link to a chunk that is in
   use. Violates `FreesCounted`, and is the first thing careful callers avoid.
2. `webdriverGrowbuf` has no return behind a growth (249), so that a line may
   be given up although memory was granted.
3. The result of `bind`, 0 or -1, is compared with `EADDRINUSE` (149): the loop
   ends with the first address whatever it answers, and its socket stays open.
4. `WEBDR_EOMEM` is 0, which `webdriverError` (`client.h:189`) does not take for
   an error; `WEBDR_SUCCESS` is 8, which it does.
5. `VEC_map` stops at the last item without calling the function on it
   (`v_base.h:175`): of two items the first only, of a single one none.
6. `NativeAlignedAlloc` asks for a slack (`memtool.c:53`) of 33 bytes more
   than the payload and rounds up after adding it (74), which moves the payload
   by up to 64. With an alignment of 4 and offsets of 2 bytes, a block for 1
   byte at address 1 has bytes 1 to 6 and its payload at 8. The payload meets no
   other payload and no offset nonetheless, as long as all blocks come from this
   allocator: the next one's begin at least as far behind its start (proved).
   What it may meet is what malloc keeps between blocks, or other blocks of
   malloc's.

What the models of `tools/` have as the code has it, and a reader may not
expect: 0 becomes the empty text; `strHex` does not count `0x` in the length;
`"hh"` sets bit 1, which nothing reads and `d` drops, so that `%hhd` is an
`int`; `"LL"` sets the bit of `#`; `i` and `d` set the bit that is named
`USIGNED` and `u` the next one (`v_misc.c` 258, 272), while printing looks for a
minus where `USIGNED` is not set (215), so that it would take the sign of
unsigned numbers only. `LengthAndBase` therefore says nothing of the sign and of
`hh`. There is no run for the sign, since nothing in the repository says which
bit is meant.

One more, which no run shows: `webdriverMemoryPoolMaxAlloc` has two definitions,
of which the header's (`client.h:110`) leaves no room for rounding up, so that a
new pool would refuse the largest size it admits (`Spare` = 0 in `MemoryPool`;
`LimitServed` says what is needed). The two do not compile together; the models
follow `client.c` (363).

## 4. What is proved

For `MemoryPool` and `CarefulPool`: for every pool size, header size, alignment, set of callers and of sizes
that satisfy the named assumptions of `MemoryPool`: `PoolAssumption` (the sizes
are natural numbers, the struct is at least a pointer wide and leaves room for
a header, addresses fit 16 bits), `SizesAssumption` (sizes of requests are
positive, sizes to grow to are 16-bit) and `ValuesAssumption` (`NULL` and `Data`
are no addresses).

**`MemoryPoolProofs`: whatever the callers do.** `PoolInv` is inductive: it is
`TypeOK`, `ChunksInPool`, `TailWritable` and `AnswerFits` together with
`CallOK`, which says what a running call carries from step to step. They hang
together: `ChunksInPool` needs the type of `header` for the `memset` that may
erase a neighbour's capacity (a cleared byte never makes it larger);
`TailWritable` needs `CallOK`, that a walk which has started has a list under
it; `AnswerFits` needs that nothing changes a capacity between finding a chunk
and returning it. `CopyStaysInBlock`, which is about a copy into a chunk above
the old one, follows from the layout; into a chunk below, `CopyOutside` is a
step of the specification. The steps that are undefined behaviour change nothing
but where the call is (`UndefinedInv`). Theorems:
`TypeCorrect`, `Layout`, `AnswersFit`, `CopyInside`.

`ListStaysUsable` is the deepest of them: the list never becomes circular, even
when chunks are given back twice and the last of several stays linked (398).
`PathInv` says why. The chunks that can still be reached from the head are a
path, each once, that ends in `NULL` or in a caller's bytes; a walk is at a
chunk of the path with its predecessor in hand; and a chunk found that is still
on the path is its end, right behind the tail, so that recycling it later
writes over the very link that dangles. Recycling appends behind the tail
(`RecyclePath`), which cuts off whatever the path had there (`CutPath`), and
`NoCircle` turns a path into the absence of circles. `WalkDescends` follows:
each turn of the loop leaves fewer chunks ahead of the walk (`Ahead`), a finite
set, since a chunk on no circle is not ahead of the one it links to
(`LinkLeavesBehind`).

`LimitServed` says that a new pool serves every size up to the limit of
`webdriverMemoryPoolGet` if the limit leaves room for rounding up
(`MinAlloc <= Spare + 1`), as 363 does and `client.h:110` does not; `NewPoolInv`
carries it through the calls made before a first chunk is carved.

**`CarefulPoolProofs`: under careful callers.** `CarefulInv` adds the list, with
`FreeListIsFreed`, `NoDoubleHandOut`, `Conservation`, `RefusesOnlyWhenFull` and
`WalkOnList`, and four parts that make it inductive: every capacity holds a
link, so that the `memset` of a careful shrink reaches no other chunk
(`ChunksHoldALink`); a walk has a request that did not fit above `__mp__`
and was safe to make (`ScanKnows`); a caller who asks has no chunk
(`GetterIsEmpty`); the bytes a growth copies are in the block (`CopyMeant`), so
that `CopyOutside` never happens (`NoCopyOutside`). The steps that matter are `ScanTake`, where the node is the
head, in the middle, or the last one (which the discipline leaves only when it
is the head), and `ReturnGrow`, which appends the old chunk. Theorems:
`ListIsQueue`, `HandedOutOnce`, `NothingLost`, `RefusalsJustified`,
`WalkStays`.

`PoolIsQueue`: `CarefulSpec` implements `ChunkQueue`, under the assumptions of
`MemoryPool` and `NoStaleDeletes`. `QueueStep` maps every step: creating and
deleting the pool to `Open` and `Close`; carving a chunk and taking one from the
list to `Get`, or to `Swap` when a chunk grows; deleting to `Put`; the walk, the
return, shrinking and writing to stutters. It needs all of `CarefulInv` (that
the chunk the walk stops at is the first that fits is `WalkOnList`, that
shrinking keeps capacities `ChunksHoldALink`) and `CallMeant`, that a walk looks
for a size callers ask for.

`OneSizeIsCareful` and `OneSizeIsQueue` say who the careful callers of this
repository are: callers whose sizes all round up to one capacity, and who grow a
chunk to nothing or to at least half of it (`OneCapacity`), as the object table
does with its tables (552-563). Every chunk then has that capacity
(`AllAlike`), so that never only the last one fits, no chunk grows by moving and
no `memset` reaches past its chunk: the restrictions of `CarefulNext` on sizes
hold of every step. What they still have to do is not to
use a pointer they gave back (`NoStaleDeletes`).

**`AlignedAllocProofs`**: for every alignment, offset size, set of addresses
and sizes with `AlignAssumption` (the distance fits two bytes; of the code's
macro for rounding up only the arithmetic meaning is used) and
`AddressAssumption`. `AllocInv` adds `RawsApart`, what malloc promises, to
`AllocTypeOK` and `FreeFindsRaw`. The argument is `InsidesApart`: everything stored
for a block lies between `Slack - OffsetSize` and `Slack + Align - 1 + size`
bytes from its start, a window as long as the distance to the next block's.
Theorems: `FreeIsRight`, `PayloadsKeepApart`.

**`VectorProofs`**: for every set of items, capacities and indices. `TypeOK` is
inductive by itself; `StackStep` maps every step of a vector to
one of `ItemStack` or a stutter, comparing the first `used` cells before and
after. Theorems: `UseWithinCapacity` and `VectorIsStack`, the
refinement, for every capacity. Of the blocks, for every width, header, set of
item sizes, capacities and indices that satisfy `WordAssumption` and
`BlockAssumption`: the inductive invariant is that a vector's block has exactly
the bytes its header and cells take, computed without wrapping; that an index
lies below the capacity then puts its cell inside (`IndexedItemsInBlock`) and
excludes that its conversion wrapped (`IndexedItemIsMeant`).

**`HttpBufferProofs`**: for every `SIZE_MAX`, growth, size and length that
satisfy `SizeAssumption` and `StringAssumption`, and whether or not realloc moves blocks.
`BufferInv` is inductive. It adds to `TypeOK` and the four invariants that the
text and the strings of a line are sequences of bytes, that without a buffer
nothing is free and no block is there (`NoBuffer`: else a string could be
copied to nowhere), and that a call which adds to a buffer of the caller's has
its block and does not pass the end of its line (`GivenLives`: such a buffer
never grows, and only growth resumes behind the table or moves the block).
`PutKeepsLength` and `StrIsSeq` say what writing does to a block. Theorems:
`TypeCorrect`, `AccountIsRight`, `WritesStayInside`, `GivenBufferIsSafe`, and
`HeapIsAccounted`, which says that the loss at 243 is the only one: the blocks
there are, are the one `buf__` owns and the one a move lost, the latter exactly
while `buf__` points to what realloc freed. `AddDescends`: joining and growing bring every call closer
to its answer, by a measure made of the strings left and of the bytes the block
is short of `SIZE_MAX`; it is the action property from which, with fairness,
`AddAnswers` follows.

**`RequestProofs`**: what the buffer's text says, under the same assumptions and
`MoveAssumption`. `TextInv` relates a call that is under way to
the text: the text in use is the text before it and the strings reached so far.
`AnswersAreTrue` (`AnswersTell`) and `BufferIsRequest` (the refinement of
`RequestText`, one step of the machine at a time) follow from it. `ShownIsJoined`
(`ShowsJoined`) is inductive given `BufferInv` and `TextInv`: whatever the
buffer, the text in use has no NUL, and no byte behind it is a part of a line: it
is zero, what a caller's buffer came with or growth added, or raw text. That it
ends in a NUL it does not say, as a full buffer, one that grew and a caller's
need not have one (see the hazards). `FlattenSeq` is a recursive
function of the library; what it does to a line with one more string, which
needs an induction, is proved from its defining equation and the least
counterexample (`NatLessThanWellFounded` and `WFMin` are first-order), since the
library's induction theorems themselves cannot be instantiated here.

**`WebClientProofs`**: of the socket, for every set of descriptors and hosts and every
length of the lists getaddrinfo finds, with `ConfAssumption`. `ClientInv` adds
to the four invariants where a call is and what it then holds (`Progress`),
that the loop ends with an address of the list and a socket of its family
(`Chosen`), and the count of descriptors within a call (`Counted`): they say
that the first turn of the loop is the last, because bind answers 0 or -1 and
149 compares that with `EADDRINUSE`. `FirstIsLeast` and `CandidateFits` say
that the address looked at is one of the list and of the family asked for, if
one is. Theorems: `TypeCorrect`, `ResourcesGivenBack`, `AddressMatchesSocket`,
`FamilyHonoured`, and `CreateDescends`, that at most three steps follow the
allocation. Of the whole client: `ClientIsBoth`, that every behaviour of
`WebSpec` is one of `ClientSocket` and one of `HttpBuffer`, so that what is
proved of either holds of their composition; and `NothingIsKept`
(`NothingWithoutClient`), from both and from `TogetherInv`: without a client
there is no buffer and no call of one, and the blocks there are is what the flag
says.

**`TextProofs`**: of integers, for words of every width (`WordAssumption`,
`NumbersAssumption`), that the text is the number's digits and reads back as it
(`TextRight`). The proof carries the quotients that the loop goes through
(`Chain`): the digits written tell the number down to what is left (`Tells`),
each step adds one, and each swap of the rotation moves two to their places.
`ConversionDescends` bounds the steps by what is left of the number and the
digits still to turn. Of formats, of every length (`FormatAssumption`):
`ReadOneWay` (`OneReading`) by itself, and `LengthAndBaseRead` (`LengthAndBase`) from
`MaskInv`, which says for each of the twelve beginnings of an integer's format,
with and without `#` and a length, which bits and which byte are kept when it
has been read (`Begun`).

**Only model-checked** are the four liveness properties, `CallAnswers`,
`AddAnswers`, `CreateAnswers` and `ConversionEnds`, since fairness and `ENABLED`
are out of the proof system's reach. What they rest on is proved: each step of
a walk, an add, a creation and a conversion descends a measure (`WalkDescends`,
`AddDescends`, `CreateDescends`, `ConversionDescends`), so that none of them
goes on for ever; what TLC adds is that a step is always possible. Of the six
properties that are expected to be violated nothing is to be proved.

## 5. What is not modelled, and why

- **Object table** (542-656): being rewritten. It uses macros
  (`ObjectCount`, `ObjectCache`, `ObjectID`, `webdriverObjectNItem`) and fields
  defined nowhere, so what adding and removing do is not determined.
  `webdriverObject` itself only takes a table from the pool.
- **The linked and the extensible pool**: `#if`-ed out or empty in the code.
- **Threads**: the locks are empty, and no call in the repository shares a pool.
- **The bytes of a chunk behind its first word**: the pool does not read them.
  That shrinking erases bytes the caller keeps follows from 504-509.
- **Sending and receiving**: no function connects, sends or receives.
- **Of vectors**: append and sort are stubs, slice copies to a pointer it never
  sets, and foreach, delete and pop with an index do not compile. Of allocation:
  `mvpgRealloc` is a stub.
- **Of the tools' functions**: the fall-back tests of overflow
  (`include.h` 122-123), whose parentheses do not match; `__bsafeUnsignedAddl`,
  which nobody calls; the division for ARM (`include.c:20`), whose macro is
  defined nowhere; `MvpgInclude_strlcpy`, which is unimplemented; the read-only
  macros of vectors (`VEC_isempty` is inverted and names a variable of its
  own). Printing of vectors (`v_misc.c` but for 225-287) does not compile and
  formats floating point, which TLC does not have. Characters from 127 on
  index past `mapChar`.
- **Macros** (`macro/`), **numeric experiments** (`test/`, `driver/test/*.c` other
  than those quoted), **web pages** (`web/`), **documents**: no state, or not
  part of the program.

## 6. Plan

Done: the pool, the buffer, the client, their composition, the aligned
allocation, vectors and their blocks, integers as text, and formats, each with
its proofs; every safety property and refinement that a run checks is a theorem
for all values of the constants. The project keeps to twelve runs, so that all
of them stay a matter of minutes, and to eight modules of proofs, so that those
about one component stand together. What is left:

1. The number of steps of an add in terms of the line and the growth alone,
   which the measure of `AddDescends` bounds only by `SIZE_MAX`.
2. When the object table is finished in the repository: the table, on top of
   `ChunkQueue`, whose callers it is (`OneSizeIsQueue`).
