---------------------------- MODULE MemoryPool ----------------------------
(***************************************************************************)
(* The fixed memory pool of driver/client.c (351-540): a block of PoolSize *)
(* bytes that starts with the pool's own struct, is carved upwards at mp   *)
(* into chunks, each preceded by its 16-bit capacity, and recycles the     *)
(* chunks given back through a singly linked list threaded through their   *)
(* first words.  Addresses are offsets from the block, byte by byte; of a  *)
(* chunk's payload only the first word, the one the list uses, is kept.    *)
(*                                                                         *)
(* The locks around webdriverMemoryPoolGet are empty macros (client.h:76), *)
(* so the pool is used by one thread: at most one call runs.  A call that  *)
(* walks the list takes one step per node, because what it reads there may *)
(* no longer be a link.                                                    *)
(***************************************************************************)
EXTENDS Integers, Sequences, SequencesExt

CONSTANTS
    PoolSize,      \* webdriverMemoryPoolSize
    HeaderSize,    \* sizeof (struct Webdriver_TMemoryPool__)
    MinAlloc,      \* webdriverMemoryPoolMinAlloc, the size of a pointer
    Spare,         \* what webdriverMemoryPoolMaxAlloc leaves for rounding up
    Handles,       \* the caller's pointer variables
    Sizes,         \* the sizes callers pass to webdriverMemoryPoolGet
    GrowSizes,     \* the sizes callers pass to webdriverMemoryPoolGrowChunk
    StaleDeletes,  \* may a caller delete through a pointer it gave back?
    NULL,
    Data           \* a word that holds the caller's bytes

MetaSize == 2
MaxUint16 == 65535
Top == PoolSize - 1                                    \* __tp__

(* Mutant of MaxAlloc, and the header's definition (client.h:110) *)
MaxAllocUnspared == PoolSize - HeaderSize - MetaSize - 1

(* webdriverMemoryPoolMaxAlloc has two definitions, which the compiler does *)
(* not take together: Spare is MinAlloc in client.c:363, 0 in client.h:110  *)
MaxAlloc == PoolSize - HeaderSize - MetaSize - Spare - 1
AlignUp(n) == ((n + MinAlloc - 1) \div MinAlloc) * MinAlloc

ASSUME PoolAssumption ==
    /\ PoolSize \in Nat /\ HeaderSize \in Nat /\ MinAlloc \in Nat \ {0}
    /\ Spare \in Nat
    /\ MinAlloc <= HeaderSize
    /\ HeaderSize + MetaSize < PoolSize
    /\ PoolSize <= MaxUint16 + 1
ASSUME SizesAssumption == /\ Sizes \subseteq Nat \ {0}
                          /\ GrowSizes \subseteq 0..MaxUint16
ASSUME ValuesAssumption == /\ StaleDeletes \in BOOLEAN
                           /\ NULL \notin Nat /\ Data \notin Nat /\ NULL # Data

VARIABLES
    pool,    \* "none" or "open"
    mp,      \* __mp__, where the next chunk is carved
    free,    \* __free__, the first recycled chunk
    tail,    \* __tail__, the last recycled chunk
    header,  \* capacity written before each chunk carved so far
    word,    \* first word of each chunk: a link, NULL, or the caller's Data
    ptr,     \* what each of the caller's pointers holds
    owns,    \* history: may the caller use the chunk behind the pointer?
    freed,   \* history: the chunks given back and not handed out again, in order
    pc,      \* where the running call is
    call     \* its arguments and locals

state == <<mp, free, tail, header, word>>
vars == <<pool, mp, free, tail, header, word, ptr, owns, freed, pc, call>>

Carved == DOMAIN header
NoChunks == [c \in {} |-> 0]
NoCall == [op |-> "none", h |-> NULL, asked |-> 0, size |-> 0, prev |-> NULL, node |-> NULL]

---------------------------------------------------------------------------
Init ==
    /\ pool = "none"
    /\ mp = HeaderSize
    /\ free = NULL
    /\ tail = NULL
    /\ header = NoChunks
    /\ word = NoChunks
    /\ ptr = [h \in Handles |-> NULL]
    /\ owns = [h \in Handles |-> FALSE]
    /\ freed = <<>>
    /\ pc = "idle"
    /\ call = NoCall

(* webdriverMemoryPool: nothing changes when the allocation fails *)
CreatePool ==
    /\ pool = "none"
    /\ pool' \in {"none", "open"}
    /\ UNCHANGED <<mp, free, tail, header, word, ptr, owns, freed, pc, call>>

(* Mutant of DeletePool: the list outlives the block *)
DeletePoolKeepsList ==
    /\ pool = "open" /\ pc = "idle"
    /\ pool' = "none" /\ mp' = HeaderSize
    /\ header' = NoChunks /\ word' = NoChunks
    /\ ptr' = [h \in Handles |-> NULL] /\ owns' = [h \in Handles |-> FALSE]
    /\ freed' = <<>>
    /\ UNCHANGED <<free, tail, pc, call>>

(* webdriverMemoryPoolDelete: the block goes, and with it every chunk *)
DeletePool ==
    /\ pool = "open" /\ pc = "idle"
    /\ pool' = "none"
    /\ mp' = HeaderSize /\ free' = NULL /\ tail' = NULL
    /\ header' = NoChunks /\ word' = NoChunks
    /\ ptr' = [h \in Handles |-> NULL] /\ owns' = [h \in Handles |-> FALSE]
    /\ freed' = <<>>
    /\ UNCHANGED <<pc, call>>

---------------------------------------------------------------------------
(* Mutants of Fits: the chunk's header, or its size, is forgotten *)
FitsWithoutHeader(size) == mp + size <= Top
FitsWithoutSize(size) == mp + MetaSize <= Top

(* pool_firstFit: room for a header and size bytes between mp and the top *)
Fits(size) == mp + size + MetaSize <= Top

(* webdriverMemoryPoolGet up to its first loop: refuse, carve, or go and   *)
(* search the list.                                                        *)
StartGet(op, h, n) ==
    LET size == AlignUp(n)
        new == mp + MetaSize
        request == [op |-> op, h |-> h, asked |-> n, size |-> size, prev |-> NULL, node |-> NULL]
    IN \/ /\ MaxAlloc < n
          /\ pc' = "done" /\ call' = request
          /\ UNCHANGED state
       \/ /\ n <= MaxAlloc /\ Fits(size)
          /\ mp' = new + size
          /\ header' = [c \in Carved \cup {new} |-> IF c = new THEN size ELSE header[c]]
          /\ word' = [c \in Carved \cup {new} |-> IF c = new THEN NULL ELSE word[c]]
          /\ pc' = "done" /\ call' = [request EXCEPT !.node = new]
          /\ UNCHANGED <<free, tail>>
       \/ /\ n <= MaxAlloc /\ ~Fits(size)
          /\ pc' = "scan" /\ call' = [request EXCEPT !.node = free]
          /\ UNCHANGED state

Get(h, n) ==
    /\ pool = "open" /\ pc = "idle" /\ ~owns[h]
    /\ StartGet("get", h, n)
    /\ UNCHANGED <<pool, ptr, owns, freed>>

(* Mutants of TooSmall: the first node is taken as it is; an exact fit is  *)
(* passed over                                                             *)
NeverTooSmall(c) == FALSE
ExactTooSmall(c) == header[c] <= call.size

(* free_firstFit, 389: one turn of the loop *)
Scanning == pc = "scan"
TooSmall(c) == header[c] < call.size

(* Mutant of ScanStep: the predecessor is not remembered *)
ScanStepForgets ==
    /\ Scanning /\ call.node \in Carved /\ TooSmall(call.node)
    /\ call' = [call EXCEPT !.node = word[call.node]]
    /\ UNCHANGED <<pool, mp, free, tail, header, word, ptr, owns, freed, pc>>

ScanStep ==
    /\ Scanning /\ call.node \in Carved /\ TooSmall(call.node)
    /\ call' = [call EXCEPT !.prev = call.node, !.node = word[call.node]]
    /\ UNCHANGED <<pool, mp, free, tail, header, word, ptr, owns, freed, pc>>

(* Mutant of Unlink: a node in the middle keeps its place *)
UnlinkNotMiddle(c) ==
    /\ free' = IF call.prev = NULL THEN word[c] ELSE free
    /\ tail' = IF call.prev # NULL /\ c = tail THEN call.prev ELSE tail
    /\ word' = [word EXCEPT ![c] = NULL]

(* free_firstFit, 397-398, and the memset at 431: unlink the chunk found.  *)
(* One of three things happens, so a last node with a predecessor moves    *)
(* the tail and leaves the predecessor's link as it is.                    *)
Unlink(c) ==
    /\ free' = IF call.prev = NULL THEN word[c] ELSE free
    /\ tail' = IF call.prev # NULL /\ c = tail THEN call.prev ELSE tail
    /\ word' = IF call.prev # NULL /\ c # tail
               THEN [word EXCEPT ![call.prev] = word[c], ![c] = NULL]
               ELSE [word EXCEPT ![c] = NULL]

(* history: was the chunk given back and not handed out since? *)
GivenBack(c) == \E i \in 1..Len(freed) : freed[i] = c

(* history: the chunk is not among those given back any more *)
Withdraw(c) ==
    \/ \E i \in 1..Len(freed) :
          /\ freed[i] = c /\ \A j \in 1..(i - 1) : freed[j] # c
          /\ freed' = RemoveAt(freed, i)
    \/ ~GivenBack(c) /\ UNCHANGED freed

ScanTake ==
    /\ Scanning /\ call.node \in Carved /\ ~TooSmall(call.node)
    /\ Unlink(call.node)
    /\ Withdraw(call.node)
    /\ pc' = "done"
    /\ UNCHANGED <<pool, mp, header, ptr, owns, call>>

(* The end of the list: no memory *)
ScanMiss ==
    /\ Scanning /\ call.node = NULL
    /\ pc' = "done"
    /\ UNCHANGED <<pool, mp, free, tail, header, word, ptr, owns, freed, call>>

(* The loop dereferences the caller's bytes: undefined from here on *)
ScanWild ==
    /\ Scanning /\ call.node = Data
    /\ pc' = "wild"
    /\ UNCHANGED <<pool, mp, free, tail, header, word, ptr, owns, freed, call>>

---------------------------------------------------------------------------
(* Mutants of Recycle: the new last node keeps its first word; it is cut    *)
(* before the old one is linked to it; chunks are put at the front         *)
RecycleUncut(c, w) ==
    /\ free' = IF free = NULL THEN c ELSE free
    /\ tail' = c
    /\ word' = IF free = NULL THEN w ELSE [w EXCEPT ![tail] = c]
    /\ freed' = IF GivenBack(c) THEN freed ELSE Append(freed, c)
RecycleSwapped(c, w) ==
    /\ free' = IF free = NULL THEN c ELSE free
    /\ tail' = c
    /\ word' = IF free = NULL THEN [w EXCEPT ![c] = NULL]
               ELSE [w EXCEPT ![c] = NULL, ![tail] = c]
    /\ freed' = IF GivenBack(c) THEN freed ELSE Append(freed, c)
RecycleFront(c, w) ==
    /\ free' = c
    /\ tail' = IF free = NULL THEN c ELSE tail
    /\ word' = [w EXCEPT ![c] = free]
    /\ freed' = IF GivenBack(c) THEN freed ELSE Append(freed, c)

(* webdriverMemoryPoolDeleteChunk on a chunk c, the words being w.  The    *)
(* caller's pointer is cleared only when the list was not empty.           *)
Recycle(c, w) ==
    /\ free' = IF free = NULL THEN c ELSE free
    /\ tail' = c
    /\ word' = IF free = NULL THEN [w EXCEPT ![c] = NULL]
               ELSE [w EXCEPT ![tail] = c, ![c] = NULL]
    /\ freed' = IF GivenBack(c) THEN freed ELSE Append(freed, c)
ClearsPointer == free # NULL

DeleteChunk(h) ==
    /\ pool = "open" /\ pc = "idle" /\ ptr[h] # NULL
    /\ owns[h] \/ StaleDeletes
    /\ Recycle(ptr[h], word)
    /\ ptr' = [ptr EXCEPT ![h] = IF ClearsPointer THEN NULL ELSE @]
    /\ owns' = [owns EXCEPT ![h] = FALSE]
    /\ UNCHANGED <<pool, mp, header, pc, call>>

(* webdriverMemoryPoolGrowChunk, 495-500 *)
GrowToNothing(h) ==
    /\ pool = "open" /\ pc = "idle" /\ owns[h]
    /\ 0 \in GrowSizes
    /\ Recycle(ptr[h], word)
    /\ ptr' = [ptr EXCEPT ![h] = NULL]
    /\ owns' = [owns EXCEPT ![h] = FALSE]
    /\ UNCHANGED <<pool, mp, header, pc, call>>

(* 502-512: memset at chunk + d of d bytes, d being the capacity not asked *)
(* for.  What it covers of a header or of a first word becomes zero; a     *)
(* word it covers in part is no link any more.                             *)
ClearedHeader(c, lo, hi) ==
    LET byte(a, v) == IF a \in lo..(hi - 1) THEN 0 ELSE v
    IN byte(c - 2, header[c] % 256) + 256 * byte(c - 1, header[c] \div 256)

ClearedWord(c, lo, hi) ==
    IF lo <= c /\ c + MinAlloc <= hi THEN NULL
    ELSE IF lo < c + MinAlloc /\ c < hi /\ lo < hi /\ word[c] # NULL THEN Data
    ELSE word[c]

(* The bytes given up, and how far the memset goes *)
GivenUp(h, n) == header[ptr[h]] - n
ClearedUpTo(h, n) == ptr[h] + 2 * GivenUp(h, n)

GrowInPlace(h, n) ==
    /\ pool = "open" /\ pc = "idle" /\ owns[h]
    /\ n # 0 /\ n <= header[ptr[h]] /\ ClearedUpTo(h, n) <= PoolSize
    /\ LET lo == ptr[h] + GivenUp(h, n)
           hi == ClearedUpTo(h, n)
       IN /\ header' = [c \in Carved |-> ClearedHeader(c, lo, hi)]
          /\ word' = [c \in Carved |-> ClearedWord(c, lo, hi)]
    /\ UNCHANGED <<pool, mp, free, tail, ptr, owns, freed, pc, call>>

(* Shrinking a chunk near the block's end far below half clears past it:   *)
(* undefined from here on                                                  *)
ShrinkOutside(h, n) ==
    /\ pool = "open" /\ pc = "idle" /\ owns[h]
    /\ n # 0 /\ n <= header[ptr[h]] /\ ClearedUpTo(h, n) > PoolSize
    /\ pc' = "wild"
    /\ UNCHANGED <<pool, mp, free, tail, header, word, ptr, owns, freed, call>>

(* 514: the chunk is too small, get another *)
GrowByMoving(h, n) ==
    /\ pool = "open" /\ pc = "idle" /\ owns[h]
    /\ header[ptr[h]] < n
    /\ StartGet("grow", h, n)
    /\ UNCHANGED <<pool, ptr, owns, freed>>

---------------------------------------------------------------------------
(* The call returns.  Get gives the caller the answer; GrowChunk copies    *)
(* the old chunk into the new one, recycles the old one and moves the      *)
(* caller's pointer, or leaves everything as it was (515-522).  The copy   *)
(* reads the bytes asked for, past the old chunk's end.  When that meets   *)
(* the new chunk, memcpy may garble what is copied, but not the first      *)
(* word, which the new chunk gets from a word it does not meet.            *)
ReturnGet ==
    /\ pc = "done" /\ call.op = "get"
    /\ ptr' = [ptr EXCEPT ![call.h] = call.node]
    /\ owns' = [owns EXCEPT ![call.h] = call.node # NULL]
    /\ pc' = "idle" /\ call' = NoCall
    /\ UNCHANGED <<pool, mp, free, tail, header, word, freed>>

(* Mutant of ReturnGrow: the old chunk is not given back *)
ReturnGrowLeaks ==
    /\ pc = "done" /\ call.op = "grow"
    /\ ptr' = IF call.node = NULL THEN ptr ELSE [ptr EXCEPT ![call.h] = call.node]
    /\ pc' = "idle" /\ call' = NoCall
    /\ UNCHANGED <<pool, mp, free, tail, header, word, owns, freed>>

CopyInBlock == ptr[call.h] + call.asked <= PoolSize

ReturnGrow ==
    /\ pc = "done" /\ call.op = "grow" /\ (call.node = NULL \/ CopyInBlock)
    /\ LET old == ptr[call.h]
       IN IF call.node = NULL
          THEN UNCHANGED <<free, tail, word, ptr, freed>>
          ELSE /\ Recycle(old, [word EXCEPT ![call.node] = word[old]])
               /\ ptr' = [ptr EXCEPT ![call.h] = call.node]
    /\ pc' = "idle" /\ call' = NoCall
    /\ UNCHANGED <<pool, mp, header, owns>>

(* The copy reads past the block's end: undefined from here on *)
CopyOutside ==
    /\ pc = "done" /\ call.op = "grow" /\ call.node # NULL /\ ~CopyInBlock
    /\ pc' = "wild"
    /\ UNCHANGED <<pool, mp, free, tail, header, word, ptr, owns, freed, call>>

(* The caller stores its own bytes in its chunk *)
Write(h) ==
    /\ pool = "open" /\ pc = "idle" /\ owns[h]
    /\ word' = [word EXCEPT ![ptr[h]] = Data]
    /\ UNCHANGED <<pool, mp, free, tail, header, ptr, owns, freed, pc, call>>

---------------------------------------------------------------------------
(* What the running call does next *)
Continue ==
    \/ ScanStep \/ ScanTake \/ ScanMiss \/ ScanWild
    \/ ReturnGet \/ ReturnGrow \/ CopyOutside

Next ==
    \/ CreatePool
    \/ DeletePool
    \/ \E h \in Handles :
          \/ \E n \in Sizes : Get(h, n)
          \/ \E n \in GrowSizes : GrowInPlace(h, n) \/ ShrinkOutside(h, n) \/ GrowByMoving(h, n)
          \/ GrowToNothing(h)
          \/ DeleteChunk(h)
          \/ Write(h)
    \/ Continue

Spec == Init /\ [][Next]_vars

(* A call that has started runs on: it waits for nobody *)
FairSpec == Spec /\ WF_vars(Continue)

---------------------------------------------------------------------------
(* Every variable has its type: in particular a link is a chunk's address, *)
(* NULL or the caller's bytes, and never an address inside a chunk.        *)
TypeOK ==
    /\ pool \in {"none", "open"}
    /\ mp \in Nat
    /\ Carved \subseteq Nat
    /\ header \in [Carved -> 0..MaxUint16]
    /\ word \in [Carved -> Carved \cup {NULL, Data}]
    /\ free \in Carved \cup {NULL, Data}
    /\ tail \in Carved \cup {NULL}
    /\ ptr \in [Handles -> Carved \cup {NULL}]
    /\ owns \in [Handles -> BOOLEAN]
    /\ freed \in Seq(Carved)
    /\ pc \in {"idle", "scan", "done", "wild"}
    /\ call \in [op : {"none", "get", "grow"}, h : Handles \cup {NULL}, asked : Nat, size : Nat,
                 prev : Carved \cup {NULL}, node : Carved \cup {NULL, Data}]

(* Whatever the callers do, chunks lie behind the pool's struct and below  *)
(* __mp__, which stays inside the block, and no two overlap: a chunk ends  *)
(* before the next one's header starts (client.c:412, 422-424).            *)
ChunksInPool ==
    /\ HeaderSize <= mp /\ mp <= Top
    /\ \A c \in Carved : HeaderSize + MetaSize <= c /\ c + header[c] <= mp
    /\ \A c, d \in Carved : c < d => c + header[c] + MetaSize <= d

(* A caller of the pool may follow its list and append to it, whatever was *)
(* done before: while the list is not empty its tail is a chunk, through   *)
(* which webdriverMemoryPoolDeleteChunk may write a link (client.c:471),   *)
(* although __tail__ is not reset when the list becomes empty; and no link *)
(* leads back, neither from the head nor from where a call is, although a  *)
(* chunk may be given back while it is on the list, or handed out twice    *)
(* (client.c:389, 397-398, 466-472).                                       *)
TailWritable == free # NULL => tail \in Carved
Circle(c) == \E S \in SUBSET Carved : c \in S /\ \A d \in S : word[d] \in S
ListUsable ==
    /\ TailWritable
    /\ ~Circle(free)
    /\ Scanning => ~Circle(call.node)

(* A chunk handed out has room for what was asked for, rounded up, also    *)
(* when it is a recycled one (client.c:389, 424, 450).                     *)
AnswerFits == pc = "done" /\ call.node # NULL => header[call.node] >= call.size

(* The copy into a larger chunk reads the new size from the smaller one,   *)
(* past its end (client.c:517); it stays inside the block when the new     *)
(* chunk lies above the old one, as a chunk just carved does.  When a      *)
(* recycled chunk below is found it may not: CopyOutside is that step.     *)
CopyStaysInBlock ==
    pc = "done" /\ call.op = "grow" /\ call.node # NULL /\ ptr[call.h] < call.node =>
        ptr[call.h] + call.size <= PoolSize

(* A new pool serves every size up to webdriverMemoryPoolMaxAlloc, which   *)
(* driver/test/mempool.c:98-108 asks of the largest: while nothing is      *)
(* carved, only a size above the limit is refused (client.c:446).          *)
MaxAllocServed ==
    pc = "done" /\ Carved = {} /\ call.node = NULL =>
        \E n \in Sizes : MaxAlloc < n /\ call.size = AlignUp(n)

(* Every call answers: the walk over the list ends (client.c:389), by      *)
(* finding a chunk, by reaching the end, or by running into undefined      *)
(* behaviour.                                                              *)
CallAnswers == Scanning ~> pc # "scan"
============================================================================
