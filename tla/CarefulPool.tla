---------------------------- MODULE CarefulPool ----------------------------
(***************************************************************************)
(* The memory pool under callers that keep off four steps of the code      *)
(* that go wrong (MemoryPool has them all):                                *)
(*  - they never ask for a size that, of several recycled chunks, only the *)
(*    last one can hold: its predecessor keeps a link to it (397-398);     *)
(*  - they shrink a chunk to no less than half: the memset covers as many  *)
(*    bytes as are given up, from the first byte given up counted from the *)
(*    start of the chunk (504-509);                                        *)
(*  - they do not ask a chunk to grow to a size that would lead from the   *)
(*    chunk past the block's end, as the new size is copied (517);         *)
(*  - they do not use a pointer again that they gave back, although the    *)
(*    first deletion into an empty list leaves it set (466-470).           *)
(* Under that discipline the pool is a queue of chunks.  webdriverObject,  *)
(* which asks for one size only and never shrinks, keeps it by itself.     *)
(***************************************************************************)
EXTENDS MemoryPool

ASSUME NoStaleDeletes == StaleDeletes = FALSE

(* Of several recycled chunks only the last one holds size bytes *)
OnlyLastFits(size) ==
    LET last == Len(freed)
    IN /\ last > 1
       /\ size <= header[freed[last]]
       /\ \A i \in 1..(last - 1) : header[freed[i]] < size

SafeRequest(n) == MaxAlloc < n \/ Fits(AlignUp(n)) \/ ~OnlyLastFits(AlignUp(n))
SafeShrink(h, n) == header[ptr[h]] <= 2 * n
SafeGrow(h, n) == MaxAlloc < n \/ ptr[h] + n <= PoolSize

CarefulNext ==
    \/ CreatePool
    \/ DeletePool
    \/ \E h \in Handles :
          \/ \E n \in {m \in Sizes : SafeRequest(m)} : Get(h, n)
          \/ \E n \in {m \in GrowSizes : SafeRequest(m)} : GrowByMoving(h, n) /\ SafeGrow(h, n)
          \/ \E n \in GrowSizes : GrowInPlace(h, n) /\ SafeShrink(h, n)
          \/ GrowToNothing(h)
          \/ DeleteChunk(h)
          \/ Write(h)
    \/ Continue

CarefulSpec == Init /\ [][CarefulNext]_vars
FairCarefulSpec == CarefulSpec /\ WF_vars(Continue)

---------------------------------------------------------------------------
(* The list holds exactly the chunks given back and not handed out since,  *)
(* oldest first, and __tail__ is its last node (client.c:386-401, 459-476).*)
FreeListIsFreed ==
    LET n == Len(freed)
    IN /\ free = IF n = 0 THEN NULL ELSE freed[1]
       /\ n > 0 => tail = freed[n] /\ word[freed[n]] = NULL
       /\ \A i \in 1..(n - 1) : word[freed[i]] = freed[i + 1]

(* No chunk is in the hands of two callers, in the list twice, or both,    *)
(* and the chunk a call has found is in neither place (client.c:386-440).  *)
NoDoubleHandOut ==
    /\ \A g, h \in Handles : owns[g] /\ owns[h] /\ ptr[g] = ptr[h] => g = h
    /\ \A i, j \in 1..Len(freed) : freed[i] = freed[j] => i = j
    /\ \A h \in Handles, i \in 1..Len(freed) : owns[h] => ptr[h] # freed[i]
    /\ pc = "done" /\ call.node # NULL =>
          /\ \A h \in Handles : owns[h] => ptr[h] # call.node
          /\ \A i \in 1..Len(freed) : freed[i] # call.node

(* Nothing is lost: a chunk carved is held by a caller, on the list, or    *)
(* the answer a call is about to give (client.c:459-476, 491-523).         *)
Conservation ==
    \A c \in Carved : \/ \E h \in Handles : owns[h] /\ ptr[h] = c
                      \/ \E i \in 1..Len(freed) : freed[i] = c
                      \/ pc = "done" /\ call.node = c

(* Memory is refused only when there is none: a call answers EOMEM to a    *)
(* size within the limit only when neither the bytes above __mp__ nor any  *)
(* recycled chunk can hold it (client.c:415-440).                          *)
RefusesOnlyWhenFull ==
    pc = "done" /\ call.node = NULL /\ call.size <= MaxAlloc =>
        /\ ~Fits(call.size)
        /\ \A i \in 1..Len(freed) : header[freed[i]] < call.size

(* The walk over the list stays on the list: what the running call looks   *)
(* at is a recycled chunk behind its predecessor or the end, and every     *)
(* chunk before it is too small (client.c:389-398).                        *)
WalkAt(i) == /\ call.node = IF i <= Len(freed) THEN freed[i] ELSE NULL
             /\ call.prev = IF i > 1 THEN freed[i - 1] ELSE NULL
             /\ \A j \in 1..(i - 1) : header[freed[j]] < call.size
WalkOnList == pc = "scan" => \E i \in 1..(Len(freed) + 1) : WalkAt(i)

(* The pool does what ChunkQueue promises.  A call takes effect when its   *)
(* answer is known.                                                        *)
Answering == pc = "done" /\ call.node # NULL
Queue == INSTANCE ChunkQueue WITH
    Chunks   <- HeaderSize..Top,
    Requests <- {AlignUp(n) : n \in Sizes \cup GrowSizes},
    NoChunk  <- NULL,
    open     <- pool = "open",
    capacity <- header,
    queue    <- IF Answering /\ call.op = "grow" THEN Append(freed, ptr[call.h]) ELSE freed,
    held     <- [h \in Handles |->
                    IF Answering /\ call.h = h THEN call.node
                    ELSE IF owns[h] THEN ptr[h] ELSE NULL]
ImplementsQueue == Queue!Spec
============================================================================
