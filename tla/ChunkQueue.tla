---------------------------- MODULE ChunkQueue ----------------------------
(***************************************************************************)
(* What a memory pool promises its callers, without addresses or links:    *)
(* chunks are made with a capacity that never changes, a chunk given back  *)
(* goes to the end of a queue, and a request that no new chunk serves gets *)
(* the oldest chunk of the queue that is large enough.                     *)
(***************************************************************************)
EXTENDS Naturals, Sequences, SequencesExt

CONSTANTS Chunks,    \* what a chunk may be
          Handles,   \* the callers
          Requests,  \* the capacities callers ask for
          NoChunk

VARIABLES open, capacity, queue, held

vars == <<open, capacity, queue, held>>

Made == DOMAIN capacity
FirstFit(n, i) == /\ i \in 1..Len(queue)
                  /\ capacity[queue[i]] >= n
                  /\ \A j \in 1..(i - 1) : capacity[queue[j]] < n

Init == /\ open = FALSE
        /\ capacity = [c \in {} |-> 0]
        /\ queue = <<>>
        /\ held = [h \in Handles |-> NoChunk]

Open == /\ ~open /\ open'
        /\ UNCHANGED <<capacity, queue, held>>

Close == /\ open /\ ~open'
         /\ capacity' = [c \in {} |-> 0] /\ queue' = <<>>
         /\ held' = [h \in Handles |-> NoChunk]

(* The chunks in back go to the end of the queue in the same step: a       *)
(* caller that swaps its chunk for a larger one gives the old one back.    *)
Carve(h, n, back) ==
    \E c \in Chunks \ Made :
       /\ capacity' = [d \in Made \cup {c} |-> IF d = c THEN n ELSE capacity[d]]
       /\ queue' = queue \o back
       /\ held' = [held EXCEPT ![h] = c]

Reuse(h, n, back) ==
    \E i \in 1..Len(queue) :
       /\ FirstFit(n, i)
       /\ queue' = RemoveAt(queue, i) \o back
       /\ held' = [held EXCEPT ![h] = queue[i]]
       /\ UNCHANGED capacity

Serve(h, back) == \E n \in Requests : Carve(h, n, back) \/ Reuse(h, n, back)

Get(h) == /\ open /\ held[h] = NoChunk
          /\ Serve(h, <<>>)
          /\ UNCHANGED open

Swap(h) == /\ open /\ held[h] # NoChunk
           /\ Serve(h, <<held[h]>>)
           /\ UNCHANGED open

Put(h) == /\ open /\ held[h] # NoChunk
          /\ queue' = Append(queue, held[h])
          /\ held' = [held EXCEPT ![h] = NoChunk]
          /\ UNCHANGED <<open, capacity>>

Next == Open \/ Close \/ \E h \in Handles : Get(h) \/ Swap(h) \/ Put(h)

Spec == Init /\ [][Next]_vars
============================================================================
