---------------------------- MODULE RequestText ----------------------------
(***************************************************************************)
(* What the request buffer promises: the text of a request, to which a     *)
(* line is added as a whole, or in part when the caller is told that there *)
(* was no memory.  No sizes, growth or resumption.  A request may be lost, *)
(* after which nothing is promised.                                        *)
(***************************************************************************)
EXTENDS Sequences, SequencesExt

CONSTANTS
    Lines,     \* the lines callers add, sequences of strings
    End        \* what ends a line

VARIABLES
    there,     \* is there a buffer?
    said,      \* the text
    told,      \* what a caller is being told, or "quiet"
    lost       \* is nothing promised any more?

vars == <<there, said, told, lost>>

Init == ~there /\ said = <<>> /\ told = "quiet" /\ ~lost

Begin == /\ ~there /\ there'
         /\ UNCHANGED <<said, told, lost>>

Drop == /\ told = "quiet" /\ ~there' /\ said' = <<>>
        /\ UNCHANGED <<told, lost>>

AddLine(line) == /\ there /\ told = "quiet"
                 /\ said' = said \o FlattenSeq(line) \o End
                 /\ told' = "SUCCESS"
                 /\ UNCHANGED <<there, lost>>

AddPart(line, k) == /\ told = "quiet"
                    /\ said' = said \o FlattenSeq(SubSeq(line, 1, k))
                    /\ told' = "EOMEM"
                    /\ UNCHANGED <<there, lost>>

Tell == /\ told # "quiet" /\ told' = "quiet"
        /\ UNCHANGED <<there, said, lost>>

Lose == /\ lost' /\ said' = <<>> /\ told' = "quiet"
        /\ UNCHANGED there

Next == \/ ~lost /\ \/ Begin \/ Drop \/ Tell
                    \/ \E line \in Lines :
                          AddLine(line) \/ \E k \in 0..Len(line) : AddPart(line, k)
        \/ Lose

Spec == Init /\ [][Next]_vars
============================================================================
