--------------------------- MODULE OrderedStream ---------------------------
(***************************************************************************)
(* What a goroutine that carries values from a source to a channel         *)
(* promises: values are taken in the order they were given, none twice and *)
(* none passed over; what is under way is bounded; and only the end of the *)
(* stream gives up values, the youngest ones.  A value is its number.      *)
(***************************************************************************)
EXTENDS Naturals, Sequences

CONSTANT Capacity  \* how many values can be under way

VARIABLES
    queue,  \* the values under way, the oldest first
    taken,  \* the values the reader has received
    ended   \* does nobody carry values any more?

vars == <<queue, taken, ended>>

Init == queue = <<>> /\ taken = <<>> /\ ended = FALSE

Give ==
    /\ ~ended
    /\ Len(queue) < Capacity
    /\ queue' = Append(queue, Len(taken) + Len(queue) + 1)
    /\ UNCHANGED <<taken, ended>>

\* What was already in the channel can be taken after the end.
Take ==
    /\ queue # <<>>
    /\ taken' = Append(taken, Head(queue))
    /\ queue' = Tail(queue)
    /\ UNCHANGED ended

End ==
    /\ ~ended
    /\ ended' = TRUE
    /\ \E n \in 0..Len(queue) : queue' = SubSeq(queue, 1, n)
    /\ UNCHANGED taken

Next == Give \/ Take \/ End

Spec == Init /\ [][Next]_vars

=============================================================================
