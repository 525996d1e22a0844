---------------------------- MODULE MessageLists ----------------------------
(***************************************************************************)
(* What the code does to lists of messages and parts again and again:      *)
(* slice, filter, reduce.  Recursive functions, as the proofs need them.   *)
(***************************************************************************)
EXTENDS Integers, Sequences

\* slice(0, n)
Slice(seq, n) == SubSeq(seq, 1, IF n < Len(seq) THEN n ELSE Len(seq))

\* filter: the members at some places.
MembersAt(seq, places) ==
    LET taken[n \in 0..Len(seq)] ==
            IF n = 0 THEN <<>>
            ELSE IF n \in places THEN Append(taken[n - 1], seq[n]) ELSE taken[n - 1]
    IN taken[Len(seq)]

\* flat: lists one after the other.
Joined(lists) ==
    LET joined[n \in 0..Len(lists)] == IF n = 0 THEN <<>> ELSE joined[n - 1] \o lists[n]
    IN joined[Len(lists)]
=============================================================================
