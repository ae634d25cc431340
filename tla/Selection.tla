------------------------------- MODULE Selection -------------------------------
(***************************************************************************)
(* A part of a sequence, in its order: what a filtering query or a list    *)
(* comprehension returns. It is SelectSeq with the set of the positions it *)
(* takes for an argument in place of a test, so that a proof can cite      *)
(* facts about it.                                                         *)
(***************************************************************************)
EXTENDS Integers, Sequences

Picked(s, where) ==
    LET upto[i \in 0 .. Len(s)] ==
            IF i = 0 THEN <<>>
            ELSE IF i \in where THEN Append(upto[i - 1], s[i]) ELSE upto[i - 1]
    IN upto[Len(s)]
=============================================================================
