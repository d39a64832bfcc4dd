------------------------------ MODULE MCPoolRow ------------------------------
(***************************************************************************)
(* Words of a few bits: an unsigned word of ten bits wraps around at 11    *)
(* times 100 as one of 64 bits does at 184 petabytes times 100.            *)
(***************************************************************************)
EXTENDS PoolRow

Space(s, a) == [size |-> s, alloc |-> a]

\* No pool, an empty one, one that is a third full, a full one whose product
\* just fits, and one whose product wraps around.
MCSpaces == {Space(0, 0), Space(7, 0), Space(9, 3), Space(10, 10), Space(20, 15)}
=============================================================================
