-------------------------------- MODULE Lists --------------------------------
(***************************************************************************)
(* Two loops over a list that several parts of the code share, written as  *)
(* recursive functions of the number of elements read, so that the proof   *)
(* modules can reason about them: the comprehension that keeps some of the *)
(* elements in their order, and the SQL sum that counts some of the rows.  *)
(***************************************************************************)
EXTENDS Integers, Sequences

\* What [x for x in s if x in S] holds after each element of s.
KeptUpTo(s, S) ==
    LET kept[n \in 0..Len(s)] ==
            IF n = 0 THEN <<>>
            ELSE IF s[n] \in S THEN Append(kept[n - 1], s[n]) ELSE kept[n - 1]
    IN  kept

Kept(s, S) == KeptUpTo(s, S)[Len(s)]

\* SUM(CASE WHEN i IN rows THEN figure[i] ELSE 0 END) after each row.
SummedUpTo(figure, rows) ==
    LET sum[n \in 0..Len(figure)] ==
            IF n = 0 THEN 0
            ELSE sum[n - 1] + (IF n \in rows THEN figure[n] ELSE 0)
    IN  sum

Summed(figure, rows) == SummedUpTo(figure, rows)[Len(figure)]
=============================================================================
