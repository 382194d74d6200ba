----------------------------- MODULE SortSearch -----------------------------
\* The binary search of the Go library that segments and indexes are searched
\* with.
EXTENDS Integers

\* sort.Search: the least i in 0 .. n - 1 with holds[i], n when there is none, if
\* holds is monotone; what a binary search ends at if it is not.
Search(n, holds) ==
    LET find[lo \in 0 .. n] ==
            [hi \in 0 .. n |->
                IF lo >= hi THEN lo
                ELSE LET mid == (lo + hi) \div 2
                     IN IF holds[mid] THEN find[lo][mid] ELSE find[mid + 1][hi]]
    IN find[0][n]
=============================================================================
