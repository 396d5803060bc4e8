-------------------------------- MODULE Lists --------------------------------
(* Lists from which the members that fail a test are removed.              *)
EXTENDS Naturals, Sequences

\* The elements of `list' that are in `keep', in their order: SelectSeq with a
\* set for its test.
Only(list, keep) ==
    LET kept[n \in 0..Len(list)] ==
            IF n = 0 THEN <<>>
            ELSE IF list[n] \in keep THEN Append(kept[n - 1], list[n])
                                     ELSE kept[n - 1]
    IN  kept[Len(list)]

\* The members of `keep' up to n, in increasing order.
Chosen(n, keep) == Only([k \in 1..n |-> k], keep)

Listed(list, x) == \E n \in 1..Len(list) : list[n] = x

\* Nothing is listed twice.
OnceEach(list) == \A m, n \in 1..Len(list) : list[m] = list[n] => m = n
==============================================================================
