--------------------------- MODULE SignatureArray ---------------------------
(* Arrays indexed by signature index: the LABCOMM_SIGNATURE_ARRAY macros   *)
(* of labcomm2014_private.h and labcomm2014_signature_array_ref.  An array *)
(* holds the elements first to last - 1 and grows at either end.  Elements *)
(* are filled with zero, the null value of every kind that is stored.      *)
EXTENDS Naturals, Sequences

\* LABCOMM_SIGNATURE_ARRAY_INIT.
EmptyArray == [first |-> 0, last |-> 0, data |-> <<>>]

\* LABCOMM_SIGNATURE_ARRAY_GET.
Get(a, i, nomatch) ==
    IF a.first <= i /\ i < a.last THEN a.data[i - a.first + 1] ELSE nomatch

\* labcomm2014_signature_array_ref as far as the array has to grow: the old
\* contents are copied to their place between the new elements.
Grow(a, i) ==
    IF a.first = 0 /\ a.last = 0 THEN [first |-> i, last |-> i + 1, data |-> <<0>>]
    ELSE LET first == IF i < a.first THEN i ELSE a.first
             last  == IF a.last <= i THEN i + 1 ELSE a.last
         IN  [first |-> first, last |-> last,
              data |-> [n \in 1 .. last - first |->
                          IF first + n - 1 \in a.first .. a.last - 1
                            THEN a.data[first + n - a.first] ELSE 0]]

\* An assignment through the pointer that LABCOMM_SIGNATURE_ARRAY_REF returns.
Put(a, i, v) ==
    LET b == Grow(a, i) IN [b EXCEPT !.data[i - b.first + 1] = v]

\* The elements that LABCOMM_SIGNATURE_ARRAY_FOREACH visits and that are not null.
Keys(a) == {i \in a.first .. a.last - 1 : Get(a, i, 0) # 0}
=============================================================================
