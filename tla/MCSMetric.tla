------------------------------ MODULE MCSMetric ------------------------------
(* Fronts of up to three points with one to four objectives, of four with two *)
(* objectives.  In which order the points are given makes no difference, since *)
(* getNondominatedSolutions takes them in any.                                *)
EXTENDS SMetric

\* The sequences of up to n points of S, as numbered by Number, in this order.
Sorted(S, n, Number(_)) ==
    {f \in SeqOf(S, n) : \A i \in 1 .. Len(f) - 1 : Number(f[i]) <= Number(f[i + 1])}

Number(p) == FoldLeft(LAMBDA n, x : 4 * n + x, 0, p)

MCFronts ==
    Sorted([1 .. 1 -> 1 .. 3], 3, Number) \cup Sorted([1 .. 2 -> 1 .. 3], 3, Number)
        \cup Sorted([1 .. 2 -> 1 .. 2], 4, Number) \cup Sorted([1 .. 3 -> 1 .. 3], 3, Number)
        \cup Sorted([1 .. 4 -> 1 .. 2], 3, Number)
=============================================================================
