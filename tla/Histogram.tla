----------------------------- MODULE Histogram -----------------------------
(***************************************************************************)
(* The bounded distribution sketch of internal/adaptive (histogram.go,     *)
(* histencode.go).  A sample falls in the bucket its magnitude selects, at *)
(* most MaxBuckets buckets are kept, and a sample that would open one more *)
(* goes to the nearest bucket there is.  Samples are whole numbers; the    *)
(* scale is linear, of the bucket width acc, where the code's is           *)
(* logarithmic: nothing here depends on the scale beyond its being         *)
(* increasing and a bucket's value being the bucket's upper edge.          *)
(***************************************************************************)
EXTENDS Integers, Sequences, FiniteSets, SequencesExt

CONSTANTS MaxBuckets    \* histogramMaxBuckets

NewHistogram(acc) ==
    [acc |-> acc, buckets |-> <<>>, zero |-> 0, count |-> 0, sum |-> 0,
     min |-> 0, max |-> 0, overflow |-> FALSE]

index(h, v) == (v + h.acc - 1) \div h.acc

value(h, i) == i * h.acc

Held(b, S) == MapThenSumSet(LAMBDA i : b[i], S)

Distance(i, k) == IF i > k THEN i - k ELSE k - i

\* Between two buckets equally near, Go's map order decides; low stands for
\* that decision.
nearestExisting(b, i, low) ==
    LET near == {k \in DOMAIN b : \A m \in DOMAIN b : Distance(i, k) <= Distance(i, m)}
    IN  IF low THEN Min(near) ELSE Max(near)

Full(b, i) == i \notin DOMAIN b /\ Cardinality(DOMAIN b) >= MaxBuckets

\* n more samples of bucket i: the map write both ObserveN and Merge end in.
Bump(h, i, n, low) ==
    LET k == IF Full(h.buckets, i) THEN nearestExisting(h.buckets, i, low) ELSE i
    IN  [h EXCEPT !.overflow = @ \/ Full(h.buckets, i),
                  !.buckets = [m \in DOMAIN @ \cup {k} |->
                                 (IF m \in DOMAIN @ THEN @[m] ELSE 0)
                                   + (IF m = k THEN n ELSE 0)]]

\* The extremes and totals after n samples, the least lo and the greatest hi,
\* that add up to s.
Counted(h, lo, hi, n, s) ==
    [h EXCEPT !.min = IF h.count = 0 \/ lo < @ THEN lo ELSE @,
              !.max = IF h.count = 0 \/ hi > @ THEN hi ELSE @,
              !.count = @ + n,
              !.sum = @ + s]

Observe(h, sample, low) ==
    LET v == IF sample < 0 THEN 0 ELSE sample
        c == Counted(h, v, v, 1, v)
    IN  IF v = 0 THEN [c EXCEPT !.zero = @ + 1] ELSE Bump(c, index(h, v), 1, low)

sortedIndices(h) == SetToSortSeq(DOMAIN h.buckets, <)

Quantile(h, pct) ==
    LET exact == (pct * h.count + 99) \div 100
        rank  == IF exact = 0 THEN 1 ELSE exact
        upTo(i) == h.zero + Held(h.buckets, {k \in DOMAIN h.buckets : k <= i})
        reach == {i \in DOMAIN h.buckets : rank <= upTo(i)}
        est   == value(h, Min(reach))
        under == IF est > h.max THEN h.max ELSE est
    IN  CASE h.count = 0 -> 0
          [] h.count > 0 /\ rank <= h.zero -> 0
          [] h.count > 0 /\ rank > h.zero /\ reach = {} -> h.max
          [] OTHER -> IF under < h.min THEN h.min ELSE under

\* CDF times the count: how many samples are put at or below v.
Below(h, v) ==
    (IF v >= 0 THEN h.zero ELSE 0)
    + (IF v > 0 THEN Held(h.buckets, {i \in DOMAIN h.buckets : i <= index(h, v)}) ELSE 0)

\* Both sketches have one accuracy; Mergeable is the check the code makes first.
Mergeable(h, other) == h.acc = other.acc

MergeHistogram(h, other, low) ==
    IF other.count = 0 THEN h
    ELSE FoldLeft(LAMBDA acc, i : Bump(acc, i, other.buckets[i], low),
                  [Counted(h, other.min, other.max, other.count, other.sum)
                     EXCEPT !.zero = @ + other.zero, !.overflow = @ \/ other.overflow],
                  sortedIndices(other))

\* The wire form: the buckets as two arrays in ascending order.
Encode(h) ==
    LET idx == sortedIndices(h)
    IN  [acc |-> h.acc, count |-> h.count, sum |-> h.sum, min |-> h.min, max |-> h.max,
         zero |-> h.zero, overflow |-> h.overflow, index |-> idx,
         counts |-> [i \in DOMAIN idx |-> h.buckets[idx[i]]]]

Decodable(d) ==
    /\ Len(d.index) = Len(d.counts)
    /\ Len(d.index) <= MaxBuckets
    /\ \A i \in 1..Len(d.index) - 1 : d.index[i] < d.index[i + 1]
    /\ FoldLeft(+, d.zero, d.counts) = d.count

Decode(d) ==
    [acc |-> d.acc, zero |-> d.zero, count |-> d.count, sum |-> d.sum, min |-> d.min,
     max |-> d.max, overflow |-> d.overflow,
     buckets |-> [k \in ToSet(d.index) |->
                    d.counts[CHOOSE i \in DOMAIN d.index : d.index[i] = k]]]

digestParts(d) == <<d.acc, d.count, d.zero, d.index, d.counts>>

\* Every quantile the code asks for is a sample no smaller than that share of
\* them: what CDF counts at or below Quantile(q) is at least q of the samples,
\* whatever overflow and merging did to the buckets.
Covers(h) ==
    \A pct \in {10, 50, 95} : 100 * Below(h, Quantile(h, pct)) >= pct * h.count
=============================================================================
