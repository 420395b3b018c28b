------------------------- MODULE CoordinatorTypeProofs -------------------------
(* Every step of the coordinator and of Do keeps the types. *)
EXTENDS CoordinatorInvariant, FiniteSetTheorems, TLAPS

USE ZenonT(30)

(* Sums over finite sets. *)

\* A nonempty set of subsets of a finite set has a smallest member: the form in
\* which the proofs below use induction over finite sets.
LEMMA SmallestMember ==
  ASSUME NEW S, IsFiniteSet(S), NEW B \in SUBSET SUBSET S, B # {}
  PROVE  \E U \in B : \A V \in B : V \subseteq U => V = U
<1>1. B \subseteq FiniteSubsetsOf(S)
    BY FS_Subset DEF FiniteSubsetsOf
<1>2. PICK U \in B : \A V \in B : <<V, U>> \notin StrictSubsetOrdering(S)
    BY <1>1, FS_StrictSubsetOrderingWellFounded, WFMin
<1>3. ASSUME NEW V \in B, V \subseteq U, V # U PROVE FALSE
    BY <1>2, <1>3 DEF StrictSubsetOrdering
<1> QED
    BY <1>2, <1>3

Pick(s) == CHOOSE x \in s : TRUE

\* One unfolding of the recursion by which MapThenSumSet adds up the sizes.
Unfold(q, S, r, g) ==
  [s \in SUBSET S |->
     IF s = {} THEN 0 ELSE Size[q[Pick(s)].key][r] + g[s \ {Pick(s)}]]

Sums(q, S, r) == CHOOSE g : g = Unfold(q, S, r, g)

Sum(q, S, r) == Sums(q, S, r)[S]

\* The recursion has one solution at most, whatever set it started from.
LEMMA UnfoldUnique ==
  ASSUME NEW q, NEW r, NEW S, IsFiniteSet(S), NEW T \in SUBSET S, NEW f, NEW g,
         f = Unfold(q, T, r, f), g = Unfold(q, S, r, g)
  PROVE  f[T] = g[T]
<1> DEFINE B == {s \in SUBSET T : f[s] # g[s]}
<1> SUFFICES ASSUME B # {} PROVE FALSE
    OBVIOUS
<1>1. PICK U \in B : \A V \in B : V \subseteq U => V = U
  <2>1. IsFiniteSet(T) /\ B \in SUBSET SUBSET T
      BY FS_Subset
  <2> HIDE DEF B
  <2> QED
      BY SMTT(30), <2>1, SmallestMember
<1>2. f[U] = IF U = {} THEN 0 ELSE Size[q[Pick(U)].key][r] + f[U \ {Pick(U)}]
    BY DEF Unfold
<1>3. g[U] = IF U = {} THEN 0 ELSE Size[q[Pick(U)].key][r] + g[U \ {Pick(U)}]
    BY DEF Unfold
<1>4. U # {} => Pick(U) \in U
    BY DEF Pick
<1>5. U # {} => U \ {Pick(U)} \notin B /\ U \ {Pick(U)} \in SUBSET T
    BY <1>1, <1>4
<1> QED
    BY <1>2, <1>3, <1>5

\* It has a solution.
LEMMA UnfoldHasSolution ==
  ASSUME NEW q, NEW r, NEW S, IsFiniteSet(S)
  PROVE  Sums(q, S, r) = Unfold(q, S, r, Sums(q, S, r))
<1> DEFINE Solved(T) == Sums(q, T, r) = Unfold(q, T, r, Sums(q, T, r))
           B == {T \in SUBSET S : ~Solved(T)}
<1> SUFFICES ASSUME B # {} PROVE FALSE
    OBVIOUS
<1>1. PICK T \in B : \A V \in B : V \subseteq T => V = T
  <2>1. B \in SUBSET SUBSET S
      OBVIOUS
  <2> HIDE DEF B
  <2> QED
      BY SMTT(30), <2>1, SmallestMember
<1>2. \A V \in SUBSET T : V # T => Solved(V)
    BY <1>1
<1> DEFINE at(s) == IF s = {} THEN 0
                    ELSE Size[q[Pick(s)].key][r] + Sums(q, s \ {Pick(s)}, r)[s \ {Pick(s)}]
           g == [s \in SUBSET T |-> at(s)]
<1>3. ASSUME NEW s \in SUBSET T, s # T PROVE at(s) = Sums(q, s, r)[s]
  <2>1. Solved(s) /\ IsFiniteSet(s)
      BY <1>1, <1>2, <1>3, FS_Subset
  <2>2. CASE s = {}
      BY <2>1, <2>2 DEF Unfold
  <2>3. CASE s # {}
    <3>1. Pick(s) \in s
        BY <2>3 DEF Pick
    <3>2. s \ {Pick(s)} \in SUBSET s /\ Solved(s \ {Pick(s)})
        BY <1>2, <3>1
    <3>3. Sums(q, s \ {Pick(s)}, r)[s \ {Pick(s)}] = Sums(q, s, r)[s \ {Pick(s)}]
        BY SMTT(30), <2>1, <3>2, UnfoldUnique
    <3>4. Sums(q, s, r)[s] = Size[q[Pick(s)].key][r] + Sums(q, s, r)[s \ {Pick(s)}]
        BY <2>1, <2>3 DEF Unfold
    <3> QED
        BY <2>3, <3>3, <3>4
  <2> QED
      BY <2>2, <2>3
<1>4. g = Unfold(q, T, r, g)
  <2>1. ASSUME NEW s \in SUBSET T, s # {}
        PROVE  g[s \ {Pick(s)}] = Sums(q, s \ {Pick(s)}, r)[s \ {Pick(s)}]
    <3>1. Pick(s) \in s
        BY <2>1 DEF Pick
    <3>2. s \ {Pick(s)} \in SUBSET T /\ s \ {Pick(s)} # T
        BY <3>1
    <3> HIDE DEF at
    <3> QED
        BY <1>3, <3>2
  <2> QED
      BY <2>1 DEF Unfold
<1> HIDE DEF g
<1>5. Solved(T)
    BY <1>4 DEF Sums
<1> QED
    BY <1>1, <1>5

\* The sum over a nonempty set, by the element the recursion takes.
LEMMA SumByPick ==
  ASSUME NEW q, NEW r, NEW S, IsFiniteSet(S)
  PROVE  Sum(q, S, r) = IF S = {} THEN 0
                        ELSE Size[q[Pick(S)].key][r] + Sum(q, S \ {Pick(S)}, r)
<1>1. Sums(q, S, r) = Unfold(q, S, r, Sums(q, S, r))
    BY UnfoldHasSolution
<1>2. CASE S = {}
    BY <1>1, <1>2 DEF Sum, Unfold
<1>3. CASE S # {}
  <2> DEFINE T == S \ {Pick(S)}
  <2>1. T \in SUBSET S /\ IsFiniteSet(T)
      BY FS_Subset
  <2>2. Sums(q, T, r) = Unfold(q, T, r, Sums(q, T, r))
      BY <2>1, UnfoldHasSolution
  <2>3. Sums(q, T, r)[T] = Sums(q, S, r)[T]
      BY SMTT(30), <1>1, <2>1, <2>2, UnfoldUnique
  <2>4. Sums(q, S, r)[S] = Size[q[Pick(S)].key][r] + Sums(q, S, r)[T]
      BY <1>1, <1>3 DEF Unfold
  <2> QED
      BY <1>3, <2>3, <2>4 DEF Sum
<1> QED
    BY <1>2, <1>3

\* The sizes of items are natural numbers, and so are their sums.
LEMMA SumType ==
  ASSUME NEW q \in [Caller -> Request], NEW r \in Res, NEW S \in SUBSET Caller
  PROVE  Sum(q, S, r) \in Nat /\ (S = {} => Sum(q, S, r) = 0)
<1>1. \A i \in Caller : Size[q[i].key][r] \in Nat
    BY ResourceAssumption DEF Request
<1> DEFINE B == {T \in SUBSET S : Sum(q, T, r) \notin Nat}
<1>2. IsFiniteSet(S)
    BY CallAssumption, FS_Subset
<1>3. ASSUME B # {} PROVE FALSE
  <2>1. PICK T \in B : \A V \in B : V \subseteq T => V = T
    <3>1. B \in SUBSET SUBSET S
        OBVIOUS
    <3> HIDE DEF B
    <3> QED
        BY SMTT(30), <1>2, <1>3, <3>1, SmallestMember
  <2>2. IsFiniteSet(T) /\ T \subseteq S
      BY <1>2, FS_Subset
  <2>3. CASE T = {}
      BY SMTT(30), <2>2, <2>3, SumByPick
  <2>4. CASE T # {}
    <3>1. Pick(T) \in T
        BY <2>4 DEF Pick
    <3>2. Sum(q, T \ {Pick(T)}, r) \in Nat
        BY SMTT(30), <2>1, <2>2, <3>1
    <3>3. Sum(q, T, r) = Size[q[Pick(T)].key][r] + Sum(q, T \ {Pick(T)}, r)
        BY <2>2, <2>4, SumByPick
    <3>4. Size[q[Pick(T)].key][r] \in Nat
        BY <1>1, <2>2, <3>1
    <3> QED
        BY SMTT(30), <2>1, <3>2, <3>3, <3>4
  <2> QED
      BY <2>3, <2>4
<1> QED
    BY <1>2, <1>3, SumByPick

\* Any element may be split off a sum.
LEMMA SumSplit ==
  ASSUME NEW q \in [Caller -> Request], NEW r \in Res, NEW S \in SUBSET Caller, NEW y \in S
  PROVE  Sum(q, S, r) = Size[q[y].key][r] + Sum(q, S \ {y}, r)
<1>1. \A i \in Caller : Size[q[i].key][r] \in Nat
    BY ResourceAssumption DEF Request
<1> DEFINE Split(T) == \A x \in T : Sum(q, T, r) = Size[q[x].key][r] + Sum(q, T \ {x}, r)
           B == {T \in SUBSET S : ~Split(T)}
<1>2. IsFiniteSet(S)
    BY CallAssumption, FS_Subset
<1>3. ASSUME B # {} PROVE FALSE
  <2>1. PICK T \in B : \A V \in B : V \subseteq T => V = T
    <3>1. B \in SUBSET SUBSET S
        OBVIOUS
    <3> HIDE DEF B
    <3> QED
        BY SMTT(30), <1>2, <1>3, <3>1, SmallestMember
  <2>2. PICK x \in T : Sum(q, T, r) # Size[q[x].key][r] + Sum(q, T \ {x}, r)
      BY <2>1
  <2>3. Pick(T) \in T /\ IsFiniteSet(T) /\ T \subseteq S
      BY <1>2, <2>2, FS_Subset DEF Pick
  <2> DEFINE y0 == Pick(T)
  <2>4. Sum(q, T, r) = Size[q[y0].key][r] + Sum(q, T \ {y0}, r)
      BY <2>2, <2>3, SumByPick
  <2>5. x # y0
      BY <2>2, <2>4
  <2> HIDE DEF y0
  <2>6. y0 \in T /\ x \in T \ {y0} /\ y0 \in T \ {x}
      BY <2>3, <2>5 DEF y0
  <2>7. Split(T \ {y0}) /\ Split(T \ {x})
      BY SMTT(30), <2>1, <2>3, <2>6
  <2>8. Sum(q, T \ {y0}, r) = Size[q[x].key][r] + Sum(q, (T \ {y0}) \ {x}, r)
      BY <2>6, <2>7
  <2>9. Sum(q, T \ {x}, r) = Size[q[y0].key][r] + Sum(q, (T \ {x}) \ {y0}, r)
      BY <2>6, <2>7
  <2>10. (T \ {y0}) \ {x} = (T \ {x}) \ {y0} /\ (T \ {x}) \ {y0} \in SUBSET Caller
      BY <2>3
  <2>11. Sum(q, (T \ {x}) \ {y0}, r) \in Nat
      BY <2>10, SumType
  <2>12. Size[q[x].key][r] \in Nat /\ Size[q[y0].key][r] \in Nat
      BY <1>1, <2>3, <2>6
  <2> DEFINE rest == Sum(q, (T \ {x}) \ {y0}, r)
             wx == Size[q[x].key][r]
             wy == Size[q[y0].key][r]
  <2>13. Sum(q, T, r) = wy + (wx + rest) /\ Sum(q, T \ {x}, r) = wy + rest
      BY Zenon, <2>4, <2>8, <2>9, <2>10
  <2>14. wx \in Nat /\ wy \in Nat /\ rest \in Nat
      BY <2>11, <2>12
  <2> HIDE DEF rest, wx, wy
  <2>15. wy + (wx + rest) = wx + (wy + rest)
      BY SMTT(30), <2>14
  <2> QED
      BY <2>2, <2>13, <2>15 DEF wx
<1> QED
    BY <1>3

\* The sum over a part of a set and the sum over the rest.
LEMMA SumMinus ==
  ASSUME NEW q \in [Caller -> Request], NEW r \in Res, NEW S \in SUBSET Caller, NEW T \in SUBSET S
  PROVE  Sum(q, S \ T, r) = Sum(q, S, r) - Sum(q, T, r)
<1>1. \A i \in Caller : Size[q[i].key][r] \in Nat
    BY ResourceAssumption DEF Request
<1> DEFINE Off(U) == Sum(q, S \ U, r) = Sum(q, S, r) - Sum(q, U, r)
           B == {U \in SUBSET T : ~Off(U)}
<1>2. IsFiniteSet(T)
    BY CallAssumption, FS_Subset
<1>3. ASSUME B # {} PROVE FALSE
  <2>1. PICK U \in B : \A V \in B : V \subseteq U => V = U
    <3>1. B \in SUBSET SUBSET T
        OBVIOUS
    <3> HIDE DEF B
    <3> QED
        BY SMTT(30), <1>2, <1>3, <3>1, SmallestMember
  <2>2. U \in SUBSET T /\ ~Off(U)
      BY <2>1
  <2>3. CASE U = {}
    <3>1. S \ U = S
        BY <2>3
    <3> QED
        BY SMTT(30), <2>2, <2>3, <3>1, SumType
  <2>4. CASE U # {}
    <3>1. PICK x \in U : TRUE
        BY <2>4
    <3>2. Off(U \ {x})
        BY SMTT(30), <2>1, <2>2, <3>1
    <3> DEFINE wx == Size[q[x].key][r]
               W == S \ (U \ {x})
    <3>3. Sum(q, U, r) = wx + Sum(q, U \ {x}, r)
      <4>1. U \in SUBSET Caller
          BY <2>2
      <4> QED
          BY <3>1, <4>1, SumSplit
    <3>4. Sum(q, W, r) = wx + Sum(q, W \ {x}, r)
      <4>1. W \in SUBSET Caller /\ x \in W
          BY <2>2, <3>1
      <4> HIDE DEF W
      <4> QED
          BY <4>1, SumSplit
    <3>5. W \ {x} = S \ U
        BY <2>2, <3>1
    <3>6. /\ Sum(q, S, r) \in Nat /\ Sum(q, U, r) \in Nat /\ Sum(q, S \ U, r) \in Nat
          /\ Sum(q, U \ {x}, r) \in Nat /\ Size[q[x].key][r] \in Nat
      <4>1. U \in SUBSET Caller /\ U \ {x} \in SUBSET Caller /\ S \ U \in SUBSET Caller /\ x \in Caller
          BY <2>2, <3>1
      <4> QED
          BY <1>1, <4>1, SumType
    <3> HIDE DEF wx
    <3>7. Sum(q, W, r) = wx + Sum(q, S \ U, r)
        BY Zenon, <3>4, <3>5
    <3>8. Sum(q, W, r) = Sum(q, S, r) - Sum(q, U \ {x}, r)
        BY <3>2
    <3>9. Sum(q, S \ U, r) = Sum(q, S, r) - Sum(q, U, r)
      <4> DEFINE a == Sum(q, S \ U, r)
                 b == Sum(q, S, r)
                 d == Sum(q, U, r)
                 e == Sum(q, U \ {x}, r)
      <4>1. a \in Nat /\ b \in Nat /\ d \in Nat /\ e \in Nat /\ wx \in Nat
          BY Zenon, <3>6 DEF wx
      <4>2. wx + a = b - e /\ d = wx + e
          BY Zenon, <3>3, <3>7, <3>8
      <4> HIDE DEF a, b, d, e
      <4>3. a = b - d
          BY SMTT(30), <4>1, <4>2
      <4> QED
          BY <4>3 DEF a, b, d
    <3> QED
        BY <2>2, <3>9
  <2> QED
      BY <2>3, <2>4
<1> QED
    BY <1>3

\* Total is that sum, before and after a step.
LEMMA TotalIs ==
  ASSUME NEW S, NEW r
  PROVE  Total(S, r) = Sum(req, S, r)
BY DEF Total, MapThenSumSet, MapThenFoldSet, SizeOf, Sum, Sums, Unfold, Pick

\* The same, after a step, for the sums the invariant speaks of.
LEMMA TotalsNext ==
  ASSUME NEW r
  PROVE  /\ \A p : Total(part[p].pending, r)' = Sum(req', part'[p].pending, r)
         /\ \A h : Total(batch[h].items, r)' = Sum(req', batch'[h].items, r)
BY DEF Total, MapThenSumSet, MapThenFoldSet, SizeOf, Sum, Sums, Unfold, Pick
--------------------------------------------------------------------------------
\* Most leaves are first-order and go to Zenon; the others name SMT.


\* A finite, nonempty set has an element at which an integer-valued function is
\* least: the oldest item of a queue exists, and so does a latest deadline.
LEMMA LeastExists ==
  ASSUME NEW S, IsFiniteSet(S), S # {}, NEW f \in [S -> Int]
  PROVE  \E x \in S : \A y \in S : f[x] <= f[y]
<1> DEFINE Has(U) == \E x \in U : \A y \in U : f[x] <= f[y]
           Bad == {U \in SUBSET S : U # {} /\ ~Has(U)}
<1> SUFFICES ASSUME ~Has(S) PROVE FALSE
    OBVIOUS
<1>1. S \in Bad
    OBVIOUS
<1>2. Bad \subseteq FiniteSubsetsOf(S)
    BY FS_Subset DEF FiniteSubsetsOf
<1>3. PICK U \in Bad : \A V \in Bad : <<V, U>> \notin StrictSubsetOrdering(S)
  <2>1. IsWellFoundedOn(StrictSubsetOrdering(S), FiniteSubsetsOf(S))
      BY FS_StrictSubsetOrderingWellFounded
  <2>2. Bad # {}
      BY <1>1
  <2> HIDE DEF Bad
  <2> QED
      BY <1>2, <2>1, <2>2, WFMin
<1>4. PICK x \in U : TRUE
    OBVIOUS
<1>5. U \ {x} \notin Bad
    BY <1>3, <1>4 DEF StrictSubsetOrdering
<1>6. CASE U = {x}
    BY SMTT(30), <1>6
<1>7. CASE U # {x}
  <2>1. PICK m \in U \ {x} : \A y \in U \ {x} : f[m] <= f[y]
      BY <1>5, <1>7, <1>4
  <2>2. f[m] \in Int /\ f[x] \in Int /\ \A y \in U : f[y] \in Int
      OBVIOUS
  <2>3. CASE f[m] <= f[x]
      BY <2>1, <2>2, <2>3
  <2>4. CASE f[x] <= f[m]
      BY SMTT(30), <2>1, <2>2, <2>4
  <2> QED
      BY SMTT(30), <2>2, <2>3, <2>4
<1> QED
    BY <1>6, <1>7
--------------------------------------------------------------------------------
(* Type correctness. *)

\* The oldest item of a nonempty set of items is one of them, and none of them
\* is older.
LEMMA OldestIsIn ==
  ASSUME TypeOK, NEW S \in SUBSET Caller, S # {}
  PROVE  Oldest(S) \in S /\ \A j \in S : item[Oldest(S)].seq <= item[j].seq
<1> DEFINE f == [i \in S |-> item[i].seq]
<1>1. f \in [S -> Int]
    BY SMTT(30) DEF TypeOK, ItemState
<1>2. IsFiniteSet(S)
    BY CallAssumption, FS_Subset
<1> HIDE DEF f
<1>3. PICK i \in S : \A j \in S : f[i] <= f[j]
    BY <1>1, <1>2, LeastExists
<1>4. \A j \in S : item[i].seq <= item[j].seq
    BY <1>3 DEF f
<1> QED
    BY <1>4 DEF Oldest

\* The deadline given to a provider context is a time, and when there is one no
\* active waiter of the batch has a later one or none.
LEMMA BatchDeadlineLatest ==
  ASSUME TypeOK, NEW S \in SUBSET Caller, S # {}
  PROVE  /\ BatchDeadline(S) \in Nat
         /\ BatchDeadline(S) # 0 =>
              \A w \in WaitersOf(S) \cap awaiting : req[w].deadline \in 1..BatchDeadline(S)
<1> DEFINE W == WaitersOf(S) \cap awaiting
           f == [w \in W |-> -req[w].deadline]
<1>1. W \in SUBSET Caller
    BY DEF TypeOK, ItemState, WaitersOf
<1>2. f \in [W -> Int] /\ \A w \in W : req[w].deadline \in Nat
    BY SMTT(30), <1>1 DEF TypeOK, Request
<1>3. IsFiniteSet(W)
    BY <1>1, CallAssumption, FS_Subset
<1>4. ASSUME \A i \in S : LET V == item[i].waiters \cap awaiting
                           IN  V # {} /\ \A w \in V : req[w].deadline # 0
      PROVE  /\ Max(Deadlines(S)) \in Nat
             /\ \A w \in W : req[w].deadline \in 1..Max(Deadlines(S))
  <2>1. W # {} /\ \A w \in W : req[w].deadline # 0
      BY <1>4 DEF WaitersOf
  <2> HIDE DEF f, W
  <2>2. PICK w \in W : \A v \in W : f[w] <= f[v]
      BY <1>2, <1>3, <2>1, LeastExists
  <2>3. \A v \in W : req[v].deadline <= req[w].deadline
      BY SMTT(30), <1>2, <2>2 DEF f
  <2>4. Deadlines(S) = {req[v].deadline : v \in W}
      BY <2>1 DEF Deadlines, W
  <2>5. \E d \in Deadlines(S) : \A e \in Deadlines(S) : d >= e
      BY <1>2, <2>3, <2>4
  <2>6. Max(Deadlines(S)) \in Deadlines(S) /\ \A e \in Deadlines(S) : Max(Deadlines(S)) >= e
      BY <2>5 DEF Max
  <2>7. Max(Deadlines(S)) \in Nat
      BY <1>2, <2>4, <2>6
  <2>8. ASSUME NEW v \in W PROVE req[v].deadline \in 1..Max(Deadlines(S))
    <3>1. Max(Deadlines(S)) >= req[v].deadline /\ req[v].deadline # 0 /\ req[v].deadline \in Nat
        BY <1>2, <2>1, <2>4, <2>6
    <3> QED
        BY SMTT(30), <2>7, <3>1
  <2> QED
      BY <2>7, <2>8
<1> QED
    BY <1>4 DEF BatchDeadline

\* In particular it is a time (dispatchBatch).
LEMMA BatchDeadlineType ==
  ASSUME TypeOK, NEW S \in SUBSET Caller, S # {}
  PROVE  BatchDeadline(S) \in Nat
BY BatchDeadlineLatest

\* A nonempty set of integers with a lower bound has a least element.
LEMMA IntLeast ==
  ASSUME NEW T \in SUBSET Int, T # {}, NEW b \in Int, \A t \in T : b <= t
  PROVE  \E m \in T : \A t \in T : m <= t
<1> DEFINE N == {t - b : t \in T}
           R == {ss \in Nat \X Nat : ss[1] < ss[2]}
<1>1. IsWellFoundedOn(R, Nat)
    BY NatLessThanWellFounded DEF OpToRel
<1>2. N \subseteq Nat /\ N # {}
  <2>1. \A t \in T : t - b \in Nat
      BY SMTT(30)
  <2> QED
      BY <2>1
<1> HIDE DEF N
<1>3. PICK n \in N : \A k \in N : <<k, n>> \notin R
    BY <1>1, <1>2, WFMin
<1>4. ASSUME NEW k \in N PROVE n <= k
  <2>1. n \in Nat /\ k \in Nat
      BY <1>2
  <2>2. <<k, n>> \in Nat \X Nat /\ ~(<<k, n>>[1] < <<k, n>>[2])
      BY <1>3, <2>1
  <2> QED
      BY SMTT(30), <2>1, <2>2
<1>5. PICK m \in T : n = m - b
    BY DEF N
<1>6. \A t \in T : n <= t - b
    BY <1>4 DEF N
<1> QED
    BY SMTT(30), <1>5, <1>6

\* The timer computeNextTimer arms is due at a time, which is no later than any
\* time-based flush of any partition.
LEMMA NextTimerLeast ==
  ASSUME TypeOK
  PROVE  /\ NextTimer \in SUBSET Int
         /\ \A p \in partitions : \A t \in FlushTimes(p) : t \in Int /\ \E m \in NextTimer : m <= t
<1> DEFINE times == UNION {FlushTimes(p) : p \in partitions}
<1>1. ASSUME NEW p \in partitions, NEW t \in FlushTimes(p)
      PROVE  t \in Int /\ -DeadlineMargin <= t
  <2> DEFINE q == part[p].pending
  <2>1. p \in Part /\ q \in SUBSET Caller /\ q # {}
      BY <1>1 DEF TypeOK, PartitionState, FlushTimes
  <2>2. Oldest(q) \in Caller
      BY <2>1, OldestIsIn
  <2>3. item[Oldest(q)].enqueue \in Nat /\ dyn.maxWait \in Nat /\ DeadlineMargin \in Nat
      BY <2>2, SizeAssumption DEF TypeOK, ItemState, Settings
  <2>4. Deadlines(q) \subseteq Nat
      BY SMTT(30), <2>1 DEF TypeOK, ItemState, Request, Deadlines, WaitersOf
  <2>5. \/ t = item[Oldest(q)].enqueue + dyn.maxWait
        \/ \E d \in Deadlines(q) : t = d - DeadlineMargin
      BY <1>1 DEF FlushTimes
  <2> QED
      BY SMTT(30), <2>3, <2>4, <2>5
<1>2. times \in SUBSET Int /\ \A t \in times : -DeadlineMargin <= t
    BY <1>1
<1>3. -DeadlineMargin \in Int
    BY SMTT(30), SizeAssumption
<1> HIDE DEF times
<1>4. CASE times = {}
  <2>1. NextTimer = {}
      BY <1>4 DEF NextTimer, times
  <2>2. \A p \in partitions : FlushTimes(p) = {}
      BY <1>4 DEF times
  <2> QED
      BY <2>1, <2>2
<1>5. CASE times # {}
  <2>1. \E m \in times : \A t \in times : m <= t
      BY <1>2, <1>3, <1>5, IntLeast
  <2>2. Min(times) \in times /\ \A t \in times : Min(times) <= t
      BY <2>1 DEF Min
  <2>3. NextTimer = {Min(times)}
      BY <1>5 DEF NextTimer, times
  <2>4. \A p \in partitions : FlushTimes(p) \subseteq times
      BY DEF times
  <2> QED
      BY <1>2, <2>2, <2>3, <2>4
<1> QED
    BY <1>4, <1>5

\* In particular it is due at a time (computeNextTimer).
LEMMA NextTimerType ==
  ASSUME TypeOK
  PROVE  NextTimer \in SUBSET Int
BY NextTimerLeast

\* The sums and differences the steps store are integers.
LEMMA Arithmetic ==
  /\ \A m, n \in Int : m + n \in Int /\ m - n \in Int
  /\ \A n \in Nat : n + 1 \in Nat /\ n \in Int
  /\ 0 \in Nat /\ 0 \in Int /\ 1 \in Nat /\ 1 \in Int
  BY SMTT(30)

\* The cursor of schedule starts at 1 and stops behind the last partition.
LEMMA Cursors ==
  /\ 0 \in 0..(NumPartitions + 1) /\ 1 \in 0..(NumPartitions + 1)
  /\ \A p \in Part : p + 1 \in 0..(NumPartitions + 1)
  BY SMTT(30), SizeAssumption DEF Part

\* The records before anything was queued, submitted or dispatched are well-typed.
LEMMA NewPartitionType == NewPartition \in PartitionState
  BY Arithmetic DEF NewPartition, PartitionState

\* No item and no batch yet.
LEMMA NoItemType == NoItem \in ItemState /\ NoBatch \in BatchState
<1>1. 0 \in 0..NumPartitions
    BY SMTT(30), SizeAssumption
<1> QED
    BY <1>1, Arithmetic DEF NoItem, ItemState, NoBatch, BatchState

\* The configured settings are within the configured limits.
LEMMA ConfiguredType == Configured \in Settings
<1>1. MaxWait \in Nat /\ MaxBatchSize \in 1..MaxBatchSize /\ MaxConcurrency \in 1..MaxConcurrency
    BY SMTT(30), SizeAssumption
<1> QED
    BY <1>1 DEF Configured, Settings

\* A partition that gains a waiter, loses one or gains an item stays well-typed.
LEMMA PartitionUpdates ==
  ASSUME NEW q \in PartitionState, NEW c \in Caller
  PROVE  /\ [q EXCEPT !.waiters = @ + 1] \in PartitionState
         /\ [q EXCEPT !.waiters = @ - 1] \in PartitionState
         /\ Enqueued(q, c) \in PartitionState
<1>1. q.waiters \in Int /\ q.live \in Int /\ q.pending \in SUBSET Caller /\ q.active \in SUBSET Caller
    BY DEF PartitionState
<1>2. q.waiters + 1 \in Int /\ q.waiters - 1 \in Int /\ q.live + 1 \in Int
    BY <1>1, Arithmetic
<1> QED
    BY <1>1, <1>2 DEF PartitionState, Enqueued

\* Item sizes, and what the clamped adaptive settings may be.
LEMMA TunedType == \A s \in Tunings : Tuned(s) \in Settings
  BY SMTT(30), SizeAssumption, TuningAssumption DEF Tuned, ClampTo, Settings

\* The empty sequence.
LEMMA EmptyType == \A S : <<>> \in Seq(S)
  BY SMTT(30)

\* A coordinator as Bind constructs it is well typed.
LEMMA TypeInit == Init => TypeOK
<1> SUFFICES ASSUME Init PROVE TypeOK
    OBVIOUS
<1>1. req \in [Caller -> Request]
    BY CallAssumption DEF Init
<1>2. /\ NewPartition \in PartitionState /\ NoItem \in ItemState /\ NoBatch \in BatchState
      /\ Configured \in Settings
    BY NewPartitionType, NoItemType, ConfiguredType
<1>3. /\ part \in [Part -> PartitionState] /\ item \in [Caller -> ItemState]
      /\ batch \in [Caller -> BatchState] /\ dyn \in Settings
    BY <1>2 DEF Init
<1>4. ctl \in [Ctl -> CtlState]
    BY DEF Init, CtlState
<1>5. cursor \in 0..(NumPartitions + 1)
    BY Cursors DEF Init
<1>6. /\ doing \in [Caller -> {"idle", "submitted", "admitted", "returned"}]
      /\ outcome \in [Caller -> {"none", "ctx"} \cup Refusals \cup ResultKinds]
      /\ reply \in [Caller -> SUBSET (Refusals \cup {"admitted"})]
      /\ result \in [Caller -> SUBSET [item : Caller, kind : ResultKinds]]
    BY DEF Init
<1>7. todo \in Seq(Caller) /\ blocked \in Seq(Caller) /\ (pc = "handle" <=> todo # <<>>)
    BY EmptyType DEF Init
<1>8. cancelCh \in Seq([call : Caller, blocked : BOOLEAN])
    BY EmptyType DEF Init
<1>9. /\ timer \in SUBSET Int /\ partitions \in SUBSET Part /\ submitSeq \in Nat
      /\ inflight = {} /\ activeProvider \in Int /\ barriers \in SUBSET Ctl
      /\ ctxDone \in SUBSET Caller /\ awaiting \in SUBSET Caller /\ now \in Nat
    BY Arithmetic DEF Init
<1>10. closing \in BOOLEAN /\ engineDone \in BOOLEAN
    BY DEF Init
<1>11. pc \in {"select", "handle", "force", "schedule", "settle", "stopped"}
    BY DEF Init
<1> QED
    BY <1>1, <1>3, <1>4, <1>5, <1>6, <1>7, <1>8, <1>9, <1>10, <1>11 DEF TypeOK

\* Storing well-typed values keeps the partitions well-typed.
LEMMA MaybeRetireType ==
  ASSUME TypeOK, NEW p \in Part, NEW np \in PartitionState, NEW u, MaybeRetire(p, np, u)
  PROVE  partitions' \in SUBSET Part /\ part' \in [Part -> PartitionState]
    BY NewPartitionType DEF TypeOK, MaybeRetire

\* Delivering results keeps the result channels and the waiters well-typed.
LEMMA DeliverType ==
  ASSUME TypeOK, NEW S \in SUBSET Caller, NEW kind, \A i \in S : kind[i] \in ResultKinds,
         Deliver(S, kind)
  PROVE  /\ result' \in [Caller -> SUBSET [item : Caller, kind : ResultKinds]]
         /\ awaiting' \in SUBSET Caller
<1>1. awaiting' \in SUBSET Caller
    BY DEF TypeOK, Deliver
<1>2. ASSUME NEW c \in Caller
      PROVE  {[item |-> i, kind |-> kind[i]] : i \in {j \in S : c \in item[j].waiters}}
               \in SUBSET [item : Caller, kind : ResultKinds]
    BY SMTT(30)
<1> QED
    BY <1>1, <1>2 DEF TypeOK, Deliver

\* Canceling the provider contexts of some batches keeps the batches well-typed.
LEMMA CancelBatchesType ==
  ASSUME TypeOK, NEW H
  PROVE  /\ CancelContexts(H) \in [Caller -> BatchState]
         /\ \A h \in Caller : /\ CancelContexts(H)[h].items = batch[h].items
                             /\ CancelContexts(H)[h].part = batch[h].part
<1>1. ASSUME NEW h \in Caller
      PROVE  /\ [batch[h] EXCEPT !.cancelled = TRUE] \in BatchState
             /\ [batch[h] EXCEPT !.cancelled = TRUE].items = batch[h].items
             /\ [batch[h] EXCEPT !.cancelled = TRUE].part = batch[h].part
  <2>1. batch[h] \in BatchState
      BY DEF TypeOK
  <2> QED
      BY <2>1 DEF BatchState
<1> QED
    BY <1>1 DEF CancelContexts, TypeOK

\* handleSubmit keeps the state well-typed.
LEMMA HandleSubmitType ==
  ASSUME TypeOK, NEW c \in Caller, HandleSubmit(c)
  PROVE  /\ partitions' \in SUBSET Part /\ part' \in [Part -> PartitionState]
         /\ item' \in [Caller -> ItemState] /\ submitSeq' \in Nat
         /\ blocked' \in Seq(Caller)
         /\ reply' \in [Caller -> SUBSET (Refusals \cup {"admitted"})]
<1>1. req[c].part \in Part
    BY DEF TypeOK, Request
<1>2. ASSUME NEW err \in {"partitions", "full"}, ApplyOverflow(c, err)
      PROVE  /\ blocked' \in Seq(Caller)
             /\ reply' \in [Caller -> SUBSET (Refusals \cup {"admitted"})]
  <2>1. blocked' \in Seq(Caller)
    <3>1. blocked' = blocked \/ blocked' = Append(blocked, c)
        BY <1>2 DEF ApplyOverflow
    <3>2. blocked \in Seq(Caller) /\ c \in Caller
        BY DEF TypeOK
    <3> QED
        BY SMTT(30), <3>1, <3>2
  <2>2. reply' \in [Caller -> SUBSET (Refusals \cup {"admitted"})]
    <3>1. UNCHANGED reply \/ \E v \in Refusals : Reply(c, v)
        BY <1>2 DEF ApplyOverflow, Refusals
    <3>2. reply \in [Caller -> SUBSET (Refusals \cup {"admitted"})]
        BY DEF TypeOK
    <3>3. ASSUME NEW v \in Refusals, Reply(c, v)
          PROVE  reply' \in [Caller -> SUBSET (Refusals \cup {"admitted"})]
        BY <3>2, <3>3 DEF Reply
    <3> QED
        BY <3>1, <3>2, <3>3
  <2> QED
      BY <2>1, <2>2
<1>3. CASE SubmitWhileClosing(c)
    BY <1>3 DEF SubmitWhileClosing, Reply, TypeOK, Refusals, queueVars
<1>4. CASE SubmitNoPartition(c)
    BY <1>2, <1>4 DEF SubmitNoPartition, TypeOK, queueVars
<1>5. CASE SubmitJoin(c)
  <2>1. PICK i \in Joinable(req[c].part, c) :
          item' = [item EXCEPT ![i] = Joined(item[i], c)]
      BY <1>5 DEF SubmitJoin
  <2>2. i \in Caller
      BY <1>1 DEF Joinable, TypeOK, PartitionState
  <2>3. item' \in [Caller -> ItemState]
    <3>1. Joined(item[i], c) \in ItemState
      <4>1. item[i] \in ItemState
          BY <2>2 DEF TypeOK
      <4>2. item[i].activeWaiters + 1 \in Int
          BY <4>1, Arithmetic DEF ItemState
      <4> QED
          BY <4>1, <4>2 DEF Joined, ItemState
    <3> QED
        BY <2>1, <3>1 DEF TypeOK
  <2>4. part' \in [Part -> PartitionState]
    <3>1. [part[req[c].part] EXCEPT !.waiters = @ + 1] \in PartitionState
      <4>1. part[req[c].part] \in PartitionState
          BY <1>1 DEF TypeOK
      <4> QED
          BY <4>1, Arithmetic, PartitionUpdates
    <3> QED
        BY <1>1, <1>5, <3>1 DEF SubmitJoin, TypeOK
  <2> QED
      BY <1>5, <2>3, <2>4 DEF SubmitJoin, Reply, TypeOK
<1>6. CASE SubmitOverLimit(c)
    BY <1>1, <1>2, <1>6 DEF SubmitOverLimit, TypeOK
<1>7. CASE SubmitEnqueue(c)
  <2>1. part' \in [Part -> PartitionState]
    <3>1. Enqueued(part[req[c].part], c) \in PartitionState
      <4>1. part[req[c].part] \in PartitionState
          BY <1>1 DEF TypeOK
      <4> QED
          BY <4>1, Arithmetic, PartitionUpdates
    <3> QED
        BY <1>7, <3>1 DEF SubmitEnqueue, TypeOK
  <2>2. item' \in [Caller -> ItemState] /\ submitSeq' \in Nat
    <3> DEFINE n == [waiters |-> {c}, activeWaiters |-> 1, seq |-> submitSeq + 1, enqueue |-> now]
    <3>1. /\ submitSeq \in Nat /\ now \in Nat /\ item \in [Caller -> ItemState]
        BY DEF TypeOK
    <3>2. submitSeq + 1 \in Nat
        BY <3>1, Arithmetic
    <3>3. n \in ItemState
        BY <3>1, <3>2, Arithmetic DEF ItemState
    <3>4. item' = [item EXCEPT ![c] = n] /\ submitSeq' = submitSeq + 1
        BY <1>7 DEF SubmitEnqueue
    <3> HIDE DEF n
    <3> QED
        BY <3>1, <3>2, <3>3, <3>4
  <2> QED
      BY <1>1, <1>7, <2>1, <2>2 DEF SubmitEnqueue, Reply, TypeOK
<1> QED
    BY <1>3, <1>4, <1>5, <1>6, <1>7 DEF HandleSubmit

\* The turn's steps of the coordinator keep the state well-typed.
LEMMA SubmitType ==
  ASSUME TypeOK, NEW c \in Caller, Submit(c)
  PROVE  TypeOK'
<1>1. todo' \in Seq(Caller) /\ todo' # <<>> /\ pc' = "handle"
    BY SMTT(30) DEF Submit
<1>2. doing' \in [Caller -> {"idle", "submitted", "admitted", "returned"}]
    BY DEF Submit, TypeOK
<1> QED
    BY <1>1, <1>2 DEF Submit, TypeOK, queueVars, batchVars, deliveryVars, envVars

\* handleSubmit, for the submission at the head of todo, keeps the types.
LEMMA HandleType ==
  ASSUME TypeOK, Handle
  PROVE  TypeOK'
<1>1. todo \in Seq(Caller) /\ todo # <<>>
    BY DEF TypeOK, Handle
<1>2. Head(todo) \in Caller /\ Tail(todo) \in Seq(Caller)
    BY SMTT(30), <1>1
<1>3. HandleSubmit(Head(todo))
    BY DEF Handle
<1>4. /\ partitions' \in SUBSET Part /\ part' \in [Part -> PartitionState]
      /\ item' \in [Caller -> ItemState] /\ submitSeq' \in Nat
      /\ blocked' \in Seq(Caller)
      /\ reply' \in [Caller -> SUBSET (Refusals \cup {"admitted"})]
    BY <1>2, <1>3, HandleSubmitType
<1>5. /\ todo' \in Seq(Caller) /\ (pc' = "handle" <=> todo' # <<>>)
      /\ pc' \in {"handle", "schedule"}
    BY <1>2 DEF Handle
<1>6. cursor' \in 0..(NumPartitions + 1)
    BY Cursors DEF Handle, TypeOK
<1> QED
    BY <1>4, <1>5, <1>6 DEF Handle, TypeOK, batchVars, callVars, deliveryVars, envVars

\* Appending to a sequence.
LEMMA AppendType ==
  ASSUME NEW S, NEW s \in Seq(S), NEW e \in S
  PROVE  Append(s, e) \in Seq(S)
  BY SMTT(30)

\* Taking the first element off a sequence, and cutting one out of it.
LEMMA HeadAndTail ==
  ASSUME NEW S, NEW s \in Seq(S), s # <<>>
  PROVE  Head(s) \in S /\ Tail(s) \in Seq(S)
  BY SMTT(30)

\* Cutting one element out of a sequence leaves a sequence over the same set.
LEMMA WithoutElement ==
  ASSUME NEW S, NEW s \in Seq(S), NEW n \in 1..Len(s)
  PROVE  SubSeq(s, 1, n - 1) \o SubSeq(s, n + 1, Len(s)) \in Seq(S)
  BY SMTT(30)

\* The branch of handleCancel that finds the waiter keeps the types.
LEMMA CancelWaiterType ==
  ASSUME TypeOK, NEW m \in [call : Caller, blocked : BOOLEAN], CancelWaiter(m)
  PROVE  /\ partitions' \in SUBSET Part /\ part' \in [Part -> PartitionState]
         /\ item' \in [Caller -> ItemState] /\ awaiting' \in SUBSET Caller
         /\ batch' \in [Caller -> BatchState] /\ \A h \in inflight : batch'[h].part \in Part
<1> DEFINE c == m.call
           p == req[c].part
           np == [part[p] EXCEPT !.waiters = @ - 1]
<1>1. c \in Caller /\ p \in Part
    BY DEF TypeOK, Request
<1>2. part[p] \in PartitionState
    BY <1>1 DEF TypeOK
<1>3. np \in PartitionState
    BY <1>1, <1>2, Arithmetic, PartitionUpdates
<1>4. PICK i \in FoundOn(c) :
        /\ item' = [item EXCEPT ![i].activeWaiters = @ - 1]
        /\ IF LastWaiter(i) /\ BatchOf(i) = {}
           THEN MaybeRetire(p, RemovePending(np, i), LessUsed(p, {i}))
           ELSE part' = [part EXCEPT ![p] = np] /\ UNCHANGED <<partitions, used>>
        /\ IF LastWaiter(i) THEN BatchLosesWaiter(i) ELSE UNCHANGED <<batch, counted>>
    BY DEF CancelWaiter
<1>5. i \in Caller
    BY <1>1, <1>2 DEF FoundOn, PartitionState
<1> HIDE DEF np, p, c
<1>6. item' \in [Caller -> ItemState]
  <2>1. item \in [Caller -> ItemState]
      BY DEF TypeOK
  <2>2. item[i] \in ItemState
      BY <1>5, <2>1
  <2>3. [item[i] EXCEPT !.activeWaiters = @ - 1] \in ItemState
    <3>1. item[i].activeWaiters - 1 \in Int
        BY <2>2, Arithmetic DEF ItemState
    <3> QED
        BY <2>2, <3>1 DEF ItemState
  <2> QED
      BY <1>4, <1>5, <2>1, <2>3
<1>7. partitions' \in SUBSET Part /\ part' \in [Part -> PartitionState]
  <2>1. RemovePending(np, i) \in PartitionState
    <3>1. np.live - 1 \in Int
        BY <1>3, Arithmetic DEF PartitionState
    <3> QED
        BY <1>3, <3>1 DEF RemovePending, PartitionState
  <2>2. CASE LastWaiter(i) /\ BatchOf(i) = {}
      BY <1>1, <1>4, <2>1, <2>2, MaybeRetireType
  <2>3. CASE ~(LastWaiter(i) /\ BatchOf(i) = {})
    <3>1. partitions \in SUBSET Part /\ part \in [Part -> PartitionState]
        BY DEF TypeOK
    <3>2. part' = [part EXCEPT ![p] = np] /\ UNCHANGED partitions
        BY <1>4, <2>3
    <3> QED
        BY <1>3, <3>1, <3>2
  <2> QED
      BY <2>2, <2>3
<1>8. batch' \in [Caller -> BatchState] /\ \A h \in inflight : batch'[h].part \in Part
  <2>1. UNCHANGED batch \/ \E H \in SUBSET inflight : batch' = CancelContexts(H)
      BY <1>4 DEF BatchLosesWaiter, BatchOf
  <2>2. /\ batch \in [Caller -> BatchState] /\ inflight \subseteq Caller
        /\ \A h \in inflight : batch[h].part \in Part
      BY DEF TypeOK
  <2>3. ASSUME NEW H, batch' = CancelContexts(H)
        PROVE  batch' \in [Caller -> BatchState] /\ \A h \in inflight : batch'[h].part \in Part
      BY <2>2, <2>3, CancelBatchesType
  <2> QED
      BY <2>1, <2>2, <2>3
<1>9. awaiting' \in SUBSET Caller
    BY DEF CancelWaiter, TypeOK
<1> QED
    BY <1>6, <1>7, <1>8, <1>9

\* handleCancel keeps the types in each of its three branches.
LEMMA HandleCancelType ==
  ASSUME TypeOK, HandleCancel
  PROVE  TypeOK'
<1> DEFINE m == Head(cancelCh)
<1>1. cancelCh \in Seq([call : Caller, blocked : BOOLEAN]) /\ cancelCh # <<>>
    BY DEF TypeOK, HandleCancel
<1>2. m \in [call : Caller, blocked : BOOLEAN]
    BY <1>1, HeadAndTail
<1>3. cancelCh' \in Seq([call : Caller, blocked : BOOLEAN])
    BY <1>1, HeadAndTail DEF HandleCancel
<1> HIDE DEF m
<1>4. /\ partitions' \in SUBSET Part /\ part' \in [Part -> PartitionState]
      /\ item' \in [Caller -> ItemState] /\ awaiting' \in SUBSET Caller
      /\ batch' \in [Caller -> BatchState] /\ \A h \in inflight : batch'[h].part \in Part
      /\ blocked' \in Seq(Caller)
  <2>1. CASE CancelBlocked(m)
    <3>1. blocked \in Seq(Caller)
        BY DEF TypeOK
    <3>2. \/ blocked' = blocked
          \/ \E n \in DOMAIN blocked :
               blocked' = SubSeq(blocked, 1, n - 1) \o SubSeq(blocked, n + 1, Len(blocked))
        BY <2>1 DEF CancelBlocked
    <3>3. DOMAIN blocked = 1..Len(blocked)
        BY SMTT(30), <3>1
    <3>4. blocked' \in Seq(Caller)
        BY <3>1, <3>2, <3>3, WithoutElement
    <3> QED
        BY <2>1, <3>4 DEF CancelBlocked, TypeOK
  <2>2. CASE CancelUnknown(m)
      BY <2>2 DEF CancelUnknown, TypeOK
  <2>3. CASE CancelWaiter(m)
    <3>1. blocked' \in Seq(Caller)
        BY <2>3 DEF CancelWaiter, TypeOK
    <3> QED
        BY <1>2, <2>3, <3>1, CancelWaiterType
  <2> QED
      BY <2>1, <2>2, <2>3 DEF HandleCancel, m
<1>5. /\ todo' \in Seq(Caller) /\ (pc' = "handle" <=> todo' # <<>>) /\ pc' = "schedule"
      /\ cursor' \in 0..(NumPartitions + 1)
    BY Cursors DEF HandleCancel, StartSchedule, TypeOK
<1> QED
    BY <1>3, <1>4, <1>5 DEF HandleCancel, TypeOK, envVars

\* Dispatching, or failing oversized items, takes items off the queue.
LEMMA TakeFromQueueType ==
  ASSUME TypeOK, NEW p \in Part, NEW S \in SUBSET Caller, TakeFromQueue(p, S)
  PROVE  /\ part' \in [Part -> PartitionState]
         /\ result' \in [Caller -> SUBSET [item : Caller, kind : ResultKinds]]
         /\ awaiting' \in SUBSET Caller
<1> DEFINE T == Oversized(p, S)
<1>1. part \in [Part -> PartitionState] /\ part[p] \in PartitionState
    BY DEF TypeOK
<1>2. T \in SUBSET Caller
    BY <1>1 DEF Oversized, PartitionState
<1>3. Cardinality(T) \in Nat
    BY <1>2, CallAssumption, FS_Subset, FS_CardinalityType
<1>4. part' = [part EXCEPT ![p] = Taken(part[p], S, T)] /\ Deliver(T, [i \in T |-> "tooLarge"])
    BY DEF TakeFromQueue
<1> HIDE DEF T
<1>5. Taken(part[p], S, T) \in PartitionState
  <2>1. part[p].live - Cardinality(T) \in Int
      BY <1>1, <1>3, Arithmetic DEF PartitionState
  <2> QED
      BY <1>1, <1>2, <2>1 DEF Taken, PartitionState
<1>6. \A i \in T : [j \in T |-> "tooLarge"][i] \in ResultKinds
    BY DEF ResultKinds
<1> QED
    BY <1>1, <1>2, <1>4, <1>5, <1>6, DeliverType

\* dispatchBatch keeps the types when it selects a batch.
LEMMA DispatchBatchType ==
  ASSUME TypeOK, Scheduling, NEW S \in SUBSET part[cursor].pending, DispatchBatch(S)
  PROVE  TypeOK'
<1> DEFINE h == Oldest(S)
           b == [items |-> S, part |-> cursor, cancelled |-> FALSE, deadline |-> BatchDeadline(S)]
<1>1. cursor \in Part /\ S # {} /\ TakeFromQueue(cursor, S)
    BY DEF Scheduling, DispatchBatch
<1>2. S \in SUBSET Caller
    BY <1>1 DEF TypeOK, PartitionState
<1>3. h \in Caller
    BY <1>1, <1>2, OldestIsIn
<1>4. BatchDeadline(S) \in Nat
    BY <1>1, <1>2, BatchDeadlineType
<1>5. b \in BatchState /\ b.part \in Part
  <2>1. cursor \in 0..NumPartitions
      BY SMTT(30), <1>1, SizeAssumption DEF Part
  <2> QED
      BY <1>1, <1>2, <1>4, <2>1 DEF BatchState
<1>6. batch' = [batch EXCEPT ![h] = b] /\ inflight' = inflight \cup {h}
    BY DEF DispatchBatch
<1> HIDE DEF h, b
<1>7. /\ inflight' \in SUBSET Caller /\ batch' \in [Caller -> BatchState]
      /\ \A g \in inflight' : batch'[g].part \in Part
  <2>1. /\ inflight \subseteq Caller /\ batch \in [Caller -> BatchState]
        /\ \A g \in inflight : batch[g].part \in Part
      BY DEF TypeOK
  <2> QED
      BY <1>3, <1>5, <1>6, <2>1
<1>8. /\ part' \in [Part -> PartitionState]
      /\ result' \in [Caller -> SUBSET [item : Caller, kind : ResultKinds]]
      /\ awaiting' \in SUBSET Caller
    BY <1>1, <1>2, TakeFromQueueType
<1>9. activeProvider' \in Int
  <2>1. activeProvider' = activeProvider + 1 /\ activeProvider \in Int
      BY DEF DispatchBatch, TypeOK
  <2> QED
      BY <2>1, Arithmetic
<1> QED
    BY <1>7, <1>8, <1>9 DEF DispatchBatch, TypeOK, loopVars, callVars, envVars

\* dispatchBatch keeps the types when every item it met was too large.
LEMMA FailOversizedType ==
  ASSUME TypeOK, FailOversized
  PROVE  TypeOK'
<1>1. cursor \in Part /\ TakeFromQueue(cursor, {})
    BY DEF Scheduling, FailOversized
<1>2. /\ part' \in [Part -> PartitionState]
      /\ result' \in [Caller -> SUBSET [item : Caller, kind : ResultKinds]]
      /\ awaiting' \in SUBSET Caller
    BY <1>1, TakeFromQueueType
<1> QED
    BY <1>2 DEF FailOversized, TypeOK, loopVars, batchVars, callVars, envVars

\* The end of a partition in schedule, maybeRetire, keeps the types.
LEMMA NextPartitionType ==
  ASSUME TypeOK, NextPartition
  PROVE  TypeOK'
<1>1. cursor \in Part /\ MaybeRetire(cursor, part[cursor], used[cursor])
    BY DEF Scheduling, NextPartition
<1>2. part[cursor] \in PartitionState
    BY <1>1 DEF TypeOK
<1>3. partitions' \in SUBSET Part /\ part' \in [Part -> PartitionState]
    BY <1>1, <1>2, MaybeRetireType
<1>4. cursor' \in 0..(NumPartitions + 1)
    BY <1>1, Cursors DEF NextPartition
<1> QED
    BY <1>3, <1>4 DEF NextPartition, TypeOK, batchVars, callVars, deliveryVars, envVars

\* computeNextTimer, at the end of schedule, keeps the types.
LEMMA EndScheduleType ==
  ASSUME TypeOK, EndSchedule
  PROVE  TypeOK'
<1>1. timer' \in SUBSET Int
    BY NextTimerType DEF EndSchedule
<1>2. pc' \in {"schedule", "settle"} /\ pc # "handle" /\ todo' = todo
    BY DEF EndSchedule, StartSchedule
<1>3. cursor' \in 0..(NumPartitions + 1)
    BY Cursors DEF EndSchedule, StartSchedule, TypeOK
<1> QED
    BY <1>1, <1>2, <1>3
    DEF EndSchedule, TypeOK, queueVars, batchVars, callVars, deliveryVars, envVars

\* The timer event of run keeps the types.
LEMMA TimerFiresType ==
  ASSUME TypeOK, TimerFires
  PROVE  TypeOK'
<1>1. cursor' \in 0..(NumPartitions + 1) /\ timer' \in SUBSET Int
    BY Cursors DEF TimerFires, StartSchedule
<1> QED
    BY <1>1
    DEF TimerFires, StartSchedule, TypeOK, queueVars, batchVars, callVars, deliveryVars, envVars

\* Completions, control requests and engine cancellation keep the state well-typed.
LEMMA HandleCompleteType ==
  ASSUME TypeOK, NEW h \in Caller, HandleComplete(h)
  PROVE  TypeOK'
<1> DEFINE b == batch[h]
<1>1. h \in inflight /\ b \in BatchState /\ b.part \in Part
    BY DEF HandleComplete, TypeOK
<1>2. b.items \in SUBSET Caller
    BY <1>1 DEF BatchState
<1>3. PICK kind \in Responses(h) : Deliver(b.items, kind)
    BY DEF HandleComplete
<1>4. \A i \in b.items : kind[i] \in ResultKinds
    BY ProviderAssumption DEF Responses, ResultKinds
<1>5. /\ result' \in [Caller -> SUBSET [item : Caller, kind : ResultKinds]]
      /\ awaiting' \in SUBSET Caller
    BY <1>2, <1>3, <1>4, DeliverType
<1>6. partitions' \in SUBSET Part /\ part' \in [Part -> PartitionState]
  <2>1. part[b.part] \in PartitionState
      BY <1>1 DEF TypeOK
  <2>2. Cardinality(b.items) \in Nat
      BY <1>2, CallAssumption, FS_Subset, FS_CardinalityType
  <2>3. MaybeRetire(b.part, Served(part[b.part], b.items), used[b.part])
      BY DEF HandleComplete
  <2> HIDE DEF b
  <2>4. Served(part[b.part], b.items) \in PartitionState
    <3>1. part[b.part].live - Cardinality(b.items) \in Int
        BY <2>1, <2>2, Arithmetic DEF PartitionState
    <3> QED
        BY <2>1, <3>1 DEF Served, PartitionState
  <2> QED
      BY <1>1, <2>3, <2>4, MaybeRetireType
<1>7. /\ inflight' \in SUBSET Caller /\ batch' \in [Caller -> BatchState]
      /\ \A g \in inflight' : batch'[g].part \in Part
  <2>1. /\ inflight \subseteq Caller /\ batch \in [Caller -> BatchState]
        /\ \A g \in inflight : batch[g].part \in Part
      BY DEF TypeOK
  <2>2. NoBatch \in BatchState
      BY NoItemType
  <2>3. inflight' = inflight \ {h} /\ batch' = [batch EXCEPT ![h] = NoBatch]
      BY DEF HandleComplete
  <2> QED
      BY <2>1, <2>2, <2>3
<1>8. /\ todo' \in Seq(Caller) /\ blocked' \in Seq(Caller) /\ pc' \in {"handle", "schedule"}
      /\ (pc' = "handle" <=> todo' # <<>>)
  <2>1. blocked \in Seq(Caller)
      BY DEF TypeOK
  <2>2. /\ todo' = blocked /\ blocked' = <<>>
        /\ pc' = IF blocked = <<>> THEN "schedule" ELSE "handle"
      BY DEF HandleComplete, StartSchedule, Retried
  <2> QED
      BY SMTT(30), <2>1, <2>2
<1>9. cursor' \in 0..(NumPartitions + 1) /\ activeProvider' \in Int
  <2>1. activeProvider' = activeProvider - 1 /\ activeProvider \in Int
      BY DEF HandleComplete, Released, TypeOK
  <2>2. cursor' \in 0..(NumPartitions + 1)
      BY Cursors DEF HandleComplete, StartSchedule, TypeOK
  <2> QED
      BY <2>1, <2>2, Arithmetic
<1> QED
    BY <1>5, <1>6, <1>7, <1>8, <1>9 DEF HandleComplete, TypeOK, callVars, envVars

\* A control request that gets an answer stays well-typed.
LEMMA AnsweredType ==
  ASSUME TypeOK, NEW k \in Ctl, NEW r \in {"nil", "timeout", "closed"}
  PROVE  [ctl[k] EXCEPT !.reply = @ \cup {r}] \in CtlState
<1>1. ctl[k] \in CtlState
    BY DEF TypeOK
<1> QED
    BY <1>1 DEF CtlState

\* handleControl keeps the types.
LEMMA HandleControlType ==
  ASSUME TypeOK, NEW k \in Ctl, HandleControl(k)
  PROVE  TypeOK'
<1> DEFINE n == [at |-> "waiting", seq |-> submitSeq, reply |-> ctl[k].reply,
                 expired |-> ctl[k].expired]
<1>1. ctl[k] \in CtlState /\ submitSeq \in Nat
    BY DEF TypeOK
<1>2. n \in CtlState
    BY <1>1 DEF CtlState
<1>3. ctl' = [ctl EXCEPT ![k] = n]
    BY DEF HandleControl
<1> HIDE DEF n
<1>4. ctl' \in [Ctl -> CtlState]
    BY <1>2, <1>3 DEF TypeOK
<1>5. closing' \in BOOLEAN
    BY DEF HandleControl
<1>6. pc' = "force" /\ todo' = todo /\ pc = "select"
    BY DEF HandleControl
<1>7. cursor' \in 0..(NumPartitions + 1) /\ barriers' \in SUBSET Ctl
    BY Cursors DEF HandleControl, TypeOK
<1> QED
    BY <1>4, <1>5, <1>6, <1>7
    DEF HandleControl, TypeOK, queueVars, batchVars, callVars, deliveryVars, envVars

\* tryCompleteBarriers and the stop at the end of a turn keep the types.
LEMMA SettleType ==
  ASSUME TypeOK, Settle
  PROVE  TypeOK'
<1>1. ctl' \in [Ctl -> CtlState]
  <2>1. \A k \in Ctl : ctl[k] \in CtlState
      BY DEF TypeOK
  <2>2. PICK late, ok :
          ctl' = [k \in Ctl |->
            IF k \in late THEN [ctl[k] EXCEPT !.reply = @ \cup {"timeout"}]
            ELSE IF k \in ok THEN [ctl[k] EXCEPT !.reply = @ \cup {"nil"}] ELSE ctl[k]]
      BY DEF Settle
  <2> QED
      BY <2>1, <2>2, AnsweredType
<1>2. barriers' \in SUBSET Ctl
    BY DEF Settle, TypeOK
<1>3. pc' \in {"select", "stopped"} /\ pc = "settle" /\ todo' = todo
    BY DEF Settle
<1> QED
    BY <1>1, <1>2, <1>3
    DEF Settle, TypeOK, queueVars, batchVars, callVars, deliveryVars, envVars

\* handleEngineCancel keeps the types.
LEMMA HandleEngineCancelType ==
  ASSUME TypeOK, HandleEngineCancel
  PROVE  TypeOK'
<1> DEFINE live == UNION {part[p].active : p \in partitions}
<1>1. live \in SUBSET Caller
  <2>1. \A p \in partitions : part[p] \in PartitionState
      BY DEF TypeOK
  <2> QED
      BY <2>1 DEF PartitionState
<1>2. Deliver(live, [i \in live |-> "closed"])
    BY DEF HandleEngineCancel
<1> HIDE DEF live
<1>3. \A i \in live : [j \in live |-> "closed"][i] \in ResultKinds
    BY DEF ResultKinds
<1>4. /\ result' \in [Caller -> SUBSET [item : Caller, kind : ResultKinds]]
      /\ awaiting' \in SUBSET Caller
    BY <1>1, <1>2, <1>3, DeliverType
<1>5. batch' \in [Caller -> BatchState] /\ \A h \in inflight : batch'[h].part \in Part
  <2>1. inflight \subseteq Caller /\ \A h \in inflight : batch[h].part \in Part
      BY DEF TypeOK
  <2>2. batch' = CancelContexts(inflight)
      BY DEF HandleEngineCancel
  <2> QED
      BY <2>1, <2>2, CancelBatchesType
<1>6. ctl' \in [Ctl -> CtlState]
  <2>1. \A k \in Ctl : ctl[k] \in CtlState
      BY DEF TypeOK
  <2>2. ctl' = AnswerControl(barriers, "closed")
      BY DEF HandleEngineCancel
  <2> QED
      BY <2>1, <2>2, AnsweredType DEF AnswerControl
<1>7. /\ pc' \in {"schedule", "stopped"} /\ pc = "select" /\ todo' = todo
      /\ barriers' = {} /\ inflight' = inflight
    BY DEF HandleEngineCancel, StartSchedule
<1>8. cursor' \in 0..(NumPartitions + 1) /\ closing' \in BOOLEAN
  <2>1. cursor' \in {1, cursor} /\ closing' \in BOOLEAN
      BY DEF HandleEngineCancel, StartSchedule, TypeOK
  <2>2. cursor \in 0..(NumPartitions + 1)
      BY DEF TypeOK
  <2> QED
      BY <2>1, <2>2, Cursors
<1> QED
    BY <1>4, <1>5, <1>6, <1>7, <1>8
    DEF HandleEngineCancel, TypeOK, queueVars, callVars, envVars

\* The steps of control requests, calls and the environment keep the state
\* well-typed.
LEMMA ControlStepType ==
  ASSUME TypeOK, NEW k \in Ctl, ControlReturns(k) \/ ControlExpires(k)
  PROVE  TypeOK'
<1>1. ctl[k] \in CtlState
    BY DEF TypeOK
<1>2. /\ [ctl[k] EXCEPT !.at = "returned"] \in CtlState
      /\ [ctl[k] EXCEPT !.expired = TRUE] \in CtlState
    BY <1>1 DEF CtlState
<1>3. \/ ctl' = [ctl EXCEPT ![k] = [ctl[k] EXCEPT !.at = "returned"]]
      \/ ctl' = [ctl EXCEPT ![k] = [ctl[k] EXCEPT !.expired = TRUE]]
    BY DEF ControlReturns, ControlExpires
<1>4. ctl' \in [Ctl -> CtlState]
    BY <1>2, <1>3 DEF TypeOK
<1>5. UNCHANGED <<loopVars, queueVars, batchVars, callVars, deliveryVars, envVars,
                 blocked, closing, barriers, reply>>
    BY DEF ControlReturns, ControlExpires
<1> QED
    BY <1>4, <1>5
    DEF TypeOK, loopVars, queueVars, batchVars, callVars, deliveryVars, envVars

\* Engine cancellation, adaptive settings and the clock keep the types.
LEMMA EnvironmentType ==
  ASSUME TypeOK, EngineCancel \/ ApplyAdaptiveSettings \/ ClearAdaptiveSettings \/ Tick
  PROVE  TypeOK'
<1>1. dyn' \in Settings
      BY ConfiguredType, TunedType
      DEF EngineCancel, ApplyAdaptiveSettings, ClearAdaptiveSettings, Tick, TypeOK
<1>2. engineDone' \in BOOLEAN
    BY DEF EngineCancel, ApplyAdaptiveSettings, ClearAdaptiveSettings, Tick, TypeOK
<1>3. now' \in Nat
  <2>1. (now' = now \/ now' = now + 1) /\ now \in Nat
      BY DEF EngineCancel, ApplyAdaptiveSettings, ClearAdaptiveSettings, Tick, TypeOK, envVars
  <2> QED
      BY <2>1, Arithmetic
<1>4. UNCHANGED <<loopVars, queueVars, batchVars, callVars, deliveryVars, req,
                 blocked, closing, barriers, reply, ctl>>
    BY DEF EngineCancel, ApplyAdaptiveSettings, ClearAdaptiveSettings, Tick
<1> QED
    BY <1>1, <1>2, <1>3, <1>4
    DEF TypeOK, loopVars, queueVars, batchVars, callVars, deliveryVars

\* Each step of Do keeps the types.
LEMMA CallStepType ==
  ASSUME TypeOK, NEW c \in Caller, CallStep(c) \/ ContextEnds(c)
  PROVE  TypeOK'
<1> DEFINE Doing == {"idle", "submitted", "admitted", "returned"}
           Outcome == {"none", "ctx"} \cup Refusals \cup ResultKinds
<1>1. /\ doing \in [Caller -> Doing] /\ outcome \in [Caller -> Outcome]
      /\ reply \in [Caller -> SUBSET (Refusals \cup {"admitted"})]
      /\ result \in [Caller -> SUBSET [item : Caller, kind : ResultKinds]]
      /\ ctxDone \in SUBSET Caller /\ awaiting \in SUBSET Caller
    BY DEF TypeOK
<1>2. /\ doing' \in [Caller -> Doing] /\ outcome' \in [Caller -> Outcome]
  <2>1. ASSUME NEW o \in Outcome, Return(c, o)
        PROVE  doing' \in [Caller -> Doing] /\ outcome' \in [Caller -> Outcome]
      BY <1>1, <2>1 DEF Return
  <2>2. CASE NotSubmitted(c)
      BY <2>1, <2>2 DEF NotSubmitted, ResultKinds
  <2>3. CASE AwaitReply(c)
    <3>1. PICK r \in reply[c] :
            IF r = "admitted" THEN doing' = [doing EXCEPT ![c] = "admitted"] /\ UNCHANGED outcome
            ELSE Return(c, r)
        BY <2>3 DEF AwaitReply
    <3>2. CASE r = "admitted"
        BY <1>1, <3>1, <3>2
    <3>3. CASE r # "admitted"
        BY <1>1, <2>1, <3>1, <3>3
    <3> QED
        BY <3>2, <3>3
  <2>4. CASE AwaitResult(c)
    <3>1. PICK r \in result[c] : Return(c, r.kind)
        BY <2>4 DEF AwaitResult
    <3>2. r.kind \in Outcome
        BY SMTT(30), <1>1
    <3> QED
        BY <2>1, <3>1, <3>2
  <2>5. CASE Abandon(c)
      BY <2>1, <2>5 DEF Abandon
  <2>6. CASE CoordinatorGone(c)
      BY <2>1, <2>6 DEF CoordinatorGone, ResultKinds
  <2>7. CASE ContextEnds(c)
      BY <1>1, <2>7 DEF ContextEnds
  <2> QED
      BY <2>2, <2>3, <2>4, <2>5, <2>6, <2>7 DEF CallStep
<1>3. reply' \in [Caller -> SUBSET (Refusals \cup {"admitted"})]
    BY <1>1 DEF CallStep, NotSubmitted, AwaitReply, AwaitResult, Abandon, CoordinatorGone,
                ContextEnds
<1>4. result' \in [Caller -> SUBSET [item : Caller, kind : ResultKinds]]
    BY <1>1 DEF CallStep, NotSubmitted, AwaitReply, AwaitResult, Abandon, CoordinatorGone,
                ContextEnds, deliveryVars
<1>5. ctxDone' \in SUBSET Caller /\ awaiting' \in SUBSET Caller
    BY <1>1 DEF CallStep, NotSubmitted, AwaitReply, AwaitResult, Abandon, CoordinatorGone,
                ContextEnds, deliveryVars
<1>6. cancelCh' \in Seq([call : Caller, blocked : BOOLEAN])
  <2> DEFINE M == [call : Caller, blocked : BOOLEAN]
             m == [call |-> c, blocked |-> doing[c] = "submitted"]
  <2>1. cancelCh \in Seq(M)
      BY DEF TypeOK
  <2>2. cancelCh' = cancelCh \/ cancelCh' = Append(cancelCh, m)
      BY DEF CallStep, NotSubmitted, AwaitReply, AwaitResult, Abandon, CoordinatorGone,
             ContextEnds
  <2>3. m \in M
      OBVIOUS
  <2> HIDE DEF m, M
  <2>4. cancelCh' \in Seq(M)
      BY <2>1, <2>2, <2>3, AppendType
  <2> QED
      BY <2>4 DEF M
<1>7. UNCHANGED otherThanCalls
    BY DEF CallStep, NotSubmitted, AwaitReply, AwaitResult, Abandon, CoordinatorGone, ContextEnds
<1> QED
    BY <1>2, <1>3, <1>4, <1>5, <1>6, <1>7
    DEF otherThanCalls, TypeOK, loopVars, queueVars, batchVars, envVars

\* Every step of the system keeps the state well-typed.
LEMMA TypeNext == TypeOK /\ [Next]_vars => TypeOK'
<1> SUFFICES ASSUME TypeOK, [Next]_vars PROVE TypeOK'
    OBVIOUS
<1>1. CASE Turn
    BY <1>1, HandleType, DispatchBatchType, FailOversizedType, NextPartitionType,
       EndScheduleType, SettleType DEF Turn
<1>2. CASE Event
    BY <1>2, HandleCancelType, TimerFiresType, HandleEngineCancelType, SubmitType,
       HandleCompleteType, HandleControlType DEF Event
<1>3. CASE \E c \in Caller : CallStep(c) \/ ContextEnds(c)
    BY <1>3, CallStepType
<1>4. CASE \E k \in Ctl : ControlReturns(k) \/ ControlExpires(k)
    BY <1>4, ControlStepType
<1>5. CASE EngineCancel \/ ApplyAdaptiveSettings \/ ClearAdaptiveSettings \/ Tick
    BY <1>5, EnvironmentType
<1>6. CASE UNCHANGED vars
    BY <1>6 DEF TypeOK, vars, loopVars, queueVars, batchVars, callVars, deliveryVars, envVars
<1> QED
    BY <1>1, <1>2, <1>3, <1>4, <1>5, <1>6 DEF Next, Finished

\* The state of the coordinator, its channels and its callers is always
\* well-typed; in particular the effective settings stay within the configured
\* ones and every in-flight batch belongs to a partition.
THEOREM TypeCorrect == Spec => []TypeOK
<1> QED
    BY TypeInit, TypeNext, PTL DEF Spec
================================================================================
