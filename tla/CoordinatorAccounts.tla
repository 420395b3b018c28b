-------------------------- MODULE CoordinatorAccounts --------------------------
(* What the coordinator counts is what is there: the second invariant. *)
EXTENDS CoordinatorServeProofs

USE ZenonT(30)

(* Steps that leave the books alone. *)

\* The step adds, moves and removes no item and no batch.
SameBooks ==
  /\ UNCHANGED <<partitions, used, inflight, activeProvider, submitSeq, req>>
  /\ \A p \in Part :
       /\ part'[p].pending = part[p].pending /\ part'[p].active = part[p].active
       /\ part'[p].live = part[p].live
       /\ part[p].active = {} => part'[p] = part[p]
  /\ \A i \in Caller :
       /\ item'[i].seq = item[i].seq
       /\ batch'[i].items = batch[i].items /\ batch'[i].part = batch[i].part

\* The conjuncts of Accounts about items and batches.
Books == Booked /\ Numbered /\ SlotsCounted /\ QueueCounted

\* Fewer than what is within a limit is within it.
LEMMA NoMore == \A a, b, m \in Nat : a <= b /\ b <= m => a <= m
BY SMTT(30)

\* There is room for one more below a limit.
LEMMA OneMore == \A a, m \in Nat : ~(a >= m) => a + 1 <= m
BY SMTT(30)

\* What does not exceed a limit is within it.
LEMMA NotAbove == \A a \in Int, m \in Nat : ~(a > m) => a <= m
BY SMTT(30)

\* An account stays a number.
LEMMA IntSums == \A a \in Int, b \in Nat : a - b \in Int /\ a + b \in Int
BY SMTT(30)

\* Nothing is within every limit, and giving nothing back changes no account.
LEMMA Zero == (\A a \in Int : a = a - 0) /\ 0 <= 0 /\ \A m \in Nat : 0 <= m
BY SMTT(30)

\* A queue of size b, of an account u that is at least as large, loses items of
\* size a and more: its size d stays within the account.
LEMMA LessOfBoth ==
  ASSUME NEW a \in Nat, NEW b \in Nat, NEW d \in Nat, NEW u \in Int, NEW m \in Nat,
         d <= b - a, b <= u
  PROVE  /\ d <= u - a /\ (m > 0 /\ u <= m => u - a <= m)
         /\ d = b - a /\ b = u => d = u - a
BY SMTT(30)

\* It gains an item of size a.
LEMMA MoreOfBoth ==
  ASSUME NEW a \in Nat, NEW b \in Nat, NEW u \in Int, b <= u
  PROVE  a + b <= u + a /\ (b = u => a + b = u + a)
BY SMTT(30)

\* A partition without work holds no item.
LEMMA NewPartitionIs ==
  NewPartition.pending = {} /\ NewPartition.active = {} /\ NewPartition.live = 0
BY DEF NewPartition

\* Two items never have the same number.
LEMMA NumberIs ==
  ASSUME Numbered, NEW p \in Part, NEW q \in Part, NEW i \in part[p].active, NEW j \in part[q].active
  PROVE  item[i].seq \in 1..submitSeq /\ (item[i].seq = item[j].seq => i = j)
BY SMTT(30) DEF Numbered

\* Items keep their numbers, and no item or batch is new.
LEMMA NumbersKept ==
  ASSUME Numbered, submitSeq' = submitSeq, inflight' \subseteq inflight, inflight \subseteq Caller,
         \A q \in Part : part'[q].active \subseteq part[q].active /\ part[q].active \subseteq Caller,
         \A i \in Caller : item'[i].seq = item[i].seq,
         \A h \in inflight' : batch'[h].items = batch[h].items /\ batch[h].items \subseteq Caller
  PROVE  Numbered'
<1>1. ASSUME NEW p \in Part, NEW q \in Part, NEW i \in part'[p].active, NEW j \in part'[q].active
      PROVE  item'[i].seq \in 1..submitSeq' /\ (item'[i].seq = item'[j].seq => i = j)
  <2>1. i \in part[p].active /\ j \in part[q].active
      OBVIOUS
  <2>2. i \in Caller /\ j \in Caller
      BY <2>1
  <2>3. item[i].seq \in 1..submitSeq /\ (item[i].seq = item[j].seq => i = j)
      BY SMTT(30), <2>1, NumberIs
  <2> QED
      BY <2>2, <2>3
<1>2. ASSUME NEW h \in inflight', NEW i \in batch'[h].items PROVE item'[h].seq <= item'[i].seq
  <2>1. h \in inflight /\ h \in Caller /\ i \in batch[h].items /\ i \in Caller
      OBVIOUS
  <2>2. item[h].seq <= item[i].seq
      BY <2>1 DEF Numbered
  <2> QED
      BY <2>1, <2>2
<1> QED
    BY <1>1, <1>2 DEF Numbered

\* A step that moves no item and no batch keeps what is booked, whatever else it does.
LEMMA SameBooksKeep ==
  ASSUME TypeOK, Books, SameBooks
  PROVE  Books'
<1>1. Booked'
  <2> SUFFICES ASSUME NEW p \in Part
               PROVE  /\ \A i \in part'[p].active \ part'[p].pending : BatchOf(i)' # {}
                      /\ part'[p].live = Cardinality(part'[p].active)
                      /\ p \notin partitions' => part'[p] = NewPartition /\ used'[p] = NothingUsed
      BY DEF Booked
  <2>1. ASSUME NEW i \in part'[p].active \ part'[p].pending PROVE BatchOf(i)' # {}
    <3>1. PICK h \in inflight : i \in batch[h].items
        BY DEF SameBooks, Books, Booked, BatchOf
    <3>2. h \in Caller
        BY QueueTypes
    <3> QED
        BY <3>1, <3>2 DEF SameBooks, BatchOf
  <2>2. p \notin partitions => part[p].active = {}
      BY NewPartitionIs DEF Books, Booked
  <2> QED
      BY <2>1, <2>2 DEF SameBooks, Books, Booked
<1>2. Numbered'
  <2>1. \A p \in Part : part[p].active \subseteq Caller
      BY Typed
  <2>2. inflight \subseteq Caller /\ \A h \in inflight : batch[h].items \subseteq Caller
      BY Typed
  <2> QED
      BY <2>1, <2>2, NumbersKept DEF SameBooks, Books
<1>3. SlotsCounted'
  <2>1. \A h \in inflight, r \in Res : Total(batch[h].items, r)' = Total(batch[h].items, r)
    <3>1. \A h \in inflight : batch'[h].items = batch[h].items
        BY QueueTypes DEF SameBooks
    <3> QED
        BY <3>1, TotalIs, TotalsNext DEF SameBooks
  <2>2. inflight \subseteq Caller
      BY Typed
  <2> QED
      BY <2>1, <2>2 DEF SameBooks, Books, SlotsCounted
<1>4. QueueCounted'
  <2>1. \A p \in Part, r \in Res : Total(part[p].pending, r)' = Total(part[p].pending, r)
      BY TotalIs, TotalsNext DEF SameBooks
  <2> QED
      BY <2>1 DEF SameBooks, Books, QueueCounted
<1> QED
    BY <1>1, <1>2, <1>3, <1>4 DEF Books
--------------------------------------------------------------------------------
(* Steps that change the books. *)

\* Sets of items and of partitions are finite.
LEMMA Finite ==
  /\ \A S \in SUBSET Caller : IsFiniteSet(S) /\ Cardinality(S) \in Nat
  /\ \A S \in SUBSET Part : IsFiniteSet(S) /\ Cardinality(S) \in Nat
<1>1. IsFiniteSet(Caller) /\ IsFiniteSet(Part)
    BY SMTT(30), CallAssumption, SizeAssumption, FS_Interval DEF Part
<1> QED
    BY <1>1, FS_Subset, FS_CardinalityType

\* The sizes of items are natural numbers.
LEMMA SizeType ==
  ASSUME TypeOK, NEW i \in Caller, NEW r \in Res
  PROVE  SizeOf(i, r) = Size[req[i].key][r] /\ SizeOf(i, r) \in Nat
<1>1. req[i] \in Request
    BY QueueTypes
<1>2. req[i].key \in Key
    BY <1>1 DEF Request
<1> QED
    BY <1>2, ResourceAssumption DEF SizeOf

\* handleSubmit queues a new item.
LEMMA EnqueueBooks ==
  ASSUME TypeOK, IInv, Books, Handle, SubmitEnqueue(Head(todo))
  PROVE  Books'
<1>0. PICK c \in Caller, p \in Part : c = Head(todo) /\ p = req[c].part
    BY HandleHead, Typed
<1>1. /\ \A q \in Part : c \notin part[q].active /\ part[q].pending \subseteq part[q].active
      /\ UNCHANGED <<req, inflight, batch, activeProvider>>
  <2>1. \A i \in Caller : c \notin item[i].waiters
      BY <1>0, HandleHead
  <2>2. UNCHANGED <<req, inflight, batch, activeProvider>>
      BY DEF Handle, envVars, batchVars
  <2> QED
      BY <2>1, <2>2, Typed, InvParts DEF WaitersAskedForIt
<1>2. /\ ~NoRoomForPartition(p) /\ ~OverLimits(p, c)
      /\ partitions' = partitions \cup {p} /\ submitSeq' = submitSeq + 1
      /\ part' = [part EXCEPT ![p] = Enqueued(part[p], c)]
      /\ used' = [used EXCEPT ![p] = [r \in Res |-> @[r] + SizeOf(c, r)]]
      /\ item' = [item EXCEPT ![c] = [waiters |-> {c}, activeWaiters |-> 1,
                                     seq |-> submitSeq + 1, enqueue |-> now]]
    BY <1>0 DEF SubmitEnqueue
<1>3. /\ part'[p].pending = part[p].pending \cup {c} /\ part'[p].active = part[p].active \cup {c}
      /\ part'[p].live = part[p].live + 1
      /\ \A q \in Part : q # p => part'[q] = part[q]
    BY <1>1, <1>2, QueueTypes DEF Enqueued
<1>4. Booked'
  <2> SUFFICES ASSUME NEW q \in Part
               PROVE  /\ \A i \in part'[q].active \ part'[q].pending : BatchOf(i)' # {}
                      /\ part'[q].live = Cardinality(part'[q].active)
                      /\ q \notin partitions' => part'[q] = NewPartition /\ used'[q] = NothingUsed
      BY DEF Booked
  <2>1. CASE q = p
    <3>1. Cardinality(part[p].active \cup {c}) = Cardinality(part[p].active) + 1
        BY <1>1, Typed, Finite, FS_AddElement
    <3>2. part'[q].live = Cardinality(part'[q].active)
        BY Zenon, <1>3, <2>1, <3>1 DEF Books, Booked
    <3>3. \A i \in part'[q].active \ part'[q].pending : BatchOf(i)' # {}
      <4>1. ASSUME NEW i PROVE BatchOf(i)' = BatchOf(i)
          BY <1>1 DEF BatchOf
      <4>2. \A i \in part'[q].active \ part'[q].pending : i \in part[p].active \ part[p].pending
          BY <1>3, <2>1
      <4> QED
          BY <4>1, <4>2 DEF Books, Booked
    <3> QED
        BY <1>2, <2>1, <3>2, <3>3
  <2>2. CASE q # p
    <3>1. used'[q] = used[q]
        BY <1>2, <2>2 DEF Books, QueueCounted
    <3> QED
      <4>1. ASSUME NEW i PROVE BatchOf(i)' = BatchOf(i)
          BY <1>1 DEF BatchOf
      <4> QED
          BY <1>2, <1>3, <2>2, <3>1, <4>1 DEF Books, Booked
  <2> QED
      BY <2>1, <2>2
<1>5. Numbered'
  <2>1. item'[c].seq = submitSeq + 1 /\ \A i \in Caller : i # c => item'[i] = item[i]
      BY <1>1, <1>2, QueueTypes
  <2>2. submitSeq \in Nat /\ \A i \in Caller : item[i].seq \in Nat
      BY QueueTypes DEF ItemState
  <2>3. \A q \in Part : part'[q].active \subseteq part[q].active \cup {c} /\ part[q].active \subseteq Caller
      BY <1>3, Typed
  <2>4. \A h \in inflight : /\ h \in Caller /\ h # c
                             /\ batch[h].items \subseteq Caller /\ c \notin batch[h].items
      BY <1>1, Typed, InvParts DEF BatchesDisjoint
  <2>5. ASSUME NEW q \in Part, NEW o \in Part, NEW i \in part'[q].active, NEW j \in part'[o].active
        PROVE  item'[i].seq \in 1..submitSeq' /\ (item'[i].seq = item'[j].seq => i = j)
    <3>1. i \in Caller /\ j \in Caller
        BY <1>1, <2>3
    <3>2. /\ i # c => item[i].seq \in 1..submitSeq
          /\ j # c => item[j].seq \in 1..submitSeq
          /\ i # c /\ j # c /\ item[i].seq = item[j].seq => i = j
      <4>1. (i # c => i \in part[q].active) /\ (j # c => j \in part[o].active)
          BY <2>3
      <4>2. Numbered
          BY DEF Books
      <4> QED
          BY SMTT(30), <4>1, <4>2, NumberIs
    <3> QED
        BY SMTT(30), <1>2, <2>1, <2>2, <3>1, <3>2
  <2>6. \A h \in inflight : \A i \in batch[h].items : item'[h].seq <= item'[i].seq
    <3>1. ASSUME NEW h \in inflight, NEW i \in batch[h].items PROVE item'[h].seq <= item'[i].seq
      <4>1. item[h].seq <= item[i].seq
          BY DEF Books, Numbered
      <4>2. item'[h] = item[h] /\ item'[i] = item[i]
          BY <2>1, <2>4
      <4> QED
          BY <4>1, <4>2
    <3> QED
        BY <3>1
  <2> QED
      BY <1>1, <2>5, <2>6 DEF Numbered
<1>6. SlotsCounted'
  <2>1. \A h \in inflight, r \in Res : Total(batch[h].items, r)' = Total(batch[h].items, r)
      BY <1>1, TotalIs, TotalsNext
  <2> QED
      BY <1>1, <2>1 DEF Books, SlotsCounted
<1>7. QueueCounted'
  <2>1. used' \in [Part -> [Res -> Int]] /\ \A q \in Part : q # p => used'[q] = used[q]
    <3>1. used \in [Part -> [Res -> Int]]
        BY DEF Books, QueueCounted
    <3>2. ASSUME NEW r \in Res PROVE used[p][r] + SizeOf(c, r) \in Int
      <4>1. used[p][r] \in Int /\ SizeOf(c, r) \in Nat
          BY <3>1, SizeType
      <4> QED
          BY <4>1, IntSums
    <3>3. [r \in Res |-> used[p][r] + SizeOf(c, r)] \in [Res -> Int]
        BY <3>2
    <3>4. used' = [used EXCEPT ![p] = [r \in Res |-> used[p][r] + SizeOf(c, r)]]
        BY <1>2
    <3> QED
        BY <3>1, <3>3, <3>4
  <2>2. ASSUME NEW r \in Res
        PROVE  /\ used[p][r] \in Int /\ used'[p][r] = used[p][r] + SizeOf(c, r)
               /\ Total(part[p].pending, r)' = SizeOf(c, r) + Total(part[p].pending, r)
               /\ SizeOf(c, r) \in Nat /\ Total(part[p].pending, r) \in Nat
               /\ QueueMax[r] \in Nat /\ (QueueMax[r] > 0 => used[p][r] + SizeOf(c, r) <= QueueMax[r])
    <3> DEFINE S == part[p].pending \cup {c}
    <3>1. /\ S \in SUBSET Caller /\ c \in S /\ S \ {c} = part[p].pending
          /\ req \in [Caller -> Request] /\ part[p].pending \in SUBSET Caller
      <4>1. part[p].pending \in SUBSET Caller /\ c \notin part[p].pending
          BY <1>1, Typed
      <4> QED
          BY <4>1, QueueTypes
    <3>2. Total(part[p].pending, r)' = Sum(req, S, r)
        BY <1>1, <1>3, TotalsNext
    <3> HIDE DEF S
    <3>3. Sum(req, S, r) = Size[req[c].key][r] + Sum(req, S \ {c}, r)
        BY <3>1, SumSplit
    <3>4. Sum(req, part[p].pending, r) \in Nat /\ Total(part[p].pending, r) = Sum(req, part[p].pending, r)
        BY <3>1, SumType, TotalIs
    <3>5. SizeOf(c, r) = Size[req[c].key][r] /\ SizeOf(c, r) \in Nat
        BY <1>1, SizeType
    <3>6. used[p][r] \in Int /\ used'[p][r] = used[p][r] + SizeOf(c, r)
        BY <1>1, <1>2 DEF Books, QueueCounted
    <3>7. QueueMax[r] \in Nat /\ (QueueMax[r] > 0 => used[p][r] + SizeOf(c, r) <= QueueMax[r])
      <4>1. QueueMax[r] > 0 => ~(used[p][r] + SizeOf(c, r) > QueueMax[r])
          BY <1>2 DEF OverLimits
      <4>2. QueueMax[r] \in Nat /\ used[p][r] + SizeOf(c, r) \in Int
          BY <3>5, <3>6, IntSums, ResourceAssumption
      <4> QED
          BY <4>1, <4>2, NotAbove
    <3> QED
        BY <3>1, <3>2, <3>3, <3>4, <3>5, <3>6, <3>7
  <2>3. ASSUME NEW q \in Part, NEW r \in Res
        PROVE  /\ Total(part[q].pending, r)' <= used'[q][r]
               /\ NothingOversized => Total(part[q].pending, r)' = used'[q][r]
               /\ QueueMax[r] > 0 => used'[q][r] <= QueueMax[r]
    <3>1. CASE q = p
      <4>1. /\ Total(part[p].pending, r) <= used[p][r]
            /\ NothingOversized => Total(part[p].pending, r) = used[p][r]
          BY DEF Books, QueueCounted
      <4> DEFINE a == SizeOf(c, r)
                 b == Total(part[p].pending, r)
                 v == used[p][r]
      <4>2. /\ a \in Nat /\ b \in Nat /\ v \in Int /\ b <= v /\ (NothingOversized => b = v)
            /\ Total(part[q].pending, r)' = a + b /\ used'[q][r] = v + a
            /\ QueueMax[r] > 0 => v + a <= QueueMax[r]
          BY <2>2, <3>1, <4>1
      <4> HIDE DEF a, b, v
      <4>3. a + b <= v + a /\ (b = v => a + b = v + a)
          BY <4>2, MoreOfBoth
      <4> QED
          BY <4>2, <4>3
    <3>2. CASE q # p
      <4>1. Total(part[q].pending, r)' = Total(part[q].pending, r)
          BY <1>1, <1>3, <3>2, TotalIs, TotalsNext
      <4> QED
          BY <2>1, <3>2, <4>1 DEF Books, QueueCounted
    <3> QED
        BY <3>1, <3>2
  <2>4. ASSUME NEW q \in Part, MaxItems > 0 PROVE Cardinality(part'[q].pending) <= MaxItems
    <3>1. CASE q = p
      <4>1. Cardinality(part[p].pending \cup {c}) <= Cardinality(part[p].pending) + 1
        <5>1. part[p].pending \in SUBSET Caller /\ c \notin part[p].pending
            BY <1>1, Typed
        <5>2. Cardinality(part[p].pending \cup {c}) = Cardinality(part[p].pending) + 1
            BY <5>1, Finite, FS_AddElement
        <5>3. Cardinality(part[p].pending \cup {c}) \in Nat
            BY <5>1, Finite
        <5> QED
            BY SMTT(30), <5>2, <5>3
      <4>2. Cardinality(part[p].pending) \in Nat /\ Cardinality(part[p].pending \cup {c}) \in Nat
          BY <1>1, Typed, Finite
      <4>3. ~(Cardinality(part[p].pending) + 1 > MaxItems)
          BY <1>2, <2>4 DEF OverLimits
      <4>4. part'[q].pending = part[p].pending \cup {c}
          BY <1>3, <3>1
      <4> QED
          BY SMTT(30), <4>1, <4>2, <4>3, <4>4, SizeAssumption
    <3>2. CASE q # p
        BY <1>3, <2>4, <3>2 DEF Books, QueueCounted
    <3> QED
        BY <3>1, <3>2
  <2>5. MaxPartitions > 0 => Cardinality(partitions') <= MaxPartitions
    <3>1. partitions \in SUBSET Part /\ partitions \cup {p} \in SUBSET Part
        BY <1>1, QueueTypes
    <3>2. Cardinality(partitions) \in Nat /\ Cardinality(partitions \cup {p}) \in Nat
          /\ (p \notin partitions => Cardinality(partitions \cup {p}) = Cardinality(partitions) + 1)
        BY <3>1, Finite, FS_AddElement
    <3>3. p \in partitions => partitions \cup {p} = partitions
        OBVIOUS
    <3>4. p \notin partitions /\ MaxPartitions > 0 => ~(Cardinality(partitions) >= MaxPartitions)
        BY <1>2 DEF NoRoomForPartition
    <3>5. MaxPartitions > 0 => Cardinality(partitions) <= MaxPartitions
        BY DEF Books, QueueCounted
    <3>6. CASE p \in partitions
        BY Zenon, <1>2, <3>3, <3>5, <3>6
    <3>7. CASE p \notin partitions
      <4>1. MaxPartitions > 0 => Cardinality(partitions) + 1 <= MaxPartitions
          BY <3>2, <3>4, <3>7, OneMore, SizeAssumption
      <4> QED
          BY Zenon, <1>2, <3>2, <3>7, <4>1
    <3> QED
        BY <3>6, <3>7
  <2> QED
      BY <2>1, <2>3, <2>4, <2>5 DEF QueueCounted
<1> QED
    BY <1>4, <1>5, <1>6, <1>7 DEF Books

\* A sum over fewer items is not larger.
LEMMA SumMonotonic ==
  ASSUME NEW q \in [Caller -> Request], NEW r \in Res, NEW S \in SUBSET Caller, NEW T \in SUBSET S
  PROVE  Sum(q, T, r) \in Nat /\ Sum(q, S, r) \in Nat /\ Sum(q, T, r) <= Sum(q, S, r)
<1>1. Sum(q, S \ T, r) = Sum(q, S, r) - Sum(q, T, r)
    BY SumMinus
<1>2. Sum(q, S \ T, r) \in Nat /\ Sum(q, S, r) \in Nat /\ Sum(q, T, r) \in Nat
  <2>1. S \ T \in SUBSET Caller /\ T \in SUBSET Caller
      OBVIOUS
  <2> QED
      BY <2>1, SumType
<1> QED
    BY SMTT(30), <1>1, <1>2

\* Items D leave partition p, and the size of the items G is given back: what
\* removePendingItem, dispatchBatch, the completion of a batch and maybeRetire
\* have in common.
LEMMA ItemsLeave ==
  ASSUME TypeOK, IInv, Books, NEW p \in Part, NEW D \in SUBSET part[p].active,
         NEW G \in SUBSET part[p].pending, NEW np, NEW u \in [Res -> Int],
         np.pending \subseteq part[p].pending \ G, np.pending \subseteq np.active,
         np.active = part[p].active \ D, np.live = part[p].live - Cardinality(D),
         NothingOversized => np.pending = part[p].pending \ G,
         \A r \in Res : u[r] = used[p][r] - Sum(req, G, r), req' = req,
         \/ MaybeRetire(p, np, u)
         \/ /\ part[p].active # {} /\ partitions' = partitions
            /\ part' = [part EXCEPT ![p] = np] /\ used' = [used EXCEPT ![p] = u]
  PROVE  /\ part'[p].pending = np.pending /\ part'[p].active = np.active
         /\ \A q \in Part : q # p => part'[q] = part[q]
         /\ \A q \in Part : /\ part'[q].pending \subseteq part[q].pending
                            /\ part'[q].active \subseteq part[q].active
                            /\ part'[q].live = Cardinality(part'[q].active)
                            /\ q \notin partitions' => part'[q] = NewPartition /\ used'[q] = NothingUsed
         /\ QueueCounted'
<1> DEFINE idle == np.live = 0 /\ np.active = {}
<1>1. /\ part \in [Part -> PartitionState] /\ part[p].active \in SUBSET Caller
      /\ part[p].pending \in SUBSET Caller /\ req \in [Caller -> Request]
      /\ used \in [Part -> [Res -> Int]] /\ partitions \in SUBSET Part
    BY Typed, QueueTypes DEF Books, QueueCounted
<1>2. part[p].live = Cardinality(part[p].active)
    BY DEF Books, Booked
<1>3. np.live = Cardinality(np.active)
  <2>1. Cardinality(part[p].active \ D) = Cardinality(part[p].active) - Cardinality(D)
    <3>1. part[p].active \cap D = D
        OBVIOUS
    <3>2. IsFiniteSet(part[p].active)
        BY <1>1, Finite
    <3>3. Cardinality(part[p].active \ D)
            = Cardinality(part[p].active) - Cardinality(part[p].active \cap D)
        BY <3>2, FS_Difference
    <3> QED
        BY Zenon, <3>1, <3>3
  <2> QED
      BY Zenon, <1>2, <2>1
<1>4. \/ /\ idle /\ partitions' = partitions \ {p}
         /\ part' = [part EXCEPT ![p] = NewPartition] /\ used' = [used EXCEPT ![p] = NothingUsed]
      \/ /\ partitions' = partitions /\ part' = [part EXCEPT ![p] = np]
         /\ used' = [used EXCEPT ![p] = u] /\ part[p].active # {}
  <2>1. CASE MaybeRetire(p, np, u)
    <3>1. CASE idle
        BY <2>1, <3>1 DEF MaybeRetire
    <3>2. CASE ~idle
      <4>1. np.active # {}
          BY <1>3, <3>2, FS_EmptySet
      <4> QED
          BY <2>1, <3>2, <4>1 DEF MaybeRetire
    <3> QED
        BY <3>1, <3>2
  <2> QED
      BY <2>1
<1>5. /\ part'[p].pending = np.pending /\ part'[p].active = np.active
      /\ part'[p].live = np.live
      /\ \A q \in Part : q # p => part'[q] = part[q] /\ used'[q] = used[q]
  <2>1. idle => np.pending = {} /\ np.active = {} /\ np.live = 0
      OBVIOUS
  <2>2. \/ part'[p] = np
        \/ idle /\ part'[p] = NewPartition
      BY <1>1, <1>4
  <2>3. \A q \in Part : q # p => part'[q] = part[q] /\ used'[q] = used[q]
      BY <1>1, <1>4
  <2>4. part'[p].pending = np.pending /\ part'[p].active = np.active /\ part'[p].live = np.live
    <3>1. CASE part'[p] = np
        BY <3>1
    <3>2. CASE idle /\ part'[p] = NewPartition
        BY <2>1, <3>2, NewPartitionIs
    <3> QED
        BY <2>2, <3>1, <3>2
  <2> QED
      BY <2>3, <2>4
<1>6. \A q \in Part : q \notin partitions' => part'[q] = NewPartition /\ used'[q] = NothingUsed
  <2>1. part[p].active # {} => p \in partitions
      BY NewPartitionIs DEF Books, Booked
  <2> QED
      BY <1>1, <1>4, <1>5, <2>1 DEF Books, Booked
<1>7. \A q \in Part : /\ part'[q].pending \subseteq part[q].pending
                     /\ part'[q].active \subseteq part[q].active
                     /\ part'[q].live = Cardinality(part'[q].active)
  <2>1. /\ part'[p].pending \subseteq part[p].pending /\ part'[p].active \subseteq part[p].active
        /\ part'[p].live = Cardinality(part'[p].active)
      BY <1>3, <1>5
  <2> QED
      BY <1>5, <2>1 DEF Books, Booked
<1>8. QueueCounted'
  <2>1. used' \in [Part -> [Res -> Int]]
    <3>1. NothingUsed \in [Res -> Int]
        BY Arithmetic DEF NothingUsed
    <3> QED
        BY <1>1, <1>4, <3>1
  <2>2. ASSUME NEW q \in Part, NEW r \in Res
        PROVE  /\ Total(part[q].pending, r)' <= used'[q][r]
               /\ NothingOversized => Total(part[q].pending, r)' = used'[q][r]
               /\ QueueMax[r] > 0 => used'[q][r] <= QueueMax[r]
    <3>0. Total(part[q].pending, r)' = Sum(req, part'[q].pending, r)
        BY TotalsNext
    <3>1. /\ Sum(req, part[q].pending, r) <= used[q][r] /\ QueueMax[r] \in Nat
          /\ NothingOversized => Sum(req, part[q].pending, r) = used[q][r]
          /\ QueueMax[r] > 0 => used[q][r] <= QueueMax[r]
        BY TotalIs, ResourceAssumption DEF Books, QueueCounted
    <3>2. CASE q # p
        BY <1>5, <3>0, <3>1, <3>2
    <3>3. CASE q = p /\ used' = [used EXCEPT ![p] = u]
      <4>1. /\ Sum(req, G, r) \in Nat /\ Sum(req, part[p].pending, r) \in Nat
            /\ Sum(req, part[p].pending \ G, r) = Sum(req, part[p].pending, r) - Sum(req, G, r)
        <5>1. PICK P \in SUBSET Caller : P = part[p].pending
            BY <1>1
        <5>2. G \in SUBSET P
            BY <5>1
        <5>3. Sum(req, G, r) \in Nat /\ Sum(req, P, r) \in Nat
            BY <1>1, <5>1, <5>2, SumMonotonic
        <5>4. \A S \in SUBSET Caller : \A T \in SUBSET S :
                Sum(req, S \ T, r) = Sum(req, S, r) - Sum(req, T, r)
            BY <1>1, SumMinus
        <5>5. Sum(req, P \ G, r) = Sum(req, P, r) - Sum(req, G, r)
            BY Zenon, <5>1, <5>2, <5>4
        <5> QED
            BY Zenon, <5>1, <5>3, <5>5
      <4>2. /\ Sum(req, np.pending, r) \in Nat
            /\ Sum(req, np.pending, r) <= Sum(req, part[p].pending \ G, r)
        <5>1. part[p].pending \ G \in SUBSET Caller /\ np.pending \in SUBSET (part[p].pending \ G)
            BY <1>1
        <5> QED
            BY <1>1, <5>1, SumMonotonic
      <4>3. used'[q][r] = used[p][r] - Sum(req, G, r) /\ used[p][r] \in Int
        <5>1. used'[q] = u /\ used[p] \in [Res -> Int]
            BY <1>1, <3>3
        <5> QED
            BY <3>3, <5>1
      <4>4. Total(part[q].pending, r)' = Sum(req, np.pending, r)
          BY <1>5, <3>0, <3>3
      <4> HIDE DEF idle
      <4> DEFINE a == Sum(req, G, r)
                 b == Sum(req, part[p].pending, r)
                 d == Sum(req, np.pending, r)
      <4>5. /\ a \in Nat /\ b \in Nat /\ d \in Nat /\ d <= b - a /\ b <= used[p][r]
            /\ NothingOversized => d = b - a /\ b = used[p][r]
          BY <3>1, <3>3, <4>1, <4>2
      <4>6. used'[q][r] = used[p][r] - a /\ Total(part[q].pending, r)' = d
          BY <4>3, <4>4
      <4> HIDE DEF a, b, d
      <4> QED
        <5>1. /\ d <= used[p][r] - a /\ (d = b - a /\ b = used[p][r] => d = used[p][r] - a)
              /\ QueueMax[r] > 0 /\ used[p][r] <= QueueMax[r] => used[p][r] - a <= QueueMax[r]
            BY <3>1, <4>3, <4>5, LessOfBoth
        <5> QED
            BY <3>1, <3>3, <4>5, <4>6, <5>1
    <3>4. CASE q = p /\ idle /\ used' = [used EXCEPT ![p] = NothingUsed]
      <4>1. used'[q][r] = 0 /\ part'[q].pending = {}
          BY <1>1, <1>5, <3>4 DEF NothingUsed
      <4>2. Sum(req, {}, r) = 0
          BY <1>1, SumType
      <4> QED
          BY <3>0, <3>1, <4>1, <4>2, Zero
    <3> QED
        BY <1>4, <3>2, <3>3, <3>4
  <2>3. ASSUME NEW q \in Part, MaxItems > 0 PROVE Cardinality(part'[q].pending) <= MaxItems
    <3>1. part[q].pending \in SUBSET Caller /\ part'[q].pending \subseteq part[q].pending
        BY <1>7, Typed
    <3>2. Cardinality(part'[q].pending) <= Cardinality(part[q].pending)
        BY <3>1, Finite, FS_Subset
    <3>3. Cardinality(part'[q].pending) \in Nat /\ Cardinality(part[q].pending) \in Nat
        BY <3>1, Finite
    <3>4. Cardinality(part[q].pending) <= MaxItems
        BY <2>3 DEF Books, QueueCounted
    <3> QED
        BY <3>2, <3>3, <3>4, NoMore, SizeAssumption
  <2>4. MaxPartitions > 0 => Cardinality(partitions') <= MaxPartitions
    <3>1. partitions' \subseteq partitions
        BY <1>4
    <3>2. Cardinality(partitions') <= Cardinality(partitions)
        BY <1>1, <3>1, Finite, FS_Subset
    <3>3. Cardinality(partitions') \in Nat /\ Cardinality(partitions) \in Nat
        BY <1>1, <3>1, Finite
    <3>4. MaxPartitions > 0 => Cardinality(partitions) <= MaxPartitions
        BY DEF Books, QueueCounted
    <3> QED
        BY <3>2, <3>3, <3>4, NoMore, SizeAssumption
  <2> QED
      BY <2>1, <2>2, <2>3, <2>4 DEF QueueCounted
<1> QED
    BY <1>5, <1>6, <1>7, <1>8

\* Items and batches only go away, so their numbers stay distinct and the
\* batches that remain stay within their limits.
LEMMA FewerBatches ==
  ASSUME TypeOK, Books, UNCHANGED <<req, submitSeq>>, inflight' \subseteq inflight,
         \A q \in Part : part'[q].active \subseteq part[q].active,
         \A i \in Caller : item'[i].seq = item[i].seq,
         \A h \in inflight' : batch'[h].items = batch[h].items
  PROVE  /\ Numbered'
         /\ \A h \in inflight' :
              /\ Cardinality(batch'[h].items) \in 1..MaxBatchSize
              /\ \A r \in Res : MaxBatch[r] > 0 => Total(batch[h].items, r)' <= MaxBatch[r]
<1>1. /\ \A p \in Part : part[p].active \subseteq Caller
      /\ inflight \subseteq Caller /\ \A h \in inflight : batch[h].items \subseteq Caller
    BY Typed
<1>2. Numbered'
    BY <1>1, NumbersKept DEF Books
<1>3. \A h \in inflight', r \in Res : Total(batch[h].items, r)' = Total(batch[h].items, r)
    BY TotalIs, TotalsNext
<1> QED
    BY <1>2, <1>3 DEF Books, SlotsCounted

\* handleCancel removes the last waiter of a queued item, and the item with it;
\* otherwise it only counts.
LEMMA CancelBooks ==
  ASSUME TypeOK, IInv, Books, HandleCancel, CancelWaiter(Head(cancelCh))
  PROVE  Books'
<1>1. /\ UNCHANGED <<req, inflight, activeProvider, submitSeq>>
      /\ Head(cancelCh) \in [call : Caller, blocked : BOOLEAN]
    BY HeadAndTail, CallTypes DEF HandleCancel, envVars
<1>2. PICK c \in Caller, p \in Part : c = Head(cancelCh).call /\ p = req[c].part
    BY <1>1, Typed
<1> DEFINE np == [part[p] EXCEPT !.waiters = @ - 1]
<1>3. PICK i \in FoundOn(c) :
        /\ item' = [item EXCEPT ![i].activeWaiters = @ - 1]
        /\ IF LastWaiter(i) /\ BatchOf(i) = {}
           THEN MaybeRetire(p, RemovePending(np, i), LessUsed(p, {i}))
           ELSE part' = [part EXCEPT ![p] = np] /\ UNCHANGED <<partitions, used>>
        /\ IF LastWaiter(i) THEN BatchLosesWaiter(i) ELSE UNCHANGED <<batch, counted>>
    BY <1>2 DEF CancelWaiter
<1>4. i \in part[p].active /\ i \in Caller
    BY <1>2, <1>3, Typed DEF FoundOn
<1>5. /\ np.pending = part[p].pending /\ np.active = part[p].active /\ np.live = part[p].live
      /\ part[p].pending \subseteq part[p].active
  <2>1. part[p] \in PartitionState
      BY QueueTypes
  <2>2. part[p].pending \subseteq part[p].active
      BY InvParts DEF WaitersAskedForIt
  <2> QED
      BY <2>1, <2>2 DEF PartitionState
<1>6. \A j \in Caller : item'[j].seq = item[j].seq
  <2>1. item \in [Caller -> ItemState] /\ item[i] \in ItemState
      BY <1>4, QueueTypes
  <2>2. /\ item'[i] = [item[i] EXCEPT !.activeWaiters = item[i].activeWaiters - 1]
        /\ \A j \in Caller : j # i => item'[j] = item[j]
      BY <1>3, <1>4, <2>1
  <2>3. item'[i].seq = item[i].seq
      BY <2>1, <2>2 DEF ItemState
  <2> QED
      BY <2>2, <2>3
<1>7. \A h \in Caller : batch'[h].items = batch[h].items /\ batch'[h].part = batch[h].part
  <2>1. (\E H : batch' = CancelContexts(H)) \/ batch' = batch
      BY <1>3 DEF BatchLosesWaiter
  <2> QED
      BY <2>1, CancelBatchesType
<1>8. CASE LastWaiter(i) /\ BatchOf(i) = {}
  <2> DEFINE rp == RemovePending(np, i)
             u == LessUsed(p, {i})
  <2>1. i \in part[p].pending
      BY <1>4, <1>8 DEF Books, Booked
  <2>2. MaybeRetire(p, rp, u)
      BY <1>3, <1>8
  <2>3. /\ rp.pending = part[p].pending \ {i} /\ rp.active = part[p].active \ {i}
        /\ rp.live = part[p].live - Cardinality({i})
      BY <1>5, FS_Singleton DEF RemovePending
  <2>4. u \in [Res -> Int] /\ \A r \in Res : u[r] = used[p][r] - Sum(req, {i}, r)
    <3>1. \A r \in Res : Total({i}, r) = Sum(req, {i}, r) /\ Sum(req, {i}, r) \in Nat
        BY <1>4, TotalIs, SumType, QueueTypes
    <3>2. \A r \in Res : used[p][r] \in Int
        BY DEF Books, QueueCounted
    <3> QED
        BY <3>1, <3>2, IntSums DEF LessUsed
  <2> HIDE DEF rp, u, np
  <2>5. {i} \in SUBSET part[p].active /\ {i} \in SUBSET part[p].pending
      BY <1>4, <2>1
  <2>6. /\ rp.pending \subseteq part[p].pending \ {i} /\ rp.pending \subseteq rp.active
        /\ NothingOversized => rp.pending = part[p].pending \ {i}
      BY <1>5, <2>3
  <2>7. /\ part'[p].pending = rp.pending /\ part'[p].active = rp.active
        /\ \A q \in Part : q # p => part'[q] = part[q]
        /\ \A q \in Part : /\ part'[q].pending \subseteq part[q].pending
                           /\ part'[q].active \subseteq part[q].active
                           /\ part'[q].live = Cardinality(part'[q].active)
                           /\ q \notin partitions' => part'[q] = NewPartition /\ used'[q] = NothingUsed
        /\ QueueCounted'
      BY ZenonT(60), <1>1, <2>2, <2>3, <2>4, <2>5, <2>6, ItemsLeave
  <2>8. \A q \in Part : \A j \in part'[q].active \ part'[q].pending : BatchOf(j)' # {}
    <3>1. ASSUME NEW q \in Part, NEW j \in part'[q].active \ part'[q].pending
          PROVE  j \in part[q].active \ part[q].pending
        BY <2>3, <2>7
    <3>2. \A h \in inflight : batch'[h].items = batch[h].items
        BY <1>7, Typed
    <3> QED
        BY <1>1, <3>1, <3>2 DEF Books, Booked, BatchOf
  <2>9. \A h \in inflight' : batch'[h].items = batch[h].items
      BY <1>1, <1>7, Typed
  <2>10. Numbered' /\ SlotsCounted'
      BY <1>1, <1>6, <2>7, <2>9, FewerBatches DEF Books, SlotsCounted
  <2> QED
      BY <2>7, <2>8, <2>10 DEF Books, Booked
<1>9. CASE ~(LastWaiter(i) /\ BatchOf(i) = {})
  <2>1. part' = [part EXCEPT ![p] = np] /\ UNCHANGED <<partitions, used>>
      BY <1>3, <1>9
  <2>2. part'[p] = np /\ \A q \in Part : q # p => part'[q] = part[q]
      BY <2>1, QueueTypes
  <2> HIDE DEF np
  <2>3. SameBooks
      BY <1>1, <1>4, <1>5, <1>6, <1>7, <2>1, <2>2 DEF SameBooks
  <2> QED
      BY <2>3, SameBooksKeep
<1> QED
    BY <1>8, <1>9

\* dispatchBatch takes S and fails the oversized items it met: what this does to
\* the partition and its accounts.
LEMMA TakeBooks ==
  ASSUME TypeOK, IInv, Books, NEW p \in Part, NEW S \in SUBSET part[p].pending,
         TakeFromQueue(p, S), part[p].pending # {}, Selects(p, S), UNCHANGED <<req, partitions>>
  PROVE  LET T == Oversized(p, S) IN
         /\ T \subseteq part[p].pending /\ S \cap T = {}
         /\ part'[p].pending = part[p].pending \ (S \cup T) /\ part'[p].active = part[p].active \ T
         /\ \A q \in Part : q # p => part'[q] = part[q]
         /\ \A q \in Part : /\ part'[q].pending \subseteq part[q].pending
                            /\ part'[q].active \subseteq part[q].active
                            /\ part'[q].live = Cardinality(part'[q].active)
                            /\ q \notin partitions' => part'[q] = NewPartition /\ used'[q] = NothingUsed
         /\ QueueCounted'
<1> DEFINE T == Oversized(p, S)
           np == Taken(part[p], S, T)
           u == LessUsed(p, S)
<1>1. part[p].pending \subseteq part[p].active /\ T \subseteq part[p].pending /\ S \cap T = {}
  <2>1. part[p].pending \subseteq part[p].active
      BY InvParts DEF WaitersAskedForIt
  <2>2. T \subseteq part[p].pending
      BY DEF Oversized
  <2>3. S \cap T = {}
      BY SelectedIsNotOversized
  <2> QED
      BY <2>1, <2>2, <2>3
<1>2. /\ np.pending = part[p].pending \ (S \cup T) /\ np.active = part[p].active \ T
      /\ np.live = part[p].live - Cardinality(T)
    BY DEF Taken
<1>3. part' = [part EXCEPT ![p] = np] /\ used' = [used EXCEPT ![p] = u]
    BY DEF TakeFromQueue
<1>4. u \in [Res -> Int] /\ \A r \in Res : u[r] = used[p][r] - Sum(req, S, r)
  <2>1. S \in SUBSET Caller
      BY Typed
  <2>2. \A r \in Res : Total(S, r) = Sum(req, S, r) /\ Sum(req, S, r) \in Nat
      BY <2>1, TotalIs, SumType, QueueTypes
  <2>3. \A r \in Res : used[p][r] \in Int
      BY DEF Books, QueueCounted
  <2> QED
      BY <2>2, <2>3, IntSums DEF LessUsed
<1>5. NothingOversized => T = {}
  <2>1. ASSUME NothingOversized, NEW i \in T PROVE FALSE
    <3>1. i \in Caller /\ TooLarge(i)
        BY <2>1, Typed DEF Oversized
    <3>2. PICK r \in Res : MaxBatch[r] > 0 /\ SizeOf(i, r) > MaxBatch[r]
        BY <3>1 DEF TooLarge
    <3>3. req[i].key \in Key /\ SizeOf(i, r) = Size[req[i].key][r] /\ SizeOf(i, r) \in Nat
        BY <3>1, SizeType, QueueTypes DEF Request
    <3> QED
      <4>1. Size[req[i].key][r] <= MaxBatch[r] /\ MaxBatch[r] \in Nat
          BY <2>1, <3>2, <3>3, ResourceAssumption DEF NothingOversized
      <4> QED
          BY SMTT(30), <3>2, <3>3, <4>1
  <2> QED
      BY <2>1
<1> HIDE DEF T, np, u
<1>6. /\ np.pending \subseteq part[p].pending \ S /\ np.pending \subseteq np.active
      /\ T \in SUBSET part[p].active /\ part[p].active # {}
      /\ NothingOversized => np.pending = part[p].pending \ S
    BY <1>1, <1>2, <1>5
<1>7. /\ part'[p].pending = np.pending /\ part'[p].active = np.active
      /\ \A q \in Part : q # p => part'[q] = part[q]
      /\ \A q \in Part : /\ part'[q].pending \subseteq part[q].pending
                         /\ part'[q].active \subseteq part[q].active
                         /\ part'[q].live = Cardinality(part'[q].active)
                         /\ q \notin partitions' => part'[q] = NewPartition /\ used'[q] = NothingUsed
      /\ QueueCounted'
    BY ZenonT(60), <1>2, <1>3, <1>4, <1>6, ItemsLeave
<1> QED
    BY <1>1, <1>2, <1>7 DEF T

\* dispatchBatch finds only oversized items.
LEMMA FailOversizedBooks ==
  ASSUME TypeOK, IInv, Books, FailOversized
  PROVE  Books'
<1>1. PICK p \in Part : p = cursor
    BY DEF FailOversized, Scheduling
<1>2. /\ TakeFromQueue(p, {}) /\ part[p].pending # {} /\ Selects(p, {})
      /\ UNCHANGED <<req, partitions, item, submitSeq, inflight, batch, activeProvider>>
    BY <1>1 DEF FailOversized, Eligible, envVars, batchVars
<1> DEFINE T == Oversized(p, {})
<1>3. /\ T \subseteq part[p].pending
      /\ part'[p].pending = part[p].pending \ T /\ part'[p].active = part[p].active \ T
      /\ \A q \in Part : q # p => part'[q] = part[q]
      /\ \A q \in Part : /\ part'[q].active \subseteq part[q].active
                         /\ part'[q].live = Cardinality(part'[q].active)
                         /\ q \notin partitions' => part'[q] = NewPartition /\ used'[q] = NothingUsed
      /\ QueueCounted'
  <2>1. part[p].pending \ ({} \cup T) = part[p].pending \ T /\ {} \in SUBSET part[p].pending
      OBVIOUS
  <2> QED
      BY <1>2, <2>1, TakeBooks
<1>4. \A q \in Part : \A j \in part'[q].active \ part'[q].pending : BatchOf(j)' # {}
  <2>1. ASSUME NEW q \in Part, NEW j \in part'[q].active \ part'[q].pending
        PROVE  j \in part[q].active \ part[q].pending
      BY <1>3
  <2> QED
      BY <1>2, <2>1 DEF Books, Booked, BatchOf
<1>5. Numbered' /\ SlotsCounted'
    BY <1>2, <1>3, FewerBatches DEF Books, SlotsCounted
<1> QED
    BY <1>3, <1>4, <1>5 DEF Books, Booked

\* maybeRetire at the end of a partition's turn drops it only when it is idle.
LEMMA NextPartitionBooks ==
  ASSUME TypeOK, IInv, Books, NextPartition
  PROVE  Books'
<1>1. PICK p \in Part : p = cursor
    BY DEF NextPartition, Scheduling
<1>2. /\ MaybeRetire(p, part[p], used[p])
      /\ UNCHANGED <<req, item, submitSeq, inflight, batch, activeProvider>>
    BY <1>1 DEF NextPartition, envVars, batchVars
<1>3. part[p].pending \subseteq part[p].active /\ used[p] \in [Res -> Int]
    BY InvParts DEF WaitersAskedForIt, Books, QueueCounted
<1>4. \A r \in Res : used[p][r] = used[p][r] - Sum(req, {}, r)
  <2>1. \A r \in Res : Sum(req, {}, r) = 0
      BY SumType, QueueTypes
  <2> QED
      BY <1>3, <2>1, Zero
<1>5. part[p].live = part[p].live - Cardinality({})
  <2>1. part[p] \in PartitionState
      BY QueueTypes
  <2>2. part[p].live \in Int
      BY <2>1 DEF PartitionState
  <2> QED
      BY <2>2, Zero, FS_EmptySet
<1>6. /\ part[p].active = part[p].active \ {} /\ part[p].pending \subseteq part[p].pending \ {}
      /\ {} \in SUBSET part[p].active /\ {} \in SUBSET part[p].pending
      /\ NothingOversized => part[p].pending = part[p].pending \ {}
    OBVIOUS
<1>7. /\ part'[p].pending = part[p].pending /\ part'[p].active = part[p].active
      /\ \A q \in Part : q # p => part'[q] = part[q]
      /\ \A q \in Part : /\ part'[q].pending \subseteq part[q].pending
                         /\ part'[q].active \subseteq part[q].active
                         /\ part'[q].live = Cardinality(part'[q].active)
                         /\ q \notin partitions' => part'[q] = NewPartition /\ used'[q] = NothingUsed
      /\ QueueCounted'
    BY ZenonT(60), <1>2, <1>3, <1>4, <1>5, <1>6, ItemsLeave
<1>8. \A q \in Part : \A j \in part'[q].active \ part'[q].pending : BatchOf(j)' # {}
  <2>1. ASSUME NEW q \in Part, NEW j \in part'[q].active \ part'[q].pending
        PROVE  j \in part[q].active \ part[q].pending
      BY <1>7
  <2> QED
      BY <1>2, <2>1 DEF Books, Booked, BatchOf
<1>9. Numbered' /\ SlotsCounted'
    BY <1>2, <1>7, FewerBatches DEF Books, SlotsCounted
<1> QED
    BY <1>7, <1>8, <1>9 DEF Books, Booked

\* handleComplete serves a batch and gives its provider slot back.
LEMMA HandleCompleteBooks ==
  ASSUME TypeOK, IInv, Books, NEW h \in Caller, HandleComplete(h)
  PROVE  Books'
<1>1. /\ h \in inflight /\ inflight' = inflight \ {h} /\ batch' = [batch EXCEPT ![h] = NoBatch]
      /\ activeProvider' = activeProvider - 1 /\ UNCHANGED <<req, item, submitSeq>>
    BY DEF HandleComplete, Released, envVars
<1>2. PICK p \in Part, S \in SUBSET Caller :
        p = batch[h].part /\ S = batch[h].items /\ S \in SUBSET part[p].active
    BY <1>1, Typed, InvParts DEF BatchesDisjoint
<1>3. /\ MaybeRetire(p, Served(part[p], S), used[p]) /\ S \cap part[p].pending = {}
      /\ part[p].pending \subseteq part[p].active /\ used[p] \in [Res -> Int]
    BY <1>1, <1>2, InvParts DEF HandleComplete, BatchesDisjoint, WaitersAskedForIt, Books, QueueCounted
<1> DEFINE np == Served(part[p], S)
<1>4. /\ np.pending = part[p].pending /\ np.active = part[p].active \ S
      /\ np.live = part[p].live - Cardinality(S)
    BY DEF Served
<1>5. \A r \in Res : used[p][r] = used[p][r] - Sum(req, {}, r)
  <2>1. \A r \in Res : Sum(req, {}, r) = 0
      BY SumType, QueueTypes
  <2> QED
      BY <1>3, <2>1, Zero
<1> HIDE DEF np
<1>6. /\ np.pending \subseteq part[p].pending \ {} /\ np.pending \subseteq np.active
      /\ {} \in SUBSET part[p].pending /\ MaybeRetire(p, np, used[p])
      /\ S \in SUBSET part[p].active /\ used[p] \in [Res -> Int] /\ req' = req
      /\ NothingOversized => np.pending = part[p].pending \ {}
    BY <1>1, <1>2, <1>3, <1>4 DEF np
<1>7. /\ part'[p].pending = np.pending /\ part'[p].active = np.active
      /\ \A q \in Part : q # p => part'[q] = part[q]
      /\ \A q \in Part : /\ part'[q].pending \subseteq part[q].pending
                         /\ part'[q].active \subseteq part[q].active
                         /\ part'[q].live = Cardinality(part'[q].active)
                         /\ q \notin partitions' => part'[q] = NewPartition /\ used'[q] = NothingUsed
      /\ QueueCounted'
    BY ZenonT(60), <1>4, <1>5, <1>6, ItemsLeave
<1>8. \A g \in inflight' : g \in inflight /\ g # h /\ batch'[g].items = batch[g].items
    BY <1>1, Typed, QueueTypes
<1>9. \A q \in Part : \A j \in part'[q].active \ part'[q].pending : BatchOf(j)' # {}
  <2>1. ASSUME NEW q \in Part, NEW j \in part'[q].active \ part'[q].pending
        PROVE  BatchOf(j)' # {}
    <3>1. j \in part[q].active \ part[q].pending /\ (q = p => j \notin S)
        BY <1>4, <1>7
    <3>2. PICK g \in inflight : j \in batch[g].items
        BY <3>1 DEF Books, Booked, BatchOf
    <3>3. CASE g # h
        BY <1>1, <1>8, <3>2, <3>3 DEF BatchOf
    <3>4. CASE g = h
      <4>1. req[j].part = q /\ req[j].part = p
          BY <1>2, <3>1, <3>2, <3>4, AskedFor, InvParts
      <4> QED
          BY <1>2, <3>1, <3>2, <3>4, <4>1
    <3> QED
        BY <3>3, <3>4
  <2> QED
      BY <2>1
<1>10. activeProvider' = Cardinality(inflight') /\ activeProvider' <= MaxConcurrency
  <2>1. Cardinality(inflight \ {h}) = Cardinality(inflight) - 1 /\ Cardinality(inflight) \in Nat
      BY <1>1, Typed, Finite, FS_RemoveElement
  <2> QED
      BY SMTT(30), <1>1, <2>1, SizeAssumption DEF Books, SlotsCounted
<1>11. Numbered' /\ SlotsCounted'
    BY <1>1, <1>7, <1>8, <1>10, FewerBatches DEF SlotsCounted
<1> QED
    BY <1>7, <1>9, <1>11 DEF Books, Booked

\* What dispatchBatch selects is within the limits: the newest item selected
\* fitted beside all the others.
LEMMA SelectedFits ==
  ASSUME TypeOK, IInv, Numbered, NEW p \in Part, NEW S \in SUBSET part[p].pending, S # {}, Selects(p, S)
  PROVE  /\ Cardinality(S) \in 1..MaxBatchSize
         /\ \A r \in Res : MaxBatch[r] > 0 => Sum(req, S, r) <= MaxBatch[r]
<1>1. S \in SUBSET Caller /\ S \subseteq part[p].active
    BY Typed, InvParts DEF WaitersAskedForIt
<1>2. \A i \in S : item[i].seq \in Nat
    BY <1>1, QueueTypes DEF ItemState
<1>3. PICK n \in S : \A j \in S : item[j].seq <= item[n].seq
  <2> DEFINE f == [i \in S |-> -item[i].seq]
  <2>1. f \in [S -> Int] /\ IsFiniteSet(S)
      BY SMTT(30), <1>1, <1>2, Finite
  <2> HIDE DEF f
  <2>2. PICK n \in S : \A j \in S : f[n] <= f[j]
      BY <2>1, LeastExists
  <2>3. \A j \in S : item[j].seq <= item[n].seq
      BY SMTT(30), <1>2, <2>2 DEF f
  <2> QED
      BY <2>3
<1>4. Before(S, n) = S \ {n}
  <2>1. \A j \in S : j # n => item[j].seq # item[n].seq
      BY <1>1 DEF Numbered
  <2> QED
      BY SMTT(30), <1>2, <1>3, <2>1 DEF Before
<1>5. /\ n \in Caller /\ S \ {n} \in SUBSET Caller
      /\ Cardinality(S) \in Nat /\ Cardinality(S \ {n}) \in Nat /\ Cardinality(S) = Cardinality(S \ {n}) + 1
  <2>1. IsFiniteSet(S) /\ Cardinality(S) \in Nat /\ S \ {n} \in SUBSET Caller
      BY <1>1, Finite
  <2>2. Cardinality(S \ {n}) = Cardinality(S) - 1 /\ Cardinality(S \ {n}) \in Nat
      BY <2>1, Finite, FS_RemoveElement
  <2> QED
      BY SMTT(30), <1>1, <2>1, <2>2
<1>6. ASSUME NEW r \in Res
      PROVE  /\ Sum(req, S, r) = SizeOf(n, r) + Sum(req, S \ {n}, r) /\ SizeOf(n, r) \in Nat
             /\ Sum(req, S \ {n}, r) \in Nat /\ Total(S \ {n}, r) = Sum(req, S \ {n}, r)
             /\ MaxBatch[r] \in Nat
  <2>1. req \in [Caller -> Request]
      BY QueueTypes
  <2>2. Sum(req, S, r) = Size[req[n].key][r] + Sum(req, S \ {n}, r)
      BY <1>1, <2>1, SumSplit
  <2>3. SizeOf(n, r) = Size[req[n].key][r] /\ SizeOf(n, r) \in Nat
      BY <1>5, SizeType
  <2>4. Sum(req, S \ {n}, r) \in Nat /\ Total(S \ {n}, r) = Sum(req, S \ {n}, r)
      BY <1>5, <2>1, SumType, TotalIs
  <2> QED
      BY <2>2, <2>3, <2>4, ResourceAssumption
<1>7. n \in S <=> IF Before(S, n) = {} THEN ~TooLarge(n) ELSE Fits(Before(S, n), n)
    BY DEF Selects
<1>8. CASE S \ {n} = {}
  <2>1. ~TooLarge(n)
      BY <1>3, <1>4, <1>7, <1>8
  <2>2. Cardinality(S \ {n}) = 0
      BY <1>8, FS_EmptySet
  <2>3. ASSUME NEW r \in Res, MaxBatch[r] > 0 PROVE Sum(req, S, r) <= MaxBatch[r]
    <3>1. Sum(req, S \ {n}, r) = 0
        BY <1>5, <1>8, SumType, QueueTypes
    <3>2. ~(SizeOf(n, r) > MaxBatch[r])
        BY <2>1, <2>3 DEF TooLarge
    <3> QED
        BY SMTT(30), <1>6, <3>1, <3>2
  <2> QED
      BY SMTT(30), <1>5, <2>2, <2>3, SizeAssumption
<1>9. CASE S \ {n} # {}
  <2>1. Fits(S \ {n}, n)
      BY Zenon, <1>3, <1>4, <1>7, <1>9
  <2>2. dyn.maxBatchSize \in 1..MaxBatchSize
      BY QueueTypes DEF Settings
  <2>3. Cardinality(S \ {n}) + 1 <= dyn.maxBatchSize
      BY <2>1 DEF Fits
  <2>4. ASSUME NEW r \in Res, MaxBatch[r] > 0 PROVE Sum(req, S, r) <= MaxBatch[r]
    <3>1. Total(S \ {n}, r) + SizeOf(n, r) <= MaxBatch[r]
        BY <2>1, <2>4 DEF Fits
    <3> QED
        BY SMTT(30), <1>6, <3>1
  <2> QED
      BY SMTT(30), <1>5, <2>2, <2>3, <2>4, SizeAssumption
<1> QED
    BY <1>8, <1>9

\* dispatchBatch sends a batch to the provider.
LEMMA DispatchBatchBooks ==
  ASSUME TypeOK, IInv, Books, Scheduling, NEW S \in SUBSET part[cursor].pending, DispatchBatch(S)
  PROVE  Books'
<1>1. PICK p \in Part, h \in {Oldest(S)} : p = cursor /\ h = Oldest(S)
    BY DEF Scheduling
<1>2. /\ TakeFromQueue(p, S) /\ part[p].pending # {} /\ Selects(p, S) /\ S # {}
      /\ activeProvider < dyn.maxConcurrency /\ activeProvider' = activeProvider + 1
      /\ inflight' = inflight \cup {h} /\ UNCHANGED <<req, partitions, item, submitSeq>>
      /\ batch' = [batch EXCEPT ![h] = [items |-> S, part |-> p, cancelled |-> FALSE,
                                        deadline |-> BatchDeadline(S)]]
    BY <1>1 DEF DispatchBatch, Eligible, envVars
<1> DEFINE T == Oversized(p, S)
<1>3. /\ T \subseteq part[p].pending /\ S \cap T = {}
      /\ part'[p].pending = part[p].pending \ (S \cup T) /\ part'[p].active = part[p].active \ T
      /\ \A q \in Part : q # p => part'[q] = part[q]
      /\ \A q \in Part : /\ part'[q].pending \subseteq part[q].pending
                         /\ part'[q].active \subseteq part[q].active
                         /\ part'[q].live = Cardinality(part'[q].active)
                         /\ q \notin partitions' => part'[q] = NewPartition /\ used'[q] = NothingUsed
      /\ QueueCounted'
    BY ZenonT(60), <1>1, <1>2, TakeBooks
<1> HIDE DEF T
<1>4. /\ S \in SUBSET Caller /\ S \in SUBSET part[p].pending /\ part[p].pending \subseteq part[p].active
      /\ h \in S /\ \A j \in S : item[h].seq <= item[j].seq
  <2>1. S \in SUBSET Caller
      BY <1>1, Typed
  <2> QED
      BY <1>1, <1>2, <2>1, OldestIsIn, InvParts DEF WaitersAskedForIt
<1>5. h \notin inflight
  <2>1. ASSUME h \in inflight PROVE FALSE
    <3>1. h \in part[batch[h].part].active \ part[batch[h].part].pending /\ batch[h].part \in Part
        BY <2>1, Typed, InvParts DEF BatchesDisjoint
    <3>2. req[h].part = batch[h].part /\ req[h].part = p
        BY <1>4, <3>1, AskedFor, InvParts
    <3> QED
        BY <1>4, <3>1, <3>2
  <2> QED
      BY <2>1
<1>6. /\ batch'[h].items = S
      /\ \A g \in inflight : g \in Caller /\ g # h /\ batch'[g] = batch[g]
    BY <1>2, <1>4, <1>5, Typed, QueueTypes
<1>7. \A q \in Part : \A j \in part'[q].active \ part'[q].pending : BatchOf(j)' # {}
  <2>1. ASSUME NEW q \in Part, NEW j \in part'[q].active \ part'[q].pending
        PROVE  BatchOf(j)' # {}
    <3>1. j \in S \/ j \in part[q].active \ part[q].pending
        BY <1>3
    <3>2. CASE j \in S
        BY <1>2, <1>6, <3>2 DEF BatchOf
    <3>3. CASE j \in part[q].active \ part[q].pending
      <4>1. PICK g \in inflight : j \in batch[g].items
          BY <3>3 DEF Books, Booked, BatchOf
      <4> QED
          BY <1>2, <1>6, <4>1 DEF BatchOf
    <3> QED
        BY <3>1, <3>2, <3>3
  <2> QED
      BY <2>1
<1>8. Numbered'
  <2>1. \A g \in inflight' : \A i \in batch'[g].items : item[g].seq <= item[i].seq
      BY <1>2, <1>4, <1>6 DEF Books, Numbered
  <2> QED
    <3>1. ASSUME NEW q \in Part, NEW o \in Part, NEW i \in part'[q].active, NEW j \in part'[o].active
          PROVE  item'[i].seq \in 1..submitSeq' /\ (item'[i].seq = item'[j].seq => i = j)
      <4>1. i \in part[q].active /\ j \in part[o].active
          BY <1>3
      <4>2. item[i].seq \in 1..submitSeq /\ (item[i].seq = item[j].seq => i = j)
        <5>1. Numbered
            BY DEF Books
        <5> QED
            BY SMTT(30), <4>1, <5>1, NumberIs
      <4> QED
          BY <1>2, <4>2
    <3>2. \A g \in inflight' : \A i \in batch'[g].items : item'[g].seq <= item'[i].seq
        BY <1>2, <2>1
    <3> QED
        BY <3>1, <3>2 DEF Numbered
<1>9. SlotsCounted'
  <2>1. activeProvider' = Cardinality(inflight') /\ activeProvider' <= MaxConcurrency
    <3>1. Cardinality(inflight \cup {h}) = Cardinality(inflight) + 1 /\ Cardinality(inflight) \in Nat
        BY <1>5, Typed, Finite, FS_AddElement
    <3>2. dyn.maxConcurrency \in 1..MaxConcurrency
        BY QueueTypes DEF Settings
    <3>3. activeProvider = Cardinality(inflight)
        BY DEF Books, SlotsCounted
    <3>4. Cardinality(inflight') = activeProvider + 1 /\ activeProvider \in Nat
        BY <1>2, <3>1, <3>3
    <3> QED
        BY SMTT(30), <1>2, <3>2, <3>4, SizeAssumption
  <2>2. /\ Cardinality(S) \in 1..MaxBatchSize
        /\ \A r \in Res : MaxBatch[r] > 0 => Sum(req, S, r) <= MaxBatch[r]
      BY <1>2, <1>4, SelectedFits DEF Books
  <2>3. ASSUME NEW g \in inflight'
        PROVE  /\ Cardinality(batch'[g].items) \in 1..MaxBatchSize
               /\ \A r \in Res : MaxBatch[r] > 0 => Total(batch[g].items, r)' <= MaxBatch[r]
    <3>1. \A r \in Res : Total(batch[g].items, r)' = Sum(req, batch'[g].items, r)
        BY <1>2, TotalsNext
    <3>2. CASE g = h
        BY <1>6, <2>2, <3>1, <3>2
    <3>3. CASE g \in inflight
        BY <1>6, <3>1, <3>3, TotalIs DEF Books, SlotsCounted
    <3> QED
        BY <1>2, <3>2, <3>3
  <2> QED
      BY <2>1, <2>3 DEF SlotsCounted
<1> QED
    BY <1>3, <1>7, <1>8, <1>9 DEF Books, Booked

\* handleSubmit refuses, parks, joins or queues.
LEMMA HandleBooks ==
  ASSUME TypeOK, IInv, Books, Handle
  PROVE  Books'
<1>1. PICK c \in Caller, p \in Part : c = Head(todo) /\ p = req[c].part /\ HandleSubmit(c)
    BY HandleHead, Typed
<1>2. UNCHANGED <<req, inflight, batch, activeProvider>>
    BY DEF Handle, envVars, batchVars
<1>3. CASE SubmitWhileClosing(c) \/ SubmitNoPartition(c)
  <2>1. SameBooks
      BY <1>2, <1>3 DEF SubmitWhileClosing, SubmitNoPartition, queueVars, SameBooks
  <2> QED
      BY <2>1, SameBooksKeep
<1>4. CASE SubmitJoin(c)
  <2>1. PICK i \in part[p].active : item' = [item EXCEPT ![i] = Joined(item[i], c)]
      BY <1>1, <1>4 DEF SubmitJoin, Joinable
  <2>2. part' = [part EXCEPT ![p].waiters = @ + 1] /\ UNCHANGED <<partitions, used, submitSeq>>
      BY <1>1, <1>4 DEF SubmitJoin
  <2>3. \A j \in Caller : item'[j].seq = item[j].seq
      BY <2>1, Typed, QueueTypes DEF Joined
  <2>4. /\ part'[p].pending = part[p].pending /\ part'[p].active = part[p].active
        /\ part'[p].live = part[p].live /\ \A q \in Part : q # p => part'[q] = part[q]
      BY <1>4, <2>2, JoinMovesNothing, QueueTypes
  <2>5. SameBooks
      BY <1>2, <2>1, <2>2, <2>3, <2>4 DEF SameBooks
  <2> QED
      BY <2>5, SameBooksKeep
<1>5. CASE SubmitOverLimit(c)
  <2>1. /\ partitions' = partitions \cup {p} /\ ~NoRoomForPartition(p)
        /\ UNCHANGED <<part, used, item, submitSeq>>
      BY <1>1, <1>5 DEF SubmitOverLimit
  <2>2. Booked'
    <3>1. ASSUME NEW i PROVE BatchOf(i)' = BatchOf(i)
        BY <1>2 DEF BatchOf
    <3> QED
        BY <2>1, <3>1 DEF Books, Booked
  <2>3. Numbered'
      BY <1>2, <2>1, Typed, NumbersKept DEF Books
  <2>4. SlotsCounted'
    <3>1. \A h \in inflight, r \in Res : Total(batch[h].items, r)' = Total(batch[h].items, r)
        BY <1>2, TotalIs, TotalsNext
    <3> QED
        BY <1>2, <3>1 DEF Books, SlotsCounted
  <2>5. MaxPartitions > 0 => Cardinality(partitions') <= MaxPartitions
    <3>1. partitions \in SUBSET Part
        BY QueueTypes
    <3>2. MaxPartitions > 0 => Cardinality(partitions) <= MaxPartitions
        BY DEF Books, QueueCounted
    <3>3. CASE p \in partitions
      <4>1. partitions' = partitions
          BY <2>1, <3>3
      <4> QED
          BY Zenon, <3>2, <4>1
    <3>4. CASE p \notin partitions
      <4>1. Cardinality(partitions') = Cardinality(partitions) + 1 /\ Cardinality(partitions) \in Nat
          BY <2>1, <3>1, <3>4, Finite, FS_AddElement
      <4>2. MaxPartitions > 0 => ~(Cardinality(partitions) >= MaxPartitions)
          BY <2>1, <3>4 DEF NoRoomForPartition
      <4> QED
          BY <4>1, <4>2, OneMore, SizeAssumption
    <3> QED
        BY <3>3, <3>4
  <2>6. QueueCounted'
    <3>1. \A q \in Part, r \in Res : Total(part[q].pending, r)' = Total(part[q].pending, r)
        BY <1>2, <2>1, TotalIs, TotalsNext
    <3> QED
        BY <2>1, <2>5, <3>1 DEF Books, QueueCounted
  <2> QED
      BY <2>2, <2>3, <2>4, <2>6 DEF Books
<1> QED
    BY <1>1, <1>3, <1>4, <1>5, EnqueueBooks DEF HandleSubmit

\* Every step keeps the books.
LEMMA BooksNext == TypeOK /\ IInv /\ Books /\ [Next]_vars => Books'
<1> SUFFICES ASSUME TypeOK, IInv, Books, [Next]_vars PROVE Books'
    OBVIOUS
<1> USE DEF queueVars, loopVars, batchVars, callVars, deliveryVars, envVars
<1>1. ASSUME UNCHANGED <<partitions, part, used, item, submitSeq, inflight, activeProvider, req>>,
             \A h \in Caller : batch'[h].items = batch[h].items /\ batch'[h].part = batch[h].part
      PROVE  Books'
  <2>1. SameBooks
      BY <1>1 DEF SameBooks
  <2> QED
      BY <2>1, SameBooksKeep
<1>2. ASSUME UNCHANGED <<partitions, part, used, item, submitSeq, inflight, activeProvider, req, batch>>
      PROVE  Books'
    BY <1>1, <1>2
<1>3. CASE Turn
  <2>1. CASE EndSchedule \/ Settle
      BY <1>2, <2>1 DEF EndSchedule, Settle
  <2> QED
      BY <1>3, <2>1, HandleBooks, DispatchBatchBooks, FailOversizedBooks, NextPartitionBooks DEF Turn
<1>4. CASE Event
  <2>1. CASE TimerFires \/ (\E c \in Caller : Submit(c)) \/ (\E k \in Ctl : HandleControl(k))
      BY <1>2, <2>1 DEF TimerFires, Submit, HandleControl
  <2>2. CASE HandleEngineCancel
    <3>1. /\ UNCHANGED <<partitions, part, used, item, submitSeq, inflight, activeProvider, req>>
          /\ batch' = CancelContexts(inflight)
        BY <2>2 DEF HandleEngineCancel
    <3> QED
        BY <1>1, <3>1, CancelBatchesType
  <2>3. CASE HandleCancel
    <3>1. CASE CancelBlocked(Head(cancelCh)) \/ CancelUnknown(Head(cancelCh))
        BY <1>2, <2>3, <3>1 DEF HandleCancel, CancelBlocked, CancelUnknown
    <3> QED
        BY <2>3, <3>1, CancelBooks DEF HandleCancel
  <2> QED
      BY <1>4, <2>1, <2>2, <2>3, HandleCompleteBooks DEF Event
<1>5. CASE \E c \in Caller : CallStep(c) \/ ContextEnds(c)
    BY <1>2, <1>5 DEF CallStep, NotSubmitted, AwaitReply, AwaitResult, Abandon, CoordinatorGone,
                      ContextEnds, otherThanCalls
<1>6. CASE \/ \E k \in Ctl : ControlReturns(k) \/ ControlExpires(k)
           \/ EngineCancel \/ ApplyAdaptiveSettings \/ ClearAdaptiveSettings \/ Tick
           \/ UNCHANGED vars
    BY <1>2, <1>6 DEF ControlReturns, ControlExpires, EngineCancel, ApplyAdaptiveSettings,
                      ClearAdaptiveSettings, Tick, vars
<1> QED
    BY <1>3, <1>4, <1>5, <1>6 DEF Next, Finished

\* The goroutine stops only when closing and drained, and nothing happens to the
\* queue or the provider after that.
LEMMA StoppedNext == StoppedIdle /\ [Next]_vars => StoppedIdle'
<1> SUFFICES ASSUME StoppedIdle, [Next]_vars, pc' = "stopped" PROVE closing' /\ Drained'
    BY DEF StoppedIdle
<1> USE DEF queueVars, loopVars, batchVars, callVars, deliveryVars, envVars
<1>1. CASE pc = "stopped" /\ UNCHANGED <<closing, inflight, activeProvider, partitions, part>>
    BY <1>1 DEF StoppedIdle, Drained
<1>2. CASE Turn
  <2>1. CASE Settle
      BY <2>1 DEF Settle, Drained
  <2>2. CASE \E S \in SUBSET part[cursor].pending : DispatchBatch(S)
      BY <2>2 DEF DispatchBatch, Scheduling
  <2> QED
      BY <1>2, <2>1, <2>2 DEF Turn, Handle, FailOversized, NextPartition, EndSchedule, StartSchedule,
                              Scheduling
<1>3. CASE Event
  <2>1. CASE HandleEngineCancel
      BY <2>1 DEF HandleEngineCancel, StartSchedule, Drained
  <2> QED
      BY <1>3, <2>1 DEF Event, HandleCancel, TimerFires, Submit, HandleComplete, HandleControl,
                        StartSchedule
<1>4. CASE \E c \in Caller : CallStep(c) \/ ContextEnds(c)
    BY <1>1, <1>4 DEF CallStep, NotSubmitted, AwaitReply, AwaitResult, Abandon, CoordinatorGone,
                      ContextEnds, otherThanCalls
<1>5. CASE \/ \E k \in Ctl : ControlReturns(k) \/ ControlExpires(k)
           \/ EngineCancel \/ ApplyAdaptiveSettings \/ ClearAdaptiveSettings \/ Tick
           \/ UNCHANGED vars
    BY <1>1, <1>5 DEF ControlReturns, ControlExpires, EngineCancel, ApplyAdaptiveSettings,
                      ClearAdaptiveSettings, Tick, vars
<1> QED
    BY <1>2, <1>3, <1>4, <1>5 DEF Next, Finished

\* The books are in order at the start.
LEMMA AccountsInit == Init => Accounts
<1> SUFFICES ASSUME Init PROVE Accounts
    OBVIOUS
<1>1. Booked
    BY FS_EmptySet DEF Init, Booked, NewPartition
<1>2. Numbered
    BY DEF Init, Numbered, NewPartition
<1>3. SlotsCounted
  <2>1. inflight = {} /\ activeProvider = 0
      BY DEF Init
  <2> QED
      BY <2>1, Zero, FS_EmptySet, SizeAssumption DEF SlotsCounted
<1>4. QueueCounted
  <2>1. req \in [Caller -> Request]
      BY TypeInit, QueueTypes
  <2>2. \A r \in Res : Total({}, r) = 0
      BY <2>1, TotalIs, SumType
  <2>3. /\ used \in [Part -> [Res -> Int]] /\ \A p \in Part, r \in Res : used[p][r] = 0
        /\ \A p \in Part : part[p].pending = {}
    <3>1. used = [p \in Part |-> NothingUsed] /\ part = [p \in Part |-> NewPartition]
        BY DEF Init
    <3> QED
        BY <3>1, Arithmetic, NewPartitionIs DEF NothingUsed
  <2>4. partitions = {} /\ Cardinality({}) = 0
      BY FS_EmptySet DEF Init
  <2>5. ASSUME NEW p \in Part, NEW r \in Res
        PROVE  Total(part[p].pending, r) <= used[p][r] /\ Total(part[p].pending, r) = used[p][r]
    <3>1. Total(part[p].pending, r) = 0
        BY Zenon, <2>2, <2>3
    <3> QED
        BY <2>3, <3>1, Zero
  <2>6. \A p \in Part, r \in Res : QueueMax[r] > 0 => used[p][r] <= QueueMax[r]
      BY <2>3, Zero, ResourceAssumption
  <2>7. \A p \in Part : MaxItems > 0 => Cardinality(part[p].pending) <= MaxItems
      BY <2>3, <2>4, Zero, SizeAssumption
  <2>8. MaxPartitions > 0 => Cardinality(partitions) <= MaxPartitions
      BY <2>4, Zero, SizeAssumption
  <2> QED
      BY <2>3, <2>5, <2>6, <2>7, <2>8 DEF QueueCounted
<1>5. StoppedIdle
    BY DEF Init, StoppedIdle
<1> QED
    BY <1>1, <1>2, <1>3, <1>4, <1>5 DEF Accounts

\* Every step keeps the accounts.
LEMMA AccountsNext == TypeOK /\ IInv /\ Accounts /\ [Next]_vars => Accounts'
BY BooksNext, StoppedNext DEF Accounts, Books
================================================================================
