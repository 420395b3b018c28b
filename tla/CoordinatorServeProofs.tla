------------------------ MODULE CoordinatorServeProofs -------------------------
(* Dispatch, completion and the two kinds of cancellation keep IInv. *)
EXTENDS CoordinatorTypeProofs, CoordinatorSubmitProofs

\* Most leaves are first-order and go to Zenon; the others name SMT.
USE ZenonT(30)

(* Items leave the coordinator.  Every step that removes items from a        *)
(* partition, except the cancellation of an item's last waiter, delivers a   *)
(* result to their waiters.                                                  *)

\* deliver on the waiters of some items: those that were active get one result
\* and stop waiting, the others keep what they have.
LEMMA DeliverInv ==
  ASSUME TypeOK, IInv, NEW S \in SUBSET Caller, NEW kind, Deliver(S, kind),
         \A i \in S : \E p \in Part : i \in part[p].active,
         UNCHANGED <<item, req, doing, reply, cancelCh>>,
         \A c \in Caller : Held(c)' <=> Held(c),
         \A p \in Part : /\ part'[p].active \subseteq part[p].active
                         /\ part[p].active \ S \subseteq part'[p].active
                         /\ part'[p].pending \subseteq part[p].pending \cap part'[p].active
  PROVE  /\ \A c \in Caller : Held(c)' =>
              c \in awaiting' /\ reply'[c] = {} /\ \A i \in Caller : c \notin item'[i].waiters
         /\ WaitersAskedForIt' /\ WaitersCounted' /\ AnswersComing'
<1>1. awaiting' = awaiting \ WaitersOf(S)
    BY DEF Deliver
<1>2. \A c \in Caller : result'[c] =
        IF c \in awaiting
        THEN result[c] \cup {[item |-> i, kind |-> kind[i]] : i \in {j \in S : c \in item[j].waiters}}
        ELSE result[c]
    BY DEF Deliver
<1>3. \A c \in Caller : Held(c)' =>
        c \in awaiting' /\ reply'[c] = {} /\ \A i \in Caller : c \notin item'[i].waiters
    BY <1>1, InvParts DEF HeldOnce, WaitersOf
<1>4. WaitersAskedForIt'
    BY SMTT(30), InvParts DEF WaitersAskedForIt
<1>5. WaitersCounted'
  <2> SUFFICES ASSUME NEW p \in Part, NEW i \in part'[p].active
               PROVE  /\ Cardinality(item[i].waiters \cap awaiting') <= item[i].activeWaiters
                      /\ \A j \in part'[p].active :
                           item[i].waiters \cap item[j].waiters \cap awaiting' # {} => i = j
      BY DEF WaitersCounted
  <2>1. i \in part[p].active /\ i \in Caller
      BY Typed
  <2>2. Cardinality(item[i].waiters \cap awaiting) <= item[i].activeWaiters
      BY <2>1, InvParts DEF WaitersCounted
  <2>3. /\ Cardinality(item[i].waiters \cap awaiting') <= Cardinality(item[i].waiters \cap awaiting)
        /\ Cardinality(item[i].waiters \cap awaiting') \in Nat
        /\ Cardinality(item[i].waiters \cap awaiting) \in Nat
        /\ item[i].activeWaiters \in Int
    <3>1. /\ item[i].waiters \cap awaiting' \subseteq item[i].waiters \cap awaiting
          /\ item[i].waiters \cap awaiting \subseteq Caller
        BY <1>1, <2>1, Typed
    <3>2. IsFiniteSet(item[i].waiters \cap awaiting)
        BY <3>1, CallAssumption, FS_Subset
    <3> QED
        BY <2>1, <3>1, <3>2, FS_Subset, FS_CardinalityType, Typed
  <2>4. Cardinality(item[i].waiters \cap awaiting') <= item[i].activeWaiters
      BY SMTT(30), <2>2, <2>3
  <2>5. \A j \in part'[p].active :
          item[i].waiters \cap item[j].waiters \cap awaiting' # {} => i = j
    <3>1. \A j \in part[p].active :
            item[i].waiters \cap item[j].waiters \cap awaiting # {} => i = j
        BY <2>1, InvParts DEF WaitersCounted
    <3>2. awaiting' \subseteq awaiting /\ part'[p].active \subseteq part[p].active
        BY <1>1
    <3> QED
        BY <3>1, <3>2
  <2> QED
      BY <2>4, <2>5
<1>6. ASSUME NEW c \in Caller, NEW i \in S, c \in item[i].waiters
      PROVE  /\ i \in part[req[c].part].active
             /\ req[i].key = req[c].key /\ req[i].part = req[c].part
  <2>1. PICK p \in Part : i \in part[p].active
      OBVIOUS
  <2>2. req[c].part = p /\ req[c].key = req[i].key /\ req[i].part = p
    <3>1. WaitersAskedForIt
        BY InvParts
    <3> QED
        BY SMTT(30), <1>6, <2>1, <3>1, AskedFor
  <2> QED
      BY <2>1, <2>2
<1>7. ASSUME NEW c \in Caller, doing[c] = "admitted" \/ (doing[c] = "submitted" /\ "admitted" \in reply[c])
      PROVE  result'[c] # {} \/ FoundOn(c)' # {}
  <2>1. result[c] # {} \/ FoundOn(c) # {}
      BY <1>7, InvParts DEF AnswersComing
  <2>2. CASE result[c] # {}
      BY <1>2, <2>2
  <2>3. CASE FoundOn(c) # {}
    <3>1. PICK i \in part[req[c].part].active : c \in item[i].waiters /\ c \in awaiting
        BY <2>3 DEF FoundOn
    <3>2. CASE \E j \in S : c \in item[j].waiters
      <4>1. PICK j \in S : c \in item[j].waiters
          BY <3>2
      <4>2. [item |-> j, kind |-> kind[j]] \in result'[c]
          BY <1>2, <3>1, <4>1
      <4> QED
          BY <4>2
    <3>3. CASE ~ \E j \in S : c \in item[j].waiters
      <4>1. c \in awaiting' /\ i \notin S
          BY <1>1, <3>1, <3>3 DEF WaitersOf
      <4>2. req[c].part \in Part
          BY Typed
      <4>3. i \in part'[req[c].part].active
          BY <3>1, <4>1, <4>2
      <4> QED
          BY <3>1, <4>1, <4>3 DEF FoundOn
    <3> QED
        BY <3>2, <3>3
  <2> QED
      BY <2>1, <2>2, <2>3
<1>8. ASSUME NEW c \in Caller
      PROVE  /\ c \in awaiting' => result'[c] = {}
             /\ \A r, s \in result'[c] : r = s
             /\ \A r \in result'[c] : req[r.item].key = req[c].key /\ req[r.item].part = req[c].part
  <2> DEFINE N == {j \in S : c \in item[j].waiters}
  <2>1. /\ c \in awaiting => result[c] = {}
        /\ \A r, s \in result[c] : r = s
        /\ \A r \in result[c] : req[r.item].key = req[c].key /\ req[r.item].part = req[c].part
      BY InvParts DEF AnswersComing
  <2>2. CASE c \notin awaiting
      BY <1>1, <1>2, <2>1, <2>2
  <2>3. CASE c \in awaiting
    <3>1. result'[c] = {[item |-> i, kind |-> kind[i]] : i \in N}
        BY <1>2, <2>1, <2>3
    <3>2. \A i, j \in N : i = j
      <4> SUFFICES ASSUME NEW i \in N, NEW j \in N PROVE i = j
          OBVIOUS
      <4>1. i \in part[req[c].part].active /\ j \in part[req[c].part].active /\ req[c].part \in Part
          BY <1>6, Typed
      <4>2. c \in item[i].waiters \cap item[j].waiters \cap awaiting
          BY <2>3
      <4> QED
          BY <4>1, <4>2, InvParts DEF WaitersCounted
    <3>3. c \in awaiting' => N = {}
        BY <1>1 DEF WaitersOf
    <3>4. \A i \in N : req[i].key = req[c].key /\ req[i].part = req[c].part
        BY <1>6
    <3> HIDE DEF N
    <3> QED
        BY SMTT(30), <3>1, <3>2, <3>3, <3>4
  <2> QED
      BY <2>2, <2>3
<1>9. AnswersComing'
  <2>1. \A n \in DOMAIN cancelCh' : doing'[cancelCh'[n].call] = "returned"
      BY InvParts DEF AnswersComing
  <2>2. \A c \in Caller : doing'[c] = "submitted" /\ reply'[c] = {} => Held(c)'
      BY InvParts DEF AnswersComing
  <2> QED
      BY <1>7, <1>8, <2>1, <2>2 DEF AnswersComing
<1> QED
    BY <1>3, <1>4, <1>5, <1>9

\* The submissions held stay as they are when their channels do.
LEMMA SameChannels ==
  ASSUME HeldOnce, UNCHANGED <<todo, blocked, doing>>,
         \A c \in Caller : Held(c)' =>
           c \in awaiting' /\ reply'[c] = {} /\ \A i \in Caller : c \notin item'[i].waiters
  PROVE  HeldOnce'
  BY DEF HeldOnce, Distinct

\* The queue part of dispatchBatch: selected items leave pending, failed ones
\* the index.
LEMMA TakeFromQueueInv ==
  ASSUME TypeOK, IInv, NEW p \in Part, NEW S \in SUBSET part[p].pending, TakeFromQueue(p, S),
         UNCHANGED <<item, req, doing, reply, cancelCh, todo, blocked>>
  PROVE  /\ HeldOnce' /\ WaitersAskedForIt' /\ WaitersCounted' /\ AnswersComing'
         /\ part'[p].active = part[p].active \ Oversized(p, S)
         /\ part'[p].pending = part[p].pending \ (S \cup Oversized(p, S))
         /\ \A q \in Part : q # p => part'[q] = part[q]
<1> DEFINE T == Oversized(p, S)
           kind == [i \in T |-> "tooLarge"]
<1>1. part' = [part EXCEPT ![p] = Taken(part[p], S, T)] /\ Deliver(T, kind)
    BY DEF TakeFromQueue
<1>2. /\ part'[p].active = part[p].active \ T /\ part'[p].pending = part[p].pending \ (S \cup T)
      /\ \A q \in Part : q # p => part'[q] = part[q]
    BY <1>1, QueueTypes DEF Taken
<1>3. T \subseteq part[p].pending /\ \A q \in Part : part[q].pending \subseteq part[q].active
    BY InvParts DEF Oversized, WaitersAskedForIt
<1>4. T \in SUBSET Caller /\ \A i \in T : \E q \in Part : i \in part[q].active
    BY <1>3, Typed
<1> HIDE DEF T, kind
<1>5. \A q \in Part : /\ part'[q].active \subseteq part[q].active
                      /\ part[q].active \ T \subseteq part'[q].active
                      /\ part'[q].pending \subseteq part[q].pending \cap part'[q].active
  <2> SUFFICES ASSUME NEW q \in Part
               PROVE  /\ part'[q].active \subseteq part[q].active
                      /\ part[q].active \ T \subseteq part'[q].active
                      /\ part'[q].pending \subseteq part[q].pending \cap part'[q].active
      OBVIOUS
  <2>1. CASE q = p
      BY <1>2, <1>3, <2>1
  <2>2. CASE q # p
      BY <1>2, <1>3, <2>2
  <2> QED
      BY <2>1, <2>2
<1>6. \A c \in Caller : Held(c)' <=> Held(c)
    BY DEF Held
<1>7. /\ \A c \in Caller : Held(c)' =>
           c \in awaiting' /\ reply'[c] = {} /\ \A i \in Caller : c \notin item'[i].waiters
      /\ WaitersAskedForIt' /\ WaitersCounted' /\ AnswersComing'
    BY <1>1, <1>4, <1>5, <1>6, DeliverInv
<1>8. HeldOnce'
    BY <1>7, SameChannels, InvParts
<1> QED
    BY <1>2, <1>7, <1>8 DEF T

\* dispatchBatch when every item it met was too large.
LEMMA FailOversizedInv ==
  ASSUME TypeOK, IInv, FailOversized
  PROVE  IInv'
<1>1. cursor \in Part /\ TakeFromQueue(cursor, {})
    BY DEF FailOversized, Scheduling
<1>2. UNCHANGED <<item, req, doing, reply, cancelCh, todo, blocked, inflight, batch>>
    BY DEF FailOversized, loopVars, batchVars, callVars, envVars
<1>3. /\ HeldOnce' /\ WaitersAskedForIt' /\ WaitersCounted' /\ AnswersComing'
      /\ part'[cursor].active = part[cursor].active \ Oversized(cursor, {})
      /\ part'[cursor].pending = part[cursor].pending \ ({} \cup Oversized(cursor, {}))
      /\ \A q \in Part : q # cursor => part'[q] = part[q]
    BY <1>1, <1>2, TakeFromQueueInv
<1>4. BatchesDisjoint'
  <2> SUFFICES ASSUME NEW h \in inflight
               PROVE  batch[h].items \subseteq part'[batch[h].part].active \ part'[batch[h].part].pending
      BY <1>2, InvParts DEF BatchesDisjoint
  <2>1. batch[h].items \subseteq part[batch[h].part].active \ part[batch[h].part].pending
      BY InvParts DEF BatchesDisjoint
  <2>2. batch[h].part \in Part
      BY Typed
  <2>3. Oversized(cursor, {}) \subseteq part[cursor].pending
      BY DEF Oversized
  <2>4. CASE batch[h].part = cursor
      BY <1>3, <2>1, <2>3, <2>4
  <2>5. CASE batch[h].part # cursor
      BY <1>3, <2>1, <2>2, <2>5
  <2> QED
      BY <2>4, <2>5
<1> QED
    BY <1>3, <1>4 DEF IInv

\* No item is selected and failed in one pass.
LEMMA SelectedIsNotOversized ==
  ASSUME NEW p, NEW S \in SUBSET part[p].pending, Selects(p, S)
  PROVE  S \cap Oversized(p, S) = {}
  BY DEF Selects, Oversized

\* dispatchBatch when it selects a batch: the items move from the queue to a
\* batch no other batch intersects.
LEMMA DispatchBatchInv ==
  ASSUME TypeOK, IInv, Scheduling, NEW S \in SUBSET part[cursor].pending, DispatchBatch(S)
  PROVE  IInv'
<1> DEFINE h == Oldest(S)
           T == Oversized(cursor, S)
<1>1. cursor \in Part /\ TakeFromQueue(cursor, S) /\ S # {} /\ Selects(cursor, S)
    BY DEF DispatchBatch, Scheduling
<1>2. UNCHANGED <<item, req, doing, reply, cancelCh, todo, blocked>>
    BY DEF DispatchBatch, loopVars, callVars, envVars
<1>3. /\ HeldOnce' /\ WaitersAskedForIt' /\ WaitersCounted' /\ AnswersComing'
      /\ part'[cursor].active = part[cursor].active \ T
      /\ part'[cursor].pending = part[cursor].pending \ (S \cup T)
      /\ \A q \in Part : q # cursor => part'[q] = part[q]
    BY <1>1, <1>2, TakeFromQueueInv
<1>4. S \cap T = {} /\ T \subseteq part[cursor].pending
    BY <1>1, SelectedIsNotOversized DEF Oversized
<1>5. S \in SUBSET Caller /\ part[cursor].pending \subseteq part[cursor].active
    BY <1>1, Typed, InvParts DEF WaitersAskedForIt
<1>6. h \in S
    BY <1>1, <1>5, OldestIsIn
<1> HIDE DEF h, T
<1>7. ASSUME NEW g \in inflight PROVE batch[g].items \cap S = {} /\ g # h
  <2>1. /\ batch[g].items \subseteq part[batch[g].part].active \ part[batch[g].part].pending
        /\ batch[g].part \in Part /\ g \in batch[g].items
      BY Typed, InvParts DEF BatchesDisjoint
  <2>2. CASE batch[g].part = cursor
      BY <1>6, <2>1, <2>2
  <2>3. CASE batch[g].part # cursor
    <3>1. \A i \in S : req[i].part = cursor
        BY <1>1, <1>5, InvParts DEF WaitersAskedForIt
    <3>2. \A i \in batch[g].items : req[i].part = batch[g].part
        BY <2>1, AskedFor, InvParts
    <3> QED
        BY <1>6, <2>1, <2>3, <3>1, <3>2
  <2> QED
      BY <2>2, <2>3
<1>8. /\ inflight' = inflight \cup {h} /\ batch'[h].items = S /\ batch'[h].part = cursor
      /\ \A g \in inflight : batch'[g] = batch[g]
    BY <1>5, <1>6, <1>7, QueueTypes DEF DispatchBatch, h
<1>9. BatchesDisjoint'
  <2>1. ASSUME NEW g \in inflight'
        PROVE  /\ g \in batch'[g].items
               /\ batch'[g].items \subseteq part'[batch'[g].part].active \ part'[batch'[g].part].pending
    <3>1. CASE g = h
        BY <1>3, <1>4, <1>5, <1>6, <1>8, <3>1
    <3>2. CASE g # h
      <4>1. /\ g \in inflight /\ batch'[g] = batch[g] /\ g \in batch[g].items
            /\ batch[g].items \subseteq part[batch[g].part].active \ part[batch[g].part].pending
            /\ batch[g].part \in Part
          BY <1>8, <3>2, Typed, InvParts DEF BatchesDisjoint
      <4>2. CASE batch[g].part = cursor
          BY <1>3, <1>4, <4>1, <4>2
      <4>3. CASE batch[g].part # cursor
          BY <1>3, <4>1, <4>3
      <4> QED
          BY <4>2, <4>3
    <3> QED
        BY <3>1, <3>2
  <2>2. ASSUME NEW f \in inflight', NEW g \in inflight', f # g
        PROVE  batch'[f].items \cap batch'[g].items = {}
      BY <1>7, <1>8, <2>2, InvParts DEF BatchesDisjoint
  <2> QED
      BY <2>1, <2>2 DEF BatchesDisjoint
<1> QED
    BY <1>3, <1>9 DEF IInv

\* Retiring a partition loses no item.
LEMMA MaybeRetireKeeps ==
  ASSUME TypeOK, NEW p \in Part, NEW np, NEW u, np.pending \subseteq np.active, MaybeRetire(p, np, u)
  PROVE  /\ part'[p].active = np.active /\ part'[p].pending = np.pending
         /\ \A q \in Part : q # p => part'[q] = part[q]
<1>1. part' = [part EXCEPT ![p] = IF np.live = 0 /\ np.active = {} THEN NewPartition ELSE np]
    BY DEF MaybeRetire
<1>2. /\ part'[p] = (IF np.live = 0 /\ np.active = {} THEN NewPartition ELSE np)
      /\ \A q \in Part : q # p => part'[q] = part[q]
    BY <1>1, QueueTypes
<1>3. NewPartition.active = {} /\ NewPartition.pending = {}
    BY DEF NewPartition
<1> QED
    BY <1>2, <1>3

\* The end of a partition in schedule.
LEMMA NextPartitionInv ==
  ASSUME TypeOK, IInv, NextPartition
  PROVE  IInv'
<1>1. cursor \in Part /\ MaybeRetire(cursor, part[cursor], used[cursor])
    BY DEF NextPartition, Scheduling
<1>2. UNCHANGED <<item, req, doing, reply, cancelCh, todo, blocked, inflight, batch, awaiting, result>>
    BY DEF NextPartition, batchVars, callVars, deliveryVars, envVars
<1>3. \A q \in Part : part[q].pending \subseteq part[q].active
    BY InvParts DEF WaitersAskedForIt
<1>4. \A q \in Part : part'[q].active = part[q].active /\ part'[q].pending = part[q].pending
    BY <1>1, <1>3, MaybeRetireKeeps
<1>5. HeldOnce'
    BY <1>2, InvParts DEF HeldOnce, Held, Distinct
<1>6. WaitersAskedForIt' /\ WaitersCounted'
  <2>1. WaitersAskedForIt'
      BY <1>2, <1>3, <1>4, Typed, PartsShrink, InvParts
  <2>2. WaitersCounted'
    <3>1. \A q \in Part : part'[q].active = part[q].active
        BY <1>4
    <3> QED
        BY <1>2, <3>1, InvParts DEF WaitersCounted
  <2> QED
      BY <2>1, <2>2
<1>7. BatchesDisjoint'
  <2>1. ASSUME NEW h \in inflight
        PROVE  batch[h].items \subseteq part'[batch[h].part].active \ part'[batch[h].part].pending
      BY <1>4, Typed, InvParts DEF BatchesDisjoint
  <2> QED
      BY <1>2, <2>1, InvParts DEF BatchesDisjoint
<1>8. AnswersComing'
  <2>1. \A c \in Caller : FoundOn(c)' = FoundOn(c)
      BY <1>2, <1>4, Typed DEF FoundOn
  <2>2. \A c \in Caller : Held(c)' <=> Held(c)
      BY <1>2 DEF Held
  <2>3. \A n \in DOMAIN cancelCh' : doing'[cancelCh'[n].call] = "returned"
      BY <1>2, InvParts DEF AnswersComing
  <2> QED
      BY <1>2, <2>1, <2>2, <2>3, AnswersKept, InvParts
<1> QED
    BY <1>5, <1>6, <1>7, <1>8 DEF IInv

\* No submission is parked in an empty channel.
LEMMA EmptyHolds == Range(<<>>) = {} /\ Distinct(<<>>)
<1>1. DOMAIN <<>> = {}
    BY SMTT(30)
<1> QED
    BY <1>1 DEF Range, Distinct

\* handleComplete: every active waiter of the batch is served, the parked
\* submissions are replayed.
LEMMA HandleCompleteInv ==
  ASSUME TypeOK, IInv, NEW h \in Caller, HandleComplete(h)
  PROVE  IInv'
<1> DEFINE S == batch[h].items
           p == batch[h].part
<1>1. /\ h \in inflight /\ inflight' = inflight \ {h} /\ batch' = [batch EXCEPT ![h] = NoBatch]
      /\ MaybeRetire(p, Served(part[p], S), used[p])
      /\ todo' = blocked /\ blocked' = <<>> /\ pc = "select"
      /\ UNCHANGED <<item, req, doing, reply, cancelCh>>
    BY DEF HandleComplete, Retried, callVars, envVars
<1>2. PICK kind \in Responses(h) : Deliver(S, kind)
    BY DEF HandleComplete
<1>3. /\ S \in SUBSET Caller /\ p \in Part
      /\ S \subseteq part[p].active \ part[p].pending /\ part[p].pending \subseteq part[p].active
    BY <1>1, Typed, InvParts DEF BatchesDisjoint, WaitersAskedForIt
<1>4. /\ part'[p].active = part[p].active \ S /\ part'[p].pending = part[p].pending
      /\ \A q \in Part : q # p => part'[q] = part[q]
  <2>1. Served(part[p], S).active = part[p].active \ S /\ Served(part[p], S).pending = part[p].pending
      BY DEF Served
  <2>2. Served(part[p], S).pending \subseteq Served(part[p], S).active
      BY <1>3, <2>1
  <2> QED
      BY <1>1, <1>3, <2>1, <2>2, MaybeRetireKeeps
<1>5. /\ Range(todo) = {} /\ Range(todo') = Range(blocked) /\ Range(blocked') = {}
      /\ Distinct(todo)' /\ Distinct(blocked)'
  <2>1. todo = <<>>
      BY <1>1, LoopTypes
  <2>2. Range(<<>>) = {} /\ Distinct(<<>>)
      BY EmptyHolds
  <2>3. Distinct(blocked)
      BY InvParts DEF HeldOnce
  <2> QED
      BY <1>1, <2>1, <2>2, <2>3
<1> HIDE DEF S, p
<1>6. \A c \in Caller : Held(c)' <=> Held(c)
    BY <1>1, <1>5 DEF Held
<1>7. \A q \in Part : /\ part'[q].active \subseteq part[q].active
                      /\ part[q].active \ S \subseteq part'[q].active
                      /\ part'[q].pending \subseteq part[q].pending \cap part'[q].active
  <2>1. \A q \in Part : part[q].pending \subseteq part[q].active
      BY InvParts DEF WaitersAskedForIt
  <2> QED
      BY <1>3, <1>4, <2>1
<1>8. /\ \A c \in Caller : Held(c)' =>
           c \in awaiting' /\ reply'[c] = {} /\ \A i \in Caller : c \notin item'[i].waiters
      /\ WaitersAskedForIt' /\ WaitersCounted' /\ AnswersComing'
  <2>1. \A i \in S : \E q \in Part : i \in part[q].active
      BY <1>3
  <2> QED
      BY <1>1, <1>2, <1>3, <1>6, <1>7, <2>1, DeliverInv
<1>9. HeldOnce'
    BY <1>1, <1>5, <1>8, InvParts DEF HeldOnce
<1>10. BatchesDisjoint'
  <2>1. ASSUME NEW g \in inflight'
        PROVE  /\ g \in inflight /\ g # h /\ batch'[g] = batch[g]
               /\ g \in batch[g].items /\ batch[g].items \cap S = {} /\ batch[g].part \in Part
               /\ batch[g].items \subseteq part[batch[g].part].active \ part[batch[g].part].pending
    <3>1. g \in inflight /\ g # h
        BY <1>1
    <3>2. batch'[g] = batch[g]
        BY <1>1, <3>1, QueueTypes
    <3> QED
        BY <1>1, <3>1, <3>2, Typed, InvParts DEF BatchesDisjoint, S
  <2>2. ASSUME NEW g \in inflight'
        PROVE  batch[g].items \subseteq part'[batch[g].part].active \ part'[batch[g].part].pending
    <3>1. CASE batch[g].part = p
        BY <1>4, <2>1, <3>1
    <3>2. CASE batch[g].part # p
        BY <1>4, <2>1, <3>2
    <3> QED
        BY <3>1, <3>2
  <2>3. \A f, g \in inflight' : f # g => batch[f].items \cap batch[g].items = {}
      BY <2>1, InvParts DEF BatchesDisjoint
  <2> QED
      BY <2>1, <2>2, <2>3 DEF BatchesDisjoint
<1> QED
    BY <1>8, <1>9, <1>10 DEF IInv

\* handleEngineCancel: every active waiter is served; no item leaves its place.
LEMMA HandleEngineCancelInv ==
  ASSUME TypeOK, IInv, HandleEngineCancel
  PROVE  IInv'
<1> DEFINE live == UNION {part[p].active : p \in partitions}
           kind == [i \in live |-> "closed"]
<1>1. /\ Deliver(live, kind) /\ batch' = CancelContexts(inflight)
      /\ UNCHANGED <<part, item, req, doing, reply, cancelCh, todo, blocked, inflight>>
    BY DEF HandleEngineCancel, queueVars, callVars, envVars
<1>2. live \in SUBSET Caller /\ \A i \in live : \E p \in Part : i \in part[p].active
  <2>1. partitions \subseteq Part
      BY QueueTypes
  <2> QED
      BY <2>1, Typed
<1> HIDE DEF live, kind
<1>3. \A c \in Caller : Held(c)' <=> Held(c)
    BY <1>1 DEF Held
<1>4. \A q \in Part : /\ part'[q].active \subseteq part[q].active
                      /\ part[q].active \ live \subseteq part'[q].active
                      /\ part'[q].pending \subseteq part[q].pending \cap part'[q].active
    BY <1>1, InvParts DEF WaitersAskedForIt
<1>5. /\ \A c \in Caller : Held(c)' =>
           c \in awaiting' /\ reply'[c] = {} /\ \A i \in Caller : c \notin item'[i].waiters
      /\ WaitersAskedForIt' /\ WaitersCounted' /\ AnswersComing'
    BY <1>1, <1>2, <1>3, <1>4, DeliverInv
<1>6. HeldOnce'
    BY <1>1, <1>5, SameChannels, InvParts
<1>7. BatchesDisjoint'
  <2>1. \A h \in inflight : batch'[h].items = batch[h].items /\ batch'[h].part = batch[h].part
      BY <1>1, CancelBatchesType, Typed
  <2> QED
      BY <1>1, <2>1, InvParts DEF BatchesDisjoint
<1> QED
    BY <1>5, <1>6, <1>7 DEF IInv
--------------------------------------------------------------------------------
(* Cancellations. *)

\* The elements of a tail are those after the first.
LEMMA TailElements ==
  ASSUME NEW S, NEW s \in Seq(S), s # <<>>, NEW n \in DOMAIN Tail(s)
  PROVE  n + 1 \in DOMAIN s /\ Tail(s)[n] = s[n + 1]
  BY SMTT(30)

\* The message at the head of cancelCh comes from a call that has returned, and
\* so do the others.
LEMMA CancelHead ==
  ASSUME TypeOK, IInv, HandleCancel
  PROVE  /\ Head(cancelCh).call \in Caller /\ doing[Head(cancelCh).call] = "returned"
         /\ \A n \in DOMAIN cancelCh' : doing'[cancelCh'[n].call] = "returned"
<1> DEFINE M == [call : Caller, blocked : BOOLEAN]
<1>1. cancelCh \in Seq(M) /\ cancelCh # <<>> /\ cancelCh' = Tail(cancelCh) /\ doing' = doing
    BY CallTypes DEF HandleCancel
<1>2. \A n \in DOMAIN cancelCh : cancelCh[n].call \in Caller /\ doing[cancelCh[n].call] = "returned"
    BY SequencesTyped, InvParts DEF AnswersComing
<1> HIDE DEF M
<1>3. 1 \in DOMAIN cancelCh /\ Head(cancelCh) = cancelCh[1]
    BY SMTT(30), <1>1
<1>4. \A n \in DOMAIN Tail(cancelCh) : n + 1 \in DOMAIN cancelCh /\ Tail(cancelCh)[n] = cancelCh[n + 1]
    BY <1>1, TailElements
<1> QED
    BY <1>1, <1>2, <1>3, <1>4

\* handleCancel for a parked submission: its caller has returned, so it may be
\* forgotten.
LEMMA CancelBlockedInv ==
  ASSUME TypeOK, IInv, HandleCancel, CancelBlocked(Head(cancelCh))
  PROVE  IInv'
<1> DEFINE c == Head(cancelCh).call
<1>1. UNCHANGED <<part, item, req, inflight, batch, todo, doing, reply, awaiting, result>>
    BY DEF HandleCancel, CancelBlocked, envVars
<1>2. c \in Caller /\ doing[c] = "returned"
    BY CancelHead
<1>3. \/ blocked' = blocked
      \/ \E n \in DOMAIN blocked :
           /\ blocked[n] = c
           /\ blocked' = SubSeq(blocked, 1, n - 1) \o SubSeq(blocked, n + 1, Len(blocked))
    BY DEF CancelBlocked
<1>4. blocked \in Seq(Caller) /\ DOMAIN blocked = 1..Len(blocked) /\ Distinct(blocked)
  <2>1. blocked \in Seq(Caller)
      BY SequencesTyped
  <2>2. DOMAIN blocked = 1..Len(blocked)
      BY SMTT(30), <2>1
  <2>3. Distinct(blocked)
      BY InvParts DEF HeldOnce
  <2> QED
      BY <2>1, <2>2, <2>3
<1> HIDE DEF c
<1>5. Distinct(blocked') /\ (Range(blocked') = Range(blocked) \/ Range(blocked') = Range(blocked) \ {c})
    BY <1>3, <1>4, CutRange
<1>6. \A d \in Caller : /\ Held(d)' => Held(d)
                        /\ d # c => (Held(d)' <=> Held(d))
    BY <1>1, <1>5 DEF Held
<1>7. HeldOnce'
  <2>1. Distinct(todo') /\ Range(todo') = Range(todo)
      BY <1>1, InvParts DEF HeldOnce, Distinct
  <2> QED
      BY <1>1, <1>5, <1>6, <2>1, InvParts DEF HeldOnce
<1>8. WaitersAskedForIt' /\ BatchesDisjoint'
  <2>1. WaitersAskedForIt'
      BY <1>1, PartsKept, InvParts
  <2>2. BatchesDisjoint'
      BY <1>1, InvParts DEF BatchesDisjoint
  <2> QED
      BY <2>1, <2>2
<1>9. WaitersCounted'
    BY <1>1, InvParts DEF WaitersCounted
<1>10. AnswersComing'
  <2>1. \A d \in Caller : FoundOn(d)' = FoundOn(d)
      BY <1>1 DEF FoundOn
  <2> QED
      BY <1>1, <1>2, <1>6, <2>1, AnswersKept, CancelHead, InvParts
<1> QED
    BY <1>7, <1>8, <1>9, <1>10 DEF IInv

\* handleCancel when the waiter is on no item.
LEMMA CancelUnknownInv ==
  ASSUME TypeOK, IInv, HandleCancel, CancelUnknown(Head(cancelCh))
  PROVE  IInv'
<1>1. UNCHANGED <<part, item, req, inflight, batch, todo, blocked, doing, reply, awaiting, result>>
    BY DEF HandleCancel, CancelUnknown, envVars
<1>2. HeldOnce'
    BY <1>1, InvParts DEF HeldOnce, Held, Distinct
<1>3. WaitersAskedForIt' /\ BatchesDisjoint'
  <2>1. WaitersAskedForIt'
      BY <1>1, PartsKept, InvParts
  <2>2. BatchesDisjoint'
      BY <1>1, InvParts DEF BatchesDisjoint
  <2> QED
      BY <2>1, <2>2
<1>4. WaitersCounted'
    BY <1>1, InvParts DEF WaitersCounted
<1>5. AnswersComing'
  <2>1. \A d \in Caller : FoundOn(d)' = FoundOn(d) /\ (Held(d)' <=> Held(d))
      BY <1>1 DEF FoundOn, Held
  <2> QED
      BY <1>1, <2>1, AnswersKept, CancelHead, InvParts
<1> QED
    BY <1>2, <1>3, <1>4, <1>5 DEF IInv

\* An item that counts one waiter has no second one that is active.
LEMMA NotTheLast ==
  ASSUME TypeOK, IInv, NEW p \in Part, NEW i \in part[p].active,
         NEW c \in item[i].waiters \cap awaiting, NEW d \in item[i].waiters \cap awaiting, c # d
  PROVE  ~LastWaiter(i)
<1> DEFINE W == item[i].waiters \cap awaiting
<1>1. i \in Caller /\ item[i].activeWaiters \in Int /\ W \subseteq Caller
    BY Typed
<1>2. Cardinality(W) <= item[i].activeWaiters
    BY InvParts DEF WaitersCounted
<1>3. IsFiniteSet(W) /\ {c, d} \subseteq W
    BY <1>1, CallAssumption, FS_Subset
<1> HIDE DEF W
<1>4. Cardinality({c, d}) = 2
  <2>1. IsFiniteSet({c}) /\ Cardinality({c}) = 1
      BY FS_Singleton
  <2>2. {c, d} = {c} \cup {d} /\ d \notin {c}
      OBVIOUS
  <2>3. Cardinality({c} \cup {d}) = Cardinality({c}) + 1
      BY <2>1, <2>2, FS_AddElement
  <2> QED
      BY SMTT(30), <2>1, <2>2, <2>3
<1>5. Cardinality({c, d}) <= Cardinality(W) /\ Cardinality(W) \in Nat
    BY <1>3, FS_Subset, FS_CardinalityType
<1> QED
    BY SMTT(30), <1>1, <1>2, <1>4, <1>5 DEF LastWaiter

\* A finite set without one of its elements has one element less.
LEMMA OneLess ==
  ASSUME NEW W, IsFiniteSet(W), NEW c
  PROVE  /\ Cardinality(W \ {c}) <= Cardinality(W)
         /\ c \in W => Cardinality(W \ {c}) = Cardinality(W) - 1
         /\ Cardinality(W \ {c}) \in Nat
<1>1. /\ Cardinality(W \ {c}) = IF c \in W THEN Cardinality(W) - 1 ELSE Cardinality(W)
      /\ IsFiniteSet(W \ {c})
    BY FS_RemoveElement
<1>2. Cardinality(W) \in Nat /\ Cardinality(W \ {c}) \in Nat
    BY <1>1, FS_CardinalityType
<1> QED
    BY SMTT(30), <1>1, <1>2

\* Counting down with the waiter that leaves.
LEMMA CountDown ==
  ASSUME TypeOK, IInv, NEW c \in awaiting, NEW i \in Caller, c \in item[i].waiters,
         awaiting' = awaiting \ {c},
         \A j \in Caller : item'[j].waiters = item[j].waiters,
         \A j \in Caller : j # i => item'[j] = item[j],
         item'[i].activeWaiters = item[i].activeWaiters - 1,
         \A q \in Part : part'[q].active \subseteq part[q].active
  PROVE  WaitersCounted'
<1> SUFFICES ASSUME NEW p \in Part, NEW j \in part'[p].active
             PROVE  /\ Cardinality(item'[j].waiters \cap awaiting') <= item'[j].activeWaiters
                    /\ \A k \in part'[p].active :
                         item'[j].waiters \cap item'[k].waiters \cap awaiting' # {} => j = k
    BY DEF WaitersCounted
<1> DEFINE W == item[j].waiters \cap awaiting
<1>1. j \in part[p].active /\ j \in Caller /\ item[j].activeWaiters \in Int /\ W \subseteq Caller
    BY Typed
<1>2. Cardinality(W) <= item[j].activeWaiters
    BY <1>1, InvParts DEF WaitersCounted
<1>3. IsFiniteSet(W) /\ Cardinality(W) \in Nat
    BY <1>1, CallAssumption, FS_Subset, FS_CardinalityType
<1>4. item'[j].waiters \cap awaiting' = W \ {c}
    BY <1>1
<1>5. /\ Cardinality(W \ {c}) <= Cardinality(W)
      /\ c \in W => Cardinality(W \ {c}) = Cardinality(W) - 1
      /\ Cardinality(W \ {c}) \in Nat
    BY <1>3, OneLess
<1>6. j = i => c \in W
    OBVIOUS
<1> HIDE DEF W
<1>7. Cardinality(item'[j].waiters \cap awaiting') <= item'[j].activeWaiters
  <2>1. CASE j = i
    <3>1. Cardinality(W \ {c}) <= item[i].activeWaiters - 1
        BY SMTT(30), <1>1, <1>2, <1>3, <1>5, <1>6, <2>1
    <3> QED
        BY <1>4, <2>1, <3>1
  <2>2. CASE j # i
    <3>1. Cardinality(W \ {c}) <= item[j].activeWaiters
        BY SMTT(30), <1>1, <1>2, <1>3, <1>5
    <3> QED
        BY <1>1, <1>4, <2>2, <3>1
  <2> QED
      BY <2>1, <2>2
<1>8. ASSUME NEW k \in part'[p].active, item'[j].waiters \cap item'[k].waiters \cap awaiting' # {}
      PROVE  j = k
  <2>1. k \in part[p].active /\ k \in Caller
      BY Typed
  <2>2. item[j].waiters \cap item[k].waiters \cap awaiting # {}
      BY <1>1, <1>8, <2>1
  <2> QED
      BY <1>1, <2>1, <2>2, InvParts DEF WaitersCounted
<1> QED
    BY <1>7, <1>8

\* A waiter leaves the item it is found on, and takes the item along only if
\* nobody else waits for it.
LEMMA CancelWaiterInv ==
  ASSUME TypeOK, IInv, HandleCancel, CancelWaiter(Head(cancelCh))
  PROVE  IInv'
<1> DEFINE c == Head(cancelCh).call
           p == req[c].part
           np == [part[p] EXCEPT !.waiters = @ - 1]
<1>1. /\ UNCHANGED <<req, inflight, todo, blocked, doing, reply, result>>
      /\ awaiting' = awaiting \ {c}
    BY DEF HandleCancel, CancelWaiter, envVars
<1>2. c \in Caller /\ doing[c] = "returned" /\ p \in Part
    BY CancelHead, Typed
<1>3. PICK i \in FoundOn(c) :
        /\ item' = [item EXCEPT ![i].activeWaiters = @ - 1]
        /\ IF LastWaiter(i) /\ BatchOf(i) = {}
           THEN MaybeRetire(p, RemovePending(np, i), LessUsed(p, {i}))
           ELSE part' = [part EXCEPT ![p] = np] /\ UNCHANGED <<partitions, used>>
        /\ IF LastWaiter(i) THEN BatchLosesWaiter(i) ELSE UNCHANGED <<batch, counted>>
    BY DEF CancelWaiter
<1>4. i \in part[p].active /\ i \in Caller /\ c \in item[i].waiters /\ c \in awaiting
    BY <1>2, <1>3, Typed DEF FoundOn
<1>5. /\ \A j \in Caller : item'[j].waiters = item[j].waiters
      /\ \A j \in Caller : j # i => item'[j] = item[j]
      /\ item'[i].activeWaiters = item[i].activeWaiters - 1
  <2>1. item \in [Caller -> ItemState]
      BY QueueTypes
  <2>2. i \in Caller /\ item' = [item EXCEPT ![i].activeWaiters = @ - 1]
      BY <1>3, <1>4
  <2> QED
      BY <2>1, <2>2 DEF ItemState
<1>6. np.pending = part[p].pending /\ np.active = part[p].active
  <2>1. part[p] \in PartitionState
      BY <1>2, QueueTypes
  <2> QED
      BY <2>1 DEF PartitionState
<1>7. part[p].pending \subseteq part[p].active
    BY <1>2, InvParts DEF WaitersAskedForIt
<1> HIDE DEF c, p, np
<1>8. /\ \A q \in Part : q # p => part'[q] = part[q]
      /\ \/ part'[p].active = part[p].active /\ part'[p].pending = part[p].pending
         \/ /\ LastWaiter(i) /\ BatchOf(i) = {}
            /\ part'[p].active = part[p].active \ {i} /\ part'[p].pending = part[p].pending \ {i}
  <2>1. CASE LastWaiter(i) /\ BatchOf(i) = {}
    <3>1. /\ RemovePending(np, i).active = part[p].active \ {i}
          /\ RemovePending(np, i).pending = part[p].pending \ {i}
        BY <1>6 DEF RemovePending
    <3>2. RemovePending(np, i).pending \subseteq RemovePending(np, i).active
        BY <1>7, <3>1
    <3>3. MaybeRetire(p, RemovePending(np, i), LessUsed(p, {i}))
        BY <1>3, <2>1
    <3> QED
        BY <1>2, <2>1, <3>1, <3>2, <3>3, MaybeRetireKeeps
  <2>2. CASE ~(LastWaiter(i) /\ BatchOf(i) = {})
      BY <1>2, <1>3, <1>6, <2>2, QueueTypes
  <2> QED
      BY <2>1, <2>2
<1>9. \A q \in Part : /\ part'[q].active \subseteq part[q].active
                      /\ part[q].active \ {i} \subseteq part'[q].active
                      /\ part'[q].pending \subseteq part[q].pending \cap part'[q].active
  <2>1. \A q \in Part : part[q].pending \subseteq part[q].active
      BY InvParts DEF WaitersAskedForIt
  <2> QED
      BY <1>2, <1>8, <2>1
<1>10. HeldOnce'
  <2>1. \A d \in Caller : Held(d)' <=> Held(d)
      BY <1>1 DEF Held
  <2>2. ~Held(c)
      BY <1>2, <1>4, InvParts DEF HeldOnce
  <2> QED
      BY <1>1, <1>5, <2>1, <2>2, SameChannels, InvParts DEF HeldOnce
<1>11. WaitersAskedForIt'
    BY <1>1, <1>5, <1>9, Typed, PartsShrink, InvParts
<1>12. BatchesDisjoint'
  <2>1. \A h \in inflight : batch'[h].items = batch[h].items /\ batch'[h].part = batch[h].part
    <3>1. UNCHANGED batch \/ \E H \in SUBSET inflight : batch' = CancelContexts(H)
        BY <1>3 DEF BatchLosesWaiter, BatchOf
    <3> QED
        BY <3>1, CancelBatchesType, Typed
  <2>2. ASSUME NEW h \in inflight
        PROVE  batch[h].items \subseteq part'[batch[h].part].active \ part'[batch[h].part].pending
    <3>1. /\ batch[h].items \subseteq part[batch[h].part].active \ part[batch[h].part].pending
          /\ batch[h].part \in Part
        BY Typed, InvParts DEF BatchesDisjoint
    <3>2. CASE i \in batch[h].items
      <4>1. BatchOf(i) # {}
          BY <3>2 DEF BatchOf
      <4> QED
          BY <1>2, <1>8, <3>1, <4>1
    <3>3. CASE i \notin batch[h].items
        BY <1>9, <3>1, <3>3
    <3> QED
        BY <3>2, <3>3
  <2> QED
      BY <1>1, <2>1, <2>2, InvParts DEF BatchesDisjoint
<1>13. WaitersCounted'
    BY <1>1, <1>2, <1>4, <1>5, <1>9, CountDown
<1>14. AnswersComing'
  <2>1. ASSUME NEW d \in Caller, d # c, FoundOn(d) # {} PROVE FoundOn(d)' # {}
    <3>1. PICK j \in part[req[d].part].active : d \in item[j].waiters /\ d \in awaiting
        BY <2>1 DEF FoundOn
    <3>2. req[d].part \in Part /\ j \in Caller
        BY <3>1, Typed
    <3>3. j \in part'[req[d].part].active
      <4>1. CASE j # i
          BY <1>9, <3>1, <3>2, <4>1
      <4>2. CASE j = i
        <5>1. req[d].part = p
          <6>1. \A e \in item[i].waiters : req[e].part = p
            <7>1. WaitersAskedForIt
                BY InvParts
            <7> QED
                BY SMTT(30), <1>2, <1>4, <7>1, AskedFor
          <6> QED
              BY <3>1, <4>2, <6>1
        <5>2. ~LastWaiter(i)
            BY <1>2, <1>4, <2>1, <3>1, <4>2, NotTheLast
        <5> QED
            BY <1>8, <3>1, <5>1, <5>2
      <4> QED
          BY <4>1, <4>2
    <3> QED
        BY <1>1, <1>5, <2>1, <3>1, <3>2, <3>3 DEF FoundOn
  <2>2. \A d \in Caller : Held(d)' <=> Held(d)
      BY <1>1 DEF Held
  <2>3. \A d \in Caller : doing'[d] = "submitted" /\ reply'[d] = {} => Held(d)'
      BY <1>1, <2>2, InvParts DEF AnswersComing
  <2>4. ASSUME NEW d \in Caller,
               doing'[d] = "admitted" \/ (doing'[d] = "submitted" /\ "admitted" \in reply'[d])
        PROVE  result'[d] # {} \/ FoundOn(d)' # {}
    <3>1. d # c
        BY <1>1, <1>2, <2>4
    <3>2. result[d] # {} \/ FoundOn(d) # {}
        BY <1>1, <2>4, InvParts DEF AnswersComing
    <3> QED
        BY <1>1, <2>1, <3>1, <3>2
  <2> QED
      BY <1>1, <2>3, <2>4, CancelHead, ResultsKept, InvParts DEF AnswersComing
<1> QED
    BY <1>10, <1>11, <1>12, <1>13, <1>14 DEF IInv

\* handleCancel keeps the invariant in each of its branches.
LEMMA HandleCancelInv ==
  ASSUME TypeOK, IInv, HandleCancel
  PROVE  IInv'
  BY CancelBlockedInv, CancelUnknownInv, CancelWaiterInv DEF HandleCancel
================================================================================
