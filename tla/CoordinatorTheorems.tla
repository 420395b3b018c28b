-------------------------- MODULE CoordinatorTheorems --------------------------
(* What holds of the coordinator for every value of its constants. *)
EXTENDS CoordinatorProperties, CoordinatorAccounts

\* Most leaves are first-order and go to Zenon; the others name SMT.
USE ZenonT(30)

(* The invariant, and what it is for. *)

\* Every step keeps the invariant.
LEMMA InvNext == TypeOK /\ IInv /\ [Next]_vars => IInv'
<1> SUFFICES ASSUME TypeOK, IInv, [Next]_vars PROVE IInv'
    OBVIOUS
<1>1. CASE EndSchedule \/ Settle \/ TimerFires \/ (\E k \in Ctl : HandleControl(k))
  <2>1. UNCHANGED <<part, item, req, inflight, batch, todo, blocked, doing, reply,
                    awaiting, result, cancelCh>>
      BY <1>1 DEF EndSchedule, Settle, TimerFires, HandleControl, queueVars, batchVars, callVars,
                  deliveryVars, envVars
  <2> QED
      BY <2>1, Untouched
<1>2. CASE Turn
    BY <1>1, <1>2, HandleInv, DispatchBatchInv, FailOversizedInv, NextPartitionInv DEF Turn
<1>3. CASE Event
    BY <1>1, <1>3, HandleCancelInv, HandleEngineCancelInv, SubmitInv, HandleCompleteInv DEF Event
<1>4. CASE \E c \in Caller : CallStep(c) \/ ContextEnds(c)
    BY <1>4, CallStepInv
<1>5. CASE \/ \E k \in Ctl : ControlReturns(k) \/ ControlExpires(k)
           \/ EngineCancel \/ ApplyAdaptiveSettings \/ ClearAdaptiveSettings \/ Tick
           \/ UNCHANGED vars
  <2>1. UNCHANGED <<part, item, req, inflight, batch, todo, blocked, doing, reply,
                    awaiting, result, cancelCh>>
      BY <1>5 DEF ControlReturns, ControlExpires, EngineCancel, ApplyAdaptiveSettings,
                  ClearAdaptiveSettings, Tick, vars, loopVars, queueVars, batchVars, callVars,
                  deliveryVars, envVars
  <2> QED
      BY <2>1, Untouched
<1> QED
    BY <1>2, <1>3, <1>4, <1>5 DEF Next, Finished

\* IInv holds in every reachable state.
THEOREM Invariant == Spec => []IInv
<1>1. TypeOK /\ IInv /\ [Next]_vars => TypeOK' /\ IInv'
    BY InvNext, TypeNext
<1> QED
    BY <1>1, InvInit, TypeInit, PTL DEF Spec

\* No caller that waits in Do is forgotten: handleSubmit, retryBlocked,
\* handleCancel, dispatchBatch, distribute, failBatch and handleEngineCancel
\* between them always leave it a reply, a result, or a place to wait.
THEOREM NobodyForgotten == Spec => []NoCallerLost
<1>1. IInv => NoCallerLost
    BY InvParts DEF AnswersComing, NoCallerLost, Held
<1> QED
    BY <1>1, Invariant, PTL

\* No batch mixes partitions: the queue, the items and the waiters of a
\* partition all asked for it.
THEOREM Isolation == Spec => []PartitionsIsolated
<1>1. TypeOK /\ IInv => PartitionsIsolated
  <2> SUFFICES ASSUME TypeOK, IInv PROVE PartitionsIsolated
      OBVIOUS
  <2>1. \A p \in Part : \A i \in part[p].active : req[i].part = p
      BY InvParts DEF WaitersAskedForIt
  <2>2. ASSUME NEW h \in inflight, NEW i \in batch[h].items, NEW c \in item[i].waiters
        PROVE  req[c].part = batch[h].part
    <3>1. batch[h].part \in Part /\ i \in part[batch[h].part].active
        BY Typed, InvParts DEF BatchesDisjoint
    <3> QED
      <4>1. WaitersAskedForIt
          BY InvParts
      <4> QED
          BY SMTT(30), <3>1, <4>1, AskedFor
  <2> QED
      BY <2>1, <2>2 DEF PartitionsIsolated
<1> QED
    BY <1>1, Invariant, TypeCorrect, PTL
--------------------------------------------------------------------------------
(* What rests on the invariant but is not part of it. *)

\* Only the enqueue branch of handleSubmit adds an item to a partition's index.
LEMMA OnlyEnqueueAdds ==
  ASSUME TypeOK, IInv, [Next]_vars
  PROVE  \/ \A p \in Part : part'[p].active \subseteq part[p].active
         \/ \E c \in Caller : SubmitEnqueue(c) /\ UNCHANGED req
<1> USE DEF queueVars, loopVars, batchVars, callVars, deliveryVars, envVars
<1>1. CASE part' = part
    BY <1>1
<1>2. CASE Handle
  <2>1. PICK c \in Caller : HandleSubmit(c) /\ UNCHANGED req
      BY <1>2, HandleHead
  <2>2. CASE SubmitJoin(c)
    <3>1. \A p \in Part : part'[p].active = part[p].active
        BY <2>2, JoinMovesNothing
    <3> QED
        BY <3>1
  <2>3. CASE SubmitEnqueue(c)
      BY <2>1, <2>3
  <2> QED
      BY <1>1, <2>1, <2>2, <2>3 DEF HandleSubmit, SubmitWhileClosing, SubmitNoPartition, SubmitOverLimit
<1>3. CASE \E S \in SUBSET Caller : DispatchBatch(S) \/ FailOversized
  <2>1. PICK S \in SUBSET Caller : TakeFromQueue(cursor, S) /\ cursor \in Part
      BY <1>3 DEF DispatchBatch, FailOversized, Scheduling
  <2>2. \A p \in Part : part'[p].active \subseteq part[p].active
      BY <2>1, QueueTypes DEF TakeFromQueue, Taken
  <2> QED
      BY <2>2
<1>4. CASE NextPartition
  <2>1. cursor \in Part /\ MaybeRetire(cursor, part[cursor], used[cursor])
        /\ part[cursor].pending \subseteq part[cursor].active
      BY <1>4, InvParts DEF NextPartition, Scheduling, WaitersAskedForIt
  <2> QED
      BY <2>1, MaybeRetireKeeps
<1>5. ASSUME NEW h \in Caller, HandleComplete(h)
      PROVE  \A p \in Part : part'[p].active \subseteq part[p].active
  <2> DEFINE q == batch[h].part
             np == Served(part[q], batch[h].items)
  <2>1. h \in inflight /\ MaybeRetire(q, np, used[q])
      BY <1>5 DEF HandleComplete
  <2>2. /\ q \in Part /\ part[q].pending \subseteq part[q].active
        /\ batch[h].items \cap part[q].pending = {}
      BY <2>1, Typed, InvParts DEF WaitersAskedForIt, BatchesDisjoint
  <2>3. np.pending \subseteq np.active /\ np.active \subseteq part[q].active
      BY <2>2 DEF Served
  <2> HIDE DEF np
  <2> QED
      BY <2>1, <2>2, <2>3, MaybeRetireKeeps
<1>6. CASE HandleCancel
  <2>1. CASE CancelWaiter(Head(cancelCh))
    <3>1. PICK c \in Caller : c = Head(cancelCh).call
        BY <1>6, CancelHead
    <3> DEFINE q == req[c].part
               np == [part[q] EXCEPT !.waiters = @ - 1]
    <3>2. q \in Part /\ part[q].pending \subseteq part[q].active
        BY Typed, InvParts DEF WaitersAskedForIt
    <3>3. np.pending = part[q].pending /\ np.active = part[q].active
      <4>1. part[q] \in PartitionState
          BY <3>2, QueueTypes
      <4> QED
          BY <4>1 DEF PartitionState
    <3>4. PICK i \in FoundOn(c) :
            \/ MaybeRetire(q, RemovePending(np, i), LessUsed(q, {i}))
            \/ part' = [part EXCEPT ![q] = np]
        BY <2>1, <3>1 DEF CancelWaiter
    <3>5. CASE MaybeRetire(q, RemovePending(np, i), LessUsed(q, {i}))
      <4> DEFINE rp == RemovePending(np, i)
      <4>1. rp.pending \subseteq rp.active /\ rp.active \subseteq part[q].active
          BY <3>2, <3>3 DEF RemovePending
      <4>2. MaybeRetire(q, rp, LessUsed(q, {i}))
          BY <3>5
      <4> HIDE DEF rp
      <4> QED
          BY <3>2, <4>1, <4>2, MaybeRetireKeeps
    <3> HIDE DEF np
    <3>6. CASE part' = [part EXCEPT ![q] = np]
        BY <3>2, <3>3, <3>6, QueueTypes
    <3> QED
        BY <3>4, <3>5, <3>6
  <2> QED
      BY <1>1, <1>6, <2>1 DEF HandleCancel, CancelBlocked, CancelUnknown
<1>7. CASE Turn
  <2>1. CASE EndSchedule \/ Settle
      BY <1>1, <2>1 DEF EndSchedule, Settle
  <2>2. ASSUME NEW S \in SUBSET part[cursor].pending, Scheduling
        PROVE  S \in SUBSET Caller
      BY <2>2, Typed DEF Scheduling
  <2>3. CASE (Scheduling /\ \E S \in SUBSET part[cursor].pending : DispatchBatch(S)) \/ FailOversized
    <3>1. \E S \in SUBSET Caller : DispatchBatch(S) \/ FailOversized
        BY <2>2, <2>3
    <3> QED
        BY <1>3, <3>1
  <2> QED
      BY <1>2, <1>4, <1>7, <2>1, <2>3 DEF Turn
<1>8. CASE Event
  <2>1. CASE TimerFires \/ HandleEngineCancel \/ (\E c \in Caller : Submit(c)) \/ (\E k \in Ctl : HandleControl(k))
      BY <1>1, <2>1 DEF TimerFires, HandleEngineCancel, Submit, HandleControl
  <2> QED
      BY <1>5, <1>6, <1>8, <2>1 DEF Event
<1>9. CASE \E c \in Caller : CallStep(c) \/ ContextEnds(c)
    BY <1>1, <1>9 DEF CallStep, NotSubmitted, AwaitReply, AwaitResult, Abandon, CoordinatorGone,
                      ContextEnds, Return, otherThanCalls
<1>10. CASE \/ \E k \in Ctl : ControlReturns(k) \/ ControlExpires(k)
            \/ EngineCancel \/ ApplyAdaptiveSettings \/ ClearAdaptiveSettings \/ Tick
            \/ UNCHANGED vars
    BY <1>1, <1>10 DEF ControlReturns, ControlExpires, EngineCancel, ApplyAdaptiveSettings,
                       ClearAdaptiveSettings, Tick, vars
<1> QED
    BY <1>7, <1>8, <1>9, <1>10 DEF Next, Finished

\* What a call asks for never changes.
LEMMA RequestsFixed == [Next]_vars => req' = req
<1> SUFFICES ASSUME [Next]_vars PROVE req' = req
    OBVIOUS
<1> USE DEF batchVars, callVars, envVars
<1>1. CASE Turn
  <2>1. CASE \E S \in SUBSET part[cursor].pending : DispatchBatch(S)
      BY <2>1 DEF DispatchBatch
  <2> QED
      BY <1>1, <2>1 DEF Turn, Handle, FailOversized, NextPartition, EndSchedule, Settle
<1>2. CASE Event
    BY <1>2 DEF Event, HandleCancel, TimerFires, HandleEngineCancel, Submit, HandleComplete, HandleControl
<1>3. CASE \E c \in Caller : CallStep(c) \/ ContextEnds(c)
    BY <1>3 DEF CallStep, NotSubmitted, AwaitReply, AwaitResult, Abandon, CoordinatorGone, ContextEnds,
                otherThanCalls
<1>4. CASE \/ \E k \in Ctl : ControlReturns(k) \/ ControlExpires(k)
           \/ EngineCancel \/ ApplyAdaptiveSettings \/ ClearAdaptiveSettings \/ Tick
           \/ UNCHANGED vars
    BY <1>4 DEF ControlReturns, ControlExpires, EngineCancel, ApplyAdaptiveSettings,
                ClearAdaptiveSettings, Tick, vars
<1> QED
    BY <1>1, <1>2, <1>3, <1>4 DEF Next, Finished

\* Only an adaptive controller changes the effective settings.
LEMMA SettingsFixed ==
  ASSUME [Next]_vars, ~(ApplyAdaptiveSettings \/ ClearAdaptiveSettings)
  PROVE  dyn' = dyn
<1> USE DEF envVars
<1>1. CASE Turn
  <2>1. CASE \E S \in SUBSET part[cursor].pending : DispatchBatch(S)
      BY <2>1 DEF DispatchBatch
  <2> QED
      BY <1>1, <2>1 DEF Turn, Handle, FailOversized, NextPartition, EndSchedule, Settle
<1>2. CASE Event
    BY <1>2 DEF Event, HandleCancel, TimerFires, HandleEngineCancel, Submit, HandleComplete, HandleControl
<1>3. CASE \E c \in Caller : CallStep(c) \/ ContextEnds(c)
    BY <1>3 DEF CallStep, NotSubmitted, AwaitReply, AwaitResult, Abandon, CoordinatorGone, ContextEnds,
                otherThanCalls
<1>4. CASE \/ \E k \in Ctl : ControlReturns(k) \/ ControlExpires(k)
           \/ EngineCancel \/ Tick \/ UNCHANGED vars
    BY <1>4 DEF ControlReturns, ControlExpires, EngineCancel, Tick, vars
<1> QED
    BY <1>1, <1>2, <1>3, <1>4 DEF Next, Finished

\* With deduplication, handleSubmit never queues a key that its partition
\* already holds, queued or in flight.
THEOREM Deduplication == Spec => []OneItemPerKey
<1>1. Init => OneItemPerKey
    BY NewPartitionIs DEF Init, OneItemPerKey
<1>2. TypeOK /\ IInv /\ OneItemPerKey /\ [Next]_vars => OneItemPerKey'
  <2> SUFFICES ASSUME TypeOK, IInv, OneItemPerKey, [Next]_vars, Dedup,
                      NEW p \in Part, NEW i \in part'[p].active, NEW j \in part'[p].active,
                      req'[i].key = req'[j].key
               PROVE  i = j
      BY DEF OneItemPerKey
  <2>1. req' = req
      BY RequestsFixed
  <2>2. CASE part'[p].active \subseteq part[p].active
      BY <2>1, <2>2 DEF OneItemPerKey
  <2>3. ASSUME NEW c \in Caller, SubmitEnqueue(c) PROVE i = j
    <3> DEFINE q == req[c].part
    <3>1. q \in Part /\ part'[q].active = part[q].active \cup {c}
          /\ \A o \in Part : o # q => part'[o] = part[o]
        BY <2>3, Typed, QueueTypes DEF SubmitEnqueue, Enqueued
    <3>2. \A k \in part[q].active : req[k].key # req[c].key
        BY <2>3 DEF SubmitEnqueue, Joinable
    <3> HIDE DEF q
    <3>3. CASE p = q
        BY <2>1, <3>1, <3>2, <3>3 DEF OneItemPerKey
    <3>4. CASE p # q
        BY <2>1, <3>1, <3>4 DEF OneItemPerKey
    <3> QED
        BY <3>3, <3>4
  <2> QED
      BY <2>2, <2>3, OnlyEnqueueAdds
<1> QED
    BY <1>1, <1>2, Invariant, TypeCorrect, PTL DEF Spec

\* handleSubmit puts at most one answer in a channel, that of the call it handles.
LEMMA SubmitAnswers ==
  ASSUME NEW c \in Caller, HandleSubmit(c)
  PROVE  reply' = reply \/ \E x : reply' = [reply EXCEPT ![c] = @ \cup {x}]
BY DEF HandleSubmit, SubmitWhileClosing, SubmitNoPartition, SubmitOverLimit, SubmitJoin,
       SubmitEnqueue, ApplyOverflow, Reply

\* A submission is answered at most once.
LEMMA RepliedOnce ==
  ASSUME TypeOK, IInv, [Next]_vars, \A c \in Caller : \A r, s \in reply[c] : r = s
  PROVE  \A c \in Caller : \A r, s \in reply'[c] : r = s
<1>1. CASE reply' = reply
    BY <1>1
<1>2. CASE Handle
  <2>1. PICK c \in Caller : HandleSubmit(c) /\ reply[c] = {}
      BY <1>2, HandleHead
  <2>2. reply' = reply \/ \E x : reply' = [reply EXCEPT ![c] = @ \cup {x}]
      BY <2>1, SubmitAnswers
  <2>3. ASSUME NEW x, reply' = [reply EXCEPT ![c] = @ \cup {x}]
        PROVE  \A d \in Caller : \A r, s \in reply'[d] : r = s
    <3>1. reply'[c] = {x} /\ \A d \in Caller : d # c => reply'[d] = reply[d]
        BY <2>1, <2>3, CallTypes
    <3>2. \A r, s \in reply'[c] : r = s
        BY <3>1
    <3> QED
        BY <3>1, <3>2
  <2>4. CASE \E x : reply' = [reply EXCEPT ![c] = @ \cup {x}]
      BY <2>3, <2>4
  <2> QED
      BY <1>1, <2>2, <2>4
<1>3. ASSUME NEW c \in Caller, AwaitReply(c)
      PROVE  \A d \in Caller : reply'[d] \subseteq reply[d]
  <2>1. reply' = [reply EXCEPT ![c] = {}] /\ reply \in [Caller -> SUBSET (Refusals \cup {"admitted"})]
      BY <1>3, CallTypes DEF AwaitReply
  <2> QED
      BY <2>1
<1>4. CASE Turn
  <2>1. CASE \E S \in SUBSET part[cursor].pending : DispatchBatch(S)
      BY <1>1, <2>1 DEF DispatchBatch
  <2> QED
      BY <1>1, <1>2, <1>4, <2>1 DEF Turn, FailOversized, NextPartition, EndSchedule, Settle
<1>5. CASE Event
    BY <1>1, <1>5 DEF Event, HandleCancel, TimerFires, HandleEngineCancel, Submit, HandleComplete,
                      HandleControl
<1>6. CASE \E c \in Caller : CallStep(c) \/ ContextEnds(c)
    BY <1>1, <1>3, <1>6 DEF CallStep, NotSubmitted, AwaitResult, Abandon, CoordinatorGone, ContextEnds
<1>7. CASE \/ \E k \in Ctl : ControlReturns(k) \/ ControlExpires(k)
           \/ EngineCancel \/ ApplyAdaptiveSettings \/ ClearAdaptiveSettings \/ Tick
           \/ UNCHANGED vars
    BY <1>1, <1>7 DEF ControlReturns, ControlExpires, EngineCancel, ApplyAdaptiveSettings,
                      ClearAdaptiveSettings, Tick, vars
<1> QED
    BY <1>4, <1>5, <1>6, <1>7 DEF Next, Finished

\* A set whose elements are all equal has at most one.
LEMMA AtMostOne ==
  ASSUME NEW S, \A r, s \in S : r = s
  PROVE  Cardinality(S) <= 1
<1>1. CASE S = {}
    BY SMTT(30), <1>1, FS_EmptySet
<1>2. CASE S # {}
  <2>1. PICK r \in S : S = {r}
      BY <1>2
  <2> QED
      BY SMTT(30), <2>1, FS_Singleton
<1> QED
    BY <1>1, <1>2

\* deliver never finds a caller's channel full, and what it puts there is the
\* outcome of an item with the caller's key and partition.
THEOREM Answers == Spec => []OwnAnswer
<1> DEFINE Once == \A c \in Caller : \A r, s \in reply[c] : r = s
<1>1. Init => Once
    BY DEF Init
<1>2. TypeOK /\ IInv /\ Once /\ [Next]_vars => Once'
    BY RepliedOnce
<1>3. IInv /\ Once => OwnAnswer
    BY AtMostOne, InvParts DEF AnswersComing, OwnAnswer
<1> HIDE DEF Once
<1> QED
    BY <1>1, <1>2, <1>3, Invariant, TypeCorrect, PTL DEF Spec

\* Once closing is set, handleSubmit turns every submission away and nothing
\* resets it.
THEOREM NoAdmissionAfterClose == Spec => ClosingAdmitsNobody
<1> DEFINE Shut == closing => closing' /\ submitSeq' = submitSeq
                              /\ \A i \in Caller : item'[i].waiters = item[i].waiters
<1>1. TypeOK /\ [Next]_vars => [Shut]_vars
  <2> SUFFICES ASSUME TypeOK, Next, closing PROVE Shut
      BY DEF vars
  <2> USE DEF queueVars, loopVars, batchVars, callVars, deliveryVars, envVars
  <2>1. CASE UNCHANGED <<closing, submitSeq, item>>
      BY <2>1
  <2>2. CASE Handle
      BY <2>1, <2>2 DEF Handle, HandleSubmit, SubmitWhileClosing, SubmitNoPartition, SubmitJoin,
                        SubmitOverLimit, SubmitEnqueue, Accepting
  <2>3. CASE HandleCancel
    <3>1. closing' = closing /\ submitSeq' = submitSeq
        BY <2>3 DEF HandleCancel
    <3>2. item' = item \/ \E i \in Caller : item' = [item EXCEPT ![i].activeWaiters = @ - 1]
      <4>1. CASE CancelWaiter(Head(cancelCh))
        <5>1. PICK i \in FoundOn(Head(cancelCh).call) : item' = [item EXCEPT ![i].activeWaiters = @ - 1]
            BY <4>1 DEF CancelWaiter
        <5>2. CASE i \in Caller
            BY <5>1, <5>2
        <5>3. CASE i \notin Caller
          <6>1. item' = item
            <7>1. item \in [Caller -> ItemState]
                BY QueueTypes
            <7> QED
                BY <5>1, <5>3, <7>1
          <6> QED
              BY <6>1
        <5> QED
            BY <5>2, <5>3
      <4> QED
          BY <2>3, <4>1 DEF HandleCancel, CancelBlocked, CancelUnknown
    <3>3. ASSUME NEW i \in Caller, item' = [item EXCEPT ![i].activeWaiters = @ - 1]
          PROVE  \A j \in Caller : item'[j].waiters = item[j].waiters
      <4>1. item \in [Caller -> ItemState]
          BY QueueTypes
      <4>2. item'[i] = [item[i] EXCEPT !.activeWaiters = @ - 1] /\ item[i] \in ItemState
          BY <3>3, <4>1
      <4>3. \A j \in Caller : j # i => item'[j] = item[j]
          BY <3>3, <4>1
      <4>4. item'[i].waiters = item[i].waiters
          BY <4>2 DEF ItemState
      <4> QED
          BY <4>3, <4>4
    <3> QED
        BY <3>1, <3>2, <3>3
  <2>4. CASE Turn
    <3>1. CASE \E S \in SUBSET part[cursor].pending : DispatchBatch(S)
        BY <2>1, <3>1 DEF DispatchBatch
    <3> QED
        BY <2>1, <2>2, <2>4, <3>1 DEF Turn, FailOversized, NextPartition, EndSchedule, Settle
  <2>5. CASE Event
    <3>1. CASE HandleEngineCancel \/ \E k \in Ctl : HandleControl(k)
        BY <3>1 DEF HandleEngineCancel, HandleControl
    <3> QED
        BY <2>1, <2>3, <2>5, <3>1 DEF Event, TimerFires, Submit, HandleComplete
  <2>6. CASE \E c \in Caller : CallStep(c) \/ ContextEnds(c)
      BY <2>1, <2>6 DEF CallStep, NotSubmitted, AwaitReply, AwaitResult, Abandon, CoordinatorGone,
                        ContextEnds, otherThanCalls
  <2>7. CASE \/ \E k \in Ctl : ControlReturns(k) \/ ControlExpires(k)
             \/ EngineCancel \/ ApplyAdaptiveSettings \/ ClearAdaptiveSettings \/ Tick \/ Finished
      BY <2>1, <2>7 DEF ControlReturns, ControlExpires, EngineCancel, ApplyAdaptiveSettings,
                        ClearAdaptiveSettings, Tick, Finished, vars
  <2> QED
      BY <2>4, <2>5, <2>6, <2>7 DEF Next
<1> QED
    BY <1>1, TypeCorrect, PTL DEF Spec, ClosingAdmitsNobody
--------------------------------------------------------------------------------
(* What rests on the accounts. *)

\* Accounts holds in every reachable state.
THEOREM AccountsHold == Spec => []Accounts
<1>1. TypeOK /\ IInv /\ Accounts /\ [Next]_vars => Accounts'
    BY AccountsNext
<1> QED
    BY <1>1, AccountsInit, Invariant, TypeCorrect, PTL DEF Spec

\* Every item is queued or in exactly one batch, live counts them, and a retired
\* partition is empty (removeActive, maybeRetire).
THEOREM ItemsBooked == Spec => []ItemsAccounted
<1>1. TypeOK /\ IInv /\ Accounts => ItemsAccounted
  <2> SUFFICES ASSUME TypeOK, IInv, Accounts PROVE ItemsAccounted
      OBVIOUS
  <2>1. \A p \in Part : \A i \in part[p].active : req[i].part = p
      BY InvParts DEF WaitersAskedForIt
  <2>2. \A g, h \in inflight : g # h => batch[g].items \cap batch[h].items = {}
      BY InvParts DEF BatchesDisjoint
  <2>3. ASSUME NEW p \in Part, NEW i \in Flying(p) PROVE i \in part[p].active \ part[p].pending
      BY InvParts DEF Flying, BatchesDisjoint
  <2>4. ASSUME NEW p \in Part, NEW i \in part[p].active \ part[p].pending PROVE i \in Flying(p)
    <3>1. PICK h \in inflight : i \in batch[h].items
        BY DEF Accounts, Booked, BatchOf
    <3>2. batch[h].part \in Part /\ i \in part[batch[h].part].active
        BY <3>1, Typed, InvParts DEF BatchesDisjoint
    <3>3. batch[h].part = p
        BY <2>1, <3>2
    <3> QED
        BY <3>1, <3>3 DEF Flying
  <2>5. ASSUME NEW p \in Part
        PROVE  part[p].pending \cap Flying(p) = {} /\ part[p].active = part[p].pending \cup Flying(p)
    <3>1. part[p].pending \subseteq part[p].active
        BY InvParts DEF WaitersAskedForIt
    <3> QED
        BY <2>3, <2>4, <3>1
  <2> QED
      BY <2>5, <2>2 DEF ItemsAccounted, Accounts, Booked
<1> QED
    BY <1>1, AccountsHold, Invariant, TypeCorrect, PTL

\* The provider is never called more often at once than configured, whatever
\* settings an adaptive controller applies, and never with an empty batch or one
\* over the item, weight or byte limits (dispatchBatch, handleComplete).
THEOREM ProviderWithinLimits == Spec => []ProviderBounded
<1>1. Accounts => ProviderBounded
    BY DEF Accounts, SlotsCounted, ProviderBounded
<1> QED
    BY <1>1, AccountsHold, PTL

\* The queue limits bound what is really queued, whatever was refused, parked,
\* retried, canceled or failed before (handleSubmit, retryBlocked).
THEOREM QueueWithinLimits == Spec => []QueueBounded
<1>1. TypeOK /\ Accounts => QueueBounded
  <2> SUFFICES ASSUME TypeOK, Accounts, NEW p \in Part, NEW r \in Res, QueueMax[r] > 0
               PROVE  Total(part[p].pending, r) <= QueueMax[r]
      BY DEF QueueBounded, Accounts, QueueCounted
  <2>1. Total(part[p].pending, r) <= used[p][r] /\ used[p][r] <= QueueMax[r] /\ used[p][r] \in Int
      BY DEF Accounts, QueueCounted
  <2>2. Total(part[p].pending, r) \in Nat /\ QueueMax[r] \in Nat
    <3>1. part[p].pending \in SUBSET Caller /\ req \in [Caller -> Request]
        BY Typed, QueueTypes
    <3>2. Sum(req, part[p].pending, r) \in Nat
        BY <3>1, SumType
    <3> QED
        BY <3>2, TotalIs, ResourceAssumption
  <2> QED
      BY SMTT(30), <2>1, <2>2
<1> QED
    BY <1>1, AccountsHold, TypeCorrect, PTL

\* When no item is oversized on its own, the weight and bytes a partition accounts
\* for are exactly those of its queued items (enqueue, removePendingItem,
\* dispatchBatch).
THEOREM ExactUsage ==
  ASSUME NothingOversized
  PROVE  Spec => []UsageExact
<1>1. Accounts => UsageExact
    BY DEF Accounts, QueueCounted, UsageExact
<1> QED
    BY <1>1, AccountsHold, PTL

\* A drained coordinator holds no item, in no partition (Drained counts live
\* over the partitions it still has).
LEMMA DrainedHoldsNothing ==
  ASSUME TypeOK, Accounts, Drained, NEW p \in Part
  PROVE  part[p].active = {}
<1>1. CASE p \in partitions
  <2>1. Cardinality(part[p].active) = 0
      BY <1>1 DEF Drained, Accounts, Booked
  <2>2. IsFiniteSet(part[p].active)
      BY Typed, Finite
  <2> QED
      BY <2>1, <2>2, FS_EmptySet
<1>2. CASE p \notin partitions
    BY <1>2, NewPartitionIs DEF Accounts, Booked
<1> QED
    BY <1>1, <1>2

\* When the coordinator goroutine has returned, no item is queued, no provider
\* call runs, and an admitted call has its result (Drained, handleEngineCancel).
THEOREM NothingLeftBehind == Spec => []StopLeavesNothing
<1>1. TypeOK /\ IInv /\ Accounts => StopLeavesNothing
  <2> SUFFICES ASSUME TypeOK, IInv, Accounts, pc = "stopped" PROVE StopLeavesNothing
      BY DEF StopLeavesNothing
  <2>1. Drained /\ inflight = {}
      BY DEF Accounts, StoppedIdle, Drained
  <2>2. \A p \in Part : part[p].active = {}
      BY <2>1, DrainedHoldsNothing
  <2>3. \A p \in Part : part[p].pending = {}
      BY <2>2, InvParts DEF WaitersAskedForIt
  <2>4. ASSUME NEW c \in Caller, doing[c] = "admitted" PROVE result[c] # {}
    <3>1. result[c] # {} \/ FoundOn(c) # {}
        BY <2>4, InvParts DEF AnswersComing
    <3>2. FoundOn(c) = {}
        BY <2>2, Typed DEF FoundOn
    <3> QED
        BY <3>1, <3>2
  <2> QED
      BY <2>1, <2>3, <2>4 DEF StopLeavesNothing
<1> QED
    BY <1>1, AccountsHold, Invariant, TypeCorrect, PTL

\* Only the end of a turn gives a control request a nil reply (failBarriers
\* gives errors).
LEMMA OnlySettleGrants ==
  ASSUME TypeOK, Next, NEW k \in Ctl, "nil" \in ctl'[k].reply \ ctl[k].reply
  PROVE  Settle
<1> USE LoopTypes DEF CtlState
<1>1. ctl' # ctl
    OBVIOUS
<1>2. ASSUME NEW m \in Ctl, HandleControl(m) \/ ControlReturns(m) \/ ControlExpires(m) PROVE FALSE
  <2>1. CASE k # m
    <3>1. ctl'[k] = ctl[k]
        BY <1>2, <2>1 DEF HandleControl, ControlReturns, ControlExpires
    <3> QED
        BY <3>1
  <2>2. CASE k = m
    <3>1. ctl[m] \in CtlState /\ m \in DOMAIN ctl
        BY LoopTypes
    <3>2. ctl'[m].reply = ctl[m].reply
      <4>1. CASE HandleControl(m)
          BY <3>1, <4>1 DEF HandleControl
      <4>2. CASE ControlReturns(m)
          BY <3>1, <4>2 DEF ControlReturns
      <4>3. CASE ControlExpires(m)
          BY <3>1, <4>3 DEF ControlExpires
      <4> QED
          BY <1>2, <4>1, <4>2, <4>3
    <3> QED
        BY <2>2, <3>2
  <2> QED
      BY <2>1, <2>2
<1>3. ~HandleEngineCancel
    BY SMTT(30) DEF HandleEngineCancel, AnswerControl
<1>4. ~Turn \/ Settle
  <2>1. ~\E S \in SUBSET part[cursor].pending : DispatchBatch(S)
      BY <1>1 DEF DispatchBatch
  <2> QED
      BY <1>1, <2>1 DEF Turn, Handle, FailOversized, NextPartition, EndSchedule
<1>5. ~Event
    BY <1>1, <1>2, <1>3 DEF Event, HandleCancel, TimerFires, Submit, HandleComplete
<1>6. ~\E c \in Caller : CallStep(c) \/ ContextEnds(c)
    BY <1>1 DEF CallStep, NotSubmitted, AwaitReply, AwaitResult, Abandon, CoordinatorGone, ContextEnds,
                otherThanCalls
<1>7. ~(EngineCancel \/ ApplyAdaptiveSettings \/ ClearAdaptiveSettings \/ Tick \/ Finished)
    BY <1>1 DEF EngineCancel, ApplyAdaptiveSettings, ClearAdaptiveSettings, Tick, Finished, vars
<1> QED
    BY <1>2, <1>4, <1>5, <1>6, <1>7 DEF Next

\* A flush that returns nil left no item submitted before it in the queue, and a
\* drain or close none in flight either, with whatever the other requests,
\* cancellations and completions did meanwhile (barrierSatisfied).
THEOREM BarriersKept == Spec => BarriersHold
<1> DEFINE Behind(k, p) == IF CtlKind[k] = "flush" THEN part[p].pending ELSE part[p].active
           Kept == \A k \in Ctl : ctl'[k].reply \ ctl[k].reply = {"nil"} =>
                     \A p \in Part : \A i \in Behind(k, p) : item[i].seq > ctl[k].seq
<1>1. TypeOK /\ IInv /\ Accounts /\ [Next]_vars => [Kept]_vars
  <2> SUFFICES ASSUME TypeOK, IInv, Accounts, Next, NEW k \in Ctl,
                      ctl'[k].reply \ ctl[k].reply = {"nil"},
                      NEW p \in Part, NEW i \in Behind(k, p)
               PROVE  item[i].seq > ctl[k].seq
      OBVIOUS
  <2>1. Settle
      BY OnlySettleGrants
  <2>2. (closing /\ Drained) \/ BarrierSatisfied(k)
    <3>1. \/ ctl'[k] = [ctl[k] EXCEPT !.reply = @ \cup {"timeout"}]
          \/ ctl'[k] = ctl[k]
          \/ (closing /\ Drained) \/ BarrierSatisfied(k)
        BY <2>1 DEF Settle
    <3>2. ctl[k] \in CtlState
        BY LoopTypes
    <3> QED
        BY SMTT(30), <3>1, <3>2 DEF CtlState
  <2>3. i \in part[p].active /\ part[p].pending \subseteq part[p].active
      BY InvParts DEF WaitersAskedForIt
  <2>4. p \in partitions
      BY <2>3, NewPartitionIs DEF Accounts, Booked
  <2>5. item \in [Caller -> ItemState] /\ ctl[k] \in CtlState /\ i \in Caller
      BY <2>3, Typed, QueueTypes, LoopTypes
  <2>6. BarrierSatisfied(k)
      BY <2>2, <2>3, DrainedHoldsNothing
  <2>7. ~(item[i].seq <= ctl[k].seq)
    <3>1. CASE i \in part[p].pending
        BY <2>4, <2>6, <3>1 DEF BarrierSatisfied, AnyPending
    <3>2. CASE i \notin part[p].pending
      <4>1. CtlKind[k] # "flush"
          BY <3>2
      <4>2. PICK h \in inflight : i \in batch[h].items
          BY <2>3, <3>2 DEF Accounts, Booked, BatchOf
      <4>3. item[h].seq <= item[i].seq /\ h \in Caller
          BY <4>2, QueueTypes DEF Accounts, Numbered
      <4>4. ~(item[h].seq <= ctl[k].seq)
          BY <2>6, <4>1, <4>2 DEF BarrierSatisfied, AnyInflight
      <4> QED
          BY SMTT(30), <2>5, <4>3, <4>4 DEF ItemState, CtlState
    <3> QED
        BY <3>1, <3>2
  <2> QED
      BY SMTT(30), <2>5, <2>7 DEF ItemState, CtlState
<1>2. [][Kept]_vars => BarriersHold
    BY DEF BarriersHold
<1> HIDE DEF Kept
<1> QED
    BY <1>1, <1>2, AccountsHold, Invariant, TypeCorrect, PTL DEF Spec
--------------------------------------------------------------------------------
(* Time. *)

\* A turn ends with computeNextTimer, and between turns nothing touches the
\* queue or the timer: what the other goroutines do leaves them alone.
LEMMA BetweenTurns ==
  ASSUME [Next]_vars, pc' \in {"settle", "select"}
  PROVE  \/ EndSchedule
         \/ pc \in {"settle", "select"} /\ UNCHANGED <<partitions, part, item, awaiting, req, timer>>
<1> USE DEF queueVars, loopVars, batchVars, callVars, deliveryVars, envVars
<1>1. CASE Turn
  <2>1. ~\E S \in SUBSET part[cursor].pending : DispatchBatch(S)
      BY DEF DispatchBatch, Scheduling
  <2>2. ~(FailOversized \/ NextPartition)
      BY DEF FailOversized, NextPartition, Scheduling
  <2>3. ~Handle
      BY DEF Handle
  <2>4. CASE Settle
      BY <2>4 DEF Settle
  <2> QED
      BY <1>1, <2>1, <2>2, <2>3, <2>4 DEF Turn
<1>2. ~Event
    BY DEF Event, HandleCancel, TimerFires, HandleEngineCancel, Submit, HandleComplete, HandleControl,
           StartSchedule
<1>3. CASE \E c \in Caller : CallStep(c) \/ ContextEnds(c)
    BY <1>3 DEF CallStep, NotSubmitted, AwaitReply, AwaitResult, Abandon, CoordinatorGone, ContextEnds,
                otherThanCalls
<1>4. CASE \/ \E k \in Ctl : ControlReturns(k) \/ ControlExpires(k)
           \/ EngineCancel \/ ApplyAdaptiveSettings \/ ClearAdaptiveSettings \/ Tick
           \/ UNCHANGED vars
    BY <1>4 DEF ControlReturns, ControlExpires, EngineCancel, ApplyAdaptiveSettings,
                ClearAdaptiveSettings, Tick, vars
<1> QED
    BY <1>1, <1>2, <1>3, <1>4 DEF Next, Finished

\* A timer for an earlier time is there in time.
LEMMA NotLater ==
  \A m, e, a, b \in Int : m <= e + a /\ a <= b => m <= e + b
BY SMTT(30)

\* computeNextTimer covers the queue as long as the effective window is a
\* shortened one, never none.
LEMMA NextTimerCovers ==
  ASSUME TypeOK, MaxWait > 0 => dyn.maxWait \in 1..MaxWait
  PROVE  Covers(NextTimer)
<1> SUFFICES ASSUME NEW p \in partitions, part[p].pending # {}
             PROVE  LET q == part[p].pending IN
                    /\ FlushMode \in {"window", "deadline"} /\ MaxWait > 0 =>
                         \E t \in NextTimer : t <= item[Oldest(q)].enqueue + MaxWait
                    /\ FlushMode = "deadline" =>
                         \A d \in Deadlines(q) : \E t \in NextTimer : t <= d - DeadlineMargin
    BY DEF Covers
<1> DEFINE q == part[p].pending
<1>1. NextTimer \in SUBSET Int /\ \A t \in FlushTimes(p) : t \in Int /\ \E m \in NextTimer : m <= t
    BY NextTimerLeast
<1>2. q \in SUBSET Caller
    BY Typed, QueueTypes
<1>3. ASSUME FlushMode \in {"window", "deadline"}, MaxWait > 0
      PROVE  \E t \in NextTimer : t <= item[Oldest(q)].enqueue + MaxWait
  <2>1. dyn.maxWait \in 1..MaxWait
      BY <1>3
  <2>2. dyn.maxWait > 0 /\ dyn.maxWait <= MaxWait /\ dyn.maxWait \in Int
      BY SMTT(30), <2>1, SizeAssumption
  <2>3. item[Oldest(q)].enqueue + dyn.maxWait \in FlushTimes(p)
      BY <1>3, <2>2 DEF FlushTimes
  <2>4. PICK m \in NextTimer : m <= item[Oldest(q)].enqueue + dyn.maxWait
      BY <1>1, <2>3
  <2>5. m \in Int
      BY <1>1
  <2>6. item[Oldest(q)].enqueue \in Int
    <3>1. Oldest(q) \in Caller
        BY <1>2, OldestIsIn
    <3> QED
        BY <3>1, ItemNumbers, Arithmetic
  <2>7. m <= item[Oldest(q)].enqueue + MaxWait
      BY <2>2, <2>4, <2>5, <2>6, SizeAssumption, Arithmetic, NotLater
  <2> QED
      BY <2>7
<1>4. ASSUME FlushMode = "deadline", NEW d \in Deadlines(q)
      PROVE  \E t \in NextTimer : t <= d - DeadlineMargin
  <2>1. d - DeadlineMargin \in FlushTimes(p)
      BY <1>4 DEF FlushTimes
  <2> QED
      BY <1>1, <2>1
<1> QED
    BY <1>3, <1>4

\* Whether times cover the queue depends on the queue alone.
LEMMA CoversKept ==
  ASSUME UNCHANGED <<partitions, part, item, awaiting, req>>, NEW T, timer' = T, Covers(T)
  PROVE  Covers(timer)'
<1> DEFINE Due(p) == /\ FlushMode \in {"window", "deadline"} /\ MaxWait > 0 =>
                          \E t \in T : t <= item[Oldest(part[p].pending)].enqueue + MaxWait
                     /\ FlushMode = "deadline" =>
                          \A d \in Deadlines(part[p].pending) : \E t \in T : t <= d - DeadlineMargin
<1>1. ASSUME NEW p \in partitions, part[p].pending # {} PROVE Due(p)'
  <2>1. Due(p)
      BY <1>1 DEF Covers
  <2>2. Oldest(part[p].pending)' = Oldest(part[p].pending)
      BY DEF Oldest
  <2>3. Deadlines(part[p].pending)' = Deadlines(part[p].pending)
      BY SMTT(30) DEF Deadlines, WaitersOf
  <2> QED
      BY <2>1, <2>2, <2>3
<1>2. \A p \in partitions' : part'[p].pending # {} => Due(p)'
    BY <1>1
<1> QED
    BY <1>2 DEF Covers

\* A controller may shorten the window of time-based flushing but no queued item
\* is left without a timer, whatever settings come and go during a turn, provided
\* the settings ask for no negative wait (ApplyAdaptiveSettings makes that none).
THEOREM TimerArmed ==
  ASSUME \A s \in Tunings : s.maxWait >= 0
  PROVE  Spec => []TimerCoversQueue
<1> DEFINE Window == MaxWait > 0 => dyn.maxWait \in 1..MaxWait
           Armed == pc \in {"settle", "select"} => Covers(timer)
<1>1. Init => Window /\ Armed
  <2>1. Init => Window
      BY SMTT(30), SizeAssumption DEF Init, Configured
  <2>2. Init => Armed
      BY DEF Init, Covers
  <2> QED
      BY <2>1, <2>2
<1>2. Window /\ [Next]_vars => Window'
  <2> SUFFICES ASSUME Window, [Next]_vars, MaxWait > 0 PROVE dyn'.maxWait \in 1..MaxWait
      OBVIOUS
  <2>1. CASE dyn' = dyn
      BY <2>1
  <2>2. CASE ApplyAdaptiveSettings
    <3>1. PICK s \in Tunings : dyn' = Tuned(s)
        BY <2>2 DEF ApplyAdaptiveSettings
    <3>2. s.maxWait >= 0 /\ s.maxWait \in Int
        BY TuningAssumption
    <3> QED
        BY SMTT(30), <3>1, <3>2, SizeAssumption DEF Tuned, ClampTo
  <2>3. CASE ClearAdaptiveSettings
      BY SMTT(30), <2>3, SizeAssumption DEF ClearAdaptiveSettings, Configured
  <2>4. CASE ~(ApplyAdaptiveSettings \/ ClearAdaptiveSettings)
    <3>1. dyn' = dyn
        BY <2>4, SettingsFixed
    <3> QED
        BY <2>1, <3>1
  <2> QED
      BY <2>2, <2>3, <2>4
<1>3. TypeOK /\ Window /\ Armed /\ [Next]_vars => Armed'
  <2> SUFFICES ASSUME TypeOK, Window, Armed, [Next]_vars, pc' \in {"settle", "select"}
               PROVE  Covers(timer)'
      OBVIOUS
  <2>1. CASE EndSchedule
    <3>1. PICK T : T = NextTimer
        OBVIOUS
    <3>2. Covers(T)
        BY <3>1, NextTimerCovers
    <3>3. timer' = T /\ UNCHANGED <<partitions, part, item, awaiting, req>>
        BY <2>1, <3>1 DEF EndSchedule, queueVars, deliveryVars, envVars
    <3> QED
        BY <3>2, <3>3, CoversKept
  <2>2. CASE pc \in {"settle", "select"} /\ UNCHANGED <<partitions, part, item, awaiting, req, timer>>
    <3>1. PICK T : T = timer
        OBVIOUS
    <3>2. Covers(T)
        BY <2>2, <3>1
    <3> QED
        BY <2>2, <3>1, <3>2, CoversKept
  <2> QED
      BY <2>1, <2>2, BetweenTurns
<1>4. Armed => TimerCoversQueue
    BY DEF TimerCoversQueue
<1> HIDE DEF Window, Armed
<1> QED
    BY <1>1, <1>2, <1>3, <1>4, TypeCorrect, PTL DEF Spec
--------------------------------------------------------------------------------
(* What becomes of queued items. *)

\* Only handleSubmit and the cancellation of a waiter touch an item, and only
\* handleSubmit queues one.
LEMMA QueueSteps ==
  ASSUME TypeOK, IInv, [Next]_vars
  PROVE  \/ item' = item /\ \A p \in Part : part'[p].pending \subseteq part[p].pending
         \/ Handle
         \/ HandleCancel /\ CancelWaiter(Head(cancelCh))
<1> DEFINE Shrinks == item' = item /\ \A p \in Part : part'[p].pending \subseteq part[p].pending
<1> USE DEF queueVars, loopVars, batchVars, callVars, deliveryVars, envVars
<1>1. CASE part' = part /\ item' = item
    BY <1>1
<1>2. CASE \E S \in SUBSET Caller : DispatchBatch(S) \/ FailOversized
  <2>1. PICK S \in SUBSET Caller : TakeFromQueue(cursor, S) /\ cursor \in Part /\ item' = item
      BY <1>2 DEF DispatchBatch, FailOversized, Scheduling
  <2>2. \A p \in Part : part'[p].pending \subseteq part[p].pending
      BY <2>1, QueueTypes DEF TakeFromQueue, Taken
  <2> QED
      BY <2>1, <2>2
<1>3. CASE NextPartition
  <2>1. cursor \in Part /\ MaybeRetire(cursor, part[cursor], used[cursor]) /\ item' = item
        /\ part[cursor].pending \subseteq part[cursor].active
      BY <1>3, InvParts DEF NextPartition, Scheduling, WaitersAskedForIt
  <2>2. \A p \in Part : part'[p].pending \subseteq part[p].pending
      BY <2>1, MaybeRetireKeeps
  <2> QED
      BY <2>1, <2>2
<1>4. ASSUME NEW h \in Caller, HandleComplete(h) PROVE Shrinks
  <2> DEFINE q == batch[h].part
             np == Served(part[q], batch[h].items)
  <2>1. h \in inflight /\ MaybeRetire(q, np, used[q]) /\ item' = item
      BY <1>4 DEF HandleComplete
  <2>2. /\ q \in Part /\ part[q].pending \subseteq part[q].active
        /\ batch[h].items \cap part[q].pending = {}
      BY <2>1, Typed, InvParts DEF WaitersAskedForIt, BatchesDisjoint
  <2>3. np.pending \subseteq np.active /\ np.pending = part[q].pending
      BY <2>2 DEF Served
  <2> HIDE DEF np
  <2>4. \A p \in Part : part'[p].pending \subseteq part[p].pending
      BY <2>1, <2>2, <2>3, MaybeRetireKeeps
  <2> QED
      BY <2>1, <2>4
<1>5. CASE Turn
  <2>1. CASE EndSchedule \/ Settle
      BY <1>1, <2>1 DEF EndSchedule, Settle
  <2>2. CASE (Scheduling /\ \E S \in SUBSET part[cursor].pending : DispatchBatch(S)) \/ FailOversized
    <3>1. Scheduling => SUBSET part[cursor].pending \subseteq SUBSET Caller
        BY Typed DEF Scheduling
    <3>2. \E S \in SUBSET Caller : DispatchBatch(S) \/ FailOversized
        BY <2>2, <3>1
    <3> QED
        BY <1>2, <3>2
  <2> QED
      BY <1>3, <1>5, <2>1, <2>2 DEF Turn
<1>6. CASE Event
  <2>1. CASE TimerFires \/ HandleEngineCancel \/ (\E c \in Caller : Submit(c)) \/ (\E k \in Ctl : HandleControl(k))
      BY <1>1, <2>1 DEF TimerFires, HandleEngineCancel, Submit, HandleControl
  <2>2. CASE HandleCancel
      BY <1>1, <2>2 DEF HandleCancel, CancelBlocked, CancelUnknown
  <2> QED
      BY <1>4, <1>6, <2>1, <2>2 DEF Event
<1>7. CASE \E c \in Caller : CallStep(c) \/ ContextEnds(c)
    BY <1>1, <1>7 DEF CallStep, NotSubmitted, AwaitReply, AwaitResult, Abandon, CoordinatorGone,
                      ContextEnds, Return, otherThanCalls
<1>8. CASE \/ \E k \in Ctl : ControlReturns(k) \/ ControlExpires(k)
           \/ EngineCancel \/ ApplyAdaptiveSettings \/ ClearAdaptiveSettings \/ Tick
           \/ UNCHANGED vars
    BY <1>1, <1>8 DEF ControlReturns, ControlExpires, EngineCancel, ApplyAdaptiveSettings,
                      ClearAdaptiveSettings, Tick, vars
<1> QED
    BY <1>5, <1>6, <1>7, <1>8 DEF Next, Finished

\* prune, and the branch of dispatchBatch for items nobody waits for, never find
\* an item: the last cancellation takes a queued item with it (handleCancel).
THEOREM NothingToPrune == Spec => []PendingIsAwaited
<1>1. Init => PendingIsAwaited
    BY NewPartitionIs DEF Init, PendingIsAwaited
<1>2. TypeOK /\ IInv /\ PendingIsAwaited /\ [Next]_vars => PendingIsAwaited'
  <2> SUFFICES ASSUME TypeOK, IInv, PendingIsAwaited, [Next]_vars,
                      NEW p \in Part, NEW i \in part'[p].pending
               PROVE  item'[i].activeWaiters > 0
      BY DEF PendingIsAwaited
  <2>1. \A q \in Part : \A j \in part[q].active : req[j].part = q
      BY InvParts DEF WaitersAskedForIt
  <2>2. \A j \in Caller : item[j].activeWaiters \in Int
      BY Typed
  <2>3. CASE item' = item /\ i \in part[p].pending
      BY <2>3 DEF PendingIsAwaited
  <2>4. CASE Handle
    <3>1. PICK c \in Caller : HandleSubmit(c)
        BY <2>4, HandleHead
    <3>2. CASE UNCHANGED <<part, item>>
        BY <2>3, <3>2
    <3>3. CASE SubmitJoin(c)
      <4>1. PICK j \in Caller : item' = [item EXCEPT ![j] = Joined(item[j], c)]
          BY <3>3, Typed DEF SubmitJoin, Joinable
      <4>2. i \in part[p].pending /\ i \in Caller
        <5>1. part'[p].pending = part[p].pending
            BY <3>3, JoinMovesNothing
        <5> QED
            BY <5>1, Typed
      <4>3. item[i].activeWaiters > 0
          BY <4>2 DEF PendingIsAwaited
      <4>4. item'[i] = IF i = j THEN Joined(item[j], c) ELSE item[i]
          BY <4>1, <4>2, QueueTypes
      <4> QED
          BY SMTT(30), <2>2, <4>2, <4>3, <4>4 DEF Joined
    <3>4. CASE SubmitEnqueue(c)
      <4>1. i = c \/ i \in part[p].pending
          BY <3>4, Typed, QueueTypes DEF SubmitEnqueue, Enqueued
      <4>2. item'[c].activeWaiters = 1 /\ \A j \in Caller : j # c => item'[j] = item[j]
          BY <3>4, QueueTypes DEF SubmitEnqueue
      <4>3. CASE i = c
          BY SMTT(30), <4>2, <4>3
      <4>4. CASE i # c
          BY <4>1, <4>2, <4>4, Typed DEF PendingIsAwaited
      <4> QED
          BY <4>3, <4>4
    <3> QED
        BY <3>1, <3>2, <3>3, <3>4 DEF HandleSubmit, SubmitWhileClosing, SubmitNoPartition,
                                      SubmitOverLimit, queueVars
  <2>5. CASE HandleCancel /\ CancelWaiter(Head(cancelCh))
    <3>1. PICK c \in Caller, q \in Part : c = Head(cancelCh).call /\ q = req[c].part
        BY <2>5, CancelHead, Typed
    <3> DEFINE np == [part[q] EXCEPT !.waiters = @ - 1]
    <3>2. PICK j \in FoundOn(c) :
            /\ item' = [item EXCEPT ![j].activeWaiters = @ - 1]
            /\ IF LastWaiter(j) /\ BatchOf(j) = {}
               THEN MaybeRetire(q, RemovePending(np, j), LessUsed(q, {j}))
               ELSE part' = [part EXCEPT ![q] = np]
        BY <2>5, <3>1 DEF CancelWaiter
    <3>3. j \in part[q].active /\ j \in Caller
        BY <3>1, <3>2, Typed DEF FoundOn
    <3>4. /\ np.pending = part[q].pending /\ np.active = part[q].active
          /\ part[q].pending \subseteq part[q].active
      <4>1. part[q] \in PartitionState
          BY QueueTypes
      <4>2. np.pending = part[q].pending /\ np.active = part[q].active
          BY <4>1 DEF PartitionState
      <4> QED
          BY <4>2, InvParts DEF WaitersAskedForIt
    <3>5. /\ item'[j].activeWaiters = item[j].activeWaiters - 1
          /\ \A k \in Caller : k # j => item'[k] = item[k]
      <4>1. item \in [Caller -> ItemState] /\ item[j] \in ItemState
          BY <3>3, QueueTypes
      <4>2. /\ item'[j] = [item[j] EXCEPT !.activeWaiters = item[j].activeWaiters - 1]
            /\ \A k \in Caller : k # j => item'[k] = item[k]
          BY <3>2, <3>3, <4>1
      <4> QED
          BY <4>1, <4>2 DEF ItemState
    <3>6. i \in part[p].pending /\ (i = j => ~(LastWaiter(j) /\ BatchOf(j) = {}))
      <4>1. CASE LastWaiter(j) /\ BatchOf(j) = {}
        <5> DEFINE rp == RemovePending(np, j)
                   u == LessUsed(q, {j})
        <5>1. rp.pending = part[q].pending \ {j} /\ rp.pending \subseteq rp.active
            BY <3>4 DEF RemovePending
        <5>2. MaybeRetire(q, rp, u)
            BY <3>2, <4>1
        <5> HIDE DEF rp, u, np
        <5>3. part'[q].pending = part[q].pending \ {j} /\ \A o \in Part : o # q => part'[o] = part[o]
            BY <5>1, <5>2, MaybeRetireKeeps
        <5>4. i \in part[p].pending /\ part[p].pending \subseteq part[p].active
            BY <5>3, InvParts DEF WaitersAskedForIt
        <5>5. i = j => p = q
            BY <2>1, <3>3, <5>4
        <5> QED
            BY <5>3, <5>4, <5>5
      <4>2. CASE ~(LastWaiter(j) /\ BatchOf(j) = {})
        <5>1. part' = [part EXCEPT ![q] = np]
            BY <3>2, <4>2
        <5>2. part'[p].pending = part[p].pending
            BY <3>4, <5>1, QueueTypes
        <5> QED
            BY <4>2, <5>2
      <4> QED
          BY <4>1, <4>2
    <3> HIDE DEF np
    <3>7. item[i].activeWaiters > 0 /\ i \in Caller
        BY <3>6, Typed DEF PendingIsAwaited
    <3>8. CASE i = j
      <4>1. BatchOf(j) = {}
        <5>1. ASSUME NEW h \in inflight, j \in batch[h].items PROVE FALSE
          <6>1. /\ batch[h].part \in Part /\ j \in part[batch[h].part].active
                /\ j \notin part[batch[h].part].pending
              BY <5>1, Typed, InvParts DEF BatchesDisjoint
          <6>2. j \in part[p].pending /\ j \in part[p].active
              BY <3>6, <3>8, InvParts DEF WaitersAskedForIt
          <6>3. batch[h].part = p
              BY <2>1, <6>1, <6>2
          <6> QED
              BY <6>1, <6>2, <6>3
        <5> QED
            BY <5>1 DEF BatchOf
      <4>2. item[j].activeWaiters # 1
          BY <3>6, <3>8, <4>1 DEF LastWaiter
      <4> QED
          BY SMTT(30), <2>2, <3>5, <3>7, <3>8, <4>2
    <3>9. CASE i # j
        BY <3>5, <3>7, <3>9
    <3> QED
        BY <3>8, <3>9
  <2> QED
      BY <2>3, <2>4, <2>5, QueueSteps
<1> QED
    BY <1>1, <1>2, Invariant, TypeCorrect, PTL DEF Spec

\* A waiter that was served or left never waits again.
LEMMA NobodyWaitsAgain == [Next]_vars => awaiting' \subseteq awaiting
<1> SUFFICES ASSUME [Next]_vars PROVE awaiting' \subseteq awaiting
    OBVIOUS
<1> USE DEF deliveryVars, Deliver
<1>1. CASE Turn
  <2>1. CASE \E S \in SUBSET part[cursor].pending : DispatchBatch(S)
      BY <2>1 DEF DispatchBatch, TakeFromQueue
  <2> QED
      BY <1>1, <2>1 DEF Turn, Handle, FailOversized, TakeFromQueue, NextPartition, EndSchedule, Settle
<1>2. CASE Event
  <2>1. CASE HandleCancel
      BY <2>1 DEF HandleCancel, CancelBlocked, CancelUnknown, CancelWaiter
  <2> QED
      BY <1>2, <2>1 DEF Event, TimerFires, HandleEngineCancel, Submit, HandleComplete, HandleControl
<1>3. CASE \E c \in Caller : CallStep(c) \/ ContextEnds(c)
    BY <1>3 DEF CallStep, NotSubmitted, AwaitReply, AwaitResult, Abandon, CoordinatorGone, ContextEnds
<1>4. CASE \/ \E k \in Ctl : ControlReturns(k) \/ ControlExpires(k)
           \/ EngineCancel \/ ApplyAdaptiveSettings \/ ClearAdaptiveSettings \/ Tick
           \/ UNCHANGED vars
    BY <1>4 DEF ControlReturns, ControlExpires, EngineCancel, ApplyAdaptiveSettings,
                ClearAdaptiveSettings, Tick, vars
<1> QED
    BY <1>1, <1>2, <1>3, <1>4 DEF Next, Finished

\* A batch keeps its items and its deadline for as long as it is in flight, and
\* only dispatchBatch makes one.
LEMMA BatchesFixed ==
  ASSUME TypeOK, IInv, [Next]_vars, NEW h \in inflight'
  PROVE  \/ /\ h \in inflight
            /\ batch'[h].items = batch[h].items /\ batch'[h].deadline = batch[h].deadline
         \/ /\ item' = item
            /\ \E S \in SUBSET Caller : /\ S # {} /\ batch'[h].items = S
                                        /\ batch'[h].deadline = BatchDeadline(S)
<1> USE DEF batchVars, queueVars
<1>1. CASE inflight' = inflight /\ batch' = batch
    BY <1>1
<1>2. CASE Scheduling /\ \E S \in SUBSET part[cursor].pending : DispatchBatch(S)
  <2>1. PICK S \in SUBSET Caller : DispatchBatch(S)
      BY <1>2, Typed DEF Scheduling
  <2>2. PICK g : g = Oldest(S)
      OBVIOUS
  <2>3. /\ S # {} /\ item' = item /\ inflight' = inflight \cup {g}
        /\ batch' = [batch EXCEPT ![g] = [items |-> S, part |-> cursor, cancelled |-> FALSE,
                                         deadline |-> BatchDeadline(S)]]
      BY <2>1, <2>2 DEF DispatchBatch
  <2>4. g \in Caller
      BY <2>2, <2>3, OldestIsIn
  <2>5. CASE h = g
    <3>1. batch'[g] = [items |-> S, part |-> cursor, cancelled |-> FALSE, deadline |-> BatchDeadline(S)]
        BY <2>3, <2>4, QueueTypes
    <3>2. batch'[g].items = S /\ batch'[g].deadline = BatchDeadline(S)
        BY SMTT(30), <3>1
    <3> QED
        BY <2>3, <2>5, <3>2
  <2>6. CASE h # g
      BY <2>3, <2>6, QueueTypes
  <2> QED
      BY <2>5, <2>6
<1>3. ASSUME NEW H, batch' = CancelContexts(H), inflight' = inflight
      PROVE  /\ h \in inflight
             /\ batch'[h].items = batch[h].items /\ batch'[h].deadline = batch[h].deadline
  <2>1. h \in Caller /\ batch[h] \in BatchState
      BY <1>3, QueueTypes
  <2>2. batch'[h] = IF h \in H THEN [batch[h] EXCEPT !.cancelled = TRUE] ELSE batch[h]
      BY <1>3, <2>1 DEF CancelContexts
  <2>3. batch'[h].items = batch[h].items /\ batch'[h].deadline = batch[h].deadline
      BY <2>1, <2>2 DEF BatchState
  <2> QED
      BY <1>3, <2>3
<1>4. CASE HandleCancel
  <2>1. batch' = batch \/ \E H : batch' = CancelContexts(H)
      BY <1>4 DEF HandleCancel, CancelBlocked, CancelUnknown, CancelWaiter, BatchLosesWaiter
  <2>2. inflight' = inflight
      BY <1>4 DEF HandleCancel
  <2> QED
      BY <1>1, <1>3, <2>1, <2>2
<1>5. CASE HandleEngineCancel
  <2>1. batch' = CancelContexts(inflight) /\ inflight' = inflight
      BY <1>5 DEF HandleEngineCancel
  <2> QED
      BY <1>3, <2>1
<1>6. ASSUME NEW g \in Caller, HandleComplete(g)
      PROVE  h \in inflight /\ batch'[h] = batch[h]
  <2>1. inflight' = inflight \ {g} /\ batch' = [batch EXCEPT ![g] = NoBatch]
      BY <1>6 DEF HandleComplete
  <2> QED
      BY <2>1, QueueTypes
<1>7. CASE Turn
    BY <1>1, <1>2, <1>7 DEF Turn, Handle, FailOversized, NextPartition, EndSchedule, Settle
<1>8. CASE Event
  <2>1. CASE TimerFires \/ (\E c \in Caller : Submit(c)) \/ (\E k \in Ctl : HandleControl(k))
      BY <1>1, <2>1 DEF TimerFires, Submit, HandleControl
  <2> QED
      BY <1>4, <1>5, <1>6, <1>8, <2>1 DEF Event
<1>9. CASE \E c \in Caller : CallStep(c) \/ ContextEnds(c)
    BY <1>1, <1>9 DEF CallStep, NotSubmitted, AwaitReply, AwaitResult, Abandon, CoordinatorGone,
                      ContextEnds, otherThanCalls
<1>10. CASE \/ \E k \in Ctl : ControlReturns(k) \/ ControlExpires(k)
            \/ EngineCancel \/ ApplyAdaptiveSettings \/ ClearAdaptiveSettings \/ Tick
            \/ UNCHANGED vars
    BY <1>1, <1>10 DEF ControlReturns, ControlExpires, EngineCancel, ApplyAdaptiveSettings,
                       ClearAdaptiveSettings, Tick, vars
<1> QED
    BY <1>7, <1>8, <1>9, <1>10 DEF Next, Finished

\* Without deduplication nobody joins an item that is queued or in flight.
LEMMA WaitersFixed ==
  ASSUME TypeOK, IInv, [Next]_vars, ~Dedup, NEW p \in Part, NEW i \in part[p].active
  PROVE  item'[i].waiters = item[i].waiters
<1>1. i \in Caller /\ i \in item[i].waiters
    BY Typed, InvParts DEF WaitersAskedForIt
<1>2. CASE item' = item
    BY <1>2
<1>3. CASE Handle
  <2>1. PICK c \in Caller : HandleSubmit(c) /\ \A j \in Caller : c \notin item[j].waiters
      BY <1>3, HandleHead
  <2>2. c # i
      BY <1>1, <2>1
  <2>3. ~SubmitJoin(c)
      BY DEF SubmitJoin, Joinable
  <2>4. CASE SubmitEnqueue(c)
      BY <1>1, <2>2, <2>4, QueueTypes DEF SubmitEnqueue
  <2> QED
      BY <1>2, <2>1, <2>3, <2>4 DEF HandleSubmit, SubmitWhileClosing, SubmitNoPartition,
                                    SubmitOverLimit, queueVars
<1>4. CASE HandleCancel /\ CancelWaiter(Head(cancelCh))
  <2>1. PICK j : item' = [item EXCEPT ![j].activeWaiters = @ - 1]
      BY <1>4 DEF CancelWaiter
  <2> QED
    <3>1. item \in [Caller -> ItemState] /\ item[i] \in ItemState
        BY <1>1, QueueTypes
    <3>2. item'[i] = item[i] \/ item'[i] = [item[i] EXCEPT !.activeWaiters = item[i].activeWaiters - 1]
        BY <1>1, <2>1, <3>1
    <3> QED
        BY <3>1, <3>2 DEF ItemState
<1> QED
    BY <1>2, <1>3, <1>4, QueueSteps

\* Without deduplication no provider context ends before the deadline of a caller
\* that still waits for it: dispatchBatch takes the latest, and none when a caller
\* has none.
THEOREM DeadlinesKept ==
  ASSUME ~Dedup
  PROVE  Spec => []NoShorterDeadline
<1>1. Init => NoShorterDeadline
    BY DEF Init, NoShorterDeadline
<1>2. TypeOK /\ IInv /\ NoShorterDeadline /\ [Next]_vars => NoShorterDeadline'
  <2> SUFFICES ASSUME TypeOK, IInv, NoShorterDeadline, [Next]_vars,
                      NEW h \in inflight', batch'[h].deadline # 0, NEW w \in BatchWaiters(h)'
               PROVE  req'[w].deadline \in 1..batch'[h].deadline
      BY DEF NoShorterDeadline
  <2>1. req' = req /\ awaiting' \subseteq awaiting
      BY RequestsFixed, NobodyWaitsAgain
  <2>2. PICK i \in batch'[h].items : w \in item'[i].waiters
      BY DEF BatchWaiters, WaitersOf
  <2>3. w \in awaiting
      BY <2>1 DEF BatchWaiters
  <2>4. CASE /\ h \in inflight
             /\ batch'[h].items = batch[h].items /\ batch'[h].deadline = batch[h].deadline
    <3>1. batch[h].part \in Part /\ i \in part[batch[h].part].active
        BY <2>2, <2>4, Typed, InvParts DEF BatchesDisjoint
    <3>2. item'[i].waiters = item[i].waiters
        BY <3>1, WaitersFixed
    <3>3. w \in BatchWaiters(h)
        BY <2>2, <2>3, <2>4, <3>2 DEF BatchWaiters, WaitersOf
    <3> QED
        BY <2>1, <2>4, <3>3 DEF NoShorterDeadline
  <2>5. ASSUME item' = item, NEW S \in SUBSET Caller, S # {}, batch'[h].items = S,
               batch'[h].deadline = BatchDeadline(S)
        PROVE  req'[w].deadline \in 1..batch'[h].deadline
    <3>1. w \in WaitersOf(S) \cap awaiting
        BY <2>2, <2>3, <2>5 DEF WaitersOf
    <3>2. req[w].deadline \in 1..BatchDeadline(S)
        BY <2>5, <3>1, BatchDeadlineLatest
    <3> QED
        BY <2>1, <2>5, <3>2
  <2> QED
      BY <2>4, <2>5, BatchesFixed
<1> QED
    BY <1>1, <1>2, Invariant, TypeCorrect, PTL DEF Spec

\* A dispatch takes the oldest queued item of its partition, or fails it when it
\* is too large on its own: no item is overtaken for ever (dispatchBatch).
THEOREM OldestFirst == Spec => OldestGoesFirst
<1> DEFINE First == \A p \in Part : part'[p].pending # part[p].pending /\ inflight' # inflight =>
                      Oldest(part[p].pending) \notin part'[p].pending
<1>1. TypeOK /\ IInv /\ [Next]_vars => [First]_vars
  <2> SUFFICES ASSUME TypeOK, IInv, Next, NEW p \in Part,
                      part'[p].pending # part[p].pending, inflight' # inflight
               PROVE  Oldest(part[p].pending) \notin part'[p].pending
      OBVIOUS
  <2> USE DEF batchVars
  <2>1. ~\E h \in Caller : HandleComplete(h)
    <3> SUFFICES ASSUME NEW h \in Caller, HandleComplete(h) PROVE FALSE
        OBVIOUS
    <3> DEFINE q == batch[h].part
               np == Served(part[q], batch[h].items)
    <3>1. h \in inflight /\ MaybeRetire(q, np, used[q])
        BY DEF HandleComplete
    <3>2. /\ q \in Part /\ part[q].pending \subseteq part[q].active
          /\ batch[h].items \cap part[q].pending = {}
        BY <3>1, Typed, InvParts DEF WaitersAskedForIt, BatchesDisjoint
    <3>3. np.pending \subseteq np.active /\ np.pending = part[q].pending
        BY <3>2 DEF Served
    <3> HIDE DEF np
    <3>4. \A o \in Part : part'[o].pending = part[o].pending
        BY <3>1, <3>2, <3>3, MaybeRetireKeeps
    <3> QED
        BY <3>4
  <2>2. Scheduling /\ \E S \in SUBSET part[cursor].pending : DispatchBatch(S)
    <3>1. ~Event
        BY <2>1 DEF Event, HandleCancel, TimerFires, HandleEngineCancel, Submit, HandleControl
    <3>2. ~\E c \in Caller : CallStep(c) \/ ContextEnds(c)
        BY DEF CallStep, NotSubmitted, AwaitReply, AwaitResult, Abandon, CoordinatorGone,
               ContextEnds, otherThanCalls
    <3>3. ~\/ \E k \in Ctl : ControlReturns(k) \/ ControlExpires(k)
           \/ EngineCancel \/ ApplyAdaptiveSettings \/ ClearAdaptiveSettings \/ Tick \/ Finished
        BY DEF ControlReturns, ControlExpires, EngineCancel, ApplyAdaptiveSettings,
               ClearAdaptiveSettings, Tick, Finished, vars
    <3> QED
        BY <3>1, <3>2, <3>3 DEF Next, Turn, Handle, FailOversized, NextPartition, EndSchedule, Settle
  <2>3. PICK S \in SUBSET part[cursor].pending :
          cursor \in Part /\ Selects(cursor, S) /\ TakeFromQueue(cursor, S)
      BY <2>2 DEF DispatchBatch, Scheduling
  <2> DEFINE T == Oversized(cursor, S)
  <2>4. /\ part'[cursor].pending = part[cursor].pending \ (S \cup T)
        /\ \A q \in Part : q # cursor => part'[q] = part[q]
      BY <2>3, QueueTypes DEF TakeFromQueue, Taken
  <2>5. p = cursor /\ part[p].pending # {}
      BY <2>4
  <2>6. PICK i : i = Oldest(part[p].pending)
      OBVIOUS
  <2>7. i \in part[p].pending /\ \A j \in part[p].pending : item[i].seq <= item[j].seq
      BY <2>5, <2>6, OldestIsIn, Typed
  <2>8. Before(S, i) = {}
    <3> SUFFICES ASSUME NEW j \in S, item[j].seq < item[i].seq PROVE FALSE
        BY DEF Before
    <3>1. item[i].seq <= item[j].seq /\ i \in Caller /\ j \in Caller
        BY <2>3, <2>5, <2>7, Typed
    <3> QED
      <4>1. item[i].seq \in Nat /\ item[j].seq \in Nat
          BY <3>1, ItemNumbers
      <4> QED
          BY SMTT(30), <3>1, <4>1
  <2>9. i \in S \cup T
      BY <2>3, <2>5, <2>7, <2>8 DEF Selects, Oversized
  <2> QED
      BY <2>4, <2>5, <2>6, <2>9
<1>2. [][First]_vars => OldestGoesFirst
    BY DEF OldestGoesFirst
<1> HIDE DEF First
<1> QED
    BY <1>1, <1>2, Invariant, TypeCorrect, PTL DEF Spec
================================================================================
