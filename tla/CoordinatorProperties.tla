------------------------- MODULE CoordinatorProperties -------------------------
(* What the coordinator and Do promise, stated over the model of Coordinator. *)
EXTENDS CoordinatorInvariant

(* Safety. *)

\* The items of partition p that are with the provider.
Flying(p) == UNION {batch[h].items : h \in {g \in inflight : batch[g].part = p}}

\* Every item of a partition is either queued or in exactly one in-flight batch
\* of that partition, the live count that decides retirement is their number,
\* and a retired partition holds nothing (removeActive, live--, maybeRetire).
ItemsAccounted ==
  /\ \A p \in Part :
       /\ part[p].pending \cap Flying(p) = {}
       /\ part[p].active = part[p].pending \cup Flying(p)
       /\ part[p].live = Cardinality(part[p].active)
       /\ p \notin partitions => part[p] = NewPartition /\ used[p] = NothingUsed
  /\ \A g, h \in inflight : g # h => batch[g].items \cap batch[h].items = {}

\* Provider calls in flight match the counter and never exceed the configured
\* concurrency, whatever adaptive settings come and go; a batch is never empty
\* and never exceeds the configured item, weight and byte limits.
ProviderBounded ==
  /\ activeProvider = Cardinality(inflight) /\ activeProvider <= MaxConcurrency
  /\ \A h \in inflight :
       /\ Cardinality(batch[h].items) \in 1..MaxBatchSize
       /\ \A r \in Res : MaxBatch[r] > 0 => Total(batch[h].items, r) <= MaxBatch[r]

\* No batch mixes partitions: every item, and every caller waiting on it, asked
\* for the partition the batch was formed in.
PartitionsIsolated ==
  /\ \A p \in Part : \A i \in part[p].active : req[i].part = p
  /\ \A h \in inflight : \A i \in batch[h].items :
       \A c \in item[i].waiters : req[c].part = batch[h].part

\* With deduplication, a key is queued or in flight at most once per partition.
OneItemPerKey ==
  Dedup => \A p \in Part : \A i, j \in part[p].active : req[i].key = req[j].key => i = j

\* A result channel never holds two results (the coordinator would block on the
\* second), and the result it holds is for the key and partition of its caller.
OwnAnswer ==
  \A c \in Caller :
    /\ Cardinality(result[c]) <= 1 /\ Cardinality(reply[c]) <= 1
    /\ c \in awaiting => result[c] = {}
    /\ \A r \in result[c] : req[r.item].key = req[c].key /\ req[r.item].part = req[c].part

\* A caller that waits is never forgotten: a submitted one has its reply, or its
\* submission is still held by the coordinator; an admitted one has its result,
\* or is an active waiter of an item that is still queued or in flight.
NoCallerLost ==
  \A c \in Caller :
    /\ doing[c] = "submitted" =>
         reply[c] # {} \/ c \in Range(blocked) \/ c \in Range(todo)
    /\ doing[c] = "admitted" => result[c] # {} \/ FoundOn(c) # {}

\* Every queued item still has a waiter that counts, so prune and the
\* activeWaiters = 0 branch of dispatchBatch (which would drop an item without
\* giving back its weight and bytes) never find anything.
PendingIsAwaited ==
  \A p \in Part : \A i \in part[p].pending : item[i].activeWaiters > 0

\* The queued weight and bytes of a partition are those of its queued items.
UsageExact ==
  \A p \in Part : \A r \in Res : used[p][r] = Total(part[p].pending, r)

\* The queue limits bound what is really queued: the items, their weight and
\* their bytes in each partition, and the partitions (handleSubmit's checks).
QueueBounded ==
  /\ MaxPartitions > 0 => Cardinality(partitions) <= MaxPartitions
  /\ \A p \in Part :
       /\ MaxItems > 0 => Cardinality(part[p].pending) <= MaxItems
       /\ \A r \in Res : QueueMax[r] > 0 => Total(part[p].pending, r) <= QueueMax[r]

\* The calls that wait on an item of partition p.
Waiting(p) == {c \in awaiting : \E i \in part[p].active : c \in item[i].waiters}

\* QueueLimits.MaxWaiters bounds the callers waiting in a partition.
WaitersBounded ==
  MaxWaiters > 0 => \A p \in Part : Cardinality(Waiting(p)) <= MaxWaiters

\* One of the times T is no later than the end of the configured window of any
\* queued item, in a time-based mode, and in deadline-aware mode no later than the
\* margin before any waiter's deadline.
Covers(T) ==
  \A p \in partitions :
    LET q == part[p].pending IN
    q # {} =>
      /\ FlushMode \in {"window", "deadline"} /\ MaxWait > 0 =>
           \E t \in T : t <= item[Oldest(q)].enqueue + MaxWait
      /\ FlushMode = "deadline" =>
           \A d \in Deadlines(q) : \E t \in T : t <= d - DeadlineMargin

\* Between turns, the armed timer covers every queued item (computeNextTimer).
TimerCoversQueue == pc = "select" => Covers(timer)

BatchWaiters(h) == WaitersOf(batch[h].items) \cap awaiting

\* A provider context is canceled only when nobody waits for the batch any more.
CanceledOnlyIfAbandoned ==
  \A h \in inflight : batch[h].cancelled => BatchWaiters(h) = {}

\* When nobody waits for a batch any more its provider context is canceled.
AbandonedIsCanceled ==
  pc = "select" => \A h \in inflight : BatchWaiters(h) = {} => batch[h].cancelled

\* The deadline of a provider context is not before that of any active waiter.
NoShorterDeadline ==
  \A h \in inflight : batch[h].deadline # 0 =>
    \A w \in BatchWaiters(h) : req[w].deadline \in 1..batch[h].deadline

\* When the coordinator goroutine has stopped nothing is left behind: no item is
\* queued, no provider call runs, and an admitted call has its result waiting.
StopLeavesNothing ==
  pc = "stopped" =>
    /\ inflight = {} /\ \A p \in Part : part[p].pending = {}
    /\ \A c \in Caller : doing[c] = "admitted" => result[c] # {}

-----------------------------------------------------------------------------
(* Steps. *)

\* A nil reply to a flush is given only when every item submitted before it has
\* left the queue, and one to a drain or close only when none is in flight
\* either (barrierSatisfied, failBarriers).
BarriersHold ==
  [][\A k \in Ctl : ctl'[k].reply \ ctl[k].reply = {"nil"} =>
       \A p \in Part :
         \A i \in (IF CtlKind[k] = "flush" THEN part[p].pending ELSE part[p].active) :
           item[i].seq > ctl[k].seq]_vars

\* Once closing, the coordinator admits nobody: no item is enqueued and no
\* waiter joins one, and it never reopens.
ClosingAdmitsNobody ==
  [][closing => closing' /\ submitSeq' = submitSeq
                /\ \A i \in Caller : item'[i].waiters = item[i].waiters]_vars

\* A submission is turned away for lack of room only when the items queued and
\* the callers waiting in its partition really leave none.
RefusedOnlyWhenFull ==
  [][\A c \in Caller : "full" \in reply'[c] \ reply[c] =>
       LET p == req[c].part IN
       \/ MaxItems > 0 /\ Cardinality(part[p].pending) + 1 > MaxItems
       \/ MaxWaiters > 0 /\ Cardinality(Waiting(p)) + 1 > MaxWaiters
       \/ \E r \in Res : /\ QueueMax[r] > 0
                         /\ Total(part[p].pending, r) + SizeOf(c, r) > QueueMax[r]]_vars

\* A dispatch always takes the oldest item of the partition, so items that do
\* not fit beside others cannot be overtaken forever.
OldestGoesFirst ==
  [][\A p \in Part : part'[p].pending # part[p].pending /\ inflight' # inflight =>
       Oldest(part[p].pending) \notin part'[p].pending]_vars
-----------------------------------------------------------------------------
(* Liveness, under FairSpec. *)

\* A submission is eventually answered: admitted, refused or given up
\* (handleSubmit, retryBlocked).
SubmissionsAnswered == \A c \in Caller : doing[c] = "submitted" ~> doing[c] # "submitted"

\* An admitted call eventually returns (dispatch, distribute, cancellation).
CallsReturn == \A c \in Caller : doing[c] = "admitted" ~> doing[c] = "returned"

\* A flush, drain or close request eventually returns.
ControlsReturn == \A k \in Ctl : ctl[k].at = "waiting" ~> ctl[k].at = "returned"

\* After Engine.Close has canceled the engine context the coordinator goroutine
\* terminates (run, handleEngineCancel).
CoordinatorStops == engineDone ~> pc = "stopped"
=============================================================================
