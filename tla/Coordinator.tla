----------------------------- MODULE Coordinator -----------------------------
(***************************************************************************)
(* The coordinator of one bound operation (src/runtime): callers run Do,   *)
(* one goroutine owns the queue and processes submissions, cancellations,  *)
(* provider completions, flush/drain/close requests, timers and engine     *)
(* cancellation one at a time.                                             *)
(*                                                                         *)
(* One turn of coordinator.run is several steps here, driven by pc:        *)
(*   select -> (handle)* -> [force ->] schedule -> settle -> select        *)
(* so that callers, contexts and Engine.Close interleave with it; no other *)
(* turn starts before the current one has settled.                         *)
(*                                                                         *)
(* Naming.  A call of Do is an element of Caller and is made once.  The    *)
(* item a call enqueues carries the name of that call, and a batch the     *)
(* name of its first item.  A partition's pending list is a set: the list  *)
(* is always in ascending seq order, so the set and seq determine it.      *)
(***************************************************************************)
EXTENDS Integers, Sequences, FiniteSets, FiniteSetsExt, Functions

CONSTANTS
  Caller,          \* the calls of Do
  Key,             \* the keys they ask for
  NumPartitions,   \* partitions, in the sorted order schedule visits them
  Inputs,          \* [Caller -> SUBSET Request]: what each call may ask for
  Cancellable,     \* calls whose context may end
  Res,             \* the accounted resources: queued weight and queued bytes
  Size,            \* [Key -> [Res -> Nat]]: what one item of a key accounts for
  MaxBatch,        \* [Res -> Nat]: hard batch limits, 0 for none
  QueueMax,        \* [Res -> Nat]: QueueLimits.MaxWeight/MaxBytes, 0 for none
  MaxItems, MaxWaiters, MaxPartitions,   \* the other QueueLimits, 0 for none
  MaxBatchSize, MaxConcurrency, MaxWait, DeadlineMargin,
  FlushMode,       \* "immediate", "window", "deadline" or "manual"
  Overflow,        \* "reject", "block" or "fallback"
  Dedup,           \* in-flight deduplication enabled
  Ctl, CtlKind,    \* flush, drain and close requests, and the kind of each
  Impatient,       \* control requests whose context may expire
  ItemOutcomes,    \* per-item outcomes the provider returns
  BatchErrors,     \* whole-batch failures the provider may produce
  Tunings,         \* AdaptiveSettings an adaptive controller may apply
  MaxTime          \* bound on the clock

Part == 1..NumPartitions
Request == [key : Key, part : Part, deadline : Nat]   \* deadline 0: none

ASSUME SizeAssumption ==
  /\ NumPartitions \in Nat
  /\ MaxBatchSize \in Nat \ {0} /\ MaxConcurrency \in Nat \ {0}
  /\ MaxWait \in Nat /\ DeadlineMargin \in Nat /\ MaxTime \in Nat
  /\ MaxItems \in Nat /\ MaxWaiters \in Nat /\ MaxPartitions \in Nat
ASSUME ResourceAssumption ==
  /\ Size \in [Key -> [Res -> Nat]]
  /\ MaxBatch \in [Res -> Nat] /\ QueueMax \in [Res -> Nat]
ASSUME CallAssumption ==
  /\ IsFiniteSet(Caller) /\ Cancellable \subseteq Caller
  /\ Inputs \in [Caller -> SUBSET Request]
ASSUME PolicyAssumption ==
  /\ FlushMode \in {"immediate", "window", "deadline", "manual"}
  /\ Overflow \in {"reject", "block", "fallback"} /\ Dedup \in BOOLEAN
ASSUME ControlAssumption ==
  /\ CtlKind \in [Ctl -> {"flush", "drain", "close"}] /\ Impatient \subseteq Ctl
ASSUME ProviderAssumption ==
  /\ ItemOutcomes \subseteq {"found", "missing", "failed"}
  /\ BatchErrors \subseteq {"panic", "error", "contract"}
ASSUME TuningAssumption ==
  Tunings \subseteq [maxWait : Int, maxBatchSize : Int, maxConcurrency : Int]

VARIABLES
  pc,              \* where the coordinator goroutine stands in its turn
  todo,            \* submissions handleSubmit still has to process this turn
  cursor,          \* the partition schedule is at
  partitions,      \* the keys of c.partitions
  part,            \* partitionState of each partition
  used,            \* its weight and bytes: the resources queued in each partition
  item,            \* qitem of each item
  submitSeq,
  inflight,        \* the batches of c.inflight
  batch,           \* batchInflight of each batch
  counted,         \* its activeWaiters
  activeProvider,
  blocked,         \* c.blocked: submissions parked by the block policy
  closing,
  barriers,        \* the control requests that have a pending barrier
  timer,           \* {} or {t}: the armed timer is due at t
  dyn,             \* the effective settings
  req,             \* what each call asks for
  doing,           \* where each call stands in Do
  outcome,         \* what each call returned
  ctxDone,         \* calls whose context has ended
  awaiting,        \* waiters that are still active (waiter.active)
  reply,           \* the admission reply channel of each call, capacity 1
  result,          \* the result channel of each call, capacity 1
  cancelCh,        \* cancelCh, in order
  ctl,             \* the control requests and their reply channels
  engineDone,      \* engine.ctx is canceled
  now              \* the clock

loopVars == <<pc, todo, cursor, timer>>
queueVars == <<partitions, part, used, item, submitSeq>>
batchVars == <<inflight, batch, counted, activeProvider>>
callVars == <<doing, outcome, ctxDone, cancelCh>>
deliveryVars == <<awaiting, result>>
envVars == <<req, dyn, engineDone, now>>
vars == <<loopVars, queueVars, batchVars, callVars, deliveryVars, envVars,
          blocked, closing, barriers, reply, ctl>>
-----------------------------------------------------------------------------
(* Data of the coordinator. *)

NewPartition == [pending |-> {}, active |-> {}, waiters |-> 0, live |-> 0]
NothingUsed == [r \in Res |-> 0]

NoItem == [waiters |-> {}, activeWaiters |-> 0, seq |-> 0, enqueue |-> 0]

\* cancelled: the coordinator called the batch's cancel function.
NoBatch == [items |-> {}, part |-> 0, cancelled |-> FALSE, deadline |-> 0]

Configured == [maxWait |-> MaxWait, maxBatchSize |-> MaxBatchSize,
               maxConcurrency |-> MaxConcurrency]

ClampTo(v, lo, hi) ==
  LET raised == IF v < lo THEN lo ELSE v
  IN  IF hi > 0 /\ raised > hi THEN hi ELSE raised

\* The settings ApplyAdaptiveSettings installs for input s.
Tuned(s) ==
  [maxWait |-> IF s.maxWait = 0 THEN MaxWait ELSE ClampTo(s.maxWait, 0, MaxWait),
   maxBatchSize |-> IF s.maxBatchSize > 0
                    THEN ClampTo(s.maxBatchSize, 1, MaxBatchSize) ELSE MaxBatchSize,
   maxConcurrency |-> IF s.maxConcurrency > 0
                      THEN ClampTo(s.maxConcurrency, 1, MaxConcurrency)
                      ELSE MaxConcurrency]

SizeOf(i, r) == Size[req[i].key][r]
Total(S, r) == MapThenSumSet(LAMBDA i : SizeOf(i, r), S)

\* The oldest item of a set of items.
Oldest(S) == CHOOSE i \in S : \A j \in S : item[i].seq <= item[j].seq

Before(S, i) == {j \in S : item[j].seq < item[i].seq}

WaitersOf(S) == UNION {item[i].waiters : i \in S}

\* deliver to every waiter of the items S: one result each, active ones only.
Deliver(S, kind) ==
  /\ result' = [c \in Caller |->
        IF c \in awaiting
        THEN result[c] \cup {[item |-> i, kind |-> kind[i]] :
                               i \in {j \in S : c \in item[j].waiters}}
        ELSE result[c]]
  /\ awaiting' = awaiting \ WaitersOf(S)

\* Mutant: nothing is given back.
LessUsedNot(p, S) == used[p]

\* The resources queued in p once the items S no longer count.
LessUsed(p, S) == [r \in Res |-> used[p][r] - Total(S, r)]

\* Store np and u as the state of partition p, or retire p when np holds no work.
MaybeRetire(p, np, u) ==
  LET idle == np.live = 0 /\ np.active = {} IN
  /\ partitions' = IF idle THEN partitions \ {p} ELSE partitions
  /\ part' = [part EXCEPT ![p] = IF idle THEN NewPartition ELSE np]
  /\ used' = [used EXCEPT ![p] = IF idle THEN NothingUsed ELSE u]

\* Mutant: queued items are not waited for.
DrainedProvider == inflight = {} /\ activeProvider = 0

\* No items and no in-flight batches remain.
Drained == inflight = {} /\ activeProvider = 0 /\ \A p \in partitions : part[p].live = 0
-----------------------------------------------------------------------------
Init ==
  /\ pc = "select" /\ todo = <<>> /\ cursor = 0 /\ timer = {}
  /\ partitions = {} /\ part = [p \in Part |-> NewPartition]
  /\ used = [p \in Part |-> NothingUsed]
  /\ item = [i \in Caller |-> NoItem] /\ submitSeq = 0
  /\ inflight = {} /\ batch = [h \in Caller |-> NoBatch]
  /\ counted = [h \in Caller |-> 0] /\ activeProvider = 0
  /\ blocked = <<>> /\ closing = FALSE /\ barriers = {} /\ dyn = Configured
  /\ req \in [Caller -> UNION {Inputs[c] : c \in Caller}]
  /\ \A c \in Caller : req[c] \in Inputs[c]
  /\ doing = [c \in Caller |-> "idle"] /\ outcome = [c \in Caller |-> "none"]
  /\ ctxDone = {} /\ awaiting = Caller
  /\ reply = [c \in Caller |-> {}] /\ result = [c \in Caller |-> {}]
  /\ cancelCh = <<>>
  /\ ctl = [k \in Ctl |-> [at |-> "idle", seq |-> 0, reply |-> {}, expired |-> FALSE]]
  /\ engineDone = FALSE /\ now = 0
-----------------------------------------------------------------------------
(* handleSubmit, for the submission of call c. *)

OverLimits(p, c) ==
  \/ MaxItems > 0 /\ Cardinality(part[p].pending) + 1 > MaxItems
  \/ MaxWaiters > 0 /\ part[p].waiters + 1 > MaxWaiters
  \/ \E r \in Res : QueueMax[r] > 0 /\ used[p][r] + SizeOf(c, r) > QueueMax[r]

\* Mutants: the index is shared by the partitions, misses dispatched items, or
\* trusts the hash.
JoinableAnywhere(p, c) ==
  {i \in UNION {part[q].active : q \in Part} : Dedup /\ req[i].key = req[c].key}
JoinableQueued(p, c) == {i \in part[p].pending : Dedup /\ req[i].key = req[c].key}
JoinableByHash(p, c) == {i \in part[p].active : Dedup}

\* The items of partition p the submission of c may join.
Joinable(p, c) == {i \in part[p].active : Dedup /\ req[i].key = req[c].key}

NoRoomForPartition(p) ==
  p \notin partitions /\ MaxPartitions > 0 /\ Cardinality(partitions) >= MaxPartitions

Reply(c, r) == reply' = [reply EXCEPT ![c] = @ \cup {r}]

ApplyOverflow(c, err) ==
  \/ Overflow = "fallback" /\ Reply(c, "fallback") /\ UNCHANGED blocked
  \/ Overflow = "block" /\ blocked' = Append(blocked, c) /\ UNCHANGED reply
  \/ Overflow = "reject" /\ Reply(c, err) /\ UNCHANGED blocked

Accepting == ~closing

SubmitWhileClosing(c) ==
  /\ closing
  /\ Reply(c, "closing")
  /\ UNCHANGED <<queueVars, blocked>>

SubmitNoPartition(c) ==
  /\ Accepting /\ NoRoomForPartition(req[c].part)
  /\ ApplyOverflow(c, "partitions")
  /\ UNCHANGED queueVars

\* The item once waiter c has joined it.
Joined(it, c) ==
  [waiters |-> it.waiters \cup {c}, activeWaiters |-> it.activeWaiters + 1,
   seq |-> it.seq, enqueue |-> it.enqueue]

SubmitJoin(c) ==
  LET p == req[c].part IN
  /\ Accepting /\ ~NoRoomForPartition(p)
  /\ \E i \in Joinable(p, c) :
       item' = [item EXCEPT ![i] = Joined(item[i], c)]
  /\ part' = [part EXCEPT ![p].waiters = @ + 1]
  /\ Reply(c, "admitted")
  /\ UNCHANGED <<partitions, used, submitSeq, blocked>>

SubmitOverLimit(c) ==
  LET p == req[c].part IN
  /\ Accepting /\ ~NoRoomForPartition(p) /\ Joinable(p, c) = {} /\ OverLimits(p, c)
  /\ partitions' = partitions \cup {p}
  /\ ApplyOverflow(c, "full")
  /\ UNCHANGED <<part, used, item, submitSeq>>

\* The partition once c is queued in it as a new item.
Enqueued(np, c) ==
  [pending |-> np.pending \cup {c}, active |-> np.active \cup {c},
   waiters |-> np.waiters + 1, live |-> np.live + 1]

SubmitEnqueue(c) ==
  LET p == req[c].part IN
  /\ Accepting /\ ~NoRoomForPartition(p) /\ Joinable(p, c) = {} /\ ~OverLimits(p, c)
  /\ partitions' = partitions \cup {p}
  /\ part' = [part EXCEPT ![p] = Enqueued(part[p], c)]
  /\ used' = [used EXCEPT ![p] = [r \in Res |-> @[r] + SizeOf(c, r)]]
  /\ submitSeq' = submitSeq + 1
  /\ item' = [item EXCEPT ![c] = [waiters |-> {c}, activeWaiters |-> 1,
                                  seq |-> submitSeq + 1, enqueue |-> now]]
  /\ Reply(c, "admitted")
  /\ UNCHANGED blocked

HandleSubmit(c) ==
  \/ SubmitWhileClosing(c)
  \/ SubmitNoPartition(c)
  \/ SubmitJoin(c)
  \/ SubmitOverLimit(c)
  \/ SubmitEnqueue(c)

\* The coordinator receives the submission of c from submitCh.
Submit(c) ==
  /\ pc = "select" /\ doing[c] = "idle"
  /\ doing' = [doing EXCEPT ![c] = "submitted"]
  /\ todo' = <<c>> /\ pc' = "handle"
  /\ UNCHANGED <<cursor, timer, queueVars, batchVars, outcome, ctxDone, cancelCh,
                 deliveryVars, envVars, blocked, closing, barriers, reply, ctl>>

\* handleSubmit runs for the next submission of this turn: the one just
\* received, or those retryBlocked replays.
Handle ==
  /\ pc = "handle"
  /\ HandleSubmit(Head(todo))
  /\ todo' = Tail(todo)
  /\ IF Tail(todo) = <<>> THEN pc' = "schedule" /\ cursor' = 1 ELSE UNCHANGED <<pc, cursor>>
  /\ UNCHANGED <<timer, batchVars, callVars, deliveryVars, envVars, closing, barriers, ctl>>
-----------------------------------------------------------------------------
(* handleCancel, for the next message of cancelCh. *)

StartSchedule == pc' = "schedule" /\ cursor' = 1

\* The caller left while its submission was parked: forget the submission.
CancelBlocked(m) ==
  LET at == {n \in DOMAIN blocked : blocked[n] = m.call} IN
  /\ m.blocked
  /\ \/ at = {} /\ UNCHANGED blocked
     \/ \E n \in at : blocked' = SubSeq(blocked, 1, n - 1) \o SubSeq(blocked, n + 1, Len(blocked))
  /\ UNCHANGED <<partitions, part, used, item, batch, counted, awaiting>>

\* The active items waiter c is found on; none once it has been served.
FoundOn(c) == {i \in part[req[c].part].active : c \in item[i].waiters /\ c \in awaiting}

CancelUnknown(m) ==
  /\ ~m.blocked /\ FoundOn(m.call) = {}
  /\ UNCHANGED <<blocked, partitions, part, used, item, batch, counted, awaiting>>

\* removePendingItem
RemovePending(np, i) ==
  [pending |-> np.pending \ {i}, active |-> np.active \ {i},
   waiters |-> np.waiters, live |-> np.live - 1]

\* The coordinator calls the cancel functions of the batches H.
CancelContexts(H) ==
  [h \in Caller |-> IF h \in H THEN [batch[h] EXCEPT !.cancelled = TRUE] ELSE batch[h]]

\* The in-flight batch of item i, if it was dispatched.
BatchOf(i) == {h \in inflight : i \in batch[h].items}

\* The batch of item i loses one of the waiters it counts; at zero its
\* context is canceled.
BatchLosesWaiter(i) ==
  /\ counted' = [h \in Caller |-> IF h \in BatchOf(i) THEN counted[h] - 1 ELSE counted[h]]
  /\ batch' = CancelContexts({h \in BatchOf(i) : counted[h] = 1})

\* Mutant: the item goes with its first cancellation.
LastWaiterAny(i) == TRUE

LastWaiter(i) == item[i].activeWaiters = 1

CancelWaiter(m) ==
  LET c == m.call
      p == req[c].part
      np == [part[p] EXCEPT !.waiters = @ - 1]
  IN
  /\ ~m.blocked
  /\ \E i \in FoundOn(c) :
       /\ item' = [item EXCEPT ![i].activeWaiters = @ - 1]
       /\ IF LastWaiter(i) /\ BatchOf(i) = {}
          THEN MaybeRetire(p, RemovePending(np, i), LessUsed(p, {i}))
          ELSE part' = [part EXCEPT ![p] = np] /\ UNCHANGED <<partitions, used>>
       /\ IF LastWaiter(i) THEN BatchLosesWaiter(i) ELSE UNCHANGED <<batch, counted>>
  /\ awaiting' = awaiting \ {c}
  /\ UNCHANGED blocked

HandleCancel ==
  /\ pc = "select" /\ cancelCh # <<>>
  /\ cancelCh' = Tail(cancelCh)
  /\ \/ CancelBlocked(Head(cancelCh))
     \/ CancelUnknown(Head(cancelCh))
     \/ CancelWaiter(Head(cancelCh))
  /\ StartSchedule
  /\ UNCHANGED <<todo, timer, submitSeq, inflight, activeProvider, doing, outcome,
                 ctxDone, result, envVars, closing, barriers, reply, ctl>>
-----------------------------------------------------------------------------
(* schedule: visit the partitions in order and dispatch what is due.  prune *)
(* and the activeWaiters = 0 branch of dispatchBatch find nothing to remove *)
(* (PendingIsAwaited below), so they have no counterpart here.              *)

\* The deadlines of the active waiters of the items S.
Deadlines(S) == {req[w].deadline : w \in WaitersOf(S) \cap awaiting} \ {0}

\* Mutant: immediate mode waits for a full batch.
ShouldDispatchFull(p) == pc = "force" \/ Cardinality(part[p].pending) >= dyn.maxBatchSize

ShouldDispatch(p) ==
  LET q == part[p].pending IN
  \/ pc = "force"
  \/ Cardinality(q) >= dyn.maxBatchSize
  \/ \E r \in Res : MaxBatch[r] > 0 /\ used[p][r] >= MaxBatch[r]
  \/ FlushMode = "immediate"
  \/ /\ FlushMode \in {"window", "deadline"} /\ dyn.maxWait > 0
     /\ now >= item[Oldest(q)].enqueue + dyn.maxWait
  \/ FlushMode = "deadline" /\ \E d \in Deadlines(q) : now >= d - DeadlineMargin

\* The loop condition of schedule for partition p, with shouldDispatch.
Eligible(p) ==
  /\ part[p].pending # {} /\ activeProvider < dyn.maxConcurrency
  /\ ShouldDispatch(p)

TooLarge(i) == \E r \in Res : MaxBatch[r] > 0 /\ SizeOf(i, r) > MaxBatch[r]

\* Mutant: one item too many.
FitsOneMore(S, i) == Cardinality(S) <= dyn.maxBatchSize

\* Item i keeps a batch that already holds the items S within its limits.
Fits(S, i) ==
  /\ Cardinality(S) + 1 <= dyn.maxBatchSize
  /\ \A r \in Res : MaxBatch[r] > 0 => Total(S, r) + SizeOf(i, r) <= MaxBatch[r]

\* Items met before anything was selected that exceed a limit on their own.
Oversized(p, S) == {i \in part[p].pending : Before(S, i) = {} /\ TooLarge(i)}

\* dispatchBatch's loop selects exactly S: it takes the first item that is not
\* too large and then each item that still fits, in order.
Selects(p, S) ==
  \A i \in part[p].pending :
    i \in S <=> IF Before(S, i) = {} THEN ~TooLarge(i) ELSE Fits(Before(S, i), i)

\* Mutant: the earliest deadline.
BatchDeadlineEarliest(S) == IF Deadlines(S) = {} THEN 0 ELSE Min(Deadlines(S))

\* The latest deadline, when every active waiter of every item has one.
BatchDeadline(S) ==
  IF \A i \in S : LET W == item[i].waiters \cap awaiting
                  IN  W # {} /\ \A w \in W : req[w].deadline # 0
  THEN Max(Deadlines(S)) ELSE 0

Scheduling == pc \in {"force", "schedule"} /\ cursor \in Part

\* The partition once the items S were selected and the items T failed.
Taken(np, S, T) ==
  [pending |-> np.pending \ (S \cup T), active |-> np.active \ T,
   waiters |-> np.waiters, live |-> np.live - Cardinality(T)]

\* Oversized items are failed without their size being given back.
TakeFromQueue(p, S) ==
  LET T == Oversized(p, S) IN
  /\ part' = [part EXCEPT ![p] = Taken(part[p], S, T)]
  /\ used' = [used EXCEPT ![p] = LessUsed(p, S)]
  /\ Deliver(T, [i \in T |-> "tooLarge"])

DispatchBatch(S) ==
  LET h == Oldest(S) IN
  /\ Scheduling /\ Eligible(cursor)
  /\ S # {} /\ Selects(cursor, S)
  /\ TakeFromQueue(cursor, S)
  /\ inflight' = inflight \cup {h}
  /\ batch' = [batch EXCEPT ![h] =
       [items |-> S, part |-> cursor, cancelled |-> FALSE, deadline |-> BatchDeadline(S)]]
  /\ counted' = [counted EXCEPT ![h] = MapThenSumSet(LAMBDA i : item[i].activeWaiters, S)]
  /\ activeProvider' = activeProvider + 1
  /\ UNCHANGED <<loopVars, partitions, item, submitSeq, callVars, envVars,
                 blocked, closing, barriers, reply, ctl>>

\* dispatchBatch found only oversized items.
FailOversized ==
  /\ Scheduling /\ Eligible(cursor)
  /\ Selects(cursor, {})
  /\ TakeFromQueue(cursor, {})
  /\ UNCHANGED <<loopVars, partitions, item, submitSeq, batchVars, callVars, envVars,
                 blocked, closing, barriers, reply, ctl>>

NextPartition ==
  /\ Scheduling /\ ~Eligible(cursor)
  /\ MaybeRetire(cursor, part[cursor], used[cursor])
  /\ cursor' = cursor + 1
  /\ UNCHANGED <<pc, todo, timer, item, submitSeq, batchVars, callVars, deliveryVars,
                 envVars, blocked, closing, barriers, reply, ctl>>

\* computeNextTimer: the earliest time-based flush of any partition.
FlushTimes(p) ==
  LET q == part[p].pending IN
  IF q = {} \/ FlushMode \notin {"window", "deadline"} THEN {}
  ELSE (IF dyn.maxWait > 0 THEN {item[Oldest(q)].enqueue + dyn.maxWait} ELSE {})
       \cup (IF FlushMode = "deadline" THEN {d - DeadlineMargin : d \in Deadlines(q)} ELSE {})

\* Mutant: the latest flush time.
NextTimerLatest ==
  LET times == UNION {FlushTimes(p) : p \in partitions}
  IN  IF times = {} THEN {} ELSE {Max(times)}

NextTimer ==
  LET times == UNION {FlushTimes(p) : p \in partitions}
  IN  IF times = {} THEN {} ELSE {Min(times)}

\* The forced pass of handleControl is followed by the pass of run.
EndSchedule ==
  /\ pc \in {"force", "schedule"} /\ cursor = NumPartitions + 1
  /\ timer' = NextTimer
  /\ IF pc = "force" THEN StartSchedule ELSE pc' = "settle" /\ UNCHANGED cursor
  /\ UNCHANGED <<todo, queueVars, batchVars, callVars, deliveryVars, envVars,
                 blocked, closing, barriers, reply, ctl>>

TimerFires ==
  /\ pc = "select" /\ \E t \in timer : now >= t
  /\ timer' = {} /\ StartSchedule
  /\ UNCHANGED <<todo, queueVars, batchVars, callVars, deliveryVars, envVars,
                 blocked, closing, barriers, reply, ctl>>
-----------------------------------------------------------------------------
(* Provider completions. *)

\* What a provider call for batch h can come back as: an outcome per item, or
\* one failure (panic, error, invalid response) for the whole batch.
Responses(h) ==
  [batch[h].items -> ItemOutcomes]
    \cup {[i \in batch[h].items |-> e] : e \in BatchErrors}

\* Mutant: retryBlocked iterates over c.blocked after clearing it.
RetriedNone == <<>>

\* The submissions retryBlocked replays.
Retried == blocked

\* Mutant: the provider slot is not given back.
ReleasedNever == activeProvider

Released == activeProvider - 1

\* The partition once the items S were served.
Served(np, S) ==
  [pending |-> np.pending, active |-> np.active \ S,
   waiters |-> np.waiters, live |-> np.live - Cardinality(S)]

\* handleComplete, with failBatch or distribute, then retryBlocked.
HandleComplete(h) ==
  LET b == batch[h] IN
  /\ pc = "select" /\ h \in inflight
  /\ inflight' = inflight \ {h} /\ batch' = [batch EXCEPT ![h] = NoBatch]
  /\ counted' = [counted EXCEPT ![h] = 0] /\ activeProvider' = Released
  /\ \E kind \in Responses(h) : Deliver(b.items, kind)
  /\ MaybeRetire(b.part, Served(part[b.part], b.items), used[b.part])
  /\ todo' = Retried /\ blocked' = <<>>
  /\ IF Retried = <<>> THEN StartSchedule ELSE pc' = "handle" /\ UNCHANGED cursor
  /\ UNCHANGED <<timer, item, submitSeq, callVars, envVars, closing, barriers, reply, ctl>>
-----------------------------------------------------------------------------
(* Flush, drain and close requests, and engine cancellation. *)

\* Mutant: off by one.
AnyPendingBelow(n) == \E p \in partitions : \E i \in part[p].pending : item[i].seq < n

AnyPending(n) == \E p \in partitions : \E i \in part[p].pending : item[i].seq <= n

\* A batch's minSeq is the seq of the item it is named after.
AnyInflight(n) == \E h \in inflight : item[h].seq <= n

BarrierSatisfied(k) ==
  /\ ~AnyPending(ctl[k].seq)
  /\ CtlKind[k] = "flush" \/ ~AnyInflight(ctl[k].seq)

AnswerControl(K, r) ==
  [k \in Ctl |-> IF k \in K THEN [ctl[k] EXCEPT !.reply = @ \cup {r}] ELSE ctl[k]]

\* handleControl: the forced pass sees the same submitSeq the barrier records.
HandleControl(k) ==
  /\ pc = "select" /\ ctl[k].at = "idle"
  /\ ctl' = [ctl EXCEPT ![k] = [at |-> "waiting", seq |-> submitSeq,
                                    reply |-> @.reply, expired |-> @.expired]]
  /\ closing' = (closing \/ CtlKind[k] = "close")
  /\ barriers' = barriers \cup {k}
  /\ pc' = "force" /\ cursor' = 1
  /\ UNCHANGED <<todo, timer, queueVars, batchVars, callVars, deliveryVars, envVars,
                 blocked, reply>>

\* The end of a turn: tryCompleteBarriers, then stop once closing and drained.
Settle ==
  LET late == {k \in barriers : ctl[k].expired}
      stop == closing /\ Drained
      ok == {k \in barriers \ late : stop \/ BarrierSatisfied(k)}
  IN
  /\ pc = "settle"
  /\ ctl' = [k \in Ctl |->
       IF k \in late THEN [ctl[k] EXCEPT !.reply = @ \cup {"timeout"}]
       ELSE IF k \in ok THEN [ctl[k] EXCEPT !.reply = @ \cup {"nil"}] ELSE ctl[k]]
  /\ barriers' = barriers \ (late \cup ok)
  /\ pc' = IF stop THEN "stopped" ELSE "select"
  /\ UNCHANGED <<todo, cursor, timer, queueVars, batchVars, callVars, deliveryVars, envVars,
                 blocked, closing, reply>>

HandleEngineCancel ==
  LET live == UNION {part[p].active : p \in partitions} IN
  /\ pc = "select" /\ engineDone
  /\ closing' = TRUE
  /\ Deliver(live, [i \in live |-> "closed"])
  /\ batch' = CancelContexts(inflight)
  /\ ctl' = AnswerControl(barriers, "closed") /\ barriers' = {}
  /\ IF Drained THEN pc' = "stopped" /\ UNCHANGED cursor ELSE StartSchedule
  /\ UNCHANGED <<todo, timer, queueVars, inflight, counted, activeProvider, callVars, envVars,
                 blocked, reply>>

\* control returns: on its reply, on its context, or because the coordinator
\* has stopped.
ControlReturns(k) ==
  /\ \/ ctl[k].at = "waiting" /\ ctl[k].reply # {}
     \/ ctl[k].at \in {"idle", "waiting"} /\ (ctl[k].expired \/ pc = "stopped")
  /\ ctl' = [ctl EXCEPT ![k].at = "returned"]
  /\ UNCHANGED <<loopVars, queueVars, batchVars, callVars, deliveryVars, envVars,
                 blocked, closing, barriers, reply>>

ControlExpires(k) ==
  /\ k \in Impatient /\ ctl[k].at # "returned" /\ ~ctl[k].expired
  /\ ctl' = [ctl EXCEPT ![k].expired = TRUE]
  /\ UNCHANGED <<loopVars, queueVars, batchVars, callVars, deliveryVars, envVars,
                 blocked, closing, barriers, reply>>

\* Engine.Close cancels the engine context after closeController returned.
EngineCancel ==
  /\ ~engineDone
  /\ \E k \in Ctl : CtlKind[k] = "close" /\ ctl[k].at = "returned"
  /\ engineDone' = TRUE
  /\ UNCHANGED <<loopVars, queueVars, batchVars, callVars, deliveryVars, req, dyn, now,
                 blocked, closing, barriers, reply, ctl>>
-----------------------------------------------------------------------------
(* Do, from its first select on. *)

otherThanCalls == <<loopVars, queueVars, batchVars, envVars, blocked, closing, barriers, ctl>>

Return(c, o) ==
  doing' = [doing EXCEPT ![c] = "returned"] /\ outcome' = [outcome EXCEPT ![c] = o]

ContextEnds(c) ==
  /\ c \in Cancellable \ ctxDone /\ doing[c] # "returned"
  /\ ctxDone' = ctxDone \cup {c}
  /\ UNCHANGED <<otherThanCalls, doing, outcome, cancelCh, deliveryVars, reply>>

\* The call ends before it was submitted.
NotSubmitted(c) ==
  /\ doing[c] = "idle"
  /\ \/ c \in ctxDone /\ Return(c, "ctx")
     \/ pc = "stopped" /\ Return(c, "closed")
  /\ UNCHANGED <<otherThanCalls, ctxDone, cancelCh, deliveryVars, reply>>

AwaitReply(c) ==
  /\ doing[c] = "submitted"
  /\ \E r \in reply[c] :
       IF r = "admitted" THEN doing' = [doing EXCEPT ![c] = "admitted"] /\ UNCHANGED outcome
       ELSE Return(c, r)
  /\ reply' = [reply EXCEPT ![c] = {}]
  /\ UNCHANGED <<otherThanCalls, ctxDone, cancelCh, deliveryVars>>

AwaitResult(c) ==
  /\ doing[c] = "admitted"
  /\ \E r \in result[c] : Return(c, r.kind)
  /\ result' = [result EXCEPT ![c] = {}]
  /\ UNCHANGED <<otherThanCalls, ctxDone, cancelCh, awaiting, reply>>

\* The context ended and nothing has arrived: tell the coordinator and leave.
Abandon(c) ==
  /\ c \in ctxDone
  /\ \/ doing[c] = "submitted" /\ reply[c] = {}
     \/ doing[c] = "admitted" /\ result[c] = {}
  /\ cancelCh' = Append(cancelCh, [call |-> c, blocked |-> doing[c] = "submitted"])
  /\ Return(c, "ctx")
  /\ UNCHANGED <<otherThanCalls, ctxDone, deliveryVars, reply>>

\* The coordinator has stopped; select may choose this over a ready result.
CoordinatorGone(c) ==
  /\ doing[c] \in {"submitted", "admitted"} /\ pc = "stopped"
  /\ Return(c, "closed")
  /\ UNCHANGED <<otherThanCalls, ctxDone, cancelCh, deliveryVars, reply>>
-----------------------------------------------------------------------------
(* The rest of the environment. *)

ApplyAdaptiveSettings ==
  /\ \E s \in Tunings : dyn' = Tuned(s)
  /\ UNCHANGED <<loopVars, queueVars, batchVars, callVars, deliveryVars, req, engineDone, now,
                 blocked, closing, barriers, reply, ctl>>

ClearAdaptiveSettings ==
  /\ dyn # Configured /\ dyn' = Configured
  /\ UNCHANGED <<loopVars, queueVars, batchVars, callVars, deliveryVars, req, engineDone, now,
                 blocked, closing, barriers, reply, ctl>>

\* Time passes between turns: a turn is short against the clock's unit.
Tick ==
  /\ pc = "select" /\ now < MaxTime /\ now' = now + 1
  /\ UNCHANGED <<loopVars, queueVars, batchVars, callVars, deliveryVars, req, dyn, engineDone,
                 blocked, closing, barriers, reply, ctl>>

\* Every call and control request has returned.
Finished ==
  /\ \A c \in Caller : doing[c] = "returned"
  /\ \A k \in Ctl : ctl[k].at = "returned"
  /\ pc \in {"select", "stopped"}
  /\ UNCHANGED vars

\* The steps of the coordinator goroutine within a turn.
Turn ==
  \/ Handle
  \/ Scheduling /\ \E S \in SUBSET part[cursor].pending : DispatchBatch(S)
  \/ FailOversized \/ NextPartition \/ EndSchedule \/ Settle

\* The events that start a turn.
Event ==
  \/ HandleCancel \/ TimerFires \/ HandleEngineCancel
  \/ \E c \in Caller : Submit(c) \/ HandleComplete(c)
  \/ \E k \in Ctl : HandleControl(k)

CallStep(c) == NotSubmitted(c) \/ AwaitReply(c) \/ AwaitResult(c) \/ Abandon(c) \/ CoordinatorGone(c)

Next ==
  \/ Turn \/ Event
  \/ \E c \in Caller : CallStep(c) \/ ContextEnds(c)
  \/ \E k \in Ctl : ControlReturns(k) \/ ControlExpires(k)
  \/ EngineCancel \/ ApplyAdaptiveSettings \/ ClearAdaptiveSettings \/ Tick \/ Finished

Spec == Init /\ [][Next]_vars

\* The coordinator finishes a turn it began; select picks among ready events at
\* random, so an event that is ready again and again is eventually taken (this
\* includes that a provider call returns); calls and control requests take
\* their own steps; time passes.
Fairness ==
  /\ WF_vars(Turn)
  /\ SF_vars(HandleCancel) /\ SF_vars(TimerFires) /\ SF_vars(HandleEngineCancel)
  /\ \A c \in Caller : SF_vars(HandleComplete(c)) /\ WF_vars(CallStep(c))
  /\ \A k \in Ctl : WF_vars(ControlReturns(k))
  /\ WF_vars(EngineCancel) /\ SF_vars(Tick)

FairSpec == Spec /\ Fairness

====
