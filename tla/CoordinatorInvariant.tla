------------------------ MODULE CoordinatorInvariant ------------------------
(* The type invariant and the inductive invariant of the coordinator. *)
EXTENDS Coordinator

PartitionState ==
  [pending : SUBSET Caller, active : SUBSET Caller, waiters : Int, live : Int]
ItemState == [waiters : SUBSET Caller, activeWaiters : Int, seq : Nat, enqueue : Nat]
BatchState ==
  [items : SUBSET Caller, part : 0..NumPartitions, cancelled : BOOLEAN, deadline : Nat]
Refusals == {"closing", "full", "partitions", "fallback"}
ResultKinds == {"found", "missing", "failed", "panic", "error", "contract", "tooLarge", "closed"}
CtlState == [at : {"idle", "waiting", "returned"}, seq : Nat,
             reply : SUBSET {"nil", "timeout", "closed"}, expired : BOOLEAN]
Settings == [maxWait : Nat, maxBatchSize : 1..MaxBatchSize, maxConcurrency : 1..MaxConcurrency]

\* The state of the coordinator, its channels and the calls of Do is well-typed
\* (the two sums, used and counted, are left to UsageExact and to the properties
\* of batch contexts).
TypeOK ==
  /\ pc \in {"select", "handle", "force", "schedule", "settle", "stopped"}
  /\ todo \in Seq(Caller) /\ (pc = "handle" <=> todo # <<>>)
  /\ cursor \in 0..(NumPartitions + 1)
  /\ timer \in SUBSET Int
  /\ partitions \in SUBSET Part /\ part \in [Part -> PartitionState]
  /\ item \in [Caller -> ItemState] /\ submitSeq \in Nat
  /\ inflight \in SUBSET Caller /\ batch \in [Caller -> BatchState]
  /\ \A h \in inflight : batch[h].part \in Part
  /\ activeProvider \in Int
  /\ blocked \in Seq(Caller) /\ closing \in BOOLEAN /\ barriers \in SUBSET Ctl
  /\ dyn \in Settings /\ req \in [Caller -> Request]
  /\ doing \in [Caller -> {"idle", "submitted", "admitted", "returned"}]
  /\ outcome \in [Caller -> {"none", "ctx"} \cup Refusals \cup ResultKinds]
  /\ ctxDone \in SUBSET Caller /\ awaiting \in SUBSET Caller
  /\ reply \in [Caller -> SUBSET (Refusals \cup {"admitted"})]
  /\ result \in [Caller -> SUBSET [item : Caller, kind : ResultKinds]]
  /\ cancelCh \in Seq([call : Caller, blocked : BOOLEAN])
  /\ ctl \in [Ctl -> CtlState]
  /\ engineDone \in BOOLEAN /\ now \in Nat
-----------------------------------------------------------------------------
(* The inductive invariant, by theme. *)

\* Call c has not been through handleSubmit yet: not submitted, received this
\* turn, or parked.
Held(c) == doing[c] = "idle" \/ c \in Range(todo) \/ c \in Range(blocked)

Distinct(s) == \A m, n \in DOMAIN s : s[m] = s[n] => m = n

\* A submission is held once, and nothing was done for it: it waits on no item
\* and has no reply.
HeldOnce ==
  /\ Distinct(todo) /\ Distinct(blocked) /\ Range(todo) \cap Range(blocked) = {}
  /\ \A c \in Range(todo) \cup Range(blocked) : doing[c] # "idle"
  /\ \A c \in Caller : Held(c) =>
       /\ c \in awaiting /\ reply[c] = {}
       /\ \A i \in Caller : c \notin item[i].waiters

\* The items of a partition are those its callers asked for: every waiter of an
\* item, the one that created it included, wants its key in its partition.
WaitersAskedForIt ==
  \A p \in Part :
    /\ part[p].pending \subseteq part[p].active
    /\ \A i \in part[p].active :
         /\ i \in item[i].waiters
         /\ \A c \in item[i].waiters : req[c].part = p /\ req[c].key = req[i].key

\* A batch consists of items of its partition that left the queue, and no item
\* is in two batches.
BatchesDisjoint ==
  \A h \in inflight :
    /\ h \in batch[h].items
    /\ batch[h].items \subseteq part[batch[h].part].active \ part[batch[h].part].pending
    /\ \A g \in inflight : g # h => batch[g].items \cap batch[h].items = {}

\* A call waits on one item, and an item counts at least the waiters that are
\* still active.
WaitersCounted ==
  \A p \in Part : \A i \in part[p].active :
    /\ Cardinality(item[i].waiters \cap awaiting) <= item[i].activeWaiters
    /\ \A j \in part[p].active : item[i].waiters \cap item[j].waiters \cap awaiting # {} => i = j

\* Only calls that returned have been canceled; a call has an answer coming, and
\* only one, for what it asked.
AnswersComing ==
  /\ \A n \in DOMAIN cancelCh : doing[cancelCh[n].call] = "returned"
  /\ \A c \in Caller :
       /\ doing[c] = "submitted" /\ reply[c] = {} => Held(c)
       /\ doing[c] = "admitted" \/ (doing[c] = "submitted" /\ "admitted" \in reply[c]) =>
            result[c] # {} \/ FoundOn(c) # {}
       /\ c \in awaiting => result[c] = {}
       /\ \A r, s \in result[c] : r = s
       /\ \A r \in result[c] : req[r.item].key = req[c].key /\ req[r.item].part = req[c].part

IInv == HeldOnce /\ WaitersAskedForIt /\ BatchesDisjoint /\ WaitersCounted /\ AnswersComing
-----------------------------------------------------------------------------
(* The books: what the coordinator counts is what is there. *)

\* An item that left the queue is in an in-flight batch, the live count that
\* decides retirement is the number of items, and a retired partition holds
\* nothing (removeActive, live--, maybeRetire).
Booked ==
  \A p \in Part :
    /\ \A i \in part[p].active \ part[p].pending : BatchOf(i) # {}
    /\ part[p].live = Cardinality(part[p].active)
    /\ p \notin partitions => part[p] = NewPartition /\ used[p] = NothingUsed

\* Items are numbered as they are queued, no two alike, and a batch is named
\* after its oldest item (submitSeq, minSeq).
Numbered ==
  /\ \A p, q \in Part : \A i \in part[p].active, j \in part[q].active :
       item[i].seq \in 1..submitSeq /\ (item[i].seq = item[j].seq => i = j)
  /\ \A h \in inflight : \A i \in batch[h].items : item[h].seq <= item[i].seq

\* The provider slots in use are counted and within the configured limit, and
\* so is what each batch holds (dispatchBatch).
SlotsCounted ==
  /\ activeProvider = Cardinality(inflight) /\ activeProvider <= MaxConcurrency
  /\ \A h \in inflight :
       /\ Cardinality(batch[h].items) \in 1..MaxBatchSize
       /\ \A r \in Res : MaxBatch[r] > 0 => Total(batch[h].items, r) <= MaxBatch[r]

\* No item exceeds a hard batch limit on its own.
NothingOversized == \A k \in Key, r \in Res : MaxBatch[r] > 0 => Size[k][r] <= MaxBatch[r]

\* A partition accounts for the size of its queued items, or for more when
\* oversized items were failed, whose size is not given back; admission keeps
\* the account, the items and the partitions within their limits.
QueueCounted ==
  /\ used \in [Part -> [Res -> Int]]
  /\ \A p \in Part : \A r \in Res :
       /\ Total(part[p].pending, r) <= used[p][r]
       /\ NothingOversized => Total(part[p].pending, r) = used[p][r]
       /\ QueueMax[r] > 0 => used[p][r] <= QueueMax[r]
  /\ \A p \in Part : MaxItems > 0 => Cardinality(part[p].pending) <= MaxItems
  /\ MaxPartitions > 0 => Cardinality(partitions) <= MaxPartitions

\* The goroutine stops when there is nothing left to do.
StoppedIdle == pc = "stopped" => closing /\ Drained

Accounts == Booked /\ Numbered /\ SlotsCounted /\ QueueCounted /\ StoppedIdle
=============================================================================
