------------------------------ MODULE Replay ------------------------------
(***************************************************************************)
(* Offline replay of a workload under a policy (internal/adaptive:         *)
(* replay.go, synthetic.go) and the synthetic collection that forms the    *)
(* same batches (collectsim.go).  Events arrive in time order; they are    *)
(* grouped by partition into windows, and the batches, in the order they   *)
(* are ready, take the slot that is free first.                            *)
(***************************************************************************)
EXTENDS Histogram

CONSTANTS EventParts,     \* partition classes, numbers in their string order
          Gaps,           \* time between two arrivals
          DeadlinesAfter, \* deadlines relative to the arrival, 0 for none
          Policies,       \* the policies replayed: [wait, size, conc]
          Backends,       \* backend models: [fixed, item]
          MaxEvents       \* bound: length of the stream

VARIABLES events,   \* the stream so far
          policy,   \* the policy it is replayed under
          backend   \* the backend model

replayVars == <<events, policy, backend>>

AtLeastOne(n) == IF n < 1 THEN 1 ELSE n

\* GenerateWorkload: the pattern and the random stream decide the gaps, the
\* partition and the deadline.
Arrive ==
    /\ Len(events) < MaxEvents
    /\ \E g \in Gaps, p \in EventParts, d \in DeadlinesAfter :
        events' = Append(events, [at |-> (IF events = <<>> THEN 0 ELSE Last(events).at) + g,
                                  part |-> p, deadline |-> d])
    /\ UNCHANGED <<policy, backend>>

ReplayInit == events = <<>> /\ policy \in Policies /\ backend \in Backends

ReplayNext == Arrive

\* The indices of a partition's events, in arrival order.
byPart(ev, p) == SelectSeq([i \in DOMAIN ev |-> i], LAMBDA i : ev[i].part = p)

\* The window w = [cur, start, out] is closed: its batch is ready when the
\* window ends, or with its last event.
flush(ev, w, wait) ==
    IF w.cur = <<>> THEN w
    ELSE LET end  == w.start + wait
             last == ev[Last(w.cur)].at
         IN  [w EXCEPT !.cur = <<>>,
                       !.out = Append(@, [ready |-> IF last > end THEN last ELSE end, items |-> w.cur])]

\* Event i joins the window, which is closed first when i is past it and
\* afterwards when it is full.
AddToWindow(ev, w, i, wait, size) ==
    LET past == w.cur # <<>> /\ ev[i].at > w.start + wait
        open == IF past THEN flush(ev, w, wait) ELSE w
        now  == [open EXCEPT !.start = IF open.cur = <<>> THEN ev[i].at ELSE @, !.cur = Append(@, i)]
    IN  IF Len(now.cur) >= size THEN flush(ev, now, wait) ELSE now

PartBatches(ev, p, wait, size) ==
    flush(ev, FoldLeft(LAMBDA w, i : AddToWindow(ev, w, i, wait, AtLeastOne(size)),
                       [cur |-> <<>>, start |-> 0, out |-> <<>>], byPart(ev, p)), wait).out

\* A stable sort by the time batches are ready: of two ready together the one
\* of the lesser partition, or the earlier of a partition, is first.
Batches(ev, wait, size) ==
    LET parts == SetToSortSeq({ev[i].part : i \in DOMAIN ev}, <)
        all   == FoldLeft(LAMBDA s, p : s \o PartBatches(ev, p, wait, size), <<>>, parts)
        order == SetToSortSeq(DOMAIN all, LAMBDA i, j : all[i].ready < all[j].ready
                                                       \/ (all[i].ready = all[j].ready /\ i < j))
    IN  [n \in DOMAIN all |-> all[order[n]]]

\* Mutant: every batch takes the first slot.
FirstSlot(slots) == 1

\* The earliest free slot, the first of several.
FreeSlot(slots) ==
    CHOOSE s \in DOMAIN slots : \A t \in DOMAIN slots : slots[s] < slots[t] \/ (slots[s] = slots[t] /\ s <= t)

Dispatched(st, b, be) ==
    LET s     == FreeSlot(st.slots)
        start == IF st.slots[s] > b.ready THEN st.slots[s] ELSE b.ready
        done  == start + be.fixed + be.item * Len(b.items)
    IN  [slots |-> [st.slots EXCEPT ![s] = done],
         runs |-> Append(st.runs, [slot |-> s, ready |-> b.ready, start |-> start, done |-> done, items |-> b.items])]

Runs(ev, pol, be) ==
    FoldLeft(LAMBDA st, b : Dispatched(st, b, be),
             [slots |-> [s \in 1..AtLeastOne(pol.conc) |-> 0], runs |-> <<>>],
             Batches(ev, pol.wait, pol.size)).runs

Delay(ev, run, i) == IF run.start < ev[i].at THEN 0 ELSE run.start - ev[i].at

Missed(ev, i, done) == ev[i].deadline > 0 /\ ev[i].at + ev[i].deadline < done

RunOf(runs, i) == runs[CHOOSE r \in DOMAIN runs : i \in ToSet(runs[r].items)]

\* The modelled outcome, without the cost score made from it.
Simulate(ev, pol, be) ==
    LET runs   == Runs(ev, pol, be)
        delays == FoldLeft(LAMBDA h, r : FoldLeft(LAMBDA g, i : Observe(g, Delay(ev, r, i), TRUE), h, r.items),
                           NewHistogram(1), runs)
    IN  [batches |-> Len(runs),
         misses |-> Cardinality({i \in DOMAIN ev : Missed(ev, i, RunOf(runs, i).done)}),
         p50 |-> Quantile(delays, 50), p95 |-> Quantile(delays, 95), max |-> delays.max]

\* CollectSynthetic: what is recorded of event i as a call, its batch being
\* dispatched the moment it is ready and its latency that of a batch of one.
CollectedCall(ev, bs, be, i) ==
    LET b    == bs[CHOOSE n \in DOMAIN bs : i \in ToSet(bs[n].items)]
        wait == b.ready - ev[i].at
    IN  [wait |-> IF wait < 0 THEN 0 ELSE wait,
         hasDeadline |-> ev[i].deadline > 0,
         missed |-> Missed(ev, i, b.ready + be.fixed + be.item),
         latency |-> wait + be.fixed + be.item]

-----------------------------------------------------------------------------

\* The windowed rule (replay.go Simulate, collectsim.go): every event is in
\* exactly one batch, with events of its partition that came within the
\* batch's window, at most the batch size of them, and a batch is only closed
\* short of that size when the partition's next event is past its window.
WindowsHold ==
    LET bs    == Batches(events, policy.wait, policy.size)
        cap   == AtLeastOne(policy.size)
        first(b) == events[b.items[1]]
    IN  /\ \A i \in DOMAIN events : Cardinality({n \in DOMAIN bs : i \in ToSet(bs[n].items)}) = 1
        /\ \A n \in DOMAIN bs :
            /\ Len(bs[n].items) <= cap
            /\ \A i \in ToSet(bs[n].items) :
                /\ events[i].part = first(bs[n]).part
                /\ events[i].at <= first(bs[n]).at + policy.wait
                /\ events[i].at <= bs[n].ready
            /\ Len(bs[n].items) < cap =>
                \A j \in DOMAIN events :
                    j > Last(bs[n].items) /\ events[j].part = first(bs[n]).part
                      => events[j].at > first(bs[n]).at + policy.wait

\* Concurrency in the replay (replay.go Simulate): a slot runs one batch at a
\* time, and a batch that waits waits because every slot is busy until it
\* starts.
SlotsHold ==
    LET runs == Runs(events, policy, backend)
        busy(r, t) == runs[r].start <= t /\ t < runs[r].done
    IN  /\ \A q, r \in DOMAIN runs : q < r /\ runs[q].slot = runs[r].slot => runs[q].done <= runs[r].start
        /\ \A r \in DOMAIN runs : \A t \in runs[r].ready..runs[r].start - 1 :
            Cardinality({q \in DOMAIN runs : q < r /\ busy(q, t)}) = AtLeastOne(policy.conc)

\* A profile collected from a workload and a replay of it agree (collectsim.go
\* against replay.go): with a slot for every batch, each event's replayed
\* delay is the queue wait that was recorded for it, and a deadline recorded
\* as missed is missed in the replay.
CollectionIsReplayed ==
    LET bs   == Batches(events, policy.wait, policy.size)
        wide == [policy EXCEPT !.conc = Len(bs)]
        runs == Runs(events, wide, backend)
        call(i) == CollectedCall(events, bs, backend, i)
    IN  /\ \A i \in DOMAIN events :
            /\ Delay(events, RunOf(runs, i), i) = call(i).wait
            /\ call(i).missed => Missed(events, i, RunOf(runs, i).done)
        /\ Cardinality({i \in DOMAIN events : call(i).missed}) <= Simulate(events, wide, backend).misses
=============================================================================
