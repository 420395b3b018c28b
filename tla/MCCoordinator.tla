----------------------------- MODULE MCCoordinator -----------------------------
(* Constant values for the TLC runs of the coordinator. *)
EXTENDS CoordinatorRefinement

CONSTANTS c1, c2, c3, c4, k1, k2, k3, d1, d2, z1

Ask(k, p, d) == [key |-> k, part |-> p, deadline |-> d]

\* Every call may ask for every key, in one partition.
InputsDup == [c \in Caller |-> {Ask(k, 1, 0) : k \in Key}]
\* Shared keys, a key of its own for one call, and two partitions.
InputsShared ==
  [c \in Caller |-> IF c = c3 THEN {Ask(k1, 1, 0), Ask(k3, 1, 0), Ask(k1, 2, 0)}
                   ELSE {Ask(k1, 1, 0), Ask(k2, 1, 0)}]
\* Light, heavy and oversized items in partition 1, and a call in partition 2.
InputsLimits ==
  [c \in Caller |-> CASE c = c1 -> {Ask(k1, 1, 0), Ask(k3, 1, 0)} [] c = c2 -> {Ask(k2, 1, 0)}
                      [] c = c3 -> {Ask(k1, 1, 0), Ask(k2, 1, 0)} [] c = c4 -> {Ask(k1, 2, 0)}]
\* A call with a near deadline, one with a far one, one without.
InputsDeadline == [c \in Caller |-> IF c = c1 THEN {Ask(k1, 1, 3), Ask(k1, 1, 0)} ELSE {Ask(k1, 1, 4)}]

\* What the items weigh, and the limits on batches and queue.
Unit == [k \in Key |-> [r \in Res |-> 1]]
Sizes == [k \in Key |-> [r \in Res |-> IF k = k1 THEN 1 ELSE IF k = k2 THEN 2 ELSE 4]]
NoLimit == [r \in Res |-> 0]
BatchOf3 == [r \in Res |-> 3]
QueueOf4 == [r \in Res |-> 4]

Kinds == [k \in Ctl |-> IF k = d1 THEN "drain" ELSE IF k = d2 THEN "flush" ELSE "close"]

\* Adaptive settings that shorten the wait and ask for more than is configured.
Faster == {[maxWait |-> 1, maxBatchSize |-> 9, maxConcurrency |-> 9]}
===============================================================================
