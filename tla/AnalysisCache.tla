---------------------------- MODULE AnalysisCache ----------------------------
(* The daemon's analysis cache (internal/analysiscache) under the requests that *)
(* use it (daemon.handleAnalysis): a single-flight LRU in memory over a bounded *)
(* disk tier.  The sources of the workspace change under the daemon; a request  *)
(* hashes them, looks its key up, and computes when it finds nothing.           *)
(*                                                                              *)
(*   source   what the workspace contains now: the key of a request is the      *)
(*            digest of what it contained when the request read it;             *)
(*   memory   the LRU list, most recently used first;                           *)
(*   disk     the files of the cache directory, oldest modification first, each *)
(*            with the value stored and whether its digest still holds;         *)
(*   inflight the leader of each key being computed, NoLeader where none is;    *)
(*   req      the requests: where each is, its key, the value it holds, and, at *)
(*            the end, its outcome;                                             *)
(*   computed the values the analysis returned under each key; untrimmed, that  *)
(*            the daemon stopped between a write and the trimming after it.     *)
EXTENDS Integers, Sequences, FiniteSets, SequencesExt

CONSTANTS Sources,       \* contents of the workspace
          SizeOf,        \* the size of the snapshot of each
          Requests,      \* concurrent requests
          MaxEntries, MaxBytes, MaxDiskBytes,
          MaxFaults      \* source edits, disk corruptions and restarts

VARIABLE cache

NoLeader == 0
Idle == [at |-> "idle", key |-> 0, val |-> 0, out |-> "none", leader |-> NoLeader]

(* What an earlier daemon left in the directory: nothing, or one file, which is *)
(* damaged since if it does not hold the snapshot of its key.                   *)
Leftovers ==
    {<<>>} \cup {<<[key |-> k, val |-> v, size |-> SizeOf[k], sound |-> k = v]>> :
                    k, v \in {k \in Sources : SizeOf[k] <= MaxDiskBytes}}

CacheInit ==
    \E s \in Sources, left \in Leftovers :
        cache = [source |-> s, memory |-> <<>>, disk |-> left,
                 inflight |-> [k \in Sources |-> NoLeader],
                 req |-> [r \in Requests |-> Idle], untrimmed |-> FALSE,
                 computed |-> [k \in Sources |-> {left[i].key : i \in DOMAIN left} \cap {k}],
                 faults |-> 0]

Sum(s) == FoldLeft(LAMBDA n, e : n + e.size, 0, s)
KeysOf(s) == {s[i].key : i \in DOMAIN s}
Find(s, k) == s[CHOOSE i \in DOMAIN s : s[i].key = k]
Without(s, k) == SelectSeq(s, LAMBDA e : e.key # k)

-------------------------------------------------------------------------------
(* insertLocked: the entry goes to the front, then the back is evicted until    *)
(* both bounds hold; a value larger than the whole cache is not kept.           *)
Fits(s) == Len(s) <= MaxEntries /\ Sum(s) <= MaxBytes

Inserted(mem, k, v) ==
    LET all == <<[key |-> k, val |-> v, size |-> SizeOf[v]]>> \o Without(mem, k)
        n   == CHOOSE n \in 0 .. Len(all) :
                   /\ Fits(SubSeq(all, 1, n))
                   /\ n = Len(all) \/ ~Fits(SubSeq(all, 1, n + 1))
    IN  IF SizeOf[v] > MaxBytes THEN mem ELSE SubSeq(all, 1, n)

MovedToFront(mem, k) == <<Find(mem, k)>> \o Without(mem, k)

Set(r, rec) == [cache.req EXCEPT ![r] = rec]

-------------------------------------------------------------------------------
(* A request hashes the sources of the moment (SourceDigest, Key), then looks   *)
(* the key up under the lock: a hit in memory, a computation to share, or the   *)
(* lead of a new one.                                                           *)
Hash(r) ==
    /\ cache.req[r].at = "idle"
    /\ cache' = [cache EXCEPT !.req = Set(r, [Idle EXCEPT !.at = "lookup", !.key = cache.source])]

GetOrCompute(r) ==
    LET q == cache.req[r] IN
    /\ q.at = "lookup"
    /\ cache' =
        IF q.key \in KeysOf(cache.memory)
        THEN [cache EXCEPT !.memory = MovedToFront(@, q.key),
                           !.req = Set(r, [q EXCEPT !.at = "done", !.out = "memory",
                                                    !.val = Find(cache.memory, q.key).val])]
        ELSE IF cache.inflight[q.key] # NoLeader
        THEN [cache EXCEPT !.req = Set(r, [q EXCEPT !.at = "wait",
                                                    !.leader = cache.inflight[q.key]])]
        ELSE [cache EXCEPT !.inflight[q.key] = r,
                           !.req = Set(r, [q EXCEPT !.at = "load"])]

(* Mutant: the digest of a file is not checked.                                 *)
DiskUnverified(r) ==
    LET q == cache.req[r]
        k == q.key
    IN
    /\ q.at = "load"
    /\ cache' =
        IF k \notin KeysOf(cache.disk)
        THEN [cache EXCEPT !.req = Set(r, [q EXCEPT !.at = "compute"])]
        ELSE LET v == Find(cache.disk, k).val IN
             [cache EXCEPT !.memory = Inserted(@, k, v),
                           !.req = Set(r, [q EXCEPT !.at = "finish", !.out = "disk", !.val = v])]

(* loadDisk: a file that fails a check is removed and counted, and is a miss.   *)
loadDisk(r) ==
    LET q == cache.req[r]
        k == q.key
        found == k \in KeysOf(cache.disk)
    IN
    /\ q.at = "load"
    /\ cache' =
        IF ~found
        THEN [cache EXCEPT !.req = Set(r, [q EXCEPT !.at = "compute"])]
        ELSE IF ~Find(cache.disk, k).sound
        THEN [cache EXCEPT !.disk = Without(@, k),
                           !.req = Set(r, [q EXCEPT !.at = "compute"])]
        ELSE LET f == Find(cache.disk, k) IN
             [cache EXCEPT !.disk = Append(Without(@, k), f),
                           !.memory = Inserted(@, k, f.val),
                           !.req = Set(r, [q EXCEPT !.at = "finish", !.out = "disk",
                                                    !.val = f.val])]

(* The analysis reads the sources as they are now, or fails (its own errors and *)
(* the cancellation of the request that leads).                                 *)
Compute(r) ==
    LET q == cache.req[r]
        v == cache.source
    IN
    /\ q.at = "compute"
    /\ \/ cache' = [cache EXCEPT !.req = Set(r, [q EXCEPT !.at = "finish", !.out = "failed"])]
       \/ cache' = [cache EXCEPT !.computed[q.key] = @ \cup {v},
                                 !.memory = Inserted(@, q.key, v),
                                 !.req = Set(r, [q EXCEPT !.at = "write", !.out = "compute",
                                                          !.val = v])]

(* writeDisk: a temporary file renamed over the entry, or nothing at all.       *)
writeDisk(r) ==
    LET q == cache.req[r]
        f == [key |-> q.key, val |-> q.val, size |-> SizeOf[q.val], sound |-> TRUE]
    IN
    /\ q.at = "write"
    /\ \/ cache' = [cache EXCEPT !.disk = Append(Without(@, q.key), f),
                                 !.req = Set(r, [q EXCEPT !.at = "trim"])]
       \/ cache' = [cache EXCEPT !.req = Set(r, [q EXCEPT !.at = "finish"])]

(* enforceDiskLimit: the oldest files go until the rest fits.                   *)
enforceDiskLimit(r) ==
    LET q == cache.req[r]
        d == cache.disk
        n == CHOOSE n \in 1 .. Len(d) + 1 :
                 /\ Sum(SubSeq(d, n, Len(d))) <= MaxDiskBytes
                 /\ n = 1 \/ Sum(SubSeq(d, n - 1, Len(d))) > MaxDiskBytes
    IN
    /\ q.at = "trim"
    /\ cache' = [cache EXCEPT !.disk = SubSeq(d, n, Len(d)), !.untrimmed = FALSE,
                              !.req = Set(r, [q EXCEPT !.at = "finish"])]

(* Mutant: the waiters are not woken.                                           *)
FinishQuietly(r) ==
    LET q == cache.req[r] IN
    /\ q.at = "finish"
    /\ cache' = [cache EXCEPT !.inflight[q.key] = NoLeader,
                              !.req = Set(r, [q EXCEPT !.at = "done"])]

(* The leader publishes its outcome, gives the key up and wakes who waits.      *)
Finish(r) ==
    LET q == cache.req[r] IN
    /\ q.at = "finish"
    /\ cache' = [cache EXCEPT
         !.inflight[q.key] = NoLeader,
         !.req = [w \in Requests |->
                    IF w = r THEN [q EXCEPT !.at = "done"]
                    ELSE IF @[w].at = "wait" /\ @[w].leader = r
                    THEN [@[w] EXCEPT !.at = "woken", !.val = q.val,
                                      !.out = IF q.out = "failed" THEN "failed" ELSE "shared"]
                    ELSE @[w]]]

Wake(r) ==
    LET q == cache.req[r] IN
    /\ q.at = "woken"
    /\ cache' = [cache EXCEPT !.req = Set(r, [q EXCEPT !.at = "done"])]

(* A waiter whose own context ends leaves without the leader.                   *)
Leave(r) ==
    LET q == cache.req[r] IN
    /\ q.at \in {"wait", "woken"}
    /\ cache' = [cache EXCEPT !.req = Set(r, [q EXCEPT !.at = "done", !.out = "failed"])]

Reuse(r) ==
    /\ cache.req[r].at = "done"
    /\ cache' = [cache EXCEPT !.req = Set(r, Idle)]

-------------------------------------------------------------------------------
(* The surroundings: the developer edits, a file rots, the daemon restarts (its *)
(* memory and its requests are gone, its directory is not).                     *)
EditSource ==
    \E s \in Sources \ {cache.source} :
        cache' = [cache EXCEPT !.source = s, !.faults = @ + 1]

CorruptFile ==
    \E i \in DOMAIN cache.disk :
        /\ cache.disk[i].sound
        /\ \E v \in Sources \ {cache.disk[i].val} :
            cache' = [cache EXCEPT !.disk[i].sound = FALSE, !.disk[i].val = v,
                                   !.faults = @ + 1]

Restart ==
    /\ cache' = [cache EXCEPT !.memory = <<>>, !.faults = @ + 1,
                              !.inflight = [k \in Sources |-> NoLeader],
                              !.req = [r \in Requests |-> Idle],
                              !.untrimmed = @ \/ \E r \in Requests : cache.req[r].at = "trim"]

RequestNext(r) ==
    GetOrCompute(r) \/ loadDisk(r) \/ Compute(r) \/ writeDisk(r)
    \/ enforceDiskLimit(r) \/ Finish(r) \/ Wake(r)

CacheNext ==
    \/ \E r \in Requests : Hash(r) \/ RequestNext(r) \/ Leave(r) \/ Reuse(r)
    \/ cache.faults < MaxFaults /\ (EditSource \/ CorruptFile \/ Restart)

CacheFairness == \A r \in Requests : WF_cache(RequestNext(r))

-------------------------------------------------------------------------------
(* What a request gets under its key is what an analysis returned under that    *)
(* key: through evictions, shared computations, restarts and rotten files, no   *)
(* request is served another key's snapshot or a damaged one (GetOrCompute,     *)
(* loadDisk).                                                                   *)
ServedIsComputed ==
    \A r \in Requests :
        LET q == cache.req[r] IN
        q.at = "done" /\ q.out # "failed" => q.val \in cache.computed[q.key]

(* Concurrent misses compute once: two requests of one daemon are never between *)
(* the miss and the end of the computation of the same key, and whoever is      *)
(* there is the registered leader (GetOrCompute).                               *)
OneLeaderPerKey ==
    \A r \in Requests :
        cache.req[r].at \in {"load", "compute", "write", "trim", "finish"} =>
            cache.inflight[cache.req[r].key] = r

(* Both tiers stay within their bounds: memory always, the disk whenever no     *)
(* write is being trimmed or was cut off before it was; and no key is in the    *)
(* memory tier twice (insertLocked, enforceDiskLimit).                          *)
TiersBounded ==
    /\ Fits(cache.memory)
    /\ Cardinality(KeysOf(cache.memory)) = Len(cache.memory)
    /\ ~cache.untrimmed /\ (\A r \in Requests : cache.req[r].at # "trim") => Sum(cache.disk) <= MaxDiskBytes

(* A request that looked its key up returns: leaders always publish, so nobody  *)
(* waits for ever on another's computation (GetOrCompute).                      *)
LookupsReturn ==
    \A r \in Requests : cache.req[r].at = "lookup" ~> cache.req[r].at \in {"done", "idle"}
===============================================================================
