----------------------------- MODULE Profiles -----------------------------
(***************************************************************************)
(* Workload profiles (internal/adaptive: collector.go, sampling.go,        *)
(* privacy.go, digest.go, persist.go, compat.go, phasechange.go) and the   *)
(* `profile` commands that save, merge and check them.  A collector counts *)
(* calls, batches and rejections of each operation under its lock; its     *)
(* bundle is written to a file by way of a temporary file; bundles read    *)
(* back from files are merged into another file.                           *)
(*                                                                         *)
(* A metric is a name: Counters, Hists and Maps are the counters,          *)
(* histograms and categorical maps of opAccumulator.  A class label stands *)
(* for the keyed hash of the identifier it is written as, and a digest for *)
(* the content it covers.                                                  *)
(***************************************************************************)
EXTENDS Histogram

CONSTANTS MaxKeys,        \* maxCategoricalKeys
          Collectors,     \* the CollectorOptions a collector is made with
          CallObs,        \* CallObservations
          BatchObs,       \* BatchObservations
          Rejected,       \* operations whose queue rejects a call
          HashesBelow,    \* the sampling keys whose hash is below the rate's threshold
          ProfilePaths,   \* files profiles are written to
          Requirements,   \* CompatibilityRequirements
          MaxRecords,     \* bound: observations of all collectors
          MaxSaves,       \* bound: collections written
          MaxMerges       \* bound: merged profiles written

VARIABLES ptime,    \* the collector's clock
          col,      \* the collector, or NoCollector
          profiles, \* path -> the bundle in the file, Absent, or Torn
          tmp,      \* the temporary file being written, or NoTemp
          work      \* observations, collections and merges so far (bounds)

profileVars == <<ptime, col, profiles, tmp, work>>

None == -1
NoCollector == [mode |-> "none"]
NoTemp == [stage |-> "none"]
Absent == [is |-> "absent"]
Torn == [is |-> "torn"]

Counters == {"logicalCalls", "rejections", "batches", "backendCalls", "throttleEvents",
             "withDeadline", "deadlineMiss", "errTotal", "duplicates", "unique", "fbTotal"}
Hists == {"interArrival", "queueWait", "queueDepth", "batchSize", "batchWeight",
          "backendLatency", "serialization", "mapping", "deadlineSlack", "payloadBytes",
          "chunks", "fairWait"}
Maps == {"flushReasons", "errByClass", "partByClass", "fbByReason", "fairShare"}

recordsHistograms(mode) == mode \in {"histograms", "sampled-events", "full-local-debug"}
recordsEvents(mode) == mode \in {"sampled-events", "full-local-debug"}

NewSampler(strategy, pct) ==
    IF strategy \in {"fixed-probability", "tail-biased"}
    THEN [strategy |-> strategy, rate |-> IF pct < 0 THEN 0 ELSE IF pct > 100 THEN 100 ELSE pct]
    ELSE [strategy |-> "all", rate |-> 100]

Sample(s, key, isTail) ==
    \/ s.strategy = "all"
    \/ s.rate >= 100
    \/ s.strategy = "tail-biased" /\ isTail
    \/ s.rate > 0 /\ key \in HashesBelow

Metadata(s, dropped) ==
    [strategy |-> s.strategy, rate |-> s.rate, tailBiased |-> s.strategy = "tail-biased", dropped |-> dropped]

NewCollector(o) ==
    [mode |-> IF o.mode = "" THEN "histograms" ELSE o.mode,
     acc |-> o.acc, abi |-> o.abi, config |-> o.config,
     sampler |-> NewSampler(o.strategy, o.rate),
     maxPart |-> o.maxPart, maxTenant |-> o.maxTenant,
     parts |-> {}, tenants |-> {}, ops |-> <<>>, dropped |-> 0, started |-> ptime]

newOpAccumulator(c) ==
    [counts |-> [n \in Counters |-> 0], hists |-> [n \in Hists |-> NewHistogram(c.acc)],
     maps |-> [n \in Maps |-> <<>>], distinct |-> {}, modes |-> <<>>, lastArrival |-> None]

opFor(c, op) == IF op \in DOMAIN c.ops THEN c.ops[op] ELSE newOpAccumulator(c)

With(f, k, x) == [d \in DOMAIN f \cup {k} |-> IF d = k THEN x ELSE f[d]]

CountOf(m, k) == IF k \in DOMAIN m THEN m[k] ELSE 0

\* The label of an identifier, and the identifiers that then have one.
Class(known, max, raw) ==
    IF raw = "" THEN "class_default"
    ELSE IF raw \notin known /\ Cardinality(known) >= max THEN "class_overflow"
    ELSE raw

Known(known, max, raw) ==
    IF Class(known, max, raw) = raw /\ raw # "" THEN known \cup {raw} ELSE known

\* Mutant: a key beyond the bound is dropped.
addCountDrops(m, key, n) ==
    IF key \notin DOMAIN m /\ Cardinality(DOMAIN m) >= MaxKeys THEN m
    ELSE With(m, key, CountOf(m, key) + n)

\* boundedInc, with n = 1, and one round of mergeCounts: a key beyond the
\* bound is counted under the overflow class.
addCount(m, key, n) ==
    LET k == IF key \notin DOMAIN m /\ Cardinality(DOMAIN m) >= MaxKeys THEN "class_overflow" ELSE key
    IN  With(m, k, CountOf(m, k) + n)

Positive(v) == IF v > 0 THEN v ELSE None

\* An accumulator after the counters, map keys and samples of one observation:
\* functions on the metrics it may touch, FALSE, "" and None where it does not.
Tallied(acc, mode, counts, keys, samples, low) ==
    [acc EXCEPT
       !.counts = [n \in Counters |-> @[n] + (IF n \in DOMAIN counts THEN IF counts[n] THEN 1 ELSE 0 ELSE 0)],
       !.maps = [n \in Maps |-> IF n \in DOMAIN keys THEN IF keys[n] # "" THEN addCount(@[n], keys[n], 1)
                                                          ELSE @[n] ELSE @[n]],
       !.hists = [n \in Hists |->
                    IF recordsHistograms(mode) /\ n \in DOMAIN samples
                    THEN IF samples[n] # None THEN Observe(@[n], samples[n], low) ELSE @[n]
                    ELSE @[n]]]

CallCounts(o) ==
    [logicalCalls |-> TRUE, duplicates |-> o.duplicate, unique |-> ~o.duplicate,
     withDeadline |-> o.hasDeadline, deadlineMiss |-> o.missed,
     fbTotal |-> o.fallback, errTotal |-> o.errorClass # ""]

CallKeys(o, part, tenant) ==
    [fbByReason |-> IF ~o.fallback THEN "" ELSE IF o.reason = "" THEN "unspecified" ELSE o.reason,
     errByClass |-> o.errorClass, partByClass |-> part, fairShare |-> tenant]

CallSamples(o, acc, now) ==
    [interArrival |-> IF acc.lastArrival = None THEN None ELSE now - acc.lastArrival,
     queueWait |-> o.wait, fairWait |-> o.wait, queueDepth |-> Positive(o.depth),
     deadlineSlack |-> IF o.hasDeadline THEN o.slack ELSE None, payloadBytes |-> Positive(o.bytes)]

ModeCalled(modes, c, o, low) ==
    LET m == IF o.mode \in DOMAIN modes THEN modes[o.mode]
             ELSE [calls |-> 0, latency |-> NewHistogram(c.acc)]
    IN  With(modes, o.mode,
             [calls |-> m.calls + 1,
              latency |-> IF recordsHistograms(c.mode) /\ o.latency > 0
                          THEN Observe(m.latency, o.latency, low) ELSE m.latency])

Observing == col # NoCollector /\ col.mode # "off" /\ work.records < MaxRecords

\* A call comes gap ticks of the clock after what was last recorded.
RecordCall ==
    /\ Observing
    /\ \E o \in CallObs, low \in BOOLEAN :
        LET acc    == opFor(col, o.operation)
            part   == Class(col.parts, col.maxPart, o.partition)
            tenant == Class(col.tenants, col.maxTenant, o.tenant)
            seen   == Tallied(acc, col.mode, CallCounts(o), CallKeys(o, part, tenant),
                              CallSamples(o, acc, ptime + o.gap), low)
        IN  /\ ptime' = ptime + o.gap
            /\ col' = [col EXCEPT
                      !.parts = Known(@, col.maxPart, o.partition),
                      !.tenants = Known(@, col.maxTenant, o.tenant),
                      !.dropped = @ + (IF /\ recordsEvents(col.mode)
                                          /\ ~Sample(col.sampler, o.key, o.errorClass # "" \/ o.missed)
                                       THEN 1 ELSE 0),
                      !.ops = With(@, o.operation,
                                   [seen EXCEPT !.lastArrival = ptime + o.gap,
                                                !.distinct = @ \cup {part},
                                                !.modes = IF o.mode = "" THEN @ ELSE ModeCalled(@, col, o, low)])]
    /\ work' = [work EXCEPT !.records = @ + 1]
    /\ UNCHANGED <<profiles, tmp>>

RecordBatch ==
    /\ Observing
    /\ \E o \in BatchObs, low \in BOOLEAN :
        col' = [col EXCEPT !.ops =
                  With(@, o.operation,
                       Tallied(opFor(col, o.operation), col.mode,
                               [batches |-> TRUE, backendCalls |-> o.backendCall, throttleEvents |-> o.throttled],
                               [flushReasons |-> o.flushReason],
                               [batchSize |-> Positive(o.size), batchWeight |-> Positive(o.weight),
                                chunks |-> Positive(o.chunks), backendLatency |-> Positive(o.latency),
                                serialization |-> Positive(o.serialization), mapping |-> Positive(o.mapping)],
                               low))]
    /\ work' = [work EXCEPT !.records = @ + 1]
    /\ UNCHANGED <<ptime, profiles, tmp>>

RecordRejection ==
    /\ Observing
    /\ \E op \in Rejected :
        col' = [col EXCEPT !.ops = With(@, op, [opFor(col, op) EXCEPT !.counts["rejections"] = @ + 1])]
    /\ work' = [work EXCEPT !.records = @ + 1]
    /\ UNCHANGED <<ptime, profiles, tmp>>

\* The fixed cost of a backend call, and its cost per item as the quotient
\* perItem / items of the residual mean latency by the mean batch size.
estimateBackendCosts(latency, size) ==
    LET fixed    == Quantile(latency, 10)
        residual == latency.sum - fixed * latency.count
        perItem  == IF residual < 0 THEN 0 ELSE residual
    IN  IF latency.count = 0 THEN [fixed |-> 0, perItem |-> 0, items |-> 1]
        ELSE IF size.sum > 0
        THEN [fixed |-> fixed, perItem |-> perItem * size.count, items |-> latency.count * size.sum]
        ELSE [fixed |-> fixed, perItem |-> perItem, items |-> latency.count]

build(c, acc) ==
    [counts |-> acc.counts, hists |-> [n \in Hists |-> Encode(acc.hists[n])], maps |-> acc.maps,
     distinct |-> Cardinality(acc.distinct),
     modes |-> [m \in DOMAIN acc.modes |->
                  [calls |-> acc.modes[m].calls, latency |-> Encode(acc.modes[m].latency)]],
     cost |-> estimateBackendCosts(acc.hists["backendLatency"], acc.hists["batchSize"]),
     sampling |-> Metadata(c.sampler, c.dropped)]

computeDigest(p) ==
    <<p.counts, [n \in Hists |-> digestParts(p.hists[n])], p.maps, p.distinct,
      [m \in DOMAIN p.modes |-> <<p.modes[m].calls, digestParts(p.modes[m].latency)>>], p.cost, p.sampling>>

Finalize(b) ==
    [b EXCEPT !.digest = <<b.abi, b.config, b.redacted, [op \in DOMAIN b.operations |-> computeDigest(b.operations[op])]>>]

\* from is history: the environments the bundle's observations were made in.
Bundle(c) ==
    Finalize([abi |-> c.abi, config |-> c.config, created |-> ptime, start |-> c.started, end |-> ptime,
              redacted |-> Cardinality(c.parts) + Cardinality(c.tenants),
              operations |-> [op \in DOMAIN c.ops |-> build(c, c.ops[op])],
              digest |-> <<>>, from |-> {[abi |-> c.abi, config |-> c.config]}])

validateStructure(b) ==
    \A op \in DOMAIN b.operations :
        /\ \A n \in Hists : Decodable(b.operations[op].hists[n])
        /\ \A n \in Maps : Cardinality(DOMAIN b.operations[op].maps[n]) <= MaxKeys

\* Unmarshal accepts what is in the file: the magic and the checksum fail on a
\* torn file only.
Readable(f) == f \notin {Absent, Torn} /\ validateStructure(f) /\ Finalize(f).digest = f.digest

\* The map is ranged over in an order of Go's choosing: the keys of first, then
\* the others.
mergeCounts(dst, src, first) ==
    FoldLeft(LAMBDA m, k : addCount(m, k, src[k]), dst,
             SetToSeq(DOMAIN src \cap first) \o SetToSeq(DOMAIN src \ first))

Combinable(dst, src) == \A n \in Hists : Mergeable(dst.hists[n], src.hists[n])

\* The execution modes, the sampling and the distinct classes stay those of
\* the first bundle.
mergeOperation(dst, src, go) ==
    LET hists == [n \in Hists |-> MergeHistogram(Decode(dst.hists[n]), Decode(src.hists[n]), go.low)]
    IN  [dst EXCEPT
           !.counts = [n \in Counters |-> @[n] + src.counts[n]],
           !.hists = [n \in Hists |-> Encode(hists[n])],
           !.maps = [n \in Maps |-> mergeCounts(@[n], src.maps[n], go.first)],
           !.cost = estimateBackendCosts(hists["backendLatency"], hists["batchSize"])]

MergeableBundles(a, b) ==
    /\ a.abi = b.abi /\ a.config = b.config
    /\ \A op \in DOMAIN a.operations \cap DOMAIN b.operations : Combinable(a.operations[op], b.operations[op])

\* Only the keys of a map the merge overfills are worth ordering.
GoOrders(a, b) ==
    LET keys(x, op, n) == DOMAIN x.operations[op].maps[n]
        contested == {<<op, n>> \in (DOMAIN a.operations \cap DOMAIN b.operations) \X Maps :
                        Cardinality(keys(a, op, n) \cup keys(b, op, n)) > MaxKeys}
    IN  [low : BOOLEAN, first : SUBSET UNION {keys(b, c[1], c[2]) \ keys(a, c[1], c[2]) : c \in contested}]

Merge(a, b, go) ==
    Finalize([a EXCEPT
      !.start = IF b.start < @ \/ @ = 0 THEN b.start ELSE @,
      !.end = IF b.end > @ THEN b.end ELSE @,
      !.created = IF b.created > @ THEN b.created ELSE @,
      !.operations =
          [op \in DOMAIN a.operations \cup DOMAIN b.operations |->
             IF op \notin DOMAIN b.operations THEN a.operations[op]
             ELSE IF op \notin DOMAIN a.operations THEN b.operations[op]
             ELSE mergeOperation(a.operations[op], b.operations[op], go)],
      !.from = @ \cup b.from])

\* A command has a bundle for path p: WriteFile opens the temporary file.
StartWrite(p, b) ==
    /\ tmp = NoTemp
    /\ tmp' = [stage |-> "open", path |-> p, bundle |-> Finalize(b)]

StartCollecting ==
    /\ col = NoCollector /\ tmp = NoTemp
    /\ work.saves < MaxSaves
    /\ \E o \in Collectors : col' = NewCollector(o)
    /\ UNCHANGED <<ptime, profiles, tmp, work>>

profileCollect ==
    /\ col # NoCollector /\ work.records > 0
    /\ work.saves < MaxSaves /\ work' = [work EXCEPT !.saves = @ + 1]
    /\ \E p \in ProfilePaths : StartWrite(p, Bundle(col))
    /\ col' = NoCollector
    /\ UNCHANGED <<ptime, profiles>>

profileMerge ==
    /\ col = NoCollector
    /\ work.merges < MaxMerges /\ work' = [work EXCEPT !.merges = @ + 1]
    /\ \E p, q, r \in ProfilePaths :
        /\ Readable(profiles[p]) /\ Readable(profiles[q])
        /\ MergeableBundles(profiles[p], profiles[q])
        /\ \E go \in GoOrders(profiles[p], profiles[q]) : StartWrite(r, Merge(profiles[p], profiles[q], go))
    /\ UNCHANGED <<ptime, col, profiles>>

\* Chmod, Write, Sync and Close of the temporary file.
SyncTemp ==
    /\ tmp.stage = "open"
    /\ tmp' = [tmp EXCEPT !.stage = "synced"]
    /\ UNCHANGED <<ptime, col, profiles, work>>

\* Mutant: the temporary file is renamed before it is synced.
RenameUnsynced ==
    /\ tmp.stage \in {"open", "synced"}
    /\ profiles' = [profiles EXCEPT ![tmp.path] = IF tmp.stage = "synced" THEN tmp.bundle ELSE Torn]
    /\ tmp' = NoTemp
    /\ UNCHANGED <<ptime, col, work>>

InstallProfile ==
    /\ tmp.stage = "synced"
    /\ profiles' = [profiles EXCEPT ![tmp.path] = tmp.bundle]
    /\ tmp' = NoTemp
    /\ UNCHANGED <<ptime, col, work>>

\* Any step of WriteFile fails and the temporary file is removed, or the
\* process dies and leaves it behind.
AbandonWrite ==
    /\ tmp # NoTemp
    /\ tmp' = NoTemp
    /\ UNCHANGED <<ptime, col, profiles, work>>

ProfileInit ==
    /\ ptime = 0
    /\ col = NoCollector
    /\ profiles = [p \in ProfilePaths |-> Absent]
    /\ tmp = NoTemp
    /\ work = [records |-> 0, saves |-> 0, merges |-> 0]

ProfileNext ==
    \/ StartCollecting
    \/ RecordCall
    \/ RecordBatch
    \/ RecordRejection
    \/ profileCollect
    \/ profileMerge
    \/ SyncTemp
    \/ InstallProfile
    \/ AbandonWrite

\* Structural mismatches of a bundle with a requirement; an empty field is not
\* checked.
CheckCompatibility(b, req) ==
    [compatible |-> req.abi \in {"", b.abi} /\ req.config \in {"", b.config},
     stale |-> req.maxAge > 0 /\ ptime - b.created > req.maxAge]

UsableForActive(r) == r.compatible /\ ~r.stale

\* A ratio is <<numerator, denominator>>, 0 when the denominator is; the change
\* from a to b exceeds pct percent of a, and any change from 0 exceeds it.
Ratio(n, d) == IF d = 0 THEN <<0, 1>> ELSE <<n, d>>

relChangeAbove(a, b, pct) ==
    LET was == a[1] * b[2]
        is  == b[1] * a[2]
    IN  was # is /\ (was = 0 \/ 100 * Distance(is, was) > pct * was)

Mean(d) == Ratio(d.sum, d.count)

arrivalRate(p) == LET m == Mean(p.hists["interArrival"]) IN Ratio(m[2], m[1])

DetectPhaseChange(prev, cur) ==
    LET check(a, b, pct) == relChangeAbove(a, b, pct)
        dup(p) == Ratio(p.counts["duplicates"], p.counts["duplicates"] + p.counts["unique"])
        per(p, n) == Ratio(p.counts[n], p.counts["logicalCalls"])
    IN  \/ check(arrivalRate(prev), arrivalRate(cur), 100)
        \/ check(dup(prev), dup(cur), 50)
        \/ check(Mean(prev.hists["payloadBytes"]), Mean(cur.hists["payloadBytes"]), 100)
        \/ check(per(prev, "withDeadline"), per(cur, "withDeadline"), 50)
        \/ check(Mean(prev.hists["backendLatency"]), Mean(cur.hists["backendLatency"]), 100)
        \/ check(per(prev, "errTotal"), per(cur, "errTotal"), 50)
        \/ check(<<prev.distinct, 1>>, <<cur.distinct, 1>>, 100)

-----------------------------------------------------------------------------

Saved == {profiles[p] : p \in ProfilePaths} \ {Absent, Torn}

ProfilesOf(b) == {b.operations[op] : op \in DOMAIN b.operations}

\* The bundle a command has just handed to WriteFile: what any file will hold.
Written == IF tmp.stage = "open" THEN {tmp.bundle} ELSE {}

WrittenProfiles == UNION {ProfilesOf(b) : b \in Written}

CountsHeld(m) == Held(m, DOMAIN m)

\* The books of a saved profile balance however it came about, whether its
\* collector's maps and buckets ran over their bounds or it was merged from
\* others (collector.go boundedInc, histogram.go Merge, compat.go mergeCounts):
\* the samples of every histogram are in its buckets, every error and every
\* fallback is under one class, and every call is under one partition class
\* and one tenant class and is a duplicate or not.
BooksBalance ==
    \A p \in WrittenProfiles :
        /\ \A n \in Hists : Decodable(p.hists[n])
        /\ CountsHeld(p.maps["errByClass"]) = p.counts["errTotal"]
        /\ CountsHeld(p.maps["fbByReason"]) = p.counts["fbTotal"]
        /\ CountsHeld(p.maps["partByClass"]) = p.counts["logicalCalls"]
        /\ CountsHeld(p.maps["fairShare"]) = p.counts["logicalCalls"]
        /\ p.counts["duplicates"] + p.counts["unique"] = p.counts["logicalCalls"]

\* The quantiles the controller reads from a saved profile cover their share
\* of the samples (histogram.go Quantile and CDF), also when samples or whole
\* buckets were moved to the nearest bucket there was.
QuantilesCover ==
    \A p \in WrittenProfiles : \A n \in Hists : Covers(Decode(p.hists[n]))

\* What WriteFile installs is whole and reads back (persist.go Unmarshal:
\* structure and digest), unless one of its categorical maps has grown past
\* the bound, which the overflow class can make it do by one.
InstalledLoads ==
    /\ \A p \in ProfilePaths : profiles[p] # Torn
    /\ \A b \in Written :
        \/ Readable(b)
        \/ \E q \in ProfilesOf(b) : \E n \in Maps : Cardinality(DOMAIN q.maps[n]) = MaxKeys + 1

\* Tail-biased sampling drops no call that failed or missed its deadline
\* (collector.go RecordCall, sampling.go Sample): there are as many other
\* calls as there are drops.
DropsSpareTails ==
    col # NoCollector /\ col.mode # "off" =>
        LET total(n) == MapThenSumSet(LAMBDA op : col.ops[op].counts[n], DOMAIN col.ops)
        IN  col.sampler.strategy = "tail-biased" =>
              /\ col.dropped + total("errTotal") <= total("logicalCalls")
              /\ col.dropped + total("deadlineMiss") <= total("logicalCalls")

\* What a profile that passes the check for active use tells about was all
\* observed under the runtime ABI and the configuration required (compat.go
\* CheckCompatibility and Merge): merging never mixes environments.
ActiveIsAlike ==
    \A b \in Saved, req \in Requirements :
        UsableForActive(CheckCompatibility(b, req)) =>
            \A e \in b.from : req.abi \in {"", e.abi} /\ req.config \in {"", e.config}

\* Twice the same evidence is no phase change (phasechange.go
\* DetectPhaseChange, compat.go mergeOperation): a profile merged with itself
\* shows the rates and the means it had.
SelfMergeIsSteady ==
    \A p \in WrittenProfiles : ~DetectPhaseChange(p, mergeOperation(p, p, [low |-> TRUE, first |-> {}]))
=============================================================================
