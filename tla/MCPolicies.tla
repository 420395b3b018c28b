------------------------------ MODULE MCPolicies ------------------------------
(* The policies of an operation on small instances, one lane each: how it is    *)
(* declared; how its workload is profiled and replayed; how the controller      *)
(* tunes it, the scheduler shares the backend between classes and overload is   *)
(* answered; how a recursive load is traversed and dependent loads are planned  *)
(* in waves.  A run takes one lane and leaves the state of the others as it     *)
(* began.                                                                       *)
EXTENDS Declarations, Profiles, Replay, Tuning, FairQueue, Overload, Traversal, Waves

CONSTANTS o1, o2, f1, f2

VARIABLE lane

vars == <<lane, decl, profileVars, replayVars, tuningVars, fairVars, overloadVars, travVars, wave>>

-------------------------------------------------------------------------------
(* Declarations.                                                                *)

Option(f, v) == [field |-> f, value |-> v]
Retrying(classes) ==
    [DefaultRetryPolicy EXCEPT !.Enabled = TRUE, !.MaxAttempts = 2, !.Retryable = classes]

MCOptions ==
    {Option("scalarSymbol", "p.Get"), Option("batchSymbol", "malformed"),
     Option("semantics", WithReorderable(Semantics("idempotent-write"))),
     Option("partition", NewPartitionContract("process", <<"tenant">>, <<"region">>)),
     Option("partition", NewPartitionContract("process", <<"tenant", "authorization">>, <<>>)),
     Option("partition", NewPartitionContract("process", <<"authorization", "tenant">>, <<>>)),
     Option("partition", NewPartitionContract("transaction", <<>>, <<"transaction">>)),
     Option("scheduler", [DefaultSchedulerPolicy EXCEPT !.Mode = "adaptive", !.MaxWait = 1]),
     Option("dedup", [DefaultDeduplicationPolicy EXCEPT !.Mode = "exact"]),
     Option("retry", Retrying(<<"timeout", "transport">>)),
     Option("retry", [Retrying(<<"transport", "timeout">>) EXCEPT !.PartialItemRetry = TRUE]),
     Option("fallback", [DefaultFallbackPolicy EXCEPT !.Mode = "parallel-scalar", !.MaxScalarConcurrency = 2]),
     Option("source", "file.go:3")}

-------------------------------------------------------------------------------
(* Profiles: two kinds of collector, calls that fail in three ways.             *)

Collector(mode, strategy, rate, config) ==
    [mode |-> mode, acc |-> 2, abi |-> "a1", config |-> config, strategy |-> strategy,
     rate |-> rate, maxPart |-> 1, maxTenant |-> 1]

MCCollectors ==
    {Collector("", "all", 0, "c1"), Collector("sampled-events", "tail-biased", 50, "c2")}

Call(err, wait, dup, part, mode) ==
    [operation |-> "op", duplicate |-> dup, hasDeadline |-> dup, missed |-> FALSE, fallback |-> dup,
     reason |-> IF wait > 2 THEN "slow" ELSE "", errorClass |-> err, partition |-> part,
     tenant |-> part, mode |-> mode, wait |-> wait, depth |-> wait, slack |-> 1,
     bytes |-> IF dup THEN 0 ELSE 3, latency |-> wait, key |-> wait, gap |-> wait \div 2]

MCCalls ==
    {Call("e1", 1, TRUE, "t1", ""), Call("e2", 3, FALSE, "t2", "m"), Call("e3", 5, TRUE, "t1", "m")}

MCBatches ==
    {[operation |-> "op", backendCall |-> TRUE, throttled |-> FALSE, flushReason |-> "wait", size |-> 2,
      weight |-> 2, chunks |-> 1, latency |-> 4, serialization |-> 0, mapping |-> 1]}

MCRequirements == [abi : {"a1"}, config : {"", "c1", "c2"}, maxAge : {0, 1}]

(* Replay.                                                                      *)
MCBackends == {[fixed |-> 1, item |-> 1]}
MCPolicySims == [wait : {0, 2}, size : {0, 2, 3}, conc : {1, 2}]

-------------------------------------------------------------------------------
(* Tuning.                                                                      *)

MCSettings == [wait |-> 6, size |-> 2, weight |-> 0, conc |-> 3, chunk |-> 0, mode |-> "runtime-coalesced"]

Document ==
    [mode |-> "", objective |-> "", minWait |-> <<>>, maxWait |-> <<>>, minSize |-> <<>>,
     maxSize |-> <<>>, minConc |-> <<>>, maxConc |-> <<>>, delay |-> <<2>>, timeouts |-> 0,
     errors |-> 0, window |-> <<1>>, budget |-> <<>>, cooldown |-> <<>>, explore |-> FALSE, step |-> 0]

Exploring ==
    [Document EXCEPT !.mode = "active", !.objective = "throughput", !.minWait = <<1>>,
                     !.explore = TRUE, !.cooldown = <<2>>, !.budget = <<1>>]

MCDocuments ==
    {Exploring, [Document EXCEPT !.mode = "active"], [Document EXCEPT !.objective = "latency"],
     [Document EXCEPT !.minWait = <<5>>], [Document EXCEPT !.window = <<-1>>]}

Workload(calls, lambda) ==
    [calls |-> calls, lambda |-> lambda, fixed |-> 2 * calls, item |-> lambda, ser |-> lambda,
     rest |-> 0, latency |-> lambda, slack |-> IF calls = 0 THEN <<>> ELSE <<3, 9>>, overflow |-> FALSE]

MCInputs == {[p |-> w, age |-> 0, changed |-> FALSE] : w \in {Workload(4, 1)}}

MCCallBounds == (o1 :> 2) @@ (o2 :> 1)

Calm == [mismatch |-> FALSE, delay |-> 0, timeouts |-> 0, errors |-> 0, throttle |-> 0, unfair |-> FALSE]
MCMeasured == {Calm, [Calm EXCEPT !.delay = 3]}
MCBaselines == {Calm}

-------------------------------------------------------------------------------
(* Fairness and overload.                                                       *)

ClassPolicy(w, r, q) == [weight |-> w, priority |-> 0, reserved |-> r, quota |-> q, payload |-> 1]

MCFairConfigs ==
    [algorithm : {"deficit-round-robin", "weighted-fair"}, threshold : {1},
     classes : {<<ClassPolicy(1, 9, 0), ClassPolicy(2, 0, 0)>>, <<ClassPolicy(1, 0, 2), ClassPolicy(2, 0, 0)>>,
                <<ClassPolicy(0, 6, 0), ClassPolicy(1, 3, 0)>>, <<ClassPolicy(0, 4, 0)>>}]
AnyFair == [algorithm |-> "weighted-fair", threshold |-> 1, classes |-> <<ClassPolicy(0, 4, 0)>>]

MCOverloadDocs ==
    [high : {0}, critical : {0}, policy : AdmissionPolicies \cup {"", "drop"}]
      \cup [high : {90, 101}, critical : {50}, policy : {""}]
MCSignals ==
    [ratio : {0, 80, 95, 100}, latency : {0}, timeout : {0, 11, 51}, throttle : {0}, rejected : {0}]
      \cup [ratio : {50}, latency : {0, 90}, timeout : {0}, throttle : {0, 1}, rejected : {100, 101}]
AnyOverload == OverloadDefaults([high |-> 0, critical |-> 0, policy |-> ""])
AnyRequest == CHOOSE r \in Requests : TRUE
AnySignals == CHOOSE s \in MCSignals : TRUE

-------------------------------------------------------------------------------
(* Traversal and waves.                                                         *)

Contract ==
    [cycle |-> "error", errors |-> "fail-fast", depth |-> 0, nodes |-> 0, edges |-> 0, frontier |-> 0,
     proof |-> TRUE]
MCContracts ==
    {Contract, [Contract EXCEPT !.cycle = "skip-seen", !.errors = "collect-per-node"],
     [Contract EXCEPT !.cycle = "return-cycle-marker", !.errors = "partial-graph", !.depth = 1],
     [Contract EXCEPT !.cycle = "skip-seen", !.nodes = 2, !.frontier = 1, !.edges = 3],
     [Contract EXCEPT !.proof = FALSE]}
MCGraphs == [1..3 -> {<<>>, <<1>>, <<2>>, <<3>>, <<2, 3>>, <<3, 3, 1>>}]
MCRoots == {<<1>>, <<1, 2, 1>>}
Childless == [k \in 1..3 |-> <<>>]

MCNodeForms == {[cost |-> 1, group |-> 0], [cost |-> 3, group |-> 7]}

-------------------------------------------------------------------------------

Lanes == {"decl", "profile", "replay", "tuning", "fair", "overload", "traversal", "waves"}

Init ==
    /\ lane \in Lanes
    /\ IF lane = "replay" THEN TRUE
       ELSE policy = [wait |-> 0, size |-> 2, conc |-> 1] /\ backend = [fixed |-> 1, item |-> 1]
    /\ IF lane = "tuning" THEN TRUE ELSE cfg = withDefaults(ControllerConfig(Exploring))
    /\ IF lane = "fair" THEN TRUE ELSE fcfg = AnyFair
    /\ IF lane = "overload" THEN TRUE ELSE ocfg = AnyOverload /\ asked = Answer(AnyRequest, AnySignals)
    /\ IF lane = "traversal" THEN TRUE
       ELSE /\ contract = LimitDefaults(Contract) /\ kids = Childless
            /\ trav = [frontier |-> <<1>>, visited |-> {1}, depth |-> 0, order |-> <<>>, edges |-> 0,
                       markers |-> <<>>, out |-> "running"]
    /\ DeclInit /\ ProfileInit /\ ReplayInit /\ TuningInit /\ FairInit /\ OverloadInit /\ TravInit
    /\ WaveInit

Next ==
    /\ \/ /\ lane = "decl" /\ DeclNext
          /\ UNCHANGED <<profileVars, replayVars, tuningVars, fairVars, overloadVars, travVars, wave>>
       \/ /\ lane = "profile" /\ ProfileNext
          /\ UNCHANGED <<decl, replayVars, tuningVars, fairVars, overloadVars, travVars, wave>>
       \/ /\ lane = "replay" /\ ReplayNext
          /\ UNCHANGED <<decl, profileVars, tuningVars, fairVars, overloadVars, travVars, wave>>
       \/ /\ lane = "tuning" /\ TuningNext
          /\ UNCHANGED <<decl, profileVars, replayVars, fairVars, overloadVars, travVars, wave>>
       \/ /\ lane = "fair" /\ FairNext
          /\ UNCHANGED <<decl, profileVars, replayVars, tuningVars, overloadVars, travVars, wave>>
       \/ /\ lane = "overload" /\ AdmitRequest
          /\ UNCHANGED <<decl, profileVars, replayVars, tuningVars, fairVars, travVars, wave>>
       \/ /\ lane = "traversal" /\ TravNext
          /\ UNCHANGED <<decl, profileVars, replayVars, tuningVars, fairVars, overloadVars, wave>>
       \/ /\ lane = "waves" /\ WaveNext
          /\ UNCHANGED <<decl, profileVars, replayVars, tuningVars, fairVars, overloadVars, travVars>>
    /\ UNCHANGED lane

Spec == Init /\ [][Next]_vars

(* The files a profile may be saved to are interchangeable.                     *)
Files == Permutations({f1, f2})
===============================================================================
