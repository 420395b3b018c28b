------------------------------- MODULE Settings -------------------------------
(* What the adaptive controller computes (internal/adaptive: bounds.go,         *)
(* cost.go, the pure part of controller.go): hard bounds, the weighted cost of  *)
(* settings under a workload, the search for the cheapest settings, the limit   *)
(* on one step, and the confidence in a profile.                                *)
(*                                                                              *)
(* Times are small integers of one unit.  A fraction is scaled to an integer:   *)
(* weights by 20 (the smallest weight is 0.2), a cost by Scale, which every     *)
(* batch size and every number of slack samples divides.                        *)
(*                                                                              *)
(* A configuration c is [mode, objective, bounds, explore, guard, minSamples]:  *)
(* c.bounds = [minWait, maxWait, minSize, maxSize, minConc, maxConc, maxWeight, *)
(* maxChunk], c.explore = [on, step (percent), cooldown], c.guard = [delay,     *)
(* timeouts, errors, window, budget].  Settings are [wait, size, weight, conc,  *)
(* chunk, mode].  A profile is [calls, lambda (arrivals per unit), fixed, item, *)
(* ser, rest, latency, slack, overflow].                                        *)
EXTENDS Integers, FiniteSets

Scale == 24

Lesser(a, b) == IF a <= b THEN a ELSE b
Greater(a, b) == IF a <= b THEN b ELSE a
Abs(a) == IF a < 0 THEN -a ELSE a

-------------------------------------------------------------------------------
(* Configuration.  A document's field that holds a number is <<>> when it is    *)
(* left out and <<v>> otherwise; one that does not parse, or is negative, is    *)
(* refused, and is a v below zero.                                              *)

DefaultBounds ==
    [minWait |-> 0, maxWait |-> 4, minSize |-> 1, maxSize |-> 4, minConc |-> 1, maxConc |-> 2,
     maxWeight |-> 0, maxChunk |-> 4]

parseRange(text, default) == IF text = <<>> THEN default ELSE text[1]

BadRange(text) == text # <<>> /\ text[1] < 0

(* Config.Bounds: the default for every end the document leaves out.            *)
DocBounds(doc) ==
    [DefaultBounds EXCEPT !.minWait = parseRange(doc.minWait, @), !.maxWait = parseRange(doc.maxWait, @),
                          !.minSize = parseRange(doc.minSize, @), !.maxSize = parseRange(doc.maxSize, @),
                          !.minConc = parseRange(doc.minConc, @), !.maxConc = parseRange(doc.maxConc, @)]

DocGuard(doc) ==
    [delay |-> parseRange(doc.delay, 0), timeouts |-> doc.timeouts, errors |-> doc.errors,
     window |-> parseRange(doc.window, 0), budget |-> parseRange(doc.budget, 0)]

ValidBounds(b) ==
    /\ b.maxWait >= 0 /\ b.minWait >= 0
    /\ b.maxWait > 0 => b.minWait <= b.maxWait
    /\ b.maxSize > 0 => b.minSize <= b.maxSize
    /\ b.maxConc > 0 => b.minConc <= b.maxConc

TuningModes == {"off", "shadow", "active"}
Objectives == {"latency", "throughput", "balanced", "backend-cost", "deadline-protection",
               "custom-weighted"}

(* Config.Validate, and the cooldown that ControllerConfig refuses.             *)
ValidDoc(doc) ==
    /\ doc.mode \in TuningModes \cup {""}
    /\ doc.objective \in Objectives \cup {""}
    /\ \A f \in {"minWait", "maxWait", "minSize", "maxSize", "minConc", "maxConc", "delay",
                 "window", "budget", "cooldown"} : ~BadRange(doc[f])
    /\ ValidBounds(DocBounds(doc))

orDefault(v, default) == IF v = "" THEN default ELSE v

ControllerConfig(doc) ==
    [mode |-> orDefault(doc.mode, "shadow"), objective |-> orDefault(doc.objective, "balanced"),
     bounds |-> DocBounds(doc), guard |-> DocGuard(doc), minSamples |-> 0,
     explore |-> [on |-> doc.explore, step |-> doc.step, cooldown |-> parseRange(doc.cooldown, 0)]]

(* A step outside (0, 1] is 0.2, and no minimum of samples is the default.      *)
withDefaults(c) ==
    [c EXCEPT !.minSamples = IF @ = 0 THEN 2 ELSE @,
              !.explore.step = IF @ <= 0 \/ @ > 100 THEN 20 ELSE @]

-------------------------------------------------------------------------------
(* HardBounds.                                                                  *)

(* A zero maximum does not bound; the maximum is looked at first.               *)
Clamped(v, lo, hi) == IF hi > 0 /\ v > hi THEN hi ELSE Greater(v, lo)

Clamp(b, s) ==
    [s EXCEPT !.wait = Clamped(@, b.minWait, b.maxWait),
              !.size = Clamped(@, Greater(b.minSize, 1), b.maxSize),
              !.conc = Clamped(@, Greater(b.minConc, 1), b.maxConc),
              !.weight = IF b.maxWeight > 0 THEN Clamped(@, 0, b.maxWeight) ELSE @,
              !.chunk = IF b.maxChunk > 0 /\ @ > 0 THEN Clamped(@, 1, b.maxChunk) ELSE @]

Within(v, lo, hi) == v >= lo /\ (hi > 0 => v <= hi)

InBounds(b, s) ==
    /\ Within(s.wait, b.minWait, b.maxWait)
    /\ Within(s.size, Greater(b.minSize, 1), b.maxSize)
    /\ Within(s.conc, Greater(b.minConc, 1), b.maxConc)
    /\ b.maxWeight > 0 => Within(s.weight, 0, b.maxWeight)
    /\ b.maxChunk > 0 => s.chunk <= b.maxChunk

-------------------------------------------------------------------------------
(* The cost model.                                                              *)

(* WeightsFor, in twentieths; the components that are 1 for every objective are *)
(* left out.                                                                    *)
WeightsFor(policy) ==
    LET base == [fixed |-> 20, item |-> 20, queue |-> 20, deadline |-> 20] IN
    CASE policy = "latency" -> [base EXCEPT !.queue = 80, !.deadline = 80, !.item = 10]
      [] policy = "throughput" -> [base EXCEPT !.fixed = 80, !.queue = 5]
      [] policy = "backend-cost" -> [base EXCEPT !.fixed = 120, !.item = 40, !.queue = 4]
      [] policy = "deadline-protection" -> [base EXCEPT !.deadline = 160, !.queue = 60]
      [] OTHER -> base

(* Evaluate: the fixed cost and the serialisation are shared by the batch, the  *)
(* rest is paid by every call.                                                  *)
Evaluate(w, in) ==
    LET share == Scale \div Greater(in.size, 1)
    IN  w.fixed * in.fixed * share + w.item * in.item * Scale
        + w.queue * in.wait * (Scale \div 2)
        + w.deadline * in.late * in.penalty * (Scale \div in.of)
        + 20 * (in.ser * share + in.rest * Scale)

(* One item, and those that arrive while it waits, up to the size.              *)
expectedBatchSize(wait, lambda, cap) ==
    Greater(Lesser(1 + lambda * wait, Greater(cap, 1)), 1)

(* The modelled cost of settings for a profile: a deadline is at risk when its  *)
(* slack is at most the wait and the backend's latency.                         *)
evalCost(c, p, s) ==
    LET late == Cardinality({i \in DOMAIN p.slack : p.slack[i] <= s.wait + p.latency}) IN
    Evaluate(WeightsFor(c.objective),
             [size |-> expectedBatchSize(s.wait, p.lambda, s.size), wait |-> s.wait,
              fixed |-> p.fixed, item |-> p.item, ser |-> p.ser, rest |-> p.rest,
              late |-> late, of |-> Greater(Cardinality(DOMAIN p.slack), 1),
              penalty |-> Greater(p.latency, 1)])

-------------------------------------------------------------------------------
(* The search.                                                                  *)

(* A declared mode is kept; otherwise the mode follows from the wait.           *)
chooseMode(current, wait) ==
    IF current \in {"static-prefetch", "native-batch", "pipeline"} THEN current
    ELSE IF wait = 0 THEN "batch-of-one" ELSE "runtime-coalesced"

GridSteps == 24

WaitGrid(b) ==
    LET hi == Greater(b.maxWait, b.minWait) IN
    {b.minWait + ((hi - b.minWait) * i) \div GridSteps : i \in 0..GridSteps}

(* The current settings at the size cap, unless a wait of the grid is strictly  *)
(* cheaper; of those the cheapest, and among equals the shortest.               *)
Candidate(c, current, w) ==
    [current EXCEPT !.wait = w, !.size = Greater(c.bounds.maxSize, 1), !.mode = chooseMode(@, w)]

search(c, p, current) ==
    LET first == [current EXCEPT !.size = Greater(c.bounds.maxSize, 1)]
        cost(w) == evalCost(c, p, Candidate(c, current, w))
        better == {w \in WaitGrid(c.bounds) : cost(w) < evalCost(c, p, first)}
    IN  IF better = {} THEN first
        ELSE Candidate(c, current,
                       CHOOSE w \in better :
                         \A v \in better : cost(w) < cost(v) \/ (cost(w) = cost(v) /\ w <= v))

stepInt(c, current, target) ==
    LET most == Greater((Abs(current) * c.explore.step) \div 100, 1) IN
    IF target - current > most THEN current + most
    ELSE IF target - current < -most THEN current - most
    ELSE target

limitStep(c, current, cand) ==
    [cand EXCEPT !.wait = stepInt(c, current.wait, @), !.size = stepInt(c, current.size, @),
                 !.conc = stepInt(c, current.conc, @)]

(* A change adds half of the added wait to the modelled latency.                *)
checkGuardrails(c, prev, new) ==
    c.guard.budget <= 0 \/ new.wait - prev.wait <= 2 * c.guard.budget

-------------------------------------------------------------------------------
(* EstimateConfidence: the share of the samples wanted, halved per half-life of *)
(* age, and reduced for clamped histograms, a missing metric and a change of    *)
(* phase.  True when the score is at least 0.4.                                 *)
Confident(c, p, age, changed) ==
    LET score == Lesser(p.calls, c.minSamples) * (IF p.overflow THEN 8 ELSE 10)
                 * (IF p.latency = 0 THEN 5 ELSE 10) * (IF changed THEN 6 ELSE 10)
    IN  10 * score >= 4 * c.minSamples * 1000 * 2^age

(* The gate of active application: samples, confidence and a steady workload.   *)
Evident(c, p, age, changed) ==
    p.calls >= c.minSamples /\ Confident(c, p, age, changed) /\ ~changed
===============================================================================
