---------------------------- MODULE TransformPlan ----------------------------
(***************************************************************************)
(* Package internal/transform, planning: which proven candidates are        *)
(* rewritten, and the plan that results.  BuildPlan is a function of a      *)
(* program (module Analysis) and of a report (module Prover); nothing is    *)
(* written.                                                                 *)
(*                                                                          *)
(* The syntax of a call site is P.syntax[location]: its file <<directory,   *)
(* name>>, the regions of the call and of the range statement around it,    *)
(* and the shape features the code there has.  P.bridgeName names the file  *)
(* of an operation's bridge.  P.rewritten says whether what is generated    *)
(* formats and whether the overlay type-checks otherwise.                   *)
(***************************************************************************)
EXTENDS Analysis, Prover

RuntimeStrategies(s) == s \in {"runtime-call-coalescing", "static-sibling-fusion",
                               "fanout-coalescing", "errgroup-coalescing"}

\* eligibleForProof: the decision and the very strategy are both proven.
eligibleForProof(cp, s) ==
  /\ cp.Decision = "proven_eligible"
  /\ s \in DOMAIN cp.Strategies /\ cp.Strategies[s].Status = "proven_eligible"

runtimeEligible(cp) == \/ eligibleForProof(cp, "runtime-scope-coalescing")
                       \/ eligibleForProof(cp, "existing-fanout-coalescing")

\* runProof gives the prover the contracts of the configuration, and no assumptions.
ContractSpecs(P) == IF P.config.Found /\ P.config.Errors = {} THEN P.config.Contracts ELSE NoFacts

symbols(P, op) ==
  LET specs == SelectSeq(P.config.Specs, LAMBDA s : s.ID = op)
  IN IF P.config.Found /\ P.config.Errors = {} /\ specs # <<>>
     THEN [scalar |-> Head(specs).Scalar, batch |-> Head(specs).Batch]
     ELSE [scalar |-> "", batch |-> ""]

runProof(P, ops, sites, effects, candidates) ==
  Prove([Candidates |-> candidates, Operations |-> ops, Specs |-> ContractSpecs(P),
         CallSites |-> sites, Effects |-> effects, Assumptions |-> <<>>,
         ContractDigest |-> P.config.Digest, MaxCandidates |-> Len(candidates)])

matchesFilter(filter, P, cp) ==
  /\ filter.Candidate # <<>> => cp.ID = filter.Candidate
  /\ filter.Operation # 0 => cp.Operation = filter.Operation
  /\ filter.File # <<>> => cp.Location # <<>> /\ P.syntax[cp.Location].file = filter.File

-----------------------------------------------------------------------------
(* Locating the code. *)

\* findScalarCall: the call is there and resolves to the scalar symbol.
findScalarCall(P, loc) == loc \in DOMAIN P.syntax /\ "found" \in P.syntax[loc].shape

\* The form locateLoop accepts: each check in order, and why one that fails is skipped.
loopShape == {"in range statement", "over a slice", "two statements", "first defines two",
              "selector with two arguments", "context first", "error guard second"}
locateLoop(P, loc) ==
  CASE ~findScalarCall(P, loc) -> "source-anchor-unresolved"
    [] findScalarCall(P, loc) /\ ~(loopShape \subseteq P.syntax[loc].shape) -> "unsupported-loop-form"
    [] findScalarCall(P, loc) /\ loopShape \subseteq P.syntax[loc].shape ->
         IF "batch method" \in P.syntax[loc].shape THEN "" ELSE "generated-binding-unavailable"

\* generate replaces the whole range statement.
generate(P, loc) == [file |-> P.syntax[loc].file, region |-> P.syntax[loc].loop, op |-> 0]

\* The bridge of an operation is created beside the file of the first call.
bridgeFile(P, file, op) == <<file[1], P.bridgeName[op]>>

\* lowerRuntime rewrites every call of the candidate; the first one shapes the bridge.
lowerRuntime(P, op, locs) ==
  LET at(i) == P.syntax[locs[i]]
      lacks(i, f) == findScalarCall(P, locs[i]) /\ f \notin at(i).shape
      bad(i) == CASE ~findScalarCall(P, locs[i]) -> "source-anchor-unresolved"
                  [] lacks(i, "selector with two arguments") -> "unsupported-loop-form"
                  [] lacks(i, "context first") -> "unsupported-loop-form"
                  [] i = 1 /\ lacks(i, "bridge signature") -> "generated-binding-unavailable"
                  [] OTHER -> ""
      failing == {i \in DOMAIN locs : bad(i) # ""}
      first == CHOOSE i \in failing : \A j \in failing : i <= j
  IN CASE locs = <<>> -> [reason |-> "source-anchor-unresolved", edits |-> <<>>]
       [] locs # <<>> /\ failing # {} -> [reason |-> bad(first), edits |-> <<>>]
       [] OTHER -> [reason |-> "",
                    edits |-> [i \in DOMAIN locs |->
                                 [file |-> at(i).file, region |-> at(i).call, op |-> op]],
                    bridge |-> bridgeFile(P, at(1).file, op)]

runtimeStrategyFor(cp, requested) ==
  LET asked(s) == s \in Range(requested)
      runtime == SelectSeq(requested, RuntimeStrategies)
  IN CASE cp.Structure = "goroutine fan-out" /\ asked("fanout-coalescing") -> "fanout-coalescing"
       [] cp.Structure = "goroutine fan-out" /\ ~asked("fanout-coalescing")
          /\ asked("errgroup-coalescing") -> "errgroup-coalescing"
       [] cp.Structure = "sibling calls" /\ asked("static-sibling-fusion") -> "static-sibling-fusion"
       [] OTHER -> IF asked("runtime-call-coalescing") \/ runtime = <<>>
                   THEN "runtime-call-coalescing" ELSE Head(runtime)

-----------------------------------------------------------------------------
(* BuildPlan. *)

defaultStrategies == <<"static-loop-prefetch">>

EmptyPlan == [Transformations |-> {}, Skipped |-> {}, edits |-> <<>>, static |-> {}, runtime |-> {},
              bridges |-> NoFacts, count |-> 0, stopped |-> FALSE]

Skip(plan, cp, reason) == [plan EXCEPT !.Skipped = @ \union {[ID |-> cp.ID, Reason |-> reason]}]

buildStaticTransformation(cp, file) ==
  [ID |-> <<cp.ID, cp.ProofID, "static-loop-prefetch">>, Candidate |-> cp.ID,
   Strategy |-> "static-loop-prefetch", Source |-> cp.Location, File |-> file, Bridge |-> <<>>]
buildRuntimeTransformation(cp, locs, edits, bridge, strategy) ==
  [ID |-> <<cp.ID, cp.ProofID, strategy>>, Candidate |-> cp.ID,
   Strategy |-> strategy, Source |-> locs[1], File |-> edits[1].file, Bridge |-> bridge]

\* Mutant of PlanStatic: only prefetches are looked at for an overlap.
PlanStaticOverRuntime(P, plan, cp) ==
  LET file == P.syntax[cp.Location].file
  IN IF file \in plan.static THEN Skip(plan, cp, "overlapping-source-region")
     ELSE [plan EXCEPT !.edits = Append(@, generate(P, cp.Location)), !.static = @ \union {file},
                       !.Transformations = @ \union {buildStaticTransformation(cp, file)},
                       !.count = @ + 1]

PlanStatic(P, plan, cp) ==
  LET file == P.syntax[cp.Location].file
  IN IF file \in plan.static \union plan.runtime
     THEN Skip(plan, cp, "overlapping-source-region")
     ELSE [plan EXCEPT !.edits = Append(@, generate(P, cp.Location)), !.static = @ \union {file},
                       !.Transformations = @ \union {buildStaticTransformation(cp, file)},
                       !.count = @ + 1]

PlanRuntime(P, plan, cp, locs, requested) ==
  LET low == lowerRuntime(P, cp.Operation, locs)
      files == {e.file : e \in Range(low.edits)}
      label == runtimeStrategyFor(cp, requested)
  IN CASE symbols(P, cp.Operation).scalar = "" -> Skip(plan, cp, "generated-binding-unavailable")
       [] symbols(P, cp.Operation).scalar # "" /\ low.reason # "" -> Skip(plan, cp, low.reason)
       [] symbols(P, cp.Operation).scalar # "" /\ low.reason = "" /\ files \intersect plan.static # {}
            -> Skip(plan, cp, "overlapping-source-region")
       [] OTHER ->
            [plan EXCEPT !.edits = @ \o low.edits, !.runtime = @ \union files,
                         !.bridges = [b \in DOMAIN @ \union {low.bridge} |->
                                        IF b = low.bridge THEN cp.Operation ELSE @[b]],
                         !.Transformations = @ \union
                           {buildRuntimeTransformation(cp, locs, low.edits, low.bridge, label)},
                         !.count = @ + 1]

\* One round of BuildPlan's loop: static prefetch first, then runtime lowering, else skipped.
PlanCandidate(P, plan, cp, locs, requested, filter) ==
  LET wantStatic == "static-loop-prefetch" \in Range(requested)
      wantRuntime == \E s \in Range(requested) : RuntimeStrategies(s)
      static == wantStatic /\ eligibleForProof(cp, "static-loop-prefetch")
      sym == symbols(P, cp.Operation)
      bound == sym.scalar # "" /\ sym.batch # ""
      reason == locateLoop(P, cp.Location)
      runtime == wantRuntime /\ runtimeEligible(cp)
  IN CASE plan.stopped \/ (filter.Max > 0 /\ plan.count >= filter.Max) ->
            [plan EXCEPT !.stopped = TRUE]
       [] ~plan.stopped /\ ~(filter.Max > 0 /\ plan.count >= filter.Max)
          /\ ~matchesFilter(filter, P, cp) -> plan
       [] OTHER ->
            CASE static /\ ~bound -> Skip(plan, cp, "generated-binding-unavailable")
              [] static /\ bound /\ reason = "" -> PlanStatic(P, plan, cp)
              [] static /\ bound /\ reason # "" /\ ~runtime -> Skip(plan, cp, reason)
              [] runtime /\ (static => bound /\ reason # "") ->
                   PlanRuntime(P, plan, cp, locs, requested)
              [] OTHER -> Skip(plan, cp, IF ~wantStatic /\ ~wantRuntime
                                         THEN "strategy-not-requested" ELSE "not-proven-eligible")

\* applyEdits refuses edits of a file that overlap.
overlapping(edits, file) ==
  \E i, j \in DOMAIN edits :
    /\ i # j /\ edits[i].file = file /\ edits[j].file = file
    /\ edits[i].region[1] <= edits[j].region[1] /\ edits[j].region[1] < edits[i].region[2]

\* buildFilePlans: a file whose edits overlap or do not format is left out, with a diagnostic,
\* and so is a bridge that does not format.
buildFilePlans(P, plan) ==
  LET files == {e.file : e \in Range(plan.edits)}
      fails(f) == overlapping(plan.edits, f) \/ ~P.rewritten.formats
  IN [Files |-> {[Path |-> f, Created |-> FALSE] : f \in {g \in files : ~fails(g)}} \union
                {[Path |-> b, Created |-> TRUE] : b \in {c \in DOMAIN plan.bridges : P.rewritten.bridges}},
      Diagnostics |-> {IF overlapping(plan.edits, f) THEN "BW3301" ELSE "BW3401" :
                         f \in {g \in files : fails(g)}} \union
                      {"BW3401" : b \in {c \in DOMAIN plan.bridges : ~P.rewritten.bridges}}]

structuralOK(trs) == \A t \in trs : t.Strategy # "static-loop-prefetch" => t.Bridge # <<>>

\* A rewritten call needs its operation's bridge beside it.
typeCheckOverlay(P, plan, files) ==
  /\ P.rewritten.typechecks
  /\ \A e \in Range(plan.edits) :
       LET b == bridgeFile(P, e.file, e.op)
       IN e.op # 0 /\ [Path |-> e.file, Created |-> FALSE] \in files =>
            [Path |-> b, Created |-> TRUE] \in files /\ plan.bridges[b] = e.op

finalizePlanDigest(P, trs, files) ==
  <<P.buildDigest, P.config.Digest, {t.ID : t \in trs}, files>>

BuildPlan(P, report, candidateLocs, strategies, filter) ==
  LET requested == IF strategies = <<>> THEN defaultStrategies ELSE strategies
      round(plan, cp) == PlanCandidate(P, plan, cp, candidateLocs[cp.ID], requested, filter)
      done == FoldLeft(round, EmptyPlan, report.CandidateProofs)
      built == buildFilePlans(P, done)
      checked == built.Files # {}
      passes(ok) == IF checked THEN IF ok THEN "passed" ELSE "failed" ELSE "skipped-with-reason"
  IN [Transformations |-> done.Transformations, Skipped |-> done.Skipped, Files |-> built.Files,
      stopped |-> done.stopped,
      Diagnostics |-> built.Diagnostics \union
                      (IF checked /\ ~typeCheckOverlay(P, done, built.Files) THEN {"BW3402"} ELSE {}),
      Structural |-> passes(structuralOK(done.Transformations)),
      TypeCheck |-> passes(typeCheckOverlay(P, done, built.Files)),
      Digest |-> finalizePlanDigest(P, done.Transformations, built.Files)]
=============================================================================
