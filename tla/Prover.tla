------------------------------ MODULE Prover ------------------------------
(***************************************************************************)
(* Package internal/proof: which batching strategies are proven safe for a *)
(* candidate.  Everything is a function of the analysis facts, the         *)
(* operation contracts and the assumptions supplied, so the module has no  *)
(* state: Prove maps an input to a report, a proof per candidate.          *)
(*                                                                         *)
(* A call site is a record of its facts; a missing fact is "" or <<>>, a   *)
(* described argument a tuple of what is said of it.  Digests are the      *)
(* tuples they hash.                                                       *)
(***************************************************************************)
EXTENDS OperationSpec

obligation(id, family) == [ID |-> id, Family |-> family]
obligationRegistry ==
  <<obligation("SignatureCompatible", "declaration"), obligation("OperationEnabled", "declaration"),
    obligation("ResultContract", "declaration"), obligation("ReadCategory", "effect"),
    obligation("FreshnessNeutral", "effect"), obligation("TargetResolved", "dependency"),
    obligation("NoObservableBarrier", "order"), obligation("EarlyExitReplayable", "order"),
    obligation("KeyIndependent", "dependency"), obligation("NoLoopCarried", "dependency"),
    obligation("ReceiverInvariant", "receiver"), obligation("ContextInvariant", "context"),
    obligation("PartitionStable", "transaction"), obligation("DuplicateMapping", "result"),
    obligation("FirstErrorOrder", "error"), obligation("NoDeferBarrier", "panic"),
    obligation("NoRecoverBoundary", "panic"), obligation("NoNewConcurrency", "concurrency"),
    obligation("FanoutEnvelope", "concurrency")>>
ObligationIDs == [i \in DOMAIN obligationRegistry |-> obligationRegistry[i].ID]
Family(id) == LET i == CHOOSE i \in DOMAIN obligationRegistry : obligationRegistry[i].ID = id
              IN obligationRegistry[i].Family

RuntimeCore == {"SignatureCompatible", "OperationEnabled", "ResultContract", "ReadCategory",
                "TargetResolved", "PartitionStable", "DuplicateMapping"}
staticCore == RuntimeCore \union
  {"FreshnessNeutral", "NoObservableBarrier", "KeyIndependent", "ReceiverInvariant",
   "ContextInvariant", "NoDeferBarrier", "NoRecoverBoundary", "NoNewConcurrency"}

strategyRegistry ==
  LET prefetch == staticCore \union {"NoLoopCarried", "EarlyExitReplayable", "FirstErrorOrder"}
  IN [s \in {"static-loop-prefetch", "static-ordered-prefetch", "static-sibling-fusion",
             "existing-fanout-coalescing", "runtime-scope-coalescing"} |->
        CASE s \in {"static-loop-prefetch", "static-ordered-prefetch"} -> prefetch
          [] s = "static-sibling-fusion" -> staticCore \union {"EarlyExitReplayable", "FirstErrorOrder"}
          [] s = "existing-fanout-coalescing" -> RuntimeCore \union {"FanoutEnvelope"}
          [] s = "runtime-scope-coalescing" -> RuntimeCore]
\* Strategies in strategyRank order.
StrategyOrder == <<"static-loop-prefetch", "static-ordered-prefetch", "static-sibling-fusion",
                   "existing-fanout-coalescing", "runtime-scope-coalescing">>

staticBarrierEffects == {"global-write", "channel", "synchronization", "network", "process",
  "filesystem", "unsafe", "reflection", "unknown-call", "randomness", "time", "logging", "goroutine"}

\* The zero value of a missing analysis operation, and the empty map.
NoOperation == [Compatibility |-> "", Disabled |-> FALSE, Kind |-> ""]
NoFacts == [x \in {} |-> ""]

--------------------------------------------------------------------------
\* Assumptions

\* newAssumptionSet: a wildcard is not indexed, the last assumption of a symbol counts.
newAssumptionSet(as) ==
  LET symbols == {a.Symbol : a \in Range(as)} \ {""}
      last(sym) == CHOOSE i \in DOMAIN as :
                     as[i].Symbol = sym /\ \A j \in DOMAIN as : as[j].Symbol = sym => j <= i
  IN [sym \in symbols |-> as[last(sym)].Facts]
hasAssumption(set, symbol, fact) == symbol \in DOMAIN set /\ fact \in set[symbol]

keySymbol(op) == <<"key", op>>

--------------------------------------------------------------------------
\* The facts of a candidate

ambiguous(s) == s.Targets # 1 \/ s.Dispatch \in {"interface", "unknown"}

\* newCandidateContext: the facts of the candidate's sites, folded together; a function
\* without an effect summary is incomplete.
newCandidateContext(cand, op, specs, siteByID, effByFn, assumptions, contractDigest) ==
  LET known == SelectSeq(cand.CallSites, LAMBDA id : id \in DOMAIN siteByID)
      sites == {siteByID[id] : id \in Range(known)}
      fns == {s.EnclosingFunctionID : s \in sites} \ {""}
  IN [cand |-> cand, op |-> op, hasSpec |-> cand.Operation \in DOMAIN specs,
      spec |-> IF cand.Operation \in DOMAIN specs THEN specs[cand.Operation] ELSE "none",
      sites |-> sites, location |-> IF known = <<>> THEN <<>> ELSE siteByID[known[1]].Location,
      contractDigest |-> contractDigest, assumptions |-> assumptions,
      effects |-> UNION {effByFn[f].Effects : f \in fns \intersect DOMAIN effByFn},
      effectsComplete |-> \A f \in fns : f \in DOMAIN effByFn /\ effByFn[f].Complete,
      dispatch |-> {s.Dispatch : s \in sites} \union
                   (IF \E s \in sites : ambiguous(s) THEN {"ambiguous"} ELSE {}),
      receivers |-> {s.Receiver : s \in sites} \ {<<>>},
      contexts |-> {s.ContextArg : s \in sites} \ {<<>>},
      keyDeps |-> {s.KeyDependency : s \in sites} \ {""},
      inGoroutine |-> \E s \in sites : s.InGoroutine]

structureLabel(state) ==
  CASE state = "potential_loop" -> "range loop" [] state = "potential_siblings" -> "sibling calls"
    [] state = "potential_fanout" -> "goroutine fan-out"
    [] state = "ambiguous_target" -> "ambiguous target" [] state = "direct_isolated" -> "direct call"
    [] state = "disabled_operation" -> "disabled operation"
    [] state = "invalid_declaration" -> "invalid declaration" [] OTHER -> state

operationEffect(cc) ==
  CASE cc.hasSpec -> Effect(cc.spec.semantics.kind)
    [] ~cc.hasSpec /\ cc.op.Kind = "" -> "unknown"
    [] ~cc.hasSpec /\ cc.op.Kind \in {"read-only", "freshness-sensitive-read"} -> "read"
    [] ~cc.hasSpec /\ cc.op.Kind \in {"commutative-aggregation", "ordered-aggregation"} -> "aggregate"
    [] OTHER -> "write"

--------------------------------------------------------------------------
\* Obligation evaluators: "satisfied", "not_applicable", "violated", "unknown", "needs_assumption", "deferred"

SatisfiedIf(holds) == IF holds THEN "satisfied" ELSE "unknown"

oblSignatureCompatible(cc) ==
  CASE cc.op.Compatibility = "valid" -> "satisfied"
    [] cc.op.Compatibility = "unresolved" -> "unknown"
    [] OTHER -> "violated"
oblOperationEnabled(cc) == IF cc.op.Disabled THEN "deferred" ELSE "satisfied"
oblResultContract(cc) == SatisfiedIf(cc.hasSpec)
oblReadCategory(cc) ==
  CASE operationEffect(cc) = "read" -> "satisfied"
    [] operationEffect(cc) = "unknown" -> "unknown"
    [] OTHER -> "violated"
oblFreshnessNeutral(cc) ==
  CASE cc.hasSpec /\ cc.spec.semantics.freshnessDependent -> "unknown"
    [] operationEffect(cc) # "read" -> "not_applicable"
    [] OTHER -> "satisfied"
oblTargetResolved(cc) == SatisfiedIf(~\E s \in cc.sites : ambiguous(s))
oblNoObservableBarrier(cc) ==
  SatisfiedIf(cc.effectsComplete /\ cc.effects \intersect staticBarrierEffects = {})
oblEarlyExitReplayable(cc) == SatisfiedIf(cc.hasSpec /\ cc.spec.result.errorMode = "per-item")
keyAssumed(cc) ==
  hasAssumption(cc.assumptions, keySymbol(cc.cand.Operation), "side_effect_free_read")
oblKeyIndependent(cc) ==
  CASE "result-dependent" \in cc.keyDeps -> "violated"
    [] "call-derived" \in cc.keyDeps -> IF keyAssumed(cc) THEN "satisfied" ELSE "needs_assumption"
    [] OTHER -> SatisfiedIf("unknown" \notin cc.keyDeps /\ cc.keyDeps # {})
oblNoLoopCarried(cc) ==
  CASE cc.cand.State # "potential_loop" -> "not_applicable"
    [] "result-dependent" \in cc.keyDeps -> "violated"
    [] OTHER -> SatisfiedIf(cc.keyDeps \intersect {"call-derived", "unknown"} = {})
receiverInvariant(cc) == Cardinality(cc.receivers) <= 1 /\ <<"unknown">> \notin cc.receivers
oblReceiverInvariant(cc) == SatisfiedIf(receiverInvariant(cc))
oblContextInvariant(cc) ==
  SatisfiedIf(Cardinality(cc.contexts) = 1 /\ \A c \in cc.contexts : c[1] = "parameter")
oblPartitionStable(cc) ==
  SatisfiedIf(/\ cc.hasSpec
              /\ Range(cc.spec.partition.required) \subseteq {"receiver"}
              /\ requires(cc.spec.partition, "receiver") => receiverInvariant(cc))
oblDuplicateMapping(cc) == SatisfiedIf(cc.hasSpec)
oblFirstErrorOrder(cc) == SatisfiedIf(cc.hasSpec /\ cc.spec.result.errorMode = "per-item")
oblNoDeferBarrier(cc) == SatisfiedIf("defer" \notin cc.effects)
oblNoRecoverBoundary(cc) == SatisfiedIf("recover" \notin cc.effects)
oblNoNewConcurrency(cc) == "satisfied"
oblFanoutEnvelope(cc) == IF cc.inGoroutine THEN "satisfied" ELSE "not_applicable"

evaluateObligations(cc) ==
  [SignatureCompatible |-> oblSignatureCompatible(cc), OperationEnabled |-> oblOperationEnabled(cc),
   ResultContract |-> oblResultContract(cc), ReadCategory |-> oblReadCategory(cc),
   FreshnessNeutral |-> oblFreshnessNeutral(cc), TargetResolved |-> oblTargetResolved(cc),
   NoObservableBarrier |-> oblNoObservableBarrier(cc),
   EarlyExitReplayable |-> oblEarlyExitReplayable(cc), KeyIndependent |-> oblKeyIndependent(cc),
   NoLoopCarried |-> oblNoLoopCarried(cc), ReceiverInvariant |-> oblReceiverInvariant(cc),
   ContextInvariant |-> oblContextInvariant(cc), PartitionStable |-> oblPartitionStable(cc),
   DuplicateMapping |-> oblDuplicateMapping(cc), FirstErrorOrder |-> oblFirstErrorOrder(cc),
   NoDeferBarrier |-> oblNoDeferBarrier(cc), NoRecoverBoundary |-> oblNoRecoverBoundary(cc),
   NoNewConcurrency |-> oblNoNewConcurrency(cc), FanoutEnvelope |-> oblFanoutEnvelope(cc)]

--------------------------------------------------------------------------
\* The lattice

\* strategyStatus: the worst status among the required obligations, with the obligations
\* that have it in registry order.  An obligation without a result counts as unknown.
strategyStatus(required, results) ==
  LET status(o) == IF o \in DOMAIN results THEN results[o] ELSE "unknown"
      with(st) == SelectSeq(ObligationIDs, LAMBDA o : o \in required /\ status(o) = st)
      outcome(d, st) == [Status |-> d, Blocking |-> with(st)]
  IN CASE with("violated") # <<>> -> outcome("proven_ineligible", "violated")
       [] with("violated") = <<>> /\ with("unknown") # <<>> -> outcome("unknown", "unknown")
       [] with("violated") = <<>> /\ with("unknown") = <<>> /\ with("needs_assumption") # <<>>
            -> outcome("requires_assumption", "needs_assumption")
       [] with("violated") = <<>> /\ with("unknown") = <<>> /\ with("needs_assumption") = <<>>
          /\ with("deferred") # <<>> -> outcome("deferred", "deferred")
       [] OTHER -> [Status |-> "proven_eligible", Blocking |-> <<>>]

aggregateDecision(elig) ==
  LET has(d) == \E s \in DOMAIN elig : elig[s].Status = d
  IN CASE DOMAIN elig = {} -> "deferred"
       [] has("proven_eligible") -> "proven_eligible"
       [] ~has("proven_eligible") /\ has("requires_assumption") -> "requires_assumption"
       [] ~has("proven_eligible") /\ ~has("requires_assumption") /\ has("unknown") -> "unknown"
       [] /\ \A d \in {"proven_eligible", "requires_assumption", "unknown", "proven_ineligible"} : ~has(d)
          /\ has("deferred") -> "deferred"
       [] OTHER -> "proven_ineligible"

applicableStrategies(state) ==
  {"runtime-scope-coalescing"} \union
  (CASE state = "potential_loop" -> {"static-loop-prefetch", "static-ordered-prefetch"}
     [] state = "potential_siblings" -> {"static-sibling-fusion"}
     [] state = "potential_fanout" -> {"existing-fanout-coalescing"}
     [] OTHER -> {})

\* The strategies of elig that stand at d with something blocking them, in rank order.
BlockedAt(elig, d) == SelectSeq(StrategyOrder, LAMBDA s : /\ s \in DOMAIN elig
                                                          /\ elig[s].Status = d
                                                          /\ elig[s].Blocking # <<>>)

\* The reason of the first strategy that stands at the decision and names one.
decisionReason(decision, elig) ==
  LET blocking(s) == elig[s].Blocking[1]
      reason(s) ==
        CASE blocking(s) = "ReadCategory" -> "write_category"
          [] blocking(s) # "ReadCategory" /\ Family(blocking(s)) = "dependency" -> "ambiguous_target"
          [] blocking(s) # "ReadCategory" /\ Family(blocking(s)) \in {"order", "effect"}
               -> "observable_barrier"
          [] Family(blocking(s)) \in {"result", "error", "receiver", "context", "transaction"}
               -> "missing_contract"
          [] OTHER -> ""
      named == SelectSeq(BlockedAt(elig, decision), LAMBDA s : reason(s) # "")
  IN IF decision = "proven_eligible" \/ named = <<>> THEN "" ELSE reason(named[1])

--------------------------------------------------------------------------
\* Identity

\* candidateDigest over the facts bundle: key dependencies and concurrency are not in it.
candidateDigest(cc) ==
  <<cc.cand.ID, cc.cand.Operation, cc.cand.State, cc.op.Compatibility, cc.op.Disabled, cc.op.Kind,
    cc.contractDigest, cc.dispatch, cc.effects, cc.effectsComplete, cc.receivers, cc.contexts>>

\* The InvalidationSet of a proof; its AnalysisDigest is given the contract digest.
Invalidation(cc) ==
  [AnalysisDigest |-> cc.contractDigest, ContractDigest |-> cc.contractDigest,
   AssumptionDigest |-> cc.assumptions, CandidateDigest |-> candidateDigest(cc)]

proofID(cc, results, elig) ==
  <<candidateDigest(cc), cc.contractDigest, cc.assumptions, results,
    [s \in DOMAIN elig |-> elig[s].Status]>>

--------------------------------------------------------------------------
\* Proving

collectAssumptions(cc, results) ==
  (IF /\ "call-derived" \in cc.keyDeps
      /\ "result-dependent" \notin cc.keyDeps THEN {keySymbol(cc.cand.Operation)} ELSE {})
  \union (IF cc.inGoroutine THEN {<<"race-free">>} ELSE {})

\* terminal: an invalid or a disabled declaration is decided before any strategy.
terminal(cc, decision, reason) ==
  LET results == IF decision = "proven_ineligible" THEN [SignatureCompatible |-> "violated"]
                                                   ELSE [OperationEnabled |-> "deferred"]
  IN [ID |-> cc.cand.ID, Operation |-> cc.cand.Operation, Decision |-> decision,
      Structure |-> structureLabel(cc.cand.State), Location |-> cc.location,
      Reason |-> reason, Strategies |-> NoFacts, Obligations |-> results,
      Assumptions |-> {}, Invalidation |-> Invalidation(cc),
      ProofID |-> proofID(cc, results, NoFacts)]

proveCandidate(cc) ==
  LET results == evaluateObligations(cc)
      elig == [s \in applicableStrategies(cc.cand.State) |-> strategyStatus(strategyRegistry[s], results)]
      decision == aggregateDecision(elig)
  IN CASE cc.op.Compatibility = "invalid" ->
            terminal(cc, "proven_ineligible", "invalid_declaration")
       [] cc.op.Compatibility # "invalid" /\ cc.op.Disabled ->
            terminal(cc, "deferred", "disabled_operation")
       [] OTHER ->
            [ID |-> cc.cand.ID, Operation |-> cc.cand.Operation, Decision |-> decision,
             Structure |-> structureLabel(cc.cand.State), Location |-> cc.location,
             Reason |-> decisionReason(decision, elig), Strategies |-> elig, Obligations |-> results,
             Assumptions |-> collectAssumptions(cc, results), Invalidation |-> Invalidation(cc),
             ProofID |-> proofID(cc, results, elig)]

\* limitedProof: a candidate past the budget is unknown; only its identity enters the digest.
limitedProof(cand, contractDigest, assumptions) ==
  LET cc == [cand |-> cand, op |-> NoOperation, contractDigest |-> contractDigest,
             assumptions |-> assumptions, dispatch |-> {}, effects |-> {}, effectsComplete |-> FALSE,
             receivers |-> {}, contexts |-> {}]
  IN [ID |-> cand.ID, Operation |-> cand.Operation, Decision |-> "unknown",
      Structure |-> structureLabel(cand.State), Location |-> <<>>,
      Reason |-> "resource_limit", Strategies |-> NoFacts, Obligations |-> NoFacts,
      Assumptions |-> {}, Invalidation |-> Invalidation(cc), ProofID |-> proofID(cc, NoFacts, NoFacts)]

\* blockingDiagnostic and codeForFamily: what a non-eligible proof is reported as.
codeForFamily(family) ==
  CASE family = "declaration" -> "BW5000" [] family = "order" -> "BW5100"
    [] family = "dependency" -> "BW5200" [] family = "effect" -> "BW5300"
    [] family = "receiver" -> "BW5400" [] family \in {"result", "error"} -> "BW5500"
    [] family = "context" -> "BW5600" [] family = "transaction" -> "BW5700"
    [] family = "panic" -> "BW5800" [] OTHER -> "BW5900"
blockingObligation(cp) ==
  LET blocked == BlockedAt(cp.Strategies, cp.Decision)
      open == SelectSeq(ObligationIDs, LAMBDA o : /\ o \in DOMAIN cp.Obligations
                                                  /\ cp.Obligations[o] \in {"violated", "unknown"})
  IN CASE blocked # <<>> -> cp.Strategies[blocked[1]].Blocking[1]
       [] blocked = <<>> /\ open # <<>> -> open[1]
       [] OTHER -> ""
proofDiagnostics(cp) ==
  LET o == blockingObligation(cp)
  IN IF cp.Decision = "proven_eligible" THEN {}
     ELSE {[Code |-> codeForFamily(IF o = "" THEN "" ELSE Family(o)), Candidate |-> cp.ID,
             Obligation |-> o,
             Severity |-> IF cp.Decision = "proven_ineligible" THEN "warning" ELSE "info"]}

\* Prove: a proof for every candidate of the snapshot, in order.  A candidate of an operation
\* that is not in the snapshot is proved against the zero operation.
Prove(in) ==
  LET assumptions == newAssumptionSet(in.Assumptions)
      op(c) == IF c.Operation \in DOMAIN in.Operations THEN in.Operations[c.Operation] ELSE NoOperation
      cc(c) == newCandidateContext(c, op(c), in.Specs, in.CallSites, in.Effects, assumptions,
                                   in.ContractDigest)
      proofs == [i \in DOMAIN in.Candidates |->
                   IF i > in.MaxCandidates
                   THEN limitedProof(in.Candidates[i], in.ContractDigest, assumptions)
                   ELSE proveCandidate(cc(in.Candidates[i]))]
      evaluated == {i \in DOMAIN proofs : i <= in.MaxCandidates}
      count(S, P(_)) == Cardinality({i \in S : P(proofs[i])})
      requests(p) == "KeyIndependent" \in DOMAIN p.Obligations
                     /\ p.Obligations.KeyIndependent = "needs_assumption"
      eligible(p, s) == s \in DOMAIN p.Strategies /\ p.Strategies[s].Status = "proven_eligible"
  IN [CandidateProofs |-> proofs,
      DecisionCounts |-> [d \in {p.Decision : p \in Range(proofs)} |->
                            count(DOMAIN proofs, LAMBDA p : p.Decision = d)],
      StrategyCounts |-> [s \in DOMAIN strategyRegistry |->
                            count(evaluated, LAMBDA p : eligible(p, s))],
      Requested |-> [o \in {proofs[i].Operation : i \in {j \in evaluated : requests(proofs[j])}} |->
                       count(evaluated, LAMBDA p : p.Operation = o /\ requests(p))],
      Diagnostics |-> UNION {proofDiagnostics(proofs[i]) : i \in evaluated}]
==========================================================================
