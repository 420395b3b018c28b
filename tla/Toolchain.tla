------------------------------ MODULE Toolchain ------------------------------
(***************************************************************************)
(* One run of transform plan, from the loaded program to the plan: the      *)
(* effect summaries are iterated to a fixed point in whatever order the map *)
(* of call-graph nodes is ranged over, the candidates are discovered (an    *)
(* interface call may be taken for any operation it matches) and proved,    *)
(* and the proven ones are planned.  tool is the whole state.               *)
(***************************************************************************)
EXTENDS TransformPlan

CONSTANTS Programs,   \* the programs the command is run on, by name
          Requests    \* [strategies, filter]: what is asked for

VARIABLE tool

ToolIdle == [phase |-> "idle"]
ToolInit == \E p \in DOMAIN Programs :
              tool = [phase |-> "effects", name |-> p, iter |-> 0,
                      state |-> [f \in Range(Programs[p].funcs) |-> directEffects(Programs[p], f)]]

Program == Programs[tool.name]

\* One round of computeEffects' loop, which ends when a round changed nothing.  A function that
\* calls nothing takes nothing over, whenever its turn comes.
IterateEffects ==
  /\ tool.phase = "effects" /\ tool.iter < maxEffectIterations
  /\ LET P == Program IN
     \E order \in SetToSeqs({f \in Range(P.funcs) : Callees(P, f) # {}}) :
       LET new == EffectIteration(P, tool.state, order)
       IN tool' = [tool EXCEPT !.state = new, !.iter = @ + 1,
                               !.phase = IF new = tool.state THEN "discover" ELSE "effects"]

EffectSummaries(P, state) ==
  [f \in appFunctions(P) |-> [Effects |-> state[f].effects, Complete |-> state[f].complete]]

\* Discovery and proof.  Sites and candidates are in the order of their IDs, which are digests.
DiscoverAndProve ==
  /\ tool.phase = "discover"
  /\ LET P == Program
         found == discoverOperations(P)
         matches == Matches(P, found.ops)
     IN \E taken \in [DOMAIN matches -> DOMAIN found.ops] :
          /\ \A c \in DOMAIN matches : taken[c] \in matches[c]
          /\ LET sites == callSiteDiscovery(P, found.ops, taken)
             IN \E order \in SetToSeqs(DOMAIN sites) :
                \E candidates \in SetToSeqs(buildCandidates(found.ops, sites, order)) :
                  tool' = [phase |-> "plan", name |-> tool.name, state |-> tool.state, candidates |-> candidates,
                           sites |-> sites,
                           report |-> runProof(P, found.ops, sites, EffectSummaries(P, tool.state),
                                               candidates)]

candidateLocations(candidates, sites) ==
  [id \in {candidates[i].ID : i \in DOMAIN candidates} |->
     LET c == CHOOSE c \in Range(candidates) : c.ID = id
     IN [i \in DOMAIN c.CallSites |-> sites[c.CallSites[i]].Location]]

PlanProgram ==
  /\ tool.phase = "plan"
  /\ \E r \in Requests :
       tool' = [phase |-> "planned", name |-> tool.name, request |-> r, report |-> tool.report,
                plan |-> BuildPlan(Program, tool.report,
                                   candidateLocations(tool.candidates, tool.sites),
                                   r.strategies, r.filter)]

ToolNext == IterateEffects \/ DiscoverAndProve \/ PlanProgram

-----------------------------------------------------------------------------
(* Properties. *)

\* What a function may do, by the call graph alone: the effects of every function it reaches,
\* completely known only when every one of them is.
Reached(P, f) == Closure({f}, LAMBDA g : IF g \in Range(P.funcs) THEN Callees(P, g) ELSE {},
                         Cardinality(Range(P.funcs)) + 1)
TrueEffects(P, f) ==
  LET known == Reached(P, f) \intersect Range(P.funcs)
      missing == Reached(P, f) \ Range(P.funcs)
  IN [effects |-> UNION {directEffects(P, g).effects : g \in known}
                  \union (IF missing # {} THEN {"unknown-call"} ELSE {}),
      complete |-> missing = {} /\ \A g \in known : directEffects(P, g).complete]

\* computeEffects: in whatever order the nodes come, the summaries that the loop ends with are
\* those of everything reachable, recursion included, and no summary is ever too pessimistic.
EffectsExact ==
  /\ tool.phase = "discover" => \A f \in DOMAIN tool.state : tool.state[f] = TrueEffects(Program, f)
  /\ tool.phase = "effects" => \A f \in DOMAIN tool.state :
       /\ tool.state[f].effects \subseteq TrueEffects(Program, f).effects
       /\ TrueEffects(Program, f).complete => tool.state[f].complete

\* A loop is rewritten to a prefetch only where the program allows it: the operation reads, the
\* key comes from nothing the loop calls or computes from a result, nothing the function can
\* reach is observable or unknown, nothing runs concurrently, the contract reports errors per
\* item, and the code has the form the rewriting assumes.
PrefetchesAreSafe ==
  tool.phase = "planned" =>
    \A t \in {u \in tool.plan.Transformations : u.Strategy = "static-loop-prefetch"} :
      LET P == Program
          fact == P.facts[t.Source]
          reach == TrueEffects(P, t.Source[1])
          spec == P.config.Contracts[t.Candidate[1]]
      IN /\ spec.semantics.effect = "read" /\ ~spec.semantics.freshnessDependent
         /\ spec.result.errorMode = "per-item"
         /\ fact.op = t.Candidate[1] /\ fact.key = "element" /\ fact.context = "parameter"
         /\ ~fact.async /\ fact.loop /\ fact.static
         /\ reach.complete
         /\ reach.effects \intersect (staticBarrierEffects \union {"defer", "recover"}) = {}
         /\ loopShape \subseteq P.syntax[t.Source].shape

\* A rewritten call, however it is rewritten, is one of an enabled read whose declaration is
\* valid and whose callee is known.
RewritesAreReads ==
  tool.phase = "planned" =>
    \A t \in tool.plan.Transformations :
      LET P == Program
          op == discoverOperations(P).ops[t.Candidate[1]]
      IN /\ op.Compatibility = "valid" /\ ~op.Disabled
         /\ P.config.Contracts[t.Candidate[1]].semantics.effect = "read"
         /\ t.Candidate[3] # "ambiguous_target"

\* BuildPlan accounts for every candidate once: it is transformed, or skipped with a reason,
\* unless the filter left it out or the limit had been reached; and a candidate is transformed
\* only by a strategy that was asked for.
CandidatesAccounted ==
  tool.phase = "planned" =>
    LET plan == tool.plan
        done == {t.Candidate : t \in plan.Transformations}
        skipped == {s.ID : s \in plan.Skipped}
        proofs == Range(tool.report.CandidateProofs)
        asked == IF tool.request.strategies = <<>> THEN {"static-loop-prefetch"}
                 ELSE Range(tool.request.strategies)
    IN /\ done \intersect skipped = {}
       /\ Cardinality(plan.Transformations) = Cardinality(done)
       /\ Cardinality(plan.Skipped) = Cardinality(skipped)
       /\ ~plan.stopped => {p.ID : p \in {q \in proofs : matchesFilter(tool.request.filter, Program, q)}}
                             = done \union skipped
       /\ tool.request.filter.Max > 0 => Cardinality(done) <= tool.request.filter.Max
       /\ \A t \in plan.Transformations : t.Strategy \in asked

\* The files of a plan are those its transformations touch: a transformation without its file
\* or without its bridge has a diagnostic or fails the type check; no file is in the plan for
\* no transformation; and no file is rewritten both ways.
PlanFilesMatch ==
  tool.phase = "planned" =>
    LET plan == tool.plan
        paths == {f.Path : f \in plan.Files}
        uses == UNION {{t.File, t.Bridge} : t \in plan.Transformations} \ {<<>>}
        prefetched == {t.File : t \in {u \in plan.Transformations : u.Strategy = "static-loop-prefetch"}}
    IN /\ (uses \subseteq paths) \/ plan.Diagnostics # {}
       /\ {f.Path : f \in {g \in plan.Files : g.Created}} \subseteq uses
       /\ prefetched \intersect {t.File : t \in {u \in plan.Transformations : u.Bridge # <<>>}} = {}
       /\ \A t, u \in plan.Transformations : t # u /\ t.File \in prefetched => t.File # u.File
       /\ plan.TypeCheck = "failed" <=> "BW3402" \in plan.Diagnostics
=============================================================================
