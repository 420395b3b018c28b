------------------------------ MODULE Analysis ------------------------------
(***************************************************************************)
(* Package internal/analysis: from a loaded Go program to a snapshot of its *)
(* operations, call sites, effect summaries and candidates.                 *)
(*                                                                          *)
(* A program P is a record of                                               *)
(*   packages   the loaded packages, in the order packages.Visit meets them *)
(*   funcs      the SSA functions, in funcKey order                         *)
(*   fn         their records: sym ("" when symbolFromFunc finds none),     *)
(*              name, display, pkg, method, blocks                          *)
(*   values     the SSA values, by name: op, operands, callee, type         *)
(*   returnsErr the symbols whose last result is an error                   *)
(*   decls      the calls of the typed declaration helpers                  *)
(*   config     what loading the configuration gives                        *)
(* A block has the indices of its successors and its instructions; SSA, the *)
(* dominator tree and the CHA call graph are x/tools'.  Digests are the     *)
(* tuples they hash; the empty string is a missing fact.                    *)
(***************************************************************************)
EXTENDS Integers, Sequences, FiniteSets, SequencesExt

\* What is reached from S in at most n steps of Succ.
Closure(S, Succ(_), n) ==
  LET reach[i \in 0..n] == IF i = 0 THEN S
                           ELSE LET now == reach[i - 1] IN now \union UNION {Succ(x) : x \in now}
  IN reach[n]

-----------------------------------------------------------------------------
(* Packages and symbols. *)

isTestVariant(p) == p.Test

classify(p) ==
  CASE p.Module = "main" /\ isTestVariant(p) -> "application-test"
    [] p.Module = "main" /\ ~isTestVariant(p) /\ p.Name = "main" -> "command"
    [] p.Module = "main" /\ ~isTestVariant(p) /\ p.Name # "main" -> "application"
    [] p.Module = "" -> "standard-library"
    [] OTHER -> "dependency"

\* classifyPackages: the paths whose functions are reported on.
appPaths(P) ==
  {p.PkgPath : p \in {q \in Range(P.packages) :
                        \/ classify(q) \in {"application", "command", "application-test"}
                        \/ isTestVariant(q)}}

appFunctions(P) == {f \in Range(P.funcs) : P.fn[f].pkg \in appPaths(P)}

\* newResolver: the first package of a path that has types, a test variant only if all are.
newResolver(P) ==
  LET typed == SelectSeq(P.packages, LAMBDA p : p.Types)
      of(path) == SelectSeq(typed, LAMBDA p : p.PkgPath = path)
      proper(path) == SelectSeq(of(path), LAMBDA p : ~isTestVariant(p))
  IN [path \in {p.PkgPath : p \in Range(typed)} |->
        IF proper(path) # <<>> THEN Head(proper(path)) ELSE Head(of(path))]

resolveFunc(P, sym) == \E path \in DOMAIN newResolver(P) : sym \in newResolver(P)[path].Scope

\* buildSSA's index of the functions by symbol: the first in funcKey order.
scalarFuncs(P, sym) ==
  LET named == SelectSeq(P.funcs, LAMBDA f : P.fn[f].sym = sym)
  IN IF sym # "" /\ named # <<>> THEN Head(named) ELSE ""

-----------------------------------------------------------------------------
(* Operations. *)

returnsError(P, sym) == sym \in P.returnsErr

NewOperation(id, kind, scalar, batch, source) ==
  [ID |-> id, Kind |-> kind, ScalarSymbol |-> scalar, BatchSymbol |-> batch, Disabled |-> FALSE,
   Sources |-> <<source>>, Compatibility |-> ""]

\* extractOpID finds the ID only where the declaration parses a literal.
extractOpID(d) == IF d.Literal THEN d.ID ELSE 0

discoverTyped(P) ==
  LET calls == SelectSeq(P.decls, LAMBDA d : d.Root /\ d.Args >= 3 /\ extractOpID(d) # 0)
  IN [i \in DOMAIN calls |->
        NewOperation(extractOpID(calls[i]), "", calls[i].Scalar, calls[i].Batch, "typed")]

\* discoverConfig: a configuration with errors declares nothing and has no digest.
discoverConfig(P) ==
  IF ~P.config.Found THEN [ops |-> <<>>, diags |-> {}, digest |-> ""]
  ELSE IF P.config.Errors # {} THEN [ops |-> <<>>, diags |-> P.config.Errors, digest |-> ""]
  ELSE [ops |-> [i \in DOMAIN P.config.Specs |->
                   LET s == P.config.Specs[i]
                   IN NewOperation(s.ID, s.Kind, s.Scalar, s.Batch, "configuration")],
        diags |-> {}, digest |-> P.config.Digest]

\* The compatibility an operation is given, with the codes reported on the way: what the
\* batch symbol gives replaces what the scalar symbol gave, a resolved function without an
\* error result is invalid in any case.
resolveCompatibility(P, op) ==
  LET outcome(sym) ==
        CASE sym = "" -> "none"
          [] sym = "malformed" -> "invalid"
          [] sym \notin {"", "malformed"} /\ ~resolveFunc(P, sym) -> "unresolved"
          [] sym \notin {"", "malformed"} /\ resolveFunc(P, sym) ->
               IF returnsError(P, sym) THEN "valid" ELSE "no error result"
      s == outcome(op.ScalarSymbol)
      b == outcome(op.BatchSymbol)
      code(o, unresolved) ==
        CASE o = "invalid" -> {"BW3105"} [] o = "unresolved" -> {unresolved}
          [] o = "no error result" -> {"BW3108"} [] OTHER -> {}
  IN [Compatibility |->
        CASE "no error result" \in {s, b} -> "invalid"
          [] "no error result" \notin {s, b} /\ b \in {"invalid", "unresolved"} -> b
          [] "no error result" \notin {s, b} /\ b \in {"none", "valid"}
             /\ s \in {"invalid", "unresolved"} -> s
          [] s = "none" /\ b = "none" -> "unresolved"
          [] OTHER -> "valid",
      diags |-> code(s, "BW3102") \union code(b, "BW3103")]

\* A repeated declaration adds its source, the configuration overrides what it states.
AddOperation(byID, op) ==
  IF op.ID \notin DOMAIN byID THEN [i \in DOMAIN byID \union {op.ID} |->
                                      IF i = op.ID THEN op ELSE byID[i]]
  ELSE LET old == byID[op.ID]
           over(new, prior) == IF op.Sources = <<"configuration">> /\ new # "" THEN new ELSE prior
       IN [byID EXCEPT ![op.ID] =
             [old EXCEPT !.Sources = @ \o op.Sources,
                         !.ScalarSymbol = over(op.ScalarSymbol, @),
                         !.BatchSymbol = over(op.BatchSymbol, @),
                         !.Kind = over(op.Kind, @)]]

NoOperations == [i \in {} |-> ""]

discoverOperations(P) ==
  LET declared == FoldLeft(AddOperation, NoOperations, discoverTyped(P))
      cfg == discoverConfig(P)
      merged == FoldLeft(AddOperation, declared, cfg.ops)
      differ(a, b) == a # "" /\ b # "" /\ a # b
      conflict(c) == /\ c.ID \in DOMAIN declared
                     /\ \/ differ(c.ScalarSymbol, declared[c.ID].ScalarSymbol)
                        \/ differ(c.BatchSymbol, declared[c.ID].BatchSymbol)
      resolved(id) == resolveCompatibility(P, merged[id])
  IN [ops |-> [id \in DOMAIN merged |->
                 [merged[id] EXCEPT !.Compatibility = resolved(id).Compatibility]],
      diags |-> cfg.diags \union {"BW3101" : c \in {c \in Range(cfg.ops) : conflict(c)}}
                \union UNION {resolved(id).diags : id \in DOMAIN merged},
      digest |-> cfg.digest]

-----------------------------------------------------------------------------
(* Loops and goroutines. *)

Blocks(P, f) == DOMAIN P.fn[f].blocks
Preds(P, f, b) == {p \in Blocks(P, f) : b \in P.fn[f].blocks[p].succs}

\* a dominates b: every path from the entry to b meets a.
Dominates(P, f, a, b) ==
  a = b \/ b \notin Closure({1} \ {a}, LAMBDA x : P.fn[f].blocks[x].succs \ {a},
                            Cardinality(Blocks(P, f)))

naturalLoop(P, f, latch, header) ==
  IF latch = header THEN {header}
  ELSE {header} \union Closure({latch}, LAMBDA n : IF n = header THEN {} ELSE Preds(P, f, n),
                               Cardinality(Blocks(P, f)))

\* The number of natural loops around block b.
naturalLoopDepths(P, f, b) ==
  Cardinality({e \in Blocks(P, f) \X Blocks(P, f) :
                 /\ e[2] \in P.fn[f].blocks[e[1]].succs
                 /\ Dominates(P, f, e[2], e[1])
                 /\ b \in naturalLoop(P, f, e[1], e[2])})

Instrs(P, f) == UNION {{<<b, i>> : i \in DOMAIN P.fn[f].blocks[b].instrs} : b \in Blocks(P, f)}
Instr(P, f, at) == P.fn[f].blocks[at[1]].instrs[at[2]]

isErrgroupGo(P, in) == in.callee # "" /\ P.fn[in.callee].name = "Go"
                       /\ P.fn[in.callee].pkg = "golang.org/x/sync/errgroup"

\* The closures a go statement or an errgroup launches.
computeAsyncFunctions(P) ==
  LET closures(vs) == {P.values[v].callee : v \in {w \in vs : P.values[w].op = "MakeClosure"}}
      launched(in) ==
        CASE in.kind = "go" -> closures({in.fun} \ {""})
          [] in.kind = "call" /\ isErrgroupGo(P, in) -> closures(Range(in.args))
          [] OTHER -> {}
  IN UNION {UNION {launched(Instr(P, f, at)) : at \in Instrs(P, f)} : f \in Range(P.funcs)}

-----------------------------------------------------------------------------
(* Keys, contexts and receivers of a call. *)

pureNodes == {"Phi", "BinOp", "UnOp", "Convert", "ChangeType", "Field", "FieldAddr", "Index",
              "IndexAddr", "Slice", "Extract", "MakeInterface", "ChangeInterface", "Lookup",
              "TypeAssert"}
pureLeaves == {"Parameter", "Const", "FreeVar", "Function"}

\* Mutant of classifyKeyDependency: what a global holds is taken for structure.
KeyOverGlobals(P, key, scalarFns) ==
  LET seen == Closure({key}, LAMBDA v : P.values[v].operands, Cardinality(DOMAIN P.values))
      calls == {P.values[v].callee : v \in {w \in seen : P.values[w].op = "Call"}}
  IN CASE calls \intersect scalarFns # {} -> "result-dependent"
       [] calls \intersect scalarFns = {} /\ calls # {} -> "call-derived"
       [] OTHER -> IF \E v \in seen : P.values[v].op = "MakeMap" THEN "unknown" ELSE "structural"

classifyKeyDependency(P, key, scalarFns) ==
  LET operands(v) == IF P.values[v].op \in pureLeaves \union {"Global"} THEN {}
                     ELSE P.values[v].operands
      seen == Closure({key}, operands, Cardinality(DOMAIN P.values))
      saw(ops) == \E v \in seen : P.values[v].op \in ops
      scalarCall(v) == P.values[v].op = "Call" /\ P.values[v].callee \in scalarFns
      otherCall(v) == P.values[v].op = "Call" /\ P.values[v].callee \notin scalarFns
  IN CASE key = "" -> "unknown"
       [] key # "" /\ (\E v \in seen : scalarCall(v)) -> "result-dependent"
       [] key # "" /\ (\A v \in seen : ~scalarCall(v))
          /\ ((\E v \in seen : otherCall(v)) \/ saw({"Global"})) -> "call-derived"
       [] key # "" /\ (\A v \in seen : P.values[v].op \notin {"Call", "Global"})
          /\ ~(\A v \in seen : P.values[v].op \in pureNodes \union pureLeaves \union {"BuiltinCall"})
            -> "unknown"
       [] OTHER -> "structural"

classifyContext(P, v) ==
  CASE P.values[v].op = "Parameter" -> <<"parameter", P.values[v].type>>
    [] P.values[v].op = "Call" ->
         IF P.values[v].callee # "" /\ P.fn[P.values[v].callee].pkg = "context"
         THEN <<"derived">> ELSE <<"call-result">>
    [] OTHER -> <<"unknown">>

\* describeValue: a parameter by name, a field by name, anything else by its type.
describeValue(P, v) ==
  CASE P.values[v].op = "Parameter" -> <<"parameter", P.values[v].type>>
    [] P.values[v].op = "Const" -> <<"constant">>
    [] P.values[v].op \in {"Field", "FieldAddr"} -> <<"field", P.values[v].type>>
    [] OTHER -> <<"type", P.values[v].type>>

\* The first argument of a static method call is its receiver.
classifyArgs(P, in, scalarFn, scalarFns) ==
  LET method == scalarFn # "" /\ P.fn[scalarFn].method /\ in.callee # ""
      idx == IF method THEN 1 ELSE 0
      n == Len(in.args)
  IN [Receiver |-> IF method /\ n > 0 THEN describeValue(P, in.args[1]) ELSE <<>>,
      ContextArg |-> IF n > idx THEN classifyContext(P, in.args[idx + 1]) ELSE <<>>,
      KeyDependency |-> IF n > idx + 1
                        THEN classifyKeyDependency(P, in.args[idx + 2], scalarFns) ELSE ""]

-----------------------------------------------------------------------------
(* Call sites and candidates. *)

\* scalarToOp: the operations whose calls are looked for; of two with one symbol, the last.
scalarToOp(ops, sym) ==
  LET named == {id \in DOMAIN ops : ops[id].ScalarSymbol = sym /\ ~ops[id].Disabled}
  IN IF sym = "" \/ named = {} THEN 0 ELSE CHOOSE id \in named : \A i \in named : i <= id

scalarFnSet(P, ops) ==
  {scalarFuncs(P, ops[id].ScalarSymbol) : id \in {i \in DOMAIN ops : ~ops[i].Disabled}} \ {""}

\* matchOperation: the operations a call may be taken for.  An interface call is taken for
\* any one of those with a function of the method's name and signature: the map is ranged
\* over in no order.
matchOperation(P, ops, in) ==
  LET static == scalarToOp(ops, P.fn[in.callee].sym)
      named == {id \in DOMAIN ops :
                  LET f == scalarFuncs(P, ops[id].ScalarSymbol)
                  IN /\ f # "" /\ P.fn[f].name = in.method
                     /\ scalarToOp(ops, ops[id].ScalarSymbol) = id}
  IN CASE in.callee # "" -> {static} \ {0}
       [] in.callee = "" /\ in.method # "" -> named
       [] OTHER -> {}

callKinds == {"call", "go", "defer"}

classifyStructural(site) ==
  CASE site.Dispatch = "interface" -> "ambiguous_target"
    [] site.Dispatch # "interface" /\ site.InGoroutine -> "potential_fanout"
    [] site.Dispatch # "interface" /\ ~site.InGoroutine /\ site.LoopDepth > 0 -> "potential_loop"
    [] OTHER -> "direct_isolated"

\* The site of the call at <<f, at>>, taken for operation op.
NewCallSite(P, ops, op, f, at) ==
  LET in == Instr(P, f, at)
      args == classifyArgs(P, in, scalarFuncs(P, ops[op].ScalarSymbol), scalarFnSet(P, ops))
      site == [Operation |-> op, Location |-> <<f, at>>,
               EnclosingFunction |-> P.fn[f].display, EnclosingFunctionID |-> f,
               Dispatch |-> IF in.callee # "" THEN "direct" ELSE "interface",
               Targets |-> IF in.callee # "" THEN 1 ELSE 0,
               InGoroutine |-> in.kind = "go" \/ f \in computeAsyncFunctions(P),
               LoopDepth |-> naturalLoopDepths(P, f, at[1]),
               Receiver |-> args.Receiver, ContextArg |-> args.ContextArg,
               KeyDependency |-> args.KeyDependency]
  IN site @@ [Structural |-> classifyStructural(site)]

\* The calls that match something, with what each may be taken for.
Matches(P, ops) ==
  LET calls == UNION {{<<f, at>> : at \in {a \in Instrs(P, f) : Instr(P, f, a).kind \in callKinds}}
                      : f \in appFunctions(P)}
      of(c) == matchOperation(P, ops, Instr(P, c[1], c[2]))
  IN [c \in {d \in calls : of(d) # {}} |-> of(c)]

\* callSiteDiscovery, given the operation each matching call was taken for.
callSiteDiscovery(P, ops, taken) ==
  [c \in DOMAIN taken |-> NewCallSite(P, ops, taken[c], c[1], c[2])]

groupState(op, g) ==
  CASE op.Disabled -> "disabled_operation"
    [] ~op.Disabled /\ op.Compatibility = "invalid" -> "invalid_declaration"
    [] ~op.Disabled /\ op.Compatibility # "invalid" ->
         CASE \E s \in g : s.Dispatch = "interface" -> "ambiguous_target"
           [] (\A s \in g : s.Dispatch # "interface") /\ (\E s \in g : s.InGoroutine)
                -> "potential_fanout"
           [] (\A s \in g : s.Dispatch # "interface" /\ ~s.InGoroutine)
              /\ (\E s \in g : s.LoopDepth > 0) -> "potential_loop"
           [] (\A s \in g : s.Dispatch # "interface" /\ ~s.InGoroutine /\ s.LoopDepth = 0)
              /\ Cardinality(g) > 1 -> "potential_siblings"
           [] OTHER -> "direct_isolated"

\* buildCandidates: the sites of one operation in functions of one display name, in the order of
\* their IDs, which are digests.
buildCandidates(ops, sites, order) ==
  LET keys == {<<sites[c].Operation, sites[c].EnclosingFunction>> : c \in DOMAIN sites}
      group(k) == {c \in DOMAIN sites :
                     sites[c].Operation = k[1] /\ sites[c].EnclosingFunction = k[2]}
      state(k) == groupState(ops[k[1]], {sites[c] : c \in group(k)})
  IN {[ID |-> <<k[1], k[2], state(k)>>, Operation |-> k[1], State |-> state(k),
       StructuralContext |-> k[2], CallSites |-> SelectSeq(order, LAMBDA c : c \in group(k))] : k \in keys}

-----------------------------------------------------------------------------
(* Effects. *)

builtinEffect(name) ==
  CASE name = "close" -> {"channel"} [] name = "panic" -> {"panic"}
    [] name = "recover" -> {"recover"} [] name \in {"print", "println"} -> {"logging"}
    [] OTHER -> {}

\* stdlibEffect by import path: net and sync stand for every path they begin.
stdlibEffect(path) ==
  CASE path = "os/exec" -> {"process"}
    [] path \in {"os", "io/ioutil"} -> {"filesystem"}
    [] path \in {"net", "net/http"} -> {"network"}
    [] path = "time" -> {"time"}
    [] path \in {"math/rand", "math/rand/v2", "crypto/rand"} -> {"randomness"}
    [] path \in {"sync", "sync/atomic"} -> {"synchronization"}
    [] path = "reflect" -> {"reflection"} [] path = "unsafe" -> {"unsafe"}
    [] path \in {"log", "log/slog"} -> {"logging"}
    [] OTHER -> {}

\* What an instruction does by itself; an unresolved dynamic call leaves the summary open.
addCallEffect(P, in) ==
  CASE in.callee # "" -> [effects |-> stdlibEffect(P.fn[in.callee].pkg), complete |-> TRUE]
    [] in.callee = "" /\ in.builtin # "" -> [effects |-> builtinEffect(in.builtin), complete |-> TRUE]
    [] OTHER -> [effects |-> {"unknown-call"}, complete |-> FALSE]
instrEffect(P, in) ==
  LET only(e) == [effects |-> e, complete |-> TRUE]
  IN CASE in.kind = "go" -> only({"goroutine"}) [] in.kind = "defer" -> only({"defer"})
       [] in.kind = "panic" -> only({"panic"})
       [] in.kind \in {"send", "select", "receive"} -> only({"channel"})
       [] in.kind = "store global" -> only({"global-write"})
       [] in.kind = "heap alloc" -> only({"heap-alloc"})
       [] in.kind = "call" -> addCallEffect(P, in)
       [] OTHER -> only({})
directEffects(P, f) ==
  LET all == {instrEffect(P, Instr(P, f, at)) : at \in Instrs(P, f)}
  IN [effects |-> UNION {e.effects : e \in all}, complete |-> \A e \in all : e.complete]

\* The edges of the CHA call graph: an interface call may reach every method of its name.
Callees(P, f) ==
  UNION {LET in == Instr(P, f, at)
         IN CASE in.kind \in callKinds /\ in.callee # "" -> {in.callee}
              [] in.kind \in callKinds /\ in.callee = "" /\ in.method # "" ->
                   {g \in Range(P.funcs) : P.fn[g].method /\ P.fn[g].name = in.method}
              [] OTHER -> {}
         : at \in Instrs(P, f)}

buildCallGraph(P) ==
  LET dispatch(f, g) == {IF Instr(P, f, at).callee = g THEN "direct" ELSE "interface" :
                           at \in {a \in Instrs(P, f) :
                                     /\ Instr(P, f, a).kind \in callKinds
                                     /\ \/ Instr(P, f, a).callee = g
                                        \/ /\ Instr(P, f, a).callee = ""
                                           /\ Instr(P, f, a).method = P.fn[g].name
                                           /\ P.fn[g].method}}
  IN UNION {UNION {{[Caller |-> f, Callee |-> g, Dispatch |-> d] : d \in dispatch(f, g)}
                   : g \in Callees(P, f)} : f \in appFunctions(P)}

maxEffectIterations == 32

\* Mutant of PropagateInto: an incomplete callee leaves the caller complete.
PropagateEffectsOnly(P, state, f) ==
  LET known == Callees(P, f) \intersect DOMAIN state
  IN [state EXCEPT ![f].effects = @ \union UNION {state[g].effects : g \in known}]

\* One caller takes over what its callees are known to do.
PropagateInto(P, state, f) ==
  LET known == Callees(P, f) \intersect DOMAIN state
      missing == Callees(P, f) \ DOMAIN state
  IN [state EXCEPT ![f] =
        [effects |-> @.effects \union UNION {state[g].effects : g \in known}
                     \union (IF missing # {} THEN {"unknown-call"} ELSE {}),
         complete |-> @.complete /\ missing = {} /\ \A g \in known : state[g].complete]]

\* One iteration of computeEffects over the nodes in the order the map yields them.
EffectIteration(P, state, order) ==
  FoldLeft(LAMBDA s, f : PropagateInto(P, s, f), state, order)
=============================================================================
