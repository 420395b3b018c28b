----------------------------- MODULE MCToolchain -----------------------------
(***************************************************************************)
(* The command-line tool: a plan is made of a program (Toolchain), plans   *)
(* are stored, materialized and reverted (Workspace), or a configuration is *)
(* loaded (ConfigLoad).                                                     *)
(*                                                                          *)
(* Programs for module Toolchain: a handler that loads one value per key in *)
(* a loop and calls a helper, varied in at most two respects at a time.     *)
(***************************************************************************)
EXTENDS Toolchain, Workspace, MCConfig

\* The respects a program is varied in, the usual case first.
Respects ==
  [key |-> <<"element", "result", "call", "global", "unknown">>,
   context |-> <<"parameter", "derived", "other">>,
   body |-> <<"loop", "straight">>,
   launch |-> <<"none", "go", "closure", "errgroup">>,
   dispatch |-> <<"direct", "interface">>,
   helper |-> <<"pure", "files", "dynamic", "global-write", "defer", "recover", "cycle">>,
   declared |-> <<"configuration", "typed", "both", "conflict", "malformed", "no error result",
                  "unresolved", "broken configuration">>,
   kind |-> <<"read-only", "freshness-sensitive-read", "idempotent-write">>,
   errors |-> <<"per-item", "global">>,
   second |-> <<"none", "siblings", "one line", "one display", "loop", "one bridge">>,
   lacks |-> <<"nothing", "over a slice", "context first", "batch method", "bridge signature", "found">>,
   rewritten |-> <<"fine", "unformatted", "bridge unformatted", "ill-typed">>]
Usual == [d \in DOMAIN Respects |-> Respects[d][1]]
Variants == UNION {UNION {{[Usual EXCEPT ![d] = x, ![e] = y] : x \in Range(Respects[d]), y \in Range(Respects[e])}
                          : e \in DOMAIN Respects} : d \in DOMAIN Respects}

Nothing == [kind |-> "", callee |-> "", builtin |-> "", method |-> "", args |-> <<>>, fun |-> ""]
CallOf(f, as) == [Nothing EXCEPT !.kind = "call", !.callee = f, !.args = as]
Block(succs, instrs) == [succs |-> succs, instrs |-> instrs]
Func(sym, name, display, pkg, method, blocks) ==
  [sym |-> sym, name |-> name, display |-> display, pkg |-> pkg, method |-> method, blocks |-> blocks]
Value(op, operands, callee, type) == [op |-> op, operands |-> operands, callee |-> callee, type |-> type]

Values ==
  [recv |-> Value("Parameter", {}, "", "store"), ctx |-> Value("Parameter", {}, "", "ctx"),
   timed |-> Value("Call", {"ctx"}, "WithTimeout", "ctx"), made |-> Value("Call", {}, "mid", "ctx"),
   ids |-> Value("Parameter", {}, "", "ids"), i |-> Value("Phi", {"i"}, "", "int"),
   addr |-> Value("IndexAddr", {"ids", "i"}, "", "id"), elem |-> Value("UnOp", {"addr"}, "", "id"),
   res |-> Value("Call", {"elem"}, "Get", "item"), next |-> Value("Field", {"res"}, "", "id"),
   gen |-> Value("Call", {"elem"}, "mid", "id"), conf |-> Value("Global", {}, "", "id"),
   odd |-> Value("MakeMap", {}, "", "id"), clo |-> Value("MakeClosure", {"elem"}, "work", "func")]

\* The load of v's handler, as an instruction.
Load(v) ==
  LET key == CASE v.key = "element" -> "elem" [] v.key = "result" -> "next" [] v.key = "call" -> "gen"
               [] v.key = "global" -> "conf" [] v.key = "unknown" -> "odd"
      ctx == CASE v.context = "parameter" -> "ctx" [] v.context = "derived" -> "timed" [] v.context = "other" -> "made"
  IN IF v.dispatch = "direct"
     THEN [CallOf("Get", <<"recv", ctx, key>>) EXCEPT !.kind = IF v.launch = "go" THEN "go" ELSE "call"]
     ELSE [Nothing EXCEPT !.kind = "call", !.method = "Get", !.args = <<ctx, key>>]
Async(v) == v.launch \in {"closure", "errgroup"}
Body(v) ==
  CASE v.launch = "closure" -> [Nothing EXCEPT !.kind = "go", !.fun = "clo"]
    [] v.launch = "errgroup" -> CallOf("Go", <<"recv", "clo">>)
    [] OTHER -> Load(v)
Helper(v) ==
  CASE v.helper = "pure" -> <<>> [] v.helper = "files" -> <<CallOf("Open", <<>>)>>
    [] v.helper = "dynamic" -> <<CallOf("", <<>>)>>
    [] v.helper = "global-write" -> <<[Nothing EXCEPT !.kind = "store global"]>>
    [] v.helper = "defer" -> <<[CallOf("mid", <<>>) EXCEPT !.kind = "defer"]>>
    [] v.helper = "recover" -> <<[Nothing EXCEPT !.kind = "call", !.builtin = "recover"]>>
    [] v.helper = "cycle" -> <<CallOf("mid", <<>>), CallOf("Open", <<>>)>>
\* A second function with calls of its own, in the same file or, with the name of the first,
\* in another package.
Other(v) ==
  LET get == CallOf(IF v.second = "one bridge" THEN "Put" ELSE "Get", <<"recv", "ctx", "elem">>)
      display == IF v.second = "one display" THEN "Handle" ELSE "Other"
      blocks == IF v.second = "loop" THEN <<Block({2}, <<>>), Block({2, 3}, <<get>>), Block({}, <<>>)>>
                ELSE <<Block({}, IF v.second = "one bridge" THEN <<get>> ELSE <<get, get>>)>>
  IN Func("", "Other", display, IF v.second = "one display" THEN "lib" ELSE "app", FALSE, blocks)
Functions1(v) ==
  [Handle |-> Func("", "Handle", "Handle", "app", FALSE,
                   <<Block({2}, <<>>), Block({3, 4}, <<>>),
                     Block(IF v.body = "loop" THEN {2} ELSE {4}, <<Body(v), CallOf("mid", <<>>)>>),
                     Block({}, <<>>)>>),
   work |-> Func("", "Handle$1", "Handle$1", "app", FALSE, <<Block({}, <<Load(v)>>)>>),
   Other |-> Other(v),
   Get |-> Func("app.Store.Get", "Get", "app.Store.Get", "app", TRUE, <<>>),
   Put |-> Func("app.Store.Put", "Put", "app.Store.Put", "app", TRUE, <<>>),
   mid |-> Func("app.mid", "mid", "app.mid", "app", FALSE, <<Block({}, <<CallOf("leaf", <<>>)>>)>>),
   leaf |-> Func("dep.leaf", "leaf", "dep.leaf", "dep", FALSE, <<Block({}, Helper(v))>>),
   Open |-> Func("os.Open", "Open", "os.Open", "os", FALSE, <<>>),
   Go |-> Func("errgroup.Group.Go", "Go", "errgroup.Group.Go", "golang.org/x/sync/errgroup", TRUE, <<>>),
   WithTimeout |-> Func("context.WithTimeout", "WithTimeout", "context.WithTimeout", "context", FALSE, <<>>)]

Spec(v, kind) == [DefaultSpec(1, Semantics(kind)) EXCEPT !.result.errorMode = v.errors]
Site(f, b, i) == <<f, <<b, i>>>>
MainSite(v) == IF Async(v) THEN Site("work", 1, 1) ELSE Site("Handle", 3, 1)
OtherSites(v) == CASE v.second = "none" -> {} [] v.second = "loop" -> {Site("Other", 2, 1)}
                   [] v.second = "one bridge" -> {Site("Other", 1, 1)}
                   [] OTHER -> {Site("Other", 1, 1), Site("Other", 1, 2)}
AllShape == loopShape \union {"batch method", "bridge signature", "found"}

ProgramOf(v) ==
  LET declares(id, scalar) == [Root |-> TRUE, Args |-> 3, Literal |-> v.declared # "malformed", ID |-> id,
                               Scalar |-> scalar, Batch |-> "app.Store.GetAll"]
      get == CASE v.declared = "malformed" -> "malformed" [] v.declared = "unresolved" -> "app.Store.Gone"
               [] OTHER -> "app.Store.Get"
      typed == v.declared \in {"typed", "both", "conflict"}
  IN [packages |-> <<[PkgPath |-> "app", Module |-> "main", Name |-> "app", Test |-> FALSE, Types |-> TRUE,
                      Scope |-> {"app.Store.Get", "app.Store.Put", "app.Store.GetAll"}],
                     [PkgPath |-> "lib", Module |-> "main", Name |-> "lib", Test |-> FALSE, Types |-> TRUE,
                      Scope |-> {}],
                     [PkgPath |-> "dep", Module |-> "dep", Name |-> "dep", Test |-> FALSE, Types |-> TRUE,
                      Scope |-> {"dep.leaf"}],
                     [PkgPath |-> "os", Module |-> "", Name |-> "os", Test |-> FALSE, Types |-> TRUE,
                      Scope |-> {"os.Open"}]>>,
      funcs |-> SelectSeq(<<"Get", "Go", "Handle", "Open", "Other", "Put", "WithTimeout", "leaf", "mid", "work">>,
                          LAMBDA f : /\ f = "Other" => v.second # "none"
                                     /\ f = "work" => Async(v)),
      fn |-> Functions1(v), values |-> Values,
      returnsErr |-> {"app.Store.Put", "app.Store.GetAll"} \union
                     (IF v.declared = "no error result" THEN {} ELSE {"app.Store.Get"}),
      decls |-> IF typed THEN <<declares(1, IF v.declared = "conflict" THEN "app.Store.Put" ELSE "app.Store.Get")>>
                ELSE <<>>,
      config |-> [Found |-> v.declared # "typed",
                  Errors |-> IF v.declared = "broken configuration" THEN {"BWOP001"} ELSE {},
                  Specs |-> <<[ID |-> 1, Kind |-> v.kind, Scalar |-> get, Batch |-> "app.Store.GetAll"],
                              [ID |-> 2, Kind |-> "read-only", Scalar |-> "app.Store.Put",
                               Batch |-> "app.Store.GetAll"]>>,
                  Contracts |-> [id \in {1, 2} |-> Spec(v, IF id = 1 THEN v.kind ELSE "read-only")],
                  Digest |-> "config"],
      syntax |-> [loc \in {MainSite(v)} \union OtherSites(v) |->
                    IF loc = MainSite(v)
                    THEN [file |-> <<"app", "a.go">>, call |-> <<12, 14>>, loop |-> <<10, 20>>,
                          shape |-> (AllShape \ {v.lacks}) \ (IF Async(v) \/ v.body # "loop" THEN {"in range statement"} ELSE {})]
                    ELSE [file |-> IF v.second = "one display" THEN <<"lib", "b.go">> ELSE <<"app", "a.go">>,
                          loop |-> <<30, 40>>,
                          call |-> IF v.second = "one line" \/ loc[2][2] = 1 THEN <<32, 34>> ELSE <<36, 38>>,
                          shape |-> AllShape \ (IF v.second = "loop" THEN {} ELSE {"in range statement"})]],
      bridgeName |-> [id \in {1, 2} |-> IF v.second = "one bridge" THEN "zz_op_gen.go"
                                        ELSE IF id = 1 THEN "zz_get_gen.go" ELSE "zz_put_gen.go"],
      buildDigest |-> "build",
      rewritten |-> [formats |-> v.rewritten # "unformatted", bridges |-> v.rewritten # "bridge unformatted",
                     typechecks |-> v.rewritten # "ill-typed"],
      facts |-> [loc \in {MainSite(v)} \union OtherSites(v) |->
                   LET main == loc = MainSite(v)
                   IN [op |-> IF ~main /\ v.second = "one bridge" THEN 2 ELSE 1,
                       key |-> IF main THEN v.key ELSE "element",
                       context |-> IF main THEN v.context ELSE "parameter",
                       async |-> main /\ v.launch # "none",
                       loop |-> IF main THEN v.body = "loop" ELSE v.second = "loop",
                       static |-> main => v.dispatch = "direct"]]]

MCPrograms == [v \in Variants |-> ProgramOf(v)]

Anything == [Candidate |-> <<>>, Operation |-> 0, File |-> <<>>, Max |-> 0]
MCRequests ==
  {[strategies |-> s, filter |-> Anything] :
     s \in {<<>>, <<"runtime-call-coalescing">>, <<"errgroup-coalescing", "static-loop-prefetch">>}}
  \union {[strategies |-> <<"static-loop-prefetch", "static-sibling-fusion", "fanout-coalescing">>,
           filter |-> [Anything EXCEPT !.Max = 1]],
          [strategies |-> <<>>, filter |-> [Anything EXCEPT !.Operation = 2]]}

-----------------------------------------------------------------------------
Init == /\ WsInit
        /\ \/ (ToolInit \/ tool = ToolIdle) /\ load = LoadIdle /\ disk = <<>>
           \/ tool = ToolIdle /\ LoadInit
Next == \/ ToolNext /\ UNCHANGED <<wsVars, loadVars>>
        \/ tool = ToolIdle /\ load = LoadIdle /\ WsNext /\ UNCHANGED <<tool, loadVars>>
        \/ LoadNext /\ UNCHANGED <<tool, wsVars>>
=============================================================================
