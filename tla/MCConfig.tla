------------------------------- MODULE MCConfig -------------------------------
(***************************************************************************)
(* Configurations for module ConfigLoad: three files that include one      *)
(* another, files with defects, and single files in which one field is     *)
(* unlike the usual.                                                        *)
(***************************************************************************)
EXTENDS ConfigLoad

MCIDs == [get |-> 1, put |-> 2]
MCNamespaces == [vendor |-> 1, team |-> 2]
MCDurations == ("0s" :> 0) @@ ("1ms" :> 1) @@ ("5ms" :> 5)
MCByteSizes == ("1KiB" :> 1024) @@ ("0B" :> 0)
MCLinks == ("main.yaml" :> "main") @@ ("a.yaml" :> "a") @@ ("b.yaml" :> "b") @@ ("b.json" :> "b")
           @@ ("link.yaml" :> "a") @@ ("/a.yaml" :> "a") @@ ("gone.yaml" :> "gone")

Text(node) == [size |-> 1, readable |-> TRUE, defect |-> "none", node |-> node]
Includes(names, entries) ==
  MapNode(entries @@ IF names = <<>> THEN <<>>
                     ELSE ("include" :> SeqNode([i \in DOMAIN names |-> Str(names[i])])))
Scoped(scope) == ("runtime" :> MapNode([default_scope |-> Str(scope)]))
ReadOnlyOp == [kind |-> Str("read-only")]
Op(entries) == MapNode(entries @@ ReadOnlyOp)
Ops(entries) == ("operations" :> MapNode(entries))
Versioned == ("version" :> Num(1))

\* Three files that include one another.
IncludeGraphs ==
  {[main |-> Text(Includes(im, Versioned @@ cm)), a |-> Text(Includes(ia, ca)), b |-> Text(Includes(ib, cb))] :
     im \in {<<"a.yaml">>, <<"a.yaml", "b.yaml">>, <<"b.json", "a.yaml">>, <<"a.yaml", "link.yaml">>, <<"main.yaml">>},
     ia \in {<<>>, <<"b.yaml">>, <<"main.yaml">>}, ib \in {<<>>, <<"a.yaml">>},
     cm \in {Scoped("job"), Ops([get |-> Op([replace |-> Bool("true")])]), Ops([put |-> Op(<<>>)]),
             "runtime" :> Null},
     ca \in {<<>>, Scoped("session"), Ops([get |-> Op(<<>>)]),
             Ops([get |-> Op([scheduler |-> MapNode([max_size |-> Num(5)])])])},
     cb \in {Scoped("custom"), Ops([get |-> Op(<<>>)]), Ops([get |-> Op([replace |-> Bool("true")])])}}

\* Files with a defect, or past a limit.
Plain(names) == Text(Includes(names, Versioned @@ Ops([put |-> Op(<<>>)])))
Damaged ==
  LET ok == Text(MapNode(Ops([get |-> Op(<<>>)])))
      bad == {[ok EXCEPT !.defect = x] : x \in {"empty", "syntax", "duplicate key", "more content"}}
             \union {[ok EXCEPT !.size = 3], [ok EXCEPT !.size = 2], [ok EXCEPT !.readable = FALSE],
                     Text(Includes(<<"link.yaml">>, <<>>)), Text(Str("text"))}
  IN {[main |-> Plain(im), a |-> x, b |-> y] :
        im \in {<<>>, <<"a.yaml">>, <<"a.yaml", "b.json">>, <<"b.yaml", "gone.yaml">>},
        x \in bad \union {ok}, y \in bad \union {ok}}
     \union {[main |-> x] : x \in bad}
     \union {[main |-> [Plain(<<>>) EXCEPT !.defect = "construct"]]}

\* One file, with one operation or one setting unlike the usual.
OddFields ==
  LET in(section, entries) == section :> MapNode(entries)
  IN {in("scheduler", e) : e \in {[mode |-> Str("manual")], [mode |-> Str("odd")], [mode |-> Num(1)],
         [max_size |-> Num(0)], [max_size |-> Num(7)], [max_size |-> Str("7")], [max_wait |-> Str("5ms")],
         [max_wait |-> Str("5")], [queue_bytes |-> Str("1KiB")], [queue_bytes |-> Num(1)], [weight |-> Num(1)]}}
     \union {in("deduplication", e) : e \in {[mode |-> Str("exact")], [mode |-> Str("canonical")],
         [mode |-> Str("exact"), scope_memoization |-> Bool("true")], [canonicalizer |-> Str("no symbol")]}}
     \union {in("retry", e) : e \in {[enabled |-> Bool("true")],
         [enabled |-> Bool("true"), maximum_attempts |-> Num(2), retryable |-> SeqNode(<<Str("timeout")>>)],
         [retryable |-> SeqNode(<<Str("odd"), Num(1)>>)], [retryable |-> Str("timeout")]}}
     \union {in("fallback", e) : e \in {[mode |-> Str("parallel-scalar")], [mode |-> Str("reject")]}}
     \union {in("results", e) : e \in {[mode |-> Str("sparse")], [mode |-> Str("keyed"), errors |-> Str("global")],
         [mode |-> Str("sparse"), missing |-> Str("not-found")]}}
     \union {in("partition", e) : e \in {[scope |-> Str("process")], [dimensions |-> Str("tenant")],
         [dimensions |-> SeqNode(<<Str("tenant"), Str("malformed"), Num(1)>>)],
         [scope |-> Str("process"), dimensions |-> SeqNode(<<Str("tenant"), Str("authorization")>>)]}}
     \union {in("scalar", e) : e \in {[symbol |-> Str("app.Get")], [symbol |-> Str("no symbol")]}}
     \union {in("extensions", e) : e \in {[vendor |-> Num(1), team |-> Null], [bad |-> Null]}}
     \union {"kind" :> x : x \in {Null, Num(1), Str("odd"), Str("unknown"), Str("transaction-bound"),
                                  Str("non-idempotent-write")}}
     \union {"scheduler" :> Str("text"), "colour" :> Num(1)}
Singles ==
  {[main |-> Text(MapNode(Versioned @@ Ops([get |-> MapNode(x @@ ReadOnlyOp)])))] : x \in OddFields}
  \union {[main |-> Text(MapNode(x @@ Versioned))] :
            x \in {Ops([wrong |-> Op(<<>>)]), Ops([get |-> Null]), "operations" :> Null, "colour" :> Null,
                   "version" :> Num(2), "version" :> Str("1"), "security" :> Num(1),
                   "security" :> MapNode([cross_scope_batching |-> Bool("true")]),
                   "observability" :> MapNode([metrics |-> Bool("true"), logging |-> Str("debug")]),
                   "compiler" :> MapNode([mode |-> Str("odd")]), "extensions" :> MapNode([vendor |-> Num(1)])}}
Request(path) == [Path |-> path, Discover |-> FALSE, AllowAbsoluteInclude |-> FALSE, dirs |-> <<>>, stop |-> 0]
Searches == {Request("gone.yaml"), Request("")}
            \union {[Request("") EXCEPT !.Discover = TRUE, !.dirs = <<{}, d>>, !.stop = s] :
                      d \in {{}, {"main.yaml"}, {"main.yaml", "b.json"}}, s \in {0, 1}}
MCLoads ==
  {[disk |-> d, request |-> Request("main.yaml")] : d \in IncludeGraphs \union Damaged \union Singles}
  \union {[disk |-> [main |-> Plain(<<"/a.yaml", "https://b.yaml">>), a |-> Plain(<<>>)],
           request |-> [q EXCEPT !.AllowAbsoluteInclude = x]] : q \in Searches \union {Request("main.yaml")}, x \in BOOLEAN}
===============================================================================
