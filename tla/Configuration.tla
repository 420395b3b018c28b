-------------------------- MODULE Configuration --------------------------
(***************************************************************************)
(* Package config: a decoded configuration document is normalized into     *)
(* settings and a catalog of operations, with a code for every problem.    *)
(*                                                                         *)
(* A node is a scalar (its type t, its text s, its number n), a mapping (a *)
(* function e) or a sequence; Nil is the missing node.  Positions and      *)
(* messages are left out, so diagnostics are a set of codes, all of them   *)
(* errors.                                                                 *)
(***************************************************************************)
EXTENDS OperationSpec, TLC

CONSTANTS IDs,          \* the well-formed operation IDs: text to ordered name
          Namespaces,   \* the well-formed extension namespaces: text to ordered name
          Symbols,      \* the texts ParseSymbol accepts
          Durations,    \* the texts time.ParseDuration accepts, with their values
          ByteSizes     \* the texts with a number and a unit, with their values

Nil == [t |-> "nil", s |-> "", n |-> 0]
Null == [t |-> "null", s |-> "null", n |-> 0]
Str(text) == [t |-> "string", s |-> text, n |-> 0]
Num(number) == [t |-> "int", s |-> "", n |-> number]
Bool(text) == [t |-> "bool", s |-> text, n |-> 0]
MapNode(entries) == [t |-> "mapping", e |-> entries]
SeqNode(elems) == [t |-> "sequence", elems |-> elems]

IsMapping(node) == node.t = "mapping"
IsSequence(node) == node.t = "sequence"
Get(node, key) == IF IsMapping(node) /\ key \in DOMAIN node.e THEN node.e[key] ELSE Nil

CheckUnknownFields(node, known) ==
  IF IsMapping(node) => DOMAIN node.e \subseteq known THEN {} ELSE {"BWCFG021"}

--------------------------------------------------------------------------
\* Typed field readers: a value v and the problems d met while reading it.

Unset(v) == v.t \in {"nil", "null"}
reading(v, type) ==
  [ok |-> v.t = type, v |-> v, d |-> IF Unset(v) \/ v.t = type THEN {} ELSE {"BWCFG005"}]
mapping(parent, key) == reading(Get(parent, key), "mapping")

\* str and boolField, by the type of scalar they accept.
field(parent, key, type) == reading(Get(parent, key), type)

boolOf(f, def) == [v |-> IF f.ok THEN f.v.s = "true" ELSE def, d |-> f.d]
boolOr(parent, key, def) == boolOf(field(parent, key, "bool"), def)
intOf(f, def) == [v |-> IF f.ok THEN f.v.n ELSE def, d |-> f.d]
intOr(parent, key, def) == intOf(field(parent, key, "int"), def)

\* A string field that is parsed: what parses is a function, the rest is reported as code.
parsedOf(f, parses, code, def) ==
  [v |-> IF f.ok /\ f.v.s \in DOMAIN parses THEN parses[f.v.s] ELSE def,
   d |-> f.d \union IF f.ok /\ f.v.s \notin DOMAIN parses THEN {code} ELSE {}]
durationOr(parent, key, def) == parsedOf(field(parent, key, "string"), Durations, "BWCFG007", def)
byteSizeOr(parent, key, def) == parsedOf(field(parent, key, "string"), ByteSizes, "BWCFG008", def)
enumOr(parent, key, names, def) ==
  parsedOf(field(parent, key, "string"), [name \in Range(names) |-> name], "BWCFG006", def)
symbolOr(parent, key, def) ==
  parsedOf(field(parent, key, "string"), [s \in Symbols |-> s], "BWCFG022", def)

Problems(readings) == UNION {readings[k].d : k \in DOMAIN readings}

\* The elements of a list that are strings and valid, in order; the others are reported.
listed(elems, valid, code) ==
  LET kept == SelectSeq(elems, LAMBDA x : x.t = "string" /\ x.s \in valid)
  IN [v |-> [i \in DOMAIN kept |-> kept[i].s],
      d |-> {IF elems[i].t = "string" THEN code ELSE "BWCFG005" :
               i \in {j \in DOMAIN elems : ~(elems[j].t = "string" /\ elems[j].s \in valid)}}]
elemsOf(v) == IF IsSequence(v) THEN v.elems ELSE <<>>

--------------------------------------------------------------------------
\* The sections of an operation

symbolIn(m) ==
  LET s == symbolOr(m.v, "symbol", "none")
  IN [v |-> s.v, d |-> m.d \union CheckUnknownFields(m.v, {"symbol"}) \union s.d]
symbol(node, key) == symbolIn(mapping(node, key))

kindOf(kind, given) ==
  [ok |-> kind.v # "unknown", v |-> Semantics(kind.v),
   d |-> kind.d \union IF ~given THEN {"BWCFG015"} ELSE IF kind.v = "unknown" THEN {"BWCFG006"} ELSE {}]
semantics(node) ==
  kindOf(enumOr(node, "kind", KindNames, "unknown"), Get(node, "kind").t = "string")

resultsOf(m, mode, missing, errors) ==
  LET implicit == mode.v = "sparse" /\ missing.v = "contract-violation"
  IN [v |-> [ResultContract(mode.v, IF implicit THEN "error" ELSE missing.v) EXCEPT !.errorMode = errors.v],
      d |-> m.d \union CheckUnknownFields(m.v, {"mode", "missing", "errors"})
            \union mode.d \union missing.d \union errors.d \union IF implicit THEN {"BWCFG022"} ELSE {}]
resultsIn(m) ==
  resultsOf(m, enumOr(m.v, "mode", ResultModeNames, "ordered"),
            enumOr(m.v, "missing", MissingBehaviorNames, "contract-violation"),
            enumOr(m.v, "errors", ErrorModeNames, "per-item"))
resultContract(node) == resultsIn(mapping(node, "results"))

partitionOf(m, scope, list, required) ==
  [v |-> NewPartitionContract(scope.v, required.v, <<>>),
   d |-> m.d \union CheckUnknownFields(m.v, {"scope", "dimensions"}) \union scope.d \union required.d
         \union IF list = Nil \/ IsSequence(list) THEN {} ELSE {"BWCFG005"}]
dimensionsOf(elems) ==
  {d \in {x.s : x \in {y \in Range(elems) : y.t = "string"}} : DimensionValidate(d)}
partitionIn(m) ==
  LET elems == elemsOf(Get(m.v, "dimensions"))
  IN partitionOf(m, enumOr(m.v, "scope", ScopeNames, "request"), Get(m.v, "dimensions"),
                 listed(elems, dimensionsOf(elems), "BWCFG022"))
partitionContract(node) == partitionIn(mapping(node, "partition"))

\* Mutant: a refused policy is not reported.
refusalUnreported(valid) == {}

\* A policy its constructor refuses is reported.
refusal(valid) == IF valid THEN {} ELSE {"BWCFG022"}

\* A field of a policy: its key, the reader it goes through, and the names of an enumeration.
Field(key, as) == [key |-> key, as |-> as, names |-> <<>>]
Enum(key, names) == [key |-> key, as |-> "enum", names |-> names]
List(key, names) == [key |-> key, as |-> "list", names |-> names]
readField(m, f, def) ==
  CASE f.as = "int" -> intOr(m, f.key, def)
    [] f.as = "bool" -> boolOr(m, f.key, def)
    [] f.as = "duration" -> durationOr(m, f.key, def)
    [] f.as = "size" -> byteSizeOr(m, f.key, def)
    [] f.as = "symbol" -> symbolOr(m, f.key, def)
    [] f.as = "enum" -> enumOr(m, f.key, f.names, def)
    [] f.as = "list" -> listed(elemsOf(Get(m, f.key)), Range(f.names), "BWCFG006")

schedulerFields ==
  [Mode |-> Enum("mode", SchedulerModeNames), MinBatchSize |-> Field("min_size", "int"),
   MaxBatchSize |-> Field("max_size", "int"), MaxBatchWeight |-> Field("max_weight", "int"),
   MaxConcurrency |-> Field("max_concurrency", "int"), QueueItems |-> Field("queue_items", "int"),
   ActivePartitions |-> Field("active_partitions", "int"), WaitersPerKey |-> Field("waiters_per_key", "int"),
   MaxPayloadBytes |-> Field("max_payload", "size"), QueueBytes |-> Field("queue_bytes", "size"),
   MaxWait |-> Field("max_wait", "duration"), DeadlineMargin |-> Field("deadline_margin", "duration")]
dedupFields ==
  [Mode |-> Enum("mode", DeduplicationModeNames), InFlight |-> Field("inflight", "bool"),
   ScopeMemoization |-> Field("scope_memoization", "bool"),
   NegativeMemoization |-> Field("negative_memoization", "bool"),
   ErrorMemoization |-> Field("error_memoization", "bool"), MaxItems |-> Field("max_items", "int"),
   MaxBytes |-> Field("max_bytes", "size"), Canonicalizer |-> Field("canonicalizer", "symbol")]
retryFields ==
  [Enabled |-> Field("enabled", "bool"), MaxAttempts |-> Field("maximum_attempts", "int"),
   InitialBackoff |-> Field("initial_backoff", "duration"), MaxBackoff |-> Field("maximum_backoff", "duration"),
   RespectRetryAfter |-> Field("respect_retry_after", "bool"),
   PartialItemRetry |-> Field("partial_item_retry", "bool"),
   Retryable |-> List("retryable", RetryClassificationNames)]
fallbackFields ==
  [Mode |-> Enum("mode", FallbackModeNames), MaxScalarConcurrency |-> Field("max_scalar_concurrency", "int"),
   OnQueueOverflow |-> Field("on_queue_overflow", "bool"),
   OnProviderUnavailable |-> Field("on_provider_unavailable", "bool"),
   OnUnsupportedPartition |-> Field("on_unsupported_partition", "bool")]

\* The defaults with what was read in their place.
Params(def, read) == [k \in DOMAIN def |-> IF k \in DOMAIN read THEN read[k].v ELSE def[k]]
Keys(fields) == {fields[k].key : k \in DOMAIN fields}
readPolicy(m, def, fields) == [k \in DOMAIN fields |-> readField(m.v, fields[k], def[k])]
\* A policy section with the keys it knows.  The default stands in for a policy that is refused.
policyIn(m, def, read, known, valid) ==
  [v |-> IF valid THEN Params(def, read) ELSE def,
   d |-> m.d \union CheckUnknownFields(m.v, known) \union Problems(read) \union refusal(valid)]

schedulerPolicy(node) ==
  LET m == mapping(node, "scheduler")
      read == readPolicy(m, DefaultSchedulerPolicy, schedulerFields)
  IN policyIn(m, DefaultSchedulerPolicy, read, Keys(schedulerFields),
              SchedulerPolicyValidate(Params(DefaultSchedulerPolicy, read)))
deduplicationPolicy(node) ==
  LET m == mapping(node, "deduplication")
      read == readPolicy(m, DefaultDeduplicationPolicy, dedupFields)
  IN policyIn(m, DefaultDeduplicationPolicy, read, Keys(dedupFields),
              DeduplicationPolicyValidate(Params(DefaultDeduplicationPolicy, read)))
\* Three of its known keys are never read.
retryPolicy(node) ==
  LET m == mapping(node, "retry")
      read == readPolicy(m, DefaultRetryPolicy, retryFields)
  IN policyIn(m, DefaultRetryPolicy, read,
              Keys(retryFields) \union {"jitter", "unknown_outcome", "idempotency_key"},
              RetryPolicyValidate(Params(DefaultRetryPolicy, read)))
fallbackPolicy(node) ==
  LET m == mapping(node, "fallback")
      read == readPolicy(m, DefaultFallbackPolicy, fallbackFields)
  IN policyIn(m, DefaultFallbackPolicy, read, Keys(fallbackFields),
              FallbackPolicyValidate(Params(DefaultFallbackPolicy, read)))

\* Extension data is kept as it is; entries come out in the order of their namespaces.
extensions(node) ==
  LET m == mapping(node, "extensions")
      valid == IF m.ok THEN DOMAIN m.v.e \intersect DOMAIN Namespaces ELSE {}
      ext(k) == [Namespace |-> Namespaces[k], Data |-> m.v.e[k]]
  IN [v |-> SortSeq(SetToSeq({ext(k) : k \in valid}), LAMBDA e, f : e.Namespace < f.Namespace),
      d |-> m.d \union IF m.ok /\ DOMAIN m.v.e # valid THEN {"BWCFG022"} ELSE {}]

operationFields == {"scalar", "batch", "kind", "results", "partition", "scheduler", "deduplication", "retry",
                    "fallback", "replace", "extensions"}
refused(codes) == [ok |-> FALSE, spec |-> <<>>, d |-> codes]
\* NewSpec: the spec, unless it is invalid.
NewSpec(spec, errors, codes) ==
  IF errors # {} THEN refused(codes \union errors) ELSE [ok |-> TRUE, spec |-> spec, d |-> codes]
withSections(def, read, codes) ==
  LET spec == Params(def, read) IN NewSpec(spec, SpecValidate(spec), codes \union Problems(read))
withSemantics(id, sem, node, unknown) ==
  IF ~sem.ok THEN refused(unknown \union sem.d)
  ELSE withSections(DefaultSpec(id, sem.v),
         [scalarSymbol |-> symbol(node, "scalar"), batchSymbol |-> symbol(node, "batch"),
          result |-> resultContract(node), partition |-> partitionContract(node),
          scheduler |-> schedulerPolicy(node), dedup |-> deduplicationPolicy(node),
          retry |-> retryPolicy(node), fallback |-> fallbackPolicy(node),
          extensions |-> extensions(node)], unknown)
\* One operation: its spec, when the ID, the kind and NewSpec accept it.
operation(idText, node) ==
  IF idText \notin DOMAIN IDs THEN refused({"BWCFG022"})
  ELSE IF ~IsMapping(node) THEN refused({"BWCFG005"})
  ELSE withSemantics(IDs[idText], semantics(node), node, CheckUnknownFields(node, operationFields))

catalogOf(m, built) ==
  [v |-> CatalogBuild(SetToSeq({built[k].spec : k \in {j \in DOMAIN built : built[j].ok}})),
   d |-> m.d \union Problems(built)]
operationsIn(m) == catalogOf(m, IF m.ok THEN [k \in DOMAIN m.v.e |-> operation(k, m.v.e[k])] ELSE <<>>)
operations(node) == operationsIn(mapping(node, "operations"))

--------------------------------------------------------------------------
\* The document

CompilerModeNames == <<"transparent", "disabled">>
LoggingLevelNames == <<"silent", "errors", "warnings", "info", "debug">>
defaultConfig ==
  [Version |-> 1, CompilerMode |-> "transparent", DefaultScope |-> "request", CrossScopeBatching |-> FALSE,
   RawKeyObservability |-> FALSE, Metrics |-> FALSE, Tracing |-> FALSE, Logging |-> "warnings",
   Extensions |-> <<>>, Catalog |-> <<>>]

\* The zero Config, of a result that carries none.
ZeroConfig == [defaultConfig EXCEPT !.Version = 0, !.Logging = "silent"]

SchemaVersionSupported(v) == v = 1
schemaVersion(node) ==
  LET v == Get(node, "version")
  IN [v |-> 1, d |-> CASE v = Nil -> {"BWCFG015"}
                       [] v.t # "int" -> {"BWCFG005"}
                       [] OTHER -> IF SchemaVersionSupported(v.n) THEN {} ELSE {"BWCFG016"}]

topLevelFields == {"version", "include", "compiler", "runtime", "security", "observability", "operations",
                   "extensions"}
SectionFields == [compiler |-> {"mode"}, runtime |-> {"default_scope"},
                  security |-> {"cross_scope_batching", "raw_key_observability"},
                  observability |-> {"metrics", "tracing", "logging"}]
configOf(node, read) ==
  [config |-> Params(defaultConfig, read),
   d |-> CheckUnknownFields(node, topLevelFields) \union Problems(read)
         \union UNION {LET m == mapping(node, key) IN m.d \union CheckUnknownFields(m.v, SectionFields[key])
                       : key \in DOMAIN SectionFields}]
\* normalize: every setting has a value, its default when the document does not give one.
normalize(node) ==
  LET section(key) == mapping(node, key).v  def == defaultConfig
  IN IF ~IsMapping(node) THEN [config |-> def, d |-> {"BWCFG005"}]
     ELSE configOf(node,
       [Version |-> schemaVersion(node),
        CompilerMode |-> enumOr(section("compiler"), "mode", CompilerModeNames, def.CompilerMode),
        DefaultScope |-> enumOr(section("runtime"), "default_scope", ScopeNames, def.DefaultScope),
        CrossScopeBatching |-> boolOr(section("security"), "cross_scope_batching", FALSE),
        RawKeyObservability |-> boolOr(section("security"), "raw_key_observability", FALSE),
        Metrics |-> boolOr(section("observability"), "metrics", FALSE),
        Tracing |-> boolOr(section("observability"), "tracing", FALSE),
        Logging |-> enumOr(section("observability"), "logging", LoggingLevelNames, def.Logging),
        Extensions |-> extensions(node), Catalog |-> operations(node)])

validateSemantic(cfg) ==
  IF ~cfg.CrossScopeBatching /\ \E s \in Range(cfg.Catalog) : s.partition.crossRootScope
  THEN {"BWCFG020"} ELSE {}

\* Two configurations have one digest exactly when these are equal.
Digest(cfg) == [cfg EXCEPT !.Catalog = CatalogDigest(@)]
==========================================================================
