-------------------------- MODULE OperationSpec --------------------------
(***************************************************************************)
(* Package operation: the declaration of a batched operation.  A Spec is   *)
(* built from a Semantics bundle and options, then validated; a Catalog is *)
(* a set of specs keyed by ID with a digest that must not depend on the    *)
(* order of declaration.                                                   *)
(*                                                                         *)
(* An enumeration is the sequence of its names; a value is its name, and   *)
(* "out-of-range" stands for every uint8 past the table.  Symbols are      *)
(* "none" (the zero Symbol), "malformed", or a well-formed name.  IDs and  *)
(* extension namespaces are ordered names: naturals, 0 for every malformed *)
(* one.  Durations and sizes are integers.                                 *)
(***************************************************************************)
EXTENDS Integers, Sequences, FiniteSets, SequencesExt

KindNames == <<"unknown", "read-only", "freshness-sensitive-read", "idempotent-write",
               "non-idempotent-write", "commutative-aggregation", "ordered-aggregation",
               "atomic-group", "transaction-bound", "session-bound">>
EffectNames == <<"unknown", "read", "write", "aggregate">>
IdempotencyNames == <<"unknown", "idempotent", "non-idempotent", "conditional">>
OrderingNames == <<"preserve", "reorderable", "commutative">>
AtomicityNames == <<"per-item", "all-or-nothing", "prefix", "provider-defined">>
ResultModeNames == <<"ordered", "keyed", "sparse">>
MissingBehaviorNames == <<"not-found", "error", "zero-value", "contract-violation">>
ErrorModeNames == <<"per-item", "global", "mixed">>
DuplicateBehaviorNames == <<"contract-violation", "first", "last", "custom">>
UnexpectedBehaviorNames == <<"contract-violation", "error">>
ScopeNames == <<"request", "job", "graphql-operation", "session", "transaction", "process", "custom">>
ReceiverPolicyNames == <<"same-receiver", "any-receiver">>
MissingDimensionNames == <<"error", "reject">>
SchedulerModeNames == <<"immediate-wave", "fixed-window", "adaptive", "manual",
                        "throughput", "latency", "deadline-aware">>
FairnessNames == <<"fifo", "weighted">>
OverflowNames == <<"block", "reject", "fallback">>
DeduplicationModeNames == <<"disabled", "exact", "canonical">>
JitterNames == <<"none", "full", "equal">>
RetryClassificationNames == <<"transport", "throttled", "timeout", "unavailable", "conflict">>
UnknownOutcomeNames == <<"no-retry", "retry">>
FallbackModeNames == <<"scalar", "batch-of-one", "parallel-scalar", "reject">>

\* The zero value of an enumeration, and what its methods make of a value.
Zero(names) == names[1]
Valid(v, names) == v \in Range(names)
enumString(v, names) == IF v \in Range(names) THEN v ELSE "unknown"
parseEnum(s, names) == [ok |-> s \in Range(names),
                        value |-> IF s \in Range(names) THEN s ELSE Zero(names)]

IsZero(sym) == sym = "none"
ValidSymbol(sym) == sym \notin {"none", "malformed"}
MalformedSymbol(sym) == ~IsZero(sym) /\ ~ValidSymbol(sym)

--------------------------------------------------------------------------
\* Semantics

Effect(kind) ==
  CASE kind \in {"read-only", "freshness-sensitive-read"} -> "read"
    [] kind \in {"idempotent-write", "non-idempotent-write", "atomic-group",
                 "transaction-bound", "session-bound"} -> "write"
    [] kind \in {"commutative-aggregation", "ordered-aggregation"} -> "aggregate"
    [] OTHER -> "unknown"

\* The named constructors ReadOnly() .. SessionBound(), by the kind they build.
Semantics(kind) ==
  [kind |-> kind, effect |-> Effect(kind),
   idempotency |-> IF kind \in {"non-idempotent-write", "transaction-bound", "session-bound"}
                   THEN "non-idempotent" ELSE "idempotent",
   ordering |-> IF kind = "commutative-aggregation" THEN "commutative" ELSE "preserve",
   atomicity |-> IF kind \in {"atomic-group", "transaction-bound"}
                 THEN "all-or-nothing" ELSE "per-item",
   retryAllowed |-> kind \in {"read-only", "freshness-sensitive-read", "idempotent-write",
                              "commutative-aggregation"},
   deduplicationAllowed |-> Effect(kind) = "read",
   crossScopeAllowed |-> FALSE,
   freshnessDependent |-> kind = "freshness-sensitive-read"]

WithReorderable(sem) == [sem EXCEPT !.ordering = "reorderable"]

SemanticsValidate(sem) ==
  /\ Valid(sem.kind, KindNames) /\ sem.kind # "unknown"
  /\ sem.effect = Effect(sem.kind)
  /\ Valid(sem.idempotency, IdempotencyNames) /\ sem.idempotency # "unknown"
  /\ Valid(sem.ordering, OrderingNames)
  /\ Valid(sem.atomicity, AtomicityNames)
  /\ sem.kind \in {"non-idempotent-write", "ordered-aggregation"} => sem.ordering = "preserve"
  /\ sem.kind = "commutative-aggregation" => sem.ordering = "commutative"
  /\ sem.kind = "atomic-group" => sem.atomicity = "all-or-nothing"
  /\ ~(sem.retryAllowed /\ sem.idempotency = "non-idempotent")
  /\ sem.ordering = "reorderable" => sem.effect = "read"
  /\ sem.freshnessDependent => sem.effect = "read"

--------------------------------------------------------------------------
\* Contracts and policies

ResultContract(mode, missing) ==
  [mode |-> mode, missing |-> missing, errorMode |-> "per-item",
   duplicate |-> "contract-violation", unexpected |-> "contract-violation",
   orderSignificant |-> mode = "ordered", unknownRepresentable |-> FALSE]
OrderedResults == ResultContract("ordered", "error")
KeyedResults == ResultContract("keyed", "error")
SparseResults(missing) == ResultContract("sparse", missing)

ResultContractValidate(c) ==
  /\ Valid(c.mode, ResultModeNames)
  /\ Valid(c.missing, MissingBehaviorNames)
  /\ Valid(c.errorMode, ErrorModeNames)
  /\ Valid(c.duplicate, DuplicateBehaviorNames)
  /\ Valid(c.unexpected, UnexpectedBehaviorNames)
  /\ ~(c.mode = "sparse" /\ c.missing = "contract-violation")
  /\ c.mode = "ordered" => c.orderSignificant

knownDimensions == {"receiver", "tenant", "authorization", "transaction", "session",
                    "consistency", "region", "encryption-context", "deadline-class"}
reservedDimensionNames == knownDimensions \union {"custom", "unknown"}

\* "malformed" stands for every name validateDimensionName refuses.
validateDimensionName(name) == name # "malformed"
CustomDimension(name) == validateDimensionName(name) /\ name \notin reservedDimensionNames
DimensionValidate(d) == \/ d \in knownDimensions
                        \/ d \notin reservedDimensionNames /\ validateDimensionName(d)

NewPartitionContract(scope, required, optional) ==
  [scope |-> scope, required |-> required, optional |-> optional, crossRootScope |-> FALSE,
   receiverPolicy |-> "same-receiver", missingDimension |-> "error",
   maxActivePartitions |-> 0, publicContextIndep |-> FALSE]

\* Mutant: an optional dimension counts as required.
requiresOptionally(c, dim) == dim \in Range(c.required \o c.optional)

requires(c, dim) == dim \in Range(c.required)

PartitionContractValidate(c) ==
  LET dims == c.required \o c.optional
  IN /\ Valid(c.scope, ScopeNames)
     /\ Valid(c.receiverPolicy, ReceiverPolicyNames)
     /\ Valid(c.missingDimension, MissingDimensionNames)
     /\ c.maxActivePartitions >= 0
     /\ \A i \in DOMAIN dims : DimensionValidate(dims[i])
     /\ IsInjective(dims)
     /\ c.scope = "process" /\ ~c.publicContextIndep
          => requires(c, "authorization") /\ requires(c, "tenant")

DefaultSchedulerPolicy ==
  [Mode |-> "immediate-wave", MinBatchSize |-> 1, MaxBatchSize |-> 256, MaxBatchWeight |-> 4096,
   MaxPayloadBytes |-> 4194304, MaxWait |-> 0, DeadlineMargin |-> 0, MaxConcurrency |-> 1,
   QueueItems |-> 100000, QueueBytes |-> 67108864, ActivePartitions |-> 1024,
   WaitersPerKey |-> 1024, Fairness |-> "fifo", PrioritySupport |-> FALSE, Overflow |-> "block"]

SchedulerPolicyValidate(q) ==
  /\ Valid(q.Mode, SchedulerModeNames)
  /\ Valid(q.Fairness, FairnessNames)
  /\ Valid(q.Overflow, OverflowNames)
  /\ q.MinBatchSize >= 1 /\ q.MaxBatchSize >= q.MinBatchSize
  /\ q.MaxBatchWeight >= 1 /\ q.MaxPayloadBytes >= 1
  /\ q.MaxWait >= 0 /\ q.DeadlineMargin >= 0
  /\ q.MaxConcurrency >= 1 /\ q.QueueItems >= 1 /\ q.QueueBytes >= 1
  /\ q.ActivePartitions >= 1 /\ q.WaitersPerKey >= 1
  /\ ~(q.Mode = "manual" /\ q.MaxWait > 0)
  /\ q.Mode = "adaptive" => q.MaxWait > 0

DefaultDeduplicationPolicy ==
  [Mode |-> "disabled", InFlight |-> FALSE, ScopeMemoization |-> FALSE,
   NegativeMemoization |-> FALSE, ErrorMemoization |-> FALSE, MaxItems |-> 0, MaxBytes |-> 0,
   Canonicalizer |-> "none"]

DeduplicationPolicyValidate(q) ==
  /\ Valid(q.Mode, DeduplicationModeNames)
  /\ q.Mode # "disabled" =>
       /\ q.Mode = "canonical" => ~IsZero(q.Canonicalizer)
       /\ ~MalformedSymbol(q.Canonicalizer)
       /\ q.ScopeMemoization => q.MaxItems >= 1 /\ q.MaxBytes >= 1

DefaultRetryPolicy ==
  [Enabled |-> FALSE, MaxAttempts |-> 0, InitialBackoff |-> 0, MaxBackoff |-> 0,
   Jitter |-> "none", Retryable |-> <<>>, RespectRetryAfter |-> FALSE,
   PartialItemRetry |-> FALSE, UnknownOutcome |-> "no-retry", IdempotencyKey |-> "none"]

RetryPolicyValidate(q) ==
  /\ Valid(q.Jitter, JitterNames)
  /\ Valid(q.UnknownOutcome, UnknownOutcomeNames)
  /\ q.InitialBackoff >= 0 /\ q.MaxBackoff >= 0
  /\ \A c \in Range(q.Retryable) : Valid(c, RetryClassificationNames)
  /\ ~MalformedSymbol(q.IdempotencyKey)
  /\ q.Enabled => /\ q.MaxAttempts >= 2
                  /\ q.MaxBackoff >= q.InitialBackoff
                  /\ q.Retryable # <<>>

DefaultFallbackPolicy ==
  [Mode |-> "scalar", MaxScalarConcurrency |-> 0, OnQueueOverflow |-> FALSE,
   OnProviderUnavailable |-> FALSE, OnUnsupportedPartition |-> FALSE]

FallbackPolicyValidate(q) ==
  /\ Valid(q.Mode, FallbackModeNames)
  /\ CASE q.Mode = "parallel-scalar" -> q.MaxScalarConcurrency >= 1
       [] q.Mode = "reject" -> q.MaxScalarConcurrency = 0
       [] OTHER -> q.MaxScalarConcurrency >= 0

--------------------------------------------------------------------------
\* Spec

\* NewSpec's defaults, before the options are applied.
DefaultSpec(id, semantics) ==
  [id |-> id, semantics |-> semantics, scalarSymbol |-> "none", batchSymbol |-> "none",
   keyComparable |-> FALSE, keySymbol |-> "none", result |-> OrderedResults,
   partition |-> NewPartitionContract("request", <<>>, <<>>),
   scheduler |-> DefaultSchedulerPolicy, dedup |-> DefaultDeduplicationPolicy,
   retry |-> DefaultRetryPolicy, fallback |-> DefaultFallbackPolicy,
   extensions |-> <<>>, source |-> "none"]

ConfigBased(s) == ~IsZero(s.scalarSymbol) \/ ~IsZero(s.batchSymbol)

ExtensionValidate(e) == e.Namespace # 0

\* The codes validateCrossField adds for invariants that span several fields.
validateCrossField(s) ==
  LET sem == s.semantics
      code(c, holds) == IF holds THEN {c} ELSE {}
  IN UNION
     {code("BWOP015", ConfigBased(s) /\ (IsZero(s.scalarSymbol) \/ IsZero(s.batchSymbol))),
      code("BWOP011", \/ sem.kind = "transaction-bound" /\ ~requires(s.partition, "transaction")
                      \/ sem.kind = "session-bound" /\ ~requires(s.partition, "session")),
      code("BWOP012", s.dedup.Mode # "disabled" /\ ~sem.deduplicationAllowed),
      code("BWOP013",
           \/ /\ s.retry.Enabled
              /\ \/ ~sem.retryAllowed
                 \/ sem.idempotency = "non-idempotent"
                 \/ sem.idempotency = "conditional" /\ IsZero(s.retry.IdempotencyKey)
           \/ s.retry.PartialItemRetry /\ s.result.errorMode \notin {"per-item", "mixed"}),
      code("BWOP014",
           \/ s.fallback.Mode = "parallel-scalar" /\ sem.idempotency = "non-idempotent"
           \/ /\ s.fallback.Mode \in {"scalar", "parallel-scalar"}
              /\ ConfigBased(s) /\ IsZero(s.scalarSymbol))}

\* Spec.Validate: every finding, not only the first.
SpecValidate(s) ==
  LET code(c, valid) == IF valid THEN {} ELSE {c}
  IN UNION
     {code("BWOP001", s.id # 0),
      code("BWOP002", SemanticsValidate(s.semantics)),
      code("BWOP009", ~MalformedSymbol(s.keySymbol)),
      code("BWOP003", ResultContractValidate(s.result)),
      code("BWOP004", PartitionContractValidate(s.partition)),
      code("BWOP005", SchedulerPolicyValidate(s.scheduler)),
      code("BWOP006", DeduplicationPolicyValidate(s.dedup)),
      code("BWOP007", RetryPolicyValidate(s.retry)),
      code("BWOP008", FallbackPolicyValidate(s.fallback)),
      code("BWOP010", \A e \in Range(s.extensions) : ExtensionValidate(e)),
      code("BWOP016", ~MalformedSymbol(s.scalarSymbol) /\ ~MalformedSymbol(s.batchSymbol)),
      validateCrossField(s)}

\* A set in the sorted order of a rendered list, as a bag of its members: two
\* lists render the same text exactly when they have the same members as often.
Rendered(seq) == [x \in Range(seq) |-> Cardinality({i \in DOMAIN seq : seq[i] = x})]

\* Spec.Canonical, one component per line it writes; the source is left out.
Canonical(s) ==
  LET sem == s.semantics  r == s.result  p == s.partition
  IN <<s.id,
       <<enumString(sem.kind, KindNames), enumString(sem.effect, EffectNames),
         enumString(sem.idempotency, IdempotencyNames), enumString(sem.ordering, OrderingNames),
         enumString(sem.atomicity, AtomicityNames), sem.retryAllowed, sem.deduplicationAllowed,
         sem.crossScopeAllowed, sem.freshnessDependent>>,
       <<s.scalarSymbol, s.batchSymbol, s.keyComparable, s.keySymbol>>,
       <<enumString(r.mode, ResultModeNames), enumString(r.missing, MissingBehaviorNames),
         enumString(r.errorMode, ErrorModeNames), enumString(r.duplicate, DuplicateBehaviorNames),
         enumString(r.unexpected, UnexpectedBehaviorNames), r.orderSignificant,
         r.unknownRepresentable>>,
       <<enumString(p.scope, ScopeNames), Rendered(p.required), Rendered(p.optional),
         p.crossRootScope, enumString(p.receiverPolicy, ReceiverPolicyNames),
         enumString(p.missingDimension, MissingDimensionNames), p.maxActivePartitions,
         p.publicContextIndep>>,
       [s.scheduler EXCEPT !.Mode = enumString(@, SchedulerModeNames),
                           !.Fairness = enumString(@, FairnessNames),
                           !.Overflow = enumString(@, OverflowNames)],
       [s.dedup EXCEPT !.Mode = enumString(@, DeduplicationModeNames)],
       [s.retry EXCEPT !.Retryable = Rendered(@), !.Jitter = enumString(@, JitterNames),
                       !.UnknownOutcome = enumString(@, UnknownOutcomeNames)],
       [s.fallback EXCEPT !.Mode = enumString(@, FallbackModeNames)],
       SortSeq(s.extensions, LAMBDA e, f : e.Namespace < f.Namespace)>>

--------------------------------------------------------------------------
\* Catalog

\* CatalogBuilder.Add: the first declaration of an ID stays, a later one is reported.
CatalogAdd(b, spec) ==
  IF \E s \in Range(b.specs) : s.id = spec.id
  THEN [b EXCEPT !.duplicates = Append(@, spec.id)]
  ELSE [b EXCEPT !.specs = Append(@, spec)]
EmptyBuilder == [specs |-> <<>>, duplicates |-> <<>>]

\* Build: a catalog is the specs in ID order.
CatalogBuild(specs) == SortSeq(specs, LAMBDA s, t : s.id < t.id)

CatalogDigest(catalog) == [i \in DOMAIN catalog |-> Canonical(catalog[i])]

\* Merge: the incoming spec meets the one already at its index.
CatalogMerge(c, other, behavior) ==
  LET ids == {s.id : s \in Range(c)}
      conflict(s) == s.id \in ids
      kept == [i \in DOMAIN c |->
                 LET dup == SelectSeq(other, LAMBDA s : s.id = c[i].id)
                 IN IF behavior = "replace" /\ dup # <<>> THEN Head(dup) ELSE c[i]]
      fresh == SelectSeq(other, LAMBDA s : ~conflict(s))
  IN IF behavior = "error" /\ \E s \in Range(other) : conflict(s)
     THEN [ok |-> FALSE, catalog |-> <<>>]
     ELSE [ok |-> TRUE, catalog |-> CatalogBuild(kept \o fresh)]
==========================================================================
