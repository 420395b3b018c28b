-------------------------- MODULE Declarations --------------------------
(***************************************************************************)
(* Declaring operations: NewSpec applies its options one by one to the     *)
(* defaults and validates the result, a CatalogBuilder collects the        *)
(* accepted specs, and Merge combines the built catalog with another one.  *)
(* decl is the whole state: the spec under construction, the builder and   *)
(* the result of the merge.                                                *)
(***************************************************************************)
EXTENDS OperationSpec

CONSTANTS DeclIDs,       \* IDs declared (0 is a malformed one)
          DeclKinds,     \* kinds whose named constructor is used
          DeclOptions,   \* options [field, value] a declaration may pass
          MaxOptions,    \* bound: options passed in all
          MaxSpecs       \* bound: declarations

VARIABLE decl

\* Two builders, "base" and "incoming", whose catalogs are merged at the end.
DeclInit == decl = [phase |-> "declare", side |-> "base", spec |-> [id |-> 0],
                    options |-> 0, tried |-> 0,
                    builder |-> [side \in {"base", "incoming"} |-> EmptyBuilder],
                    behavior |-> "none", merged |-> [ok |-> FALSE, catalog |-> <<>>]]

\* A SpecOption sets one field of the spec under construction.
applyOption(s, o) == [s EXCEPT ![o.field] = o.value]

NewSpec(side, id, kind) ==
  /\ decl.phase = "declare" /\ decl.tried < MaxSpecs
  /\ decl' = [decl EXCEPT !.phase = "options", !.side = side, !.tried = @ + 1,
                          !.spec = DefaultSpec(id, Semantics(kind))]

ApplyOption(o) ==
  /\ decl.phase = "options" /\ decl.options < MaxOptions
  /\ decl' = [decl EXCEPT !.spec = applyOption(@, o), !.options = @ + 1]

\* NewSpec returns: a spec with a validation finding is refused, another joins a builder.
FinishSpec ==
  /\ decl.phase = "options"
  /\ decl' = [decl EXCEPT !.phase = "declare", !.spec = [id |-> 0],
                          !.builder[decl.side] = IF SpecValidate(decl.spec) = {}
                                                 THEN CatalogAdd(@, decl.spec) ELSE @]

Catalog(side) == CatalogBuild(decl.builder[side].specs)

MergeCatalogs(behavior) ==
  /\ decl.phase = "declare"
  /\ decl' = [decl EXCEPT !.phase = "merged", !.behavior = behavior,
                          !.merged = CatalogMerge(Catalog("base"), Catalog("incoming"), behavior)]

DeclNext ==
  \/ \E side \in {"base", "incoming"}, id \in DeclIDs, kind \in DeclKinds : NewSpec(side, id, kind)
  \/ \E o \in DeclOptions : ApplyOption(o)
  \/ FinishSpec
  \/ \E behavior \in {"error", "replace", "keep"} : MergeCatalogs(behavior)

--------------------------------------------------------------------------
\* An accepted operation is safe to run the way its policies say: repeating a call
\* happens only where repetition is harmless, answers are shared between callers only
\* for reads, and callers of a process-wide operation are told apart by tenant and
\* authorization unless it is public (Spec.Validate).
RunsSafely(s) ==
  /\ s.retry.Enabled => /\ s.semantics.idempotency # "non-idempotent"
                        /\ s.retry.Retryable # <<>> /\ s.retry.MaxAttempts > 1
  /\ s.dedup.Mode # "disabled" => s.semantics.effect = "read"
  /\ s.dedup.Mode # "disabled" /\ s.dedup.ScopeMemoization => s.dedup.MaxItems > 0
  /\ s.partition.scope = "process" =>
       s.partition.publicContextIndep \/ {"tenant", "authorization"} \subseteq Range(s.partition.required)
  /\ s.semantics.kind = "transaction-bound" => "transaction" \in Range(s.partition.required)
  /\ s.fallback.Mode = "parallel-scalar" => s.semantics.idempotency # "non-idempotent"
  /\ s.semantics.effect # "read" => s.semantics.ordering # "reorderable"

\* Whatever options a declaration passes and in whatever order, only operations that run
\* safely enter a catalog, each ID once.
CatalogSound ==
  \A side \in {"base", "incoming"} :
    LET specs == decl.builder[side].specs
    IN /\ \A i \in DOMAIN specs : RunsSafely(specs[i])
       /\ \A i, j \in DOMAIN specs : specs[i].id = specs[j].id => i = j

\* The digest distinguishes declarations exactly by what they mean: one more option
\* changes Canonical unless it left the spec as it was up to the order of a set of
\* dimensions, classifications or extensions, or touched only the source position.
Meaning(s) ==
  <<[s EXCEPT !.source = "none", !.partition = "none", !.retry = "none", !.extensions = ToBag(@)],
    [s.partition EXCEPT !.required = ToBag(@), !.optional = ToBag(@)],
    [s.retry EXCEPT !.Retryable = ToBag(@)]>>
DigestTellsApart ==
  decl.phase = "options" =>
    \A o \in DeclOptions :
      LET t == applyOption(decl.spec, o)
      IN (Canonical(t) = Canonical(decl.spec)) <=> (Meaning(t) = Meaning(decl.spec))

\* Merging keeps every ID of both catalogs exactly once, in ID order, and decides a
\* duplicate the way the caller asked; it fails exactly on a duplicate that was to be an
\* error.  The digest of a catalog is that of its declarations in any order.
Named(catalog, id) == CHOOSE s \in Range(catalog) : s.id = id
IDs(catalog) == {s.id : s \in Range(catalog)}
MergeKeepsAll ==
  decl.phase = "merged" =>
    LET base == Catalog("base")  incoming == Catalog("incoming")  result == decl.merged.catalog
        both == IDs(base) \intersect IDs(incoming)
    IN /\ decl.merged.ok <=> decl.behavior # "error" \/ both = {}
       /\ decl.merged.ok =>
            /\ IDs(result) = IDs(base) \union IDs(incoming)
            /\ \A i, j \in DOMAIN result : i < j => result[i].id < result[j].id
            /\ \A id \in both : Named(result, id) =
                 Named(IF decl.behavior = "replace" THEN incoming ELSE base, id)
       /\ \A side \in {"base", "incoming"} :
            LET specs == decl.builder[side].specs
            IN CatalogDigest(CatalogBuild(Reverse(specs))) = CatalogDigest(CatalogBuild(specs))
=========================================================================
