------------------------------ MODULE Workspace ------------------------------
(***************************************************************************)
(* Package internal/transform, the commands that write: plans are cached,   *)
(* materialized into the working tree, reverted and cleaned, by one command *)
(* at a time, which may be killed between any two of its writes, while the  *)
(* user edits files at any moment.  A write is atomic (a temporary file and *)
(* a rename).                                                               *)
(*                                                                          *)
(* A content is <<"user", v>>, <<"generated", v>> for what a plan makes of  *)
(* version v, or <<"absent", 0>>; a digest is the content it is of.  A plan *)
(* is known by the version of every file it rewrites: the files that hold   *)
(* the user's code, for rewritten code has no call left to rewrite.  Every  *)
(* plan creates the Bridges too.                                            *)
(***************************************************************************)
EXTENDS Integers, FiniteSets

CONSTANTS Files,     \* the source files a plan may rewrite; paths are numbers, in sort order
          Bridges,   \* the files a plan creates
          MaxEdits,  \* the bound on the versions the user writes
          MaxPlans   \* the bound on the plans that have left something on disk

ASSUME WsAssumption ==
  /\ Files \subseteq Nat /\ Bridges \subseteq Nat /\ Files \intersect Bridges = {}
  /\ MaxEdits \in Nat /\ MaxPlans \in Nat

Paths == Files \union Bridges
Versions == 0..MaxEdits
User(v) == <<"user", v>>
Generated(v) == <<"generated", v>>
Absent == <<"absent", 0>>
Contents == ({"user", "generated"} \X Versions) \union {Absent}

\* The plans: the version of each file they rewrite.
Plans == UNION {[S -> Versions] : S \in (SUBSET Files) \ {{}}}
NoPlan == <<>>
PlanPaths(p) == DOMAIN p \union Bridges
Original(p, f) == IF f \in DOMAIN p THEN User(p[f]) ELSE Absent
Transformed(p, f) == IF f \in DOMAIN p THEN Generated(p[f]) ELSE Generated(0)

VARIABLES
  src,        \* the content of every path of the working tree
  stored,     \* the cache: the paths whose transformed bytes are stored, by plan
  planJSON,   \* the plans whose plan.json is stored
  manifest,   \* the backups: the state their manifest is in, by plan
  committed,  \* the paths the manifest calls committed
  objects,    \* the originals that are stored, under their digest
  version,    \* the number of versions the user has written
  pc,         \* where the running command is, "idle" when none runs
  plan,       \* the plan it works on
  todo,       \* the paths it has not dealt with
  conflicts,  \* whether the revert met a conflict
  raced,      \* ghost: the paths of todo that were edited since the command looked at them
  cut         \* ghost: a clean was killed half way

tree == <<src, version>>
cache == <<stored, planJSON, cut>>
backups == <<manifest, committed, objects>>
command == <<pc, plan, todo, conflicts, raced>>
wsVars == <<tree, cache, backups, command>>

ManifestStates == {"none", "writing", "committed", "reverted", "revert-conflict"}

WsInit ==
  /\ src = [f \in Paths |-> IF f \in Files THEN User(0) ELSE Absent]
  /\ stored = [p \in Plans |-> {}] /\ planJSON = {}
  /\ manifest = [p \in Plans |-> "none"]
  /\ committed = [p \in Plans |-> {}] /\ objects = [p \in Plans |-> {}]
  /\ version = 0 /\ cut = FALSE
  /\ pc = "idle" /\ plan = NoPlan /\ todo = {} /\ conflicts = FALSE /\ raced = {}

Start(p, at, paths) == /\ pc = "idle" /\ pc' = at /\ plan' = p /\ todo' = paths
                       /\ UNCHANGED <<conflicts, raced>>
Go(at) == pc' = at /\ UNCHANGED <<plan, todo, conflicts, raced>>
Done == pc' = "idle" /\ plan' = NoPlan /\ todo' = {} /\ conflicts' = FALSE /\ raced' = {}

\* The next file of the loop that is under way: a plan's files are sorted.
Least(f) == f \in todo /\ \A g \in todo : f <= g
Past(f, at) == pc' = at /\ todo' = todo \ {f} /\ UNCHANGED <<plan, raced>>

-----------------------------------------------------------------------------
(* Planning and the cache of plans. *)

OnDisk == {p \in Plans : p \in planJSON \/ stored[p] # {} \/ manifest[p] # "none"}

\* transform plan: the working tree is read once.
BuildAndSave ==
  LET S == {f \in Files : src[f][1] = "user"}
      p == [f \in S |-> src[f][2]]
  IN /\ S # {} /\ Cardinality(OnDisk \union {p}) <= MaxPlans
     /\ Start(p, "save", PlanPaths(p))
     /\ UNCHANGED <<tree, cache, backups>>

\* SavePlan writes the transformed files, and plan.json last.
SavePlanFile ==
  /\ pc = "save"
  /\ \E f \in Paths : /\ Least(f) /\ Past(f, "save")
                      /\ stored' = [stored EXCEPT ![plan] = @ \union {f}]
  /\ UNCHANGED <<tree, planJSON, cut, backups, conflicts>>
SavePlanJSON ==
  /\ pc = "save" /\ todo = {}
  /\ planJSON' = planJSON \union {plan}
  /\ Done
  /\ UNCHANGED <<tree, stored, cut, backups>>

\* CleanPlans removes everything cached, in any order.  (To LoadPlan a files directory with a
\* file missing is as good as none.)
CleanPlans ==
  /\ \E p \in Plans : p \in planJSON \/ stored[p] # {}
  /\ Start(NoPlan, "clean", {})
  /\ UNCHANGED <<tree, cache, backups>>
CleanStep ==
  /\ pc = "clean"
  /\ \E p \in Plans :
       \/ stored[p] # {} /\ stored' = [stored EXCEPT ![p] = {}] /\ planJSON' = planJSON
       \/ p \in planJSON /\ planJSON' = planJSON \ {p} /\ stored' = stored
  /\ cut' = TRUE
  /\ UNCHANGED <<tree, backups, command>>
CleanEnd ==
  /\ pc = "clean" /\ planJSON = {} /\ \A p \in Plans : stored[p] = {}
  /\ Done /\ cut' = FALSE
  /\ UNCHANGED <<tree, stored, planJSON, backups>>

-----------------------------------------------------------------------------
(* Materialize. *)

\* LoadPlan needs plan.json and the bytes of every file.
LoadPlan(p) == p \in planJSON /\ PlanPaths(p) \subseteq stored[p]

\* Mutant of Materialize: the source preconditions are not verified.
MaterializeUnverified ==
  \E p \in Plans :
    /\ LoadPlan(p) /\ Start(p, "manifest", PlanPaths(p))
    /\ UNCHANGED <<tree, cache, backups>>

\* The originals are read and every source precondition is verified.
Materialize ==
  \E p \in Plans :
    /\ LoadPlan(p) /\ \A f \in PlanPaths(p) : src[f] = Original(p, f)
    /\ Start(p, "manifest", PlanPaths(p))
    /\ UNCHANGED <<tree, cache, backups>>

\* The manifest comes first.  One of an earlier materialization of the plan is replaced; the
\* objects beside it stay.
WriteManifest ==
  /\ pc = "manifest" /\ Go("backup")
  /\ manifest' = [manifest EXCEPT ![plan] = "writing"]
  /\ committed' = [committed EXCEPT ![plan] = {}]
  /\ UNCHANGED <<tree, cache, objects>>

\* Mutant of BackUp: the test for a created file is inverted.
BackUpCreated ==
  /\ pc = "backup" /\ Go("write")
  /\ \E f \in Paths :
       /\ Least(f)
       /\ objects' = [objects EXCEPT ![plan] =
                        @ \union (IF f \in Files THEN {} ELSE {Original(plan, f)})]
  /\ UNCHANGED <<tree, cache, manifest, committed>>

\* The original of the next file is stored under its digest; a created file has none.
BackUp ==
  /\ pc = "backup" /\ Go("write")
  /\ \E f \in Paths :
       /\ Least(f)
       /\ objects' = [objects EXCEPT ![plan] =
                        @ \union (IF f \in Files THEN {Original(plan, f)} ELSE {})]
  /\ UNCHANGED <<tree, cache, manifest, committed>>

WriteTarget ==
  /\ pc = "write" /\ Go("commit")
  /\ \E f \in Paths : Least(f) /\ src' = [src EXCEPT ![f] = Transformed(plan, f)]
  /\ UNCHANGED <<version, cache, backups>>

CommitFile ==
  /\ pc = "commit"
  /\ \E f \in Paths : /\ Least(f) /\ Past(f, "backup")
                      /\ committed' = [committed EXCEPT ![plan] = @ \union {f}]
  /\ UNCHANGED <<tree, cache, manifest, objects, conflicts>>

CommitAll ==
  /\ pc = "backup" /\ todo = {}
  /\ manifest' = [manifest EXCEPT ![plan] = "committed"]
  /\ Done
  /\ UNCHANGED <<tree, cache, committed, objects>>

-----------------------------------------------------------------------------
(* Revert, Recover, and what happens around a command. *)

Revert ==
  \E p \in Plans :
    /\ manifest[p] # "none" /\ Start(p, "revert", committed[p])
    /\ UNCHANGED <<tree, cache, backups>>

\* A file that was edited since, or whose original is not stored, is a conflict.
RevertRead ==
  /\ pc = "revert"
  /\ \E f \in Paths :
       /\ Least(f)
       /\ IF src[f] = Transformed(plan, f) /\ (f \in Files => Original(plan, f) \in objects[plan])
          THEN pc' = "restore" /\ raced' = raced \ {f} /\ UNCHANGED <<plan, todo, conflicts>>
          ELSE Past(f, "revert") /\ conflicts' = TRUE
  /\ UNCHANGED <<tree, cache, backups>>

\* The original is written back; a file the plan created is removed.
RevertFile ==
  /\ pc = "restore"
  /\ \E f \in Paths : /\ Least(f) /\ Past(f, "revert")
                      /\ src' = [src EXCEPT ![f] = Original(plan, f)]
  /\ UNCHANGED <<version, cache, backups, conflicts>>

RevertEnd ==
  /\ pc = "revert" /\ todo = {}
  /\ manifest' = [manifest EXCEPT ![plan] = IF conflicts THEN "revert-conflict" ELSE "reverted"]
  /\ Done
  /\ UNCHANGED <<tree, cache, committed, objects>>

\* Recover reports; it changes nothing.
Recover(p) == IF manifest[p] = "writing" /\ committed[p] # PlanPaths(p)
              THEN "recovery-required" ELSE manifest[p]

\* The command is killed, or one of its writes fails and it returns.
Crash == pc # "idle" /\ Done /\ UNCHANGED <<tree, cache, backups>>

\* The user writes a file anew at any time; between commands they may also bring back its
\* first version, or remove a bridge.
Edit ==
  /\ \E f \in Paths :
       /\ \/ /\ f \in Files /\ version < MaxEdits
             /\ src' = [src EXCEPT ![f] = User(version + 1)] /\ version' = version + 1
          \/ /\ f \in Files /\ pc = "idle" /\ src[f] # User(0)
             /\ src' = [src EXCEPT ![f] = User(0)] /\ version' = version
          \/ /\ f \in Bridges /\ pc = "idle" /\ src[f] # Absent
             /\ src' = [src EXCEPT ![f] = Absent] /\ version' = version
       /\ raced' = raced \union ({f} \intersect todo)
  /\ UNCHANGED <<cache, backups, pc, plan, todo, conflicts>>

WsNext == \/ BuildAndSave \/ SavePlanFile \/ SavePlanJSON \/ CleanPlans \/ CleanStep \/ CleanEnd
          \/ Materialize \/ WriteManifest \/ BackUp \/ WriteTarget \/ CommitFile \/ CommitAll
          \/ Revert \/ RevertRead \/ RevertFile \/ RevertEnd \/ Crash \/ Edit

WsSpec == WsInit /\ [][WsNext]_wsVars

-----------------------------------------------------------------------------
(* Properties. *)

\* Whatever is killed or edited, and whenever: what materialization replaced by a generated
\* file is stored in the backup of a plan that made it, under the digest the manifest names.
OriginalRecoverable ==
  \A f \in Files, v \in Versions : src[f] = Generated(v) =>
    \E p \in Plans : /\ f \in DOMAIN p /\ p[f] = v
                     /\ manifest[p] # "none" /\ User(v) \in objects[p]

\* Materialize and Revert replace the user's code only where it is what the plan was made
\* from, or was written after the command had compared the file with its digest.
EditsSurvive ==
  [][\A f \in Paths : (src[f][1] = "user" /\ src'[f] # src[f] /\ src'[f][1] # "user") =>
       f \in DOMAIN plan /\ (src[f] = Original(plan, f) \/ f \in raced)]_wsVars

\* SavePlan writes plan.json last: a plan that is in the cache can be loaded, however the
\* save ended, unless a clean was interrupted.
PlanLoadable == \A p \in planJSON : LoadPlan(p) \/ cut

\* A materialization that was stopped half way is never shown as committed: what Recover
\* reports as committed wrote every file of its plan and recorded each.
CommittedIsWhole ==
  \A p \in Plans : Recover(p) = "committed" => committed[p] = PlanPaths(p)
=============================================================================
