-------------------------- MODULE WorkspaceProofs --------------------------
(***************************************************************************)
(* For any files, any number of edits and any number of plans: what a       *)
(* materialization replaced can be recovered, a cached plan can be loaded,  *)
(* and what is reported as committed is whole.                              *)
(***************************************************************************)
EXTENDS Workspace, TLAPS

USE ZenonT(30)

WsTypeOK ==
  /\ src \in [Paths -> Contents] /\ version \in Versions
  /\ stored \in [Plans -> SUBSET Paths] /\ planJSON \subseteq Plans
  /\ manifest \in [Plans -> ManifestStates] /\ committed \in [Plans -> SUBSET Paths]
  /\ objects \in [Plans -> SUBSET Contents]
  /\ pc \in {"idle", "save", "clean", "manifest", "backup", "write", "commit", "revert", "restore"}
  /\ pc \notin {"idle", "clean"} => plan \in Plans
  /\ todo \subseteq Paths

\* What the running command has behind it.
Progress ==
  /\ pc = "save" => PlanPaths(plan) \subseteq stored[plan] \union todo
  /\ pc \in {"manifest", "backup", "write", "commit"} => todo \subseteq PlanPaths(plan)
  /\ pc = "manifest" => todo = PlanPaths(plan)
  /\ pc \in {"backup", "write", "commit"} =>
       manifest[plan] = "writing" /\ PlanPaths(plan) = committed[plan] \union todo
  /\ pc = "write" => \A f \in Files : Least(f) => Original(plan, f) \in objects[plan]

IInv == WsTypeOK /\ Progress /\ OriginalRecoverable /\ PlanLoadable /\ CommittedIsWhole

-----------------------------------------------------------------------------

\* What a plan consists of.
LEMMA PlanFacts ==
  ASSUME NEW p \in Plans
  PROVE  /\ DOMAIN p \subseteq Files /\ PlanPaths(p) \subseteq Paths
         /\ \A f \in DOMAIN p : p[f] \in Versions
         /\ \A f \in Paths : Original(p, f) \in Contents /\ Transformed(p, f) \in Contents
         /\ \A f \in Files : Original(p, f) # Absent => f \in DOMAIN p
         /\ \A f \in DOMAIN p : Original(p, f) = User(p[f]) /\ Transformed(p, f) = Generated(p[f])
<1>1. PICK S \in (SUBSET Files) \ {{}} : p \in [S -> Versions]
  BY DEF Plans
<1>2. DOMAIN p \subseteq Files /\ \A f \in DOMAIN p : p[f] \in Versions
  BY <1>1
<1>3. 0 \in Versions
  BY SMTT(30), WsAssumption DEF Versions
<1> QED
  BY <1>2, <1>3 DEF PlanPaths, Paths, Original, Transformed, User, Generated, Absent, Contents

\* Before the first command there is no plan, no backup and no generated file.
LEMMA InitIInv == WsInit => IInv
<1> SUFFICES ASSUME WsInit PROVE IInv
  OBVIOUS
<1> USE DEF WsInit
<1>1. 0 \in Versions
  BY SMTT(30), WsAssumption DEF Versions
<1>2. WsTypeOK
  BY <1>1 DEF WsTypeOK, ManifestStates, Contents, User, Absent, Paths
<1>3. Progress
  BY DEF Progress
<1>4. OriginalRecoverable
  BY DEF OriginalRecoverable, User, Generated, Paths, Absent
<1>5. PlanLoadable /\ CommittedIsWhole
  BY DEF PlanLoadable, CommittedIsWhole, Recover
<1> QED
  BY <1>2, <1>3, <1>4, <1>5 DEF IInv

\* The versions that planning read, of one file or more, are a plan.
LEMMA ReadIsPlan ==
  ASSUME NEW S \in (SUBSET Files) \ {{}}, NEW p \in [S -> Versions]
  PROVE  p \in Plans
BY SMTT(30) DEF Plans

\* BuildAndSave: transform plan reads the tree and writes nothing yet.
LEMMA BuildAndSaveKeeps == IInv /\ BuildAndSave => IInv'
<1> SUFFICES ASSUME IInv, BuildAndSave PROVE IInv'
  OBVIOUS
<1> USE PlanFacts DEF IInv, WsTypeOK, BuildAndSave, Start, Go, Done, Past, tree, cache, backups,
   command
<1>1. WsTypeOK'
  <2> DEFINE S == {f \in Files : src[f][1] = "user"}
             p == [f \in S |-> src[f][2]]
  <2>1. \A f \in S : src[f][2] \in Versions
    BY SMTT(30) DEF Contents, Absent, Paths
  <2>a. S \in (SUBSET Files) \ {{}}
    OBVIOUS
  <2>b. p \in [S -> Versions]
    BY <2>1
  <2> HIDE DEF S, p
  <2>2. p \in Plans
    BY <2>a, <2>b, ReadIsPlan
  <2> USE DEF S, p
  <2>3. PlanPaths(p) \subseteq Paths
    BY <2>2
  <2>4. pc' = "save" /\ plan' = p /\ todo' = PlanPaths(p)
    OBVIOUS
  <2>5. UNCHANGED <<src, version, stored, planJSON, manifest, committed, objects>>
    OBVIOUS
  <2> HIDE DEF p, BuildAndSave
  <2> QED
    BY <2>2, <2>3, <2>4, <2>5
<1>2. Progress'
  BY DEF Progress, Least
<1>3. OriginalRecoverable'
  BY DEF Progress, OriginalRecoverable
<1>4. PlanLoadable'
  BY DEF Progress, PlanLoadable, LoadPlan
<1>5. CommittedIsWhole'
  BY DEF Progress, CommittedIsWhole, Recover
<1> QED
  BY <1>1, <1>2, <1>3, <1>4, <1>5

\* SavePlanFile: SavePlan stores a file of the plan being saved.
LEMMA SavePlanFileKeeps == IInv /\ SavePlanFile => IInv'
<1> SUFFICES ASSUME IInv, SavePlanFile PROVE IInv'
  OBVIOUS
<1> USE PlanFacts DEF IInv, WsTypeOK, SavePlanFile, Start, Go, Done, Past, tree, cache, backups,
   command
<1>1. WsTypeOK'
  BY SMTT(30) DEF ManifestStates, Least
<1>2. Progress'
  BY SMTT(30) DEF Progress, Least
<1>3. OriginalRecoverable'
  BY DEF Progress, OriginalRecoverable
<1>4. PlanLoadable'
  BY SMTT(30) DEF Progress, PlanLoadable, LoadPlan
<1>5. CommittedIsWhole'
  BY DEF Progress, CommittedIsWhole, Recover
<1> QED
  BY <1>1, <1>2, <1>3, <1>4, <1>5

\* SavePlanJSON: plan.json is written when every file of the plan is stored.
LEMMA SavePlanJSONKeeps == IInv /\ SavePlanJSON => IInv'
<1> SUFFICES ASSUME IInv, SavePlanJSON PROVE IInv'
  OBVIOUS
<1> USE PlanFacts DEF IInv, WsTypeOK, SavePlanJSON, Start, Go, Done, Past, tree, cache, backups,
   command
<1>1. WsTypeOK'
  BY DEF ManifestStates, Least
<1>2. Progress'
  BY DEF Progress, Least
<1>3. OriginalRecoverable'
  BY SMTT(30) DEF Progress, OriginalRecoverable
<1>4. PlanLoadable'
  BY DEF Progress, PlanLoadable, LoadPlan
<1>5. CommittedIsWhole'
  BY DEF Progress, CommittedIsWhole, Recover
<1> QED
  BY <1>1, <1>2, <1>3, <1>4, <1>5

\* CleanPlans: CleanPlans begins.
LEMMA CleanPlansKeeps == IInv /\ CleanPlans => IInv'
<1> SUFFICES ASSUME IInv, CleanPlans PROVE IInv'
  OBVIOUS
<1> USE PlanFacts DEF IInv, WsTypeOK, CleanPlans, Start, Go, Done, Past, tree, cache, backups,
   command
<1>1. WsTypeOK'
  BY DEF ManifestStates, Least
<1>2. Progress'
  BY DEF Progress, Least
<1>3. OriginalRecoverable'
  BY DEF Progress, OriginalRecoverable
<1>4. PlanLoadable'
  BY DEF Progress, PlanLoadable, LoadPlan
<1>5. CommittedIsWhole'
  BY DEF Progress, CommittedIsWhole, Recover
<1> QED
  BY <1>1, <1>2, <1>3, <1>4, <1>5

\* CleanStep: CleanPlans removes a plan's files or its plan.json.
LEMMA CleanStepKeeps == IInv /\ CleanStep => IInv'
<1> SUFFICES ASSUME IInv, CleanStep PROVE IInv'
  OBVIOUS
<1> USE PlanFacts DEF IInv, WsTypeOK, CleanStep, Start, Go, Done, Past, tree, cache, backups,
   command
<1>1. WsTypeOK'
  BY DEF ManifestStates, Least
<1>2. Progress'
  BY DEF Progress, Least
<1>3. OriginalRecoverable'
  BY DEF Progress, OriginalRecoverable
<1>4. PlanLoadable'
  BY DEF Progress, PlanLoadable, LoadPlan
<1>5. CommittedIsWhole'
  BY DEF Progress, CommittedIsWhole, Recover
<1> QED
  BY <1>1, <1>2, <1>3, <1>4, <1>5

\* CleanEnd: CleanPlans leaves an empty cache.
LEMMA CleanEndKeeps == IInv /\ CleanEnd => IInv'
<1> SUFFICES ASSUME IInv, CleanEnd PROVE IInv'
  OBVIOUS
<1> USE PlanFacts DEF IInv, WsTypeOK, CleanEnd, Start, Go, Done, Past, tree, cache, backups, command
<1>1. WsTypeOK'
  BY DEF ManifestStates, Least
<1>2. Progress'
  BY DEF Progress, Least
<1>3. OriginalRecoverable'
  BY DEF Progress, OriginalRecoverable
<1>4. PlanLoadable'
  BY DEF Progress, PlanLoadable, LoadPlan
<1>5. CommittedIsWhole'
  BY DEF Progress, CommittedIsWhole, Recover
<1> QED
  BY <1>1, <1>2, <1>3, <1>4, <1>5

\* Materialize: Materialize begins with every file as the plan found it.
LEMMA MaterializeKeeps == IInv /\ Materialize => IInv'
<1> SUFFICES ASSUME IInv, Materialize PROVE IInv'
  OBVIOUS
<1> USE PlanFacts DEF IInv, WsTypeOK, Materialize, Start, Go, Done, Past, tree, cache, backups,
   command
<1>1. WsTypeOK'
  BY DEF ManifestStates, Least
<1>2. Progress'
  BY DEF Progress, Least
<1>3. OriginalRecoverable'
  BY DEF Progress, OriginalRecoverable
<1>4. PlanLoadable'
  BY SMTT(30) DEF Progress, PlanLoadable, LoadPlan
<1>5. CommittedIsWhole'
  BY DEF Progress, CommittedIsWhole, Recover
<1> QED
  BY <1>1, <1>2, <1>3, <1>4, <1>5

\* WriteManifest: the manifest is written before any file is touched.
LEMMA WriteManifestKeeps == IInv /\ WriteManifest => IInv'
<1> SUFFICES ASSUME IInv, WriteManifest PROVE IInv'
  OBVIOUS
<1> USE PlanFacts DEF IInv, WsTypeOK, WriteManifest, Start, Go, Done, Past, tree, cache, backups,
   command
<1>1. WsTypeOK'
  BY DEF ManifestStates, Least
<1>2. Progress'
  BY DEF Progress, Least
<1>3. OriginalRecoverable'
  BY DEF Progress, OriginalRecoverable
<1>4. PlanLoadable'
  BY DEF Progress, PlanLoadable, LoadPlan
<1>5. CommittedIsWhole'
  BY DEF Progress, CommittedIsWhole, Recover
<1> QED
  BY <1>1, <1>2, <1>3, <1>4, <1>5

\* BackUp: the original is stored before its file is replaced.
LEMMA BackUpKeeps == IInv /\ BackUp => IInv'
<1> SUFFICES ASSUME IInv, BackUp PROVE IInv'
  OBVIOUS
<1> USE PlanFacts DEF IInv, WsTypeOK, BackUp, Start, Go, Done, Past, tree, cache, backups, command
<1>1. WsTypeOK'
  BY SMTT(30) DEF ManifestStates, Least
<1>2. Progress'
  <2>1. PICK f \in Paths : /\ Least(f)
                          /\ objects' = [objects EXCEPT ![plan] =
                               @ \union (IF f \in Files THEN {Original(plan, f)} ELSE {})]
    OBVIOUS
  <2>2. \A g \in Files : Least(g) => g = f
    BY SMTT(30), <2>1, WsAssumption DEF Least, Paths
  <2>3. \A g : Least(g)' <=> Least(g)
    BY DEF Least
  <2> QED
    BY <2>1, <2>2, <2>3 DEF Progress
<1>3. OriginalRecoverable'
  BY SMTT(30) DEF Progress, OriginalRecoverable
<1>4. PlanLoadable'
  BY DEF Progress, PlanLoadable, LoadPlan
<1>5. CommittedIsWhole'
  BY DEF Progress, CommittedIsWhole, Recover
<1> QED
  BY <1>1, <1>2, <1>3, <1>4, <1>5

\* WriteTarget: a file is replaced whose original is in the backup.
LEMMA WriteTargetKeeps == IInv /\ WriteTarget => IInv'
<1> SUFFICES ASSUME IInv, WriteTarget PROVE IInv'
  OBVIOUS
<1> USE PlanFacts DEF IInv, WsTypeOK, WriteTarget, Start, Go, Done, Past, tree, cache, backups,
   command
<1>1. WsTypeOK'
  BY SMTT(30) DEF ManifestStates, Least
<1>2. Progress'
  BY DEF Progress, Least
<1>3. OriginalRecoverable'
  <2>1. PICK f \in Paths : Least(f) /\ src' = [src EXCEPT ![f] = Transformed(plan, f)]
    OBVIOUS
  <2> SUFFICES ASSUME NEW g \in Files, NEW v \in Versions, src'[g] = Generated(v)
               PROVE  \E p \in Plans : /\ g \in DOMAIN p /\ p[g] = v
                                       /\ manifest[p] # "none" /\ User(v) \in objects[p]
    BY SMTT(30) DEF OriginalRecoverable
  <2>2. CASE g # f
    BY <2>1, <2>2 DEF OriginalRecoverable, Paths
  <2>3. CASE g = f
    <3>1. f \in PlanPaths(plan) /\ manifest[plan] = "writing" /\ Original(plan, f) \in objects[plan]
      BY <2>1, <2>3 DEF Progress, Least
    <3>2. f \in DOMAIN plan
      BY <3>1, <2>3, WsAssumption DEF PlanPaths
    <3>3. Generated(v) = Generated(plan[f])
      BY <2>1, <2>3, <3>2 DEF Paths
    <3>4. v = plan[f]
      BY <3>3 DEF Generated
    <3> QED
      BY SMTT(30), <3>1, <3>2, <3>4, <2>3
  <2> QED
    BY <2>2, <2>3
<1>4. PlanLoadable'
  BY DEF Progress, PlanLoadable, LoadPlan
<1>5. CommittedIsWhole'
  BY DEF Progress, CommittedIsWhole, Recover
<1> QED
  BY <1>1, <1>2, <1>3, <1>4, <1>5

\* CommitFile: a file is recorded after it was written.
LEMMA CommitFileKeeps == IInv /\ CommitFile => IInv'
<1> SUFFICES ASSUME IInv, CommitFile PROVE IInv'
  OBVIOUS
<1> USE PlanFacts DEF IInv, WsTypeOK, CommitFile, Start, Go, Done, Past, tree, cache, backups,
   command
<1>1. WsTypeOK'
  BY SMTT(30) DEF ManifestStates, Least
<1>2. Progress'
  BY SMTT(30) DEF Progress, Least
<1>3. OriginalRecoverable'
  BY DEF Progress, OriginalRecoverable
<1>4. PlanLoadable'
  BY DEF Progress, PlanLoadable, LoadPlan
<1>5. CommittedIsWhole'
  BY DEF Progress, CommittedIsWhole, Recover
<1> QED
  BY <1>1, <1>2, <1>3, <1>4, <1>5

\* CommitAll: the manifest says committed when every file is recorded.
LEMMA CommitAllKeeps == IInv /\ CommitAll => IInv'
<1> SUFFICES ASSUME IInv, CommitAll PROVE IInv'
  OBVIOUS
<1> USE PlanFacts DEF IInv, WsTypeOK, CommitAll, Start, Go, Done, Past, tree, cache, backups,
   command
<1>1. WsTypeOK'
  BY DEF ManifestStates, Least
<1>2. Progress'
  BY DEF Progress, Least
<1>3. OriginalRecoverable'
  BY SMTT(30) DEF Progress, OriginalRecoverable
<1>4. PlanLoadable'
  BY DEF Progress, PlanLoadable, LoadPlan
<1>5. CommittedIsWhole'
  BY DEF Progress, CommittedIsWhole, Recover
<1> QED
  BY <1>1, <1>2, <1>3, <1>4, <1>5

\* Revert: Revert begins with the recorded files.
LEMMA RevertKeeps == IInv /\ Revert => IInv'
<1> SUFFICES ASSUME IInv, Revert PROVE IInv'
  OBVIOUS
<1> USE PlanFacts DEF IInv, WsTypeOK, Revert, Start, Go, Done, Past, tree, cache, backups, command
<1>1. WsTypeOK'
  BY DEF ManifestStates, Least
<1>2. Progress'
  BY DEF Progress, Least
<1>3. OriginalRecoverable'
  BY SMTT(30) DEF Progress, OriginalRecoverable
<1>4. PlanLoadable'
  BY SMTT(30) DEF Progress, PlanLoadable, LoadPlan
<1>5. CommittedIsWhole'
  BY DEF Progress, CommittedIsWhole, Recover
<1> QED
  BY <1>1, <1>2, <1>3, <1>4, <1>5

\* RevertRead: Revert reads a file and leaves it when it was edited.
LEMMA RevertReadKeeps == IInv /\ RevertRead => IInv'
<1> SUFFICES ASSUME IInv, RevertRead PROVE IInv'
  OBVIOUS
<1> USE PlanFacts DEF IInv, WsTypeOK, RevertRead, Start, Go, Done, Past, tree, cache, backups,
   command
<1>1. WsTypeOK'
  BY DEF ManifestStates, Least
<1>2. Progress'
  BY DEF Progress, Least
<1>3. OriginalRecoverable'
  BY DEF Progress, OriginalRecoverable
<1>4. PlanLoadable'
  BY DEF Progress, PlanLoadable, LoadPlan
<1>5. CommittedIsWhole'
  BY DEF Progress, CommittedIsWhole, Recover
<1> QED
  BY <1>1, <1>2, <1>3, <1>4, <1>5

\* RevertFile: the original is written back.
LEMMA RevertFileKeeps == IInv /\ RevertFile => IInv'
<1> SUFFICES ASSUME IInv, RevertFile PROVE IInv'
  OBVIOUS
<1> USE PlanFacts DEF IInv, WsTypeOK, RevertFile, Start, Go, Done, Past, tree, cache, backups,
   command
<1>1. WsTypeOK'
  BY SMTT(30) DEF ManifestStates, Least
<1>2. Progress'
  BY DEF Progress, Least
<1>3. OriginalRecoverable'
  <2>1. PICK f \in Paths : src' = [src EXCEPT ![f] = Original(plan, f)]
    OBVIOUS
  <2>2. \A v \in Versions : Original(plan, f) # Generated(v)
    BY DEF Original, User, Generated, Absent
  <2> QED
    BY <2>1, <2>2 DEF OriginalRecoverable, Paths
<1>4. PlanLoadable'
  BY DEF Progress, PlanLoadable, LoadPlan
<1>5. CommittedIsWhole'
  BY DEF Progress, CommittedIsWhole, Recover
<1> QED
  BY <1>1, <1>2, <1>3, <1>4, <1>5

\* RevertEnd: the manifest says how Revert ended.
LEMMA RevertEndKeeps == IInv /\ RevertEnd => IInv'
<1> SUFFICES ASSUME IInv, RevertEnd PROVE IInv'
  OBVIOUS
<1> USE PlanFacts DEF IInv, WsTypeOK, RevertEnd, Start, Go, Done, Past, tree, cache, backups,
   command
<1>1. WsTypeOK'
  BY DEF ManifestStates, Least
<1>2. Progress'
  BY DEF Progress, Least
<1>3. OriginalRecoverable'
  BY SMTT(30) DEF Progress, OriginalRecoverable
<1>4. PlanLoadable'
  BY DEF Progress, PlanLoadable, LoadPlan
<1>5. CommittedIsWhole'
  BY DEF Progress, CommittedIsWhole, Recover
<1> QED
  BY <1>1, <1>2, <1>3, <1>4, <1>5

\* Crash: a command that is killed leaves what it has written.
LEMMA CrashKeeps == IInv /\ Crash => IInv'
<1> SUFFICES ASSUME IInv, Crash PROVE IInv'
  OBVIOUS
<1> USE PlanFacts DEF IInv, WsTypeOK, Crash, Start, Go, Done, Past, tree, cache, backups, command
<1>1. WsTypeOK'
  BY DEF ManifestStates, Least
<1>2. Progress'
  BY DEF Progress, Least
<1>3. OriginalRecoverable'
  BY DEF Progress, OriginalRecoverable
<1>4. PlanLoadable'
  BY DEF Progress, PlanLoadable, LoadPlan
<1>5. CommittedIsWhole'
  BY DEF Progress, CommittedIsWhole, Recover
<1> QED
  BY <1>1, <1>2, <1>3, <1>4, <1>5

\* What Edit writes: the user's code, or nothing where a generated file was.
LEMMA EditWrites ==
  ASSUME WsTypeOK, Edit
  PROVE  /\ \E f \in Paths, c \in Contents :
               /\ src' = [src EXCEPT ![f] = c] /\ \A v \in Versions : c # Generated(v)
               /\ f \in Bridges \/ c[1] = "user"
         /\ version' \in Versions
<1>1. \A v \in Versions : User(v) \in Contents /\ User(v)[1] = "user"
  BY DEF Contents, User
<1>2. \A v \in Versions : \A w \in Versions : User(v) # Generated(w)
  BY SMTT(30) DEF User, Generated
<1>3. Absent \in Contents /\ \A w \in Versions : Absent # Generated(w)
  BY SMTT(30) DEF Contents, Absent, Generated
<1>4. 0 \in Versions /\ version \in Versions
  BY SMTT(30), WsAssumption DEF WsTypeOK, Versions
<1>5. version < MaxEdits => version + 1 \in Versions
  BY SMTT(30), <1>4, WsAssumption DEF Versions
<1> QED
  BY <1>1, <1>2, <1>3, <1>4, <1>5 DEF Edit

\* Edit: the user writes over a file, generated or not.
LEMMA EditKeeps == IInv /\ Edit => IInv'
<1> SUFFICES ASSUME IInv, Edit PROVE IInv'
  OBVIOUS
<1> USE PlanFacts DEF IInv, WsTypeOK, Edit, Start, Go, Done, Past, tree, cache, backups, command
<1>0. PICK f \in Paths, c \in Contents :
        /\ src' = [src EXCEPT ![f] = c] /\ \A v \in Versions : c # Generated(v)
        /\ version' \in Versions
  BY EditWrites
<1>1. WsTypeOK'
  BY <1>0
<1>2. Progress'
  BY DEF Progress, Least
<1>3. OriginalRecoverable'
  BY <1>0 DEF OriginalRecoverable, Paths
<1>4. PlanLoadable'
  BY DEF Progress, PlanLoadable, LoadPlan
<1>5. CommittedIsWhole'
  BY DEF Progress, CommittedIsWhole, Recover
<1> QED
  BY <1>1, <1>2, <1>3, <1>4, <1>5

\* Every step of a command, a kill and an edit keep the invariant.
LEMMA StepKeeps == IInv /\ [WsNext]_wsVars => IInv'
<1> SUFFICES ASSUME IInv, [WsNext]_wsVars PROVE IInv'
  OBVIOUS
<1>1. CASE UNCHANGED wsVars
  BY <1>1 DEF wsVars, tree, cache, backups, command, IInv, WsTypeOK, Progress,
     OriginalRecoverable, PlanLoadable, CommittedIsWhole,
     Recover, LoadPlan, Least
<1> QED
  BY <1>1, BuildAndSaveKeeps, SavePlanFileKeeps, SavePlanJSONKeeps, CleanPlansKeeps,
     CleanStepKeeps, CleanEndKeeps, MaterializeKeeps, WriteManifestKeeps, BackUpKeeps,
     WriteTargetKeeps, CommitFileKeeps, CommitAllKeeps, RevertKeeps, RevertReadKeeps,
     RevertFileKeeps, RevertEndKeeps, CrashKeeps, EditKeeps DEF WsNext

\* Package internal/transform, for any files, plans and edits: the originals of generated files
\* are recoverable, cached plans can be loaded, and committed materializations are whole.
THEOREM WorkspaceSafe == WsSpec => [](OriginalRecoverable /\ PlanLoadable /\ CommittedIsWhole)
<1>2. IInv => OriginalRecoverable /\ PlanLoadable /\ CommittedIsWhole
  BY DEF IInv
<1> QED
  BY InitIInv, StepKeeps, <1>2, PTL DEF WsSpec

-----------------------------------------------------------------------------

\* The files a command has still to write are what it compared, or were edited since; no other
\* step of it turns the user's code into something else.
Compared ==
  /\ \A b \in Bridges : src[b][1] # "user"
  /\ \A p \in Plans : committed[p] \subseteq PlanPaths(p)
  /\ pc \in {"revert", "restore"} => todo \subseteq PlanPaths(plan)
  /\ pc \in {"manifest", "backup", "write"} =>
       \A f \in todo : src[f] = Original(plan, f) \/ f \in raced
  /\ pc = "commit" => \A f \in todo : Least(f) \/ src[f] = Original(plan, f) \/ f \in raced

\* Before the first command there is nothing to write.
LEMMA InitCompared == WsInit => Compared
  BY SMTT(30), WsAssumption DEF WsInit, Compared, Paths, Absent

\* BuildAndSave: transform plan reads the tree and writes nothing yet.
LEMMA BuildAndSaveCompared == IInv /\ Compared /\ BuildAndSave => Compared'
  BY PlanFacts, WsAssumption DEF IInv, WsTypeOK, Progress, Compared, BuildAndSave,
     Start, Go, Done,
     Past, Least, tree, cache, backups, command, Paths

\* SavePlanFile: SavePlan stores a file of the plan being saved.
LEMMA SavePlanFileCompared == IInv /\ Compared /\ SavePlanFile => Compared'
  BY PlanFacts, WsAssumption DEF IInv, WsTypeOK, Progress, Compared, SavePlanFile,
     Start, Go, Done,
     Past, Least, tree, cache, backups, command, Paths

\* SavePlanJSON: plan.json is written when every file of the plan is stored.
LEMMA SavePlanJSONCompared == IInv /\ Compared /\ SavePlanJSON => Compared'
  BY PlanFacts, WsAssumption DEF IInv, WsTypeOK, Progress, Compared, SavePlanJSON,
     Start, Go, Done,
     Past, Least, tree, cache, backups, command, Paths

\* CleanPlans: CleanPlans begins.
LEMMA CleanPlansCompared == IInv /\ Compared /\ CleanPlans => Compared'
  BY PlanFacts, WsAssumption DEF IInv, WsTypeOK, Progress, Compared, CleanPlans, Start,
     Go, Done,
     Past, Least, tree, cache, backups, command, Paths

\* CleanStep: CleanPlans removes a plan's files or its plan.json.
LEMMA CleanStepCompared == IInv /\ Compared /\ CleanStep => Compared'
  BY PlanFacts, WsAssumption DEF IInv, WsTypeOK, Progress, Compared, CleanStep, Start,
     Go, Done,
     Past, Least, tree, cache, backups, command, Paths

\* CleanEnd: CleanPlans leaves an empty cache.
LEMMA CleanEndCompared == IInv /\ Compared /\ CleanEnd => Compared'
  BY PlanFacts, WsAssumption DEF IInv, WsTypeOK, Progress, Compared, CleanEnd, Start,
     Go, Done,
     Past, Least, tree, cache, backups, command, Paths

\* CommitAll: the manifest says committed when every file is recorded.
LEMMA CommitAllCompared == IInv /\ Compared /\ CommitAll => Compared'
  BY PlanFacts, WsAssumption DEF IInv, WsTypeOK, Progress, Compared, CommitAll, Start,
     Go, Done,
     Past, Least, tree, cache, backups, command, Paths

\* RevertEnd: the manifest says how Revert ended.
LEMMA RevertEndCompared == IInv /\ Compared /\ RevertEnd => Compared'
  BY PlanFacts, WsAssumption DEF IInv, WsTypeOK, Progress, Compared, RevertEnd, Start,
     Go, Done,
     Past, Least, tree, cache, backups, command, Paths

\* Crash: a command that is killed leaves what it has written.
LEMMA CrashCompared == IInv /\ Compared /\ Crash => Compared'
  BY PlanFacts, WsAssumption DEF IInv, WsTypeOK, Progress, Compared, Crash, Start, Go,
     Done,
     Past, Least, tree, cache, backups, command, Paths

\* BackUp: the original is stored before its file is replaced.
LEMMA BackUpCompared == IInv /\ Compared /\ BackUp => Compared'
  BY PlanFacts, WsAssumption DEF IInv, WsTypeOK, Progress, Compared, BackUp, Start, Go,
     Done,
     Past, Least, tree, cache, backups, command, Paths

\* WriteManifest: the manifest is written before any file is touched.
LEMMA WriteManifestCompared == IInv /\ Compared /\ WriteManifest => Compared'
  BY SMTT(30), PlanFacts, WsAssumption DEF IInv, WsTypeOK, Progress, Compared, WriteManifest,
     Start, Go, Done,
     Past, Least, tree, cache, backups, command, Paths

\* Materialize: every file was just compared.
LEMMA MaterializeCompared == IInv /\ Compared /\ Materialize => Compared'
  BY PlanFacts, WsAssumption DEF IInv, WsTypeOK, Progress, Compared, Materialize, Start,
     Go, Done,
     Past, Least, tree, cache, backups, command, Paths

\* WriteTarget: the file written is the one compared, unless it was edited since.
LEMMA WriteTargetCompared == IInv /\ Compared /\ WriteTarget => Compared'
<1> SUFFICES ASSUME IInv, Compared, WriteTarget PROVE Compared'
  OBVIOUS
<1>1. PICK f \in Paths : Least(f) /\ src' = [src EXCEPT ![f] = Transformed(plan, f)]
  BY DEF WriteTarget
<1>2. /\ UNCHANGED <<committed, plan, todo, raced>> /\ pc' = "commit" /\ pc = "write"
      /\ src \in [Paths -> Contents] /\ todo \subseteq Paths
  BY DEF WriteTarget, backups, Go, IInv, WsTypeOK
<1>3. \A b \in Bridges : src'[b][1] # "user"
  BY <1>1, <1>2 DEF Compared, Paths, Transformed, Generated
<1>4. \A g \in todo : g # f => src'[g] = src[g]
  BY <1>1, <1>2
<1>5. Least(f)'
  BY <1>1, <1>2 DEF Least
<1>6. \A g \in todo' : Least(g)' \/ src'[g] = Original(plan', g) \/ g \in raced'
  BY <1>2, <1>4, <1>5 DEF Compared
<1> QED
  BY <1>2, <1>3, <1>6 DEF Compared

\* CommitFile: the next file is still as compared, or raced.
LEMMA CommitFileCompared == IInv /\ Compared /\ CommitFile => Compared'
  BY SMTT(30), PlanFacts, WsAssumption DEF IInv, WsTypeOK, Progress, Compared, CommitFile, Start,
     Go, Done,
     Past, Least, tree, cache, backups, command, Paths

\* Revert: what is recorded is of the plan.
LEMMA RevertCompared == IInv /\ Compared /\ Revert => Compared'
  BY PlanFacts, WsAssumption DEF IInv, WsTypeOK, Progress, Compared, Revert, Start, Go,
     Done,
     Past, Least, tree, cache, backups, command, Paths

\* RevertRead: only a file that is as generated goes on to be restored.
LEMMA RevertReadCompared == IInv /\ Compared /\ RevertRead => Compared'
<1> SUFFICES ASSUME IInv, Compared, RevertRead PROVE Compared'
  OBVIOUS
<1> USE DEF RevertRead, Compared, Past
<1>1. UNCHANGED <<src, committed, plan>>
  BY DEF tree, backups
<1>2. pc' \in {"revert", "restore"} /\ todo' \subseteq todo /\ pc = "revert"
  OBVIOUS
<1> HIDE DEF RevertRead
<1> QED
  BY <1>1, <1>2

\* RevertFile: what is written back is the user's, and no bridge becomes the user's code.
LEMMA RevertFileCompared == IInv /\ Compared /\ RevertFile => Compared'
<1> SUFFICES ASSUME IInv, Compared, RevertFile PROVE Compared'
  OBVIOUS
<1>1. PICK f \in Paths : src' = [src EXCEPT ![f] = Original(plan, f)]
  BY DEF RevertFile
<1>2. UNCHANGED <<committed, plan>> /\ pc' = "revert" /\ todo' \subseteq todo /\ pc = "restore"
  BY DEF RevertFile, backups, Past
<1>3. \A b \in Bridges : Original(plan, b)[1] # "user"
  BY <1>2, PlanFacts, WsAssumption DEF IInv, WsTypeOK, Original, Absent
<1>4. \A b \in Bridges : src'[b][1] # "user"
  BY <1>1, <1>3 DEF IInv, WsTypeOK, Compared, Paths
<1> QED
  BY <1>2, <1>4 DEF Compared

\* Edit: a file edited while a command runs is one of the raced.
LEMMA EditCompared == IInv /\ Compared /\ Edit => Compared'
<1> SUFFICES ASSUME IInv, Compared, Edit PROVE Compared'
  OBVIOUS
<1>0. PICK f \in Paths : /\ raced' = raced \union ({f} \intersect todo)
                        /\ \E c : src' = [src EXCEPT ![f] = c] /\ (f \in Files \/ c = Absent)
  BY DEF Edit
<1>1. PICK c : src' = [src EXCEPT ![f] = c] /\ (f \in Bridges => c = Absent)
  BY <1>0, WsAssumption
<1>2. UNCHANGED <<committed, plan, todo, pc>> /\ src \in [Paths -> Contents] /\ todo \subseteq Paths
  BY DEF Edit, backups, IInv, WsTypeOK
<1>3. \A b \in Bridges : src'[b][1] # "user"
  BY SMTT(30), <1>1, <1>2 DEF Compared, Paths, Absent
<1>4. \A g \in todo : g \in raced' \/ (src'[g] = src[g] /\ (g \in raced' <=> g \in raced))
  BY <1>0, <1>1, <1>2
<1>5. \A g : Least(g)' <=> Least(g)
  BY <1>2 DEF Least
<1> QED
  BY <1>2, <1>3, <1>4, <1>5 DEF Compared

\* For any files, plans and edits, Materialize and Revert replace the user's code only where it
\* is what the plan was made from, or was written after the digests were compared.
THEOREM WorkspaceKeepsEdits == WsSpec => EditsSurvive
<1> DEFINE A == \A f \in Paths : (src[f][1] = "user" /\ src'[f] # src[f] /\ src'[f][1] # "user") =>
                  f \in DOMAIN plan /\ (src[f] = Original(plan, f) \/ f \in raced)
<1>1. IInv /\ Compared /\ [WsNext]_wsVars => Compared'
  <2> SUFFICES ASSUME IInv, Compared, [WsNext]_wsVars PROVE Compared'
    OBVIOUS
  <2>1. CASE UNCHANGED wsVars
    BY <2>1 DEF wsVars, tree, backups, command, Compared, Least
  <2> QED
    BY <2>1, BuildAndSaveCompared, SavePlanFileCompared, SavePlanJSONCompared, CleanPlansCompared,
       CleanStepCompared, CleanEndCompared, MaterializeCompared, WriteManifestCompared,
       BackUpCompared, WriteTargetCompared, CommitFileCompared, CommitAllCompared, RevertCompared,
       RevertReadCompared, RevertFileCompared, RevertEndCompared, CrashCompared, EditCompared DEF
       WsNext
<1>2. IInv /\ Compared /\ [WsNext]_wsVars => [A]_wsVars
  <2> SUFFICES ASSUME IInv, Compared, WsNext PROVE A
    OBVIOUS
  <2>1. CASE WriteTarget
    <3>1. PICK f \in Paths : Least(f) /\ src' = [src EXCEPT ![f] = Transformed(plan, f)]
      BY <2>1 DEF WriteTarget
    <3>2. \A g \in Paths : src'[g] # src[g] => g = f
      BY <3>1 DEF IInv, WsTypeOK
    <3>3. src[f] = Original(plan, f) \/ f \in raced
      BY <2>1, <3>1 DEF WriteTarget, Compared, Least
    <3>4. f \in DOMAIN plan \/ src[f][1] # "user"
      BY <2>1, <3>1 DEF WriteTarget, IInv, Progress, Least, PlanPaths, Compared
    <3> QED
      BY <3>2, <3>3, <3>4
  <2>2. CASE RevertFile
    <3>1. PICK f \in Paths : Least(f) /\ src' = [src EXCEPT ![f] = Original(plan, f)]
      BY <2>2 DEF RevertFile
    <3>2. \A g \in Paths : src'[g] # src[g] => g = f /\ src'[g] = Original(plan, f)
      BY <3>1 DEF IInv, WsTypeOK
    <3>3. f \in DOMAIN plan \/ src[f][1] # "user"
      BY <2>2, <3>1 DEF RevertFile, Compared, Least, PlanPaths
    <3>4. f \in DOMAIN plan => Original(plan, f)[1] = "user"
      BY DEF Original, User
    <3> QED
      BY <3>2, <3>3, <3>4
  <2>3. CASE Edit
    <3>1. PICK f \in Paths, c \in Contents : src' = [src EXCEPT ![f] = c] /\ (f \in Bridges \/
       c[1] = "user")
      BY <2>3, EditWrites DEF IInv
    <3> QED
      BY <3>1 DEF IInv, WsTypeOK, Compared
  <2>4. CASE UNCHANGED src
    BY <2>4
  <2> QED
    BY <2>1, <2>2, <2>3, <2>4 DEF WsNext, BuildAndSave, SavePlanFile, SavePlanJSON, CleanPlans,
       CleanStep, CleanEnd, Materialize, WriteManifest, BackUp, CommitFile, CommitAll, Revert,
       RevertRead, RevertEnd, Crash, tree
<1>3. IInv /\ [WsNext]_wsVars => IInv'
  BY StepKeeps
<1> QED
  BY InitIInv, InitCompared, <1>1, <1>2, <1>3, PTL DEF WsSpec, EditsSurvive
============================================================================
