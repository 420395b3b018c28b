--------------------------- MODULE LifecycleProofs ---------------------------
(***************************************************************************)
(* For any operations, any calls of Bind, Close, Run and Do, and any limit  *)
(* of the memo tables: a Close that returned leaves nothing behind, a memo  *)
(* table holds what calls of its scope were told, the gauge of scopes is    *)
(* exact, and a scope that was closed leaves no table.                      *)
(***************************************************************************)
EXTENDS LifecycleProperties, FiniteSetTheorems, TLAPS

Kinds == {"found", "missing", "failed", "closed"}
Answers == Kinds \cup {"none", "fallback", "scopeRequired", "scopeClosed", "closing",
                       "broken", "full", "ctx"}
Stages == {"idle", "inScope", "accepted", "missed", "tracked", "waiting", "returned"}
MemoRecords == [key : {Asks[c].key : c \in Call}, kind : Answers]

CloseStages ==
  {"idle", "foundClosed", "marked", "closing", "sentClose", "waiting", "waited", "returned"}

CloserRecords == [at : CloseStages, left : SUBSET Op, err : BOOLEAN, expired : BOOLEAN]

EngineType ==
  /\ engine \in {"open", "closing", "closed"} /\ engineDone \in BOOLEAN /\ registered \subseteq Op
  /\ coord \in [Op -> {"none", "open", "closing", "stopped"}]
  /\ bind \in [Binder -> {"idle", "checked", "registered", "bound", "failed"}]
  /\ closer \in [Closer -> CloserRecords]

RunStages == {"idle", "inside", "closing", "returned"}
RunRecords == [at : RunStages, scope : Run \cup {"none"}, left : SUBSET Op]

ScopeType ==
  /\ run \in [Run -> RunRecords]
  /\ \A r \in Run : run[r].at \in {"inside", "closing"} => run[r].scope \in Run
  /\ scope \in [Run -> {"none", "open", "closed"}] /\ tracked \in [Run -> SUBSET Op]
  /\ activeScopes \in Int

CallType ==
  /\ call \in [Call -> Stages] /\ answer \in [Call -> Answers]
  /\ memo \in [Op -> [Run -> SUBSET Seq(MemoRecords)]]

LifeTypeOK == EngineType /\ ScopeType /\ CallType

-----------------------------------------------------------------------------
(* What may be where.  The steps of binding and closing, of scopes, of        *)
(* coordinators and of calls, told apart by what they leave alone.            *)

EngineStep ==
  \/ \E b \in Binder : BindStep(b)
  \/ \E k \in Closer : CloseMarks(k) \/ CloseStep(k) \/ CloserExpires(k)

ScopeStep == \E r \in Run : NewScope(r) \/ RunStep(r)

AnyCallStep == \E c \in Call : CheckScope(c) \/ CallStep(c) \/ Serve(c) \/ Abandon(c)

\* Most leaves are first-order and go to Zenon; the others name SMT.
USE ZenonT(30)

\* The kinds of steps.
LEMMA KindsOfSteps ==
  Next <=> EngineStep \/ (\E o \in Op : CoordinatorStep(o)) \/ ScopeStep \/ AnyCallStep
BY DEF Next, EngineStep, ScopeStep, AnyCallStep

\* Binding and closing an engine touch neither a scope, nor a call, nor a memo table.
LEMMA EngineFrame ==
  ASSUME EngineStep
  PROVE  UNCHANGED <<run, scope, tracked, activeScopes, call, answer, memo>>
<1>1. ASSUME NEW b \in Binder, BindStep(b)
      PROVE  UNCHANGED <<scopeVars, callVars, memo>>
  BY <1>1 DEF BindStep, EnsureOpen, RegisterController, StartCoordinator
<1>2. ASSUME NEW k \in Closer, CloseMarks(k) \/ CloseStep(k) \/ CloserExpires(k)
      PROVE  UNCHANGED <<scopeVars, callVars, memo>>
  BY <1>2 DEF CloseMarks, CloseStep, CloserExpires, CloseSnapshot, SendClose, CloseReturnsOne,
                     CloseCancels, CloseWaits, CloseEnds
<1> QED BY <1>1, <1>2 DEF EngineStep, scopeVars, callVars

\* A coordinator goroutine's own steps touch neither the engine's books nor the scopes, calls and memo tables.
LEMMA CoordinatorFrame ==
  ASSUME NEW o \in Op, CoordinatorStep(o)
  PROVE  UNCHANGED <<engine, engineDone, registered, bind, closer,
                     run, scope, tracked, activeScopes, call, memo>>
BY DEF CoordinatorStep, HandleEngineCancel, Stop, engineVars, scopeVars, callVars

\* Scope.New and Scope.Close touch neither an engine, nor a coordinator, nor a call.
LEMMA ScopeFrame ==
  ASSUME ScopeStep
  PROVE  UNCHANGED <<engine, engineDone, registered, bind, closer, coord, call, answer>>
<1>1. ASSUME NEW r \in Run, NewScope(r) \/ RunStep(r)
      PROVE  UNCHANGED <<engineVars, coord, callVars>>
  BY <1>1 DEF NewScope, RunStep, ScopeCloseMarks, DropMemo, ScopeCloseEnds
<1> QED BY <1>1 DEF ScopeStep, engineVars, callVars

\* A call's steps touch neither the engine's books nor the coordinators, the runs and the scope states.
LEMMA CallFrame ==
  ASSUME AnyCallStep
  PROVE  UNCHANGED <<engine, engineDone, registered, bind, closer, coord, run, scope, activeScopes>>
<1>1. ASSUME NEW c \in Call, CheckScope(c) \/ CallStep(c) \/ Serve(c) \/ Abandon(c)
      PROVE  UNCHANGED <<engineVars, coord, run, scope, activeScopes>>
  BY <1>1 DEF CheckScope, CallStep, Serve, Abandon, CheckEngine, MemoGet, TrackOp, SubmitCall,
                     CoordinatorGone, Finish, scopeVars
<1> QED BY <1>1 DEF AnyCallStep, engineVars

-----------------------------------------------------------------------------
(* Types. *)

\* What is bound and what is asked for are operations.
LEMMA BindsOps ==
  /\ BindOp \in [Binder -> Op] /\ \A c \in Call : Asks[c].op \in Op
  /\ "none" \notin Run /\ In \in [Call -> Run \cup {"none"}]
  /\ Parent \in [Run -> Run \cup {"none"}]
BY LifecycleAssumption

\* Everything starts well-typed.
LEMMA TypeInit == Init => LifeTypeOK
<1> SUFFICES ASSUME Init PROVE LifeTypeOK
  OBVIOUS
<1>1. EngineType
  <2>1. [at |-> "idle", left |-> {}, err |-> FALSE, expired |-> FALSE] \in CloserRecords
    BY DEF CloserRecords, CloseStages
  <2> QED BY <2>1 DEF Init, EngineType
<1>2. ScopeType
  BY SMTT(30) DEF Init, ScopeType, RunRecords, RunStages
<1>3. CallType
  <2>1. call \in [Call -> Stages] /\ answer \in [Call -> Answers]
    BY DEF Init, Stages, Answers
  <2>2. memo \in [Op -> [Run -> SUBSET Seq(MemoRecords)]]
    BY DEF Init
  <2> QED BY <2>1, <2>2 DEF CallType
<1> QED BY <1>1, <1>2, <1>3 DEF LifeTypeOK

\* Where a call of Close may be next.
LEMMA CloserRecord ==
  ASSUME NEW rec \in CloserRecords, NEW left \in SUBSET Op, NEW err \in BOOLEAN
  PROVE  /\ [rec EXCEPT !.expired = err] \in CloserRecords
         /\ \A at \in CloseStages :
              /\ [rec EXCEPT !.at = at] \in CloserRecords
              /\ [rec EXCEPT !.at = at, !.left = left] \in CloserRecords
              /\ [rec EXCEPT !.at = at, !.err = err] \in CloserRecords
              /\ [rec EXCEPT !.at = at, !.left = left, !.err = err] \in CloserRecords
BY DEF CloserRecords

\* Binding, closing and the coordinators keep their types.
LEMMA EngineTypeNext ==
  ASSUME EngineType, Next
  PROVE  EngineType'
<1> USE BindsOps DEF EngineType
<1>1. ASSUME NEW b \in Binder, BindStep(b)
      PROVE  EngineType'
  <2>1. CASE EnsureOpen(b)
    BY <2>1 DEF EnsureOpen
  <2>2. CASE RegisterController(b)
    BY <2>2 DEF RegisterController
  <2>3. CASE StartCoordinator(b)
    BY <2>3 DEF StartCoordinator
  <2> QED BY <1>1, <2>1, <2>2, <2>3 DEF BindStep
<1>2. ASSUME NEW k \in Closer, CloseMarks(k) \/ CloserExpires(k)
      PROVE  EngineType'
  <2>1. CASE CloseMarks(k)
    <3>1. \A at \in {"foundClosed", "marked"} : [closer EXCEPT ![k].at = at] \in [Closer -> CloserRecords]
      BY CloserRecord DEF CloseStages
    <3> QED BY <2>1, <3>1 DEF CloseMarks, CloserAt
  <2>2. CASE CloserExpires(k)
    <3>1. [closer EXCEPT ![k].expired = TRUE] \in [Closer -> CloserRecords]
      BY CloserRecord
    <3> QED BY <2>2, <3>1 DEF CloserExpires
  <2> QED BY <1>2, <2>1, <2>2
<1>3. ASSUME NEW k \in Closer, CloseStep(k)
      PROVE  EngineType'
  <2>0. \A at \in CloseStages : [closer EXCEPT ![k].at = at] \in [Closer -> CloserRecords]
    BY CloserRecord
  <2>1. CASE CloseSnapshot(k)
    <3>1. [closer EXCEPT ![k].at = "closing", ![k].left = registered] \in [Closer -> CloserRecords]
      BY CloserRecord DEF CloseStages
    <3> QED BY <2>1, <3>1 DEF CloseSnapshot
  <2>2. CASE SendClose(k)
    BY <2>2, <2>0 DEF SendClose, CloserAt, CloseStages
  <2>3. CASE CloseReturnsOne(k)
    <3> DEFINE left == closer[k].left \ {Min(closer[k].left)}
    <3>1. PICK err \in BOOLEAN :
            closer' = [closer EXCEPT ![k] = [closer[k] EXCEPT !.at = "closing", !.left = left,
                                                              !.err = closer[k].err \/ err]]
      BY <2>3 DEF CloseReturnsOne
    <3>2. left \in SUBSET Op /\ (closer[k].err \/ err) \in BOOLEAN
      BY DEF CloserRecords
    <3>3. [closer[k] EXCEPT !.at = "closing", !.left = left, !.err = closer[k].err \/ err] \in CloserRecords
      BY <3>2, CloserRecord DEF CloseStages
    <3> HIDE DEF left
    <3>4. PICK rec \in CloserRecords : closer' = [closer EXCEPT ![k] = rec]
      BY <3>1, <3>3
    <3>5. closer' \in [Closer -> CloserRecords]
      BY <3>4
    <3> QED BY <2>3, <3>5 DEF CloseReturnsOne
  <2>4. CASE CloseCancels(k)
    BY <2>4, <2>0 DEF CloseCancels, CloserAt, CloseStages
  <2>5. CASE CloseWaits(k)
    <3>1. [closer EXCEPT ![k].at = "waited", ![k].err = TRUE] \in [Closer -> CloserRecords]
      BY CloserRecord DEF CloseStages
    <3> QED BY <2>5, <2>0, <3>1 DEF CloseWaits, CloserAt, CloseStages
  <2>6. CASE CloseEnds(k)
    BY <2>6, <2>0 DEF CloseEnds, CloserAt, CloseStages
  <2> QED BY <1>3, <2>1, <2>2, <2>3, <2>4, <2>5, <2>6 DEF CloseStep
<1>4. ASSUME NEW o \in Op, CoordinatorStep(o)
      PROVE  EngineType'
  BY <1>4 DEF CoordinatorStep, HandleEngineCancel, Stop, engineVars
<1>5. CASE ScopeStep \/ AnyCallStep
  BY <1>5, ScopeFrame, CallFrame
<1> QED BY <1>1, <1>2, <1>3, <1>4, <1>5, KindsOfSteps DEF EngineStep

\* Where a call of Run may be next.
LEMMA RunRecord ==
  ASSUME NEW rec \in RunRecords, NEW left \in SUBSET Op, NEW at \in RunStages
  PROVE  /\ [rec EXCEPT !.at = at] \in RunRecords
         /\ [rec EXCEPT !.left = left] \in RunRecords
         /\ [rec EXCEPT !.at = at, !.left = left] \in RunRecords
BY DEF RunRecords

\* Scopes keep their types.
LEMMA ScopeTypeNext ==
  ASSUME ScopeType, Next
  PROVE  ScopeType'
<1> USE BindsOps DEF ScopeType
<1>1. CASE EngineStep
  BY <1>1, EngineFrame
<1>2. CASE \E o \in Op : CoordinatorStep(o)
  BY <1>2, CoordinatorFrame
<1>4. ASSUME NEW r \in Run, NewScope(r)
      PROVE  ScopeType'
  BY <1>4, SMTT(30) DEF NewScope, Outer, RunReturnsEarly, RunRecords, RunStages
<1>5. ASSUME NEW r \in Run, RunStep(r)
      PROVE  ScopeType'
  <2>1. CASE ScopeCloseMarks(r)
    <3> DEFINE s == run[r].scope
    <3>0. s \in Run
      BY <2>1, SMTT(30) DEF ScopeCloseMarks, Inside, RunRecords, RunStages
    <3>1. CASE scope[s] # "closed"
      <4>1. [run EXCEPT ![r].at = "closing", ![r].left = tracked[s]] \in [Run -> RunRecords]
        BY <3>0, RunRecord DEF RunStages
      <4> QED BY <2>1, <3>0, <3>1, <4>1, SMTT(30) DEF ScopeCloseMarks, Closes, Closeable, RunRecords, RunStages
    <3>2. CASE scope[s] = "closed"
      BY <2>1, <3>0, <3>2, SMTT(30) DEF ScopeCloseMarks, Closes, Closeable, RunRecords, RunStages
    <3> QED BY <3>1, <3>2
  <2>2. CASE \E o \in run[r].left : DropMemo(r, o)
    BY <2>2, SMTT(30) DEF DropMemo, RunRecords, RunStages
  <2>3. CASE ScopeCloseEnds(r)
    BY <2>3, SMTT(30) DEF ScopeCloseEnds, RunRecords, RunStages
  <2> QED BY <1>5, <2>1, <2>2, <2>3 DEF RunStep
<1>6. ASSUME NEW c \in Call, TrackOp(c)
      PROVE  ScopeType'
  <2> DEFINE s == ScopeOf(c)
  <2>1. Asks[c].op \in Op
    OBVIOUS
  <2>2. Tracked(s, Asks[c].op) \in [Run -> SUBSET Op]
    BY <2>1 DEF Tracked
  <2> QED BY <1>6, <2>2 DEF TrackOp
<1>7. ASSUME NEW c \in Call, CheckScope(c) \/ CallStep(c) \/ Serve(c) \/ Abandon(c), ~TrackOp(c)
      PROVE  ScopeType'
  <2>1. UNCHANGED <<run, scope, tracked, activeScopes>>
    BY <1>7 DEF CheckScope, CallStep, Serve, Abandon, CheckEngine, MemoGet, SubmitCall,
                       CoordinatorGone, Finish, scopeVars
  <2> QED BY <2>1
<1> QED BY <1>1, <1>2, <1>4, <1>5, <1>6, <1>7, KindsOfSteps DEF ScopeStep, AnyCallStep

\* A table within its limit, each identity once.
Table(t) ==
  /\ t \in Seq(MemoRecords) /\ Len(t) <= MemoMaxItems
  /\ \A m, n \in DOMAIN t : t[m].key = t[n].key => m = n

\* The index after one that is not the last.
LEMMA NotLast ==
  ASSUME NEW N \in Nat, NEW n \in 1 .. N, n # N
  PROVE  n \in 1 .. N - 1 /\ n + 1 \in 1 .. N
BY SMTT(30)

\* What put leaves in a table: a table, of the record put and records of the old one.
LEMMA PutTable ==
  ASSUME NEW t, Table(t), NEW m \in MemoRecords
  PROVE  /\ Table(Put(t, m))
         /\ \A n \in DOMAIN Put(t, m) : Put(t, m)[n] = m \/ \E i \in DOMAIN t : Put(t, m)[n] = t[i]
<1> USE DEF Table
<1>0. MemoMaxItems \in Nat \ {0}
  BY LifecycleAssumption
<1>1. CASE \E n \in DOMAIN t : t[n].key = m.key
  BY <1>1 DEF Put
<1>2. CASE ~(\E n \in DOMAIN t : t[n].key = m.key) /\ Len(t) < MemoMaxItems
  <2>1. Put(t, m) = Append(t, m)
    BY <1>2 DEF Put
  <2>2. Append(t, m) \in Seq(MemoRecords) /\ Len(Append(t, m)) = Len(t) + 1
    BY SMTT(30)
  <2>3. \A n \in 1 .. Len(t) + 1 :
          Append(t, m)[n] = IF n = Len(t) + 1 THEN m ELSE t[n]
    BY SMTT(30)
  <2>4. DOMAIN t = 1 .. Len(t) /\ DOMAIN Append(t, m) = 1 .. Len(t) + 1
    BY SMTT(30)
  <2>5. \A i, n \in DOMAIN Append(t, m) : Append(t, m)[i].key = Append(t, m)[n].key => i = n
    BY <1>2, <2>3, <2>4, SMTT(30)
  <2>6. \A n \in DOMAIN Append(t, m) : Append(t, m)[n] = m \/ \E i \in DOMAIN t : Append(t, m)[n] = t[i]
    BY <2>3, <2>4, SMTT(30)
  <2> QED BY <1>0, <1>2, <2>1, <2>2, <2>5, <2>6, SMTT(30)
<1>3. CASE ~(\E n \in DOMAIN t : t[n].key = m.key) /\ ~(Len(t) < MemoMaxItems)
  <2>1. Put(t, m) = Append(Tail(t), m)
    BY <1>3 DEF Put
  <2>2. t # <<>> /\ Len(t) \in Nat /\ Len(t) >= 1
    BY <1>0, <1>3, SMTT(30)
  <2>3. Tail(t) \in Seq(MemoRecords) /\ Len(Tail(t)) = Len(t) - 1
        /\ \A n \in 1 .. Len(t) - 1 : Tail(t)[n] = t[n + 1]
    BY <2>2, SMTT(30)
  <2>4. Append(Tail(t), m) \in Seq(MemoRecords) /\ Len(Append(Tail(t), m)) = Len(t)
    BY <2>2, <2>3, SMTT(30)
  <2>5. \A n \in 1 .. Len(t) : Append(Tail(t), m)[n] = IF n = Len(t) THEN m ELSE t[n + 1]
    <3> SUFFICES ASSUME NEW n \in 1 .. Len(t)
                 PROVE  Append(Tail(t), m)[n] = IF n = Len(t) THEN m ELSE t[n + 1]
      OBVIOUS
    <3>1. CASE n = Len(t)
      <4>1. Append(Tail(t), m)[Len(Tail(t)) + 1] = m
        BY <2>3, SMTT(30)
      <4> QED BY <2>2, <2>3, <3>1, <4>1, SMTT(30)
    <3>2. CASE n # Len(t)
      <4>1. n \in 1 .. Len(Tail(t))
        BY <2>2, <2>3, <3>2, NotLast
      <4>2. Append(Tail(t), m)[n] = Tail(t)[n]
        BY <2>3, <4>1, SMTT(30)
      <4> QED BY <2>2, <2>3, <3>2, <4>1, <4>2
    <3> QED BY <3>1, <3>2
  <2>6. DOMAIN t = 1 .. Len(t) /\ DOMAIN Append(Tail(t), m) = 1 .. Len(t)
    BY <2>4, SMTT(30)
  <2>7. \A i, n \in DOMAIN Append(Tail(t), m) :
          Append(Tail(t), m)[i].key = Append(Tail(t), m)[n].key => i = n
    <3> SUFFICES ASSUME NEW i \in 1 .. Len(t), NEW n \in 1 .. Len(t),
                        Append(Tail(t), m)[i].key = Append(Tail(t), m)[n].key
                 PROVE  i = n
      BY <2>6
    <3>1. \A j \in 1 .. Len(t) : j # Len(t) => j + 1 \in DOMAIN t
      BY <2>2, <2>6, NotLast
    <3>2. CASE i = Len(t) \/ n = Len(t)
      BY <1>3, <2>5, <3>1, <3>2, SMTT(30)
    <3>3. CASE i # Len(t) /\ n # Len(t)
      <4>1. t[i + 1].key = t[n + 1].key
        BY <2>5, <3>3
      <4>2. i + 1 = n + 1
        BY <3>1, <3>3, <4>1
      <4> QED BY <4>2, SMTT(30)
    <3> QED BY <3>2, <3>3
  <2>8. \A n \in DOMAIN Append(Tail(t), m) :
          Append(Tail(t), m)[n] = m \/ \E i \in DOMAIN t : Append(Tail(t), m)[n] = t[i]
    <3> SUFFICES ASSUME NEW n \in 1 .. Len(t)
                 PROVE  Append(Tail(t), m)[n] = m \/ \E i \in DOMAIN t : Append(Tail(t), m)[n] = t[i]
      BY <2>6
    <3>1. n # Len(t) => n + 1 \in DOMAIN t
      BY <2>2, <2>6, NotLast
    <3> QED BY <2>5, <3>1
  <2> QED BY <1>0, <2>1, <2>4, <2>7, <2>8
<1> QED BY <1>1, <1>2, <1>3

-----------------------------------------------------------------------------
(* Calls and what they were told. *)

Midway == {"inScope", "accepted", "missed", "tracked", "waiting"}

\* A call under way runs inside its scope, and no call is made before its Run began.
CallsInScope ==
  \A c \in Call :
    /\ call[c] \in Midway => In[c] \in Run /\ run[In[c]].at = "inside"
    /\ call[c] # "idle" /\ In[c] # "none" => run[In[c]].at # "idle"

CallsType == call \in [Call -> Stages] /\ answer \in [Call -> Answers]

\* Where the calls and the Runs stand changes like this: a call moves on from where
\* it is, and what a call that returned was told does not change.
LEMMA CallMoves ==
  ASSUME EngineType, ScopeType, CallType, CallsInScope, Next
  PROVE  /\ CallsType'
         /\ \A c \in Call : call[c] = "returned" => call'[c] = "returned" /\ answer'[c] = answer[c]
<1> USE BindsOps DEF CallType, CallsType
<1>1. CASE EngineStep \/ ScopeStep
  BY <1>1, EngineFrame, ScopeFrame
<1>4. ASSUME NEW o \in Op, CoordinatorStep(o)
      PROVE  /\ call' = call /\ answer' \in [Call -> Answers]
             /\ \A c \in Call : call[c] = "returned" => answer'[c] = answer[c]
  <2>1. CASE HandleEngineCancel(o)
    <3>1. call' = call /\ answer' = [c \in Call |-> IF c \in Waiting(o) THEN "closed" ELSE answer[c]]
      BY <2>1 DEF HandleEngineCancel
    <3>2. "closed" \in Answers
      BY DEF Answers, Kinds
    <3>3. \A c \in Call : call[c] = "returned" => c \notin Waiting(o)
      BY SMTT(30) DEF Waiting
    <3> QED BY <3>1, <3>2, <3>3
  <2>2. CASE Stop(o)
    BY <2>2 DEF Stop, callVars
  <2> QED BY <1>4, <2>1, <2>2 DEF CoordinatorStep
<1>5. ASSUME NEW c \in Call, NEW a \in Answers, Returns(c, a), call[c] # "returned"
      PROVE  /\ CallsType'
             /\ \A d \in Call : call[d] = "returned" => call'[d] = "returned" /\ answer'[d] = answer[d]
  <2>1. "returned" \in Stages
    BY DEF Stages
  <2> QED BY <1>5, <2>1 DEF Returns
<1>6. ASSUME NEW c \in Call, NEW at \in Stages, Goes(c, at), call[c] # "returned"
      PROVE  /\ CallsType'
             /\ \A d \in Call : call[d] = "returned" => call'[d] = "returned" /\ answer'[d] = answer[d]
  BY <1>6, SMTT(30) DEF Goes
<1>7. ASSUME NEW c \in Call, CheckScope(c) \/ CallStep(c) \/ Serve(c) \/ Abandon(c)
      PROVE  /\ CallsType'
             /\ \A d \in Call : call[d] = "returned" => call'[d] = "returned" /\ answer'[d] = answer[d]
  <2>1. CASE CheckScope(c)
    <3>0. call[c] = "idle"
      BY <2>1 DEF CheckScope
    <3>1. call[c] # "returned"
      BY <3>0, SMTT(30)
    <3>2. Goes(c, "inScope") \/ \E a \in Answers : Returns(c, a)
      <4>1. {"fallback", "scopeRequired", "scopeClosed"} \subseteq Answers
        BY DEF Answers
      <4> QED BY <2>1, <4>1 DEF CheckScope, FallsBack
    <3> QED BY <1>5, <1>6, <3>1, <3>2 DEF Stages
  <2>2. CASE CheckEngine(c)
    <3>0. call[c] = "inScope"
      BY <2>2 DEF CheckEngine
    <3>1. call[c] # "returned"
      BY <3>0, SMTT(30)
    <3>2. Goes(c, "accepted") \/ \E a \in Answers : Returns(c, a)
      <4>1. {"fallback", "closing"} \subseteq Answers
        BY DEF Answers
      <4> QED BY <2>2, <4>1 DEF CheckEngine, FallsBack
    <3> QED BY <1>5, <1>6, <3>1, <3>2 DEF Stages
  <2>3. CASE MemoGet(c)
    <3>1. call[c] = "accepted" /\ call[c] # "returned"
      BY <2>3, SMTT(30) DEF MemoGet
    <3>2. ScopeOf(c) \in Run
      BY <3>1 DEF CallsInScope, ScopeType, ScopeOf, Midway
    <3>3. \A m \in Hits(c) : m.kind \in Answers
      <4> SUFFICES ASSUME NEW t \in memo[Asks[c].op][ScopeOf(c)], NEW n \in DOMAIN t
                   PROVE  t[n].kind \in Answers
        BY SMTT(30) DEF Hits, Records, Range
      <4>1. t \in Seq(MemoRecords)
        BY <3>2, SMTT(30)
      <4>2. t[n] \in MemoRecords
        BY <4>1, SMTT(30)
      <4> QED BY <4>2 DEF MemoRecords
    <3>4. Goes(c, "missed") \/ \E a \in Answers : Returns(c, a)
      <4>1. "broken" \in Answers
        BY DEF Answers
      <4> QED BY <2>3, <3>3, <4>1 DEF MemoGet
    <3> QED BY <1>5, <1>6, <3>1, <3>4 DEF Stages
  <2>4. CASE TrackOp(c)
    <3>1. call[c] # "returned"
      BY <2>4, SMTT(30) DEF TrackOp
    <3> QED BY <1>6, <2>4, <3>1 DEF TrackOp, Stages
  <2>5. CASE SubmitCall(c)
    <3>1. call[c] # "returned"
      BY <2>5, SMTT(30) DEF SubmitCall
    <3>2. Goes(c, "waiting") \/ \E a \in Answers : Returns(c, a)
      BY <2>5 DEF SubmitCall, Answers, Kinds
    <3> QED BY <1>5, <1>6, <3>1, <3>2 DEF Stages
  <2>6. CASE CoordinatorGone(c) \/ Abandon(c)
    <3>1. call[c] # "returned"
      BY <2>6, SMTT(30) DEF CoordinatorGone, Abandon, Waiting
    <3>2. \E a \in Answers : Returns(c, a)
      BY <2>6 DEF CoordinatorGone, Abandon, Answers, Kinds
    <3> QED BY <1>5, <3>1, <3>2
  <2>7. CASE Finish(c)
    <3>1. call[c] # "returned"
      BY <2>7, SMTT(30) DEF Finish
    <3> QED BY <1>5, <2>7, <3>1 DEF Finish
  <2>8. CASE Serve(c)
    <3>1. call[c] = "waiting" /\ call' = call
      BY <2>8 DEF Serve, Waiting
    <3>2. PICK k \in {"found", "missing", "failed"} : answer' = [answer EXCEPT ![c] = k]
      BY <2>8 DEF Serve
    <3>3. k \in Answers /\ \A d \in Call : call[d] = "returned" => d # c
      <4>1. k \in Answers
        BY DEF Answers, Kinds
      <4> QED BY <3>1, <4>1, SMTT(30)
    <3> QED BY <3>1, <3>2, <3>3
  <2> QED BY <1>7, <2>1, <2>2, <2>3, <2>4, <2>5, <2>6, <2>7, <2>8 DEF CallStep
<1> QED BY <1>1, <1>4, <1>7, KindsOfSteps DEF AnyCallStep


\* A Run moves on from where it is: one that began keeps its scope, and one that
\* is inside leaves when its calls have returned.
LEMMA RunMoves ==
  ASSUME ScopeType, Next, NEW r \in Run, run[r].at # "idle"
  PROVE  /\ run'[r].at # "idle" /\ run'[r].scope = run[r].scope
         /\ \/ run[r].at = "inside" /\ run'[r].at = "inside"
            \/ run[r].at # "inside" /\ run'[r].at # "inside"
            \/ call' = call /\ \A c \in Call : In[c] = r => call[c] \in {"idle", "returned"}
<1> USE BindsOps DEF ScopeType
<1>1. CASE UNCHANGED run
  BY <1>1
<1>2. ASSUME NEW q \in Run, NewScope(q)
      PROVE  r # q /\ run'[r] = run[r]
  BY <1>2, SMTT(30) DEF NewScope, RunReturnsEarly
<1>3. ASSUME NEW q \in Run, ScopeCloseMarks(q)
      PROVE  /\ run'[r].at # "idle" /\ run'[r].scope = run[r].scope
             /\ \/ run'[r].at = run[r].at
                \/ call' = call /\ \A c \in Call : In[c] = r => call[c] \in {"idle", "returned"}
  <2>1. /\ call' = call /\ \A c \in Call : In[c] = q => call[c] \in {"idle", "returned"}
    BY <1>3 DEF ScopeCloseMarks, Finished, callVars
  <2>2. \/ run' = [run EXCEPT ![q].at = "closing", ![q].left = tracked[run[q].scope]]
        \/ run' = [run EXCEPT ![q].at = "returned"]
    BY <1>3 DEF ScopeCloseMarks, Closes
  <2>3. CASE q # r
    BY <2>2, <2>3, SMTT(30) DEF RunRecords
  <2>4. CASE q = r
    <3>1. run'[r].at # "idle" /\ run'[r].scope = run[r].scope
      BY <2>2, <2>4, SMTT(30) DEF RunRecords
    <3> QED BY <2>1, <2>4, <3>1
  <2> QED BY <2>3, <2>4
<1>4. ASSUME NEW q \in Run, (\E o \in run[q].left : DropMemo(q, o)) \/ ScopeCloseEnds(q)
      PROVE  /\ run'[r].at # "idle" /\ run'[r].scope = run[r].scope
             /\ (run'[r].at = "inside") <=> (run[r].at = "inside")
  <2>1. CASE \E o \in run[q].left : DropMemo(q, o)
    BY <2>1, SMTT(30) DEF DropMemo, RunRecords
  <2>2. CASE ScopeCloseEnds(q)
    BY <2>2, SMTT(30) DEF ScopeCloseEnds, RunRecords
  <2> QED BY <1>4, <2>1, <2>2
<1>5. ASSUME NEW q \in Run, RunStep(q)
      PROVE  \/ ScopeCloseMarks(q) \/ (\E o \in run[q].left : DropMemo(q, o)) \/ ScopeCloseEnds(q)
  BY <1>5 DEF RunStep
<1>6. ASSUME ~ScopeStep
      PROVE  UNCHANGED run
  BY <1>6, KindsOfSteps, EngineFrame, CoordinatorFrame, CallFrame
<1> QED BY <1>1, <1>2, <1>3, <1>4, <1>5, <1>6 DEF ScopeStep

\* A step of one call leaves the others where they stand.
LEMMA OneCallMoves ==
  ASSUME CallType, NEW c \in Call, NEW d \in Call, call'[c] # call[c],
         CheckScope(d) \/ CallStep(d) \/ Serve(d) \/ Abandon(d)
  PROVE  c = d
<1>1. call' = call \/ \E at : call' = [call EXCEPT ![d] = at]
  <2>1. CASE CheckScope(d)
    BY <2>1 DEF CheckScope, Returns, Goes, FallsBack
  <2>2. CASE CheckEngine(d) \/ TrackOp(d) \/ SubmitCall(d)
    BY <2>2 DEF CheckEngine, TrackOp, SubmitCall, Returns, Goes, FallsBack
  <2>3. CASE MemoGet(d) \/ CoordinatorGone(d) \/ Finish(d)
    BY <2>3 DEF MemoGet, CoordinatorGone, Finish, Returns, Goes
  <2>4. CASE Serve(d) \/ Abandon(d)
    BY <2>4 DEF Serve, Abandon, Returns
  <2> QED BY <2>1, <2>2, <2>3, <2>4 DEF CallStep
<1> QED BY <1>1 DEF CallType

\* A call the engine has let in looks into the memo table next.
LEMMA AcceptedLooks ==
  ASSUME NEW c \in Call, call[c] = "accepted",
         CheckScope(c) \/ CallStep(c) \/ Serve(c) \/ Abandon(c)
  PROVE  MemoGet(c)
<1>1. ~CheckScope(c) /\ ~CheckEngine(c) /\ ~TrackOp(c)
  BY DEF CheckScope, CheckEngine, TrackOp
<1>2. ~SubmitCall(c) /\ ~CoordinatorGone(c) /\ ~Finish(c)
  BY DEF SubmitCall, CoordinatorGone, Finish
<1>3. ~Serve(c) /\ ~Abandon(c)
  BY DEF Serve, Abandon, Waiting
<1> QED BY <1>1, <1>2, <1>3 DEF CallStep

\* A call that leaves where it stood was idle and its Run inside, or was under way.
LEMMA CallBegins ==
  ASSUME ScopeType, CallType, Next, NEW c \in Call, call'[c] # call[c]
  PROVE  /\ AnyCallStep /\ run' = run
         /\ call[c] = "idle" => \/ In[c] = "none" /\ call'[c] = "returned"
                                \/ In[c] \in Run /\ Inside(In[c])
         /\ call[c] # "idle" => call[c] \in Midway
<1> USE BindsOps DEF CallType
<1>1. AnyCallStep
  BY KindsOfSteps, EngineFrame, CoordinatorFrame, ScopeFrame
<1>2. PICK d \in Call : CheckScope(d) \/ CallStep(d) \/ Serve(d) \/ Abandon(d)
  BY <1>1 DEF AnyCallStep
<1>3. run' = run
  BY <1>1, CallFrame
<1>4. c = d
  BY <1>2, OneCallMoves
<1>5. CASE CheckScope(c)
  <2>1. call[c] = "idle" /\ (In[c] = "none" \/ Inside(In[c]))
    BY <1>5 DEF CheckScope
  <2>2. In[c] = "none" => call'[c] = "returned"
    BY <1>5, SMTT(30) DEF CheckScope, FallsBack, Returns, Inside
  <2>3. In[c] = "none" \/ In[c] \in Run
    OBVIOUS
  <2> QED BY <1>1, <1>3, <2>1, <2>2, <2>3
<1>6. CASE ~CheckScope(c)
  <2>1. call[c] \in Midway
    BY <1>2, <1>4, <1>6 DEF CallStep, Serve, Abandon, CheckEngine, MemoGet, TrackOp, SubmitCall,
              CoordinatorGone, Finish, Waiting, Midway
  <2>2. call[c] # "idle"
    BY <2>1, SMTT(30) DEF Midway
  <2> QED BY <1>1, <1>3, <2>1, <2>2
<1> QED BY <1>5, <1>6

\* Calls stay inside the scope they were made in.
LEMMA CallsInScopeNext ==
  ASSUME ScopeType, CallType, CallsInScope, Next
  PROVE  CallsInScope'
<1> SUFFICES ASSUME NEW c \in Call
             PROVE  /\ call'[c] \in Midway => In[c] \in Run /\ run'[In[c]].at = "inside"
                    /\ call'[c] # "idle" /\ In[c] # "none" => run'[In[c]].at # "idle"
  BY DEF CallsInScope
<1> USE BindsOps
<1>1. CASE call'[c] # call[c]
  <2>1. CASE call[c] = "idle"
    BY <1>1, <2>1, CallBegins, SMTT(30) DEF Midway, Inside
  <2>2. CASE call[c] # "idle"
    BY <1>1, <2>2, CallBegins, SMTT(30) DEF CallsInScope, Midway
  <2> QED BY <2>1, <2>2
<1>2. CASE call'[c] = call[c]
  <2>1. CASE call[c] \in Midway
    <3>1. In[c] \in Run /\ run[In[c]].at = "inside" /\ call[c] \notin {"idle", "returned"}
      BY <2>1, SMTT(30) DEF CallsInScope, Midway
    <3>2. run[In[c]].at # "idle"
      BY <3>1, SMTT(30)
    <3>3. run'[In[c]].at = "inside"
      BY <3>1, <3>2, RunMoves
    <3> QED BY <3>1, <3>3, SMTT(30)
  <2>2. CASE call[c] \notin Midway
    BY <1>2, <2>2, RunMoves DEF CallsInScope
  <2> QED BY <2>1, <2>2
<1> QED BY <1>1, <1>2

-----------------------------------------------------------------------------
(* The memo tables. *)

\* Call c of scope s was told m about operation o.
Told(c, o, s, m) ==
  /\ In[c] # "none" /\ ScopeOf(c) = s /\ Asks[c] = [op |-> o, key |-> m.key]
  /\ call[c] = "returned" /\ answer[c] = m.kind

Tables ==
  \A o \in Op : \A s \in Run : \A t \in memo[o][s] :
    Table(t) /\ \A n \in DOMAIN t : \E c \in Call : Told(c, o, s, t[n])

MemoType == memo \in [Op -> [Run -> SUBSET Seq(MemoRecords)]]

\* What call c puts into the table when it is told its result.
PutBy(c) == [key |-> Asks[c].key, kind |-> answer[c]]

\* Memo tables change when a scope drops them, when a call looks into them and when
\* a call is told its result.
LEMMA MemoSteps ==
  ASSUME Next
  PROVE  \/ UNCHANGED memo
         \/ \E r \in Run : \E p \in run[r].left : DropMemo(r, p)
         \/ \E c \in Call : MemoGet(c) \/ Finish(c)
<1>1. ASSUME NEW r \in Run, NewScope(r) \/ ScopeCloseMarks(r) \/ ScopeCloseEnds(r)
      PROVE  UNCHANGED memo
  BY <1>1 DEF NewScope, ScopeCloseMarks, ScopeCloseEnds
<1>2. ASSUME NEW c \in Call, CheckScope(c) \/ CallStep(c) \/ Serve(c) \/ Abandon(c)
      PROVE  UNCHANGED memo \/ MemoGet(c) \/ Finish(c)
  BY <1>2 DEF CheckScope, CallStep, Serve, Abandon, CheckEngine, TrackOp, SubmitCall, CoordinatorGone
<1> QED BY <1>1, <1>2, KindsOfSteps, EngineFrame, CoordinatorFrame DEF ScopeStep, AnyCallStep, RunStep

\* A table is as it was, or new, or has had the result of a call put into it.
LEMMA MemoMoves ==
  ASSUME ScopeType, CallType, CallsInScope, Next, NEW o \in Op, NEW s \in Run, NEW t \in memo'[o][s]
  PROVE  \/ t \in memo[o][s] \/ t = <<>>
         \/ \E c \in Call : /\ Finish(c) /\ Asks[c].op = o /\ ScopeOf(c) = s
                            /\ \E u \in memo[o][s] \cup {<<>>} : t = Put(u, PutBy(c))
<1> USE BindsOps DEF CallType
<1>1. CASE UNCHANGED memo
  BY <1>1
<1>2. ASSUME NEW r \in Run, NEW p \in run[r].left, DropMemo(r, p)
      PROVE  t \in memo[o][s]
  <2>1. memo' = [memo EXCEPT ![p][run[r].scope] = {}]
    BY <1>2 DEF DropMemo
  <2>2. p \in Op
    BY DEF ScopeType, RunRecords
  <2> QED BY <2>1, <2>2
<1>3. ASSUME NEW c \in Call, MemoGet(c)
      PROVE  t \in memo[o][s] \/ t = <<>>
  <2> DEFINE p == Asks[c].op
             q == ScopeOf(c)
  <2>1. memo' = memo \/ memo' = [memo EXCEPT ![p][q] = {<<>>}]
    BY <1>3 DEF MemoGet
  <2> HIDE DEF q
  <2> QED BY <2>1, SMTT(30)
<1>4. ASSUME NEW c \in Call, Finish(c)
      PROVE  \/ t \in memo[o][s]
             \/ /\ Asks[c].op = o /\ ScopeOf(c) = s
                /\ \E u \in memo[o][s] \cup {<<>>} : t = Put(u, PutBy(c))
  <2> DEFINE p == Asks[c].op
             q == ScopeOf(c)
             m == PutBy(c)
             T == IF memo[p][q] = {} THEN {Put(<<>>, m)} ELSE {Put(u, m) : u \in memo[p][q]}
  <2>1. memo' = memo \/ memo' = [memo EXCEPT ![p][q] = T]
    BY <1>4 DEF Finish, PutBy
  <2>2. CASE o = p /\ s = q
    <3>1. t \in memo[o][s] \/ t \in T
      <4> HIDE DEF m, T
      <4> QED BY <2>1, <2>2, SMTT(30)
    <3>2. t \in T => \E u \in memo[o][s] \cup {<<>>} : t = Put(u, m)
      BY <2>2
    <3> QED BY <2>2, <3>1, <3>2
  <2>3. CASE ~(o = p /\ s = q)
    <3> HIDE DEF q, T
    <3> QED BY <2>1, <2>3, SMTT(30)
  <2> QED BY <2>2, <2>3
<1> QED BY <1>1, <1>2, <1>3, <1>4, MemoSteps

\* A memo record of a call.
LEMMA PutByType ==
  ASSUME CallType, NEW c \in Call
  PROVE  PutBy(c) \in MemoRecords
BY DEF CallType, PutBy, MemoRecords

\* A set of tables may be put anywhere.
LEMMA MemoSet ==
  ASSUME MemoType, NEW p \in Op, NEW q, NEW T \in SUBSET Seq(MemoRecords)
  PROVE  [memo EXCEPT ![p][q] = T] \in [Op -> [Run -> SUBSET Seq(MemoRecords)]]
<1>1. [memo[p] EXCEPT ![q] = T] \in [Run -> SUBSET Seq(MemoRecords)]
  BY DEF MemoType
<1> QED BY <1>1 DEF MemoType

\* The tables keep their type.
LEMMA MemoTypeNext ==
  ASSUME ScopeType, CallType, CallsInScope, Tables, Next
  PROVE  MemoType'
<1> USE BindsOps DEF CallType, MemoType
<1>1. CASE UNCHANGED memo
  BY <1>1
<1>2. ASSUME NEW r \in Run, NEW p \in run[r].left, DropMemo(r, p)
      PROVE  MemoType'
  <2>1. memo' = [memo EXCEPT ![p][run[r].scope] = {}]
    BY <1>2 DEF DropMemo
  <2> QED BY <2>1
<1>3. ASSUME NEW c \in Call, MemoGet(c)
      PROVE  MemoType'
  <2> DEFINE p == Asks[c].op
             q == ScopeOf(c)
  <2>1. memo' = memo \/ memo' = [memo EXCEPT ![p][q] = {<<>>}]
    BY <1>3 DEF MemoGet
  <2>2. {<<>>} \in SUBSET Seq(MemoRecords)
    BY SMTT(30)
  <2> HIDE DEF q
  <2> QED BY <2>1, <2>2, MemoSet, SMTT(30)
<1>4. ASSUME NEW c \in Call, Finish(c)
      PROVE  MemoType'
  <2> DEFINE p == Asks[c].op
             q == ScopeOf(c)
             m == PutBy(c)
             T == IF memo[p][q] = {} THEN {Put(<<>>, m)} ELSE {Put(u, m) : u \in memo[p][q]}
  <2>1. memo' = memo \/ memo' = [memo EXCEPT ![p][q] = T]
    BY <1>4 DEF Finish, PutBy
  <2>2. q \in Run
    <3>1. call[c] = "waiting"
      BY <1>4 DEF Finish
    <3> QED BY <3>1 DEF CallsInScope, ScopeType, ScopeOf, Midway
  <2>3. T \in SUBSET Seq(MemoRecords)
    <3>1. \A u \in memo[p][q] \cup {<<>>} : Table(u)
      <4>1. Table(<<>>)
        BY LifecycleAssumption, SMTT(30) DEF Table
      <4> QED BY <2>2, <4>1 DEF Tables
    <3>2. \A u \in memo[p][q] \cup {<<>>} : Put(u, m) \in Seq(MemoRecords)
      BY <3>1, PutTable, PutByType DEF Table
    <3> QED BY <3>2, SMTT(30)
  <2> HIDE DEF q, T
  <2> QED BY <2>1, <2>3, MemoSet, SMTT(30)
<1> QED BY <1>1, <1>2, <1>3, <1>4, MemoSteps

\* The tables stay sound: put keeps a table, and the call whose result it puts has
\* been told it.
LEMMA TablesNext ==
  ASSUME EngineType, ScopeType, CallType, CallsInScope, Tables, Next
  PROVE  Tables'
<1> SUFFICES ASSUME NEW o \in Op, NEW s \in Run, NEW t \in memo'[o][s]
             PROVE  Table(t) /\ \A n \in DOMAIN t : \E c \in Call : Told(c, o, s, t[n])'
  BY DEF Tables
<1> USE BindsOps
<1>1. ASSUME NEW c \in Call, NEW m, Told(c, o, s, m)
      PROVE  Told(c, o, s, m)'
  <2>1. In[c] \in Run /\ call[c] = "returned" /\ run[In[c]].at # "idle"
    BY <1>1, SMTT(30) DEF Told, CallsInScope
  <2>2. run'[In[c]].scope = run[In[c]].scope
    BY <2>1, RunMoves
  <2>3. call'[c] = "returned" /\ answer'[c] = answer[c]
    BY <2>1, CallMoves
  <2> QED BY <1>1, <2>2, <2>3 DEF Told, ScopeOf
<1>2. CASE t \in memo[o][s]
  BY <1>1, <1>2 DEF Tables
<1>3. CASE t = <<>>
  BY <1>3, LifecycleAssumption, SMTT(30) DEF Table
<1>4. ASSUME NEW c \in Call, Finish(c), Asks[c].op = o, ScopeOf(c) = s,
             NEW u \in memo[o][s] \cup {<<>>}, t = Put(u, PutBy(c))
      PROVE  Table(t) /\ \A n \in DOMAIN t : \E d \in Call : Told(d, o, s, t[n])'
  <2>1. Table(u) /\ \A n \in DOMAIN u : \E d \in Call : Told(d, o, s, u[n])
    <3>1. Table(<<>>) /\ DOMAIN <<>> = {}
      BY LifecycleAssumption, SMTT(30) DEF Table
    <3> QED BY <3>1 DEF Tables
  <2>2. Told(c, o, s, PutBy(c))'
    <3>1. call[c] = "waiting" /\ Returns(c, answer[c]) /\ run' = run
      BY <1>4 DEF Finish, scopeVars
    <3>2. call'[c] = "returned" /\ answer'[c] = answer[c]
      BY <3>1 DEF Returns, CallType
    <3>3. In[c] # "none"
      BY <3>1 DEF CallsInScope, Midway
    <3>4. Asks[c] = [op |-> o, key |-> Asks[c].key]
      BY <1>4, LifecycleAssumption
    <3> QED BY <1>4, <3>1, <3>2, <3>3, <3>4 DEF Told, PutBy, ScopeOf
  <2>3. PutBy(c)' = PutBy(c)
    <3>1. answer'[c] = answer[c]
      BY <1>4 DEF Finish, Returns, CallType
    <3> QED BY <3>1 DEF PutBy
  <2>4. Table(t) /\ \A n \in DOMAIN t : t[n] = PutBy(c) \/ \E i \in DOMAIN u : t[n] = u[i]
    BY <1>4, <2>1, PutTable, PutByType, SMTT(30)
  <2> QED BY <1>1, <2>1, <2>2, <2>3, <2>4
<1> QED BY <1>2, <1>3, <1>4, MemoMoves, SMTT(30)

-----------------------------------------------------------------------------
(* Binding and closing. *)

Holding == {"registered", "bound"}

\* An operation is registered by one call of Bind, which then starts its coordinator.
BindsSound ==
  /\ \A b \in Binder : bind[b] \in Holding => BindOp[b] \in registered
  /\ \A b \in Binder : bind[b] = "registered" => coord[BindOp[b]] = "none"
  /\ \A b, d \in Binder : bind[b] \in Holding /\ bind[d] \in Holding /\ BindOp[b] = BindOp[d] => b = d
  /\ \A o \in Op : coord[o] # "none" => o \in registered

Started == {"marked", "closing", "sentClose", "waiting", "waited", "returned"}
Listed == {"closing", "sentClose", "waiting", "waited", "returned"}
Through == {"waiting", "waited", "returned"}

\* While a Close runs nothing can be registered any more; what it has been through
\* without an error has stopped.
ClosersSound ==
  \A k \in Closer :
    /\ closer[k].at \in Started => engine # "open"
    /\ closer[k].at \in Listed /\ ~closer[k].err =>
         \A o \in registered \ closer[k].left : coord[o] = "stopped"
    /\ closer[k].at \in Through => closer[k].left = {}

\* A coordinator that has stopped leaves nobody waiting.
StoppedQuiet == \A o \in Op : coord[o] = "stopped" => Waiting(o) = {}

\* The steps of Bind and of coordinators move forward; the other steps leave the
\* registrations, the coordinators and the engine alone.
LEMMA BindMoves ==
  ASSUME EngineType, BindsSound, Next
  PROVE  /\ BindsSound'
         /\ \A o \in Op : coord[o] = "stopped" => coord'[o] = "stopped"
         /\ registered' # registered => engine = "open" /\ engine' = "open"
         /\ engine # "open" => engine' # "open"
<1> USE BindsOps DEF EngineType, Holding
<1>1. ASSUME NEW b \in Binder, EnsureOpen(b)
      PROVE  /\ BindsSound' /\ UNCHANGED <<coord, registered, engine>>
  <2>1. UNCHANGED <<coord, registered, engine>> /\ bind[b] = "idle"
        /\ \A d \in Binder : bind'[d] = bind[d] \/ bind'[d] \in {"checked", "failed"}
    BY <1>1, SMTT(30) DEF EnsureOpen
  <2> QED BY <2>1, SMTT(30) DEF BindsSound
<1>2. ASSUME NEW b \in Binder, RegisterController(b)
      PROVE  /\ BindsSound' /\ UNCHANGED <<coord, engine>>
             /\ registered' # registered => engine = "open"
  <2>1. CASE CanRegister(BindOp[b])
    <3>1. /\ bind' = [bind EXCEPT ![b] = "registered"] /\ registered' = registered \cup {BindOp[b]}
          /\ coord' = coord /\ engine' = engine /\ engine = "open" /\ BindOp[b] \notin registered
      BY <1>2, <2>1 DEF RegisterController, CanRegister
    <3> QED BY <3>1, SMTT(30) DEF BindsSound
  <2>2. CASE ~CanRegister(BindOp[b])
    <3>1. /\ bind' = [bind EXCEPT ![b] = "failed"] /\ UNCHANGED <<coord, engine, registered>>
      BY <1>2, <2>2 DEF RegisterController
    <3> QED BY <3>1, SMTT(30) DEF BindsSound
  <2> QED BY <2>1, <2>2
<1>3. ASSUME NEW b \in Binder, StartCoordinator(b)
      PROVE  /\ BindsSound' /\ UNCHANGED <<registered, engine>>
             /\ \A o \in Op : coord[o] = "stopped" => coord'[o] = "stopped"
  <2>1. /\ bind' = [bind EXCEPT ![b] = "bound"] /\ coord' = [coord EXCEPT ![BindOp[b]] = "open"]
        /\ UNCHANGED <<registered, engine>> /\ bind[b] = "registered"
    BY <1>3 DEF StartCoordinator
  <2> QED BY <2>1, SMTT(30) DEF BindsSound
<1>4. ASSUME UNCHANGED <<bind, registered>>, NEW o,
             coord' = coord \/ coord' = [coord EXCEPT ![o] = "closing"] \/ coord' = [coord EXCEPT ![o] = "stopped"],
             o \in Op => coord[o] \in {"open", "closing"}
      PROVE  /\ BindsSound'
             /\ \A p \in Op : coord[p] = "stopped" => coord'[p] = "stopped"
  <2>1. \A p \in Op :
          \/ coord'[p] = coord[p]
          \/ coord[p] \in {"open", "closing"} /\ coord'[p] \in {"closing", "stopped"}
    <3>1. CASE o \in Op
      BY <1>4, <3>1
    <3>2. CASE o \notin Op
      BY <1>4, <3>2
    <3> QED BY <3>1, <3>2
  <2>2. \A p \in Op : (coord[p] = "none") <=> (coord'[p] = "none")
    BY <2>1, SMTT(30)
  <2>3. BindsSound'
    BY <1>4, <2>2, SMTT(30) DEF BindsSound
  <2> QED BY <2>1, <2>3, SMTT(30)
<1>5. ASSUME NEW k \in Closer, SendClose(k)
      PROVE  /\ UNCHANGED <<bind, registered, engine>>
             /\ \E o : /\ coord' = [coord EXCEPT ![o] = "closing"]
                       /\ coord[o] \in {"open", "closing"}
  BY <1>5 DEF SendClose
<1>6. ASSUME NEW k \in Closer, CloseMarks(k) \/ CloserExpires(k) \/ CloseSnapshot(k) \/ CloseReturnsOne(k)
                               \/ CloseCancels(k) \/ CloseWaits(k) \/ CloseEnds(k)
      PROVE  /\ UNCHANGED <<bind, registered, coord>>
             /\ engine # "open" => engine' # "open"
  <2>1. UNCHANGED <<bind, registered, coord>>
    BY <1>6 DEF CloseMarks, CloserExpires, CloseSnapshot, CloseReturnsOne, CloseCancels, CloseWaits, CloseEnds
  <2>2. engine' = engine \/ engine' \in {"closing", "closed"}
    BY <1>6 DEF CloseMarks, CloserExpires, CloseSnapshot, CloseReturnsOne, CloseCancels, CloseWaits, CloseEnds
  <2>3. engine # "open" => engine' # "open"
    BY <2>2, SMTT(30)
  <2> QED BY <2>1, <2>3
<1>7. ASSUME NEW o \in Op, CoordinatorStep(o)
      PROVE  /\ UNCHANGED <<bind, registered, engine>>
             /\ coord' = [coord EXCEPT ![o] = "closing"] \/ coord' = [coord EXCEPT ![o] = "stopped"]
             /\ coord[o] \in {"open", "closing"}
  BY <1>7 DEF CoordinatorStep, HandleEngineCancel, Stop, engineVars
<1>9. CASE EngineStep
  <2>1. CASE \E b \in Binder : BindStep(b)
    BY <1>1, <1>2, <1>3, <2>1 DEF BindStep
  <2>2. CASE \E k \in Closer : SendClose(k)
    BY <1>4, <1>5, <2>2
  <2>3. CASE \E k \in Closer : CloseMarks(k) \/ CloserExpires(k) \/ CloseSnapshot(k) \/ CloseReturnsOne(k)
                               \/ CloseCancels(k) \/ CloseWaits(k) \/ CloseEnds(k)
    <3>1. UNCHANGED <<bind, registered, coord>> /\ (engine # "open" => engine' # "open")
      BY <1>6, <2>3
    <3> QED BY <3>1 DEF BindsSound
  <2> QED BY <1>9, <2>1, <2>2, <2>3 DEF EngineStep, CloseStep
<1>10. CASE \E o \in Op : CoordinatorStep(o)
  BY <1>4, <1>7, <1>10
<1>11. CASE ScopeStep \/ AnyCallStep
  <2>1. UNCHANGED <<bind, registered, coord, engine>>
    BY <1>11, ScopeFrame, CallFrame
  <2> QED BY <2>1 DEF BindsSound
<1> QED BY <1>9, <1>10, <1>11, KindsOfSteps

\* A call of Close goes through its steps in order, and takes an operation off its
\* list without an error only when the coordinator has stopped.
LEMMA CloserMoves ==
  ASSUME EngineType, Next, NEW k \in Closer
  PROVE  \/ /\ closer'[k].at = closer[k].at /\ closer'[k].left = closer[k].left
            /\ closer'[k].err = closer[k].err
         \/ closer'[k].at = "foundClosed"
         \/ closer'[k].at = "marked" /\ engine' # "open"
         \/ /\ closer[k].at = "marked" /\ closer'[k].at = "closing"
            /\ closer'[k].left = registered /\ UNCHANGED <<registered, engine>>
         \/ /\ closer[k].at = "closing" /\ closer'[k].at = "sentClose"
            /\ closer'[k].left = closer[k].left /\ closer'[k].err = closer[k].err
         \/ /\ closer[k].at \in {"closing", "sentClose"} /\ closer'[k].at = "closing"
            /\ closer[k].err => closer'[k].err
            /\ \E o : /\ closer'[k].left = closer[k].left \ {o}
                      /\ ~closer'[k].err => coord[o] = "stopped"
         \/ /\ closer[k].at = "closing" /\ closer'[k].at = "waiting" /\ closer[k].left = {}
            /\ closer'[k].left = closer[k].left /\ closer'[k].err = closer[k].err
         \/ /\ closer[k].at \in {"waiting", "waited"} /\ closer'[k].at \in {"waited", "returned"}
            /\ closer'[k].left = closer[k].left /\ (closer[k].err => closer'[k].err)
<1> USE DEF EngineType
<1> DEFINE Same == /\ closer'[k].at = closer[k].at /\ closer'[k].left = closer[k].left
                   /\ closer'[k].err = closer[k].err
<1>1. CASE closer' = closer
  BY <1>1
<1>2. ASSUME NEW d \in Closer, CloseMarks(d) \/ CloseStep(d) \/ CloserExpires(d), d # k
      PROVE  closer'[k] = closer[k]
  <2>1. CASE CloseMarks(d) \/ CloserExpires(d)
    BY <1>2, <2>1 DEF CloseMarks, CloserExpires, CloserAt
  <2>2. CASE CloseStep(d)
    BY <1>2, <2>2 DEF CloseStep, CloseSnapshot, SendClose, CloseReturnsOne,
                CloseCancels, CloseWaits, CloseEnds, CloserAt
  <2> QED BY <1>2, <2>1, <2>2
<1>3. CASE CloseMarks(k)
  <2>1. /\ closer'[k].at = IF engine = "closed" THEN "foundClosed" ELSE "marked"
        /\ engine' = IF engine = "open" THEN "closing" ELSE engine
    BY <1>3 DEF CloseMarks, CloserAt, CloserRecords
  <2>2. closer'[k].at = "foundClosed" \/ closer'[k].at = "marked"
    BY <2>1
  <2>3. engine' # "open"
    BY <2>1, SMTT(30)
  <2> QED BY <2>2, <2>3
<1>4. CASE CloserExpires(k)
  <2>1. Same
    BY <1>4 DEF CloserExpires, CloserRecords
  <2> QED BY <2>1
<1>5. CASE CloseSnapshot(k)
  <2>1. /\ closer[k].at = "marked" /\ closer'[k].at = "closing" /\ closer'[k].left = registered
        /\ UNCHANGED <<registered, engine>>
    BY <1>5 DEF CloseSnapshot, CloserRecords
  <2> QED BY <2>1
<1>6. CASE SendClose(k)
  <2>1. /\ closer[k].at = "closing" /\ closer'[k].at = "sentClose"
        /\ closer'[k].left = closer[k].left /\ closer'[k].err = closer[k].err
    BY <1>6 DEF SendClose, CloserAt, CloserRecords
  <2> QED BY <2>1
<1>7. CASE CloseReturnsOne(k)
  <2> DEFINE o == Min(closer[k].left)
  <2>1. PICK err \in BOOLEAN :
          /\ ~err => coord[o] = "stopped"
          /\ closer' = [closer EXCEPT ![k] = [closer[k] EXCEPT !.at = "closing",
                                                            !.left = closer[k].left \ {o},
                                                            !.err = closer[k].err \/ err]]
    BY <1>7 DEF CloseReturnsOne
  <2>2. closer[k].at \in {"closing", "sentClose"}
    BY <1>7 DEF CloseReturnsOne
  <2> HIDE DEF o
  <2>3. /\ closer'[k].at = "closing" /\ closer'[k].left = closer[k].left \ {o}
        /\ closer'[k].err = (closer[k].err \/ err)
    BY <2>1 DEF CloserRecords
  <2>4. (closer[k].err => closer'[k].err) /\ (~closer'[k].err => coord[o] = "stopped")
    BY <2>1, <2>3
  <2> QED BY <2>2, <2>3, <2>4
<1>8. CASE CloseCancels(k)
  <2>1. /\ closer[k].at = "closing" /\ closer'[k].at = "waiting" /\ closer[k].left = {}
        /\ closer'[k].left = closer[k].left /\ closer'[k].err = closer[k].err
    BY <1>8 DEF CloseCancels, CloserAt, CloserRecords
  <2> QED BY <2>1
<1>9. CASE CloseWaits(k) \/ CloseEnds(k)
  <2>1. CASE closer[k].at = "waiting" /\ closer' = [closer EXCEPT ![k].at = "waited"]
    BY <2>1 DEF CloserRecords
  <2>2. CASE closer[k].at = "waiting" /\ closer' = [closer EXCEPT ![k].at = "waited", ![k].err = TRUE]
    BY <2>2 DEF CloserRecords
  <2>3. CASE closer[k].at = "waited" /\ closer' = [closer EXCEPT ![k].at = "returned"]
    BY <2>3 DEF CloserRecords
  <2> QED BY <1>9, <2>1, <2>2, <2>3 DEF CloseWaits, CloseEnds, CloserAt
<1>10. \/ closer' = closer
       \/ \E d \in Closer : CloseMarks(d) \/ CloseStep(d) \/ CloserExpires(d)
  <2>1. ASSUME NEW b \in Binder, BindStep(b)
        PROVE  closer' = closer
    BY <2>1 DEF BindStep, EnsureOpen, RegisterController, StartCoordinator
  <2> QED BY <2>1, KindsOfSteps, CoordinatorFrame, ScopeFrame, CallFrame DEF EngineStep
<1>11. CASE CloseStep(k)
  BY <1>5, <1>6, <1>7, <1>8, <1>9, <1>11 DEF CloseStep
<1> QED BY <1>1, <1>2, <1>3, <1>4, <1>10, <1>11

\* What a Close has been through stays stopped, and nothing is added to it.
LEMMA ClosersNext ==
  ASSUME EngineType, BindsSound, ClosersSound, Next
  PROVE  ClosersSound'
<1> SUFFICES ASSUME NEW k \in Closer
             PROVE  /\ closer'[k].at \in Started => engine' # "open"
                    /\ closer'[k].at \in Listed /\ ~closer'[k].err =>
                         \A o \in registered' \ closer'[k].left : coord'[o] = "stopped"
                    /\ closer'[k].at \in Through => closer'[k].left = {}
  BY DEF ClosersSound
<1>1. /\ \A o \in Op : coord[o] = "stopped" => coord'[o] = "stopped"
      /\ engine # "open" => engine' # "open" /\ registered' = registered
  BY BindMoves
<1>2. registered \subseteq Op
  BY DEF EngineType
<1>3. /\ closer[k].at \in Started => engine # "open"
      /\ closer[k].at \in Listed /\ ~closer[k].err =>
           \A o \in registered \ closer[k].left : coord[o] = "stopped"
      /\ closer[k].at \in Through => closer[k].left = {}
  BY DEF ClosersSound
<1>4. Listed \subseteq Started /\ Through \subseteq Listed /\ "marked" \in Started
      /\ {"closing", "sentClose"} \subseteq Listed /\ {"waiting", "waited", "returned"} = Through
  BY DEF Listed, Started, Through
<1>5. ASSUME closer'[k].at = closer[k].at, closer'[k].left = closer[k].left,
             closer'[k].err = closer[k].err
      PROVE  /\ closer'[k].at \in Started => engine' # "open"
             /\ closer'[k].at \in Listed /\ ~closer'[k].err =>
                  \A o \in registered' \ closer'[k].left : coord'[o] = "stopped"
             /\ closer'[k].at \in Through => closer'[k].left = {}
  BY <1>1, <1>2, <1>3, <1>4, <1>5
<1>6. ASSUME closer'[k].at = "foundClosed"
      PROVE  closer'[k].at \notin Started /\ closer'[k].at \notin Listed /\ closer'[k].at \notin Through
  BY <1>6 DEF Started, Listed, Through
<1>7. ASSUME closer'[k].at = "marked"
      PROVE  closer'[k].at \notin Listed /\ closer'[k].at \notin Through
  BY <1>7 DEF Listed, Through
<1>8. ASSUME closer'[k].at = "closing" \/ closer'[k].at = "sentClose"
      PROVE  closer'[k].at \notin Through
  BY <1>8 DEF Through
<1>9. CASE closer[k].at = "marked" /\ closer'[k].at = "closing"
           /\ closer'[k].left = registered /\ UNCHANGED <<registered, engine>>
  BY <1>1, <1>3, <1>4, <1>8, <1>9
<1>10. CASE closer[k].at = "closing" /\ closer'[k].at = "sentClose"
            /\ closer'[k].left = closer[k].left /\ closer'[k].err = closer[k].err
  BY <1>1, <1>2, <1>3, <1>4, <1>8, <1>10
<1>11. ASSUME closer[k].at \in {"closing", "sentClose"}, closer'[k].at = "closing",
              closer[k].err => closer'[k].err, NEW o, closer'[k].left = closer[k].left \ {o},
              ~closer'[k].err => coord[o] = "stopped"
       PROVE  /\ closer'[k].at \in Started => engine' # "open"
              /\ closer'[k].at \in Listed /\ ~closer'[k].err =>
                   \A p \in registered' \ closer'[k].left : coord'[p] = "stopped"
              /\ closer'[k].at \in Through => closer'[k].left = {}
  <2>1. engine' # "open" /\ registered' = registered /\ closer[k].at \in Listed
    BY <1>1, <1>3, <1>4, <1>11
  <2>2. ASSUME ~closer'[k].err, NEW p \in registered' \ closer'[k].left
        PROVE  coord'[p] = "stopped"
    <3>1. coord[p] = "stopped"
      BY <1>3, <1>11, <2>1, <2>2
    <3> QED BY <1>1, <1>2, <2>1, <2>2, <3>1
  <2> QED BY <1>8, <1>11, <2>1, <2>2
<1>12. CASE closer[k].at = "closing" /\ closer'[k].at = "waiting" /\ closer[k].left = {}
            /\ closer'[k].left = closer[k].left /\ closer'[k].err = closer[k].err
  BY <1>1, <1>2, <1>3, <1>4, <1>12
<1>13. CASE closer[k].at \in {"waiting", "waited"} /\ closer'[k].at \in {"waited", "returned"}
            /\ closer'[k].left = closer[k].left /\ (closer[k].err => closer'[k].err)
  <2>1. closer[k].at \in Through
    BY <1>4, <1>13
  <2> QED BY <1>1, <1>2, <1>3, <1>4, <1>13, <2>1
<1> QED BY <1>5, <1>6, <1>7, <1>9, <1>10, <1>11, <1>12, <1>13, CloserMoves

\* A coordinator stops by Stop only.
LEMMA CoordStops ==
  ASSUME EngineType, Next, NEW o \in Op, coord'[o] = "stopped"
  PROVE  coord[o] = "stopped" \/ Stop(o)
<1> USE BindsOps DEF EngineType
<1>1. CASE coord' = coord
  BY <1>1
<1>2. ASSUME NEW p, coord' = [coord EXCEPT ![p] = "open"] \/ coord' = [coord EXCEPT ![p] = "closing"]
      PROVE  coord[o] = "stopped"
  BY <1>2, SMTT(30)
<1>3. ASSUME NEW p \in Op, Stop(p)
      PROVE  coord[o] = "stopped" \/ Stop(o)
  <2>1. CASE p = o
    BY <1>3, <2>1
  <2>2. CASE p # o
    BY <1>3, <2>2 DEF Stop
  <2> QED BY <2>1, <2>2
<1>4. ASSUME EngineStep
      PROVE  coord' = coord \/ \E p : \/ coord' = [coord EXCEPT ![p] = "open"]
                                      \/ coord' = [coord EXCEPT ![p] = "closing"]
  <2>1. ASSUME NEW b \in Binder, BindStep(b)
        PROVE  coord' = coord \/ \E p : coord' = [coord EXCEPT ![p] = "open"]
    BY <2>1 DEF BindStep, EnsureOpen, RegisterController, StartCoordinator
  <2>2. ASSUME NEW k \in Closer, CloseMarks(k) \/ CloseStep(k) \/ CloserExpires(k)
        PROVE  coord' = coord \/ \E p : coord' = [coord EXCEPT ![p] = "closing"]
    BY <2>2 DEF CloseMarks, CloseStep, CloserExpires, CloseSnapshot, SendClose, CloseReturnsOne,
                CloseCancels, CloseWaits, CloseEnds
  <2> QED BY <1>4, <2>1, <2>2 DEF EngineStep
<1>5. ASSUME ScopeStep \/ AnyCallStep
      PROVE  coord' = coord
  BY <1>5, ScopeFrame, CallFrame
<1>6. ASSUME NEW p \in Op, HandleEngineCancel(p)
      PROVE  coord' = [coord EXCEPT ![p] = "closing"]
  BY <1>6 DEF HandleEngineCancel
<1> QED BY <1>1, <1>2, <1>3, <1>4, <1>5, <1>6, KindsOfSteps DEF CoordinatorStep

\* A call begins to wait for a coordinator that is open.
LEMMA WaitsBegin ==
  ASSUME CallType, Next, NEW c \in Call, c \in Waiting(Asks[c].op)', c \notin Waiting(Asks[c].op)
  PROVE  coord[Asks[c].op] = "open"
<1> DEFINE o == Asks[c].op
<1> USE BindsOps DEF CallType
<1>1. call'[c] = "waiting" /\ answer'[c] = "none" /\ ~(call[c] = "waiting" /\ answer[c] = "none")
  BY DEF Waiting
<1>2. ASSUME NEW p \in Op, CoordinatorStep(p)
      PROVE  FALSE
  <2>1. CASE HandleEngineCancel(p)
    <3>1. call' = call /\ answer' = [d \in Call |-> IF d \in Waiting(p) THEN "closed" ELSE answer[d]]
      BY <2>1 DEF HandleEngineCancel
    <3>2. answer'[c] = "closed" \/ answer'[c] = answer[c]
      BY <3>1
    <3> QED BY <1>1, <3>1, <3>2, SMTT(30)
  <2>2. CASE Stop(p)
    BY <1>1, <2>2 DEF Stop, callVars
  <2> QED BY <1>2, <2>1, <2>2 DEF CoordinatorStep
<1>3. ASSUME EngineStep \/ ScopeStep
      PROVE  FALSE
  BY <1>1, <1>3, EngineFrame, ScopeFrame
<1>4. ASSUME NEW d \in Call, CheckScope(d) \/ CallStep(d) \/ Serve(d) \/ Abandon(d)
      PROVE  coord[o] = "open"
  <2>1. ASSUME NEW a, Returns(d, a)
        PROVE  FALSE
    BY <1>1, <2>1, SMTT(30) DEF Returns
  <2>2. ASSUME NEW at, Goes(d, at), at # "waiting"
        PROVE  FALSE
    BY <1>1, <2>2, SMTT(30) DEF Goes
  <2>3. CASE Serve(d)
    <3>1. call' = call /\ \E k \in {"found", "missing", "failed"} : answer' = [answer EXCEPT ![d] = k]
      BY <2>3 DEF Serve
    <3>2. answer'[c] = answer[c] \/ answer'[c] # "none"
      BY <3>1, SMTT(30)
    <3> QED BY <1>1, <3>1, <3>2
  <2>4. CASE SubmitCall(d)
    <3>1. \/ coord[Asks[d].op] = "open" /\ Goes(d, "waiting")
          \/ \E a : Returns(d, a)
      BY <2>4 DEF SubmitCall
    <3>2. Goes(d, "waiting") => d = c
      BY <1>1, SMTT(30) DEF Goes
    <3> QED BY <2>1, <3>1, <3>2
  <2>5. CASE CheckScope(d) \/ CheckEngine(d) \/ MemoGet(d) \/ TrackOp(d) \/ CoordinatorGone(d)
             \/ Finish(d) \/ Abandon(d)
    <3>1. (\E a : Returns(d, a))
          \/ Goes(d, "inScope") \/ Goes(d, "accepted") \/ Goes(d, "missed") \/ Goes(d, "tracked")
      BY <2>5 DEF CheckScope, CheckEngine, MemoGet, TrackOp, CoordinatorGone, Finish, Abandon, FallsBack
    <3> QED BY <2>1, <2>2, <3>1
  <2> QED BY <1>4, <2>3, <2>4, <2>5 DEF CallStep
<1> QED BY <1>2, <1>3, <1>4, KindsOfSteps DEF AnyCallStep

\* Nobody begins to wait for a coordinator that has stopped.
LEMMA QuietNext ==
  ASSUME EngineType, CallType, StoppedQuiet, Next
  PROVE  StoppedQuiet'
<1> SUFFICES ASSUME NEW o \in Op, coord'[o] = "stopped", NEW c \in Call, Asks[c].op = o,
                    c \in Waiting(o)'
             PROVE  FALSE
  BY DEF StoppedQuiet, Waiting
<1>1. CASE coord[o] = "stopped"
  <2>1. c \notin Waiting(o)
    BY <1>1 DEF StoppedQuiet
  <2>2. coord[o] = "open"
    BY <2>1, WaitsBegin
  <2> QED BY <1>1, <2>2, SMTT(30)
<1>2. CASE Stop(o)
  <2>1. Waiting(o) = {} /\ UNCHANGED callVars
    BY <1>2 DEF Stop
  <2> QED BY <2>1 DEF Waiting, callVars
<1> QED BY <1>1, <1>2, CoordStops

-----------------------------------------------------------------------------
(* The invariant and what follows from it. *)

LifeInv ==
  LifeTypeOK /\ CallsInScope /\ Tables /\ BindsSound /\ ClosersSound /\ StoppedQuiet

\* It holds before anything was bound, opened or called.
LEMMA LifeInvInit == Init => LifeInv
<1> SUFFICES ASSUME Init PROVE LifeInv
  OBVIOUS
<1> USE BindsOps DEF Init
<1>1. LifeTypeOK
  BY TypeInit
<1>2. CallsInScope
  BY SMTT(30) DEF CallsInScope, Midway
<1>3. Tables
  BY DEF Tables
<1>4. BindsSound
  BY SMTT(30) DEF BindsSound, Holding
<1>5. ClosersSound
  <2>1. \A k \in Closer : closer[k].at = "idle"
    OBVIOUS
  <2>2. "idle" \notin Started /\ "idle" \notin Listed /\ "idle" \notin Through
    BY DEF Started, Listed, Through
  <2> QED BY <2>1, <2>2 DEF ClosersSound
<1>6. StoppedQuiet
  BY SMTT(30) DEF StoppedQuiet
<1> QED BY <1>1, <1>2, <1>3, <1>4, <1>5, <1>6 DEF LifeInv

\* Every step keeps it.
LEMMA LifeInvNext == LifeInv /\ [Next]_vars => LifeInv'
<1> SUFFICES ASSUME LifeInv, [Next]_vars PROVE LifeInv'
  OBVIOUS
<1>1. CASE Next
  <2>1. EngineType' /\ ScopeType'
    BY <1>1, EngineTypeNext, ScopeTypeNext DEF LifeInv, LifeTypeOK
  <2>2. CallType'
    BY <1>1, CallMoves, MemoTypeNext DEF LifeInv, LifeTypeOK, CallType, CallsType, MemoType
  <2>3. CallsInScope' /\ Tables'
    BY <1>1, CallsInScopeNext, TablesNext DEF LifeInv, LifeTypeOK
  <2>4. BindsSound' /\ ClosersSound' /\ StoppedQuiet'
    BY <1>1, BindMoves, ClosersNext, QuietNext DEF LifeInv, LifeTypeOK
  <2> QED BY <2>1, <2>2, <2>3, <2>4 DEF LifeInv, LifeTypeOK
<1>2. CASE UNCHANGED vars
  <2> USE <1>2 DEF vars, engineVars, scopeVars, callVars
  <2>1. LifeTypeOK' = LifeTypeOK
    BY DEF LifeTypeOK, EngineType, ScopeType, CallType
  <2>2. CallsInScope' = CallsInScope /\ Tables' = Tables
    BY SMTT(30) DEF CallsInScope, Tables, Told, ScopeOf
  <2>3. BindsSound' = BindsSound /\ ClosersSound' = ClosersSound /\ StoppedQuiet' = StoppedQuiet
    BY DEF BindsSound, ClosersSound, StoppedQuiet, Waiting
  <2> QED BY <2>1, <2>2, <2>3 DEF LifeInv
<1> QED BY <1>1, <1>2

\* The invariant of the engine's life, for any operations, binders, closers, scopes
\* and calls (src/runtime).
THEOREM LifeInvariant == Spec => []LifeInv
<1> QED BY LifeInvInit, LifeInvNext, PTL DEF Spec

\* A Close that returned without an error leaves nothing behind, whatever was being
\* bound, called or closed while it ran (Engine.Close, registerController).
THEOREM CloseIsClean == Spec => []CloseLeavesNothing
<1>1. LifeInv => CloseLeavesNothing
  <2> SUFFICES ASSUME LifeInv, NEW k \in Closer, closer[k].at = "returned", ~closer[k].err,
                      NEW o \in registered
               PROVE  coord[o] = "stopped" /\ Waiting(o) = {}
    BY DEF CloseLeavesNothing
  <2>1. "returned" \in Listed /\ "returned" \in Through
    BY DEF Listed, Through
  <2>2. coord[o] = "stopped"
    BY <2>1 DEF LifeInv, ClosersSound
  <2>3. o \in Op
    BY DEF LifeInv, LifeTypeOK, EngineType
  <2> QED BY <2>2, <2>3 DEF LifeInv, StoppedQuiet
<1> QED BY <1>1, LifeInvariant, PTL

\* A memo table holds an identity once, within its limit, and only what calls of its
\* scope were told (memoTable.get, put, evictOldest).
THEOREM MemoTables == Spec => []MemoSound
<1>1. LifeInv => MemoSound
  BY DEF LifeInv, Tables, Table, Told, MemoSound
<1> QED BY <1>1, LifeInvariant, PTL

\* A call answered from the memo table repeats what an earlier call of its scope was
\* told (Do, finishMemo).
THEOREM HitsAreRepeats == Spec => HitsRepeat
<1> DEFINE Repeats(c) ==
      call[c] = "accepted" /\ call'[c] = "returned" /\ answer'[c] # "broken" =>
        \E d \in Call \ {c} :
          /\ call[d] = "returned" /\ answer[d] = answer'[c]
          /\ In[d] # "none" /\ ScopeOf(d) = ScopeOf(c) /\ Asks[d] = Asks[c]
<1>1. LifeInv /\ [Next]_vars => [\A c \in Call : Repeats(c)]_vars
  <2> SUFFICES ASSUME LifeInv, Next, NEW c \in Call, call[c] = "accepted", call'[c] = "returned",
                      answer'[c] # "broken"
               PROVE  \E d \in Call \ {c} :
                        /\ call[d] = "returned" /\ answer[d] = answer'[c]
                        /\ In[d] # "none" /\ ScopeOf(d) = ScopeOf(c) /\ Asks[d] = Asks[c]
    OBVIOUS
  <2> USE DEF LifeInv, LifeTypeOK
  <2> USE BindsOps
  <2>1. MemoGet(c)
    <3>0. call'[c] # call[c] /\ call \in [Call -> Stages]
      BY SMTT(30) DEF CallType
    <3>1. AnyCallStep
      BY <3>0, CallBegins
    <3>2. PICK d \in Call : CheckScope(d) \/ CallStep(d) \/ Serve(d) \/ Abandon(d)
      BY <3>1 DEF AnyCallStep
    <3>3. d = c
      BY <3>0, <3>2, OneCallMoves
    <3> QED BY <3>2, <3>3, AcceptedLooks
  <2>2. PICK m \in Hits(c) : Returns(c, m.kind)
    <3>1. ~Goes(c, "missed")
      BY SMTT(30) DEF Goes, CallType
    <3>2. ~Returns(c, "broken")
      BY DEF Returns, CallType
    <3> QED BY <2>1, <3>1, <3>2 DEF MemoGet
  <2>3. answer'[c] = m.kind
    BY <2>2 DEF Returns, CallType
  <2>4. ScopeOf(c) \in Run
    BY DEF CallsInScope, ScopeType, ScopeOf, Midway
  <2>5. PICK t \in memo[Asks[c].op][ScopeOf(c)] : \E n \in DOMAIN t : m = t[n]
    BY SMTT(30) DEF Hits, Records, Range
  <2>6. m.key = Asks[c].key
    BY DEF Hits
  <2>7. PICK d \in Call : Told(d, Asks[c].op, ScopeOf(c), m)
    BY <2>4, <2>5, SMTT(30) DEF Tables
  <2>8. Asks[d] = Asks[c]
    <3>1. Asks[c] = [op |-> Asks[c].op, key |-> Asks[c].key]
      BY LifecycleAssumption
    <3> QED BY <2>6, <2>7, <3>1 DEF Told
  <2>9. d # c
    BY <2>7, SMTT(30) DEF Told
  <2> QED BY <2>3, <2>7, <2>8, <2>9 DEF Told
<1> QED BY <1>1, LifeInvariant, PTL DEF HitsRepeat, Spec

-----------------------------------------------------------------------------
(* Scopes and their gauge. *)

OpenScopes == {s \in Run : scope[s] = "open"}
ClosingRuns == {r \in Run : run[r].at = "closing"}

ScopesSound ==
  /\ \A r \in Run : run[r].at = "idle" => scope[r] = "none"
  /\ \A r \in Run : run[r].at \in {"inside", "closing"} => scope[run[r].scope] # "none"
  /\ IsFiniteSet(OpenScopes) /\ IsFiniteSet(ClosingRuns)
  /\ activeScopes = Cardinality(OpenScopes) + Cardinality(ClosingRuns)

\* The steps that change where a Run stands, a scope or the gauge.
LEMMA ScopeMoves ==
  ASSUME Next
  PROVE  \/ UNCHANGED <<run, scope, activeScopes>>
         \/ \E r \in Run : \/ NewScope(r) \/ ScopeCloseMarks(r) \/ ScopeCloseEnds(r)
                           \/ \E o \in run[r].left : DropMemo(r, o)
BY KindsOfSteps, EngineFrame, CoordinatorFrame, CallFrame DEF ScopeStep, RunStep

\* Opening, closing and leaving a scope keep the gauge exact.
LEMMA ScopesNext ==
  ASSUME ScopeType, ScopesSound, Next
  PROVE  ScopesSound'
<1> USE BindsOps DEF ScopeType
<1>0. Cardinality(OpenScopes) \in Nat /\ Cardinality(ClosingRuns) \in Nat
  BY FS_CardinalityType DEF ScopesSound
<1>1. CASE UNCHANGED <<run, scope, activeScopes>>
  BY <1>1 DEF ScopesSound, OpenScopes, ClosingRuns
<1>2. ASSUME NEW r \in Run, NewScope(r)
      PROVE  ScopesSound'
  <2>1. run[r].at = "idle" /\ scope[r] = "none"
    BY <1>2 DEF NewScope, ScopesSound
  <2>2. CASE RunReturnsEarly(r)
    <3>1. /\ scope' = scope /\ activeScopes' = activeScopes
          /\ run' = [run EXCEPT ![r].at = "returned"]
      BY <2>2 DEF RunReturnsEarly
    <3>2. /\ run'[r].at = "returned" /\ \A q \in Run \ {r} : run'[q] = run[q]
      BY <3>1, SMTT(30) DEF RunRecords
    <3>3. OpenScopes' = OpenScopes /\ ClosingRuns' = ClosingRuns
      BY <2>1, <3>1, <3>2, SMTT(30) DEF OpenScopes, ClosingRuns
    <3>4. /\ \A q \in Run : run'[q].at = "idle" => scope'[q] = "none"
          /\ \A q \in Run : run'[q].at \in {"inside", "closing"} => scope'[run'[q].scope] # "none"
      BY <3>1, <3>2, SMTT(30) DEF ScopesSound
    <3> QED BY <3>1, <3>3, <3>4 DEF ScopesSound
  <2>3. CASE /\ Outer(r) # "none" /\ run' = [run EXCEPT ![r] = [at |-> "inside", scope |-> Outer(r), left |-> {}]]
             /\ UNCHANGED <<scope, activeScopes>>
    <3>1. Parent[r] \in Run /\ run[Parent[r]].at = "inside" /\ Outer(r) = run[Parent[r]].scope
      BY <1>2, <2>3 DEF NewScope, Outer, Inside
    <3>2. scope[Outer(r)] # "none"
      BY <3>1 DEF ScopesSound
    <3>3. /\ run'[r].at = "inside" /\ run'[r].scope = Outer(r) /\ \A q \in Run \ {r} : run'[q] = run[q]
      BY <2>3, SMTT(30)
    <3>4. OpenScopes' = OpenScopes /\ ClosingRuns' = ClosingRuns
      BY <2>1, <2>3, <3>3, SMTT(30) DEF OpenScopes, ClosingRuns
    <3>5. /\ \A q \in Run : run'[q].at = "idle" => scope'[q] = "none"
          /\ \A q \in Run : run'[q].at \in {"inside", "closing"} => scope'[run'[q].scope] # "none"
      BY <2>3, <3>2, <3>3, SMTT(30) DEF ScopesSound
    <3> QED BY <2>3, <3>4, <3>5 DEF ScopesSound
  <2>4. CASE /\ run' = [run EXCEPT ![r] = [at |-> "inside", scope |-> r, left |-> {}]]
             /\ scope' = [scope EXCEPT ![r] = "open"] /\ activeScopes' = activeScopes + 1
    <3>1. /\ run'[r].at = "inside" /\ run'[r].scope = r /\ \A q \in Run \ {r} : run'[q] = run[q]
      BY <2>4, SMTT(30)
    <3>2. OpenScopes' = OpenScopes \cup {r} /\ r \notin OpenScopes /\ ClosingRuns' = ClosingRuns
      BY <2>1, <2>4, <3>1, SMTT(30) DEF OpenScopes, ClosingRuns
    <3>3. IsFiniteSet(OpenScopes') /\ Cardinality(OpenScopes') = Cardinality(OpenScopes) + 1
      BY <3>2, FS_AddElement DEF ScopesSound
    <3>4. \A q \in Run : run'[q].at = "idle" => scope'[q] = "none"
      BY <2>4, <3>1, SMTT(30) DEF ScopesSound
    <3>5. \A q \in Run : run'[q].at \in {"inside", "closing"} => scope'[run'[q].scope] # "none"
      BY <2>4, <3>1, SMTT(30) DEF ScopesSound
    <3>6. activeScopes' = Cardinality(OpenScopes') + Cardinality(ClosingRuns')
      BY <1>0, <2>4, <3>2, <3>3, SMTT(30) DEF ScopesSound
    <3> QED BY <3>2, <3>3, <3>4, <3>5, <3>6 DEF ScopesSound
  <2> QED BY <1>2, <2>2, <2>3, <2>4 DEF NewScope
<1>3. ASSUME NEW r \in Run, ScopeCloseMarks(r)
      PROVE  ScopesSound'
  <2> DEFINE s == run[r].scope
  <2>1. run[r].at = "inside" /\ s \in Run /\ scope[s] # "none" /\ activeScopes' = activeScopes
    BY <1>3 DEF ScopeCloseMarks, Inside, ScopesSound
  <2>2. CASE scope[s] # "closed"
    <3>1. /\ run' = [run EXCEPT ![r].at = "closing", ![r].left = tracked[s]]
          /\ scope' = [scope EXCEPT ![s] = "closed"]
      BY <1>3, <2>2 DEF ScopeCloseMarks, Closes, Closeable
    <3>2. scope[s] = "open"
      BY <2>1, <2>2, SMTT(30)
    <3>3. /\ run'[r].at = "closing" /\ run'[r].scope = s /\ \A q \in Run \ {r} : run'[q] = run[q]
      BY <3>1, SMTT(30) DEF RunRecords
    <3>4. OpenScopes' = OpenScopes \ {s} /\ s \in OpenScopes
      BY <2>1, <3>1, <3>2, SMTT(30) DEF OpenScopes
    <3>5. ClosingRuns' = ClosingRuns \cup {r} /\ r \notin ClosingRuns
      BY <2>1, <3>3, SMTT(30) DEF ClosingRuns
    <3>6. IsFiniteSet(OpenScopes') /\ Cardinality(OpenScopes') = Cardinality(OpenScopes) - 1
      <4> HIDE DEF s
      <4>1. IsFiniteSet(OpenScopes)
        BY DEF ScopesSound
      <4>2. /\ IsFiniteSet(OpenScopes \ {s})
            /\ Cardinality(OpenScopes \ {s}) = Cardinality(OpenScopes) - 1
        BY <3>4, <4>1, FS_RemoveElement
      <4> QED BY <3>4, <4>2
    <3>7. IsFiniteSet(ClosingRuns') /\ Cardinality(ClosingRuns') = Cardinality(ClosingRuns) + 1
      BY <3>5, FS_AddElement DEF ScopesSound
    <3>8. activeScopes' = Cardinality(OpenScopes') + Cardinality(ClosingRuns')
      BY <1>0, <2>1, <3>6, <3>7, SMTT(30) DEF ScopesSound
    <3>9. /\ \A q \in Run : run'[q].at = "idle" => scope'[q] = "none"
          /\ \A q \in Run : run'[q].at \in {"inside", "closing"} => scope'[run'[q].scope] # "none"
      <4> HIDE DEF s
      <4>1. \A q \in Run : run'[q].at = "idle" => q # r /\ run[q].at = "idle"
        BY <3>3, SMTT(30)
      <4>2. \A q \in Run : scope'[q] = scope[q] \/ (q = s /\ scope'[q] = "closed")
        BY <2>1, <3>1
      <4>3. \A q \in Run : run[q].at = "idle" => q # s
        BY <2>1, SMTT(30) DEF ScopesSound
      <4>4. \A q \in Run : scope[q] # "none" => scope'[q] # "none"
        BY <4>2, SMTT(30)
      <4>5. ASSUME NEW q \in Run, run'[q].at \in {"inside", "closing"}
            PROVE  scope'[run'[q].scope] # "none"
        <5>1. run'[q].scope \in Run /\ scope[run'[q].scope] # "none"
          BY <2>1, <3>3, <4>5, SMTT(30) DEF ScopesSound
        <5> QED BY <4>4, <5>1
      <4> QED BY <4>1, <4>2, <4>3, <4>5, SMTT(30) DEF ScopesSound
    <3> QED BY <3>6, <3>7, <3>8, <3>9 DEF ScopesSound
  <2>3. CASE scope[s] = "closed"
    <3>1. run' = [run EXCEPT ![r].at = "returned"] /\ scope' = scope
      BY <1>3, <2>3 DEF ScopeCloseMarks, Closes, Closeable
    <3>2. /\ run'[r].at = "returned" /\ \A q \in Run \ {r} : run'[q] = run[q]
      BY <3>1, SMTT(30) DEF RunRecords
    <3>3. OpenScopes' = OpenScopes /\ ClosingRuns' = ClosingRuns
      BY <2>1, <3>1, <3>2, SMTT(30) DEF OpenScopes, ClosingRuns
    <3>4. /\ \A q \in Run : run'[q].at = "idle" => scope'[q] = "none"
          /\ \A q \in Run : run'[q].at \in {"inside", "closing"} => scope'[run'[q].scope] # "none"
      BY <3>1, <3>2, SMTT(30) DEF ScopesSound
    <3> QED BY <2>1, <3>3, <3>4 DEF ScopesSound
  <2> QED BY <2>2, <2>3
<1>4. ASSUME NEW r \in Run, NEW o \in run[r].left, DropMemo(r, o)
      PROVE  ScopesSound'
  <2>1. /\ run' = [run EXCEPT ![r].left = run[r].left \ {o}] /\ UNCHANGED <<scope, activeScopes>>
    BY <1>4 DEF DropMemo
  <2>2. \A q \in Run : run'[q].at = run[q].at /\ run'[q].scope = run[q].scope
    BY <2>1, SMTT(30) DEF RunRecords
  <2>3. OpenScopes' = OpenScopes /\ ClosingRuns' = ClosingRuns
    BY <2>1, <2>2, SMTT(30) DEF OpenScopes, ClosingRuns
  <2> QED BY <2>1, <2>2, <2>3, SMTT(30) DEF ScopesSound
<1>5. ASSUME NEW r \in Run, ScopeCloseEnds(r)
      PROVE  ScopesSound'
  <2>1. /\ run' = [run EXCEPT ![r].at = "returned"] /\ scope' = scope /\ activeScopes' = activeScopes - 1
        /\ run[r].at = "closing"
    BY <1>5 DEF ScopeCloseEnds
  <2>2. /\ run'[r].at = "returned" /\ \A q \in Run \ {r} : run'[q] = run[q]
    BY <2>1, SMTT(30) DEF RunRecords
  <2>3. OpenScopes' = OpenScopes
    BY <2>1 DEF OpenScopes
  <2>4. ClosingRuns' = ClosingRuns \ {r} /\ r \in ClosingRuns
    BY <2>1, <2>2, SMTT(30) DEF ClosingRuns
  <2>5. IsFiniteSet(ClosingRuns') /\ Cardinality(ClosingRuns') = Cardinality(ClosingRuns) - 1
    BY <2>4, FS_RemoveElement DEF ScopesSound
  <2>6. activeScopes' = Cardinality(OpenScopes') + Cardinality(ClosingRuns')
    BY <1>0, <2>1, <2>3, <2>5, SMTT(30) DEF ScopesSound
  <2>7. /\ \A q \in Run : run'[q].at = "idle" => scope'[q] = "none"
        /\ \A q \in Run : run'[q].at \in {"inside", "closing"} => scope'[run'[q].scope] # "none"
    BY <2>1, <2>2, SMTT(30) DEF ScopesSound
  <2> QED BY <2>3, <2>5, <2>6, <2>7 DEF ScopesSound
<1> QED BY <1>1, <1>2, <1>3, <1>4, <1>5, ScopeMoves

\* No scope is open before the first Run.
LEMMA ScopesInit == Init => ScopesSound
<1> SUFFICES ASSUME Init PROVE ScopesSound
  OBVIOUS
<1>1. OpenScopes = {} /\ ClosingRuns = {}
  BY SMTT(30) DEF Init, OpenScopes, ClosingRuns
<1>2. /\ \A r \in Run : run[r].at = "idle" => scope[r] = "none"
      /\ \A r \in Run : run[r].at \in {"inside", "closing"} => scope[run[r].scope] # "none"
  BY SMTT(30) DEF Init
<1> QED BY <1>1, <1>2, FS_EmptySet, SMTT(30) DEF Init, ScopesSound

\* The gauge of active scopes is exact, also when Runs share a scope (NewScope,
\* Scope.Close).
THEOREM ScopeGauge == Spec => []ActiveScopesExact
<1>1. LifeInv /\ ScopesSound /\ [Next]_vars => ScopesSound'
  <2> SUFFICES ASSUME LifeInv, ScopesSound, [Next]_vars PROVE ScopesSound'
    OBVIOUS
  <2>1. CASE Next
    BY <2>1, ScopesNext DEF LifeInv, LifeTypeOK
  <2>2. CASE UNCHANGED vars
    BY <2>2 DEF vars, scopeVars, ScopesSound, OpenScopes, ClosingRuns
  <2> QED BY <2>1, <2>2
<1>2. ScopesSound => ActiveScopesExact
  BY DEF ScopesSound, ActiveScopesExact, OpenScopes, ClosingRuns
<1> QED BY <1>1, <1>2, ScopesInit, LifeInvariant, PTL DEF Spec

-----------------------------------------------------------------------------
(* Scopes that are not shared. *)

OwnScopes ==
  \A r \in Run :
    /\ run[r].at \in {"inside", "closing"} => run[r].scope = r
    /\ run[r].at = "inside" => scope[r] = "open"
    /\ scope[r] = "closed" => run[r].at \in {"closing", "returned"}

\* An operation with a table is tracked by the scope, or about to be, or about to be
\* dropped.
MemoTracked ==
  /\ \A c \in Call : call[c] \in {"tracked", "waiting"} => Asks[c].op \in tracked[In[c]]
  /\ \A o \in Op : \A s \in Run : memo[o][s] # {} =>
       \/ /\ run[s].at = "inside"
          /\ o \in tracked[s] \/ \E c \in Call : In[c] = s /\ Asks[c].op = o /\ call[c] = "missed"
       \/ run[s].at = "closing" /\ o \in run[s].left

\* Without reuse every Run has a scope of its own.
LEMMA OwnScopesNext ==
  ASSUME \A r \in Run : "reuse" \notin Nested[r], ScopeType, ScopesSound, OwnScopes, Next
  PROVE  OwnScopes'
<1> USE BindsOps DEF ScopeType
<1>1. CASE UNCHANGED <<run, scope, activeScopes>>
  BY <1>1 DEF OwnScopes
<1>2. ASSUME NEW r \in Run, NewScope(r)
      PROVE  OwnScopes'
  <2>1. run[r].at = "idle" /\ scope[r] = "none"
    BY <1>2 DEF NewScope, ScopesSound
  <2>2. \/ run' = [run EXCEPT ![r].at = "returned"] /\ scope' = scope
        \/ /\ run' = [run EXCEPT ![r] = [at |-> "inside", scope |-> r, left |-> {}]]
           /\ scope' = [scope EXCEPT ![r] = "open"]
    BY <1>2 DEF NewScope, RunReturnsEarly
  <2>3. \A q \in Run \ {r} : run'[q] = run[q] /\ scope'[q] = scope[q]
    BY <2>2
  <2>4. \/ run'[r].at = "returned" /\ scope'[r] = "none"
        \/ run'[r].at = "inside" /\ run'[r].scope = r /\ scope'[r] = "open"
    BY <2>1, <2>2, SMTT(30) DEF RunRecords
  <2> QED BY <2>3, <2>4, SMTT(30) DEF OwnScopes
<1>3. ASSUME NEW r \in Run, ScopeCloseMarks(r)
      PROVE  OwnScopes'
  <2>1. run[r].at = "inside" /\ run[r].scope = r /\ scope[r] = "open"
    BY <1>3 DEF ScopeCloseMarks, Inside, OwnScopes
  <2>2. /\ run' = [run EXCEPT ![r].at = "closing", ![r].left = tracked[r]]
        /\ scope' = [scope EXCEPT ![r] = "closed"]
    BY <1>3, <2>1, SMTT(30) DEF ScopeCloseMarks, Closes, Closeable
  <2>3. \A q \in Run \ {r} : run'[q] = run[q] /\ scope'[q] = scope[q]
    BY <2>2
  <2>4. run'[r].at = "closing" /\ run'[r].scope = r /\ scope'[r] = "closed"
    BY <2>1, <2>2, SMTT(30) DEF RunRecords
  <2> QED BY <2>3, <2>4, SMTT(30) DEF OwnScopes
<1>4. ASSUME NEW r \in Run, NEW o \in run[r].left, DropMemo(r, o)
      PROVE  OwnScopes'
  <2>1. run' = [run EXCEPT ![r].left = run[r].left \ {o}] /\ scope' = scope
    BY <1>4 DEF DropMemo
  <2>2. \A q \in Run : run'[q].at = run[q].at /\ run'[q].scope = run[q].scope
    BY <2>1, SMTT(30) DEF RunRecords
  <2> QED BY <2>1, <2>2, SMTT(30) DEF OwnScopes
<1>5. ASSUME NEW r \in Run, ScopeCloseEnds(r)
      PROVE  OwnScopes'
  <2>1. run' = [run EXCEPT ![r].at = "returned"] /\ scope' = scope /\ run[r].at = "closing"
    BY <1>5 DEF ScopeCloseEnds
  <2>2. run'[r].at = "returned" /\ \A q \in Run \ {r} : run'[q] = run[q]
    BY <2>1, SMTT(30) DEF RunRecords
  <2> QED BY <2>1, <2>2, SMTT(30) DEF OwnScopes
<1> QED BY <1>1, <1>2, <1>3, <1>4, <1>5, ScopeMoves

\* An operation keeps its table's entry in the scope's list: through the calls that
\* look into the table, track the operation and put results, and through the close.
LEMMA MemoTrackedNext ==
  ASSUME Broken = {}, ScopeType, CallType, CallsInScope, OwnScopes, MemoTracked, Next
  PROVE  MemoTracked'
<1> USE BindsOps DEF CallType
<1> DEFINE Evidence(o, s) ==
      \/ /\ run[s].at = "inside"
         /\ o \in tracked[s] \/ \E c \in Call : In[c] = s /\ Asks[c].op = o /\ call[c] = "missed"
      \/ run[s].at = "closing" /\ o \in run[s].left
<1>1. ASSUME UNCHANGED <<run, tracked, memo, call>>
      PROVE  MemoTracked'
  BY <1>1 DEF MemoTracked
<1>2. ASSUME NEW r \in Run, NewScope(r)
      PROVE  MemoTracked'
  <2>1. run[r].at = "idle" /\ UNCHANGED <<tracked, memo, call>>
    BY <1>2 DEF NewScope, RunReturnsEarly, callVars
  <2>2. \A q \in Run \ {r} : run'[q] = run[q]
    BY <1>2 DEF NewScope, RunReturnsEarly, ScopeType
  <2>3. \A o \in Op : memo[o][r] = {}
    BY <2>1, SMTT(30) DEF MemoTracked
  <2>4. ASSUME NEW o \in Op, NEW s \in Run, memo'[o][s] # {}
        PROVE  Evidence(o, s)'
    <3>1. s # r /\ memo[o][s] # {}
      BY <2>1, <2>3, <2>4
    <3>2. Evidence(o, s)
      BY <3>1 DEF MemoTracked
    <3> QED BY <2>1, <2>2, <3>1, <3>2
  <2> QED BY <2>1, <2>4 DEF MemoTracked
<1>3. ASSUME NEW r \in Run, ScopeCloseMarks(r)
      PROVE  MemoTracked'
  <2>1. run[r].at = "inside" /\ run[r].scope = r /\ scope[r] = "open"
    BY <1>3 DEF ScopeCloseMarks, Inside, OwnScopes
  <2>2. /\ run' = [run EXCEPT ![r].at = "closing", ![r].left = tracked[r]]
        /\ tracked' = [tracked EXCEPT ![r] = {}] /\ UNCHANGED <<memo, call>>
    <3>1. UNCHANGED <<memo, call>>
      BY <1>3 DEF ScopeCloseMarks, callVars
    <3>2. Closeable(Closes(r)) /\ Closes(r) = r
      BY <2>1, SMTT(30) DEF Closes, Closeable
    <3> QED BY <1>3, <3>1, <3>2 DEF ScopeCloseMarks
  <2>3. \A q \in Run \ {r} : run'[q] = run[q] /\ tracked'[q] = tracked[q]
    BY <2>2 DEF ScopeType
  <2>4. run'[r].at = "closing" /\ run'[r].left = tracked[r]
    BY <2>2, SMTT(30) DEF ScopeType, RunRecords
  <2>5. \A c \in Call : In[c] = r => call[c] \in {"idle", "returned"}
    BY <1>3 DEF ScopeCloseMarks, Finished
  <2>6. \A o \in Op : memo[o][r] # {} => o \in tracked[r]
    <3>1. \A c \in Call : In[c] = r => call[c] # "missed"
      BY <2>5, SMTT(30)
    <3>2. run[r].at # "closing"
      BY <2>1, SMTT(30)
    <3> QED BY <3>1, <3>2 DEF MemoTracked
  <2>7. ASSUME NEW c \in Call, call'[c] \in {"tracked", "waiting"}
        PROVE  Asks[c].op \in tracked'[In[c]]
    <3>1. In[c] \in Run /\ In[c] # r
      BY <2>2, <2>5, <2>7, SMTT(30) DEF CallsInScope, Midway
    <3> QED BY <2>2, <2>3, <2>7, <3>1 DEF MemoTracked
  <2>8. ASSUME NEW o \in Op, NEW s \in Run, memo'[o][s] # {}
        PROVE  Evidence(o, s)'
    <3>1. CASE s = r
      BY <2>2, <2>4, <2>6, <2>8, <3>1
    <3>2. CASE s # r
      <4>1. Evidence(o, s)
        BY <2>2, <2>8 DEF MemoTracked
      <4>2. run'[s] = run[s] /\ tracked'[s] = tracked[s] /\ call' = call
        BY <2>2, <2>3, <3>2
      <4> QED BY <4>1, <4>2
    <3> QED BY <3>1, <3>2
  <2> QED BY <2>7, <2>8 DEF MemoTracked
<1>4. ASSUME NEW r \in Run, NEW p \in run[r].left, DropMemo(r, p)
      PROVE  MemoTracked'
  <2>1. /\ run' = [run EXCEPT ![r].left = run[r].left \ {p}] /\ UNCHANGED <<tracked, call>>
        /\ memo' = [memo EXCEPT ![p][r] = {}] /\ run[r].at = "closing"
    BY <1>4 DEF DropMemo, OwnScopes, callVars
  <2>2. /\ \A q \in Run \ {r} : run'[q] = run[q]
        /\ run'[r].at = "closing" /\ run'[r].left = run[r].left \ {p}
    BY <2>1, SMTT(30) DEF ScopeType, RunRecords
  <2>3. p \in Op
    BY DEF ScopeType, RunRecords
  <2>4. \A o \in Op : \A s \in Run : memo'[o][s] = IF o = p /\ s = r THEN {} ELSE memo[o][s]
    BY <2>1, <2>3
  <2>5. ASSUME NEW o \in Op, NEW s \in Run, memo'[o][s] # {}
        PROVE  Evidence(o, s)'
    <3>1. memo[o][s] # {} /\ ~(o = p /\ s = r)
      BY <2>4, <2>5
    <3>2. CASE s = r
      <4>1. o \in run[r].left
        BY <2>1, <3>1, <3>2, SMTT(30) DEF MemoTracked
      <4> QED BY <2>2, <3>1, <3>2, <4>1
    <3>3. CASE s # r
      BY <2>1, <2>2, <3>1, <3>3, SMTT(30) DEF MemoTracked
    <3> QED BY <3>2, <3>3
  <2> QED BY <2>1, <2>5 DEF MemoTracked
<1>5. ASSUME NEW r \in Run, ScopeCloseEnds(r)
      PROVE  MemoTracked'
  <2>1. /\ run' = [run EXCEPT ![r].at = "returned"] /\ UNCHANGED <<tracked, call, memo>>
        /\ run[r].at = "closing" /\ run[r].left = {}
    BY <1>5 DEF ScopeCloseEnds, callVars
  <2>2. \A q \in Run \ {r} : run'[q] = run[q]
    BY <2>1 DEF ScopeType
  <2>3. \A o \in Op : memo[o][r] = {}
    BY <2>1, SMTT(30) DEF MemoTracked
  <2> QED BY <2>1, <2>2, <2>3, SMTT(30) DEF MemoTracked
<1>6. ASSUME NEW c \in Call, NEW at, call' = [call EXCEPT ![c] = at], call[c] # "missed",
             at \notin {"tracked", "waiting"} \/ call[c] = "tracked",
             UNCHANGED <<run, tracked>>,
             \A o \in Op : \A s \in Run : memo'[o][s] # {} => memo[o][s] # {} \/ Evidence(o, s)'
      PROVE  MemoTracked'
  <2>1. \A d \in Call \ {c} : call'[d] = call[d]
    BY <1>6
  <2>2. call'[c] = at
    BY <1>6
  <2>3. ASSUME NEW d \in Call, call'[d] \in {"tracked", "waiting"}
        PROVE  Asks[d].op \in tracked'[In[d]]
    <3>1. call[d] \in {"tracked", "waiting"}
      BY <1>6, <2>1, <2>2, <2>3
    <3> QED BY <1>6, <3>1 DEF MemoTracked
  <2>4. ASSUME NEW o \in Op, NEW s \in Run, memo'[o][s] # {}
        PROVE  Evidence(o, s)'
    <3>1. CASE memo[o][s] # {}
      <4>1. Evidence(o, s)
        BY <3>1 DEF MemoTracked
      <4>2. \A d \in Call : call[d] = "missed" => call'[d] = "missed"
        BY <1>6, <2>1
      <4> QED BY <1>6, <4>1, <4>2
    <3> QED BY <1>6, <2>4, <3>1
  <2> QED BY <2>3, <2>4 DEF MemoTracked
<1>7. ASSUME NEW c \in Call, CheckScope(c) \/ CheckEngine(c) \/ SubmitCall(c) \/ CoordinatorGone(c) \/ Abandon(c)
      PROVE  MemoTracked'
  <2>1. UNCHANGED <<run, tracked, memo>>
    BY <1>7 DEF CheckScope, CheckEngine, SubmitCall, CoordinatorGone, Abandon, scopeVars
  <2>2. call[c] \in {"idle", "inScope", "tracked", "waiting"}
    BY <1>7 DEF CheckScope, CheckEngine, SubmitCall, CoordinatorGone, Abandon, Waiting
  <2>3. \/ call' = [call EXCEPT ![c] = "returned"] \/ call' = [call EXCEPT ![c] = "inScope"]
        \/ call' = [call EXCEPT ![c] = "accepted"]
        \/ call' = [call EXCEPT ![c] = "waiting"] /\ call[c] = "tracked"
    BY <1>7 DEF CheckScope, CheckEngine, SubmitCall, CoordinatorGone, Abandon, FallsBack, Returns, Goes
  <2>4. call[c] # "missed"
    BY <2>2, SMTT(30)
  <2>5. PICK at : /\ call' = [call EXCEPT ![c] = at]
                  /\ at \notin {"tracked", "waiting"} \/ call[c] = "tracked"
    BY <2>3, SMTT(30)
  <2> QED BY <1>6, <2>1, <2>4, <2>5
<1>8. ASSUME NEW c \in Call, MemoGet(c)
      PROVE  MemoTracked'
  <2> DEFINE p == Asks[c].op
  <2>1. call[c] = "accepted" /\ UNCHANGED <<run, tracked>>
    BY <1>8 DEF MemoGet, scopeVars
  <2>2. In[c] \in Run /\ run[In[c]].at = "inside" /\ ScopeOf(c) = In[c]
    BY <2>1 DEF CallsInScope, OwnScopes, ScopeOf, Midway
  <2>3. memo' = memo \/ memo' = [memo EXCEPT ![p][In[c]] = {<<>>}]
    BY <1>8, <2>2 DEF MemoGet
  <2>4. CASE Goes(c, "missed")
    <3>1. call' = [call EXCEPT ![c] = "missed"] /\ call'[c] = "missed"
      BY <2>4 DEF Goes
    <3>2. \A o \in Op : \A s \in Run : memo'[o][s] # {} => memo[o][s] # {} \/ (o = p /\ s = In[c])
      BY <2>2, <2>3, SMTT(30)
    <3>3. Evidence(p, In[c])'
      BY <2>1, <2>2, <3>1
    <3>4. call[c] # "missed" /\ "missed" \notin {"tracked", "waiting"}
      BY <2>1, SMTT(30)
    <3>5. \A o \in Op : \A s \in Run : memo'[o][s] # {} => memo[o][s] # {} \/ Evidence(o, s)'
      <4> HIDE DEF Evidence
      <4> QED BY <3>2, <3>3, SMTT(30)
    <3> QED BY <1>6, <2>1, <3>1, <3>4, <3>5
  <2>5. CASE \E m \in Hits(c) : Returns(c, m.kind)
    <3>1. call' = [call EXCEPT ![c] = "returned"]
      BY <2>5 DEF Returns
    <3>2. memo[p][ScopeOf(c)] # {}
      BY <2>5 DEF Hits, Records
    <3>3. memo' = memo
      BY <1>8, <3>2 DEF MemoGet
    <3>4. call[c] # "missed" /\ "returned" \notin {"tracked", "waiting"}
      BY <2>1, SMTT(30)
    <3> QED BY <1>6, <2>1, <3>1, <3>3, <3>4
  <2> QED BY <1>8, <2>4, <2>5 DEF MemoGet
<1>9. ASSUME NEW c \in Call, TrackOp(c)
      PROVE  MemoTracked'
  <2> DEFINE p == Asks[c].op
  <2>1. call[c] = "missed" /\ call' = [call EXCEPT ![c] = "tracked"] /\ UNCHANGED <<run, memo>>
    BY <1>9 DEF TrackOp, Goes
  <2>2. In[c] \in Run /\ run[In[c]].at = "inside" /\ ScopeOf(c) = In[c]
    BY <2>1 DEF CallsInScope, OwnScopes, ScopeOf, Midway
  <2>3. tracked' = [tracked EXCEPT ![In[c]] = tracked[In[c]] \cup {p}]
    BY <1>9, <2>2 DEF TrackOp, Tracked
  <2>4. /\ \A s \in Run : tracked[s] \subseteq tracked'[s]
        /\ p \in tracked'[In[c]]
    BY <2>2, <2>3 DEF ScopeType
  <2>5. \A d \in Call \ {c} : call'[d] = call[d]
    BY <2>1
  <2>6. ASSUME NEW d \in Call, call'[d] \in {"tracked", "waiting"}
        PROVE  Asks[d].op \in tracked'[In[d]]
    <3>1. CASE d = c
      BY <2>4, <3>1
    <3>2. CASE d # c
      <4>1. call[d] \in {"tracked", "waiting"}
        BY <2>5, <2>6, <3>2
      <4>2. In[d] \in Run
        BY <4>1 DEF CallsInScope, Midway
      <4> QED BY <2>4, <4>1, <4>2 DEF MemoTracked
    <3> QED BY <3>1, <3>2
  <2>7. ASSUME NEW o \in Op, NEW s \in Run, memo'[o][s] # {}
        PROVE  Evidence(o, s)'
    <3>1. Evidence(o, s)
      BY <2>1, <2>7 DEF MemoTracked
    <3>2. ASSUME NEW d \in Call, In[d] = s, Asks[d].op = o, call[d] = "missed"
          PROVE  o \in tracked'[s] \/ call'[d] = "missed"
      BY <2>4, <2>5, <3>2
    <3> QED BY <2>1, <2>4, <3>1, <3>2
  <2> QED BY <2>6, <2>7 DEF MemoTracked
<1>10. ASSUME NEW c \in Call, Finish(c)
       PROVE  MemoTracked'
  <2> DEFINE p == Asks[c].op
  <2>1. /\ call[c] = "waiting" /\ call' = [call EXCEPT ![c] = "returned"] /\ UNCHANGED <<run, tracked>>
    BY <1>10 DEF Finish, Returns, scopeVars
  <2>2. In[c] \in Run /\ run[In[c]].at = "inside" /\ ScopeOf(c) = In[c]
    BY <2>1 DEF CallsInScope, OwnScopes, ScopeOf, Midway
  <2>3. p \in tracked[In[c]]
    BY <2>1 DEF MemoTracked
  <2>4. PICK T : memo' = memo \/ memo' = [memo EXCEPT ![p][In[c]] = T]
    BY <1>10, <2>2 DEF Finish
  <2>5. \A o \in Op : \A s \in Run : memo'[o][s] # {} => memo[o][s] # {} \/ (o = p /\ s = In[c])
    BY <2>2, <2>4, SMTT(30)
  <2>6. Evidence(p, In[c])'
    BY <2>1, <2>2, <2>3
  <2>7. call[c] # "missed" /\ "returned" \notin {"tracked", "waiting"}
    BY <2>1, SMTT(30)
  <2>8. \A o \in Op : \A s \in Run : memo'[o][s] # {} => memo[o][s] # {} \/ Evidence(o, s)'
    <3> HIDE DEF Evidence
    <3> QED BY <2>5, <2>6, SMTT(30)
  <2> QED BY <1>6, <2>1, <2>7, <2>8
<1>11. CASE EngineStep \/ \E o \in Op : CoordinatorStep(o)
  BY <1>1, <1>11, EngineFrame, CoordinatorFrame
<1>12. CASE ScopeStep
  BY <1>2, <1>3, <1>4, <1>5, <1>12 DEF ScopeStep, RunStep
<1>13. CASE AnyCallStep
  <2>1. ASSUME NEW c \in Call, Serve(c)
        PROVE  UNCHANGED <<run, tracked, memo, call>>
    BY <2>1 DEF Serve, scopeVars
  <2> QED BY <1>1, <1>7, <1>8, <1>9, <1>10, <1>13, <2>1 DEF AnyCallStep, CallStep
<1> QED BY <1>11, <1>12, <1>13, KindsOfSteps

\* A Run that has returned leaves no memo table behind, where Runs do not share
\* scopes and no call fails between its look into the table and trackOp (Run,
\* Scope.Close, dropMemo).
THEOREM ScopesLeaveNoMemo ==
  ASSUME Broken = {}, \A r \in Run : "reuse" \notin Nested[r]
  PROVE  Spec => [](ClosedKeepsNoMemo /\ OnlyOwnerCloses)
<1>1. Init => OwnScopes /\ MemoTracked
  BY SMTT(30) DEF Init, OwnScopes, MemoTracked
<1>2. /\ LifeInv /\ ScopesSound /\ OwnScopes /\ MemoTracked /\ [Next]_vars
      => ScopesSound' /\ OwnScopes' /\ MemoTracked'
  <2> SUFFICES ASSUME LifeInv, ScopesSound, OwnScopes, MemoTracked, [Next]_vars
               PROVE  ScopesSound' /\ OwnScopes' /\ MemoTracked'
    OBVIOUS
  <2>1. CASE Next
    BY <2>1, ScopesNext, OwnScopesNext, MemoTrackedNext DEF LifeInv, LifeTypeOK
  <2>2. CASE UNCHANGED vars
    <3>1. UNCHANGED <<run, scope, tracked, activeScopes, call, answer, memo>>
      BY <2>2 DEF vars, scopeVars, callVars
    <3>2. ScopesSound'
      BY <3>1 DEF ScopesSound, OpenScopes, ClosingRuns
    <3>3. OwnScopes'
      BY <3>1 DEF OwnScopes
    <3>4. MemoTracked'
      BY <3>1 DEF MemoTracked
    <3> QED BY <3>2, <3>3, <3>4
  <2> QED BY <2>1, <2>2
<1>3. OwnScopes => OnlyOwnerCloses
  BY DEF OwnScopes, OnlyOwnerCloses
<1>4. MemoTracked => ClosedKeepsNoMemo
  BY DEF MemoTracked, ClosedKeepsNoMemo
<1> QED BY <1>1, <1>2, <1>3, <1>4, ScopesInit, LifeInvariant, PTL DEF Spec
=============================================================================
