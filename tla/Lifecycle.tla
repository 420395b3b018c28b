------------------------------ MODULE Lifecycle ------------------------------
(***************************************************************************)
(* The life of an engine (src/runtime): operations are bound while Close    *)
(* runs, functions run inside scopes, and the calls of Do they make use the *)
(* scope's memo tables.  Each step that takes a lock is an action.          *)
(*                                                                         *)
(* The coordinator of an operation is abstracted to what Operation says it  *)
(* promises: it accepts calls while open, answers those it accepted, and    *)
(* stops once closing with nobody left to answer.                           *)
(***************************************************************************)
EXTENDS Integers, Sequences, FiniteSets, FiniteSetsExt, Functions

CONSTANTS
  NumOps,           \* operation IDs 1..NumOps, in the order Close visits them
  Binder, BindOp,   \* calls of Bind, and the operation each binds
  Closer,           \* calls of Engine.Close
  Impatient,        \* closers whose context may expire
  Run, Parent,      \* calls of Run, and [Run -> Run \cup {"none"}]
  Nested,           \* the nested-scope policies each Run may be given
  Call, In, Asks,   \* calls of Do, the Run each is made in, [op, key] of each
  Cancellable,      \* calls whose context may end
  Broken,           \* calls that may end between the memo lookup and trackOp: they are
                    \* recursive, or a key callback fails
  Fallback,         \* a scalar fallback is configured and scopes are optional
  MemoNegative,     \* missing results are memoized as well
  MemoMaxItems

Op == 1..NumOps

ASSUME LifecycleAssumption ==
  /\ NumOps \in Nat /\ BindOp \in [Binder -> Op] /\ Impatient \subseteq Closer
  /\ "none" \notin Run /\ Parent \in [Run -> Run \cup {"none"}]
  /\ Nested \in [Run -> SUBSET {"isolate", "reuse", "reject"}]
  /\ In \in [Call -> Run \cup {"none"}]
  /\ \A c \in Call : Asks[c] = [op |-> Asks[c].op, key |-> Asks[c].key] /\ Asks[c].op \in Op
  /\ Cancellable \subseteq Call /\ Broken \subseteq Call
  /\ Fallback \in BOOLEAN /\ MemoNegative \in BOOLEAN /\ MemoMaxItems \in Nat \ {0}

VARIABLES
  engine,       \* Engine.state
  engineDone,   \* engine.ctx is canceled
  registered,   \* the keys of Engine.ops
  coord,        \* the coordinator of each operation: none, open, closing, stopped
  bind,         \* where each call of Bind stands
  closer,       \* where each call of Close stands, what it has still to close
  run,          \* where each call of Run stands, its scope, what it has to drop
  scope,        \* the state of each scope, named after the Run that created it
  tracked,      \* Scope.ops
  activeScopes,
  call,         \* where each call of Do stands
  answer,       \* its result channel, then what it returned
  memo          \* [Op -> [scope -> {} or {sequence of records}]]

engineVars == <<engine, engineDone, registered, bind, closer>>
scopeVars == <<run, scope, tracked, activeScopes>>
callVars == <<call, answer>>
vars == <<engineVars, coord, scopeVars, callVars, memo>>

Init ==
  /\ engine = "open" /\ engineDone = FALSE /\ registered = {}
  /\ coord = [o \in Op |-> "none"] /\ bind = [b \in Binder |-> "idle"]
  /\ closer = [k \in Closer |-> [at |-> "idle", left |-> {}, err |-> FALSE, expired |-> FALSE]]
  /\ run = [r \in Run |-> [at |-> "idle", scope |-> "none", left |-> {}]]
  /\ scope = [s \in Run |-> "none"] /\ tracked = [s \in Run |-> {}] /\ activeScopes = 0
  /\ call = [c \in Call |-> "idle"] /\ answer = [c \in Call |-> "none"]
  /\ memo = [o \in Op |-> [s \in Run |-> {}]]
-----------------------------------------------------------------------------
(* Bind: ensureOpen, registerController, then wg.Add and the coordinator. *)

EnsureOpen(b) ==
  /\ bind[b] = "idle"
  /\ bind' = [bind EXCEPT ![b] = IF engine = "open" THEN "checked" ELSE "failed"]
  /\ UNCHANGED <<engine, engineDone, registered, closer, coord, scopeVars, callVars, memo>>

\* Mutant: the state is not looked at again under the lock.
CanRegisterLate(o) == o \notin registered

CanRegister(o) == engine = "open" /\ o \notin registered

RegisterController(b) ==
  LET o == BindOp[b] IN
  /\ bind[b] = "checked"
  /\ bind' = [bind EXCEPT ![b] = IF CanRegister(o) THEN "registered" ELSE "failed"]
  /\ registered' = IF CanRegister(o) THEN registered \cup {o} ELSE registered
  /\ UNCHANGED <<engine, engineDone, closer, coord, scopeVars, callVars, memo>>

StartCoordinator(b) ==
  /\ bind[b] = "registered"
  /\ bind' = [bind EXCEPT ![b] = "bound"] /\ coord' = [coord EXCEPT ![BindOp[b]] = "open"]
  /\ UNCHANGED <<engine, engineDone, registered, closer, scopeVars, callVars, memo>>

\* Mutant: the WaitGroup is never told that a coordinator ended.
CountedForever == {o \in Op : coord[o] # "none"}

\* The operations whose coordinators the engine's WaitGroup counts.
Counted == {o \in Op : coord[o] \in {"open", "closing"}}
-----------------------------------------------------------------------------
(* Engine.Close. *)

CloserAt(k, at) == closer' = [closer EXCEPT ![k].at = at]

CloseMarks(k) ==
  /\ closer[k].at = "idle"
  /\ CloserAt(k, IF engine = "closed" THEN "foundClosed" ELSE "marked")
  /\ engine' = IF engine = "open" THEN "closing" ELSE engine
  /\ UNCHANGED <<engineDone, registered, bind, coord, scopeVars, callVars, memo>>

CloseSnapshot(k) ==
  /\ closer[k].at = "marked"
  /\ closer' = [closer EXCEPT ![k].at = "closing", ![k].left = registered]
  /\ UNCHANGED <<engine, engineDone, registered, bind, coord, scopeVars, callVars, memo>>

\* closeController hands its request to the coordinator.
SendClose(k) ==
  LET o == Min(closer[k].left) IN
  /\ closer[k].at = "closing" /\ closer[k].left # {} /\ coord[o] \in {"open", "closing"}
  /\ CloserAt(k, "sentClose")
  /\ coord' = [coord EXCEPT ![o] = "closing"]
  /\ UNCHANGED <<engine, engineDone, registered, bind, scopeVars, callVars, memo>>

\* closeController returns: the coordinator has stopped, or has answered the
\* request because the engine is canceled (an error), or the context expired.
CloseReturnsOne(k) ==
  LET o == Min(closer[k].left) IN
  /\ closer[k].at \in {"closing", "sentClose"} /\ closer[k].left # {}
  /\ \E err \in BOOLEAN :
       /\ \/ coord[o] = "stopped" /\ ~err
          \/ closer[k].at = "sentClose" /\ engineDone /\ err
          \/ closer[k].expired /\ err
       /\ closer' = [closer EXCEPT ![k] = [closer[k] EXCEPT !.at = "closing",
                                                            !.left = closer[k].left \ {o},
                                                            !.err = closer[k].err \/ err]]
  /\ UNCHANGED <<engine, engineDone, registered, bind, coord, scopeVars, callVars, memo>>

CloseCancels(k) ==
  /\ closer[k].at = "closing" /\ closer[k].left = {}
  /\ CloserAt(k, "waiting") /\ engineDone' = TRUE
  /\ UNCHANGED <<engine, registered, bind, coord, scopeVars, callVars, memo>>

\* The select on the WaitGroup and the context.
CloseWaits(k) ==
  /\ closer[k].at = "waiting"
  /\ \/ Counted = {} /\ CloserAt(k, "waited")
     \/ /\ closer[k].expired
        /\ closer' = [closer EXCEPT ![k].at = "waited", ![k].err = TRUE]
  /\ UNCHANGED <<engine, engineDone, registered, bind, coord, scopeVars, callVars, memo>>

CloseEnds(k) ==
  /\ closer[k].at = "waited"
  /\ CloserAt(k, "returned") /\ engine' = "closed"
  /\ UNCHANGED <<engineDone, registered, bind, coord, scopeVars, callVars, memo>>

CloserExpires(k) ==
  /\ k \in Impatient /\ ~closer[k].expired /\ closer[k].at \notin {"returned", "foundClosed"}
  /\ closer' = [closer EXCEPT ![k].expired = TRUE]
  /\ UNCHANGED <<engine, engineDone, registered, bind, coord, scopeVars, callVars, memo>>
-----------------------------------------------------------------------------
(* The coordinators, reduced to what Operation says of them. *)

Waiting(o) == {c \in Call : Asks[c].op = o /\ call[c] = "waiting" /\ answer[c] = "none"}

Serve(c) ==
  /\ c \in Waiting(Asks[c].op)
  /\ \E k \in {"found", "missing", "failed"} : answer' = [answer EXCEPT ![c] = k]
  /\ UNCHANGED <<engineVars, coord, scopeVars, call, memo>>

HandleEngineCancel(o) ==
  /\ engineDone /\ coord[o] \in {"open", "closing"}
  /\ coord' = [coord EXCEPT ![o] = "closing"]
  /\ answer' = [c \in Call |-> IF c \in Waiting(o) THEN "closed" ELSE answer[c]]
  /\ coord' # coord \/ answer' # answer
  /\ UNCHANGED <<engineVars, scopeVars, call, memo>>

Stop(o) ==
  /\ coord[o] = "closing" /\ Waiting(o) = {}
  /\ coord' = [coord EXCEPT ![o] = "stopped"]
  /\ UNCHANGED <<engineVars, scopeVars, callVars, memo>>
-----------------------------------------------------------------------------
(* NewScope, Run and Scope.Close. *)

Inside(r) == run[r].at = "inside"

\* The scope the context of Run r carries.
Outer(r) == IF Parent[r] = "none" THEN "none" ELSE run[Parent[r]].scope

RunReturnsEarly(r) == run' = [run EXCEPT ![r].at = "returned"] /\ UNCHANGED <<scope, tracked, activeScopes>>

NewScope(r) ==
  /\ run[r].at = "idle" /\ (Parent[r] # "none" => Inside(Parent[r]))
  /\ \/ engine # "open" /\ RunReturnsEarly(r)
     \/ engine = "open" /\ Outer(r) # "none" /\ "reject" \in Nested[r] /\ RunReturnsEarly(r)
     \/ /\ engine = "open" /\ Outer(r) # "none" /\ "reuse" \in Nested[r]
        /\ run' = [run EXCEPT ![r] = [at |-> "inside", scope |-> Outer(r), left |-> {}]]
        /\ UNCHANGED <<scope, tracked, activeScopes>>
     \/ /\ engine = "open" /\ (Outer(r) = "none" \/ "isolate" \in Nested[r])
        /\ run' = [run EXCEPT ![r] = [at |-> "inside", scope |-> r, left |-> {}]]
        /\ scope' = [scope EXCEPT ![r] = "open"] /\ activeScopes' = activeScopes + 1
        /\ UNCHANGED tracked
  /\ UNCHANGED <<engineVars, coord, callVars, memo>>

\* The function Run was given returns once the calls and the Runs it made have.
Finished(r) ==
  /\ \A c \in Call : In[c] = r => call[c] \in {"idle", "returned"}
  /\ \A q \in Run : Parent[q] = r => run[q].at \in {"idle", "returned"}

Closeable(s) == scope[s] # "closed"

\* The scope Run closes when its function has returned.
Closes(r) == run[r].scope

\* Scope.Close under the scope's lock: mark it closed and take its operations.
ScopeCloseMarks(r) ==
  LET s == Closes(r) IN
  /\ Inside(r) /\ Finished(r)
  /\ IF Closeable(s)
     THEN /\ run' = [run EXCEPT ![r].at = "closing", ![r].left = tracked[s]]
          /\ scope' = [scope EXCEPT ![s] = "closed"]
          /\ tracked' = [tracked EXCEPT ![s] = {}]
     ELSE run' = [run EXCEPT ![r].at = "returned"] /\ UNCHANGED <<scope, tracked>>
  /\ UNCHANGED <<engineVars, coord, callVars, memo, activeScopes>>

\* Flush an operation of the scope and drop its memo table.
DropMemo(r, o) ==
  /\ run[r].at = "closing" /\ o \in run[r].left
  /\ run' = [run EXCEPT ![r].left = @ \ {o}]
  /\ memo' = [memo EXCEPT ![o][run[r].scope] = {}]
  /\ UNCHANGED <<engineVars, coord, callVars, scope, tracked, activeScopes>>

ScopeCloseEnds(r) ==
  /\ run[r].at = "closing" /\ run[r].left = {}
  /\ run' = [run EXCEPT ![r].at = "returned"] /\ activeScopes' = activeScopes - 1
  /\ UNCHANGED <<engineVars, coord, callVars, memo, scope, tracked>>
-----------------------------------------------------------------------------
(* Do: the scope, the engine, the memo table, then the coordinator. *)

ScopeOf(c) == run[In[c]].scope
Bound(o) == \E b \in Binder : BindOp[b] = o /\ bind[b] = "bound"

Returns(c, a) == call' = [call EXCEPT ![c] = "returned"] /\ answer' = [answer EXCEPT ![c] = a]
Goes(c, at) == call' = [call EXCEPT ![c] = at] /\ UNCHANGED answer

\* The call without a scope runs the scalar fallback, or is refused.
FallsBack(c, err) == Returns(c, IF Fallback THEN "fallback" ELSE err)

CheckScope(c) ==
  /\ call[c] = "idle" /\ Bound(Asks[c].op)
  /\ \/ In[c] = "none" /\ FallsBack(c, "scopeRequired")
     \/ /\ In[c] # "none" /\ Inside(In[c])
        /\ IF scope[ScopeOf(c)] = "open" THEN Goes(c, "inScope") ELSE Returns(c, "scopeClosed")
  /\ UNCHANGED <<engineVars, coord, scopeVars, memo>>

CheckEngine(c) ==
  /\ call[c] = "inScope"
  /\ IF engine = "open" THEN Goes(c, "accepted") ELSE FallsBack(c, "closing")
  /\ UNCHANGED <<engineVars, coord, scopeVars, memo>>

\* The records of the memo table of operation o in scope s.
Records(o, s) == UNION {Range(t) : t \in memo[o][s]}

\* Mutant: the identity of a record is not confirmed.
HitsByHash(c) == Records(Asks[c].op, ScopeOf(c))

Hits(c) == {m \in Records(Asks[c].op, ScopeOf(c)) : m.key = Asks[c].key}

\* memoTableFor creates the table, get looks into it.
MemoGet(c) ==
  LET o == Asks[c].op s == ScopeOf(c) IN
  /\ call[c] = "accepted"
  /\ memo' = IF memo[o][s] = {} THEN [memo EXCEPT ![o][s] = {<<>>}] ELSE memo
  /\ \/ \E m \in Hits(c) : Returns(c, m.kind)
     \/ Hits(c) = {} /\ c \in Broken /\ Returns(c, "broken")
     \/ Hits(c) = {} /\ Goes(c, "missed")
  /\ UNCHANGED <<engineVars, coord, scopeVars>>

\* Mutant: the operation is not recorded.
TrackedNot(s, o) == tracked

Tracked(s, o) == [tracked EXCEPT ![s] = @ \cup {o}]

TrackOp(c) ==
  /\ call[c] = "missed" /\ Goes(c, "tracked")
  /\ tracked' = Tracked(ScopeOf(c), Asks[c].op)
  /\ UNCHANGED <<engineVars, coord, run, scope, activeScopes, memo>>

Gone(o) == coord[o] = "stopped"

\* The coordinator accepts the call, refuses it, or is gone.
SubmitCall(c) ==
  LET o == Asks[c].op IN
  /\ call[c] = "tracked"
  /\ \/ coord[o] = "open" /\ Goes(c, "waiting")
     \/ coord[o] = "open" /\ Returns(c, "full")
     \/ coord[o] = "closing" /\ Returns(c, "closing")
     \/ Gone(o) /\ Returns(c, "closed")
     \/ c \in Cancellable /\ Returns(c, "ctx")
  /\ UNCHANGED <<engineVars, coord, scopeVars, memo>>

Abandon(c) ==
  /\ c \in Cancellable /\ c \in Waiting(Asks[c].op)
  /\ Returns(c, "ctx")
  /\ UNCHANGED <<engineVars, coord, scopeVars, memo>>

\* The coordinator has stopped; select may choose this over a ready result.
CoordinatorGone(c) ==
  /\ call[c] = "waiting" /\ Gone(Asks[c].op)
  /\ Returns(c, "closed")
  /\ UNCHANGED <<engineVars, coord, scopeVars, memo>>

Memoized(kind) == kind = "found" \/ (kind = "missing" /\ MemoNegative)

\* The table t once m was put: an identity is stored once, the oldest goes.
Put(t, m) ==
  IF \E n \in DOMAIN t : t[n].key = m.key THEN t
  ELSE IF Len(t) < MemoMaxItems THEN Append(t, m) ELSE Append(Tail(t), m)

\* The call receives its result; finish memoizes it.
Finish(c) ==
  LET o == Asks[c].op
      s == ScopeOf(c)
      m == [key |-> Asks[c].key, kind |-> answer[c]]
  IN
  /\ call[c] = "waiting" /\ answer[c] # "none"
  /\ Returns(c, answer[c])
  /\ memo' = IF Memoized(answer[c])
             THEN [memo EXCEPT ![o][s] = IF @ = {} THEN {Put(<<>>, m)} ELSE {Put(t, m) : t \in @}]
             ELSE memo
  /\ UNCHANGED <<engineVars, coord, scopeVars>>
-----------------------------------------------------------------------------
BindStep(b) == EnsureOpen(b) \/ RegisterController(b) \/ StartCoordinator(b)
CloseStep(k) ==
  \/ CloseSnapshot(k) \/ SendClose(k) \/ CloseReturnsOne(k)
  \/ CloseCancels(k) \/ CloseWaits(k) \/ CloseEnds(k)
CoordinatorStep(o) == HandleEngineCancel(o) \/ Stop(o)
RunStep(r) ==
  ScopeCloseMarks(r) \/ (\E o \in run[r].left : DropMemo(r, o)) \/ ScopeCloseEnds(r)
CallStep(c) ==
  \/ CheckEngine(c) \/ MemoGet(c) \/ TrackOp(c)
  \/ SubmitCall(c) \/ CoordinatorGone(c) \/ Finish(c)

Next ==
  \/ \E b \in Binder : BindStep(b)
  \/ \E k \in Closer : CloseMarks(k) \/ CloseStep(k) \/ CloserExpires(k)
  \/ \E o \in Op : CoordinatorStep(o)
  \/ \E r \in Run : NewScope(r) \/ RunStep(r)
  \/ \E c \in Call : CheckScope(c) \/ CallStep(c) \/ Serve(c) \/ Abandon(c)

Spec == Init /\ [][Next]_vars

\* Goroutines take their steps and the coordinators keep their promise; nobody
\* has to bind, close, open a scope or make a call.
Fairness ==
  /\ \A b \in Binder : WF_vars(RegisterController(b) \/ StartCoordinator(b))
  /\ \A k \in Closer : WF_vars(CloseStep(k))
  /\ \A o \in Op : WF_vars(CoordinatorStep(o))
  /\ \A r \in Run : WF_vars(RunStep(r))
  /\ \A c \in Call : WF_vars(CallStep(c)) /\ WF_vars(Serve(c))

FairSpec == Spec /\ Fairness
=============================================================================
