-------------------------- MODULE LifecycleProperties --------------------------
(* What Bind, Close, Run and Do promise together, over the model of Lifecycle. *)
EXTENDS Lifecycle

\* A Close that returned without an error leaves nothing behind: the coordinator
\* of every bound operation has stopped, also of those bound while it ran, and no
\* call waits for one (registerController, controllersSnapshot, wg.Wait).
CloseLeavesNothing ==
  \A k \in Closer : closer[k].at = "returned" /\ ~closer[k].err =>
    \A o \in registered : coord[o] = "stopped" /\ Waiting(o) = {}

\* Once the Run that created a scope has returned, no operation keeps a memo
\* table for the scope (trackOp, Scope.Close, dropMemo).
ClosedKeepsNoMemo ==
  \A r \in Run : run[r].at = "returned" => \A o \in Op : memo[o][r] = {}

\* A scope is closed by nobody but the Run that created it (Scope.Close, NewScope).
OnlyOwnerCloses ==
  \A s \in Run : scope[s] = "closed" => run[s].at \in {"closing", "returned"}

\* The gauge of active scopes counts the scopes that are open or being closed
\* (NewScope, Scope.Close).
ActiveScopesExact ==
  activeScopes = Cardinality({s \in Run : scope[s] = "open"})
                 + Cardinality({r \in Run : run[r].at = "closing"})

\* A memo table holds an identity once, within its limit, and only answers that
\* a call for that identity made in this scope received (get, put, evictOldest).
MemoSound ==
  \A o \in Op : \A s \in Run : \A t \in memo[o][s] :
    /\ Len(t) <= MemoMaxItems
    /\ \A m, n \in DOMAIN t : t[m].key = t[n].key => m = n
    /\ \A m \in DOMAIN t : \E c \in Call :
         /\ In[c] # "none" /\ ScopeOf(c) = s /\ Asks[c] = [op |-> o, key |-> t[m].key]
         /\ call[c] = "returned" /\ answer[c] = t[m].kind

\* A call answered from the memo table repeats what an earlier call of its scope
\* for the same operation and key was told by the provider (Do, finishMemo).
HitsRepeat ==
  [][\A c \in Call : call[c] = "accepted" /\ call'[c] = "returned" /\ answer'[c] # "broken" =>
       \E d \in Call \ {c} :
         /\ call[d] = "returned" /\ answer[d] = answer'[c]
         /\ In[d] # "none" /\ ScopeOf(d) = ScopeOf(c) /\ Asks[d] = Asks[c]]_vars

\* A Close that started eventually returns, also with operations being bound
\* (closeController waits for a coordinator that is registered and not started).
CloseReturns ==
  \A k \in Closer : closer[k].at = "marked" ~> closer[k].at = "returned"

\* A Run that entered its function eventually returns (Run, Scope.Close).
RunsReturn == \A r \in Run : Inside(r) ~> run[r].at = "returned"
=============================================================================
