------------------------------ MODULE MCLifecycle ------------------------------
(* Constant values for the TLC runs of the engine's life. *)
EXTENDS LifecycleProperties

CONSTANTS b1, b2, e1, e2, r1, r2, c1, c2, c3, c4

\* One call of Bind for each operation.
Binds == [b \in Binder |-> IF b = b2 THEN 2 ELSE 1]

\* r2 runs inside r1.
Inner == [r \in Run |-> IF r = r2 THEN r1 ELSE "none"]
Separate == [r \in Run |-> {"isolate", "reject"}]
Shared == [r \in Run |-> {"reuse"}]

\* Calls in the outer scope and one without a scope; c3 may find what c1 was told.
Together == [c \in Call |-> IF c = c4 THEN "none" ELSE r1]

\* Calls in the outer scope, in the inner one, and one without a scope.
Where == [c \in Call |-> IF c = c3 THEN r2 ELSE IF c = c4 THEN "none" ELSE r1]
TwoKeys == [c \in Call |-> [op |-> 1, key |-> IF c = c2 THEN "l" ELSE "k"]]
=============================================================================
