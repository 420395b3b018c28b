------------------------------ MODULE Operation ------------------------------
(***************************************************************************)
(* What a bound operation promises the callers of Do (src/runtime), without *)
(* queues, batches, deduplication or timers: a call asks, is accepted or    *)
(* refused, an accepted call is answered once, and the operation stops only *)
(* when nobody it accepted is left without an answer.  A call may leave at  *)
(* any time with its context, and leaves a stopped operation.               *)
(***************************************************************************)
CONSTANTS
  Caller,     \* the calls of Do
  Refusals,   \* why a submission is turned away
  Kinds       \* what an accepted call is answered with

VARIABLES
  mode,       \* "open", "closing" or "stopped"
  status,     \* [Caller -> {"idle", "asking", "accepted", "returned"}]
  answer      \* [Caller -> {"none", "ctx"} \cup Refusals \cup Kinds]

vars == <<mode, status, answer>>

Init ==
  /\ mode = "open"
  /\ status = [c \in Caller |-> "idle"] /\ answer = [c \in Caller |-> "none"]

\* The accepted calls that still wait.
Unanswered == {c \in Caller : status[c] = "accepted" /\ answer[c] = "none"}

Ask(c) ==
  /\ mode # "stopped" /\ status[c] = "idle"
  /\ status' = [status EXCEPT ![c] = "asking"]
  /\ UNCHANGED <<mode, answer>>

Accept(c) ==
  /\ mode = "open" /\ status[c] = "asking" /\ answer[c] = "none"
  /\ status' = [status EXCEPT ![c] = "accepted"]
  /\ UNCHANGED <<mode, answer>>

Refuse(c) ==
  /\ mode # "stopped" /\ status[c] = "asking" /\ answer[c] = "none"
  /\ \E r \in Refusals : answer' = [answer EXCEPT ![c] = r]
  /\ UNCHANGED <<mode, status>>

\* Accepted calls are answered together, each for the first time.
Serve ==
  /\ mode # "stopped"
  /\ \E S \in SUBSET Unanswered : \E k \in [S -> Kinds] :
       answer' = [c \in Caller |-> IF c \in S THEN k[c] ELSE answer[c]]
  /\ UNCHANGED <<mode, status>>

Return(c) ==
  /\ status[c] \in {"asking", "accepted"} /\ answer[c] # "none"
  /\ status' = [status EXCEPT ![c] = "returned"]
  /\ UNCHANGED <<mode, answer>>

\* The call's context ended before it had an answer.
Leave(c) ==
  /\ status[c] # "returned" /\ answer[c] = "none"
  /\ status' = [status EXCEPT ![c] = "returned"]
  /\ answer' = [answer EXCEPT ![c] = "ctx"]
  /\ UNCHANGED mode

\* The call finds the operation stopped.
FindStopped(c) ==
  /\ mode = "stopped" /\ status[c] # "returned"
  /\ status' = [status EXCEPT ![c] = "returned"]
  /\ answer' = [answer EXCEPT ![c] = "closed"]
  /\ UNCHANGED mode

Close == mode = "open" /\ mode' = "closing" /\ UNCHANGED <<status, answer>>

Stop ==
  /\ mode # "stopped" /\ Unanswered = {}
  /\ mode' = "stopped" /\ UNCHANGED <<status, answer>>

\* The engine is canceled: every accepted call is answered at once.
Cancel ==
  /\ mode \in {"open", "closing"} /\ mode' = "closing"
  /\ answer' = [c \in Caller |-> IF c \in Unanswered THEN "closed" ELSE answer[c]]
  /\ UNCHANGED status

Next ==
  \/ Close \/ Stop \/ Cancel \/ Serve
  \/ \E c \in Caller : \/ Ask(c) \/ Accept(c) \/ Refuse(c) \/ Return(c)
                       \/ Leave(c) \/ FindStopped(c)

Spec == Init /\ [][Next]_vars
=============================================================================
