------------------------- MODULE CoordinatorRefinement -------------------------
(* The coordinator and the calls of Do implement Operation. *)
EXTENDS CoordinatorProperties

OperationMode == IF pc = "stopped" THEN "stopped" ELSE IF closing THEN "closing" ELSE "open"

\* A call is accepted once its admission is in its reply channel.
OperationStatus ==
  [c \in Caller |->
     CASE doing[c] = "submitted" -> IF "admitted" \in reply[c] THEN "accepted" ELSE "asking"
       [] doing[c] = "admitted" -> "accepted"
       [] OTHER -> doing[c]]

\* What a call returned, or what is in its channels.
OperationAnswer ==
  [c \in Caller |->
     IF doing[c] = "returned" THEN outcome[c]
     ELSE IF reply[c] \cap Refusals # {} THEN CHOOSE r \in Refusals : r \in reply[c]
     ELSE IF result[c] # {} THEN (CHOOSE r \in result[c] : TRUE).kind
     ELSE "none"]

Promise ==
  INSTANCE Operation WITH Kinds <- ResultKinds, mode <- OperationMode,
                          status <- OperationStatus, answer <- OperationAnswer

\* The coordinator goroutine, its queue, batches and channels, and Do on the other
\* side of them, behave as the operation callers are promised: nobody is accepted
\* after a close, an accepted call is answered once, and the goroutine does not
\* stop while an accepted call has no answer.
KeepsPromise == Promise!Spec
===============================================================================
