---------------------- MODULE CoordinatorRefinementProofs ----------------------
(* The coordinator and the calls of Do implement Operation: every step of theirs *)
(* is a step of the operation, or none, under the mapping of                     *)
(* CoordinatorRefinement.                                                        *)
EXTENDS CoordinatorRefinement, CoordinatorTheorems

\* Most leaves are first-order and go to Zenon; the others name SMT.
USE ZenonT(30)

(* The mapping, one call at a time. *)

StatusOf(d, r) ==
  CASE d = "submitted" -> IF "admitted" \in r THEN "accepted" ELSE "asking"
    [] d = "admitted" -> "accepted"
    [] OTHER -> d

AnswerOf(d, o, r, s) ==
  IF d = "returned" THEN o
  ELSE IF r \cap Refusals # {} THEN CHOOSE x \in Refusals : x \in r
  ELSE IF s # {} THEN (CHOOSE x \in s : TRUE).kind
  ELSE "none"

\* What the operation shows of a call depends on where the call stands and on its
\* two channels alone.
LEMMA Mapped ==
  /\ OperationStatus = [c \in Caller |-> StatusOf(doing[c], reply[c])]
  /\ OperationStatus' = [c \in Caller |-> StatusOf(doing'[c], reply'[c])]
  /\ OperationAnswer = [c \in Caller |-> AnswerOf(doing[c], outcome[c], reply[c], result[c])]
  /\ OperationAnswer' = [c \in Caller |-> AnswerOf(doing'[c], outcome'[c], reply'[c], result'[c])]
BY DEF OperationStatus, OperationAnswer, StatusOf, AnswerOf

\* A step that leaves the calls and their channels alone shows nothing of them.
LEMMA CallsAlone ==
  ASSUME UNCHANGED <<doing, outcome, reply, result>>
  PROVE  UNCHANGED <<OperationStatus, OperationAnswer>>
BY Mapped

\* A step of one call changes what the operation shows of that call.
LEMMA OneCall ==
  ASSUME NEW c \in Caller,
         \A d \in Caller : d # c => /\ doing'[d] = doing[d] /\ outcome'[d] = outcome[d]
                                    /\ reply'[d] = reply[d] /\ result'[d] = result[d]
  PROVE  /\ OperationStatus' = [OperationStatus EXCEPT ![c] = StatusOf(doing'[c], reply'[c])]
         /\ OperationAnswer' =
              [OperationAnswer EXCEPT ![c] = AnswerOf(doing'[c], outcome'[c], reply'[c], result'[c])]
<1> DEFINE st == [d \in Caller |-> StatusOf(doing[d], reply[d])]
           an == [d \in Caller |-> AnswerOf(doing[d], outcome[d], reply[d], result[d])]
<1>1. [d \in Caller |-> StatusOf(doing'[d], reply'[d])] = [st EXCEPT ![c] = StatusOf(doing'[c], reply'[c])]
    OBVIOUS
<1>2. [d \in Caller |-> AnswerOf(doing'[d], outcome'[d], reply'[d], result'[d])]
        = [an EXCEPT ![c] = AnswerOf(doing'[c], outcome'[c], reply'[c], result'[c])]
    OBVIOUS
<1> QED
    BY <1>1, <1>2, Mapped

\* The words for where a call stands are different from one another.
LEMMA StatusValues ==
  ASSUME NEW r
  PROVE  /\ StatusOf("idle", r) = "idle" /\ StatusOf("returned", r) = "returned"
         /\ StatusOf("admitted", r) = "accepted"
         /\ StatusOf("submitted", r) = (IF "admitted" \in r THEN "accepted" ELSE "asking")
BY DEF StatusOf
--------------------------------------------------------------------------------
(* What is known of a call. *)

\* A submission is answered at most once, and an admitted call has taken its
\* answer from its channel.
Answerable ==
  \A c \in Caller : /\ \A r, s \in reply[c] : r = s
                    /\ doing[c] = "admitted" => reply[c] = {}

\* Nothing was done for a submission that is still held, and an admitted call is
\* no longer held.
LEMMA HeldHasNothing ==
  ASSUME TypeOK, IInv, NEW c \in Caller, Held(c)
  PROVE  /\ reply[c] = {} /\ result[c] = {} /\ doing[c] # "admitted"
         /\ \A i \in Caller : c \notin item[i].waiters
<1>1. c \in awaiting /\ reply[c] = {} /\ \A i \in Caller : c \notin item[i].waiters
    BY InvParts DEF HeldOnce
<1>2. result[c] = {}
    BY <1>1, InvParts DEF AnswersComing
<1>3. FoundOn(c) = {}
    BY <1>1, Typed DEF FoundOn
<1>4. doing[c] # "admitted"
    BY <1>2, <1>3, InvParts DEF AnswersComing
<1> QED
    BY <1>1, <1>2, <1>4

\* What the operation shows of a call, from what is known of it.
LEMMA Shown ==
  ASSUME TypeOK, IInv, Answerable, NEW c \in Caller
  PROVE  LET st == OperationStatus[c]
             an == OperationAnswer[c]
         IN
         /\ st = StatusOf(doing[c], reply[c])
         /\ an = AnswerOf(doing[c], outcome[c], reply[c], result[c])
         /\ doing[c] = "idle" => st = "idle" /\ an = "none"
         /\ doing[c] = "returned" => st = "returned" /\ an = outcome[c]
         /\ doing[c] = "admitted" => st = "accepted"
         /\ doing[c] = "submitted" /\ reply[c] = {} => st = "asking" /\ an = "none"
         /\ doing[c] = "submitted" /\ "admitted" \in reply[c] => st = "accepted"
         /\ \A r \in Refusals : doing[c] = "submitted" /\ r \in reply[c] => st = "asking" /\ an = r
         /\ st = "accepted" /\ an = "none" => result[c] = {}
         /\ st = "accepted" /\ result[c] = {} => an = "none"
         /\ \A r \in result[c] : st = "accepted" => an = r.kind
<1>1. /\ OperationStatus[c] = StatusOf(doing[c], reply[c])
      /\ OperationAnswer[c] = AnswerOf(doing[c], outcome[c], reply[c], result[c])
    BY Mapped
<1>2. doing[c] \in {"idle", "submitted", "admitted", "returned"}
    BY CallTypes
<1>3. \A r, s \in reply[c] : r = s
    BY DEF Answerable
<1>4. doing[c] = "idle" \/ (doing[c] = "submitted" /\ reply[c] = {}) => reply[c] = {} /\ result[c] = {}
    BY HeldHasNothing, InvParts DEF Held, AnswersComing
<1>5. "admitted" \notin Refusals /\ "none" \notin ResultKinds /\ "none" \notin Refusals
    BY DEF Refusals, ResultKinds
<1>6. OperationStatus[c] = "accepted" =>
        /\ doing[c] = "admitted" \/ (doing[c] = "submitted" /\ "admitted" \in reply[c])
        /\ reply[c] \cap Refusals = {}
  <2>1. OperationStatus[c] = "accepted" =>
          doing[c] = "admitted" \/ (doing[c] = "submitted" /\ "admitted" \in reply[c])
      BY <1>1, <1>2 DEF StatusOf
  <2>2. doing[c] = "admitted" => reply[c] = {}
      BY DEF Answerable
  <2> QED
      BY <1>3, <1>5, <2>1, <2>2
<1>7. OperationStatus[c] = "accepted" =>
        OperationAnswer[c] = (IF result[c] # {} THEN (CHOOSE x \in result[c] : TRUE).kind ELSE "none")
  <2>1. "admitted" # "returned" /\ "submitted" # "returned"
      OBVIOUS
  <2> QED
      BY <1>1, <1>6, <2>1 DEF AnswerOf
<1>8. \A r \in result[c] : (CHOOSE x \in result[c] : TRUE) = r
    BY InvParts DEF AnswersComing
<1>9. \A r \in result[c] : r.kind # "none"
  <2>1. \A r \in result[c] : r.kind \in ResultKinds
      BY ResultTypes
  <2> QED
      BY <1>5, <2>1
<1>10. \A r \in result[c] : OperationStatus[c] = "accepted" => OperationAnswer[c] = r.kind
  <2> SUFFICES ASSUME NEW r \in result[c], OperationStatus[c] = "accepted" PROVE OperationAnswer[c] = r.kind
      OBVIOUS
  <2>1. (CHOOSE x \in result[c] : TRUE) = r
      BY <1>8
  <2>2. OperationAnswer[c] = (CHOOSE x \in result[c] : TRUE).kind
      BY <1>7
  <2> QED
      BY <2>1, <2>2
<1>11. OperationStatus[c] = "accepted" /\ OperationAnswer[c] = "none" => result[c] = {}
    BY <1>9, <1>10
<1>12. doing[c] = "idle" => OperationStatus[c] = "idle" /\ OperationAnswer[c] = "none"
    BY <1>1, <1>4 DEF StatusOf, AnswerOf
<1>13. doing[c] = "returned" => OperationStatus[c] = "returned" /\ OperationAnswer[c] = outcome[c]
    BY <1>1 DEF StatusOf, AnswerOf
<1>14. doing[c] = "submitted" /\ reply[c] = {} => OperationStatus[c] = "asking" /\ OperationAnswer[c] = "none"
    BY <1>1, <1>4 DEF StatusOf, AnswerOf
<1>15. ASSUME NEW r \in Refusals, doing[c] = "submitted", r \in reply[c]
       PROVE  OperationStatus[c] = "asking" /\ OperationAnswer[c] = r
  <2>1. "admitted" \notin reply[c] /\ reply[c] \cap Refusals # {}
      BY <1>3, <1>5, <1>15
  <2>2. (CHOOSE x \in Refusals : x \in reply[c]) = r
      BY <1>3, <1>15
  <2>3. OperationStatus[c] = "asking"
      BY <1>1, <1>15, <2>1 DEF StatusOf
  <2>4. doing[c] # "returned"
      BY <1>15
  <2> QED
      BY <1>1, <2>1, <2>2, <2>3, <2>4 DEF AnswerOf
<1>16. /\ doing[c] = "admitted" => OperationStatus[c] = "accepted"
       /\ doing[c] = "submitted" /\ "admitted" \in reply[c] => OperationStatus[c] = "accepted"
    BY <1>1 DEF StatusOf
<1> QED
    BY <1>1, <1>7, <1>10, <1>11, <1>12, <1>13, <1>14, <1>15, <1>16
--------------------------------------------------------------------------------
(* The steps. *)

\* An accepted call shows what is in its result channel.
LEMMA AcceptedShows ==
  ASSUME TypeOK, IInv, Answerable, NEW c \in Caller, OperationStatus[c] = "accepted"
  PROVE  /\ doing[c] = "admitted" \/ (doing[c] = "submitted" /\ "admitted" \in reply[c])
         /\ \A s : s # {} => AnswerOf(doing[c], outcome[c], reply[c], s) = (CHOOSE x \in s : TRUE).kind
<1>1. doing[c] \in {"idle", "submitted", "admitted", "returned"}
    BY CallTypes
<1>2. doing[c] = "admitted" \/ (doing[c] = "submitted" /\ "admitted" \in reply[c])
    BY <1>1, Mapped DEF StatusOf
<1>3. reply[c] \cap Refusals = {}
  <2>1. doing[c] = "admitted" => reply[c] = {}
      BY DEF Answerable
  <2>2. "admitted" \notin Refusals
      BY DEF Refusals
  <2>3. \A r, s \in reply[c] : r = s
      BY DEF Answerable
  <2> QED
      BY <1>2, <2>1, <2>2, <2>3
<1>4. doing[c] # "returned"
    BY <1>2
<1>5. ASSUME NEW s, s # {}
      PROVE  AnswerOf(doing[c], outcome[c], reply[c], s) = (CHOOSE x \in s : TRUE).kind
    BY <1>3, <1>4, <1>5 DEF AnswerOf
<1> QED
    BY <1>2, <1>5

\* A result that arrives for another call, refused or gone, is not seen.
LEMMA OthersShowTheSame ==
  ASSUME TypeOK, IInv, Answerable, NEW c \in Caller, NEW s, s # {},
         s # result[c] => result[c] = {} /\ ~Held(c), c \notin Promise!Unanswered
  PROVE  AnswerOf(doing[c], outcome[c], reply[c], s) = OperationAnswer[c]
<1>1. OperationAnswer[c] = AnswerOf(doing[c], outcome[c], reply[c], result[c])
    BY Mapped
<1>2. CASE s = result[c]
    BY <1>1, <1>2
<1>3. CASE s # result[c]
  <2>1. result[c] = {} /\ ~Held(c)
      BY <1>3
  <2>2. ~(OperationStatus[c] = "accepted" /\ OperationAnswer[c] = "none")
      BY DEF Promise!Unanswered
  <2>3. OperationStatus[c] # "accepted"
      BY <2>1, <2>2, Shown
  <2>4. doing[c] = "returned" \/ (doing[c] = "submitted" /\ reply[c] \cap Refusals # {})
    <3>1. doing[c] \in {"idle", "submitted", "admitted", "returned"}
        BY CallTypes
    <3>2. doing[c] # "idle" /\ ~(doing[c] = "submitted" /\ reply[c] = {})
        BY <2>1, InvParts DEF Held, AnswersComing
    <3>3. doing[c] # "admitted" /\ ~(doing[c] = "submitted" /\ "admitted" \in reply[c])
        BY <2>3, Shown
    <3>4. reply[c] \subseteq Refusals \cup {"admitted"}
        BY CallTypes
    <3> QED
        BY <3>1, <3>2, <3>3, <3>4
  <2>5. CASE doing[c] = "returned"
      BY <1>1, <2>5 DEF AnswerOf
  <2>6. CASE doing[c] # "returned"
    <3>1. reply[c] \cap Refusals # {}
        BY <2>4, <2>6
    <3>2. \A t : AnswerOf(doing[c], outcome[c], reply[c], t) = (CHOOSE x \in Refusals : x \in reply[c])
        BY <2>6, <3>1 DEF AnswerOf
    <3> QED
        BY <1>1, <3>2
  <2> QED
      BY <2>5, <2>6
<1> QED
    BY <1>2, <1>3

\* Deliver gives results to calls the operation accepted and has not answered,
\* and to none other that would show them.
LEMMA ServeStep ==
  ASSUME TypeOK, IInv, Answerable, TypeOK', UNCHANGED <<doing, outcome, reply>>,
         OperationMode' = OperationMode, OperationMode # "stopped",
         \A c \in Caller : result'[c] # result[c] => result[c] = {} /\ ~Held(c)
  PROVE  Promise!Serve
<1> DEFINE S == {c \in Promise!Unanswered : result'[c] # {}}
           k == [c \in S |-> (CHOOSE r \in result'[c] : TRUE).kind]
<1>1. OperationStatus' = OperationStatus
    BY Mapped
<1>2. S \in SUBSET Promise!Unanswered /\ S \subseteq Caller
    BY DEF Promise!Unanswered
<1>3. k \in [S -> ResultKinds]
  <2> SUFFICES ASSUME NEW c \in S PROVE (CHOOSE r \in result'[c] : TRUE).kind \in ResultKinds
      OBVIOUS
  <2>1. PICK x : x = (CHOOSE r \in result'[c] : TRUE)
      OBVIOUS
  <2>2. x \in result'[c]
      BY <2>1
  <2>3. \A r \in result'[c] : r.kind \in ResultKinds
      BY <1>2, ResultTypes
  <2> QED
      BY <2>1, <2>2, <2>3
<1>4. ASSUME NEW c \in Caller
      PROVE  AnswerOf(doing[c], outcome[c], reply[c], result'[c])
               = IF c \in S THEN k[c] ELSE OperationAnswer[c]
  <2>1. CASE c \in S
    <3>1. OperationStatus[c] = "accepted" /\ result'[c] # {}
        BY <2>1 DEF Promise!Unanswered
    <3>2. AnswerOf(doing[c], outcome[c], reply[c], result'[c]) = (CHOOSE r \in result'[c] : TRUE).kind
        BY <3>1, AcceptedShows
    <3>3. k[c] = (CHOOSE r \in result'[c] : TRUE).kind
        BY <2>1
    <3> QED
        BY <2>1, <3>2, <3>3
  <2>2. CASE c \notin S
    <3>1. CASE result'[c] = result[c]
        BY <2>2, <3>1, Mapped
    <3>2. CASE result'[c] # result[c]
      <4>1. result'[c] # {} /\ c \notin Promise!Unanswered
          BY <2>2, <3>2
      <4>2. AnswerOf(doing[c], outcome[c], reply[c], result'[c]) = OperationAnswer[c]
          BY <4>1, OthersShowTheSame
      <4> QED
          BY <2>2, <4>2
    <3> QED
        BY <3>1, <3>2
  <2> QED
      BY <2>1, <2>2
<1> HIDE DEF S, k
<1>5. OperationAnswer' = [c \in Caller |-> IF c \in S THEN k[c] ELSE OperationAnswer[c]]
    BY <1>4, Mapped
<1> QED
    BY <1>1, <1>2, <1>3, <1>5 DEF Promise!Serve

\* Deliver answers waiters only, and only those that have no result yet.
LEMMA DeliveredTo ==
  ASSUME TypeOK, IInv, NEW S \in SUBSET Caller, NEW kind, Deliver(S, kind), NEW c \in Caller,
         result'[c] # result[c]
  PROVE  result[c] = {} /\ ~Held(c)
<1>1. c \in awaiting
    BY DEF Deliver
<1>2. result[c] = {}
    BY <1>1, InvParts DEF AnswersComing
<1>3. ASSUME \A i \in Caller : c \notin item[i].waiters PROVE FALSE
  <2>1. {j \in S : c \in item[j].waiters} = {}
      BY <1>3
  <2>2. result'[c] = result[c] \cup {[item |-> i, kind |-> kind[i]] : i \in {j \in S : c \in item[j].waiters}}
      BY <1>1 DEF Deliver
  <2>3. result'[c] = result[c] \cup {[item |-> i, kind |-> kind[i]] : i \in {}}
      BY <2>1, <2>2
  <2> QED
      BY <2>3
<1> QED
    BY <1>2, <1>3, HeldHasNothing

\* The operation is in the mode of the coordinator.
LEMMA Modes ==
  /\ pc = "stopped" => OperationMode = "stopped"
  /\ pc # "stopped" => OperationMode = IF closing THEN "closing" ELSE "open"
  /\ pc' = "stopped" => OperationMode' = "stopped"
  /\ pc' # "stopped" => OperationMode' = IF closing' THEN "closing" ELSE "open"
BY DEF OperationMode

\* A drained coordinator has answered every call the operation accepted.
LEMMA DrainedAnswered ==
  ASSUME TypeOK, IInv, Answerable, Accounts, Drained
  PROVE  Promise!Unanswered = {}
<1> SUFFICES ASSUME NEW c \in Caller, OperationStatus[c] = "accepted", OperationAnswer[c] = "none"
             PROVE  FALSE
    BY DEF Promise!Unanswered
<1>1. result[c] = {}
    BY Shown
<1>2. FoundOn(c) = {}
    BY DrainedHoldsNothing, Typed DEF FoundOn
<1>3. doing[c] \in {"idle", "submitted", "admitted", "returned"}
    BY CallTypes
<1>4. doing[c] = "admitted" \/ (doing[c] = "submitted" /\ "admitted" \in reply[c])
    BY <1>3, Mapped DEF StatusOf
<1> QED
    BY <1>1, <1>2, <1>4, InvParts DEF AnswersComing

\* Showing of a call what was shown already changes nothing.
LEMMA ShownAgain ==
  ASSUME NEW c \in Caller
  PROVE  /\ [OperationStatus EXCEPT ![c] = OperationStatus[c]] = OperationStatus
         /\ [OperationAnswer EXCEPT ![c] = OperationAnswer[c]] = OperationAnswer
BY Mapped

\* handleSubmit accepts the call, refuses it, or parks it; what it does for a call
\* that has left is not seen.
LEMMA HandleRefines ==
  ASSUME TypeOK, IInv, Answerable, Handle
  PROVE  [Promise!Next]_(Promise!vars)
<1>1. PICK c \in Caller : /\ HandleSubmit(c) /\ doing[c] # "idle" /\ reply[c] = {}
                          /\ c \in Range(todo) /\ UNCHANGED <<doing, result>>
    BY HandleHead
<1>2. Held(c) /\ result[c] = {} /\ doing[c] # "admitted"
    BY <1>1, HeldHasNothing DEF Held
<1>3. doing[c] = "submitted" \/ doing[c] = "returned"
    BY <1>1, <1>2, CallTypes
<1>4. UNCHANGED <<outcome, closing>>
    BY DEF Handle, callVars
<1>5. OperationMode' = OperationMode /\ OperationMode # "stopped" /\ (~closing => OperationMode = "open")
  <2>1. pc # "stopped" /\ pc' # "stopped"
      BY DEF Handle
  <2>2. OperationMode' = OperationMode /\ OperationMode = IF closing THEN "closing" ELSE "open"
      BY <1>4, <2>1 DEF OperationMode
  <2> QED
      BY <2>2
<1>6. \/ reply' = reply
      \/ reply' = [reply EXCEPT ![c] = @ \cup {"admitted"}] /\ ~closing
      \/ \E r \in Refusals : reply' = [reply EXCEPT ![c] = @ \cup {r}]
  <2>1. {"closing", "full", "partitions", "fallback"} = Refusals
      BY DEF Refusals
  <2> QED
      BY <1>1, <2>1 DEF HandleSubmit, SubmitWhileClosing, SubmitNoPartition, SubmitOverLimit, SubmitJoin,
                        SubmitEnqueue, ApplyOverflow, Reply, Accepting
<1>7. CASE reply' = reply
  <2>1. UNCHANGED <<OperationStatus, OperationAnswer>>
      BY <1>1, <1>4, <1>7, CallsAlone
  <2> QED
      BY <1>5, <2>1 DEF Promise!vars
<1>8. ASSUME NEW x, reply' = [reply EXCEPT ![c] = @ \cup {x}]
      PROVE  /\ OperationStatus' = [OperationStatus EXCEPT ![c] = StatusOf(doing[c], {x})]
             /\ OperationAnswer' = [OperationAnswer EXCEPT ![c] = AnswerOf(doing[c], outcome[c], {x}, {})]
  <2>1. reply'[c] = {x} /\ \A d \in Caller : d # c => reply'[d] = reply[d]
      BY <1>1, <1>8, CallTypes
  <2>2. \A d \in Caller : d # c => /\ doing'[d] = doing[d] /\ outcome'[d] = outcome[d]
                                   /\ reply'[d] = reply[d] /\ result'[d] = result[d]
      BY <1>1, <1>4, <2>1
  <2>3. doing'[c] = doing[c] /\ outcome'[c] = outcome[c] /\ result'[c] = {}
      BY <1>1, <1>2, <1>4
  <2> QED
      BY <2>1, <2>2, <2>3, OneCall
<1>9. CASE doing[c] = "returned"
  <2>1. ASSUME NEW x, reply' = [reply EXCEPT ![c] = @ \cup {x}]
        PROVE  UNCHANGED <<OperationStatus, OperationAnswer>>
    <3>1. StatusOf("returned", {x}) = OperationStatus[c]
        BY <1>9, Shown, StatusValues
    <3>2. AnswerOf("returned", outcome[c], {x}, {}) = OperationAnswer[c]
        BY <1>9, Shown DEF AnswerOf
    <3>3. /\ OperationStatus' = [OperationStatus EXCEPT ![c] = OperationStatus[c]]
          /\ OperationAnswer' = [OperationAnswer EXCEPT ![c] = OperationAnswer[c]]
        BY <1>8, <1>9, <2>1, <3>1, <3>2
    <3> QED
        BY <3>3, ShownAgain
  <2>2. reply' # reply => UNCHANGED <<OperationStatus, OperationAnswer>>
      BY <1>6, <2>1
  <2> QED
      BY <1>5, <1>7, <2>2 DEF Promise!vars
<1>10. CASE doing[c] = "submitted"
  <2>1. OperationStatus[c] = "asking" /\ OperationAnswer[c] = "none"
      BY <1>1, <1>10, Shown
  <2>2. CASE reply' = [reply EXCEPT ![c] = @ \cup {"admitted"}] /\ ~closing
    <3>1. StatusOf("submitted", {"admitted"}) = "accepted"
        BY StatusValues
    <3>2. AnswerOf("submitted", outcome[c], {"admitted"}, {}) = "none"
        BY DEF AnswerOf, Refusals
    <3>3. OperationStatus' = [OperationStatus EXCEPT ![c] = "accepted"]
        BY <1>8, <1>10, <2>2, <3>1
    <3>4. OperationAnswer' = OperationAnswer
      <4>1. OperationAnswer' = [OperationAnswer EXCEPT ![c] = OperationAnswer[c]]
        <5>1. AnswerOf("submitted", outcome[c], {"admitted"}, {}) = OperationAnswer[c]
            BY <2>1, <3>2
        <5> QED
            BY <1>8, <1>10, <2>2, <5>1
      <4> QED
          BY <4>1, ShownAgain
    <3>5. Promise!Accept(c)
        BY <1>5, <2>1, <2>2, <3>3, <3>4 DEF Promise!Accept
    <3> QED
        BY <3>5 DEF Promise!Next
  <2>3. ASSUME NEW r \in Refusals, reply' = [reply EXCEPT ![c] = @ \cup {r}]
        PROVE  Promise!Next
    <3>1. StatusOf("submitted", {r}) = OperationStatus[c]
      <4>1. "admitted" \notin {r}
          BY DEF Refusals
      <4> QED
          BY <2>1, <4>1, StatusValues
    <3>2. AnswerOf("submitted", outcome[c], {r}, {}) = r
      <4>1. {r} \cap Refusals # {} /\ (CHOOSE x \in Refusals : x \in {r}) = r
          BY <2>3
      <4>2. "submitted" # "returned"
          OBVIOUS
      <4> QED
          BY <4>1, <4>2 DEF AnswerOf
    <3>3. OperationStatus' = OperationStatus
      <4>1. OperationStatus' = [OperationStatus EXCEPT ![c] = OperationStatus[c]]
          BY <1>8, <1>10, <2>3, <3>1
      <4> QED
          BY <4>1, ShownAgain
    <3>4. OperationAnswer' = [OperationAnswer EXCEPT ![c] = r]
        BY <1>8, <1>10, <2>3, <3>2
    <3>5. Promise!Refuse(c)
        BY <1>5, <2>1, <2>3, <3>3, <3>4 DEF Promise!Refuse
    <3> QED
        BY <3>5 DEF Promise!Next
  <2> QED
      BY <1>6, <1>7, <2>2, <2>3
<1> QED
    BY <1>3, <1>9, <1>10

\* A call that returns shows its outcome from then on.
LEMMA ReturnShows ==
  ASSUME TypeOK, NEW c \in Caller, NEW o, Return(c, o),
         \A d \in Caller : d # c => reply'[d] = reply[d] /\ result'[d] = result[d]
  PROVE  /\ OperationStatus' = [OperationStatus EXCEPT ![c] = "returned"]
         /\ OperationAnswer' = [OperationAnswer EXCEPT ![c] = o]
<1>1. /\ doing'[c] = "returned" /\ outcome'[c] = o
      /\ \A d \in Caller : d # c => doing'[d] = doing[d] /\ outcome'[d] = outcome[d]
    BY CallTypes DEF Return
<1>2. /\ OperationStatus' = [OperationStatus EXCEPT ![c] = StatusOf("returned", reply'[c])]
      /\ OperationAnswer' = [OperationAnswer EXCEPT ![c] = AnswerOf("returned", o, reply'[c], result'[c])]
    BY <1>1, OneCall
<1>3. StatusOf("returned", reply'[c]) = "returned" /\ AnswerOf("returned", o, reply'[c], result'[c]) = o
    BY StatusValues DEF AnswerOf
<1> QED
    BY <1>2, <1>3

\* Do, on the caller's side of the channels: it takes its answer, leaves with its
\* context, or finds the coordinator stopped.
LEMMA CallRefines ==
  ASSUME TypeOK, IInv, Answerable, NEW c \in Caller, CallStep(c)
  PROVE  [Promise!Next]_(Promise!vars)
<1>1. OperationMode' = OperationMode
  <2>1. UNCHANGED <<pc, closing>>
      BY DEF CallStep, NotSubmitted, AwaitReply, AwaitResult, Abandon, CoordinatorGone, otherThanCalls,
             loopVars
  <2> QED
      BY <2>1 DEF OperationMode
<1>2. pc = "stopped" => OperationMode = "stopped"
    BY Modes
<1>3. ASSUME Return(c, "ctx"), UNCHANGED <<reply, result>>, OperationAnswer[c] = "none", doing[c] # "returned"
      PROVE  Promise!Next
  <2>1. /\ OperationStatus' = [OperationStatus EXCEPT ![c] = "returned"]
        /\ OperationAnswer' = [OperationAnswer EXCEPT ![c] = "ctx"]
      BY <1>3, ReturnShows
  <2>2. OperationStatus[c] # "returned"
    <3>1. doing[c] \in {"idle", "submitted", "admitted"}
        BY <1>3, CallTypes
    <3> QED
        BY <3>1, Mapped DEF StatusOf
  <2>3. Promise!Leave(c)
      BY <1>1, <1>3, <2>1, <2>2 DEF Promise!Leave
  <2> QED
      BY <2>3 DEF Promise!Next
<1>4. ASSUME Return(c, "closed"), UNCHANGED <<reply, result>>, pc = "stopped", doing[c] # "returned"
      PROVE  Promise!Next
  <2>1. /\ OperationStatus' = [OperationStatus EXCEPT ![c] = "returned"]
        /\ OperationAnswer' = [OperationAnswer EXCEPT ![c] = "closed"]
      BY <1>4, ReturnShows
  <2>2. OperationStatus[c] # "returned"
    <3>1. doing[c] \in {"idle", "submitted", "admitted"}
        BY <1>4, CallTypes
    <3> QED
        BY <3>1, Mapped DEF StatusOf
  <2>3. Promise!FindStopped(c)
      BY <1>1, <1>2, <1>4, <2>1, <2>2 DEF Promise!FindStopped
  <2> QED
      BY <2>3 DEF Promise!Next
<1>5. ASSUME NEW o, Return(c, o), OperationStatus[c] \in {"asking", "accepted"}, OperationAnswer[c] = o,
             o # "none", \A d \in Caller : d # c => reply'[d] = reply[d] /\ result'[d] = result[d]
      PROVE  Promise!Next
  <2>1. /\ OperationStatus' = [OperationStatus EXCEPT ![c] = "returned"]
        /\ OperationAnswer' = [OperationAnswer EXCEPT ![c] = OperationAnswer[c]]
      BY <1>5, ReturnShows
  <2>2. OperationAnswer' = OperationAnswer
      BY <2>1, ShownAgain
  <2>3. Promise!Return(c)
      BY <1>1, <1>5, <2>1, <2>2 DEF Promise!Return
  <2> QED
      BY <2>3 DEF Promise!Next
<1>6. CASE NotSubmitted(c)
  <2>1. doing[c] = "idle" /\ UNCHANGED <<reply, result>>
      BY <1>6 DEF NotSubmitted, deliveryVars
  <2>2. OperationAnswer[c] = "none" /\ doing[c] # "returned"
    <3>1. "idle" # "returned"
        OBVIOUS
    <3> QED
        BY <2>1, <3>1, Shown
  <2>3. Return(c, "ctx") \/ (pc = "stopped" /\ Return(c, "closed"))
      BY <1>6 DEF NotSubmitted
  <2> QED
      BY <1>3, <1>4, <2>1, <2>2, <2>3
<1>7. CASE AwaitReply(c)
  <2>1. PICK r \in reply[c] :
          IF r = "admitted" THEN doing' = [doing EXCEPT ![c] = "admitted"] /\ UNCHANGED outcome
          ELSE Return(c, r)
      BY <1>7 DEF AwaitReply
  <2>2. doing[c] = "submitted" /\ reply' = [reply EXCEPT ![c] = {}] /\ result' = result
      BY <1>7 DEF AwaitReply, deliveryVars
  <2>3. reply'[c] = {} /\ \A d \in Caller : d # c => reply'[d] = reply[d]
      BY <2>2, CallTypes
  <2>4. CASE r = "admitted"
    <3>1. UNCHANGED <<outcome, result>> /\ doing'[c] = "admitted" /\ \A d \in Caller : d # c => doing'[d] = doing[d]
        BY <2>1, <2>2, <2>4, CallTypes
    <3>2. /\ OperationStatus' = [OperationStatus EXCEPT ![c] = StatusOf("admitted", {})]
          /\ OperationAnswer' = [OperationAnswer EXCEPT ![c] = AnswerOf("admitted", outcome[c], {}, result[c])]
        BY <2>3, <3>1, OneCall
    <3>3. StatusOf("admitted", {}) = OperationStatus[c]
        BY <2>1, <2>2, <2>4, Shown, StatusValues
    <3>4. AnswerOf("admitted", outcome[c], {}, result[c]) = OperationAnswer[c]
      <4>1. reply[c] = {"admitted"}
          BY SMTT(30), <2>1, <2>4 DEF Answerable
      <4>2. OperationAnswer[c] = AnswerOf("submitted", outcome[c], {"admitted"}, result[c])
          BY <2>2, <4>1, Mapped
      <4>3. {"admitted"} \cap Refusals = {} /\ {} \cap Refusals = {}
          BY DEF Refusals
      <4>4. "admitted" # "returned" /\ "submitted" # "returned"
          OBVIOUS
      <4> QED
          BY <4>2, <4>3, <4>4 DEF AnswerOf
    <3>5. /\ OperationStatus' = [OperationStatus EXCEPT ![c] = OperationStatus[c]]
          /\ OperationAnswer' = [OperationAnswer EXCEPT ![c] = OperationAnswer[c]]
        BY <3>2, <3>3, <3>4
    <3>6. UNCHANGED <<OperationStatus, OperationAnswer>>
        BY <3>5, ShownAgain
    <3> QED
        BY <1>1, <3>6 DEF Promise!vars
  <2>5. CASE r # "admitted"
    <3>1. r \in Refusals /\ Return(c, r)
        BY <2>1, <2>5, CallTypes
    <3>2. OperationStatus[c] = "asking" /\ OperationAnswer[c] = r
        BY <2>1, <2>2, <3>1, Shown
    <3>3. r # "none"
        BY <3>1 DEF Refusals
    <3> QED
        BY <1>5, <2>2, <2>3, <3>1, <3>2, <3>3
  <2> QED
      BY <2>4, <2>5
<1>8. CASE AwaitResult(c)
  <2>1. PICK r \in result[c] : Return(c, r.kind)
      BY <1>8 DEF AwaitResult
  <2>2. doing[c] = "admitted" /\ result' = [result EXCEPT ![c] = {}] /\ reply' = reply
      BY <1>8 DEF AwaitResult
  <2>3. \A d \in Caller : d # c => reply'[d] = reply[d] /\ result'[d] = result[d]
      BY <2>2, CallTypes
  <2>4. OperationStatus[c] = "accepted" /\ OperationAnswer[c] = r.kind
      BY <2>1, <2>2, Shown
  <2>5. r.kind # "none"
    <3>1. r.kind \in ResultKinds
        BY ResultTypes
    <3> QED
        BY <3>1 DEF ResultKinds
  <2> QED
      BY <1>5, <2>1, <2>3, <2>4, <2>5
<1>9. CASE Abandon(c)
  <2>1. Return(c, "ctx") /\ UNCHANGED <<reply, result>>
      BY <1>9 DEF Abandon, deliveryVars
  <2>2. (doing[c] = "submitted" /\ reply[c] = {}) \/ (doing[c] = "admitted" /\ result[c] = {})
      BY <1>9 DEF Abandon
  <2>3. OperationAnswer[c] = "none"
      BY <2>2, Shown
  <2>4. doing[c] # "returned"
      BY <2>2
  <2> QED
      BY <1>3, <2>1, <2>3, <2>4
<1>10. CASE CoordinatorGone(c)
  <2>1. Return(c, "closed") /\ UNCHANGED <<reply, result>> /\ pc = "stopped"
      BY <1>10 DEF CoordinatorGone, deliveryVars
  <2>2. doing[c] # "returned"
      BY <1>10 DEF CoordinatorGone
  <2> QED
      BY <1>4, <2>1, <2>2
<1> QED
    BY <1>6, <1>7, <1>8, <1>9, <1>10 DEF CallStep

\* The coordinator takes a submission from its channel: the call asks.
LEMMA SubmitRefines ==
  ASSUME TypeOK, IInv, Answerable, NEW c \in Caller, Submit(c)
  PROVE  Promise!Next
<1>1. /\ pc = "select" /\ pc' = "handle" /\ doing[c] = "idle" /\ UNCHANGED <<outcome, reply, result, closing>>
      /\ doing' = [doing EXCEPT ![c] = "submitted"]
    BY DEF Submit, deliveryVars
<1>2. OperationMode' = OperationMode /\ OperationMode # "stopped"
  <2>1. pc # "stopped" /\ pc' # "stopped"
      BY <1>1
  <2>2. OperationMode' = OperationMode /\ OperationMode = IF closing THEN "closing" ELSE "open"
      BY <1>1, <2>1 DEF OperationMode
  <2> QED
      BY <2>2
<1>3. doing'[c] = "submitted" /\ \A d \in Caller : d # c => doing'[d] = doing[d]
    BY <1>1, CallTypes
<1>4. reply[c] = {} /\ result[c] = {}
    BY <1>1, HeldHasNothing DEF Held
<1>5. /\ OperationStatus' = [OperationStatus EXCEPT ![c] = StatusOf("submitted", {})]
      /\ OperationAnswer' = [OperationAnswer EXCEPT ![c] = AnswerOf("submitted", outcome[c], {}, {})]
    BY <1>1, <1>3, <1>4, OneCall
<1>6. StatusOf("submitted", {}) = "asking" /\ AnswerOf("submitted", outcome[c], {}, {}) = "none"
    BY DEF StatusOf, AnswerOf
<1>7. OperationStatus[c] = "idle" /\ OperationAnswer[c] = "none"
    BY <1>1, Shown
<1>8. OperationStatus' = [OperationStatus EXCEPT ![c] = "asking"]
    BY <1>5, <1>6
<1>9. OperationAnswer' = OperationAnswer
  <2>1. OperationAnswer' = [OperationAnswer EXCEPT ![c] = OperationAnswer[c]]
      BY <1>5, <1>6, <1>7
  <2> QED
      BY <2>1, ShownAgain
<1>10. Promise!Ask(c)
    BY <1>2, <1>7, <1>8, <1>9 DEF Promise!Ask
<1> QED
    BY <1>10 DEF Promise!Next

\* The steps that deliver results: oversized items are failed, a provider call
\* has come back.
LEMMA DeliveryRefines ==
  ASSUME TypeOK, IInv, Answerable, TypeOK',
         \/ Scheduling /\ \E S \in SUBSET part[cursor].pending : DispatchBatch(S)
         \/ FailOversized
         \/ \E h \in Caller : HandleComplete(h)
  PROVE  Promise!Next
<1>1. /\ UNCHANGED <<doing, outcome, reply, closing>>
      /\ \E T \in SUBSET Caller : \E kind : Deliver(T, kind)
  <2> USE DEF callVars
  <2>1. CASE Scheduling /\ \E S \in SUBSET part[cursor].pending : DispatchBatch(S)
    <3>1. PICK S : DispatchBatch(S)
        BY <2>1
    <3>2. Oversized(cursor, S) \in SUBSET Caller
        BY <2>1, Typed DEF Oversized, Scheduling
    <3> QED
        BY <3>1, <3>2 DEF DispatchBatch, TakeFromQueue
  <2>2. CASE FailOversized
    <3>1. Oversized(cursor, {}) \in SUBSET Caller
        BY <2>2, Typed DEF FailOversized, Oversized, Scheduling
    <3> QED
        BY <2>2, <3>1 DEF FailOversized, TakeFromQueue
  <2>3. ASSUME NEW h \in Caller, HandleComplete(h)
        PROVE  /\ UNCHANGED <<doing, outcome, reply, closing>>
               /\ \E T \in SUBSET Caller : \E kind : Deliver(T, kind)
    <3>1. batch[h].items \in SUBSET Caller
        BY Typed
    <3> QED
        BY <2>3, <3>1 DEF HandleComplete
  <2> QED
      BY <2>1, <2>2, <2>3
<1>2. \A c \in Caller : result'[c] # result[c] => result[c] = {} /\ ~Held(c)
    BY <1>1, DeliveredTo
<1>3. pc # "stopped" /\ pc' # "stopped"
  <2>1. ASSUME NEW S, DispatchBatch(S) \/ FailOversized
        PROVE  pc \in {"force", "schedule"} /\ pc' = pc
      BY <2>1 DEF DispatchBatch, FailOversized, Scheduling, loopVars
  <2>2. ASSUME NEW h \in Caller, HandleComplete(h)
        PROVE  pc = "select" /\ pc' \in {"schedule", "handle"}
      BY <2>2 DEF HandleComplete, StartSchedule
  <2>3. pc \in {"force", "schedule", "select"} /\ pc' \in {"force", "schedule", "handle"}
      BY <2>1, <2>2
  <2> QED
      BY <2>3
<1>4. OperationMode' = OperationMode /\ OperationMode # "stopped"
  <2>1. OperationMode' = OperationMode /\ OperationMode = IF closing THEN "closing" ELSE "open"
      BY <1>1, <1>3 DEF OperationMode
  <2> QED
      BY <2>1
<1>5. Promise!Serve
    BY <1>1, <1>2, <1>4, ServeStep
<1> QED
    BY <1>5 DEF Promise!Next

\* handleEngineCancel answers every accepted call at once, or stops a drained
\* coordinator.
LEMMA EngineCancelRefines ==
  ASSUME TypeOK, IInv, Answerable, Accounts, HandleEngineCancel
  PROVE  Promise!Next
<1>1. PICK live, kind :
        /\ live \in SUBSET Caller /\ live = UNION {part[p].active : p \in partitions}
        /\ kind = [i \in live |-> "closed"] /\ Deliver(live, kind)
  <2>1. UNION {part[p].active : p \in partitions} \in SUBSET Caller
    <3>1. \A p \in partitions : p \in Part
        BY QueueTypes
    <3>2. \A p \in partitions : part[p].active \subseteq Caller
        BY <3>1, Typed
    <3> QED
        BY <3>2
  <2> QED
      BY <2>1 DEF HandleEngineCancel
<1>2. pc = "select" /\ closing' = TRUE /\ UNCHANGED <<doing, outcome, reply>>
    BY DEF HandleEngineCancel, callVars
<1>3. OperationStatus' = OperationStatus
    BY <1>2, Mapped
<1>4. pc # "stopped" /\ OperationMode = (IF closing THEN "closing" ELSE "open")
      /\ OperationMode # "stopped" /\ OperationMode \in {"open", "closing"}
    BY <1>2 DEF OperationMode
<1>5. ASSUME NEW c \in Caller
      PROVE  AnswerOf(doing[c], outcome[c], reply[c], result'[c])
               = IF c \in Promise!Unanswered THEN "closed" ELSE OperationAnswer[c]
  <2>1. CASE c \in Promise!Unanswered
    <3>1. OperationStatus[c] = "accepted" /\ OperationAnswer[c] = "none"
        BY <2>1 DEF Promise!Unanswered
    <3>2. result[c] = {}
        BY <3>1, Shown
    <3>3. PICK i \in FoundOn(c) : TRUE
      <4>1. doing[c] = "admitted" \/ (doing[c] = "submitted" /\ "admitted" \in reply[c])
          BY <3>1, AcceptedShows
      <4> QED
          BY <3>2, <4>1, InvParts DEF AnswersComing
    <3>4. c \in awaiting /\ i \in part[req[c].part].active /\ c \in item[i].waiters /\ req[c].part \in Part
        BY <3>3, Typed DEF FoundOn
    <3>5. req[c].part \in partitions
        BY <3>4, NewPartitionIs DEF Accounts, Booked
    <3>6. i \in live
        BY <1>1, <3>4, <3>5
    <3>7. result'[c] = {[item |-> j, kind |-> kind[j]] : j \in {m \in live : c \in item[m].waiters}}
        BY <1>1, <3>2, <3>4 DEF Deliver
    <3>8. ASSUME NEW x \in result'[c] PROVE x.kind = "closed"
      <4>1. PICK j \in live : x = [item |-> j, kind |-> kind[j]]
          BY <3>7
      <4>2. kind[j] = "closed"
          BY <1>1
      <4> QED
          BY <4>1, <4>2
    <3>9. result'[c] # {}
        BY <3>4, <3>6, <3>7
    <3>10. PICK x : x = (CHOOSE y \in result'[c] : TRUE)
        OBVIOUS
    <3>11. x \in result'[c]
        BY <3>9, <3>10
    <3>12. AnswerOf(doing[c], outcome[c], reply[c], result'[c]) = x.kind
        BY <3>1, <3>9, <3>10, AcceptedShows
    <3> QED
        BY <2>1, <3>8, <3>11, <3>12
  <2>2. CASE c \notin Promise!Unanswered
    <3>1. CASE result'[c] = result[c]
        BY <2>2, <3>1, Mapped
    <3>2. CASE result'[c] # result[c]
      <4>1. result[c] = {} /\ ~Held(c)
          BY <1>1, <3>2, DeliveredTo
      <4>2. result'[c] # {}
          BY <3>2, <4>1
      <4>3. AnswerOf(doing[c], outcome[c], reply[c], result'[c]) = OperationAnswer[c]
          BY <2>2, <4>1, <4>2, OthersShowTheSame
      <4> QED
          BY <2>2, <4>3
    <3> QED
        BY <3>1, <3>2
  <2> QED
      BY <2>1, <2>2
<1>6. OperationAnswer' = [c \in Caller |-> IF c \in Promise!Unanswered THEN "closed" ELSE OperationAnswer[c]]
    BY <1>2, <1>5, Mapped
<1>7. CASE Drained
  <2>1. Promise!Unanswered = {}
      BY <1>7, DrainedAnswered
  <2>2. OperationAnswer' = OperationAnswer
      BY <1>6, <2>1, Mapped
  <2>3. OperationMode' = "stopped"
      BY <1>7 DEF HandleEngineCancel, OperationMode
  <2>4. Promise!Stop
      BY <1>3, <1>4, <2>1, <2>2, <2>3 DEF Promise!Stop
  <2> QED
      BY <2>4 DEF Promise!Next
<1>8. CASE ~Drained
  <2>1. pc' = "schedule"
      BY <1>8 DEF HandleEngineCancel, StartSchedule
  <2>2. OperationMode' = "closing"
      BY <1>2, <2>1 DEF OperationMode
  <2>3. Promise!Cancel
      BY <1>3, <1>4, <1>6, <2>2 DEF Promise!Cancel
  <2> QED
      BY <2>3 DEF Promise!Next
<1> QED
    BY <1>7, <1>8

\* Flush, drain and close requests, and the end of a turn: the operation closes,
\* or stops once every accepted call is answered.
LEMMA ControlRefines ==
  ASSUME TypeOK, IInv, Answerable, Accounts, Settle \/ \E k \in Ctl : HandleControl(k)
  PROVE  [Promise!Next]_(Promise!vars)
<1>1. UNCHANGED <<doing, outcome, reply, result>> /\ pc \in {"settle", "select"}
    BY DEF Settle, HandleControl, callVars, deliveryVars
<1>2. UNCHANGED <<OperationStatus, OperationAnswer>>
    BY <1>1, CallsAlone
<1>3. OperationMode = (IF closing THEN "closing" ELSE "open") /\ OperationMode # "stopped"
    BY <1>1 DEF OperationMode
<1>4. CASE Settle
  <2>1. CASE closing /\ Drained
    <3>1. OperationMode' = "stopped"
        BY <1>4, <2>1 DEF Settle, OperationMode
    <3>2. Promise!Unanswered = {}
        BY <2>1, DrainedAnswered
    <3>3. Promise!Stop
        BY <1>2, <1>3, <3>1, <3>2 DEF Promise!Stop
    <3> QED
        BY <3>3 DEF Promise!Next
  <2>2. CASE ~(closing /\ Drained)
    <3>1. pc' = "select" /\ closing' = closing
        BY <1>4, <2>2 DEF Settle
    <3>2. OperationMode' = OperationMode
        BY <1>3, <3>1 DEF OperationMode
    <3> QED
        BY <1>2, <3>2 DEF Promise!vars
  <2> QED
      BY <2>1, <2>2
<1>5. ASSUME NEW k \in Ctl, HandleControl(k)
      PROVE  [Promise!Next]_(Promise!vars)
  <2>1. pc' = "force" /\ closing' = (closing \/ CtlKind[k] = "close")
      BY <1>5 DEF HandleControl
  <2>2. closing \in BOOLEAN
      BY LoopTypes
  <2>3. OperationMode' = OperationMode \/ (OperationMode = "open" /\ OperationMode' = "closing")
      BY <1>3, <2>1, <2>2 DEF OperationMode
  <2> QED
      BY <1>2, <2>3 DEF Promise!vars, Promise!Close, Promise!Next
<1> QED
    BY <1>4, <1>5

\* The steps nobody who calls Do sees: timers, cancellations, partitions visited,
\* contexts ending, settings, time.
LEMMA HiddenSteps ==
  ASSUME TypeOK,
         \/ HandleCancel \/ TimerFires \/ NextPartition \/ EndSchedule
         \/ \E c \in Caller : ContextEnds(c)
         \/ \E k \in Ctl : ControlReturns(k) \/ ControlExpires(k)
         \/ EngineCancel \/ ApplyAdaptiveSettings \/ ClearAdaptiveSettings \/ Tick
         \/ UNCHANGED vars
  PROVE  UNCHANGED Promise!vars
<1>1. UNCHANGED <<doing, outcome, reply, result, closing>>
    BY DEF HandleCancel, TimerFires, NextPartition, EndSchedule, ContextEnds, ControlReturns, ControlExpires,
           EngineCancel, ApplyAdaptiveSettings, ClearAdaptiveSettings, Tick, otherThanCalls, vars, callVars,
           deliveryVars
<1>2. UNCHANGED <<OperationStatus, OperationAnswer>>
    BY <1>1, CallsAlone
<1>3. pc' = pc \/ (pc \in {"select", "force", "schedule"} /\ pc' \in {"schedule", "settle"})
    BY DEF HandleCancel, TimerFires, NextPartition, EndSchedule, ContextEnds, ControlReturns, ControlExpires,
           EngineCancel, ApplyAdaptiveSettings, ClearAdaptiveSettings, Tick, otherThanCalls, vars, loopVars,
           StartSchedule
<1>4. OperationMode' = OperationMode
  <2>1. CASE pc' = pc
      BY <1>1, <2>1 DEF OperationMode
  <2>2. CASE pc \in {"select", "force", "schedule"} /\ pc' \in {"schedule", "settle"}
    <3>1. pc # "stopped" /\ pc' # "stopped"
        BY <2>2
    <3> QED
        BY <1>1, <3>1 DEF OperationMode
  <2> QED
      BY <1>3, <2>1, <2>2
<1> QED
    BY <1>2, <1>4 DEF Promise!vars
--------------------------------------------------------------------------------
(* The refinement. *)

\* An admitted call has taken its answer from its channel, and handleSubmit never
\* puts another there.
LEMMA AnswerableNext ==
  ASSUME TypeOK, IInv, Answerable, [Next]_vars
  PROVE  Answerable'
<1>1. \A c \in Caller : \A r, s \in reply'[c] : r = s
    BY RepliedOnce DEF Answerable
<1> SUFFICES ASSUME NEW c \in Caller, doing'[c] = "admitted" PROVE reply'[c] = {}
    BY <1>1 DEF Answerable
<1>2. CASE UNCHANGED <<doing, reply>>
    BY <1>2 DEF Answerable
<1>3. CASE Handle
  <2>1. PICK d \in Caller : HandleSubmit(d) /\ d \in Range(todo) /\ UNCHANGED doing
      BY <1>3, HandleHead
  <2>2. c # d
      BY <2>1, HeldHasNothing DEF Held
  <2>3. reply'[c] = reply[c]
    <3>1. reply' = reply \/ \E x : reply' = [reply EXCEPT ![d] = @ \cup {x}]
        BY <2>1, SubmitAnswers
    <3> QED
        BY <2>2, <3>1, CallTypes
  <2> QED
      BY <2>1, <2>3 DEF Answerable
<1>4. ASSUME NEW d \in Caller, CallStep(d) PROVE reply'[c] = {}
  <2>1. CASE c = d
    <3>1. AwaitReply(d)
      <4>1. ~\E o : Return(d, o)
          BY <2>1, CallTypes DEF Return
      <4> QED
          BY <1>2, <1>4, <4>1 DEF CallStep, NotSubmitted, AwaitResult, Abandon, CoordinatorGone
    <3> QED
        BY <2>1, <3>1, CallTypes DEF AwaitReply
  <2>2. CASE c # d
    <3>1. doing'[c] = doing[c] /\ reply'[c] = reply[c]
        BY <1>4, <2>2, CallTypes DEF CallStep, NotSubmitted, AwaitReply, AwaitResult, Abandon, CoordinatorGone, Return
    <3> QED
        BY <3>1 DEF Answerable
  <2> QED
      BY <2>1, <2>2
<1>5. ASSUME NEW d \in Caller, Submit(d) PROVE reply'[c] = {}
  <2>1. doing' = [doing EXCEPT ![d] = "submitted"] /\ reply' = reply
      BY <1>5 DEF Submit
  <2>2. c # d
      BY <2>1, CallTypes, LoopTypes
  <2>3. doing'[c] = doing[c] /\ reply'[c] = reply[c]
      BY <2>1, <2>2, CallTypes
  <2> QED
      BY <2>3 DEF Answerable
<1> USE DEF callVars
<1>6. CASE Turn
  <2>1. CASE \E S \in SUBSET part[cursor].pending : DispatchBatch(S)
      BY <1>2, <2>1 DEF DispatchBatch
  <2> QED
      BY <1>2, <1>3, <1>6, <2>1 DEF Turn, FailOversized, NextPartition, EndSchedule, Settle
<1>7. CASE Event
    BY <1>2, <1>5, <1>7 DEF Event, HandleCancel, TimerFires, HandleEngineCancel, HandleComplete, HandleControl
<1>8. CASE \/ \E d \in Caller : ContextEnds(d)
           \/ \E k \in Ctl : ControlReturns(k) \/ ControlExpires(k)
           \/ EngineCancel \/ ApplyAdaptiveSettings \/ ClearAdaptiveSettings \/ Tick
           \/ UNCHANGED vars
    BY <1>2, <1>8 DEF ContextEnds, ControlReturns, ControlExpires, EngineCancel, ApplyAdaptiveSettings,
                      ClearAdaptiveSettings, Tick, vars
<1> QED
    BY <1>4, <1>6, <1>7, <1>8 DEF Next, Finished

\* Every step of the coordinator and its callers is a step of the operation they
\* implement, or is not seen.
LEMMA StepRefines ==
  ASSUME TypeOK, IInv, Answerable, Accounts, TypeOK', [Next]_vars
  PROVE  [Promise!Next]_(Promise!vars)
<1>1. CASE Turn
    BY <1>1, HandleRefines, DeliveryRefines, HiddenSteps, ControlRefines DEF Turn
<1>2. CASE Event
    BY <1>2, HiddenSteps, EngineCancelRefines, SubmitRefines, DeliveryRefines, ControlRefines DEF Event
<1>3. CASE \E c \in Caller : CallStep(c)
    BY <1>3, CallRefines
<1>4. CASE \/ \E c \in Caller : ContextEnds(c)
           \/ \E k \in Ctl : ControlReturns(k) \/ ControlExpires(k)
           \/ EngineCancel \/ ApplyAdaptiveSettings \/ ClearAdaptiveSettings \/ Tick
           \/ UNCHANGED vars
    BY <1>4, HiddenSteps
<1> QED
    BY <1>1, <1>2, <1>3, <1>4 DEF Next, Finished

\* The coordinator, its queue, batches and channels, and Do on the other side of
\* them, implement the operation its callers are promised: nobody is accepted
\* after a close, an accepted call is answered once, and the goroutine does not
\* stop while an accepted call has no answer.
THEOREM Refinement == Spec => KeepsPromise
<1>1. Init => Promise!Init
  <2> SUFFICES ASSUME Init PROVE Promise!Init
      OBVIOUS
  <2>1. OperationMode = "open"
      BY DEF Init, OperationMode
  <2>2. \A c \in Caller : doing[c] = "idle" /\ reply[c] = {} /\ result[c] = {}
      BY DEF Init
  <2>3. \A o : StatusOf("idle", {}) = "idle" /\ AnswerOf("idle", o, {}, {}) = "none"
      BY DEF StatusOf, AnswerOf
  <2>4. OperationStatus = [c \in Caller |-> "idle"] /\ OperationAnswer = [c \in Caller |-> "none"]
      BY <2>2, <2>3, Mapped
  <2> QED
      BY <2>1, <2>4 DEF Promise!Init
<1>2. Init => Answerable
    BY DEF Init, Answerable
<1>3. TypeOK /\ IInv /\ Answerable /\ [Next]_vars => Answerable'
    BY AnswerableNext
<1>4. TypeOK /\ IInv /\ Answerable /\ Accounts /\ TypeOK' /\ [Next]_vars => [Promise!Next]_(Promise!vars)
    BY StepRefines
<1> QED
    BY <1>1, <1>2, <1>3, <1>4, Invariant, TypeCorrect, AccountsHold, PTL DEF Spec, KeepsPromise, Promise!Spec
================================================================================
