------------------------ MODULE CoordinatorSubmitProofs ------------------------
(* The steps of Do and of handleSubmit keep IInv. *)
EXTENDS CoordinatorInvariant, FiniteSetTheorems, TLAPS

\* Most leaves are first-order and go to Zenon; the others name SMT.
USE ZenonT(30)

(* Sequences without repetition: the channels of submissions. *)

\* The last element of an extended sequence, and the others.
LEMMA AppendRange ==
  ASSUME NEW S, NEW s \in Seq(S), NEW e \in S
  PROVE  /\ Range(Append(s, e)) = Range(s) \cup {e}
         /\ Distinct(s) /\ e \notin Range(s) => Distinct(Append(s, e))
<1> DEFINE a == Append(s, e)
<1>1. /\ a \in Seq(S) /\ Len(a) = Len(s) + 1 /\ a[Len(s) + 1] = e
      /\ \A n \in 1..Len(s) : a[n] = s[n]
    BY SMTT(30)
<1>2. DOMAIN a = 1..(Len(s) + 1) /\ DOMAIN s = 1..Len(s) /\ Len(s) \in Nat
    BY SMTT(30), <1>1
<1> HIDE DEF a
<1>3. Range(a) = Range(s) \cup {e}
  <2>1. \A n \in 1..(Len(s) + 1) : n \in 1..Len(s) \/ n = Len(s) + 1
      BY SMTT(30), <1>2
  <2>2. Len(s) + 1 \in 1..(Len(s) + 1) /\ \A n \in 1..Len(s) : n \in 1..(Len(s) + 1)
      BY SMTT(30), <1>2
  <2> QED
      BY <1>1, <1>2, <2>1, <2>2 DEF Range
<1>4. ASSUME Distinct(s), e \notin Range(s) PROVE Distinct(a)
  <2> SUFFICES ASSUME NEW m \in DOMAIN a, NEW n \in DOMAIN a, a[m] = a[n], m # n PROVE FALSE
      BY DEF Distinct
  <2>1. \A k \in 1..Len(s) : s[k] # e
      BY <1>2, <1>4 DEF Range
  <2>2. /\ m \in 1..Len(s) \/ m = Len(s) + 1
        /\ n \in 1..Len(s) \/ n = Len(s) + 1
      BY SMTT(30), <1>2
  <2> QED
      BY <1>1, <1>2, <1>4, <2>1, <2>2 DEF Distinct
<1> QED
    BY <1>3, <1>4 DEF a

\* The elements of a sequence and of what is appended to it.
LEMMA AppendElements ==
  ASSUME NEW S, NEW s \in Seq(S), NEW e, NEW n \in DOMAIN Append(s, e)
  PROVE  Append(s, e)[n] = e \/ (n \in DOMAIN s /\ Append(s, e)[n] = s[n])
  BY SMTT(30)

\* Taking the first element off a sequence without repetition.
LEMMA TailRange ==
  ASSUME NEW S, NEW s \in Seq(S), s # <<>>, Distinct(s)
  PROVE  /\ Head(s) \in Range(s) /\ Range(Tail(s)) = Range(s) \ {Head(s)}
         /\ Distinct(Tail(s))
<1> DEFINE t == Tail(s)
<1>1. /\ t \in Seq(S) /\ Len(t) = Len(s) - 1 /\ Head(s) = s[1] /\ Len(s) \in Nat \ {0}
      /\ \A n \in 1..(Len(s) - 1) : t[n] = s[n + 1]
    BY SMTT(30)
<1>2. DOMAIN t = 1..(Len(s) - 1) /\ DOMAIN s = 1..Len(s)
    BY SMTT(30), <1>1
<1> HIDE DEF t
<1>3. Range(t) = Range(s) \ {s[1]}
  <2>1. ASSUME NEW n \in 1..(Len(s) - 1) PROVE s[n + 1] \in Range(s) /\ s[n + 1] # s[1]
    <3>1. n + 1 \in 1..Len(s) /\ 1 \in 1..Len(s) /\ n + 1 # 1
        BY SMTT(30), <1>1
    <3> QED
        BY <1>2, <3>1 DEF Distinct, Range
  <2>2. ASSUME NEW n \in 1..Len(s), s[n] # s[1] PROVE s[n] \in Range(t)
    <3>1. n - 1 \in 1..(Len(s) - 1) /\ (n - 1) + 1 = n
        BY SMTT(30), <1>1, <2>2
    <3>2. t[n - 1] = s[n]
        BY <1>1, <3>1
    <3> QED
        BY <1>2, <3>1, <3>2 DEF Range
  <2>3. ASSUME NEW x \in Range(t) PROVE x \in Range(s) \ {s[1]}
    <3>1. PICK n \in DOMAIN t : x = t[n]
        BY DEF Range
    <3>2. n \in 1..(Len(s) - 1) /\ x = s[n + 1]
        BY <1>1, <1>2, <3>1
    <3> QED
        BY <2>1, <3>2
  <2>4. ASSUME NEW x \in Range(s), x # s[1] PROVE x \in Range(t)
      BY <1>2, <2>2, <2>4 DEF Range
  <2> QED
      BY <2>3, <2>4
<1>4. Distinct(t)
  <2> SUFFICES ASSUME NEW m \in DOMAIN t, NEW n \in DOMAIN t, t[m] = t[n] PROVE m = n
      BY DEF Distinct
  <2>1. m + 1 \in 1..Len(s) /\ n + 1 \in 1..Len(s)
      BY SMTT(30), <1>1, <1>2
  <2>2. s[m + 1] = s[n + 1]
      BY <1>1, <1>2
  <2>3. m + 1 = n + 1
      BY <1>2, <2>1, <2>2 DEF Distinct
  <2> QED
      BY SMTT(30), <1>1, <1>2, <2>3
<1>5. s[1] \in Range(s)
    BY SMTT(30), <1>1, <1>2 DEF Range
<1> QED
    BY <1>1, <1>3, <1>4, <1>5 DEF t

\* Cutting an element out of a sequence without repetition.
LEMMA CutRange ==
  ASSUME NEW S, NEW s \in Seq(S), Distinct(s), NEW n \in 1..Len(s)
  PROVE  LET t == SubSeq(s, 1, n - 1) \o SubSeq(s, n + 1, Len(s))
         IN  Distinct(t) /\ Range(t) = Range(s) \ {s[n]}
<1> DEFINE a == SubSeq(s, 1, n - 1)
           b == SubSeq(s, n + 1, Len(s))
           t == a \o b
<1>1. /\ a \in Seq(S) /\ Len(a) = n - 1 /\ \A k \in 1..(n - 1) : a[k] = s[k]
      /\ b \in Seq(S) /\ Len(b) = Len(s) - n /\ \A k \in 1..(Len(s) - n) : b[k] = s[n + k]
      /\ Len(s) \in Nat /\ n \in Nat
    BY SMTT(30)
<1> HIDE DEF a, b
<1>2. /\ t \in Seq(S) /\ Len(t) = Len(s) - 1
      /\ \A k \in 1..(n - 1) : t[k] = a[k]
      /\ \A k \in n..(Len(s) - 1) : t[k] = b[k - (n - 1)]
  <2>0. a \in Seq(S) /\ b \in Seq(S)
      BY <1>1
  <2>1. t \in Seq(S) /\ Len(t) = Len(a) + Len(b)
      BY SMTT(30), <2>0
  <2>2. \A k \in 1..(Len(a) + Len(b)) : t[k] = IF k <= Len(a) THEN a[k] ELSE b[k - Len(a)]
      BY SMTT(30), <2>0
  <2> HIDE DEF t
  <2>3. Len(t) = Len(s) - 1
      BY SMTT(30), <1>1, <2>1
  <2>4. \A k \in 1..(n - 1) : t[k] = a[k]
      BY SMTT(30), <1>1, <2>2
  <2>5. ASSUME NEW k \in n..(Len(s) - 1) PROVE t[k] = b[k - (n - 1)]
    <3>1. k \in 1..(Len(a) + Len(b)) /\ ~(k <= Len(a)) /\ k - Len(a) = k - (n - 1)
        BY SMTT(30), <1>1
    <3> QED
        BY <2>2, <3>1
  <2> QED
      BY <2>1, <2>3, <2>4, <2>5
<1> HIDE DEF t
<1>3. /\ DOMAIN t = 1..(Len(s) - 1) /\ DOMAIN s = 1..Len(s)
      /\ \A k \in 1..(n - 1) : t[k] = s[k]
      /\ \A k \in n..(Len(s) - 1) : t[k] = s[k + 1]
  <2>1. ASSUME NEW k \in n..(Len(s) - 1) PROVE t[k] = s[k + 1]
    <3>1. k - (n - 1) \in 1..(Len(s) - n) /\ n + (k - (n - 1)) = k + 1
        BY SMTT(30), <1>1
    <3> QED
        BY <1>1, <1>2, <3>1
  <2> QED
      BY SMTT(30), <1>1, <1>2, <2>1
<1> DEFINE pos(k) == IF k < n THEN k ELSE k + 1
<1>4. \A k \in DOMAIN t : pos(k) \in 1..Len(s) /\ pos(k) # n /\ t[k] = s[pos(k)]
    BY SMTT(30), <1>1, <1>3
<1>5. \A j, k \in DOMAIN t : pos(j) = pos(k) => j = k
    BY SMTT(30), <1>1, <1>3
<1>6. \A j \in DOMAIN s : j # n => \E k \in DOMAIN t : pos(k) = j
  <2> SUFFICES ASSUME NEW j \in DOMAIN s, j # n PROVE \E k \in DOMAIN t : pos(k) = j
      OBVIOUS
  <2>1. CASE j < n
      BY SMTT(30), <1>1, <1>3, <2>1
  <2>2. CASE j > n
    <3>1. j - 1 \in DOMAIN t /\ pos(j - 1) = j
        BY SMTT(30), <1>1, <1>3, <2>2
    <3> QED
        BY <3>1
  <2> QED
      BY SMTT(30), <1>1, <1>3, <2>1, <2>2
<1> HIDE DEF pos
<1>7. Distinct(t)
    BY SMTT(30), <1>3, <1>4, <1>5 DEF Distinct
<1>8. Range(t) = Range(s) \ {s[n]}
  <2>1. n \in DOMAIN s
      BY <1>1, <1>3
  <2>2. ASSUME NEW k \in DOMAIN t PROVE t[k] \in Range(s) /\ t[k] # s[n]
      BY SMTT(30), <1>3, <1>4, <2>1 DEF Distinct, Range
  <2>3. ASSUME NEW j \in DOMAIN s, s[j] # s[n] PROVE s[j] \in Range(t)
      BY <1>4, <1>6, <2>3 DEF Range
  <2> QED
      BY <2>2, <2>3 DEF Range
<1> QED
    BY <1>7, <1>8 DEF t, a, b
--------------------------------------------------------------------------------
(* The parts of the state IInv is about. *)

\* The types of the queues: the partitions, the items and the batches.
LEMMA QueueTypes ==
  ASSUME TypeOK
  PROVE  /\ partitions \in SUBSET Part /\ part \in [Part -> PartitionState]
         /\ item \in [Caller -> ItemState] /\ submitSeq \in Nat
         /\ inflight \in SUBSET Caller /\ batch \in [Caller -> BatchState]
         /\ \A h \in inflight : batch[h].part \in Part
         /\ req \in [Caller -> Request]
         /\ activeProvider \in Int /\ now \in Nat /\ dyn \in Settings
BY DEF TypeOK

\* The types of what the callers hold: their requests and their channels.
LEMMA CallTypes ==
  ASSUME TypeOK
  PROVE  /\ doing \in [Caller -> {"idle", "submitted", "admitted", "returned"}]
         /\ outcome \in [Caller -> {"none", "ctx"} \cup Refusals \cup ResultKinds]
         /\ ctxDone \in SUBSET Caller /\ awaiting \in SUBSET Caller
         /\ reply \in [Caller -> SUBSET (Refusals \cup {"admitted"})]
         /\ result \in [Caller -> SUBSET [item : Caller, kind : ResultKinds]]
         /\ cancelCh \in Seq([call : Caller, blocked : BOOLEAN])
BY DEF TypeOK

\* What lies in a caller's result channel is of a kind a result can be, before
\* a step and after it.
LEMMA ResultTypes ==
  /\ TypeOK => \A c \in Caller : \A r \in result[c] : r.kind \in ResultKinds
  /\ TypeOK' => \A c \in Caller : \A r \in result'[c] : r.kind \in ResultKinds
<1>1. TypeOK => result \in [Caller -> SUBSET [item : Caller, kind : ResultKinds]]
    BY DEF TypeOK
<1>2. TypeOK' => result' \in [Caller -> SUBSET [item : Caller, kind : ResultKinds]]
    BY DEF TypeOK
<1>3. ASSUME NEW channel \in [Caller -> SUBSET [item : Caller, kind : ResultKinds]],
             NEW c \in Caller, NEW r \in channel[c]
      PROVE  r.kind \in ResultKinds
    BY SMTT(30)
<1> QED
    BY <1>1, <1>2, <1>3

\* The types of the loop's own state and of the control requests.
LEMMA LoopTypes ==
  ASSUME TypeOK
  PROVE  /\ pc \in {"select", "handle", "force", "schedule", "settle", "stopped"}
         /\ todo \in Seq(Caller) /\ (pc = "handle" <=> todo # <<>>)
         /\ cursor \in 0..(NumPartitions + 1) /\ timer \in SUBSET Int
         /\ blocked \in Seq(Caller) /\ closing \in BOOLEAN /\ barriers \in SUBSET Ctl
         /\ ctl \in [Ctl -> CtlState] /\ engineDone \in BOOLEAN
BY DEF TypeOK

\* The numbers of an item: its place in the order of submissions, and when it was
\* queued.
LEMMA ItemNumbers ==
  ASSUME TypeOK, NEW i \in Caller
  PROVE  item[i].seq \in Nat /\ item[i].enqueue \in Nat
<1>1. item[i] \in ItemState
    BY QueueTypes
<1> QED
    BY <1>1 DEF ItemState

\* The types of the fields the invariant speaks of.
LEMMA Typed ==
  ASSUME TypeOK
  PROVE  /\ \A p \in Part : part[p].pending \in SUBSET Caller /\ part[p].active \in SUBSET Caller
         /\ \A i \in Caller : item[i].waiters \in SUBSET Caller /\ item[i].activeWaiters \in Int
         /\ \A c \in Caller : req[c].part \in Part
         /\ \A h \in Caller : batch[h].items \in SUBSET Caller
         /\ inflight \in SUBSET Caller /\ awaiting \in SUBSET Caller
         /\ \A h \in inflight : batch[h].part \in Part
<1>1. \A p \in Part : part[p].pending \in SUBSET Caller /\ part[p].active \in SUBSET Caller
    BY DEF TypeOK, PartitionState
<1>2. \A i \in Caller : item[i].waiters \in SUBSET Caller /\ item[i].activeWaiters \in Int
    BY DEF TypeOK, ItemState
<1>3. \A c \in Caller : req[c].part \in Part
    BY DEF TypeOK, Request
<1>4. \A h \in Caller : batch[h].items \in SUBSET Caller
    BY DEF TypeOK, BatchState
<1> QED
    BY <1>1, <1>2, <1>3, <1>4 DEF TypeOK

\* The channels hold calls.
LEMMA SequencesTyped ==
  ASSUME TypeOK
  PROVE  /\ todo \in Seq(Caller) /\ blocked \in Seq(Caller)
         /\ Range(todo) \subseteq Caller /\ Range(blocked) \subseteq Caller
         /\ \A n \in DOMAIN cancelCh : cancelCh[n].call \in Caller
<1> DEFINE M == [call : Caller, blocked : BOOLEAN]
<1>1. todo \in Seq(Caller) /\ blocked \in Seq(Caller) /\ cancelCh \in Seq(M)
    BY DEF TypeOK
<1>2. Range(todo) \subseteq Caller /\ Range(blocked) \subseteq Caller
    BY SMTT(30), <1>1 DEF Range
<1>3. \A m \in M : m.call \in Caller
    OBVIOUS
<1> HIDE DEF M
<1>4. \A n \in DOMAIN cancelCh : cancelCh[n] \in M
    BY SMTT(30), <1>1
<1> QED
    BY <1>1, <1>2, <1>3, <1>4

\* The waiters of the items stay while the partitions, the items and the
\* requests do.
LEMMA PartsKept ==
  ASSUME WaitersAskedForIt, UNCHANGED <<part, item, req>>
  PROVE  WaitersAskedForIt'
BY SMTT(30) DEF WaitersAskedForIt

\* Nor do they change when items leave the partitions.
LEMMA PartsShrink ==
  ASSUME WaitersAskedForIt, UNCHANGED req,
         \A q \in Part : part[q].active \subseteq Caller,
         \A j \in Caller : item'[j].waiters = item[j].waiters,
         \A q \in Part : /\ part'[q].active \subseteq part[q].active
                         /\ part'[q].pending \subseteq part'[q].active
  PROVE  WaitersAskedForIt'
BY SMTT(30) DEF WaitersAskedForIt

\* What lies in the result channels stays while the channels and the requests
\* do.
LEMMA ResultsKept ==
  ASSUME AnswersComing, UNCHANGED <<req, result>>, awaiting' \subseteq awaiting
  PROVE  \A d \in Caller :
           /\ d \in awaiting' => result'[d] = {}
           /\ \A r, s \in result'[d] : r = s
           /\ \A r \in result'[d] : req'[r.item].key = req'[d].key /\ req'[r.item].part = req'[d].part
BY SMTT(30) DEF AnswersComing

\* Every waiter of an item asked for its key, in its partition.
LEMMA AskedFor ==
  ASSUME WaitersAskedForIt, NEW p \in Part, NEW i \in part[p].active
  PROVE  /\ i \in item[i].waiters /\ req[i].part = p
         /\ \A c \in item[i].waiters : req[c].part = p /\ req[c].key = req[i].key
BY DEF WaitersAskedForIt

\* The parts of the invariant.
LEMMA InvParts ==
  ASSUME IInv
  PROVE  HeldOnce /\ WaitersAskedForIt /\ BatchesDisjoint /\ WaitersCounted /\ AnswersComing
BY DEF IInv

\* The answers keep coming while every held call is held and every waiter is
\* found.
LEMMA AnswersKept ==
  ASSUME AnswersComing, UNCHANGED <<req, doing, reply, awaiting, result>>,
         \A n \in DOMAIN cancelCh' : doing'[cancelCh'[n].call] = "returned",
         \A d \in Caller : doing[d] = "submitted" /\ Held(d) => Held(d)',
         \A d \in Caller : FoundOn(d) # {} => FoundOn(d)' # {}
  PROVE  AnswersComing'
<1>1. \A d \in Caller : doing'[d] = "submitted" /\ reply'[d] = {} => Held(d)'
    BY DEF AnswersComing
<1>2. \A d \in Caller :
        doing'[d] = "admitted" \/ (doing'[d] = "submitted" /\ "admitted" \in reply'[d]) =>
          result'[d] # {} \/ FoundOn(d)' # {}
    BY DEF AnswersComing
<1> QED
    BY <1>1, <1>2, ResultsKept DEF AnswersComing

\* Steps that touch none of it.
LEMMA Untouched ==
  ASSUME IInv, UNCHANGED <<part, item, req, inflight, batch, todo, blocked, doing, reply,
                           awaiting, result, cancelCh>>
  PROVE  IInv'
<1>1. HeldOnce'
    BY DEF IInv, HeldOnce, Held, Distinct
<1>2. WaitersAskedForIt' /\ BatchesDisjoint'
  <2>1. WaitersAskedForIt'
      BY PartsKept DEF IInv
  <2>2. BatchesDisjoint'
      BY DEF IInv, BatchesDisjoint
  <2> QED
      BY <2>1, <2>2
<1>3. WaitersCounted'
    BY DEF IInv, WaitersCounted
<1>4. AnswersComing'
    BY SMTT(30) DEF IInv, AnswersComing, Held, FoundOn
<1> QED
    BY <1>1, <1>2, <1>3, <1>4 DEF IInv

\* A new coordinator holds nothing, so the invariant holds.
LEMMA InvInit == Init => IInv
<1> SUFFICES ASSUME Init PROVE IInv
    OBVIOUS
<1>1. /\ \A p \in Part : part[p].pending = {} /\ part[p].active = {}
      /\ \A i \in Caller : item[i].waiters = {}
    BY DEF Init, NewPartition, NoItem
<1>2. DOMAIN todo = {} /\ DOMAIN blocked = {} /\ DOMAIN cancelCh = {}
    BY SMTT(30) DEF Init
<1>3. Range(todo) = {} /\ Range(blocked) = {}
    BY <1>2 DEF Range
<1>4. HeldOnce
    BY <1>1, <1>2, <1>3 DEF Init, HeldOnce, Held, Distinct
<1>5. WaitersAskedForIt /\ BatchesDisjoint /\ WaitersCounted
    BY <1>1 DEF Init, WaitersAskedForIt, BatchesDisjoint, WaitersCounted
<1>6. AnswersComing
    BY <1>2 DEF Init, AnswersComing
<1> QED
    BY <1>4, <1>5, <1>6 DEF IInv

--------------------------------------------------------------------------------
(* Steps of the callers. *)

\* Receiving a submission: the call becomes held.
LEMMA SubmitInv ==
  ASSUME TypeOK, IInv, NEW c \in Caller, Submit(c)
  PROVE  IInv'
<1>1. /\ doing[c] = "idle" /\ doing' = [doing EXCEPT ![c] = "submitted"] /\ todo' = <<c>>
      /\ todo = <<>> /\ UNCHANGED <<part, item, req, inflight, batch, blocked, reply, awaiting,
                                    result, cancelCh>>
    BY DEF Submit, TypeOK, queueVars, batchVars, deliveryVars, envVars
<1>2. /\ Range(todo) = {} /\ Range(todo') = {c} /\ Distinct(todo') /\ Range(blocked)' = Range(blocked)
  <2>1. DOMAIN <<>> = {} /\ DOMAIN <<c>> = {1} /\ <<c>>[1] = c
      BY SMTT(30)
  <2> QED
      BY <1>1, <2>1 DEF Range, Distinct
<1>3. doing \in [Caller -> {"idle", "submitted", "admitted", "returned"}]
    BY DEF TypeOK
<1>4. \A d \in Caller : Held(d)' <=> Held(d)
    BY <1>1, <1>2, <1>3 DEF Held
<1>5. HeldOnce'
    BY SMTT(30), <1>1, <1>2, <1>3, <1>4 DEF IInv, HeldOnce, Distinct
<1>6. WaitersAskedForIt' /\ BatchesDisjoint'
  <2>1. WaitersAskedForIt'
      BY <1>1, PartsKept DEF IInv
  <2>2. BatchesDisjoint'
      BY <1>1 DEF IInv, BatchesDisjoint
  <2> QED
      BY <2>1, <2>2
<1>7. WaitersCounted'
    BY <1>1 DEF IInv, WaitersCounted
<1>8. AnswersComing'
  <2>1. \A d \in Caller : FoundOn(d)' = FoundOn(d)
      BY <1>1 DEF FoundOn
  <2>2. \A n \in DOMAIN cancelCh : cancelCh[n].call \in Caller
      BY SequencesTyped
  <2>3. \A n \in DOMAIN cancelCh' : doing'[cancelCh'[n].call] = "returned"
      BY <1>1, <1>3, <2>2 DEF IInv, AnswersComing
  <2>4. \A d \in Caller : doing'[d] = "submitted" /\ reply'[d] = {} => Held(d)'
      BY <1>1, <1>2, <1>3, <1>4 DEF IInv, AnswersComing, Held
  <2>5. Held(c) /\ reply[c] = {}
      BY <1>1 DEF Held, IInv, HeldOnce
  <2>6. \A d \in Caller :
          doing'[d] = "admitted" \/ (doing'[d] = "submitted" /\ "admitted" \in reply'[d]) =>
            result'[d] # {} \/ FoundOn(d)' # {}
      BY <1>1, <1>3, <2>1, <2>5 DEF IInv, AnswersComing
  <2> QED
      BY <1>1, <2>3, <2>4, <2>6, ResultsKept DEF IInv, AnswersComing
<1> QED
    BY <1>5, <1>6, <1>7, <1>8 DEF IInv

\* A call that returns, leaving its channels alone.
LEMMA ReturnInv ==
  ASSUME TypeOK, IInv, NEW c \in Caller, doing' = [doing EXCEPT ![c] = "returned"],
         UNCHANGED <<part, item, req, inflight, batch, todo, blocked, reply, awaiting>>,
         result' = result \/ result' = [result EXCEPT ![c] = {}],
         \/ cancelCh' = cancelCh
         \/ \E b \in BOOLEAN : cancelCh' = Append(cancelCh, [call |-> c, blocked |-> b])
  PROVE  IInv'
<1>1. doing \in [Caller -> {"idle", "submitted", "admitted", "returned"}]
    BY DEF TypeOK
<1>2. result \in [Caller -> SUBSET [item : Caller, kind : ResultKinds]]
    BY DEF TypeOK
<1>3. \A d \in Caller : /\ Held(d)' => Held(d)
                        /\ d # c => (Held(d)' <=> Held(d))
    BY <1>1 DEF Held
<1>4. HeldOnce'
    BY <1>1, <1>3, SequencesTyped DEF IInv, HeldOnce, Distinct
<1>5. WaitersAskedForIt' /\ BatchesDisjoint'
  <2>1. WaitersAskedForIt'
      BY PartsKept DEF IInv
  <2>2. BatchesDisjoint'
      BY DEF IInv, BatchesDisjoint
  <2> QED
      BY <2>1, <2>2
<1>6. WaitersCounted'
    BY DEF IInv, WaitersCounted
<1>7. \A n \in DOMAIN cancelCh' : doing'[cancelCh'[n].call] = "returned"
  <2>1. \A n \in DOMAIN cancelCh : /\ cancelCh[n].call \in Caller
                                   /\ doing[cancelCh[n].call] = "returned"
      BY SequencesTyped DEF IInv, AnswersComing
  <2>2. CASE cancelCh' = cancelCh
      BY <1>1, <2>1, <2>2
  <2>3. ASSUME NEW m, m.call = c, cancelCh' = Append(cancelCh, m)
        PROVE  \A n \in DOMAIN cancelCh' : doing'[cancelCh'[n].call] = "returned"
    <3>1. cancelCh \in Seq([call : Caller, blocked : BOOLEAN])
        BY DEF TypeOK
    <3>2. \A n \in DOMAIN cancelCh' : cancelCh'[n] = m \/ (n \in DOMAIN cancelCh /\ cancelCh'[n] = cancelCh[n])
        BY SMTT(30), <2>3, <3>1, AppendElements
    <3> QED
        BY <1>1, <2>1, <2>3, <3>2
  <2> QED
      BY <2>2, <2>3
<1>8. \A d \in Caller : FoundOn(d)' = FoundOn(d)
    BY DEF FoundOn
<1>9. AnswersComing'
  <2>1. \A d \in Caller : /\ d # c => doing'[d] = doing[d] /\ result'[d] = result[d]
                          /\ result'[d] = result[d] \/ result'[d] = {}
                          /\ doing'[c] = "returned"
      BY <1>1, <1>2
  <2>2. ASSUME NEW d \in Caller
        PROVE  /\ doing'[d] = "submitted" /\ reply'[d] = {} => Held(d)'
               /\ doing'[d] = "admitted" \/ (doing'[d] = "submitted" /\ "admitted" \in reply'[d]) =>
                    result'[d] # {} \/ FoundOn(d)' # {}
      BY <1>3, <1>8, <2>1 DEF IInv, AnswersComing
  <2>3. ASSUME NEW d \in Caller
        PROVE  /\ d \in awaiting' => result'[d] = {}
               /\ \A r, s \in result'[d] : r = s
               /\ \A r \in result'[d] : req'[r.item].key = req'[d].key /\ req'[r.item].part = req'[d].part
    <3>1. /\ d \in awaiting => result[d] = {}
          /\ \A r, s \in result[d] : r = s
          /\ \A r \in result[d] : req[r.item].key = req[d].key /\ req[r.item].part = req[d].part
        BY DEF IInv, AnswersComing
    <3>2. CASE result'[d] = {}
        BY <3>2
    <3>3. CASE result'[d] = result[d]
        BY SMTT(30), <3>1, <3>3
    <3> QED
        BY <2>1, <3>2, <3>3
  <2> QED
      BY <1>7, <2>2, <2>3 DEF AnswersComing
<1> QED
    BY <1>4, <1>5, <1>6, <1>9 DEF IInv

\* Do reads the reply: the caller was refused, or has a place to wait.
LEMMA AwaitReplyInv ==
  ASSUME TypeOK, IInv, NEW c \in Caller, AwaitReply(c)
  PROVE  IInv'
<1>1. UNCHANGED <<part, item, req, inflight, batch, todo, blocked, awaiting, result, cancelCh>>
    BY DEF AwaitReply, otherThanCalls, loopVars, queueVars, batchVars, envVars, deliveryVars
<1>2. /\ doing \in [Caller -> {"idle", "submitted", "admitted", "returned"}]
      /\ reply \in [Caller -> SUBSET (Refusals \cup {"admitted"})]
    BY DEF TypeOK
<1>3. /\ doing[c] = "submitted" /\ reply[c] # {} /\ reply' = [reply EXCEPT ![c] = {}]
      /\ \/ doing' = [doing EXCEPT ![c] = "admitted"] /\ "admitted" \in reply[c]
         \/ doing' = [doing EXCEPT ![c] = "returned"]
    BY DEF AwaitReply, Return
<1>4. \A d \in Caller : Held(d)' <=> Held(d)
    BY <1>1, <1>2, <1>3 DEF Held
<1>5. ~Held(c)
    BY <1>3 DEF IInv, HeldOnce
<1>6. HeldOnce'
    BY <1>1, <1>2, <1>3, <1>4, <1>5, SequencesTyped DEF IInv, HeldOnce, Distinct
<1>7. WaitersAskedForIt' /\ BatchesDisjoint'
  <2>1. WaitersAskedForIt'
      BY <1>1, PartsKept DEF IInv
  <2>2. BatchesDisjoint'
      BY <1>1 DEF IInv, BatchesDisjoint
  <2> QED
      BY <2>1, <2>2
<1>8. WaitersCounted'
    BY <1>1 DEF IInv, WaitersCounted
<1>9. AnswersComing'
  <2>1. \A d \in Caller : FoundOn(d)' = FoundOn(d)
      BY <1>1 DEF FoundOn
  <2>2. \A n \in DOMAIN cancelCh : cancelCh[n].call \in Caller
      BY SequencesTyped
  <2>3. \A n \in DOMAIN cancelCh' : doing'[cancelCh'[n].call] = "returned"
      BY <1>1, <1>2, <1>3, <2>2 DEF IInv, AnswersComing
  <2>4. \A d \in Caller : d # c => doing'[d] = doing[d] /\ reply'[d] = reply[d]
      BY <1>2, <1>3
  <2>5. doing'[c] # "submitted" /\ (doing'[c] = "admitted" => "admitted" \in reply[c])
      BY <1>2, <1>3
  <2>6. \A d \in Caller : doing'[d] = "submitted" /\ reply'[d] = {} => Held(d)'
      BY <1>4, <2>4, <2>5 DEF IInv, AnswersComing
  <2>7. ASSUME NEW d \in Caller,
               doing'[d] = "admitted" \/ (doing'[d] = "submitted" /\ "admitted" \in reply'[d])
        PROVE  result'[d] # {} \/ FoundOn(d)' # {}
    <3>1. doing[d] = "admitted" \/ (doing[d] = "submitted" /\ "admitted" \in reply[d])
        BY <1>3, <2>4, <2>5, <2>7
    <3>2. result[d] # {} \/ FoundOn(d) # {}
        BY <3>1 DEF IInv, AnswersComing
    <3> QED
        BY <1>1, <2>1, <3>2
  <2> QED
      BY <1>1, <2>3, <2>6, <2>7, ResultsKept DEF IInv, AnswersComing
<1> QED
    BY <1>6, <1>7, <1>8, <1>9 DEF IInv

\* Every step of Do keeps the invariant.
LEMMA CallStepInv ==
  ASSUME TypeOK, IInv, NEW c \in Caller, CallStep(c) \/ ContextEnds(c)
  PROVE  IInv'
<1>1. UNCHANGED <<part, item, req, inflight, batch, todo, blocked, awaiting>>
    BY DEF CallStep, NotSubmitted, AwaitReply, AwaitResult, Abandon, CoordinatorGone, ContextEnds,
           otherThanCalls, loopVars, queueVars, batchVars, envVars, deliveryVars
<1>2. CASE ContextEnds(c)
  <2>1. UNCHANGED <<doing, reply, result, cancelCh>>
      BY <1>2 DEF ContextEnds, deliveryVars
  <2> QED
      BY <1>1, <2>1, Untouched
<1>3. CASE NotSubmitted(c) \/ CoordinatorGone(c)
  <2>1. doing' = [doing EXCEPT ![c] = "returned"] /\ UNCHANGED <<reply, result, cancelCh>>
      BY <1>3 DEF NotSubmitted, CoordinatorGone, Return, deliveryVars
  <2> QED
      BY <1>1, <2>1, ReturnInv
<1>4. CASE AwaitResult(c)
  <2>1. /\ doing' = [doing EXCEPT ![c] = "returned"] /\ UNCHANGED <<reply, cancelCh>>
        /\ result' = [result EXCEPT ![c] = {}]
      BY <1>4 DEF AwaitResult, Return
  <2> QED
      BY <1>1, <2>1, ReturnInv
<1>5. CASE Abandon(c)
  <2>1. /\ doing' = [doing EXCEPT ![c] = "returned"] /\ UNCHANGED <<reply, result>>
        /\ cancelCh' = Append(cancelCh, [call |-> c, blocked |-> doing[c] = "submitted"])
      BY <1>5 DEF Abandon, Return, deliveryVars
  <2>2. (doing[c] = "submitted") \in BOOLEAN
      OBVIOUS
  <2> QED
      BY <1>1, <2>1, <2>2, ReturnInv
<1>6. CASE AwaitReply(c)
    BY <1>1, <1>6, AwaitReplyInv
<1> QED
    BY <1>2, <1>3, <1>4, <1>5, <1>6 DEF CallStep
--------------------------------------------------------------------------------
(* Submissions. *)

\* What handleSubmit finds: a submission nothing was done for.
LEMMA HandleHead ==
  ASSUME TypeOK, IInv, Handle
  PROVE  LET c == Head(todo) IN
         /\ c \in Caller /\ HandleSubmit(c) /\ doing[c] # "idle" /\ c \notin Range(blocked)
         /\ c \in awaiting /\ reply[c] = {} /\ \A i \in Caller : c \notin item[i].waiters
         /\ Distinct(todo') /\ Range(todo') = Range(todo) \ {c} /\ c \in Range(todo)
         /\ UNCHANGED <<req, inflight, batch, doing, awaiting, result, cancelCh>>
<1> DEFINE c == Head(todo)
<1>1. /\ todo \in Seq(Caller) /\ todo # <<>> /\ Distinct(todo) /\ todo' = Tail(todo)
      /\ HandleSubmit(c) /\ UNCHANGED <<req, inflight, batch, doing, awaiting, result, cancelCh>>
    BY DEF TypeOK, Handle, IInv, HeldOnce, batchVars, callVars, deliveryVars, envVars
<1>2. c \in Range(todo) /\ Range(Tail(todo)) = Range(todo) \ {c} /\ Distinct(Tail(todo))
    BY <1>1, TailRange
<1>3. c \in Caller
    BY <1>2, SequencesTyped
<1>4. /\ c \in awaiting /\ reply[c] = {} /\ \A i \in Caller : c \notin item[i].waiters
      /\ doing[c] # "idle" /\ c \notin Range(blocked)
    BY <1>2, <1>3 DEF IInv, HeldOnce, Held
<1> QED
    BY <1>1, <1>2, <1>3, <1>4

\* Not admitted: answered with a refusal, or parked.
LEMMA RefusedInv ==
  ASSUME TypeOK, IInv, Handle, UNCHANGED <<part, item>>,
         LET c == Head(todo) IN
         \/ blocked' = blocked /\ \E r \in Refusals : reply' = [reply EXCEPT ![c] = @ \cup {r}]
         \/ blocked' = Append(blocked, c) /\ reply' = reply
  PROVE  IInv'
<1>0. PICK c \in Caller : c = Head(todo)
    BY HandleHead
<1>1. /\ doing[c] # "idle" /\ c \notin Range(blocked)
      /\ c \in awaiting /\ reply[c] = {} /\ \A i \in Caller : c \notin item[i].waiters
      /\ Distinct(todo') /\ Range(todo') = Range(todo) \ {c} /\ c \in Range(todo)
      /\ UNCHANGED <<req, inflight, batch, doing, awaiting, result, cancelCh>>
    BY <1>0, HandleHead
<1>2. \/ blocked' = blocked /\ \E r \in Refusals : reply' = [reply EXCEPT ![c] = @ \cup {r}]
      \/ blocked' = Append(blocked, c) /\ reply' = reply
    BY <1>0
<1>3. /\ \A d \in Caller : d # c => reply'[d] = reply[d]
      /\ "admitted" \notin reply'[c]
      /\ \/ Range(blocked') = Range(blocked) /\ reply'[c] # {}
         \/ Range(blocked') = Range(blocked) \cup {c} /\ reply'[c] = {}
      /\ Distinct(blocked')
  <2>1. /\ reply \in [Caller -> SUBSET (Refusals \cup {"admitted"})] /\ "admitted" \notin Refusals
        /\ Distinct(blocked)
      BY DEF TypeOK, Refusals, IInv, HeldOnce
  <2>2. CASE blocked' = blocked /\ \E r \in Refusals : reply' = [reply EXCEPT ![c] = @ \cup {r}]
    <3>1. PICK r \in Refusals : reply' = [reply EXCEPT ![c] = @ \cup {r}]
        BY <2>2
    <3>2. reply'[c] = {r} /\ \A d \in Caller : d # c => reply'[d] = reply[d]
        BY <1>1, <2>1, <3>1
    <3> QED
        BY <1>1, <2>1, <2>2, <3>2
  <2>3. CASE blocked' = Append(blocked, c) /\ reply' = reply
    <3>1. Range(blocked') = Range(blocked) \cup {c} /\ Distinct(blocked')
        BY SMTT(30), <1>1, <2>1, <2>3, AppendRange, SequencesTyped
    <3> QED
        BY <1>1, <2>3, <3>1
  <2> QED
      BY <1>2, <2>2, <2>3
<1>4. /\ \A d \in Caller : d # c => (Held(d)' <=> Held(d))
      /\ Held(c)' <=> reply'[c] = {}
    BY <1>1, <1>3 DEF Held
<1>5. HeldOnce'
  <2>1. \A d \in Caller : Held(d)' => d \in awaiting' /\ reply'[d] = {} /\ \A i \in Caller : d \notin item'[i].waiters
      BY <1>1, <1>3, <1>4 DEF IInv, HeldOnce
  <2>2. Range(todo') \cap Range(blocked') = {}
      BY <1>1, <1>3 DEF IInv, HeldOnce
  <2>3. \A d \in Range(todo') \cup Range(blocked') : doing'[d] # "idle"
      BY SMTT(30), <1>1, <1>3 DEF IInv, HeldOnce
  <2> QED
      BY <1>1, <1>3, <2>1, <2>2, <2>3 DEF HeldOnce
<1>6. WaitersAskedForIt' /\ BatchesDisjoint'
  <2>1. WaitersAskedForIt'
      BY <1>1, PartsKept DEF IInv
  <2>2. BatchesDisjoint'
      BY <1>1 DEF IInv, BatchesDisjoint
  <2> QED
      BY <2>1, <2>2
<1>7. WaitersCounted'
    BY <1>1 DEF IInv, WaitersCounted
<1>8. AnswersComing'
  <2>1. \A d \in Caller : FoundOn(d)' = FoundOn(d)
      BY <1>1 DEF FoundOn
  <2>2. \A d \in Caller : doing'[d] = "submitted" /\ reply'[d] = {} => Held(d)'
      BY <1>1, <1>3, <1>4 DEF IInv, AnswersComing
  <2>3. \A d \in Caller :
          doing'[d] = "admitted" \/ (doing'[d] = "submitted" /\ "admitted" \in reply'[d]) =>
            result'[d] # {} \/ FoundOn(d)' # {}
      BY <1>1, <1>3, <2>1 DEF IInv, AnswersComing
  <2>4. \A n \in DOMAIN cancelCh' : doing'[cancelCh'[n].call] = "returned"
      BY <1>1 DEF IInv, AnswersComing
  <2> QED
      BY <1>1, <2>2, <2>3, <2>4, ResultsKept DEF IInv, AnswersComing
<1> QED
    BY <1>5, <1>6, <1>7, <1>8 DEF IInv

\* Admitted on item i: what both ways of admitting a call have in common.
LEMMA AdmittedInv ==
  ASSUME TypeOK, IInv, Handle, NEW c \in Caller, c = Head(todo), NEW i \in Caller,
         blocked' = blocked, reply' = [reply EXCEPT ![c] = @ \cup {"admitted"}],
         \A j \in Caller : item'[j].waiters \subseteq item[j].waiters \cup {c},
         \A q \in Part : /\ part[q].active \subseteq part'[q].active
                         /\ \A j \in part[q].active : item[j].waiters \subseteq item'[j].waiters,
         i \in part'[req[c].part].active, c \in item'[i].waiters
  PROVE  HeldOnce' /\ AnswersComing'
<1>1. /\ doing[c] # "idle" /\ c \notin Range(blocked)
      /\ c \in awaiting /\ reply[c] = {} /\ \A j \in Caller : c \notin item[j].waiters
      /\ Distinct(todo') /\ Range(todo') = Range(todo) \ {c} /\ c \in Range(todo)
      /\ UNCHANGED <<req, inflight, batch, doing, awaiting, result, cancelCh>>
    BY HandleHead
<1>2. (\A d \in Caller : d # c => reply'[d] = reply[d]) /\ reply'[c] = {"admitted"}
    BY <1>1 DEF TypeOK
<1>3. /\ \A d \in Caller : d # c => (Held(d)' <=> Held(d))
      /\ ~Held(c)'
    BY <1>1 DEF Held
<1>4. HeldOnce'
  <2>1. ASSUME NEW d \in Caller, Held(d)'
        PROVE  d \in awaiting' /\ reply'[d] = {} /\ \A j \in Caller : d \notin item'[j].waiters
    <3>1. d # c /\ Held(d)
        BY <1>3, <2>1
    <3>2. d \in awaiting /\ reply[d] = {} /\ \A j \in Caller : d \notin item[j].waiters
        BY <3>1 DEF IInv, HeldOnce
    <3> QED
        BY <1>1, <1>2, <3>1, <3>2
  <2>2. Range(todo') \cap Range(blocked') = {} /\ Distinct(blocked')
      BY <1>1 DEF IInv, HeldOnce
  <2>3. \A d \in Range(todo') \cup Range(blocked') : doing'[d] # "idle"
      BY <1>1 DEF IInv, HeldOnce
  <2> QED
      BY <1>1, <2>1, <2>2, <2>3 DEF HeldOnce
<1>5. ASSUME NEW d \in Caller,
             doing[d] = "admitted" \/ (doing[d] = "submitted" /\ "admitted" \in reply'[d])
      PROVE  result[d] # {} \/ FoundOn(d)' # {}
  <2>1. CASE d = c
      BY <1>1, <2>1 DEF FoundOn
  <2>2. CASE d # c
    <3>1. result[d] # {} \/ FoundOn(d) # {}
        BY <1>2, <1>5, <2>2 DEF IInv, AnswersComing
    <3>2. ASSUME FoundOn(d) # {} PROVE FoundOn(d)' # {}
      <4>1. PICK j \in part[req[d].part].active : d \in item[j].waiters /\ d \in awaiting
          BY <3>2 DEF FoundOn
      <4>2. req[d].part \in Part
          BY Typed
      <4> QED
          BY <1>1, <4>1, <4>2 DEF FoundOn
    <3> QED
        BY <3>1, <3>2
  <2> QED
      BY <2>1, <2>2
<1>6. \A d \in Caller : doing[d] = "submitted" /\ reply'[d] = {} => Held(d)'
    BY <1>2, <1>3 DEF IInv, AnswersComing
<1>7. \A n \in DOMAIN cancelCh' : doing'[cancelCh'[n].call] = "returned"
    BY <1>1 DEF IInv, AnswersComing
<1>8. /\ \A d \in Caller : doing'[d] = "submitted" /\ reply'[d] = {} => Held(d)'
      /\ \A d \in Caller :
           doing'[d] = "admitted" \/ (doing'[d] = "submitted" /\ "admitted" \in reply'[d]) =>
             result'[d] # {} \/ FoundOn(d)' # {}
    BY <1>1, <1>5, <1>6
<1>9. AnswersComing'
    BY <1>1, <1>7, <1>8, ResultsKept DEF IInv, AnswersComing
<1> QED
    BY <1>4, <1>9

\* Joining an item counts a waiter of its partition and moves none of the
\* partition's items.
LEMMA JoinMovesNothing ==
  ASSUME TypeOK, NEW c \in Caller, SubmitJoin(c)
  PROVE  \A q \in Part : /\ part'[q].active = part[q].active /\ part'[q].pending = part[q].pending
                         /\ part'[q].live = part[q].live
<1> DEFINE p == req[c].part
<1>1. part' = [part EXCEPT ![p].waiters = @ + 1] /\ p \in Part
    BY Typed DEF SubmitJoin
<1>2. part \in [Part -> PartitionState]
    BY QueueTypes
<1> HIDE DEF p
<1>3. /\ part'[p] = [part[p] EXCEPT !.waiters = part[p].waiters + 1]
      /\ \A q \in Part : q # p => part'[q] = part[q]
    BY <1>1, <1>2
<1>4. part[p] \in PartitionState
    BY <1>1, <1>2
<1>5. part'[p].active = part[p].active /\ part'[p].pending = part[p].pending /\ part'[p].live = part[p].live
    BY <1>3, <1>4 DEF PartitionState
<1> QED
    BY <1>3, <1>5

\* handleSubmit joins an item with the same key.
LEMMA SubmitJoinInv ==
  ASSUME TypeOK, IInv, Handle, NEW c \in Caller, c = Head(todo), SubmitJoin(c)
  PROVE  IInv'
<1> DEFINE p == req[c].part
<1>1. /\ c \in awaiting /\ reply[c] = {} /\ \A j \in Caller : c \notin item[j].waiters
      /\ UNCHANGED <<req, inflight, batch, doing, awaiting, result, cancelCh>>
    BY HandleHead
<1>2. PICK i \in Joinable(p, c) : item' = [item EXCEPT ![i] = Joined(item[i], c)]
    BY DEF SubmitJoin
<1>3. p \in Part /\ i \in Caller /\ i \in part[p].active /\ req[i].key = req[c].key
    BY <1>2, Typed DEF Joinable
<1>4. /\ item'[i].waiters = item[i].waiters \cup {c}
      /\ item'[i].activeWaiters = item[i].activeWaiters + 1
      /\ \A j \in Caller : j # i => item'[j] = item[j]
    BY <1>2, <1>3 DEF TypeOK, Joined
<1>5. \A q \in Part : part'[q].active = part[q].active /\ part'[q].pending = part[q].pending
    BY JoinMovesNothing
<1>6. HeldOnce' /\ AnswersComing'
  <2>1. blocked' = blocked /\ reply' = [reply EXCEPT ![c] = @ \cup {"admitted"}]
      BY DEF SubmitJoin, Reply
  <2>2. \A j \in Caller : /\ item'[j].waiters \subseteq item[j].waiters \cup {c}
                          /\ item[j].waiters \subseteq item'[j].waiters
      BY <1>4
  <2>3. \A q \in Part : /\ part[q].active \subseteq part'[q].active
                        /\ \A j \in part[q].active : item[j].waiters \subseteq item'[j].waiters
      BY <1>5, <2>2, Typed
  <2>4. i \in part'[req[c].part].active /\ c \in item'[i].waiters
      BY <1>3, <1>4, <1>5
  <2> QED
      BY <1>3, <2>1, <2>2, <2>3, <2>4, AdmittedInv
<1> HIDE DEF p
<1>7. WaitersAskedForIt'
  <2> SUFFICES ASSUME NEW q \in Part, NEW j \in part[q].active
               PROVE  /\ j \in item'[j].waiters
                      /\ \A d \in item'[j].waiters : req[d].part = q /\ req[d].key = req[j].key
      BY SMTT(30), <1>1, <1>5 DEF IInv, WaitersAskedForIt
  <2>1. /\ j \in Caller /\ j \in item[j].waiters
        /\ \A d \in item[j].waiters : req[d].part = q /\ req[d].key = req[j].key
      BY Typed DEF IInv, WaitersAskedForIt
  <2>2. CASE j # i
      BY <1>4, <2>1, <2>2
  <2>3. CASE j = i
    <3>1. req[i].part = p /\ req[i].part = q
        BY <1>3, <2>1, <2>3, AskedFor DEF IInv
    <3> QED
        BY <1>3, <1>4, <2>1, <2>3, <3>1 DEF p
  <2> QED
      BY <2>2, <2>3
<1>8. BatchesDisjoint'
    BY <1>1, <1>5, Typed DEF IInv, BatchesDisjoint
<1>9. WaitersCounted'
  <2> SUFFICES ASSUME NEW q \in Part, NEW j \in part[q].active
               PROVE  /\ Cardinality(item'[j].waiters \cap awaiting) <= item'[j].activeWaiters
                      /\ \A k \in part[q].active :
                           item'[j].waiters \cap item'[k].waiters \cap awaiting # {} => j = k
      BY <1>1, <1>5 DEF WaitersCounted
  <2> DEFINE W == item[j].waiters \cap awaiting
  <2>1. j \in Caller /\ item[j].activeWaiters \in Int /\ W \subseteq Caller
      BY Typed
  <2>2. Cardinality(W) <= item[j].activeWaiters
      BY DEF IInv, WaitersCounted
  <2>3. Cardinality(item'[j].waiters \cap awaiting) <= item'[j].activeWaiters
    <3>1. CASE j # i
        BY <1>4, <2>1, <2>2, <3>1
    <3>2. CASE j = i
      <4>1. item'[j].waiters \cap awaiting = W \cup {c} /\ c \notin W
          BY <1>1, <1>3, <1>4, <3>2
      <4>2. IsFiniteSet(W)
          BY <2>1, CallAssumption, FS_Subset
      <4>3. Cardinality(W) \in Nat
          BY <4>2, FS_CardinalityType
      <4> HIDE DEF W
      <4>4. Cardinality(W \cup {c}) = Cardinality(W) + 1
          BY <4>1, <4>2, FS_AddElement
      <4>5. Cardinality(W) + 1 <= item[j].activeWaiters + 1
          BY SMTT(30), <2>1, <2>2, <4>3
      <4> QED
          BY <1>4, <3>2, <4>1, <4>4, <4>5
    <3> QED
        BY <3>1, <3>2
  <2>4. ASSUME NEW k \in part[q].active, item'[j].waiters \cap item'[k].waiters \cap awaiting # {}, j # k
        PROVE  FALSE
    <3>1. k \in Caller /\ item[j].waiters \cap item[k].waiters \cap awaiting = {}
        BY <2>4, Typed DEF IInv, WaitersCounted
    <3>2. c \notin item[j].waiters /\ c \notin item[k].waiters
        BY <1>1, <2>1, <3>1
    <3>3. j # i => item'[j].waiters = item[j].waiters
        BY <1>4, <2>1
    <3>4. k # i => item'[k].waiters = item[k].waiters
        BY <1>4, <3>1
    <3> QED
        BY <1>4, <2>4, <3>1, <3>2, <3>3, <3>4
  <2> QED
      BY <2>3, <2>4
<1> QED
    BY <1>6, <1>7, <1>8, <1>9 DEF IInv

\* handleSubmit enqueues a new item, which no other call waits on.
LEMMA SubmitEnqueueInv ==
  ASSUME TypeOK, IInv, Handle, NEW c \in Caller, c = Head(todo), SubmitEnqueue(c)
  PROVE  IInv'
<1> DEFINE p == req[c].part
<1>1. /\ c \in awaiting /\ reply[c] = {} /\ \A j \in Caller : c \notin item[j].waiters
      /\ UNCHANGED <<req, inflight, batch, doing, awaiting, result, cancelCh>>
    BY HandleHead
<1>2. p \in Part
    BY Typed
<1>3. /\ item'[c].waiters = {c} /\ item'[c].activeWaiters = 1
      /\ \A j \in Caller : j # c => item'[j] = item[j]
    BY DEF SubmitEnqueue, TypeOK
<1>4. /\ part'[p].active = part[p].active \cup {c} /\ part'[p].pending = part[p].pending \cup {c}
      /\ \A q \in Part : q # p => part'[q] = part[q]
    BY <1>2 DEF SubmitEnqueue, Enqueued, TypeOK
<1>5. \A q \in Part : c \notin part[q].active
    BY <1>1 DEF IInv, WaitersAskedForIt
<1>6. HeldOnce' /\ AnswersComing'
  <2>1. blocked' = blocked /\ reply' = [reply EXCEPT ![c] = @ \cup {"admitted"}]
      BY DEF SubmitEnqueue, Reply
  <2>2. \A j \in Caller : item'[j].waiters \subseteq item[j].waiters \cup {c}
      BY <1>3
  <2>3. \A q \in Part : part[q].active \subseteq part'[q].active
      BY <1>4
  <2>4. \A q \in Part : \A j \in part[q].active : item[j].waiters \subseteq item'[j].waiters
      BY <1>3, <1>5, Typed
  <2>5. c \in part'[req[c].part].active /\ c \in item'[c].waiters
      BY <1>3, <1>4
  <2> QED
      BY <2>1, <2>2, <2>3, <2>4, <2>5, AdmittedInv
<1> HIDE DEF p
<1>7. ASSUME NEW q \in Part, NEW j \in part'[q].active
      PROVE  (j = c /\ q = p) \/ (j # c /\ j \in Caller /\ j \in part[q].active /\ item'[j] = item[j])
  <2>1. CASE q = p
      BY <1>3, <1>4, <1>5, <2>1, Typed
  <2>2. CASE q # p
      BY <1>3, <1>4, <1>5, <2>2, Typed
  <2> QED
      BY <2>1, <2>2
<1>8. WaitersAskedForIt'
  <2>1. \A q \in Part : part'[q].pending \subseteq part'[q].active
      BY <1>4 DEF IInv, WaitersAskedForIt
  <2>2. ASSUME NEW q \in Part, NEW j \in part'[q].active
        PROVE  /\ j \in item'[j].waiters
               /\ \A d \in item'[j].waiters : req'[d].part = q /\ req'[d].key = req'[j].key
    <3>1. CASE j = c /\ q = p
        BY <1>1, <1>3, <3>1 DEF p
    <3>2. CASE j \in part[q].active /\ item'[j] = item[j]
      <4>1. j \in item[j].waiters /\ \A d \in item[j].waiters : req[d].part = q /\ req[d].key = req[j].key
          BY <3>2, AskedFor DEF IInv
      <4> QED
          BY <1>1, <3>2, <4>1
    <3> QED
        BY <1>7, <3>1, <3>2
  <2> QED
      BY <2>1, <2>2 DEF WaitersAskedForIt
<1>9. BatchesDisjoint'
  <2> SUFFICES ASSUME NEW h \in inflight
               PROVE  batch[h].items \subseteq part'[batch[h].part].active \ part'[batch[h].part].pending
      BY <1>1 DEF IInv, BatchesDisjoint
  <2>1. /\ batch[h].items \subseteq part[batch[h].part].active \ part[batch[h].part].pending
        /\ batch[h].part \in Part
      BY Typed DEF IInv, BatchesDisjoint
  <2>2. CASE batch[h].part = p
    <3>1. batch[h].items \subseteq part[p].active \ part[p].pending
        BY <2>1, <2>2
    <3>2. ASSUME NEW x \in batch[h].items PROVE x \in part'[p].active \ part'[p].pending
        BY <1>2, <1>4, <1>5, <3>1
    <3> QED
        BY <2>2, <3>2
  <2>3. CASE batch[h].part # p
      BY <1>4, <2>1, <2>3
  <2> QED
      BY <2>2, <2>3
<1>10. WaitersCounted'
  <2> SUFFICES ASSUME NEW q \in Part, NEW j \in part'[q].active
               PROVE  /\ Cardinality(item'[j].waiters \cap awaiting) <= item'[j].activeWaiters
                      /\ \A k \in part'[q].active :
                           item'[j].waiters \cap item'[k].waiters \cap awaiting # {} => j = k
      BY <1>1 DEF WaitersCounted
  <2>1. Cardinality(item'[j].waiters \cap awaiting) <= item'[j].activeWaiters
    <3>1. CASE j = c
      <4>1. item'[j].waiters \cap awaiting = {c}
          BY <1>1, <1>3, <3>1
      <4>2. Cardinality({c}) = 1
          BY FS_Singleton
      <4> QED
          BY SMTT(30), <1>3, <3>1, <4>1, <4>2
    <3>2. CASE j \in part[q].active /\ item'[j] = item[j]
        BY <3>2 DEF IInv, WaitersCounted
    <3> QED
        BY <1>7, <3>1, <3>2
  <2>2. ASSUME NEW k \in part'[q].active, item'[j].waiters \cap item'[k].waiters \cap awaiting # {}, j # k
        PROVE  FALSE
    <3>1. CASE j # c /\ k # c
      <4>1. /\ j \in part[q].active /\ item'[j] = item[j]
            /\ k \in part[q].active /\ item'[k] = item[k]
          BY <1>7, <3>1
      <4> QED
          BY <2>2, <4>1 DEF IInv, WaitersCounted
    <3>2. CASE j = c
      <4>1. k \in Caller /\ item'[k] = item[k]
          BY <1>7, <2>2, <3>2
      <4> QED
          BY <1>1, <1>3, <2>2, <3>2, <4>1
    <3>3. CASE k = c
      <4>1. j \in Caller /\ item'[j] = item[j]
          BY <1>7, <2>2, <3>3
      <4> QED
          BY <1>1, <1>3, <2>2, <3>3, <4>1
    <3> QED
        BY <3>1, <3>2, <3>3
  <2> QED
      BY <2>1, <2>2
<1> QED
    BY <1>6, <1>8, <1>9, <1>10 DEF IInv

\* handleSubmit keeps the invariant in each of its branches.
LEMMA HandleInv ==
  ASSUME TypeOK, IInv, Handle
  PROVE  IInv'
<1>1. PICK c \in Caller : c = Head(todo) /\ HandleSubmit(c)
    BY HandleHead
<1>2. ASSUME NEW err \in Refusals, ApplyOverflow(c, err)
      PROVE  \/ blocked' = blocked /\ \E r \in Refusals : reply' = [reply EXCEPT ![c] = @ \cup {r}]
             \/ blocked' = Append(blocked, c) /\ reply' = reply
    BY <1>2 DEF ApplyOverflow, Reply, Refusals
<1>3. CASE SubmitWhileClosing(c)
  <2>1. /\ blocked' = blocked /\ \E r \in Refusals : reply' = [reply EXCEPT ![c] = @ \cup {r}]
        /\ UNCHANGED <<part, item>>
      BY <1>3 DEF SubmitWhileClosing, Reply, Refusals, queueVars
  <2> QED
      BY <1>1, <2>1, RefusedInv
<1>4. CASE SubmitNoPartition(c)
  <2>1. ApplyOverflow(c, "partitions") /\ "partitions" \in Refusals /\ UNCHANGED <<part, item>>
      BY <1>4 DEF SubmitNoPartition, Refusals, queueVars
  <2> QED
      BY <1>1, <1>2, <2>1, RefusedInv
<1>5. CASE SubmitJoin(c)
    BY <1>1, <1>5, SubmitJoinInv
<1>6. CASE SubmitOverLimit(c)
  <2>1. ApplyOverflow(c, "full") /\ "full" \in Refusals /\ UNCHANGED <<part, item>>
      BY <1>6 DEF SubmitOverLimit, Refusals
  <2> QED
      BY <1>1, <1>2, <2>1, RefusedInv
<1>7. CASE SubmitEnqueue(c)
    BY <1>1, <1>7, SubmitEnqueueInv
<1> QED
    BY <1>1, <1>3, <1>4, <1>5, <1>6, <1>7 DEF HandleSubmit
================================================================================
