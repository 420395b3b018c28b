------------------------------ MODULE FairQueue -------------------------------
(* FairScheduler (internal/adaptive/fairness.go): a control loop admits items   *)
(* to fairness classes, asks which class is next, dispatches one of its items,  *)
(* and looks for starved classes.  The names of the classes are integers, so    *)
(* that sorting by name is sorting; a reserved share is in twelfths.            *)
EXTENDS Integers, Sequences, SequencesExt

CONSTANTS ClassNames,   \* names of the classes that send items
          FairConfigs,  \* FairnessConfigs: [algorithm, threshold, classes (name -> policy)]
          Payloads,     \* sizes of items
          MaxAdmits,    \* bound on the items
          MaxClock      \* bound on the clock

VARIABLES fcfg,     \* the configuration
          cls,      \* the known classes: name -> [weight, priority, reserved, quota, payload,
                    \*   deficit, queued, served, firstWait, hasWaiting]
          rr,       \* the round-robin position
          pick,     \* what Next returned: <<>> (nothing), <<c>>, or Idle between calls
          fnow,     \* the time
          admits,   \* items admitted
          line,     \* ghost: admission times of the items queued in each class
          steady    \* ghost: classes with backlog at every Next so far

fairVars == <<fcfg, cls, rr, pick, fnow, admits, line, steady>>

Idle == <<0>>

NewClass(p) ==
    LET w == IF p.weight <= 0 THEN 1 ELSE p.weight IN
    [weight |-> w, priority |-> p.priority, reserved |-> p.reserved, quota |-> p.quota,
     payload |-> p.payload, deficit |-> w, queued |-> 0, served |-> 0, firstWait |-> 0,
     hasWaiting |-> FALSE]

DefaultPolicy == [weight |-> 1, priority |-> 0, reserved |-> 0, quota |-> 0, payload |-> 0]

FairInit ==
    /\ fcfg \in FairConfigs
    /\ cls = [c \in DOMAIN fcfg.classes |-> NewClass(fcfg.classes[c])]
    /\ rr = 0 /\ pick = Idle /\ fnow = 0 /\ admits = 0
    /\ line = [c \in ClassNames |-> <<>>]
    /\ steady = DOMAIN fcfg.classes

(* The order of the classes: sorted by name.                                    *)
order == SetToSortSeq(DOMAIN cls, <)

(* classFor: an unknown class is scheduled with the default policy.             *)
WithClass(c) ==
    IF c \in DOMAIN cls THEN cls
    ELSE [d \in DOMAIN cls \cup {c} |-> IF d = c THEN NewClass(DefaultPolicy) ELSE cls[d]]

Backlogged == {c \in DOMAIN cls : cls[c].queued > 0}

-------------------------------------------------------------------------------
(* Admission: the quotas on queued items and on the payload.                    *)

Refused(q, bytes) ==
    (q.quota > 0 /\ q.queued >= q.quota) \/ (q.payload > 0 /\ bytes > q.payload)

Admit(c, bytes) ==
    LET known == WithClass(c)  q == known[c] IN
    /\ admits < MaxAdmits
    /\ IF Refused(q, bytes)
       THEN cls' = known /\ UNCHANGED <<line, admits>>
       ELSE /\ cls' = [known EXCEPT ![c].queued = @ + 1,
                                    ![c].firstWait = IF q.hasWaiting THEN @ ELSE fnow,
                                    ![c].hasWaiting = TRUE]
            /\ line' = [line EXCEPT ![c] = Append(@, fnow)]
            /\ admits' = admits + 1
    /\ UNCHANGED <<fcfg, rr, pick, fnow, steady>>

-------------------------------------------------------------------------------
(* Next.                                                                        *)

totalServed == FoldLeft(LAMBDA n, c : n + cls[c].served, 0, order)

(* The class furthest below its reserved share, the first by name among equals. *)
reservedGap(c) ==
    cls[c].reserved * (IF totalServed = 0 THEN 1 ELSE totalServed) - 12 * cls[c].served

reservedPick ==
    LET below == {c \in Backlogged : cls[c].reserved > 0 /\ reservedGap(c) > 0} IN
    {c \in below : \A d \in below : \/ reservedGap(c) > reservedGap(d)
                                    \/ reservedGap(c) = reservedGap(d) /\ c <= d}

(* Mutant: the dispatch to come is not counted.                                 *)
scoreByService(c, d) == cls[c].served * cls[d].weight - cls[d].served * cls[c].weight

(* The highest priority, then the least service for the weight, then the name.  *)
scoreBelow(c, d) == (cls[c].served + 1) * cls[d].weight - (cls[d].served + 1) * cls[c].weight

weightedPick ==
    {c \in Backlogged : \A d \in Backlogged :
        \/ cls[c].priority > cls[d].priority
        \/ /\ cls[c].priority = cls[d].priority
           /\ scoreBelow(c, d) < 0 \/ (scoreBelow(c, d) = 0 /\ c <= d)}

(* A pass from the round-robin position: the first class in credit, and the     *)
(* classes in debt it went past, which get their quantum.                       *)
rotated == [i \in 1..Len(order) |-> order[((rr + i - 1) % Len(order)) + 1]]

firstInCredit(k) == SelectInSeq(rotated, LAMBDA c : k[c].queued > 0 /\ k[c].deficit > 0)

Credited(k, S) == [c \in DOMAIN k |-> IF c \in S THEN [k[c] EXCEPT !.deficit = @ + k[c].weight]
                                      ELSE k[c]]

TakeTurn(k, i) ==
    /\ cls' = k
    /\ IF i = 0 THEN pick' = <<>> /\ UNCHANGED rr
       ELSE pick' = <<rotated[i]>> /\ rr' = (rr + i) % Len(order)

(* deficitPick: a pass, and when it finds nobody, a quantum for every backlog   *)
(* and one more pass.                                                           *)
deficitPick ==
    LET i == firstInCredit(cls)
        past == {rotated[j] : j \in 1..(IF i = 0 THEN Len(order) ELSE i - 1)}
        passed == Credited(cls, {c \in past \cap Backlogged : cls[c].deficit <= 0})
        k == IF i # 0 THEN passed ELSE Credited(passed, Backlogged)
    IN  TakeTurn(k, IF i # 0 THEN i ELSE firstInCredit(k))

Choose(S) ==
    /\ pick' = IF S = {} THEN <<>> ELSE <<CHOOSE c \in S : TRUE>>
    /\ UNCHANGED <<cls, rr>>

NextClass ==
    /\ pick = Idle /\ Backlogged # {}
    /\ IF reservedPick # {} THEN Choose(reservedPick)
       ELSE IF fcfg.algorithm = "deficit-round-robin" THEN deficitPick
       ELSE Choose(weightedPick)
    /\ steady' = steady \cap Backlogged
    /\ UNCHANGED <<fcfg, fnow, line, admits>>

-------------------------------------------------------------------------------
(* Serve, and the clock.  The counts of active and of rejected items, which     *)
(* nothing but the report reads, are left out.                                  *)

Served(k) ==
    [k EXCEPT !.queued = @ - 1, !.served = @ + 1, !.deficit = @ - 1,
              !.hasWaiting = k.queued > 1,
              !.firstWait = IF k.queued > 1 THEN fnow ELSE @]

Serve ==
    /\ pick # Idle /\ pick' = Idle
    /\ IF pick = <<>> THEN UNCHANGED <<cls, line>>
       ELSE /\ cls' = [cls EXCEPT ![pick[1]] = Served(@)]
            /\ line' = [line EXCEPT ![pick[1]] = Tail(@)]
    /\ UNCHANGED <<fcfg, rr, fnow, steady, admits>>

FairTick ==
    fnow < MaxClock /\ fnow' = fnow + 1 /\ UNCHANGED <<fcfg, cls, rr, pick, line, steady, admits>>

DetectStarvation ==
    {c \in DOMAIN cls : /\ fcfg.threshold > 0
                        /\ cls[c].hasWaiting /\ fnow - cls[c].firstWait > fcfg.threshold}

FairNext ==
    \/ \E c \in ClassNames, bytes \in Payloads : Admit(c, bytes)
    \/ NextClass \/ Serve \/ FairTick

-------------------------------------------------------------------------------
(* Properties.                                                                  *)

(* A class that has had backlog at every choice so far is never more than one   *)
(* dispatch behind its reserved share of them (ClassPolicy.ReservedShare,       *)
(* reservedPick).                                                               *)
ReservedHeld ==
    pick = Idle =>
        \A c \in steady : 12 * cls[c].served + 12 >= cls[c].reserved * totalServed

(* Under weighted fair queueing, two classes of one priority without a reserved *)
(* share that have had backlog throughout are served by their weights: neither  *)
(* is ahead by more than the other's next dispatch (weightedPick).              *)
ServedByWeight ==
    (pick = Idle /\ fcfg.algorithm # "deficit-round-robin") =>
        \A c, d \in {e \in steady : cls[e].reserved = 0} :
            cls[c].priority = cls[d].priority =>
                cls[c].served * cls[d].weight <= (cls[d].served + 1) * cls[c].weight

(* A class reported as starved has an item that has waited beyond the           *)
(* threshold, and a class that was not served while its oldest item waited      *)
(* beyond it is reported (DetectStarvation, Admit, Serve).                      *)
StarvationSeen ==
    \A c \in DOMAIN cls :
        LET late == {i \in 1..Len(line[c]) : fnow - line[c][i] > fcfg.threshold} IN
        /\ c \in DetectStarvation => late # {}
        /\ (fcfg.threshold > 0 /\ late # {} /\ cls[c].served = 0) => c \in DetectStarvation

(* Next comes back with nothing while there is backlog only under deficit round *)
(* robin, and only when every backlogged class has had its reserved share and   *)
(* is in debt for it (reservedPick, deficitPick).                               *)
IdleOnlyInDebt ==
    (pick = <<>> /\ Backlogged # {}) =>
        /\ fcfg.algorithm = "deficit-round-robin"
        /\ \A c \in {d \in Backlogged : cls[d].deficit <= 0} : cls[c].reserved > 0
===============================================================================
