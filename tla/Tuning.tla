-------------------------------- MODULE Tuning --------------------------------
(* The adaptive controller at run time (internal/adaptive: controller.go,       *)
(* decision.go, rollback.go).  A control loop per operation asks the controller *)
(* for a decision, applies it and arms the rollback monitor, and later has the  *)
(* monitor evaluate what is measured.  The loops share the controller: its      *)
(* emergency stop, its cooldowns and its decision log.                          *)
EXTENDS Settings, Sequences

CONSTANTS Ops,             \* operations, each with a control loop of its own
          Documents,       \* configuration documents
          InitialSettings, \* settings in effect at the start
          Inputs,          \* RecommendInputs: [p (profile), age (in half-lives), changed]
          MaxCalls,        \* bound on the recommendations of each operation
          Measured,        \* ObservedMetrics the monitor may be given
          Baselines,       \* those measured before a change
          LogMax,          \* decisions the log retains
          MaxTime          \* bound on the clock

VARIABLES clock,     \* the time
          cfg,       \* the controller's configuration
          ctl,       \* Controller: [disabled, last (per operation, -1: never), items, byID]
          loop,      \* each operation's loop: [at, calls, now, cur, in, d]
          inEffect,  \* settings each operation runs under
          armed,     \* RollbackMonitor.armed: the change under watch, or Unarmed
          hist       \* what happened: [before, times, late (changes applied since the stop)]

tuningVars == <<clock, cfg, ctl, loop, inEffect, armed, hist>>

Unarmed == <<>>
Rest(n) == [at |-> "rest", calls |-> n, now |-> 0, cur |-> InitialSettings, in |-> <<>>, d |-> <<>>]

NewController == [disabled |-> FALSE, last |-> [o \in Ops |-> -1], items |-> <<>>, byID |-> {}]

TuningInit ==
    /\ clock = 0
    /\ cfg \in {withDefaults(ControllerConfig(d)) : d \in {d \in Documents : ValidDoc(d)}}
    /\ ctl = NewController
    /\ loop = [o \in Ops |-> Rest(0)]
    /\ inEffect = [o \in Ops |-> InitialSettings]
    /\ armed = [o \in Ops |-> Unarmed]
    /\ hist = [before |-> [o \in Ops |-> InitialSettings], times |-> [o \in Ops |-> {}],
               late |-> [o \in Ops |-> 0]]

-------------------------------------------------------------------------------
(* The decision log.                                                            *)

Decision(o, prev, new, p, why, applied, at) ==
    [op |-> o, prev |-> prev, new |-> new, p |-> p, why |-> why, applied |-> applied, at |-> at]

(* A decision's identity covers what was decided and why, not when.             *)
computeID(d) == <<d.op, d.prev, d.new, d.p, d.why>>

(* Record appends, indexes by identity, and evicts the oldest.                  *)
Record(c, d) ==
    LET grown == Append(c.items, d)
        full == Len(grown) > LogMax
        index == {e \in c.byID : computeID(e) # computeID(d)} \cup {d}
    IN  [c EXCEPT !.items = IF full THEN Tail(grown) ELSE grown,
                  !.byID = IF full THEN {e \in index : computeID(e) # computeID(grown[1])}
                           ELSE index]

-------------------------------------------------------------------------------
(* Controller.                                                                  *)

EmergencyDisable ==
    /\ ~ctl.disabled
    /\ ctl' = [ctl EXCEPT !.disabled = TRUE]
    /\ hist' = [hist EXCEPT !.late = [o \in Ops |-> 0]]
    /\ UNCHANGED <<clock, cfg, loop, inEffect, armed>>

Enable ==
    /\ ctl.disabled
    /\ ctl' = [ctl EXCEPT !.disabled = FALSE]
    /\ UNCHANGED <<clock, cfg, loop, inEffect, armed, hist>>

(* Recommend begins: the time is read, and a stopped controller or a profile    *)
(* without calls changes nothing.                                               *)
NoChange(o, p) ==
    IF ctl.disabled THEN "disabled" ELSE IF p.calls = 0 THEN "cold start" ELSE "go on"

Start(o) ==
    LET n == loop[o].calls + 1 IN
    /\ loop[o].at = "rest" /\ n <= MaxCalls[o]
    /\ \E in \in Inputs :
        LET no == NoChange(o, in.p) IN
        IF no # "go on"
        THEN /\ ctl' = Record(ctl, Decision(o, inEffect[o], inEffect[o], in.p, {no}, FALSE, clock))
             /\ loop' = [loop EXCEPT ![o] = Rest(n)]
        ELSE /\ loop' = [loop EXCEPT ![o] = [Rest(n) EXCEPT !.at = "judge", !.now = clock,
                                             !.cur = inEffect[o], !.in = in]]
             /\ UNCHANGED ctl
    /\ UNCHANGED <<clock, cfg, inEffect, armed, hist>>

Active == cfg.mode = "active"

(* Mutant: the step is taken after the clamp.                                   *)
RecommendedClampedFirst(l) ==
    LET best == Clamp(cfg.bounds, search(cfg, l.in.p, l.cur)) IN
    IF Active /\ cfg.explore.on THEN limitStep(cfg, l.cur, best) ELSE best

(* What is recommended: the cheapest settings, approached by one step when      *)
(* exploring, and clamped last.                                                 *)
Recommended(l) ==
    LET best == search(cfg, l.in.p, l.cur) IN
    Clamp(cfg.bounds, IF Active /\ cfg.explore.on THEN limitStep(cfg, l.cur, best) ELSE best)

CooldownOver(o, now) ==
    ctl.last[o] = -1 \/ now - ctl.last[o] >= cfg.explore.cooldown

(* The gates in their order; the first that fails is the reason.                *)
Gate(o, new) ==
    LET l == loop[o] IN
    IF ~Active \/ new = l.cur THEN "advisory"
    ELSE IF ~Evident(cfg, l.in.p, l.in.age, l.in.changed) THEN "insufficient"
    ELSE IF ~checkGuardrails(cfg, l.cur, new) THEN "guardrail"
    ELSE IF cfg.explore.on /\ ~CooldownOver(o, l.now) THEN "cooldown"
    ELSE "applied"

(* Up to the last gate, which reads the cooldown under the controller's lock.   *)
Judge(o) ==
    LET l == loop[o]
        new == Recommended(l)
        gate == Gate(o, new)
        why == {gate} \cup (IF l.in.changed THEN {"phase change"} ELSE {})
    IN  /\ l.at = "judge"
        /\ loop' = [loop EXCEPT ![o].at = "record",
                                ![o].d = Decision(o, l.cur, new, l.in.p, why, gate = "applied", l.now)]
        /\ UNCHANGED <<clock, cfg, ctl, inEffect, armed, hist>>

(* markApplied with the time the recommendation began, and the log.             *)
Finish(o) ==
    LET d == loop[o].d IN
    /\ loop[o].at = "record"
    /\ ctl' = Record(IF d.applied THEN [ctl EXCEPT !.last[o] = loop[o].now] ELSE ctl, d)
    /\ loop' = [loop EXCEPT ![o].at = "done"]
    /\ UNCHANGED <<clock, cfg, inEffect, armed, hist>>

-------------------------------------------------------------------------------
(* The control loop: the caller applies an accepted decision through the        *)
(* runtime's settings, and arms the monitor with what it measured before.       *)

(* Arm replaces the change that was under watch.                                *)
Arm(o, d, base) ==
    IF d.applied /\ cfg.guard.window > 0
    THEN [armed EXCEPT ![o] = [prev |-> d.prev, base |-> base, at |-> clock]]
    ELSE armed

Apply(o) ==
    LET d == loop[o].d IN
    /\ loop[o].at = "done"
    /\ loop' = [loop EXCEPT ![o] = Rest(loop[o].calls)]
    /\ IF d.applied
       THEN /\ \E base \in Baselines : armed' = Arm(o, d, base)
            /\ hist' = [hist EXCEPT !.before[o] = inEffect[o], !.times[o] = @ \cup {loop[o].now},
                                    !.late[o] = IF ctl.disabled THEN @ + 1 ELSE @]
            /\ inEffect' = [inEffect EXCEPT ![o] = d.new]
       ELSE UNCHANGED <<armed, hist, inEffect>>
    /\ UNCHANGED <<clock, cfg, ctl>>

(* guardrailBreach: a mismatch or violation, a guardrail exceeded where one is  *)
(* set, errors above those before the change by more than is allowed, or        *)
(* throttling where there was none.                                             *)
guardrailBreach(a, m) ==
    \/ m.mismatch
    \/ cfg.guard.delay > 0 /\ m.delay > cfg.guard.delay
    \/ cfg.guard.timeouts > 0 /\ m.timeouts > cfg.guard.timeouts
    \/ m.errors > a.base.errors + cfg.guard.errors
    \/ m.throttle > 0 /\ a.base.throttle = 0
    \/ m.unfair

(* Evaluate commits a change once its window is over, and otherwise rolls it    *)
(* back at the first breach; the loop puts the restored settings in effect.     *)
WindowOver(a) == clock - a.at > cfg.guard.window

EvaluateMonitor(o) ==
    /\ loop[o].at = "rest" /\ armed[o] # Unarmed
    /\ \E m \in Measured :
        LET a == armed[o]
            breach == ~WindowOver(a) /\ guardrailBreach(a, m)
        IN  /\ armed' = IF WindowOver(a) \/ breach THEN [armed EXCEPT ![o] = Unarmed] ELSE armed
            /\ inEffect' = IF breach THEN [inEffect EXCEPT ![o] = a.prev] ELSE inEffect
    /\ UNCHANGED <<clock, cfg, ctl, loop, hist>>

Tick == clock < MaxTime /\ clock' = clock + 1 /\ UNCHANGED <<cfg, ctl, loop, inEffect, armed, hist>>

TuningNext ==
    \/ EmergencyDisable \/ Enable \/ Tick
    \/ \E o \in Ops : Start(o) \/ Judge(o) \/ Finish(o) \/ Apply(o) \/ EvaluateMonitor(o)

-------------------------------------------------------------------------------
(* Properties.                                                                  *)

(* A change the controller lets through stays inside the hard bounds whatever   *)
(* was in effect, fits the latency budget, and when exploring moves the wait no *)
(* further than one step except where a bound forces it; without exploring, no  *)
(* wait of the grid is modelled cheaper (Controller.Recommend, Clamp,           *)
(* limitStep, search).                                                          *)
AppliedIsBounded ==
    \A o \in Ops :
        LET l == loop[o]  d == loop[o].d  b == cfg.bounds IN
        (l.at = "done" /\ d.applied) =>
            /\ InBounds(b, d.new)
            /\ checkGuardrails(cfg, d.prev, d.new)
            /\ IF cfg.explore.on
               THEN \/ d.new.wait = stepInt(cfg, d.prev.wait, d.new.wait)
                    \/ d.new.wait \in {b.minWait, b.maxWait}
               ELSE InBounds(b, d.prev) =>
                    \A w \in WaitGrid(b) :
                        evalCost(cfg, l.in.p, d.new) <= evalCost(cfg, l.in.p, Candidate(cfg, l.cur, w))

(* Two changes of one operation are at least a cooldown apart, however the      *)
(* loops of other operations interleave (cooldownElapsed, markApplied).         *)
CooldownKept ==
    cfg.explore.on =>
        \A o \in Ops : \A s, t \in hist.times[o] : s < t => t - s >= cfg.explore.cooldown

(* After EmergencyDisable a loop applies at most the one recommendation it had  *)
(* already begun (the stop is read once, when Recommend starts).                *)
StopBounds == ctl.disabled => \A o \in Ops : hist.late[o] <= 1

(* What the log finds by identity is what it still holds, in its newest form    *)
(* (DecisionLog.Record, Get).                                                   *)
LogIndexed ==
    \A e \in ctl.byID : \E i \in 1..Len(ctl.items) :
        /\ ctl.items[i] = e
        /\ \A j \in i + 1..Len(ctl.items) : computeID(ctl.items[j]) # computeID(e)

(* A rollback restores exactly the settings that the last change replaced, and  *)
(* only within the window of that change (RollbackMonitor.Arm, Evaluate).       *)
RollbackRestores ==
    [][\A o \in Ops : (loop[o].at = "rest" /\ inEffect'[o] # inEffect[o]) =>
        /\ inEffect'[o] = hist.before[o]
        /\ clock - armed[o].at <= cfg.guard.window]_tuningVars
===============================================================================
