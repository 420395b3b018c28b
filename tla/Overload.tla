------------------------------- MODULE Overload -------------------------------
(* OverloadDetector (internal/adaptive/overload.go): the load state that a set  *)
(* of signals implies, and what admission does with a request under it.         *)
(* Requests come one after the other while the signals move.  The six capacity  *)
(* ratios act by their maximum, which is one signal here; ratios are in percent *)
(* and rates in per mille.                                                      *)
EXTENDS Integers

CONSTANTS OverloadDocs,  \* overload sections: [high, critical, policy]
          Signals        \* OverloadSignals: [ratio, latency, timeout, throttle, rejected]

VARIABLES ocfg,   \* OverloadConfig
          asked   \* the last request: [req, signals, action, diag, pressure]

overloadVars == <<ocfg, asked>>

AdmissionPolicies == {"accept", "block", "reject", "fallback-direct", "shed-low-priority", "flush-early"}

(* The part of Config.Validate that looks at the overload section.              *)
ValidOverload(d) ==
    /\ d.policy \in AdmissionPolicies \cup {""}
    /\ d.high \in 0..100 /\ d.critical \in 0..100

OverloadDefaults(d) ==
    [high |-> IF d.high <= 0 THEN 80 ELSE d.high,
     critical |-> IF d.critical <= 0 THEN 95 ELSE d.critical,
     policy |-> IF d.policy = "" THEN "shed-low-priority" ELSE d.policy]

(* State.                                                                       *)
MaxRatio(s) == IF s.ratio > s.latency THEN s.ratio ELSE s.latency

StateOf(s) ==
    IF MaxRatio(s) >= ocfg.critical \/ s.timeout > 50 \/ s.rejected > 100 THEN "critical"
    ELSE IF MaxRatio(s) >= ocfg.high \/ s.throttle > 0 \/ s.timeout > 10 THEN "elevated"
    ELSE "normal"

(* Mutant: the fallback is used under elevated load, not critical.              *)
ActionFallsBackEarly(req, state) ==
    CASE state = "normal" \/ req.critical -> "accept"
      [] ocfg.policy = "shed-low-priority" ->
            IF req.low THEN "shed-low-priority"
            ELSE IF state = "elevated" /\ req.fallback THEN "fallback-direct" ELSE "accept"
      [] ocfg.policy = "fallback-direct" -> IF req.fallback THEN "fallback-direct" ELSE "reject"
      [] OTHER -> ocfg.policy

(* Admit: normal load accepts, a critical request is protected, and the policy  *)
(* decides the rest.                                                            *)
Action(req, state) ==
    CASE state = "normal" \/ req.critical -> "accept"
      [] ocfg.policy = "shed-low-priority" ->
            IF req.low THEN "shed-low-priority"
            ELSE IF state = "critical" /\ req.fallback THEN "fallback-direct" ELSE "accept"
      [] ocfg.policy = "fallback-direct" -> IF req.fallback THEN "fallback-direct" ELSE "reject"
      [] OTHER -> ocfg.policy

Backpressure(s) ==
    [state |-> StateOf(s), full |-> s.ratio >= 100, overloaded |-> StateOf(s) # "normal",
     direct |-> StateOf(s) = "critical"]

Requests == [low : BOOLEAN, critical : BOOLEAN, fallback : BOOLEAN]

Answer(req, s) ==
    LET action == Action(req, StateOf(s)) IN
    [req |-> req, signals |-> s, action |-> action,
     diag |-> action \in {"shed-low-priority", "reject"}, pressure |-> Backpressure(s)]

OverloadInit ==
    /\ ocfg \in {OverloadDefaults(d) : d \in {d \in OverloadDocs : ValidOverload(d)}}
    /\ asked \in {Answer(r, s) : r \in Requests, s \in Signals}

AdmitRequest ==
    /\ \E r \in Requests, s \in Signals : asked' = Answer(r, s)
    /\ UNCHANGED ocfg

-------------------------------------------------------------------------------
(* Properties.                                                                  *)

(* From the most to the least service a request may get.                        *)
Severity(action) ==
    CASE action = "accept" -> 0 [] action = "flush-early" -> 1 [] action = "block" -> 2
      [] action = "fallback-direct" -> 3 [] OTHER -> 4

NoBetter(s, t) == \A f \in DOMAIN s : s[f] <= t[f]

(* When the signals get worse the same request is treated no better, a critical *)
(* request is always accepted, and at the same load a low-priority request is   *)
(* never treated better than another (OverloadDetector.State, Admit).           *)
SheddingInOrder ==
    [][ /\ (asked'.req = asked.req /\ NoBetter(asked.signals, asked'.signals)) =>
                Severity(asked.action) <= Severity(asked'.action)
        /\ asked'.req.critical => asked'.action = "accept"
        /\ (/\ asked'.signals = asked.signals
            /\ asked'.req = [asked.req EXCEPT !.low = TRUE]) =>
                Severity(asked.action) <= Severity(asked'.action) ]_overloadVars
===============================================================================
