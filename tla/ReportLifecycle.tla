---------------------------- MODULE ReportLifecycle ----------------------------
(***************************************************************************)
(* What DiagnosticReport promises to a reader of the API who knows nothing *)
(* of replicas, caches and work queues: a report waits, is analysed, is    *)
(* answered for good; it is analysed by one agent run at most and gives    *)
(* rise to one remediation plan at most, after its answer.                 *)
(***************************************************************************)
EXTENDS Naturals

CONSTANT Names

VARIABLES
  life,  \* "unborn", "waiting", "analysing", "answered" or "gone"
  runs,  \* agent runs
  heirs  \* remediation plans

vars == <<life, runs, heirs>>

Init ==
  /\ life = [n \in Names |-> "unborn"]
  /\ runs = [n \in Names |-> 0]
  /\ heirs = [n \in Names |-> 0]

Become(n, from, to) ==
  /\ life[n] \in from
  /\ life' = [life EXCEPT ![n] = to]
  /\ UNCHANGED <<runs, heirs>>

Ask(n) == Become(n, {"unborn"}, "waiting")
Take(n) == Become(n, {"waiting"}, "analysing")
\* Only a report no agent has looked at goes back to waiting.
PutBack(n) == runs[n] = 0 /\ Become(n, {"analysing"}, "waiting")
Answer(n) == Become(n, {"analysing"}, "answered")
Vanish(n) == Become(n, {"waiting", "analysing", "answered"}, "gone")

\* The agent run and the plan may come late, when the report is gone.
Run(n) ==
  /\ life[n] \in {"analysing", "gone"}
  /\ runs[n] = 0
  /\ runs' = [runs EXCEPT ![n] = 1]
  /\ UNCHANGED <<life, heirs>>

Bequeath(n) ==
  /\ life[n] \in {"answered", "gone"}
  /\ runs[n] = 1
  /\ heirs[n] = 0
  /\ heirs' = [heirs EXCEPT ![n] = 1]
  /\ UNCHANGED <<life, runs>>

Next ==
  \E n \in Names :
    Ask(n) \/ Take(n) \/ PutBack(n) \/ Answer(n) \/ Vanish(n) \/ Run(n) \/ Bequeath(n)

Spec == Init /\ [][Next]_vars
=============================================================================
