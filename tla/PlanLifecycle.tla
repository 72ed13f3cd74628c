---------------------------- MODULE PlanLifecycle ----------------------------
(***************************************************************************)
(* What the system promises about a remediation plan, with no replica,     *)
(* cache, version or fault in sight: each arming licenses one run, a run   *)
(* calls the tool of each action at most once, and a decided plan stays    *)
(* decided until it is armed again.                                        *)
(***************************************************************************)
EXTENDS Naturals

CONSTANTS Plans, Steps

VARIABLES
  life,      \* life[p]: where plan p stands for a reader of the API
  licensed,  \* licensed[p]: armings so far
  runs,      \* runs[p]: runs so far
  tries      \* tries[p][i]: tool calls for action i so far

vars == <<life, licensed, runs, tries>>

Lives == {"armed", "approved", "running", "settled", "gone"}

Init ==
  /\ life = [p \in Plans |-> "armed"]
  /\ licensed = [p \in Plans |-> 1]
  /\ runs = [p \in Plans |-> 0]
  /\ tries = [p \in Plans |-> [i \in Steps |-> 0]]

\* A user approves; a user rejects, or a dry-run reports.
Decide(p, verdict) ==
  /\ life[p] = "armed"
  /\ life' = [life EXCEPT ![p] = verdict]
  /\ UNCHANGED <<licensed, runs, tries>>

\* The plan starts; the run may be lost before it begins.
Start(p) ==
  /\ life[p] = "armed"
  /\ life' = [life EXCEPT ![p] = "running"]
  /\ runs' \in {runs, [runs EXCEPT ![p] = @ + 1]}
  /\ UNCHANGED <<licensed, tries>>

\* A run calls a tool, possibly after the plan object has moved on without it.
Try(p, i) ==
  /\ tries[p][i] < runs[p]
  /\ tries' = [tries EXCEPT ![p][i] = @ + 1]
  /\ UNCHANGED <<life, licensed, runs>>

Settle(p) ==
  /\ life[p] = "running"
  /\ life' = [life EXCEPT ![p] = "settled"]
  /\ UNCHANGED <<licensed, runs, tries>>

Vanish(p) ==
  /\ life[p] # "gone"
  /\ life' = [life EXCEPT ![p] = "gone"]
  /\ UNCHANGED <<licensed, runs, tries>>

Arm(p) ==
  /\ life[p] \in {"approved", "running", "settled"}
  /\ life' = [life EXCEPT ![p] = "armed"]
  /\ licensed' = [licensed EXCEPT ![p] = @ + 1]
  /\ UNCHANGED <<runs, tries>>

Next ==
  \E p \in Plans :
    \/ \E verdict \in {"approved", "settled"} : Decide(p, verdict)
    \/ Start(p)
    \/ \E i \in Steps : Try(p, i)
    \/ Settle(p)
    \/ Vanish(p)
    \/ Arm(p)

Spec == Init /\ [][Next]_vars
=============================================================================
