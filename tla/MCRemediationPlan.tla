-------------------------- MODULE MCRemediationPlan --------------------------
(* Instances of RemediationProperties: one namespace, one pod, kinds of      *)
(* action of which the config denies one.                                    *)
EXTENDS RemediationProperties, TLC

\* Safety runs only: nothing tells one replica from another.
InterchangeableReplicas == Permutations(Replicas)

MCWords == {"restartPod", "runCommand", "drainNode", "pod"}
MCFold == [w \in MCWords |-> w]
MCTooled == {"restartPod", "runCommand"}
MCNamespaces == {"prod"}
MCNames == {"db"}

DbPod == [name |-> "db", kind |-> "pod", ns |-> "prod"]
Restart == [type |-> "restartPod", risk |-> "low", target |-> DbPod, manifest |-> Nil]
Command == [Restart EXCEPT !.type = "runCommand"]
DrainNode == [Restart EXCEPT !.type = "drainNode"]

PlanSpec(mode, rollback, actions, finalizers) ==
  [mode |-> mode, rollback |-> rollback, actions |-> actions, finalizers |-> finalizers]

\* A config denies one operation and is otherwise permissive.
Deny(op) ==
  [safety |-> [denied |-> {op}, allowed |-> {}, protected |-> {}],
   auto |-> [maxRisk |-> "medium", nsAllow |-> {}, nsDeny |-> {}]]
DenyCommands == {Deny("runCommand")}
DenyEither == {Deny("runCommand"), Deny("restartPod")}

\* Plans of up to three actions, with and without rollback, one of a type without a
\* tool, one dry-run.
MixedPlans ==
  {PlanSpec("auto", FALSE, <<Restart, DrainNode>>, {}),
   PlanSpec("", TRUE, <<Restart, Command, Restart>>, {}),
   PlanSpec("dry-run", TRUE, <<Restart, Command>>, {"k8ops"})}
OneAction == {PlanSpec("auto", TRUE, <<Restart>>, {"k8ops"})}
TwoActions == {PlanSpec("manual", TRUE, <<Restart, Restart>>, {})}
Progressing ==
  {PlanSpec("auto", b, <<Restart>>, {"k8ops"}) : b \in BOOLEAN}
    \cup {PlanSpec("dry-run", TRUE, <<Command, Restart>>, {})}
=============================================================================
