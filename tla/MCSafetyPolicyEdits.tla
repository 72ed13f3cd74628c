------------------------- MODULE MCSafetyPolicyEdits -------------------------
(* Two operations in two spellings each, one kind, two namespaces.          *)
EXTENDS SafetyPolicyEdits

MCWords == {"restartPod", "RESTARTPOD", "applyManifest", "pod", "Pod"}
MCFold == [w \in MCWords |-> CASE w = "RESTARTPOD" -> "restartPod"
                               [] w = "Pod" -> "pod"
                               [] OTHER -> w]
MCNamespaces == {"prod", "dev"}
MCNames == {"db", "web"}

DbPod == [name |-> "db", kind |-> "Pod", ns |-> "prod"]
ProtectedEntries ==
  {[name |-> "db", kind |-> "pod", ns |-> ""], [name |-> "", kind |-> "Pod", ns |-> "prod"],
   [name |-> "", kind |-> "pod", ns |-> "prod"]}

MCSafetySpecs ==
  {[denied |-> d, allowed |-> w, protected |-> g] :
     d \in {{}, {"RESTARTPOD"}, {"restartPod"}},
     w \in {{}, {"restartPod"}, {"RESTARTPOD", "applyManifest"}},
     g \in {{}} \cup {{e} : e \in ProtectedEntries}}

MCAutoSpecs ==
  [maxRisk : {"low", "high"}, nsAllow : {{}, {"dev"}, {"dev", "prod"}}, nsDeny : {{}, {"prod"}}]

MCPolicies ==
  [safety : MCSafetySpecs \cup {Nil}, auto : MCAutoSpecs \cup {Nil}]

\* A restart of the pod, its web sibling, a restart without a namespace, and an
\* apply whose manifest holds the pod, with and without a target.
MCProposals ==
  {[type |-> "restartPod", risk |-> r, target |-> t, manifest |-> Nil] :
     r \in {"low", "medium"},
     t \in {DbPod, [DbPod EXCEPT !.name = "web", !.ns = "dev"], [DbPod EXCEPT !.ns = ""]}}
  \cup
  {[type |-> "applyManifest", risk |-> "low", target |-> t, manifest |-> DbPod] :
     t \in {Nil, DbPod}}
=============================================================================
