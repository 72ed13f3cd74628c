-------------------------- MODULE MCProviderManager --------------------------
(* Instance of ProviderManager; replicas are interchangeable. *)
EXTENDS ProviderManager, TLC

InterchangeableReplicas == Permutations(Replicas)
=============================================================================
