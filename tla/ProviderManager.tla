--------------------------- MODULE ProviderManager ---------------------------
(***************************************************************************)
(* The LLM provider each replica has in memory, the ConfigMap and Secret it *)
(* is persisted in, and the updates, loads and restarts that write them one *)
(* after the other (internal/providermanager/manager.go, cmd/manager,       *)
(* internal/dashboard/handlers_provider.go).                                *)
(*                                                                         *)
(* A configuration is the update it came from; its settings (type, model,   *)
(* endpoint) go to the ConfigMap, its API key to the Secret.  The token     *)
(* limit and the temperature, which no load reads back, are left out.       *)
(* Reads are from the replica's informer cache, so that a write fails       *)
(* unless the cache has caught up with the object: Update carries a stale   *)
(* resourceVersion, Create finds the object there.                          *)
(***************************************************************************)
EXTENDS Naturals, FiniteSets

CONSTANTS
  Replicas,
  None,         \* no provider, no object
  Cr,           \* the provider of the K8opsConfig resource
  MaxUpdates,   \* bound: updates sent from the dashboards
  MaxRestarts   \* bound: restarts

Updates == 1 .. MaxUpdates
Values == Updates \cup {None, Cr}
Parts == {"settings", "key"}

ASSUME ProviderAssumption ==
  /\ MaxUpdates \in Nat /\ MaxRestarts \in Nat
  /\ None # Cr /\ None \notin Updates /\ Cr \notin Updates

VARIABLES
  stored,    \* the ConfigMap's and the Secret's content
  cache,     \* what each replica's informers have seen of them
  memory,    \* the provider of each replica
  load,      \* the start-up load of each replica
  update,    \* the updates, finished or not
  begun,     \* number of updates sent
  restarts   \* history: number of restarts

vars == <<stored, cache, memory, load, update, begun, restarts>>

All(value) == [p \in Parts |-> value]

\* A load: where it is, what it has read, whether nothing has come after it (no update
\* since the replica started, no Reload since it ended), and whether its reads succeeded.
Loads == [pc : {"settings", "key", "swap", "done"}, got : [Parts -> Values],
          last : BOOLEAN, ok : BOOLEAN]
Starting == [pc |-> "settings", got |-> All(None), last |-> TRUE, ok |-> TRUE]
Loading(r) == load[r].pc \in {"settings", "key", "swap"}

\* An update: where it is and on which replica, the parts it could not save, and
\* whether no other update and no load were under way while it was.
UpdateRecords == [pc : {"unsent", "settings", "key", "swap", "done", "cut"},
                  at : Replicas \cup {None}, failed : SUBSET Parts, alone : BOOLEAN]
Unsent == [pc |-> "unsent", at |-> None, failed |-> {}, alone |-> TRUE]
InProgress == {u \in Updates : update[u].pc \in {"settings", "key", "swap"}}

\* Every replica has started with nothing persisted, and found the resource.
Init ==
  /\ stored = All(None) /\ cache = [r \in Replicas |-> All(None)]
  /\ memory = [r \in Replicas |-> All(Cr)]
  /\ load = [r \in Replicas |-> [Starting EXCEPT !.pc = "done"]]
  /\ update = [u \in Updates |-> Unsent]
  /\ begun = 0 /\ restarts = 0

-----------------------------------------------------------------------------
\* ReloadFromDirect, for the next update and on replica r.
Send(u, r) ==
  /\ u = begun + 1
  /\ begun' = u
  /\ update' = [v \in Updates |->
       IF v = u THEN [pc |-> "settings", at |-> r, failed |-> {},
                      alone |-> InProgress = {} /\ \A s \in Replicas : ~ Loading(s)]
       ELSE IF v \in InProgress THEN [update[v] EXCEPT !.alone = FALSE] ELSE update[v]]
  /\ load' = [s \in Replicas |-> [load[s] EXCEPT !.last = FALSE]]
  /\ UNCHANGED <<stored, cache, memory, restarts>>

After(pc) == IF pc = "settings" THEN "key" ELSE "swap"

\* saveConfigMap, then saveSecret: the call may fail for any reason, and does when
\* the cache is behind.  An error is logged and the update goes on.
SaveSucceedsOnce(u) ==                           \* mutant: the Secret is only created
  LET p == update[u].pc IN
  /\ p \in Parts
  /\ cache[update[u].at][p] = stored[p]
  /\ stored' = [stored EXCEPT ![p] = IF p = "key" /\ @ # None THEN @ ELSE u]
  /\ update' = [update EXCEPT ![u].pc = After(p)]
  /\ UNCHANGED <<cache, memory, load, begun, restarts>>
SaveSucceeds(u) ==
  LET p == update[u].pc IN
  /\ p \in Parts
  /\ cache[update[u].at][p] = stored[p]
  /\ stored' = [stored EXCEPT ![p] = u]
  /\ update' = [update EXCEPT ![u].pc = After(p)]
  /\ UNCHANGED <<cache, memory, load, begun, restarts>>

SaveFails(u) ==
  LET p == update[u].pc IN
  /\ p \in Parts
  /\ update' = [update EXCEPT ![u].pc = After(p), ![u].failed = @ \cup {p}]
  /\ UNCHANGED <<stored, cache, memory, load, begun, restarts>>

\* The provider is swapped in and the update acknowledged.
AcknowledgeKey(u) ==                             \* mutant: an old key is kept
  /\ update[u].pc = "swap"
  /\ memory' = [memory EXCEPT ![update[u].at] =
       IF @["key"] = None THEN All(u) ELSE [@ EXCEPT !["settings"] = u]]
  /\ update' = [update EXCEPT ![u].pc = "done", ![u].at = None]
  /\ UNCHANGED <<stored, cache, load, begun, restarts>>
Acknowledge(u) ==
  /\ update[u].pc = "swap"
  /\ memory' = [memory EXCEPT ![update[u].at] = All(u)]
  /\ update' = [update EXCEPT ![u].pc = "done", ![u].at = None]
  /\ UNCHANGED <<stored, cache, load, begun, restarts>>

\* LoadPersisted, in the goroutine that runs three seconds after the start.
Read(r) ==
  LET p == load[r].pc IN
  /\ p \in Parts
  /\ load' = [load EXCEPT ![r].pc = After(p), ![r].got[p] = cache[r][p]]
  /\ UNCHANGED <<stored, cache, memory, update, begun, restarts>>

\* A Get that fails ends LoadPersisted like one that finds nothing.
ReadFails(r) ==
  /\ load[r].pc \in Parts
  /\ load' = [load EXCEPT ![r].pc = "swap", ![r].ok = FALSE]
  /\ UNCHANGED <<stored, cache, memory, update, begun, restarts>>

\* Its last step, or Reload when a part was not read (which may fail).
InstallHalf(r) ==                                \* mutant: completeness not checked
  /\ load[r].pc = "swap"
  /\ memory' = [memory EXCEPT ![r] = load[r].got]
  /\ load' = [load EXCEPT ![r].pc = "done", ![r].got = All(None)]
  /\ UNCHANGED <<stored, cache, update, begun, restarts>>
Install(r) ==
  LET got == load[r].got IN
  /\ load[r].pc = "swap"
  /\ memory' \in IF None \in {got[p] : p \in Parts}
                 THEN {memory, [memory EXCEPT ![r] = All(Cr)]}
                 ELSE {[memory EXCEPT ![r] = got]}
  /\ load' = [load EXCEPT ![r].pc = "done", ![r].got = All(None)]
  /\ UNCHANGED <<stored, cache, update, begun, restarts>>

\* Reload, from the dashboard: nothing is persisted.
Reload(r) ==
  /\ memory' = [memory EXCEPT ![r] = All(Cr)]
  /\ load' = [load EXCEPT ![r].last = @ /\ Loading(r)]
  /\ UNCHANGED <<stored, cache, update, begun, restarts>>

\* The informers of a replica see the present object.
Watch(r, p) ==
  /\ cache' = [cache EXCEPT ![r][p] = stored[p]]
  /\ UNCHANGED <<stored, memory, load, update, begun, restarts>>

\* A replica stops, in the middle of what it does, and starts with fresh informers.
Restart(r) ==
  /\ restarts < MaxRestarts /\ restarts' = restarts + 1
  /\ memory' = [memory EXCEPT ![r] = All(None)]
  /\ cache' = [cache EXCEPT ![r] = stored]
  /\ load' = [load EXCEPT ![r] = Starting]
  /\ update' = [u \in Updates |->
       IF u \notin InProgress THEN update[u]
       ELSE IF update[u].at = r THEN [update[u] EXCEPT !.pc = "cut", !.at = None]
       ELSE [update[u] EXCEPT !.alone = FALSE]]
  /\ UNCHANGED <<stored, begun>>

Next ==
  \/ \E u \in Updates : \/ \E r \in Replicas : Send(u, r)
                        \/ SaveSucceeds(u) \/ SaveFails(u) \/ Acknowledge(u)
  \/ \E r \in Replicas : \/ Read(r) \/ ReadFails(r) \/ Install(r) \/ Reload(r) \/ Restart(r)
                         \/ \E p \in Parts : Watch(r, p)

Spec == Init /\ [][Next]_vars

-----------------------------------------------------------------------------
TypeOK ==
  /\ stored \in [Parts -> Updates \cup {None}]
  /\ cache \in [Replicas -> [Parts -> Updates \cup {None}]]
  /\ memory \in [Replicas -> [Parts -> Values]]
  /\ \A r \in Replicas : memory[r]["settings"] = None <=> memory[r]["key"] = None
  /\ load \in [Replicas -> Loads]
  /\ update \in [Updates -> UpdateRecords]
  /\ begun \in 0 .. MaxUpdates /\ restarts \in 0 .. MaxRestarts

Clean(u) == update[u].pc = "done" /\ update[u].failed = {} /\ update[u].alone

\* An update that saved both parts while nothing else was under way survives
\* restarts: a replica that starts after it, and before the next one, loads it,
\* whatever was persisted before, failed saves, crashes and mixtures included.  When
\* one of the load's reads fails, the replica runs the resource's provider or none,
\* never an older update or a mixture (LoadPersisted, Reload).
SurvivesRestart ==
  \A r \in Replicas : \A u \in Updates :
    (u = begun /\ Clean(u) /\ load[r].last /\ load[r].pc = "done") =>
      IF load[r].ok THEN memory[r] = All(u) ELSE memory[r] \in {All(Cr), All(None)}

\* A replica's provider has the settings of one update and the key of another only
\* when some update has failed to save a part, was cut short, or was not alone.
MixtureHasCause ==
  \A r \in Replicas : memory[r]["settings"] # memory[r]["key"] =>
    \E u \in Updates : update[u].failed # {} \/ update[u].pc = "cut" \/ ~ update[u].alone
=============================================================================
