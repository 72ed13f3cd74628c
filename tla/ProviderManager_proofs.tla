----------------------- MODULE ProviderManager_proofs -----------------------
(***************************************************************************)
(* An undisturbed update survives restarts, and a provider mixes the       *)
(* settings of one update with the key of another only for a cause: for    *)
(* any number of replicas, updates, restarts and failed saves.             *)
(***************************************************************************)
EXTENDS ProviderManager, TLAPS

LEMMA Distinct ==
  /\ MaxUpdates \in Nat /\ MaxRestarts \in Nat /\ Updates \subseteq Nat \ {0}
  /\ None # Cr /\ None \notin Updates /\ Cr \notin Updates
  BY ProviderAssumption DEF Updates

-----------------------------------------------------------------------------
(* Types.                                                                   *)

LEMMA AllType ==
  ASSUME NEW S, NEW x \in S
  PROVE  /\ All(x) \in [Parts -> S]
         /\ All(x)["settings"] = x /\ All(x)["key"] = x
  BY DEF All, Parts

LEMMA SendType ==
  ASSUME TypeOK, NEW u \in Updates, NEW r \in Replicas, Send(u, r)
  PROVE  TypeOK'
  <1>1. begun' \in 0 .. MaxUpdates
    BY DEF Send, Updates
  <1>2. load' \in [Replicas -> Loads]
    BY DEF Send, TypeOK, Loads
  <1>3. update' \in [Updates -> UpdateRecords]
    <2>1. ASSUME NEW v \in Updates PROVE update'[v] \in UpdateRecords
      <3>1. CASE v = u
        <4>1. update'[v] = [pc |-> "settings", at |-> r, failed |-> {},
                            alone |-> InProgress = {} /\ \A s \in Replicas : ~ Loading(s)]
          BY <3>1 DEF Send
        <4>2. (InProgress = {} /\ \A s \in Replicas : ~ Loading(s)) \in BOOLEAN
          OBVIOUS
        <4>3. QED
          BY <4>1, <4>2 DEF UpdateRecords
      <3>2. CASE v # u
        BY <3>2 DEF Send, TypeOK, UpdateRecords
      <3>3. QED
        BY <3>1, <3>2
    <2>2. QED
      BY <2>1 DEF Send
  <1>4. QED
    BY <1>1, <1>2, <1>3 DEF Send, TypeOK

LEMMA UpdateType ==
  ASSUME TypeOK, NEW u \in Updates, SaveSucceeds(u) \/ SaveFails(u) \/ Acknowledge(u)
  PROVE  TypeOK'
  <1>1. update[u] \in UpdateRecords
    BY DEF TypeOK
  <1>2. CASE SaveSucceeds(u)
    <2>1. update' \in [Updates -> UpdateRecords]
      BY <1>1, <1>2 DEF SaveSucceeds, After, TypeOK, UpdateRecords
    <2>2. stored' \in [Parts -> Updates \cup {None}]
      BY <1>2 DEF SaveSucceeds, TypeOK
    <2>3. QED
      BY <1>2, <2>1, <2>2 DEF SaveSucceeds, TypeOK
  <1>3. CASE SaveFails(u)
    <2>1. update' \in [Updates -> UpdateRecords]
      BY <1>1, <1>3 DEF SaveFails, After, TypeOK, UpdateRecords
    <2>2. QED
      BY <1>3, <2>1 DEF SaveFails, TypeOK
  <1>4. CASE Acknowledge(u)
    <2>1. update' \in [Updates -> UpdateRecords]
      BY <1>1, <1>4 DEF Acknowledge, TypeOK, UpdateRecords
    <2>2. All(u) \in [Parts -> Values] /\ All(u)["settings"] = u /\ All(u)["key"] = u
      BY AllType DEF Values
    <2>3. /\ memory' \in [Replicas -> [Parts -> Values]]
          /\ \A r \in Replicas : memory'[r]["settings"] = None <=> memory'[r]["key"] = None
      BY <1>4, <2>2, Distinct DEF Acknowledge, TypeOK
    <2>4. QED
      BY <1>4, <2>1, <2>3 DEF Acknowledge, TypeOK
  <1>5. QED
    BY <1>2, <1>3, <1>4

LEMMA LoadType ==
  ASSUME TypeOK, NEW r \in Replicas, Read(r) \/ ReadFails(r) \/ Install(r) \/ Reload(r)
  PROVE  TypeOK'
  <1>1. load[r] \in Loads
    BY DEF TypeOK
  <1>2. /\ All(Cr) \in [Parts -> Values] /\ All(None) \in [Parts -> Values]
        /\ All(Cr)["settings"] = Cr /\ All(Cr)["key"] = Cr
    BY AllType DEF Values
  <1>3. CASE Read(r)
    <2>1. load' \in [Replicas -> Loads]
      <3>1. cache[r][load[r].pc] \in Values
        BY <1>3 DEF Read, TypeOK, Values
      <3>2. QED
        BY <1>1, <1>3, <3>1 DEF Read, After, TypeOK, Loads
    <2>2. QED
      BY <1>3, <2>1 DEF Read, TypeOK
  <1>4. CASE ReadFails(r)
    <2>1. load' \in [Replicas -> Loads]
      BY <1>1, <1>4 DEF ReadFails, TypeOK, Loads
    <2>2. QED
      BY <1>4, <2>1 DEF ReadFails, TypeOK
  <1>5. CASE Install(r)
    <2>1. load' \in [Replicas -> Loads]
      BY <1>1, <1>2, <1>5 DEF Install, TypeOK, Loads
    <2>2. /\ memory' \in [Replicas -> [Parts -> Values]]
          /\ \A s \in Replicas : memory'[s]["settings"] = None <=> memory'[s]["key"] = None
      <3>1. CASE memory' = memory \/ memory' = [memory EXCEPT ![r] = All(Cr)]
        BY <1>2, <3>1, Distinct DEF TypeOK
      <3>2. CASE memory' = [memory EXCEPT ![r] = load[r].got]
                 /\ None \notin {load[r].got[p] : p \in Parts}
        <4>1. load[r].got \in [Parts -> Values]
          BY <1>1 DEF Loads
        <4>2. load[r].got["settings"] # None /\ load[r].got["key"] # None
          BY <3>2 DEF Parts
        <4>3. QED
          BY <3>2, <4>1, <4>2 DEF TypeOK
      <3>3. QED
        BY <1>5, <3>1, <3>2 DEF Install
    <2>3. QED
      BY <1>5, <2>1, <2>2 DEF Install, TypeOK
  <1>6. CASE Reload(r)
    <2>1. load' \in [Replicas -> Loads]
      <3>1. (load[r].last /\ Loading(r)) \in BOOLEAN
        OBVIOUS
      <3>2. QED
        BY <1>1, <1>6, <3>1 DEF Reload, TypeOK, Loads
    <2>2. /\ memory' \in [Replicas -> [Parts -> Values]]
          /\ \A s \in Replicas : memory'[s]["settings"] = None <=> memory'[s]["key"] = None
      BY <1>2, <1>6, Distinct DEF Reload, TypeOK
    <2>3. QED
      BY <1>6, <2>1, <2>2 DEF Reload, TypeOK
  <1>7. QED
    BY <1>3, <1>4, <1>5, <1>6

LEMMA RestartType ==
  ASSUME TypeOK, NEW r \in Replicas, Restart(r)
  PROVE  TypeOK'
  <1>1. /\ All(None) \in [Parts -> Values]
        /\ All(None)["settings"] = None /\ All(None)["key"] = None
    BY AllType DEF Values
  <1>2. Starting \in Loads
    BY <1>1 DEF Starting, Loads
  <1>3. load' \in [Replicas -> Loads] /\ cache' \in [Replicas -> [Parts -> Updates \cup {None}]]
    BY <1>2 DEF Restart, TypeOK
  <1>4. /\ memory' \in [Replicas -> [Parts -> Values]]
        /\ \A s \in Replicas : memory'[s]["settings"] = None <=> memory'[s]["key"] = None
    BY <1>1 DEF Restart, TypeOK
  <1>5. update' \in [Updates -> UpdateRecords]
    <2>1. ASSUME NEW u \in Updates PROVE update'[u] \in UpdateRecords
      <3>1. update[u] \in UpdateRecords
        BY DEF TypeOK
      <3>2. [update[u] EXCEPT !.pc = "cut", !.at = None] \in UpdateRecords
        BY <3>1 DEF UpdateRecords
      <3>3. [update[u] EXCEPT !.alone = FALSE] \in UpdateRecords
        BY <3>1 DEF UpdateRecords
      <3>4. QED
        BY <3>1, <3>2, <3>3 DEF Restart
    <2>2. QED
      BY <2>1 DEF Restart
  <1>6. restarts' \in 0 .. MaxRestarts
    <2>1. restarts \in 0 .. MaxRestarts
      BY DEF TypeOK
    <2>2. restarts < MaxRestarts /\ restarts' = restarts + 1
      BY DEF Restart
    <2>3. QED
      BY <2>1, <2>2, Distinct
  <1>7. QED
    BY <1>3, <1>4, <1>5, <1>6 DEF Restart, TypeOK

LEMMA WatchType ==
  ASSUME TypeOK, NEW r \in Replicas, NEW p \in Parts, Watch(r, p)
  PROVE  TypeOK'
  <1>1. cache' \in [Replicas -> [Parts -> Updates \cup {None}]]
    BY DEF Watch, TypeOK
  <1>2. QED
    BY <1>1 DEF Watch, TypeOK

LEMMA InitType == Init => TypeOK
  <1> SUFFICES ASSUME Init PROVE TypeOK
    OBVIOUS
  <1>1. /\ All(None) \in [Parts -> Updates \cup {None}] /\ All(None) \in [Parts -> Values]
        /\ All(Cr) \in [Parts -> Values]
        /\ All(Cr)["settings"] = Cr /\ All(Cr)["key"] = Cr
    BY AllType DEF Values
  <1>2. [Starting EXCEPT !.pc = "done"] \in Loads
    BY <1>1 DEF Starting, Loads
  <1>3. Unsent \in UpdateRecords
    BY DEF Unsent, UpdateRecords
  <1>4. QED
    BY <1>1, <1>2, <1>3, Distinct DEF Init, TypeOK

LEMMA NextType == TypeOK /\ [Next]_vars => TypeOK'
  <1> SUFFICES ASSUME TypeOK, [Next]_vars PROVE TypeOK'
    OBVIOUS
  <1>1. CASE UNCHANGED vars
    BY <1>1 DEF vars, TypeOK
  <1>2. CASE Next
    BY <1>2, SendType, UpdateType, LoadType, RestartType, WatchType DEF Next
  <1>3. QED
    BY <1>1, <1>2

\* Stored objects, caches, providers, loads and updates keep their shapes; a replica
\* never has a provider with one part missing (LoadPersisted, ReloadFromDirect).
THEOREM TypeCorrect == Spec => []TypeOK
  BY InitType, NextType, PTL DEF Spec

-----------------------------------------------------------------------------
(* One update after the other.                                              *)

\* Updates are sent in order, and one that is not sent has no history.
SentInOrder ==
  \A u \in Updates : IF u > begun THEN update[u] = Unsent ELSE update[u].pc # "unsent"

\* An update met, or did, something that can mix two configurations.
Cause(u) == update[u].failed # {} \/ update[u].pc = "cut" \/ ~ update[u].alone

\* The first step of an update: those under way are not alone any more, and it is
\* only if nothing was.
LEMMA SendFacts ==
  ASSUME TypeOK, SentInOrder, NEW u \in Updates, NEW r \in Replicas, Send(u, r)
  PROVE  /\ begun' = u /\ u > begun /\ update[u] = Unsent
         /\ update'[u].pc = "settings" /\ update'[u].failed = {}
         /\ update'[u].alone => InProgress = {} /\ \A s \in Replicas : ~ Loading(s)
         /\ \A v \in Updates \ {u} :
              /\ update'[v].pc = update[v].pc /\ update'[v].failed = update[v].failed
              /\ update'[v].alone = (update[v].alone /\ v \notin InProgress)
         /\ InProgress' = InProgress \cup {u}
         /\ \A s \in Replicas : /\ load'[s].pc = load[s].pc /\ load'[s].got = load[s].got
                                /\ load'[s].ok = load[s].ok /\ ~ load'[s].last
         /\ UNCHANGED <<stored, cache, memory>>
  <1>1. begun' = u /\ u = begun + 1 /\ begun \in Nat /\ u > begun
    BY Distinct DEF Send, TypeOK
  <1>2. update[u] = Unsent /\ update'[u].pc = "settings" /\ update'[u].failed = {}
    BY <1>1 DEF Send, SentInOrder
  <1>3. update'[u].alone = (InProgress = {} /\ \A s \in Replicas : ~ Loading(s))
    BY DEF Send
  <1>4. ASSUME NEW v \in Updates \ {u}
        PROVE  /\ update'[v].pc = update[v].pc /\ update'[v].failed = update[v].failed
               /\ update'[v].alone = (update[v].alone /\ v \notin InProgress)
    <2>1. update[v] \in UpdateRecords
      BY DEF TypeOK
    <2>2. CASE v \in InProgress
      <3>1. update'[v] = [update[v] EXCEPT !.alone = FALSE]
        BY <2>2 DEF Send
      <3>2. QED
        BY <2>1, <2>2, <3>1 DEF UpdateRecords
    <2>3. CASE v \notin InProgress
      <3>1. update'[v] = update[v]
        BY <2>3 DEF Send
      <3>2. QED
        BY <2>1, <2>3, <3>1 DEF UpdateRecords
    <2>4. QED
      BY <2>2, <2>3
  <1>5. InProgress' = InProgress \cup {u}
    BY <1>2, <1>4 DEF InProgress, Unsent
  <1>6. \A s \in Replicas : /\ load'[s].pc = load[s].pc /\ load'[s].got = load[s].got
                            /\ load'[s].ok = load[s].ok /\ ~ load'[s].last
    BY DEF Send, TypeOK, Loads
  <1>7. QED
    BY <1>1, <1>2, <1>3, <1>4, <1>5, <1>6 DEF Send

\* The other steps of an update touch no other.
LEMMA SaveFacts ==
  ASSUME TypeOK, NEW u \in Updates, SaveSucceeds(u)
  PROVE  /\ u \in InProgress /\ InProgress' = InProgress
         /\ \A v \in Updates \ {u} : update'[v] = update[v]
         /\ \/ /\ update[u].pc = "settings" /\ update'[u].pc = "key"
               /\ stored'["settings"] = u /\ stored'["key"] = stored["key"]
            \/ /\ update[u].pc = "key" /\ update'[u].pc = "swap"
               /\ stored'["settings"] = stored["settings"] /\ stored'["key"] = u
         /\ update'[u].alone = update[u].alone /\ update'[u].failed = update[u].failed
         /\ update'[u].at = update[u].at
         /\ UNCHANGED <<begun, cache, load, memory>>
  <1>1. update[u] \in UpdateRecords /\ update \in [Updates -> UpdateRecords]
    BY DEF TypeOK
  <1>2. update[u].pc \in Parts
    BY DEF SaveSucceeds
  <1>3. /\ update'[u] = [update[u] EXCEPT !.pc = After(update[u].pc)]
        /\ \A v \in Updates \ {u} : update'[v] = update[v]
    BY <1>1 DEF SaveSucceeds
  <1>4. /\ update'[u].pc = After(update[u].pc) /\ update'[u].alone = update[u].alone
        /\ update'[u].failed = update[u].failed /\ update'[u].at = update[u].at
    BY <1>1, <1>3 DEF UpdateRecords
  <1>5. stored' = [stored EXCEPT ![update[u].pc] = u] /\ stored \in [Parts -> Updates \cup {None}]
    BY DEF SaveSucceeds, TypeOK
  <1>6. \/ /\ update[u].pc = "settings" /\ update'[u].pc = "key"
           /\ stored'["settings"] = u /\ stored'["key"] = stored["key"]
        \/ /\ update[u].pc = "key" /\ update'[u].pc = "swap"
           /\ stored'["settings"] = stored["settings"] /\ stored'["key"] = u
    BY <1>2, <1>4, <1>5 DEF Parts, After
  <1>7. u \in InProgress /\ InProgress' = InProgress
    BY <1>3, <1>6 DEF InProgress
  <1>8. QED
    BY <1>3, <1>4, <1>6, <1>7 DEF SaveSucceeds

LEMMA FailedSaveFacts ==
  ASSUME TypeOK, NEW u \in Updates, SaveFails(u)
  PROVE  /\ u \in InProgress /\ Cause(u)' /\ update'[u].pc \in {"key", "swap"}
         /\ update'[u].at = update[u].at
         /\ \A v \in Updates \ {u} : update'[v] = update[v]
         /\ UNCHANGED <<begun, load, memory>>
  <1>1. update[u] \in UpdateRecords /\ update \in [Updates -> UpdateRecords]
    BY DEF TypeOK
  <1>2. /\ update[u].pc \in Parts
        /\ update'[u] = [update[u] EXCEPT !.pc = After(update[u].pc),
                                          !.failed = update[u].failed \cup {update[u].pc}]
        /\ \A v \in Updates \ {u} : update'[v] = update[v]
    BY <1>1 DEF SaveFails
  <1>3. /\ update'[u].pc = After(update[u].pc) /\ update[u].pc \in update'[u].failed
        /\ update'[u].at = update[u].at
    BY <1>1, <1>2 DEF UpdateRecords
  <1>4. QED
    BY <1>2, <1>3 DEF SaveFails, Cause, InProgress, Parts, After

LEMMA AcknowledgeFacts ==
  ASSUME TypeOK, NEW u \in Updates, Acknowledge(u)
  PROVE  /\ u \in InProgress /\ InProgress' = InProgress \ {u}
         /\ \A v \in Updates \ {u} : update'[v] = update[v]
         /\ update[u].pc = "swap" /\ update'[u].pc = "done"
         /\ update'[u].alone = update[u].alone /\ update'[u].failed = update[u].failed
         /\ \A r \in Replicas : memory'[r] = IF r = update[u].at THEN All(u) ELSE memory[r]
         /\ UNCHANGED <<begun, cache, load, stored>>
  <1>1. update[u] \in UpdateRecords /\ update \in [Updates -> UpdateRecords]
    BY DEF TypeOK
  <1>2. /\ update[u].pc = "swap"
        /\ update'[u] = [update[u] EXCEPT !.pc = "done", !.at = None]
        /\ \A v \in Updates \ {u} : update'[v] = update[v]
    BY <1>1 DEF Acknowledge
  <1>3. /\ update'[u].pc = "done" /\ update'[u].alone = update[u].alone
        /\ update'[u].failed = update[u].failed
    BY <1>1, <1>2 DEF UpdateRecords
  <1>4. u \in InProgress /\ InProgress' = InProgress \ {u}
    BY <1>2, <1>3 DEF InProgress
  <1>5. \A r \in Replicas : memory'[r] = IF r = update[u].at THEN All(u) ELSE memory[r]
    BY DEF Acknowledge, TypeOK
  <1>6. QED
    BY <1>2, <1>3, <1>4, <1>5 DEF Acknowledge

\* A restart disturbs every update under way: it cuts its own short.
LEMMA RestartFacts ==
  ASSUME TypeOK, NEW r \in Replicas, Restart(r)
  PROVE  /\ \A v \in Updates : IF v \in InProgress THEN Cause(v)' /\ update'[v].pc # "unsent"
                               ELSE update'[v] = update[v]
         /\ \A v \in InProgress' : v \in InProgress /\ update[v].at # r
                                   /\ update'[v].at = update[v].at
         /\ cache'[r] = stored /\ load'[r] = Starting
         /\ memory'[r] = All(None)
         /\ \A s \in Replicas \ {r} : /\ cache'[s] = cache[s] /\ load'[s] = load[s]
                                      /\ memory'[s] = memory[s]
         /\ UNCHANGED <<stored, begun>>
  <1>1. update \in [Updates -> UpdateRecords]
    BY DEF TypeOK
  <1>2. ASSUME NEW v \in Updates
        PROVE  /\ IF v \in InProgress THEN Cause(v)' /\ update'[v].pc # "unsent"
                  ELSE update'[v] = update[v]
               /\ v \in InProgress' => v \in InProgress /\ update[v].at # r
                                         /\ update'[v].at = update[v].at
    <2>1. CASE v \notin InProgress
      <3>1. update'[v] = update[v]
        BY <2>1 DEF Restart
      <3>2. QED
        BY <2>1, <3>1 DEF InProgress
    <2>2. CASE v \in InProgress /\ update[v].at = r
      <3>1. update'[v] = [update[v] EXCEPT !.pc = "cut", !.at = None]
        BY <2>2 DEF Restart
      <3>2. update'[v].pc = "cut"
        BY <1>1, <3>1 DEF UpdateRecords
      <3>3. QED
        BY <2>2, <3>2 DEF Cause, InProgress
    <2>3. CASE v \in InProgress /\ update[v].at # r
      <3>1. update'[v] = [update[v] EXCEPT !.alone = FALSE]
        BY <2>3 DEF Restart
      <3>2. /\ ~ update'[v].alone /\ update'[v].pc = update[v].pc
            /\ update'[v].at = update[v].at
        BY <1>1, <3>1 DEF UpdateRecords
      <3>3. QED
        BY <2>3, <3>2 DEF Cause, InProgress
    <2>4. QED
      BY <2>1, <2>2, <2>3
  <1>3. \A v \in InProgress' : v \in InProgress /\ update[v].at # r
                               /\ update'[v].at = update[v].at
    BY <1>2 DEF InProgress
  <1>4. QED
    BY <1>2, <1>3 DEF Restart, TypeOK

LEMMA NextInOrder == TypeOK /\ SentInOrder /\ [Next]_vars => SentInOrder'
  <1> SUFFICES ASSUME TypeOK, SentInOrder, [Next]_vars, NEW v \in Updates
               PROVE  IF v > begun' THEN update'[v] = Unsent ELSE update'[v].pc # "unsent"
    BY DEF SentInOrder
  <1>1. (v > begun => update[v] = Unsent) /\ (~ (v > begun) => update[v].pc # "unsent")
    BY DEF SentInOrder
  <1>2. ASSUME NEW u \in Updates, NEW r \in Replicas, Send(u, r)
        PROVE  IF v > begun' THEN update'[v] = Unsent ELSE update'[v].pc # "unsent"
    <2>1. begun' = u /\ u = begun + 1 /\ begun \in Nat /\ v \in Nat
      BY <1>2, Distinct DEF Send, TypeOK
    <2>2. CASE v = u
      BY <1>2, <2>1, <2>2, SendFacts
    <2>3. CASE v # u /\ v > begun
      <3>1. update'[v] = Unsent
        BY <1>1, <1>2, <2>3 DEF Send, InProgress, Unsent
      <3>2. QED
        BY <2>1, <2>3, <3>1
    <2>4. CASE v # u /\ ~ (v > begun)
      <3>1. update'[v].pc # "unsent"
        BY <1>1, <1>2, <2>4, SendFacts
      <3>2. QED
        BY <2>1, <2>4, <3>1
    <2>5. QED
      BY <2>2, <2>3, <2>4
  <1>3. ASSUME NEW u \in Updates, SaveSucceeds(u) \/ SaveFails(u) \/ Acknowledge(u)
        PROVE  IF v > begun' THEN update'[v] = Unsent ELSE update'[v].pc # "unsent"
    <2>1. u \in InProgress /\ begun' = begun /\ update'[u].pc # "unsent"
          /\ (v # u => update'[v] = update[v])
      BY <1>3, SaveFacts, FailedSaveFacts, AcknowledgeFacts
    <2>2. ~ (u > begun)
      BY <2>1 DEF SentInOrder, InProgress, Unsent
    <2>3. QED
      BY <1>1, <2>1, <2>2
  <1>4. ASSUME NEW r \in Replicas, Restart(r)
        PROVE  IF v > begun' THEN update'[v] = Unsent ELSE update'[v].pc # "unsent"
    <2>1. begun' = begun /\ (v \notin InProgress => update'[v] = update[v])
          /\ (v \in InProgress => update'[v].pc # "unsent")
      BY <1>4, RestartFacts
    <2>2. v \in InProgress => ~ (v > begun)
      BY <1>1 DEF InProgress, Unsent
    <2>3. QED
      BY <1>1, <2>1, <2>2
  <1>5. CASE UNCHANGED <<update, begun>>
    BY <1>1, <1>5
  <1>6. QED
    BY <1>2, <1>3, <1>4, <1>5 DEF Next, vars, Read, ReadFails, Install, Reload, Watch

\* A read takes the next part from the cache; of the loads only r's moves.
LEMMA ReadFacts ==
  ASSUME TypeOK, NEW r \in Replicas, Read(r)
  PROVE  /\ Loading(r) /\ load'[r].last = load[r].last /\ load'[r].ok = load[r].ok
         /\ \/ /\ load[r].pc = "settings" /\ load'[r].pc = "key"
               /\ load'[r].got["settings"] = cache[r]["settings"]
               /\ load'[r].got["key"] = load[r].got["key"]
            \/ /\ load[r].pc = "key" /\ load'[r].pc = "swap"
               /\ load'[r].got["settings"] = load[r].got["settings"]
               /\ load'[r].got["key"] = cache[r]["key"]
         /\ \A s \in Replicas \ {r} : load'[s] = load[s]
         /\ UNCHANGED <<stored, cache, memory, update, begun>>
  <1>1. load[r] \in Loads /\ load \in [Replicas -> Loads] /\ load[r].got \in [Parts -> Values]
    BY DEF TypeOK, Loads
  <1>2. /\ load[r].pc \in Parts
        /\ load'[r] = [load[r] EXCEPT !.pc = After(load[r].pc),
                                      !.got[load[r].pc] = cache[r][load[r].pc]]
    BY <1>1 DEF Read
  <1>3. /\ load'[r].pc = After(load[r].pc) /\ load'[r].last = load[r].last
        /\ load'[r].ok = load[r].ok
        /\ load'[r].got = [load[r].got EXCEPT ![load[r].pc] = cache[r][load[r].pc]]
    BY <1>1, <1>2 DEF Loads
  <1>4. QED
    BY <1>1, <1>2, <1>3 DEF Read, Parts, After, Loading

\* A read that fails leaves the rest of the load without anything to install.
LEMMA ReadFailsFacts ==
  ASSUME TypeOK, NEW r \in Replicas, ReadFails(r)
  PROVE  /\ Loading(r) /\ load[r].pc # "swap" /\ load'[r].last = load[r].last
         /\ load'[r].pc = "swap" /\ ~ load'[r].ok /\ load'[r].got = load[r].got
         /\ \A s \in Replicas \ {r} : load'[s] = load[s]
         /\ UNCHANGED <<stored, cache, memory, update, begun>>
  <1>1. load[r] \in Loads /\ load \in [Replicas -> Loads]
    BY DEF TypeOK
  <1>2. load[r].pc \in Parts /\ load'[r] = [load[r] EXCEPT !.pc = "swap", !.ok = FALSE]
    BY <1>1 DEF ReadFails
  <1>3. /\ load'[r].pc = "swap" /\ ~ load'[r].ok
        /\ load'[r].last = load[r].last /\ load'[r].got = load[r].got
    BY <1>1, <1>2 DEF Loads
  <1>4. QED
    BY <1>1, <1>2, <1>3 DEF ReadFails, Parts, Loading

\* The last step of a load gives the replica what it has read, if it has both parts.
LEMMA InstallFacts ==
  ASSUME TypeOK, NEW r \in Replicas, Install(r)
  PROVE  /\ load[r].pc = "swap" /\ load'[r].pc = "done" /\ load'[r].last = load[r].last
         /\ load'[r].ok = load[r].ok
         /\ \/ /\ memory'[r] = load[r].got
               /\ load[r].got["settings"] # None /\ load[r].got["key"] # None
            \/ (\E p \in Parts : load[r].got[p] = None) /\ memory'[r] \in {memory[r], All(Cr)}
         /\ \A s \in Replicas \ {r} : load'[s] = load[s] /\ memory'[s] = memory[s]
         /\ UNCHANGED <<stored, cache, update, begun>>
  <1>1. load[r] \in Loads /\ load \in [Replicas -> Loads] /\ memory \in [Replicas -> [Parts -> Values]]
    BY DEF TypeOK
  <1>2. load[r].pc = "swap" /\ load'[r] = [load[r] EXCEPT !.pc = "done", !.got = All(None)]
    BY <1>1 DEF Install
  <1>3. load'[r].pc = "done" /\ load'[r].last = load[r].last /\ load'[r].ok = load[r].ok
    BY <1>1, <1>2 DEF Loads
  <1>4. \A s \in Replicas \ {r} : load'[s] = load[s] /\ memory'[s] = memory[s]
    BY <1>1 DEF Install
  <1>5. \/ /\ memory'[r] = load[r].got
           /\ load[r].got["settings"] # None /\ load[r].got["key"] # None
        \/ (\E p \in Parts : load[r].got[p] = None) /\ memory'[r] \in {memory[r], All(Cr)}
    BY <1>1 DEF Install, Parts
  <1>6. QED
    BY <1>2, <1>3, <1>4, <1>5 DEF Install

\* Reload gives the replica the resource's provider; a load that has ended is not the
\* last word any more.
LEMMA ReloadFacts ==
  ASSUME TypeOK, NEW r \in Replicas, Reload(r)
  PROVE  /\ memory'[r] = All(Cr)
         /\ load'[r].pc = load[r].pc /\ load'[r].got = load[r].got /\ load'[r].ok = load[r].ok
         /\ load'[r].last => load[r].last /\ Loading(r)
         /\ \A s \in Replicas \ {r} : load'[s] = load[s] /\ memory'[s] = memory[s]
         /\ UNCHANGED <<stored, cache, update, begun>>
  <1>1. load[r] \in Loads /\ load \in [Replicas -> Loads] /\ memory \in [Replicas -> [Parts -> Values]]
    BY DEF TypeOK
  <1>2. load'[r] = [load[r] EXCEPT !.last = load[r].last /\ Loading(r)]
    BY <1>1 DEF Reload
  <1>3. /\ load'[r].pc = load[r].pc /\ load'[r].got = load[r].got /\ load'[r].ok = load[r].ok
        /\ load'[r].last = (load[r].last /\ Loading(r))
    BY <1>1, <1>2 DEF Loads
  <1>4. QED
    BY <1>1, <1>3 DEF Reload

\* The informers only ever bring a cache closer to what is stored.
LEMMA WatchFacts ==
  ASSUME TypeOK, NEW r \in Replicas, NEW p \in Parts, Watch(r, p)
  PROVE  /\ \A s \in Replicas : cache[s] = stored => cache'[s] = stored
         /\ UNCHANGED <<stored, memory, load, update, begun>>
  <1>1. cache \in [Replicas -> [Parts -> Updates \cup {None}]] /\ stored \in [Parts -> Updates \cup {None}]
    BY DEF TypeOK
  <1>2. ASSUME NEW s \in Replicas, cache[s] = stored PROVE cache'[s] = stored
    BY <1>1, <1>2 DEF Watch
  <1>3. QED
    BY <1>2 DEF Watch

-----------------------------------------------------------------------------
(* Loads whose reads fail.                                                  *)

\* A load that has not read the key, or could not read on, has no key to install.
LoadsFit ==
  \A r \in Replicas :
    /\ Loading(r) /\ (load[r].pc # "swap" \/ ~ load[r].ok) => load[r].got["key"] = None
    /\ Loading(r) /\ load[r].pc # "swap" => load[r].ok

LEMMA InitFit == Init => LoadsFit
  BY DEF Init, LoadsFit, Loading, Starting

LEMMA NextFit == TypeOK /\ SentInOrder /\ LoadsFit /\ [Next]_vars => LoadsFit'
  <1> SUFFICES ASSUME TypeOK, SentInOrder, LoadsFit, [Next]_vars PROVE LoadsFit'
    OBVIOUS
  <1>1. ASSUME NEW r \in Replicas, Read(r) \/ ReadFails(r) PROVE LoadsFit'
    BY <1>1, ReadFacts, ReadFailsFacts DEF LoadsFit, Loading
  <1>2. ASSUME NEW r \in Replicas, Install(r) \/ Reload(r) PROVE LoadsFit'
    BY <1>2, InstallFacts, ReloadFacts DEF LoadsFit, Loading
  <1>3. ASSUME NEW r \in Replicas, Restart(r) PROVE LoadsFit'
    <2>1. Starting.ok /\ Starting.got["key"] = None /\ Starting.pc = "settings"
      BY AllType DEF Starting
    <2>2. QED
      BY <1>3, <2>1, RestartFacts DEF LoadsFit, Loading
  <1>4. ASSUME NEW u \in Updates, NEW r \in Replicas, Send(u, r) PROVE LoadsFit'
    BY <1>4, SendFacts DEF LoadsFit, Loading
  <1>5. CASE UNCHANGED load
    BY <1>5 DEF LoadsFit, Loading
  <1>6. QED
    BY <1>1, <1>2, <1>3, <1>4, <1>5 DEF Next, vars, SaveSucceeds, SaveFails, Acknowledge, Watch

Fallback == {All(Cr), All(None)}

\* What a load nothing has overtaken can fall back to; an update on its replica would
\* have overtaken it.
FallsBack ==
  /\ \A r \in Replicas : load[r].last /\ (Loading(r) \/ ~ load[r].ok) => memory[r] \in Fallback
  /\ \A u \in InProgress, r \in Replicas : update[u].at = r => ~ load[r].last

LEMMA InitFalls == Init => FallsBack
  BY DEF Init, FallsBack, InProgress, Unsent, Loading, Starting, Fallback

LEMMA NextFalls == TypeOK /\ SentInOrder /\ LoadsFit /\ FallsBack /\ [Next]_vars => FallsBack'
  <1> SUFFICES ASSUME TypeOK, SentInOrder, LoadsFit, FallsBack, [Next]_vars PROVE FallsBack'
    OBVIOUS
  <1>1. ASSUME NEW u \in Updates, NEW r \in Replicas, Send(u, r) PROVE FallsBack'
    BY <1>1, SendFacts DEF FallsBack
  <1>2. ASSUME NEW u \in Updates, SaveSucceeds(u) \/ SaveFails(u) PROVE FallsBack'
    <2>1. /\ UNCHANGED <<load, memory>> /\ u \in InProgress
          /\ \A v \in Updates : update'[v].at = update[v].at
          /\ \A v \in InProgress' : v \in InProgress
      BY <1>2, SaveFacts, FailedSaveFacts DEF InProgress
    <2>2. QED
      BY <2>1 DEF FallsBack, Loading, InProgress
  <1>3. ASSUME NEW u \in Updates, Acknowledge(u) PROVE FallsBack'
    <2>1. /\ UNCHANGED load /\ u \in InProgress /\ InProgress' \subseteq InProgress
          /\ \A v \in InProgress' : update'[v] = update[v]
          /\ \A r \in Replicas : memory'[r] = IF r = update[u].at THEN All(u) ELSE memory[r]
      BY <1>3, AcknowledgeFacts DEF InProgress
    <2>2. QED
      BY <2>1 DEF FallsBack, Loading
  <1>4. ASSUME NEW r \in Replicas, Read(r) \/ ReadFails(r) PROVE FallsBack'
    <2>1. /\ Loading(r) /\ UNCHANGED <<memory, update>>
          /\ load'[r].last = load[r].last
          /\ \A s \in Replicas \ {r} : load'[s] = load[s]
      BY <1>4, ReadFacts, ReadFailsFacts
    <2>2. QED
      BY <2>1 DEF FallsBack, InProgress, Loading
  <1>5. ASSUME NEW r \in Replicas, Install(r) PROVE FallsBack'
    <2>1. /\ Loading(r) /\ UNCHANGED update /\ ~ Loading(r)'
          /\ load'[r].last = load[r].last /\ load'[r].ok = load[r].ok
          /\ ~ load[r].ok => memory'[r] \in {memory[r], All(Cr)}
          /\ \A s \in Replicas \ {r} : load'[s] = load[s] /\ memory'[s] = memory[s]
      BY <1>5, InstallFacts DEF LoadsFit, Loading
    <2>2. QED
      BY <2>1 DEF FallsBack, InProgress, Loading, Fallback
  <1>6. ASSUME NEW r \in Replicas, Reload(r) PROVE FallsBack'
    BY <1>6, ReloadFacts DEF FallsBack, InProgress, Loading, Fallback
  <1>7. ASSUME NEW r \in Replicas, Restart(r) PROVE FallsBack'
    BY <1>7, RestartFacts DEF FallsBack, Loading, Fallback
  <1>8. CASE UNCHANGED <<memory, load, update>>
    BY <1>8 DEF FallsBack, InProgress, Loading
  <1>9. QED
    BY <1>1, <1>2, <1>3, <1>4, <1>5, <1>6, <1>7, <1>8 DEF Next, vars, Watch

-----------------------------------------------------------------------------
(* Mixtures.                                                                *)

\* As long as nothing has been a cause, updates and loads run one at a time, and a
\* load reads what the last update has stored.
Undisturbed ==
  /\ \A r \in Replicas : memory[r]["settings"] = memory[r]["key"]
  /\ \A u, v \in InProgress : u = v
  /\ \A u \in InProgress, r \in Replicas : ~ Loading(r)
  /\ \A u \in InProgress : update[u].pc = "key" => stored["settings"] = u
  /\ (\A u \in InProgress : update[u].pc # "key") => stored["settings"] = stored["key"]
  /\ \A r \in Replicas : Loading(r) =>
       /\ cache[r] = stored
       /\ load[r].ok /\ load[r].pc # "settings" => load[r].got["settings"] = stored["settings"]
       /\ load[r].ok /\ load[r].pc = "swap" => load[r].got["key"] = stored["key"]

NoCause == \A u \in Updates : ~ Cause(u)
Orderly == NoCause => Undisturbed

\* The values of a constant configuration.
LEMMA Alike == \A x : All(x)["settings"] = All(x)["key"]
  BY DEF All, Parts

\* A cause remains one.
LEMMA CausesStay == ASSUME TypeOK, SentInOrder, [Next]_vars, NoCause' PROVE NoCause
  <1> SUFFICES ASSUME NEW v \in Updates, Cause(v) PROVE Cause(v)'
    BY DEF NoCause
  <1>1. CASE \E u \in Updates, r \in Replicas : Send(u, r)
    <2>1. PICK u \in Updates, r \in Replicas : Send(u, r)
      BY <1>1
    <2>2. v # u
      BY <2>1, SendFacts DEF Cause, Unsent
    <2>3. QED
      BY <2>1, <2>2, SendFacts DEF Cause
  <1>2. ASSUME NEW u \in Updates, SaveSucceeds(u) \/ SaveFails(u) \/ Acknowledge(u)
        PROVE  Cause(v)'
    <2>1. CASE v # u
      BY <1>2, <2>1, SaveFacts, FailedSaveFacts, AcknowledgeFacts DEF Cause
    <2>2. CASE v = u
      <3>1. update[v].pc # "cut"
        BY <1>2, <2>2, SaveFacts, FailedSaveFacts, AcknowledgeFacts DEF InProgress
      <3>2. QED
        BY <1>2, <2>2, <3>1, SaveFacts, FailedSaveFacts, AcknowledgeFacts DEF Cause
    <2>3. QED
      BY <2>1, <2>2
  <1>3. ASSUME NEW r \in Replicas, Restart(r) PROVE Cause(v)'
    BY <1>3, RestartFacts DEF Cause
  <1>4. CASE UNCHANGED update
    BY <1>4 DEF Cause
  <1>5. QED
    BY <1>1, <1>2, <1>3, <1>4 DEF Next, vars, Read, ReadFails, Install, Reload, Watch

LEMMA UpdateOrderly ==
  ASSUME TypeOK, SentInOrder, Undisturbed, NoCause', NEW u \in Updates,
         SaveSucceeds(u) \/ SaveFails(u) \/ Acknowledge(u) \/ \E r \in Replicas : Send(u, r)
  PROVE  Undisturbed'
  <1>1. CASE \E r \in Replicas : Send(u, r)
    <2>1. PICK r \in Replicas : Send(u, r)
      BY <1>1
    <2>2. /\ InProgress = {} /\ InProgress' = {u} /\ update'[u].pc = "settings"
          /\ \A s \in Replicas : ~ Loading(s) /\ ~ Loading(s)'
          /\ UNCHANGED <<stored, cache, memory>>
      BY <2>1, SendFacts DEF NoCause, Cause, Loading
    <2>3. QED
      BY <2>2 DEF Undisturbed
  <1>2. CASE SaveSucceeds(u)
    <2>1. /\ InProgress = {u} /\ InProgress' = {u}
          /\ \A s \in Replicas : ~ Loading(s) /\ ~ Loading(s)'
          /\ UNCHANGED memory
      BY <1>2, SaveFacts DEF Undisturbed, Loading
    <2>2. /\ update'[u].pc = "key" => stored'["settings"] = u
          /\ update'[u].pc # "key" => stored'["settings"] = stored'["key"]
      BY <1>2, <2>1, SaveFacts DEF Undisturbed
    <2>3. QED
      BY <2>1, <2>2 DEF Undisturbed
  <1>3. CASE SaveFails(u)
    BY <1>3, FailedSaveFacts DEF NoCause
  <1>4. CASE Acknowledge(u)
    <2>1. /\ InProgress = {u} /\ InProgress' = {} /\ update[u].pc = "swap"
          /\ \A s \in Replicas : ~ Loading(s) /\ ~ Loading(s)'
          /\ UNCHANGED stored
      BY <1>4, AcknowledgeFacts DEF Undisturbed, Loading
    <2>2. \A r \in Replicas : memory'[r]["settings"] = memory'[r]["key"]
      BY <1>4, AcknowledgeFacts, Alike DEF Undisturbed
    <2>3. QED
      BY <2>1, <2>2 DEF Undisturbed
  <1>5. QED
    BY <1>1, <1>2, <1>3, <1>4

LEMMA LoadOrderly ==
  ASSUME TypeOK, Undisturbed, LoadsFit, NEW r \in Replicas,
         Read(r) \/ ReadFails(r) \/ Install(r) \/ Reload(r)
  PROVE  Undisturbed'
  <1>1. InProgress' = InProgress /\ UNCHANGED <<update, stored, cache>>
    BY ReadFacts, ReadFailsFacts, InstallFacts, ReloadFacts DEF InProgress
  <1>2. CASE Read(r) \/ ReadFails(r)
    <2>1. /\ Loading(r) /\ InProgress = {} /\ cache[r] = stored
          /\ \A s \in Replicas : Loading(s)' => Loading(s)
      BY <1>2, ReadFacts, ReadFailsFacts DEF Undisturbed, Loading
    <2>2. ASSUME NEW s \in Replicas, Loading(s)'
          PROVE  /\ cache'[s] = stored'
                 /\ load'[s].ok /\ load'[s].pc # "settings" =>
                      load'[s].got["settings"] = stored'["settings"]
                 /\ load'[s].ok /\ load'[s].pc = "swap" => load'[s].got["key"] = stored'["key"]
      <3>1. Loading(s)
        BY <2>1, <2>2
      <3>2. QED
        BY <1>1, <1>2, <2>1, <3>1, ReadFacts, ReadFailsFacts DEF Undisturbed
    <2>3. UNCHANGED memory
      BY <1>2, ReadFacts, ReadFailsFacts
    <2>4. QED
      BY <1>1, <2>1, <2>2, <2>3 DEF Undisturbed
  <1>3. CASE Install(r)
    <2>1. InProgress = {} /\ stored["settings"] = stored["key"]
      BY <1>3, InstallFacts DEF Undisturbed, Loading
    <2>2. \/ load[r].got["settings"] = load[r].got["key"]
          \/ load[r].got["key"] = None
      BY <1>3, <2>1, InstallFacts DEF Undisturbed, Loading, LoadsFit
    <2>3. \A s \in Replicas : memory'[s]["settings"] = memory'[s]["key"]
      BY <1>3, <2>2, InstallFacts, Alike DEF Undisturbed
    <2>4. \A s \in Replicas : Loading(s)' => load'[s] = load[s] /\ Loading(s)
      BY <1>3, InstallFacts DEF Loading
    <2>5. QED
      BY <1>1, <2>1, <2>3, <2>4 DEF Undisturbed
  <1>4. CASE Reload(r)
    <2>1. \A s \in Replicas : /\ Loading(s)' <=> Loading(s)
                              /\ load'[s].pc = load[s].pc /\ load'[s].got = load[s].got
                              /\ load'[s].ok = load[s].ok
      BY <1>4, ReloadFacts DEF Loading
    <2>2. \A s \in Replicas : memory'[s]["settings"] = memory'[s]["key"]
      BY <1>4, ReloadFacts, Alike DEF Undisturbed
    <2>3. QED
      BY <1>1, <2>1, <2>2 DEF Undisturbed
  <1>5. QED
    BY <1>2, <1>3, <1>4

LEMMA RestartOrderly ==
  ASSUME TypeOK, Undisturbed, NoCause', NEW r \in Replicas, Restart(r)
  PROVE  Undisturbed'
  <1>1. InProgress = {} /\ InProgress' = {} /\ UNCHANGED stored
    BY RestartFacts DEF NoCause, InProgress
  <1>2. \A s \in Replicas : memory'[s]["settings"] = memory'[s]["key"]
    BY RestartFacts, Alike DEF Undisturbed
  <1>3. ASSUME NEW s \in Replicas, Loading(s)'
        PROVE  /\ cache'[s] = stored'
               /\ load'[s].ok /\ load'[s].pc # "settings" =>
                    load'[s].got["settings"] = stored'["settings"]
               /\ load'[s].ok /\ load'[s].pc = "swap" => load'[s].got["key"] = stored'["key"]
    <2>1. CASE s = r
      BY <1>1, <2>1, RestartFacts DEF Starting
    <2>2. CASE s # r
      <3>1. Loading(s)
        BY <1>3, <2>2, RestartFacts DEF Loading
      <3>2. QED
        BY <1>1, <2>2, <3>1, RestartFacts DEF Undisturbed
    <2>3. QED
      BY <2>1, <2>2
  <1>4. QED
    BY <1>1, <1>2, <1>3 DEF Undisturbed

LEMMA NextOrderly == TypeOK /\ SentInOrder /\ LoadsFit /\ Orderly /\ [Next]_vars => Orderly'
  <1> SUFFICES ASSUME TypeOK, SentInOrder, LoadsFit, Orderly, [Next]_vars, NoCause' PROVE Undisturbed'
    BY DEF Orderly
  <1>1. Undisturbed
    BY CausesStay DEF Orderly
  <1>2. ASSUME NEW r \in Replicas, NEW p \in Parts, Watch(r, p) PROVE Undisturbed'
    <2>1. /\ \A s \in Replicas : cache[s] = stored => cache'[s] = stored
          /\ UNCHANGED <<stored, memory, load, update, begun>>
      BY <1>2, WatchFacts
    <2>2. QED
      BY <1>1, <2>1 DEF Undisturbed, InProgress, Loading
  <1>3. CASE UNCHANGED vars
    BY <1>1, <1>3 DEF vars, Undisturbed, InProgress, Loading
  <1>4. QED
    BY <1>1, <1>2, <1>3, UpdateOrderly, LoadOrderly, RestartOrderly DEF Next

LEMMA InitOrderly == Init => SentInOrder /\ Orderly
  <1> SUFFICES ASSUME Init PROVE SentInOrder /\ Undisturbed
    BY DEF Orderly
  <1>1. \A u \in Updates : update[u] = Unsent /\ u > begun
    BY Distinct DEF Init
  <1>2. InProgress = {} /\ \A r \in Replicas : ~ Loading(r)
    BY <1>1 DEF Init, InProgress, Unsent, Loading, Starting
  <1>3. QED
    BY <1>1, <1>2, Alike DEF Init, SentInOrder, Undisturbed

\* A replica's provider mixes two configurations only when an update failed to save
\* a part, was cut short by a restart, or was not alone (ReloadFromDirect,
\* LoadPersisted).
THEOREM MixturesHaveCauses == Spec => []MixtureHasCause
  <1>1. Orderly => MixtureHasCause
    BY DEF Orderly, Undisturbed, NoCause, Cause, MixtureHasCause
  <1>2. Spec => [](TypeOK /\ SentInOrder /\ LoadsFit /\ Orderly)
    BY InitType, InitFit, InitOrderly, NextType, NextInOrder, NextFit, NextOrderly, PTL DEF Spec
  <1>3. QED
    BY <1>1, <1>2, PTL

-----------------------------------------------------------------------------
(* Surviving restarts.                                                      *)

\* The last update, so far without a failed save, alone and not cut short.
Undisputed(u) == u = begun /\ ~ Cause(u)

\* The last load of replica r has read u wherever it has read at all, and will, as
\* long as no read fails.
Reloads(u, r) == load[r].ok =>
  \/ load[r].pc = "settings" /\ cache[r] = stored
  \/ load[r].pc = "key" /\ cache[r] = stored /\ load[r].got["settings"] = u
  \/ load[r].pc = "swap" /\ load[r].got["settings"] = u /\ load[r].got["key"] = u
  \/ load[r].pc = "done" /\ memory[r]["settings"] = u /\ memory[r]["key"] = u

\* While it is under way no load is, and none that has ended is the last word; what
\* it has saved stays saved; once it is done, every load begun since reads it.
Holds(u) ==
  /\ InProgress \subseteq {u}
  /\ update[u].pc # "done" => \A r \in Replicas : ~ Loading(r) /\ ~ load[r].last
  /\ update[u].pc # "settings" => stored["settings"] = u
  /\ update[u].pc \in {"swap", "done"} => stored["key"] = u
  /\ update[u].pc = "done" => \A r \in Replicas : load[r].last => Reloads(u, r)

LastLoads == \A u \in Updates : Undisputed(u) => Holds(u)

\* What was disputed stays so, except for an update that is sent now.
LEMMA StaysDisputed ==
  ASSUME TypeOK, SentInOrder, NEW v \in Updates, Undisputed(v)',
         [\A u \in Updates, r \in Replicas : ~ Send(u, r)]_vars, [Next]_vars
  PROVE  Undisputed(v)
  <1>1. ASSUME NEW u \in Updates, SaveSucceeds(u) \/ SaveFails(u) \/ Acknowledge(u)
        PROVE  Undisputed(v)
    <2>1. begun' = begun
      BY <1>1, SaveFacts, FailedSaveFacts, AcknowledgeFacts
    <2>2. CASE v # u
      BY <1>1, <2>1, <2>2, SaveFacts, FailedSaveFacts, AcknowledgeFacts DEF Cause, Undisputed
    <2>3. CASE v = u
      <3>1. update[v].pc # "cut"
        BY <1>1, <2>3, SaveFacts, FailedSaveFacts, AcknowledgeFacts DEF InProgress
      <3>2. QED
        BY <1>1, <2>1, <2>3, <3>1, SaveFacts, FailedSaveFacts, AcknowledgeFacts DEF Cause, Undisputed
    <2>4. QED
      BY <2>2, <2>3
  <1>2. ASSUME NEW r \in Replicas, Restart(r) PROVE Undisputed(v)
    BY <1>2, RestartFacts DEF Cause, Undisputed
  <1>3. CASE UNCHANGED <<update, begun>>
    BY <1>3 DEF Cause, Undisputed
  <1>4. QED
    BY <1>1, <1>2, <1>3 DEF Next, vars, Read, ReadFails, Install, Reload, Watch

LEMMA SendHolds ==
  ASSUME TypeOK, SentInOrder, NEW u \in Updates, NEW r \in Replicas, Send(u, r),
         NEW v \in Updates, Undisputed(v)'
  PROVE  Holds(v)'
  <1>1. v = u /\ update'[u].alone /\ update'[u].pc = "settings"
    BY SendFacts DEF Undisputed, Cause
  <1>2. InProgress' = {u} /\ \A s \in Replicas : ~ Loading(s)' /\ ~ load'[s].last
    BY <1>1, SendFacts DEF Loading
  <1>3. QED
    BY <1>1, <1>2 DEF Holds

LEMMA UpdateHolds ==
  ASSUME TypeOK, SentInOrder, NEW u \in Updates, NEW v \in Updates, Undisputed(v)', Holds(v),
         SaveSucceeds(u) \/ SaveFails(u) \/ Acknowledge(u)
  PROVE  Holds(v)'
  <1>1. u = v
    BY SaveFacts, FailedSaveFacts, AcknowledgeFacts DEF Holds
  <1>2. ~ SaveFails(u)
    BY <1>1, FailedSaveFacts DEF Undisputed
  <1>3. update[u].pc \in {"settings", "key", "swap"}
    BY SaveFacts, FailedSaveFacts, AcknowledgeFacts DEF InProgress
  <1>4. \A r \in Replicas : ~ Loading(r) /\ ~ load[r].last
    BY <1>1, <1>3 DEF Holds
  <1>5. UNCHANGED load /\ InProgress' \subseteq {u}
    BY <1>1, <1>2, SaveFacts, AcknowledgeFacts DEF Holds
  <1>6. \A r \in Replicas : ~ Loading(r)' /\ ~ load'[r].last
    BY <1>4, <1>5 DEF Loading
  <1>7. /\ update'[u].pc # "settings" => stored'["settings"] = u
        /\ update'[u].pc \in {"swap", "done"} => stored'["key"] = u
    BY <1>1, <1>2, SaveFacts, AcknowledgeFacts DEF Holds
  <1>8. QED
    BY <1>1, <1>5, <1>6, <1>7 DEF Holds

LEMMA LoadHolds ==
  ASSUME TypeOK, NEW v \in Updates, Holds(v), NEW r \in Replicas,
         Read(r) \/ ReadFails(r) \/ Install(r) \/ Reload(r)
  PROVE  Holds(v)'
  <1>1. /\ InProgress' = InProgress /\ UNCHANGED <<update, stored, cache>>
        /\ \A s \in Replicas \ {r} : load'[s] = load[s] /\ memory'[s] = memory[s]
        /\ load'[r].last => load[r].last
        /\ Loading(r)' => Loading(r)
    BY ReadFacts, ReadFailsFacts, InstallFacts, ReloadFacts DEF InProgress, Loading
  <1>2. CASE update[v].pc # "done"
    BY <1>1, <1>2 DEF Holds, Loading
  <1>3. CASE update[v].pc = "done"
    <2>1. stored["settings"] = v /\ stored["key"] = v
      BY <1>3 DEF Holds
    <2>2. ASSUME NEW s \in Replicas, s # r, load'[s].last PROVE Reloads(v, s)'
      <3>1. Reloads(v, s) /\ load'[s] = load[s] /\ memory'[s] = memory[s]
        BY <1>1, <1>3, <2>2 DEF Holds
      <3>2. QED
        BY <1>1, <3>1 DEF Reloads
    <2>3. ASSUME load'[r].last PROVE Reloads(v, r)'
      <3>1. Reloads(v, r)
        BY <1>1, <1>3, <2>3 DEF Holds
      <3>2. CASE Read(r)
        BY <1>1, <2>1, <3>1, <3>2, ReadFacts DEF Reloads
      <3>3. CASE ReadFails(r)
        BY <3>3, ReadFailsFacts DEF Reloads
      <3>4. CASE Install(r) /\ load[r].ok
        <4>1. load[r].got["settings"] = v /\ load[r].got["key"] = v
          BY <3>1, <3>4, InstallFacts DEF Reloads
        <4>2. memory'[r] = load[r].got
          BY <3>4, <4>1, InstallFacts, Distinct DEF Parts
        <4>3. QED
          BY <3>4, <4>1, <4>2, InstallFacts DEF Reloads
      <3>5. CASE Install(r) /\ ~ load[r].ok
        BY <3>5, InstallFacts DEF Reloads
      <3>6. CASE Reload(r)
        <4>1. /\ Loading(r) /\ load'[r].pc = load[r].pc /\ load'[r].got = load[r].got
              /\ load'[r].ok = load[r].ok
          BY <2>3, <3>6, ReloadFacts
        <4>2. QED
          BY <1>1, <3>1, <4>1 DEF Reloads, Loading
      <3>7. QED
        BY <3>2, <3>3, <3>4, <3>5, <3>6
    <2>4. QED
      BY <1>1, <1>3, <2>2, <2>3 DEF Holds
  <1>4. QED
    BY <1>2, <1>3

LEMMA RestartHolds ==
  ASSUME TypeOK, NEW v \in Updates, Undisputed(v)', Undisputed(v), Holds(v),
         update[v].pc # "unsent", NEW r \in Replicas, Restart(r)
  PROVE  Holds(v)'
  <1>1. v \notin InProgress /\ update'[v] = update[v]
    BY RestartFacts DEF Undisputed
  <1>2. update[v].pc = "done"
    BY <1>1 DEF Undisputed, Cause, InProgress, TypeOK, UpdateRecords
  <1>3. InProgress' \subseteq {v} /\ UNCHANGED stored
    BY RestartFacts DEF Holds
  <1>4. ASSUME NEW s \in Replicas, load'[s].last PROVE Reloads(v, s)'
    <2>1. CASE s = r
      BY <1>3, <2>1, RestartFacts DEF Starting, Reloads
    <2>2. CASE s # r
      <3>1. load'[s] = load[s] /\ cache'[s] = cache[s] /\ memory'[s] = memory[s]
        BY <2>2, RestartFacts
      <3>2. Reloads(v, s)
        BY <1>2, <1>4, <3>1 DEF Holds
      <3>3. QED
        BY <1>3, <3>1, <3>2 DEF Reloads
    <2>3. QED
      BY <2>1, <2>2
  <1>5. QED
    BY <1>1, <1>2, <1>3, <1>4 DEF Holds

LEMMA NextLastLoads == TypeOK /\ SentInOrder /\ LastLoads /\ [Next]_vars => LastLoads'
  <1> SUFFICES ASSUME TypeOK, SentInOrder, LastLoads, [Next]_vars,
                      NEW v \in Updates, Undisputed(v)'
               PROVE  Holds(v)'
    BY DEF LastLoads
  <1>1. CASE \E u \in Updates, r \in Replicas : Send(u, r)
    BY <1>1, SendHolds
  <1>2. CASE ~ \E u \in Updates, r \in Replicas : Send(u, r)
    <2>1. Undisputed(v)
      BY <1>2, StaysDisputed
    <2>2. Holds(v)
      BY <2>1 DEF LastLoads
    <2>3. update[v].pc # "unsent"
      BY <2>1, Distinct DEF Undisputed, SentInOrder, TypeOK
    <2>4. ASSUME NEW r \in Replicas, NEW p \in Parts, Watch(r, p) PROVE Holds(v)'
      <3>1. /\ \A s \in Replicas : cache[s] = stored => cache'[s] = stored
            /\ UNCHANGED <<stored, memory, load, update, begun>>
        BY <2>4, WatchFacts
      <3>2. \A s \in Replicas : Reloads(v, s) => Reloads(v, s)'
        BY <3>1 DEF Reloads
      <3>3. QED
        BY <2>2, <3>1, <3>2 DEF Holds, InProgress, Loading
    <2>5. CASE UNCHANGED vars
      BY <2>2, <2>5 DEF vars, Holds, Reloads, InProgress, Loading
    <2>6. QED
      BY <1>2, <2>1, <2>2, <2>3, <2>4, <2>5, UpdateHolds, LoadHolds, RestartHolds DEF Next
  <1>3. QED
    BY <1>1, <1>2

\* A replica that starts after an update that saved both parts while nothing else was
\* under way, and before the next one, loads it, whatever failed, was cut short or
\* mixed before; if it cannot read it, it runs the resource's provider or none
\* (ReloadFromDirect, saveConfigMap, saveSecret, LoadPersisted, Reload).
THEOREM SurvivesRestarts == Spec => []SurvivesRestart
  <1>1. Init => LastLoads
    BY Distinct DEF Init, LastLoads, Undisputed
  <1>2. ASSUME TypeOK, LastLoads, FallsBack PROVE SurvivesRestart
    <2> SUFFICES ASSUME NEW r \in Replicas, NEW u \in Updates,
                        u = begun, Clean(u), load[r].last, load[r].pc = "done"
                 PROVE  IF load[r].ok THEN memory[r] = All(u) ELSE memory[r] \in {All(Cr), All(None)}
      BY DEF SurvivesRestart
    <2>1. Holds(u) /\ update[u].pc = "done"
      BY <1>2 DEF LastLoads, Undisputed, Clean, Cause
    <2>2. CASE load[r].ok
      <3>1. memory[r]["settings"] = u /\ memory[r]["key"] = u
        BY <2>1, <2>2 DEF Holds, Reloads
      <3>2. memory[r] \in [Parts -> Values]
        BY <1>2 DEF TypeOK
      <3>3. QED
        BY <2>2, <3>1, <3>2 DEF All, Parts
    <2>3. CASE ~ load[r].ok
      BY <1>2, <2>3 DEF FallsBack, Fallback
    <2>4. QED
      BY <2>2, <2>3
  <1>3. Spec => [](TypeOK /\ SentInOrder /\ LoadsFit)
    BY InitType, InitFit, InitOrderly, NextType, NextInOrder, NextFit, PTL DEF Spec
  <1>4. Spec => [](TypeOK /\ FallsBack)
    BY <1>3, InitFalls, NextFalls, PTL DEF Spec
  <1>5. Spec => []LastLoads
    BY <1>1, <1>3, NextLastLoads, PTL DEF Spec
  <1>6. QED
    BY <1>2, <1>4, <1>5, PTL
=============================================================================
