----------------------------- MODULE ChatEngine -----------------------------
(***************************************************************************)
(* The chat engine of the dashboard: the store of conversations with its   *)
(* cap, the runs that answer chat requests, and the conversation memory    *)
(* they share (internal/chat/engine.go, internal/memory/conversation.go).  *)
(*                                                                         *)
(* A conversation's list leaves out the leading system prompt, which never *)
(* changes.  An entry of the list is the set of messages it stands for: one *)
(* message, or all those a summary was made from.  Whether the circuit     *)
(* breaker or the provider refuses a call is any outcome here; the breaker *)
(* has a module of its own.                                                *)
(***************************************************************************)
EXTENDS Naturals, FiniteSets, Sequences, Functions

CONSTANTS
  Ids,               \* conversation ids that clients use
  None,              \* no conversation
  KeepRecent,        \* keepRecent: messages a compression leaves alone (8)
  MaxConversations,  \* maxConversations: cap of the store (1000)
  MaxSteps,          \* maxSteps: LLM calls of one run (15)
  MaxCalls,          \* bound: tool calls in one LLM answer
  MaxRequests,       \* bound: requests ever made
  MaxConcurrent      \* bound: requests being answered at once

ASSUME ChatAssumption ==
  /\ KeepRecent \in Nat \ {0} /\ MaxConversations \in Nat \ {0}
  /\ MaxSteps \in Nat \ {0} /\ MaxCalls \in Nat \ {0}
  /\ MaxRequests \in Nat /\ MaxConcurrent \in Nat
  /\ IsFiniteSet(Ids)
  /\ None \notin Ids \cup (1 .. MaxRequests)

VARIABLES
  store,    \* the engine's map from ids to conversations
  since,    \* for each id in the store, the ids active since it last was
  list,     \* the message list of each conversation ever created
  run,      \* what the goroutine that answers each request is doing
  asked,    \* number of requests so far; the n-th may create conversation n
  added,    \* history: the messages appended to each conversation
  exposed   \* history: those appended while a compression was under way

vars == <<store, since, list, run, asked, added, exposed>>

Requests == 1 .. MaxRequests
Conversations == Requests
\* A message: of which request, of what kind, in which step, which of its results.
Messages == [of : Requests, kind : {"user", "call", "result", "answer"},
             step : 0 .. MaxSteps, left : 0 .. MaxCalls]

Idle == [pc |-> "idle", id |-> None, conv |-> None,
         step |-> 0, left |-> 0, old |-> {}, recent |-> <<>>]

Message(r, kind) == [of |-> r, kind |-> kind, step |-> run[r].step, left |-> run[r].left]

Compressing(c) == \E r \in Requests : run[r].pc = "compressing" /\ run[r].conv = c

Stored == {i \in Ids : store[i] # None}

\* The ids that leave the store make room in the order of activity too.
Drop(gone) ==
  /\ store' = [i \in Ids |-> IF i \in gone THEN None ELSE store[i]]
  /\ since' = [i \in Ids |-> IF i \in gone THEN {} ELSE since[i] \ gone]

\* updatedAt of a conversation is set; one that has left the store has no rank.
Touch(r) ==
  since' = IF store[run[r].id] # run[r].conv THEN since
           ELSE [i \in Ids |-> IF i \in Stored \ {run[r].id} THEN since[i] \cup {run[r].id}
                                                            ELSE {}]

\* AddUserMessage, AddAssistantMessage and AddToolResult.
Say(r, message) ==
  LET c == run[r].conv IN
  /\ list' = [list EXCEPT ![c] = Append(@, {message})]
  /\ added' = [added EXCEPT ![c] = @ \cup {message}]
  /\ exposed' = IF Compressing(c) THEN [exposed EXCEPT ![c] = @ \cup {message}]
                                  ELSE exposed
  /\ Touch(r)
  /\ UNCHANGED <<store, asked>>

Go(r, pc) == run' = [run EXCEPT ![r].pc = pc]
Return(r) == run' = [run EXCEPT ![r] = Idle]

-----------------------------------------------------------------------------
Init ==
  /\ store = [i \in Ids |-> None]
  /\ since = [i \in Ids |-> {}]
  /\ list = [c \in Conversations |-> <<>>]
  /\ run = [r \in Requests |-> Idle]
  /\ asked = 0
  /\ added = [c \in Conversations |-> {}]
  /\ exposed = [c \in Conversations |-> {}]

Enter(r, i, c) ==
  /\ r = asked + 1
  /\ Cardinality({q \in Requests : run[q].pc # "idle"}) < MaxConcurrent
  /\ asked' = r
  /\ run' = [run EXCEPT ![r] = [Idle EXCEPT !.pc = "found", !.id = i, !.conv = c]]
  /\ UNCHANGED <<list, added, exposed>>

\* GetOrCreateConversation.
Find(r, i) ==
  /\ i \in Stored
  /\ Enter(r, i, store[i])
  /\ UNCHANGED <<store, since>>

\* At the cap the conversation idle for longest goes, whoever is using it.
Oldest == {i \in Stored : Stored \ {i} \subseteq since[i]}
EvictedLate ==                                   \* mutant: off by one
  IF Cardinality(Stored) > MaxConversations THEN {{i} : i \in Oldest} ELSE {{}}
Evicted == IF Cardinality(Stored) >= MaxConversations THEN {{i} : i \in Oldest} ELSE {{}}
Create(r, i) ==
  /\ i \notin Stored
  /\ Enter(r, i, r)
  /\ \E gone \in Evicted :
       /\ store' = [j \in Ids |-> IF j = i THEN r ELSE IF j \in gone THEN None ELSE store[j]]
       /\ since' = [j \in Ids |-> IF j \in Stored \ gone THEN (since[j] \ gone) \cup {i} ELSE {}]

AddUser(r) ==
  /\ run[r].pc = "found"
  /\ Say(r, Message(r, "user"))
  /\ Go(r, "added")

\* MaybeCompress finds nothing to do, or its summarising LLM call fails.
GoOn(r) ==
  /\ run[r].pc \in {"added", "compressing"}
  /\ run' = [run EXCEPT ![r].pc = "asking", ![r].old = {}, ![r].recent = <<>>]
  /\ UNCHANGED <<store, since, list, asked, added, exposed>>

\* MaybeCompress, if the estimated size is over the threshold: compress copies
\* the older messages into its prompt, keeps the slice of recent ones and gives
\* the lock back for the LLM call.
StartCompressGap(r) ==                           \* mutant: the message at the cut is lost
  LET current == list[run[r].conv]
      cut == Len(current) - KeepRecent
  IN
  /\ run[r].pc = "added" /\ cut > 0
  /\ run' = [run EXCEPT
       ![r].pc = "compressing",
       ![r].old = UNION Range(SubSeq(current, 1, cut - 1)),
       ![r].recent = SubSeq(current, cut + 1, Len(current))]
  /\ UNCHANGED <<store, since, list, asked, added, exposed>>
StartCompress(r) ==
  LET current == list[run[r].conv]
      cut == Len(current) - KeepRecent
  IN
  /\ run[r].pc = "added"
  /\ Len(current) > KeepRecent
  /\ run' = [run EXCEPT
       ![r].pc = "compressing",
       ![r].old = UNION Range(SubSeq(current, 1, cut)),
       ![r].recent = SubSeq(current, cut + 1, Len(current))]
  /\ UNCHANGED <<store, since, list, asked, added, exposed>>

\* The rest of compress: the list becomes the summary and the slice kept.
FinishCompress(r) ==
  /\ run[r].pc = "compressing"
  /\ list' = [list EXCEPT ![run[r].conv] = <<run[r].old>> \o run[r].recent]
  /\ Touch(r)
  /\ run' = [run EXCEPT ![r].pc = "asking", ![r].old = {}, ![r].recent = <<>>]
  /\ UNCHANGED <<store, asked, added, exposed>>

\* The LLM answers without tool calls: the run's final answer.
Answer(r) ==
  /\ run[r].pc = "asking"
  /\ Say(r, Message(r, "answer"))
  /\ Return(r)

\* The LLM asks for n tools.
CallTools(r, n) ==
  /\ run[r].pc = "asking"
  /\ Say(r, [Message(r, "call") EXCEPT !.left = n])
  /\ run' = [run EXCEPT ![r].pc = "tools", ![r].left = n]

ToolResultOff(r) ==                              \* mutant: one step too many
  LET last == run[r].left = 1
      steps == run[r].step + 1
  IN
  /\ run[r].pc = "tools" /\ Say(r, Message(r, "result"))
  /\ run' = [run EXCEPT
       ![r].left = @ - 1,
       ![r].step = IF last THEN steps ELSE @,
       ![r].pc = IF ~ last THEN "tools" ELSE IF steps <= MaxSteps THEN "asking" ELSE "exhausted"]
\* One tool has run, or failed, or is unknown: each way there is a result.
ToolResult(r) ==
  LET last == run[r].left = 1
      steps == run[r].step + 1
  IN
  /\ run[r].pc = "tools"
  /\ Say(r, Message(r, "result"))
  /\ run' = [run EXCEPT
       ![r].left = @ - 1,
       ![r].step = IF last THEN steps ELSE @,
       ![r].pc = IF ~ last THEN "tools" ELSE IF steps < MaxSteps THEN "asking" ELSE "exhausted"]

\* The answer given when the steps are used up.
GiveUp(r) ==
  /\ run[r].pc = "exhausted"
  /\ Say(r, Message(r, "answer"))
  /\ Return(r)

\* The breaker is open, the call failed after its retries, or the run's time or
\* its client is gone: the run ends with an error event.
CallFailsMidway(r) ==                            \* mutant: tools are given up too
  /\ run[r].pc \in {"asking", "tools"}
  /\ Return(r)
  /\ UNCHANGED <<store, since, list, asked, added, exposed>>
CallFails(r) ==
  /\ run[r].pc = "asking"
  /\ Return(r)
  /\ UNCHANGED <<store, since, list, asked, added, exposed>>

\* DeleteConversation.
Delete(i) ==
  /\ i \in Stored
  /\ Drop({i})
  /\ UNCHANGED <<list, run, asked, added, exposed>>

\* evictIdle: those idle for more than conversationTTL, all of them idle for
\* longer than any that stays.  (Its second phase never finds the store over its
\* cap: StoreWithinCap.)
EvictIdle(idle) ==
  /\ idle \subseteq Stored
  /\ \A i \in idle : Stored \ idle \subseteq since[i]
  /\ Drop(idle)
  /\ UNCHANGED <<list, run, asked, added, exposed>>

Step(r) ==
  \/ AddUser(r) \/ GoOn(r) \/ StartCompress(r) \/ FinishCompress(r)
  \/ Answer(r) \/ ToolResult(r) \/ GiveUp(r) \/ CallFails(r)
  \/ \E n \in 1 .. MaxCalls : CallTools(r, n)
  \/ \E i \in Ids : Find(r, i) \/ Create(r, i)

Next ==
  \/ \E r \in Requests : Step(r)
  \/ \E i \in Ids : Delete(i)
  \/ \E idle \in SUBSET Ids \ {{}} : EvictIdle(idle)

Spec == Init /\ [][Next]_vars

-----------------------------------------------------------------------------
\* The state has the shape the code gives it; the step counter stays within the
\* loop's bound.
TypeOK ==
  /\ store \in [Ids -> Conversations \cup {None}]
  /\ since \in [Ids -> SUBSET Ids]
  /\ list \in [Conversations -> Seq(SUBSET Messages)]
  /\ run \in [Requests ->
       [pc : {"idle", "found", "added", "compressing", "asking", "tools", "exhausted"},
        id : Ids \cup {None}, conv : Conversations \cup {None},
        step : 0 .. MaxSteps, left : 0 .. MaxCalls,
        old : SUBSET Messages, recent : Seq(SUBSET Messages)]]
  /\ asked \in 0 .. MaxRequests
  /\ added \in [Conversations -> SUBSET Messages]
  /\ exposed \in [Conversations -> SUBSET Messages]

\* A message of a conversation is in the list or in the summary that stands in
\* its place, through any number of compressions by any number of runs, unless
\* it was appended while a compression of that conversation awaited its summary:
\* compress overwrites the list with the copy it took before the LLM call.
Remembered(c) == UNION Range(list[c])
ForgottenOnlyIfExposed ==
  \A c \in Conversations : added[c] \ Remembered(c) \subseteq exposed[c]

\* However deletions, evictions and creations meet, the store stays within its
\* cap, so that the second phase of evictIdle never has anything to do.
StoreWithinCap == Cardinality(Stored) <= MaxConversations

\* Every call in the list that goes to the LLM, or in its summary, has its results
\* there as well, but for those of a run that is still executing its tools and
\* those appended while a compression awaited its summary: such a one may be
\* overwritten while its call is kept, and is then missing for good.  No error,
\* timeout or client that leaves, at any point of any run, and no compression that
\* nothing was appended to, leaves a call unanswered.
CallsGetResults ==
  \A c \in Conversations :
    \A call \in {m \in added[c] : m.kind = "call" /\ m \in Remembered(c)} :
      \A k \in 1 .. call.left :
        \/ [call EXCEPT !.kind = "result", !.left = k] \in Remembered(c) \cup exposed[c]
        \/ LET r == run[call.of] IN
           r.pc = "tools" /\ r.conv = c /\ r.step = call.step /\ k <= r.left
=============================================================================
