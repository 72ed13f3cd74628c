-------------------------- MODULE ChatEngine_proofs --------------------------
(***************************************************************************)
(* Proofs about ChatEngine for any number of ids, requests, steps and tool *)
(* calls, and any cap.                                                     *)
(***************************************************************************)
EXTENDS ChatEngine, FiniteSetTheorems, SequenceTheorems, TLAPS

-----------------------------------------------------------------------------
(* The inductive invariant.                                                 *)

RunType ==
  [pc : {"idle", "found", "added", "compressing", "asking", "tools", "exhausted"},
   id : Ids \cup {None}, conv : Conversations \cup {None},
   step : 0 .. MaxSteps, left : 0 .. MaxCalls,
   old : SUBSET Messages, recent : Seq(SUBSET Messages)]

\* What goroutine r may be doing when n requests have been made: one that has begun
\* has an id and a conversation, and has steps and tool calls left where it will
\* use them.
Fits(x, r, n) ==
  /\ x \in RunType
  /\ x.pc # "idle" => x.id \in Ids /\ x.conv \in Conversations /\ r <= n
  /\ x.pc \in {"found", "added", "compressing", "asking", "tools"} => x.step < MaxSteps
  /\ x.pc = "tools" => x.left > 0

Shape == TypeOK /\ \A r \in Requests : Fits(run[r], r, asked)

\* The copy a compression works on stands for everything said before it began.
CopiesCover ==
  \A r \in Requests : run[r].pc = "compressing" =>
    added[run[r].conv] \ (run[r].old \cup UNION Range(run[r].recent)) \subseteq exposed[run[r].conv]

\* A result missing from what was ever said belongs to a run that executes tools.
Answered(c, call, k) == [call EXCEPT !.kind = "result", !.left = k] \in added[c]
Awaited(c, call, k) ==
  LET r == run[call.of] IN
  r.pc = "tools" /\ r.conv = c /\ r.step = call.step /\ k <= r.left
CallsGiven ==
  \A c \in Conversations : \A call \in added[c] : call.kind = "call" =>
    \A k \in 1 .. call.left : Answered(c, call, k) \/ Awaited(c, call, k)

IInv ==
  /\ Shape
  /\ CopiesCover
  /\ ForgottenOnlyIfExposed
  /\ StoreWithinCap
  /\ CallsGiven

-----------------------------------------------------------------------------
(* The building blocks.                                                     *)

LEMMA Bounds ==
  /\ KeepRecent \in Nat \ {0} /\ MaxConversations \in Nat \ {0}
  /\ MaxSteps \in Nat \ {0} /\ MaxCalls \in Nat \ {0}
  /\ MaxRequests \in Nat /\ MaxConcurrent \in Nat
  /\ IsFiniteSet(Ids)
  /\ None \notin Ids /\ None \notin Conversations
  BY ChatAssumption DEF Conversations, Requests

LEMMA UnionAdd ==
  ASSUME NEW A, NEW e
  PROVE  UNION (A \cup {e}) = (UNION A) \cup e
  <1>1. \A x : x \in UNION (A \cup {e}) <=> \E y \in A \cup {e} : x \in y
    OBVIOUS
  <1>2. \A x : x \in UNION A <=> \E y \in A : x \in y
    OBVIOUS
  <1>3. \A x : x \in UNION (A \cup {e}) <=> x \in (UNION A) \cup e
    BY <1>1, <1>2
  <1>4. QED
    BY <1>3

\* What the list stands for grows by the message that is appended.
LEMMA RangeAppend ==
  ASSUME NEW S, NEW s \in Seq(S), NEW e \in S
  PROVE  /\ Append(s, e) \in Seq(S)
         /\ UNION Range(Append(s, e)) = (UNION Range(s)) \cup e
  <1>1. Append(s, e) \in Seq(S) /\ Len(Append(s, e)) = Len(s) + 1
    BY AppendProperties
  <1>2. \A i \in 1 .. Len(s) + 1 : Append(s, e)[i] = IF i <= Len(s) THEN s[i] ELSE e
    BY AppendProperties, LenProperties
  <1>3. /\ Len(s) \in Nat /\ DOMAIN s = 1 .. Len(s)
        /\ DOMAIN Append(s, e) = 1 .. Len(s) + 1
    BY <1>1, LenProperties
  <1>4. Range(Append(s, e)) = {Append(s, e)[i] : i \in 1 .. Len(s) + 1}
    BY <1>3 DEF Range
  <1>5. Range(s) = {s[i] : i \in 1 .. Len(s)}
    BY <1>3 DEF Range
  <1>6. Range(Append(s, e)) = Range(s) \cup {e}
    BY <1>2, <1>3, <1>4, <1>5
  <1>7. QED
    BY <1>1, <1>6, UnionAdd

\* Cutting a sequence in two keeps its entries.
LEMMA RangeCut ==
  ASSUME NEW S, NEW s \in Seq(S), NEW n \in 0 .. Len(s)
  PROVE  /\ SubSeq(s, 1, n) \in Seq(S)
         /\ SubSeq(s, n + 1, Len(s)) \in Seq(S)
         /\ Range(s) = Range(SubSeq(s, 1, n)) \cup Range(SubSeq(s, n + 1, Len(s)))
  <1>1. Len(s) \in Nat /\ n \in Nat
    BY LenProperties
  <1>2. /\ SubSeq(s, 1, n) \in Seq(S) /\ Len(SubSeq(s, 1, n)) = n
        /\ \A i \in 1 .. n : SubSeq(s, 1, n)[i] = s[i]
    BY <1>1, SMT
  <1>3. /\ SubSeq(s, n + 1, Len(s)) \in Seq(S) /\ Len(SubSeq(s, n + 1, Len(s))) = Len(s) - n
        /\ \A i \in 1 .. Len(s) - n : SubSeq(s, n + 1, Len(s))[i] = s[n + i]
    BY <1>1, SMT
  <1>4. \A x \in Range(s) : x \in Range(SubSeq(s, 1, n)) \cup Range(SubSeq(s, n + 1, Len(s)))
    <2> TAKE x \in Range(s)
    <2>1. PICK i \in 1 .. Len(s) : x = s[i]
      BY LenProperties DEF Range
    <2>2. CASE i <= n
      <3>1. i \in 1 .. n /\ x = SubSeq(s, 1, n)[i]
        BY <1>1, <1>2, <2>1, <2>2
      <3>2. QED
        BY <1>1, <1>2, <3>1, LenProperties DEF Range
    <2>3. CASE i > n
      <3>1. i - n \in 1 .. Len(s) - n /\ x = SubSeq(s, n + 1, Len(s))[i - n]
        BY <1>1, <1>3, <2>1, <2>3
      <3>2. QED
        BY <1>1, <1>3, <3>1, LenProperties DEF Range
    <2>4. QED
      BY <1>1, <2>1, <2>2, <2>3
  <1>5. Range(SubSeq(s, 1, n)) \subseteq Range(s)
    BY <1>1, <1>2, LenProperties DEF Range
  <1>6. Range(SubSeq(s, n + 1, Len(s))) \subseteq Range(s)
    BY <1>1, <1>3, LenProperties DEF Range
  <1>7. QED
    BY <1>2, <1>3, <1>4, <1>5, <1>6

\* The list after a compression stands for what the copy stands for.
LEMMA RangeRebuilt ==
  ASSUME NEW S, NEW s \in Seq(S), NEW e \in S
  PROVE  /\ <<e>> \o s \in Seq(S)
         /\ UNION Range(<<e>> \o s) = e \cup UNION Range(s)
  <1>1. Len(s) \in Nat /\ <<e>> \in Seq(S) /\ Len(<<e>>) = 1
    BY LenProperties, SMT
  <1>2. /\ <<e>> \o s \in Seq(S) /\ Len(<<e>> \o s) = 1 + Len(s)
        /\ \A i \in 1 .. 1 + Len(s) : (<<e>> \o s)[i] = IF i <= 1 THEN <<e>>[i] ELSE s[i - 1]
    BY <1>1, ConcatProperties
  <1>3. Range(<<e>> \o s) = {e} \cup Range(s)
    <2>1. \A x \in Range(s) : x \in Range(<<e>> \o s)
      <3> TAKE x \in Range(s)
      <3>1. PICK i \in 1 .. Len(s) : x = s[i]
        BY LenProperties DEF Range
      <3>2. i + 1 \in 1 .. 1 + Len(s) /\ (<<e>> \o s)[i + 1] = x
        BY <1>1, <1>2, <3>1
      <3>3. QED
        BY <1>2, <3>2, LenProperties DEF Range
    <2>2. e \in Range(<<e>> \o s)
      <3>1. 1 \in 1 .. 1 + Len(s) /\ (<<e>> \o s)[1] = e
        BY <1>1, <1>2
      <3>2. QED
        BY <1>2, <3>1, LenProperties DEF Range
    <2>3. \A x \in Range(<<e>> \o s) : x \in {e} \cup Range(s)
      <3> TAKE x \in Range(<<e>> \o s)
      <3>1. PICK i \in 1 .. 1 + Len(s) : x = (<<e>> \o s)[i]
        BY <1>2, LenProperties DEF Range
      <3>2. CASE i = 1
        BY <1>1, <1>2, <3>1, <3>2
      <3>3. CASE i # 1
        BY <1>1, <1>2, <3>1, <3>3, LenProperties DEF Range
      <3>4. QED
        BY <3>2, <3>3
    <2>4. QED
      BY <2>1, <2>2, <2>3
  <1>4. QED
    BY <1>2, <1>3

-----------------------------------------------------------------------------
(* The shape of the state.                                                  *)

LEMMA RunFacts ==
  ASSUME Shape, NEW r \in Requests
  PROVE  /\ Fits(run[r], r, asked) /\ run[r] \in RunType
         /\ run[r].pc \in {"idle", "found", "added", "compressing", "asking", "tools", "exhausted"}
         /\ run[r].id \in Ids \cup {None} /\ run[r].conv \in Conversations \cup {None}
         /\ run[r].step \in 0 .. MaxSteps /\ run[r].left \in 0 .. MaxCalls
         /\ run[r].old \in SUBSET Messages /\ run[r].recent \in Seq(SUBSET Messages)
  <1>1. Fits(run[r], r, asked) /\ run[r] \in RunType
    BY DEF Shape, Fits
  <1>2. QED
    BY <1>1 DEF RunType

LEMMA IdleFits ==
  ASSUME NEW r, NEW n
  PROVE  Fits(Idle, r, n) /\ Idle.pc = "idle"
  <1>1. /\ 0 \in 0 .. MaxSteps /\ 0 \in 0 .. MaxCalls /\ {} \in SUBSET Messages
        /\ <<>> \in Seq(SUBSET Messages)
    BY Bounds
  <1>2. Idle \in RunType /\ Idle.pc = "idle"
    BY <1>1 DEF Idle, RunType
  <1>3. QED
    BY <1>2 DEF Fits

LEMMA RunEdit ==
  ASSUME Shape, NEW r \in Requests, NEW x, Fits(x, r, asked'), asked' \in Nat, asked <= asked',
         run' = [run EXCEPT ![r] = x]
  PROVE  /\ run' \in [Requests -> RunType]
         /\ \A q \in Requests : run'[q] = IF q = r THEN x ELSE run[q]
         /\ \A q \in Requests : Fits(run'[q], q, asked')
  <1>1. run \in [Requests -> RunType] /\ asked \in Nat
    BY DEF Shape, TypeOK, RunType
  <1>2. \A q \in Requests : run'[q] = IF q = r THEN x ELSE run[q]
    BY <1>1
  <1>3. ASSUME NEW q \in Requests
        PROVE  Fits(run'[q], q, asked')
    <2>1. CASE q = r
      BY <1>2, <2>1
    <2>2. CASE q # r
      <3>1. Fits(run[q], q, asked) /\ run'[q] = run[q] /\ q \in Nat
        BY <1>2, <2>2 DEF Shape, Requests
      <3>2. QED
        BY <1>1, <3>1 DEF Fits
    <2>3. QED
      BY <2>1, <2>2
  <1>4. run' \in [Requests -> RunType]
    <2>1. x \in RunType
      BY DEF Fits
    <2>2. QED
      BY <1>1, <2>1
  <1>5. QED
    BY <1>2, <1>3, <1>4

LEMMA MessageType ==
  ASSUME Shape, NEW r \in Requests
  PROVE  /\ \A kind \in {"user", "call", "result", "answer"} : Message(r, kind) \in Messages
         /\ \A n \in 1 .. MaxCalls : [Message(r, "call") EXCEPT !.left = n] \in Messages
  <1>1. run[r].step \in 0 .. MaxSteps /\ run[r].left \in 0 .. MaxCalls
    BY RunFacts
  <1>2. \A n \in 1 .. MaxCalls : n \in 0 .. MaxCalls
    BY Bounds
  <1>3. QED
    BY <1>1, <1>2 DEF Message, Messages

\* Say extends the list and the history of one conversation and nothing else.
LEMMA SayFacts ==
  ASSUME Shape, NEW r \in Requests, run[r].pc # "idle", NEW m \in Messages, Say(r, m)
  PROVE  /\ store' = store /\ asked' = asked
         /\ since' \in [Ids -> SUBSET Ids]
         /\ list' \in [Conversations -> Seq(SUBSET Messages)]
         /\ added' \in [Conversations -> SUBSET Messages]
         /\ exposed' \in [Conversations -> SUBSET Messages]
         /\ \A c \in Conversations :
              /\ added'[c] = IF c = run[r].conv THEN added[c] \cup {m} ELSE added[c]
              /\ Remembered(c)' = IF c = run[r].conv THEN Remembered(c) \cup {m} ELSE Remembered(c)
              /\ exposed[c] \subseteq exposed'[c]
              /\ (c = run[r].conv /\ Compressing(c)) => m \in exposed'[c]
  <1> DEFINE c0 == run[r].conv
  <1>0. run[r].id \in Ids /\ c0 \in Conversations
    BY DEF Shape, Fits
  <1>1. store' = store /\ asked' = asked
    BY DEF Say
  <1>2. since' \in [Ids -> SUBSET Ids]
    <2>1. since \in [Ids -> SUBSET Ids]
      BY DEF Shape, TypeOK
    <2>2. Touch(r)
      BY DEF Say
    <2>3. QED
      BY <1>0, <2>1, <2>2 DEF Touch
  <1>3. added' = [added EXCEPT ![c0] = @ \cup {m}]
    BY DEF Say
  <1>4. exposed' = IF Compressing(c0) THEN [exposed EXCEPT ![c0] = @ \cup {m}] ELSE exposed
    BY DEF Say
  <1>5. list' = [list EXCEPT ![c0] = Append(@, {m})]
    BY DEF Say
  <1>6. /\ Append(list[c0], {m}) \in Seq(SUBSET Messages)
        /\ UNION Range(Append(list[c0], {m})) = (UNION Range(list[c0])) \cup {m}
    <2>1. list[c0] \in Seq(SUBSET Messages) /\ {m} \in SUBSET Messages
      BY <1>0 DEF Shape, TypeOK
    <2>2. ASSUME NEW S, NEW s \in Seq(S), NEW e \in S
          PROVE  /\ Append(s, e) \in Seq(S)
                 /\ UNION Range(Append(s, e)) = (UNION Range(s)) \cup e
      BY RangeAppend
    <2> DEFINE s == list[c0]
               e == {m}
    <2>3. s \in Seq(SUBSET Messages) /\ e \in SUBSET Messages
      BY <2>1
    <2> HIDE DEF s, e
    <2>4. /\ Append(s, e) \in Seq(SUBSET Messages)
          /\ UNION Range(Append(s, e)) = (UNION Range(s)) \cup e
      BY <2>2, <2>3
    <2>5. QED
      BY <2>4 DEF s, e
  <1>7. /\ list' \in [Conversations -> Seq(SUBSET Messages)]
        /\ \A c \in Conversations :
             list'[c] = IF c = c0 THEN Append(list[c], {m}) ELSE list[c]
    BY <1>5, <1>6 DEF Shape, TypeOK
  <1>8. /\ added' \in [Conversations -> SUBSET Messages]
        /\ \A c \in Conversations :
             added'[c] = IF c = c0 THEN added[c] \cup {m} ELSE added[c]
    BY <1>3 DEF Shape, TypeOK
  <1>9. /\ exposed' \in [Conversations -> SUBSET Messages]
        /\ \A c \in Conversations : exposed[c] \subseteq exposed'[c]
        /\ Compressing(c0) => m \in exposed'[c0]
    <2>1. exposed \in [Conversations -> SUBSET Messages]
      BY DEF Shape, TypeOK
    <2>2. QED
      BY <1>0, <1>4, <2>1
  <1>10. \A c \in Conversations :
           Remembered(c)' = IF c = c0 THEN Remembered(c) \cup {m} ELSE Remembered(c)
    BY <1>6, <1>7 DEF Remembered
  <1>11. QED
    BY <1>1, <1>2, <1>7, <1>8, <1>9, <1>10

-----------------------------------------------------------------------------
(* What is forgotten.                                                       *)

\* Say preserves what is remembered, whatever its run does next other than begin
\* a compression.
LEMMA SayKeeps ==
  ASSUME IInv, NEW r \in Requests, run[r].pc # "idle", NEW m \in Messages, Say(r, m),
         NEW x, x.pc # "compressing", \A q \in Requests : run'[q] = IF q = r THEN x ELSE run[q]
  PROVE  ForgottenOnlyIfExposed' /\ CopiesCover' /\ StoreWithinCap'
  <1>1. Shape
    BY DEF IInv
  <1>2. /\ store' = store
        /\ \A c \in Conversations :
             /\ added'[c] = IF c = run[r].conv THEN added[c] \cup {m} ELSE added[c]
             /\ Remembered(c)' = IF c = run[r].conv THEN Remembered(c) \cup {m} ELSE Remembered(c)
             /\ exposed[c] \subseteq exposed'[c]
             /\ (c = run[r].conv /\ Compressing(c)) => m \in exposed'[c]
    BY <1>1, SayFacts
  <1>3. ForgottenOnlyIfExposed'
    <2> SUFFICES ASSUME NEW c \in Conversations
                 PROVE  added'[c] \ Remembered(c)' \subseteq exposed'[c]
      BY DEF ForgottenOnlyIfExposed
    <2>1. added[c] \ Remembered(c) \subseteq exposed[c]
      BY DEF IInv, ForgottenOnlyIfExposed
    <2>2. CASE c = run[r].conv
      <3>1. added'[c] = added[c] \cup {m} /\ Remembered(c)' = Remembered(c) \cup {m}
            /\ exposed[c] \subseteq exposed'[c]
        BY <1>2, <2>2
      <3>2. QED
        BY <2>1, <3>1
    <2>3. CASE c # run[r].conv
      <3>1. added'[c] = added[c] /\ Remembered(c)' = Remembered(c) /\ exposed[c] \subseteq exposed'[c]
        BY <1>2, <2>3
      <3>2. QED
        BY <2>1, <3>1
    <2>4. QED
      BY <2>2, <2>3
  <1>4. CopiesCover'
    <2> SUFFICES ASSUME NEW q \in Requests, run'[q].pc = "compressing"
                 PROVE  added'[run'[q].conv] \ (run'[q].old \cup UNION Range(run'[q].recent))
                          \subseteq exposed'[run'[q].conv]
      BY DEF CopiesCover
    <2> DEFINE c == run[q].conv
    <2>1. run'[q] = run[q] /\ run[q].pc = "compressing"
      OBVIOUS
    <2>2. c \in Conversations
      BY <1>1, <2>1 DEF Shape, Fits
    <2>3. added[c] \ (run[q].old \cup UNION Range(run[q].recent)) \subseteq exposed[c]
      BY <2>1 DEF IInv, CopiesCover
    <2>4. Compressing(c)
      BY <2>1 DEF Compressing
    <2>5. added'[c] \subseteq added[c] \cup exposed'[c] /\ exposed[c] \subseteq exposed'[c]
      <3> HIDE DEF c
      <3>1. /\ added'[c] = IF c = run[r].conv THEN added[c] \cup {m} ELSE added[c]
            /\ exposed[c] \subseteq exposed'[c]
            /\ c = run[r].conv => m \in exposed'[c]
        BY <1>2, <2>2, <2>4
      <3>2. CASE c = run[r].conv
        BY <3>1, <3>2
      <3>3. CASE c # run[r].conv
        BY <3>1, <3>3
      <3>4. QED
        BY <3>2, <3>3
    <2> HIDE DEF c
    <2>6. added'[c] \ (run[q].old \cup UNION Range(run[q].recent)) \subseteq exposed'[c]
      BY <2>3, <2>5
    <2>7. QED
      BY <2>1, <2>6 DEF c
  <1>5. StoreWithinCap'
    BY <1>2 DEF IInv, StoreWithinCap, Stored
  <1>6. QED
    BY <1>3, <1>4, <1>5

\* Nothing is appended, no list changes, and no run begins a compression.
LEMMA MemoryKeeps ==
  ASSUME IInv, added' = added, exposed' = exposed, list' = list,
         \A q \in Requests : run'[q].pc = "compressing" => run'[q] = run[q]
  PROVE  ForgottenOnlyIfExposed' /\ CopiesCover'
  <1>1. ForgottenOnlyIfExposed'
    BY DEF IInv, ForgottenOnlyIfExposed, Remembered
  <1>2. CopiesCover'
    <2> SUFFICES ASSUME NEW q \in Requests, run'[q].pc = "compressing"
                 PROVE  added[run'[q].conv] \ (run'[q].old \cup UNION Range(run'[q].recent))
                          \subseteq exposed[run'[q].conv]
      BY DEF CopiesCover
    <2>1. run'[q] = run[q]
      OBVIOUS
    <2>2. QED
      BY <2>1 DEF IInv, CopiesCover
  <1>3. QED
    BY <1>1, <1>2

-----------------------------------------------------------------------------
(* Calls and their results.                                                 *)

LEMMA CallsMeans ==
  CallsGiven <=>
    \A c \in Conversations : \A call \in added[c] : call.kind = "call" =>
      \A k \in 1 .. call.left : Answered(c, call, k) \/ Awaited(c, call, k)
  BY DEF CallsGiven

LEMMA CallsMeansNext ==
  CallsGiven' <=>
    \A c \in Conversations : \A call \in added'[c] : call.kind = "call" =>
      \A k \in 1 .. call.left : Answered(c, call, k)' \/ Awaited(c, call, k)'
  BY DEF CallsGiven

\* A run that is not executing tools makes no call by what it does, nor does it
\* owe a result.
LEMMA CallsKept ==
  ASSUME Shape, CallsGiven, NEW r \in Requests, run[r].pc # "tools",
         NEW x, \A q \in Requests : run'[q] = IF q = r THEN x ELSE run[q],
         \A c \in Conversations : /\ added[c] \subseteq added'[c]
                                  /\ \A m \in added'[c] \ added[c] : m.kind # "call"
  PROVE  CallsGiven'
  <1> SUFFICES ASSUME NEW c \in Conversations, NEW call \in added'[c], call.kind = "call",
                      NEW k \in 1 .. call.left
               PROVE  Answered(c, call, k)' \/ Awaited(c, call, k)'
    BY CallsMeansNext
  <1>1. call \in added[c]
    OBVIOUS
  <1>2. call.of \in Requests
    BY <1>1 DEF Shape, TypeOK, Messages
  <1>3. Answered(c, call, k) \/ Awaited(c, call, k)
    BY <1>1, CallsMeans
  <1>4. CASE Answered(c, call, k)
    BY <1>4 DEF Answered
  <1>5. CASE Awaited(c, call, k)
    <2>1. run'[call.of] = run[call.of]
      BY <1>2, <1>5 DEF Awaited
    <2>2. QED
      BY <1>5, <2>1 DEF Awaited
  <1>6. QED
    BY <1>3, <1>4, <1>5

-----------------------------------------------------------------------------
(* Steps of a run.                                                          *)

\* A step that appends a message other than a call, by a run whose tools are not
\* running.
LEMMA SpeakStep ==
  ASSUME IInv, NEW r \in Requests, run[r].pc \notin {"idle", "tools"},
         NEW m \in Messages, m.kind # "call", Say(r, m),
         NEW x, Fits(x, r, asked), x.pc # "compressing", run' = [run EXCEPT ![r] = x]
  PROVE  IInv'
  <1>1. Shape /\ CallsGiven
    BY DEF IInv
  <1>2. /\ store' = store /\ asked' = asked
        /\ since' \in [Ids -> SUBSET Ids]
        /\ list' \in [Conversations -> Seq(SUBSET Messages)]
        /\ added' \in [Conversations -> SUBSET Messages]
        /\ exposed' \in [Conversations -> SUBSET Messages]
        /\ \A c \in Conversations :
             added'[c] = IF c = run[r].conv THEN added[c] \cup {m} ELSE added[c]
    BY <1>1, SayFacts
  <1>3. asked \in Nat /\ asked <= asked
    BY <1>1 DEF Shape, TypeOK
  <1>4. /\ run' \in [Requests -> RunType]
        /\ \A q \in Requests : run'[q] = IF q = r THEN x ELSE run[q]
        /\ \A q \in Requests : Fits(run'[q], q, asked')
    BY <1>1, <1>2, <1>3, RunEdit
  <1>5. Shape'
    BY <1>1, <1>2, <1>4 DEF Shape, TypeOK, RunType
  <1>6. ForgottenOnlyIfExposed' /\ CopiesCover' /\ StoreWithinCap'
    BY <1>4, SayKeeps
  <1>7. \A c \in Conversations : /\ added[c] \subseteq added'[c]
                                 /\ \A n \in added'[c] \ added[c] : n.kind # "call"
    BY <1>2
  <1>8. CallsGiven'
    BY <1>1, <1>4, <1>7, CallsKept
  <1>9. QED
    BY <1>5, <1>6, <1>8 DEF IInv

LEMMA AddUserStep ==
  ASSUME IInv, NEW r \in Requests, AddUser(r)
  PROVE  IInv'
  <1> DEFINE x == [run[r] EXCEPT !.pc = "added"]
  <1>1. /\ run[r].pc = "found" /\ Say(r, Message(r, "user"))
        /\ run' = [run EXCEPT ![r] = x]
    BY DEF AddUser, Go
  <1>2. Shape /\ Fits(run[r], r, asked) /\ run[r] \in RunType
    BY RunFacts DEF IInv
  <1>3. Fits(x, r, asked) /\ x.pc # "compressing"
    BY <1>1, <1>2 DEF Fits, RunType
  <1>4. Message(r, "user") \in Messages /\ Message(r, "user").kind # "call"
    BY <1>2, MessageType DEF Message
  <1>5. QED
    BY <1>1, <1>3, <1>4, SpeakStep

\* The final answers.
LEMMA AnswerStep ==
  ASSUME IInv, NEW r \in Requests, Answer(r) \/ GiveUp(r)
  PROVE  IInv'
  <1>1. /\ run[r].pc \in {"asking", "exhausted"} /\ Say(r, Message(r, "answer"))
        /\ run' = [run EXCEPT ![r] = Idle]
    BY DEF Answer, GiveUp, Return
  <1>2. Shape
    BY DEF IInv
  <1>3. Message(r, "answer") \in Messages /\ Message(r, "answer").kind # "call"
    BY <1>2, MessageType DEF Message
  <1>4. Fits(Idle, r, asked) /\ Idle.pc # "compressing"
    BY IdleFits
  <1>5. QED
    BY <1>1, <1>3, <1>4, SpeakStep

LEMMA CallToolsStep ==
  ASSUME IInv, NEW r \in Requests, NEW n \in 1 .. MaxCalls, CallTools(r, n)
  PROVE  IInv'
  <1> DEFINE x == [run[r] EXCEPT !.pc = "tools", !.left = n]
             m == [Message(r, "call") EXCEPT !.left = n]
  <1>1. run[r].pc = "asking" /\ Say(r, m) /\ run' = [run EXCEPT ![r] = x]
    BY DEF CallTools
  <1>2. Shape /\ CallsGiven
    BY DEF IInv
  <1>3. Fits(run[r], r, asked) /\ run[r] \in RunType /\ asked \in Nat /\ asked <= asked
    BY <1>2, RunFacts DEF Shape, TypeOK
  <1>4. /\ Fits(x, r, asked) /\ x.pc = "tools" /\ x.left = n
        /\ x.step = run[r].step /\ x.conv = run[r].conv
    <2>1. n \in 0 .. MaxCalls /\ n > 0
      BY Bounds
    <2>2. /\ x \in RunType /\ x.pc = "tools" /\ x.left = n
          /\ x.step = run[r].step /\ x.conv = run[r].conv /\ x.id = run[r].id
      BY <1>3, <2>1 DEF RunType
    <2>3. /\ run[r].id \in Ids /\ run[r].conv \in Conversations /\ r <= asked
          /\ run[r].step < MaxSteps
      BY <1>1, <1>3 DEF Fits
    <2> HIDE DEF x
    <2>4. QED
      BY <2>1, <2>2, <2>3 DEF Fits
  <1>5. /\ m \in Messages /\ m.of = r /\ m.kind = "call" /\ m.left = n /\ m.step = run[r].step
    BY <1>2, MessageType DEF Message
  <1> HIDE DEF x, m
  <1>6. /\ store' = store /\ asked' = asked
        /\ since' \in [Ids -> SUBSET Ids]
        /\ list' \in [Conversations -> Seq(SUBSET Messages)]
        /\ added' \in [Conversations -> SUBSET Messages]
        /\ exposed' \in [Conversations -> SUBSET Messages]
        /\ \A c \in Conversations :
             added'[c] = IF c = run[r].conv THEN added[c] \cup {m} ELSE added[c]
    BY <1>1, <1>2, <1>5, SayFacts
  <1>7. /\ run' \in [Requests -> RunType]
        /\ \A q \in Requests : run'[q] = IF q = r THEN x ELSE run[q]
        /\ \A q \in Requests : Fits(run'[q], q, asked')
    BY <1>1, <1>2, <1>3, <1>4, <1>6, RunEdit
  <1>8. Shape'
    BY <1>2, <1>6, <1>7 DEF Shape, TypeOK, RunType
  <1>9. ForgottenOnlyIfExposed' /\ CopiesCover' /\ StoreWithinCap'
    BY <1>1, <1>4, <1>5, <1>7, SayKeeps
  <1>10. CallsGiven'
    <2> SUFFICES ASSUME NEW c \in Conversations, NEW call \in added'[c], call.kind = "call",
                        NEW k \in 1 .. call.left
                 PROVE  Answered(c, call, k)' \/ Awaited(c, call, k)'
      BY CallsMeansNext
    <2>1. CASE call \in added[c]
      <3>1. Answered(c, call, k) \/ Awaited(c, call, k)
        BY <1>2, <2>1, CallsMeans
      <3>2. CASE Answered(c, call, k)
        BY <1>6, <3>2 DEF Answered
      <3>3. CASE Awaited(c, call, k)
        <4>1. call.of \in Requests
          BY <1>2, <2>1 DEF Shape, TypeOK, Messages
        <4>2. run'[call.of] = run[call.of]
          BY <1>1, <1>7, <3>3, <4>1 DEF Awaited
        <4>3. QED
          BY <3>3, <4>2 DEF Awaited
      <3>4. QED
        BY <3>1, <3>2, <3>3
    <2>2. CASE call \notin added[c]
      <3>1. c = run[r].conv /\ call = m
        BY <1>6, <2>2
      <3>2. run'[call.of] = x /\ k <= n
        BY <1>5, <1>7, <3>1, Bounds
      <3>3. QED
        BY <1>4, <1>5, <3>1, <3>2 DEF Awaited
    <2>3. QED
      BY <2>1, <2>2
  <1>11. QED
    BY <1>8, <1>9, <1>10 DEF IInv

LEMMA ResultOf ==
  ASSUME NEW call \in Messages, NEW k \in 0 .. MaxCalls
  PROVE  [call EXCEPT !.kind = "result", !.left = k]
           = [of |-> call.of, kind |-> "result", step |-> call.step, left |-> k]
  <1> DEFINE m == [call EXCEPT !.kind = "result", !.left = k]
  <1>1. m \in Messages /\ m.of = call.of /\ m.kind = "result" /\ m.step = call.step /\ m.left = k
    BY DEF Messages
  <1> HIDE DEF m
  <1>2. m = [of |-> m.of, kind |-> m.kind, step |-> m.step, left |-> m.left]
    BY <1>1 DEF Messages
  <1>3. m = [of |-> call.of, kind |-> "result", step |-> call.step, left |-> k]
    BY <1>1, <1>2
  <1>4. QED
    BY <1>3 DEF m

LEMMA ToolResultStep ==
  ASSUME IInv, NEW r \in Requests, ToolResult(r)
  PROVE  IInv'
  <1> DEFINE last == run[r].left = 1
             steps == run[r].step + 1
             pc == IF ~ last THEN "tools" ELSE IF steps < MaxSteps THEN "asking" ELSE "exhausted"
             x == [run[r] EXCEPT !.left = @ - 1, !.step = IF last THEN steps ELSE @, !.pc = pc]
             m == Message(r, "result")
  <1>1. run[r].pc = "tools" /\ Say(r, m) /\ run' = [run EXCEPT ![r] = x]
    BY DEF ToolResult
  <1>2. Shape /\ CallsGiven
    BY DEF IInv
  <1>3. /\ Fits(run[r], r, asked) /\ run[r] \in RunType /\ asked \in Nat /\ asked <= asked
        /\ run[r].step \in 0 .. MaxSteps /\ run[r].left \in 0 .. MaxCalls
    BY <1>2, RunFacts DEF Shape, TypeOK
  <1>4. /\ run[r].id \in Ids /\ run[r].conv \in Conversations /\ r <= asked
        /\ run[r].step < MaxSteps /\ run[r].left > 0
    BY <1>1, <1>3 DEF Fits
  <1>5. /\ run[r].left - 1 \in 0 .. MaxCalls /\ steps \in 0 .. MaxSteps
        /\ ~ last => run[r].left - 1 > 0
    BY <1>3, <1>4, Bounds
  <1>6. /\ x \in RunType /\ x.pc = pc /\ x.left = run[r].left - 1
        /\ x.step = (IF last THEN steps ELSE run[r].step)
        /\ x.conv = run[r].conv /\ x.id = run[r].id
    BY <1>3, <1>5 DEF RunType
  <1>7. Fits(x, r, asked) /\ x.pc # "compressing"
    <2>1. pc \in {"tools", "asking", "exhausted"}
      OBVIOUS
    <2>2. pc = "tools" => ~ last
      OBVIOUS
    <2>3. pc \in {"tools", "asking"} => (IF last THEN steps ELSE run[r].step) < MaxSteps
      BY <1>4
    <2> HIDE DEF x, pc, last, steps
    <2>4. QED
      BY <1>4, <1>5, <1>6, <2>1, <2>2, <2>3 DEF Fits
  <1>8. /\ m \in Messages /\ m.kind = "result"
        /\ m = [of |-> r, kind |-> "result", step |-> run[r].step, left |-> run[r].left]
    BY <1>2, MessageType DEF Message
  <1> HIDE DEF x, m, pc
  <1>9. /\ store' = store /\ asked' = asked
        /\ since' \in [Ids -> SUBSET Ids]
        /\ list' \in [Conversations -> Seq(SUBSET Messages)]
        /\ added' \in [Conversations -> SUBSET Messages]
        /\ exposed' \in [Conversations -> SUBSET Messages]
        /\ \A c \in Conversations :
             added'[c] = IF c = run[r].conv THEN added[c] \cup {m} ELSE added[c]
    <2>1. run[r].pc # "idle" /\ m \in Messages
      BY <1>1, <1>8
    <2>2. QED
      BY <1>1, <1>2, <2>1, SayFacts
  <1>10. /\ run' \in [Requests -> RunType]
         /\ \A q \in Requests : run'[q] = IF q = r THEN x ELSE run[q]
         /\ \A q \in Requests : Fits(run'[q], q, asked')
    BY <1>1, <1>2, <1>3, <1>7, <1>9, RunEdit
  <1>11. Shape'
    BY <1>2, <1>9, <1>10 DEF Shape, TypeOK, RunType
  <1>12. ForgottenOnlyIfExposed' /\ CopiesCover' /\ StoreWithinCap'
    BY <1>1, <1>7, <1>8, <1>10, SayKeeps
  <1>13. CallsGiven'
    <2> SUFFICES ASSUME NEW c \in Conversations, NEW call \in added'[c], call.kind = "call",
                        NEW k \in 1 .. call.left
                 PROVE  Answered(c, call, k)' \/ Awaited(c, call, k)'
      BY CallsMeansNext
    <2>1. call \in added[c]
      BY <1>8, <1>9
    <2>2. /\ call \in Messages /\ call.of \in Requests /\ call.left \in 0 .. MaxCalls
      BY <1>2, <2>1 DEF Shape, TypeOK, Messages
    <2>3. Answered(c, call, k) \/ Awaited(c, call, k)
      BY <1>2, <2>1, CallsMeans
    <2>4. CASE Answered(c, call, k)
      BY <1>9, <2>4 DEF Answered
    <2>5. CASE Awaited(c, call, k) /\ call.of # r
      <3>1. run'[call.of] = run[call.of]
        BY <1>10, <2>2, <2>5
      <3>2. QED
        BY <2>5, <3>1 DEF Awaited
    <2>6. CASE Awaited(c, call, k) /\ call.of = r
      <3>1. /\ run[r].conv = c /\ run[r].step = call.step /\ k <= run[r].left
            /\ k \in Nat /\ run[r].left \in Nat
        BY <1>3, <2>2, <2>6, Bounds DEF Awaited
      <3>2. CASE k = run[r].left
        <4>1. [call EXCEPT !.kind = "result", !.left = k] = m
          <5>1. [call EXCEPT !.kind = "result", !.left = k]
                  = [of |-> call.of, kind |-> "result", step |-> call.step, left |-> k]
            BY <1>3, <2>2, <3>2, ResultOf
          <5>2. QED
            BY <1>8, <2>6, <3>1, <3>2, <5>1
        <4>2. m \in added'[c]
          BY <1>9, <3>1
        <4>3. QED
          BY <4>1, <4>2 DEF Answered
      <3>3. CASE k # run[r].left
        <4>1. k <= run[r].left - 1 /\ ~ last
          BY <3>1, <3>3, <2>2
        <4>2. run'[call.of] = x /\ x.pc = "tools" /\ x.step = run[r].step
          BY <1>6, <1>10, <2>6, <4>1 DEF pc
        <4>3. QED
          BY <1>6, <2>6, <3>1, <4>1, <4>2 DEF Awaited
      <3>4. QED
        BY <3>2, <3>3
    <2>7. QED
      BY <2>3, <2>4, <2>5, <2>6
  <1>14. QED
    BY <1>11, <1>12, <1>13 DEF IInv

\* A step in which a run says nothing and begins no compression.
LEMMA QuietStep ==
  ASSUME IInv, NEW r \in Requests, run[r].pc # "tools",
         NEW x, Fits(x, r, asked), x.pc # "compressing", run' = [run EXCEPT ![r] = x],
         UNCHANGED <<store, since, list, asked, added, exposed>>
  PROVE  IInv'
  <1>1. Shape /\ CallsGiven
    BY DEF IInv
  <1>2. asked \in Nat /\ asked <= asked /\ asked' = asked
    BY <1>1 DEF Shape, TypeOK
  <1>3. /\ run' \in [Requests -> RunType]
        /\ \A q \in Requests : run'[q] = IF q = r THEN x ELSE run[q]
        /\ \A q \in Requests : Fits(run'[q], q, asked')
    BY <1>1, <1>2, RunEdit
  <1>4. Shape'
    BY <1>1, <1>3 DEF Shape, TypeOK, RunType
  <1>5. ForgottenOnlyIfExposed' /\ CopiesCover'
    <2>1. \A q \in Requests : run'[q].pc = "compressing" => run'[q] = run[q]
      BY <1>3
    <2>2. QED
      BY <2>1, MemoryKeeps
  <1>6. CallsGiven'
    BY <1>1, <1>3, CallsKept
  <1>7. StoreWithinCap'
    BY DEF IInv, StoreWithinCap, Stored
  <1>8. QED
    BY <1>4, <1>5, <1>6, <1>7 DEF IInv

LEMMA CallFailsStep ==
  ASSUME IInv, NEW r \in Requests, CallFails(r)
  PROVE  IInv'
  <1>1. /\ run[r].pc = "asking" /\ run' = [run EXCEPT ![r] = Idle]
        /\ UNCHANGED <<store, since, list, asked, added, exposed>>
    BY DEF CallFails, Return
  <1>2. QED
    BY <1>1, IdleFits, QuietStep

\* What a run is after its compression, done or not.
LEMMA AskingFits ==
  ASSUME Shape, NEW r \in Requests, run[r].pc \in {"added", "compressing"}
  PROVE  /\ Fits([run[r] EXCEPT !.pc = "asking", !.old = {}, !.recent = <<>>], r, asked)
         /\ [run[r] EXCEPT !.pc = "asking", !.old = {}, !.recent = <<>>].pc = "asking"
  <1> DEFINE x == [run[r] EXCEPT !.pc = "asking", !.old = {}, !.recent = <<>>]
  <1>1. Fits(run[r], r, asked) /\ run[r] \in RunType
    BY RunFacts
  <1>2. <<>> \in Seq(SUBSET Messages) /\ {} \in SUBSET Messages
    OBVIOUS
  <1>3. /\ x \in RunType /\ x.pc = "asking" /\ x.id = run[r].id /\ x.conv = run[r].conv
        /\ x.step = run[r].step
    BY <1>1, <1>2 DEF RunType
  <1>4. QED
    BY <1>1, <1>3 DEF Fits

LEMMA GoOnStep ==
  ASSUME IInv, NEW r \in Requests, GoOn(r)
  PROVE  IInv'
  <1> DEFINE x == [run[r] EXCEPT !.pc = "asking", !.old = {}, !.recent = <<>>]
  <1>1. /\ run[r].pc \in {"added", "compressing"} /\ run' = [run EXCEPT ![r] = x]
        /\ UNCHANGED <<store, since, list, asked, added, exposed>>
    BY DEF GoOn
  <1>2. Fits(x, r, asked) /\ x.pc = "asking"
    BY <1>1, AskingFits DEF IInv
  <1> HIDE DEF x
  <1>3. QED
    BY <1>1, <1>2, QuietStep

\* The copy a compression takes stands for what the list stands for.
LEMMA StartCompressStep ==
  ASSUME IInv, NEW r \in Requests, StartCompress(r)
  PROVE  IInv'
  <1> DEFINE c == run[r].conv
             current == list[c]
             cut == Len(current) - KeepRecent
             old == UNION Range(SubSeq(current, 1, cut))
             recent == SubSeq(current, cut + 1, Len(current))
             x == [run[r] EXCEPT !.pc = "compressing", !.old = old, !.recent = recent]
  <1>1. /\ run[r].pc = "added" /\ Len(current) > KeepRecent
        /\ run' = [run EXCEPT ![r] = x]
        /\ UNCHANGED <<store, since, list, asked, added, exposed>>
    BY DEF StartCompress
  <1>2. Shape /\ CallsGiven
    BY DEF IInv
  <1>3. /\ Fits(run[r], r, asked) /\ run[r] \in RunType
        /\ run[r].id \in Ids /\ c \in Conversations
    BY <1>1, <1>2, RunFacts DEF Fits
  <1>4. current \in Seq(SUBSET Messages)
    BY <1>2, <1>3 DEF Shape, TypeOK
  <1>5. cut \in 0 .. Len(current)
    <2>1. Len(current) \in Nat
      BY <1>4, LenProperties
    <2>2. KeepRecent \in Nat
      BY Bounds
    <2> HIDE DEF current
    <2>3. QED
      BY <1>1, <2>1, <2>2
  <1> HIDE DEF cut, current
  <1>6. /\ SubSeq(current, 1, cut) \in Seq(SUBSET Messages)
        /\ recent \in Seq(SUBSET Messages)
        /\ Range(current) = Range(SubSeq(current, 1, cut)) \cup Range(recent)
    BY <1>4, <1>5, RangeCut
  <1> HIDE DEF recent
  <1>7. /\ old \in SUBSET Messages
        /\ UNION Range(current) = old \cup UNION Range(recent)
    <2>1. \A y : y \in Range(SubSeq(current, 1, cut)) => y \in SUBSET Messages
      BY <1>6, LenProperties DEF Range
    <2>2. \A z : z \in UNION Range(current) <=> z \in old \cup UNION Range(recent)
      BY <1>6
    <2>3. QED
      BY <2>1, <2>2
  <1> HIDE DEF old
  <1>8. /\ x \in RunType /\ x.pc = "compressing" /\ x.id = run[r].id /\ x.conv = c
        /\ x.step = run[r].step /\ x.old = old /\ x.recent = recent
    BY <1>3, <1>6, <1>7 DEF RunType
  <1> HIDE DEF x
  <1>9. Fits(x, r, asked) /\ asked \in Nat /\ asked <= asked /\ asked' = asked
    BY <1>1, <1>2, <1>3, <1>8 DEF Fits, Shape, TypeOK
  <1>10. /\ run' \in [Requests -> RunType]
         /\ \A q \in Requests : run'[q] = IF q = r THEN x ELSE run[q]
         /\ \A q \in Requests : Fits(run'[q], q, asked')
    BY <1>1, <1>2, <1>9, RunEdit
  <1>11. Shape'
    BY <1>1, <1>2, <1>10 DEF Shape, TypeOK, RunType
  <1>12. ForgottenOnlyIfExposed'
    BY <1>1 DEF IInv, ForgottenOnlyIfExposed, Remembered
  <1>13. CopiesCover'
    <2> SUFFICES ASSUME NEW q \in Requests, run'[q].pc = "compressing"
                 PROVE  added[run'[q].conv] \ (run'[q].old \cup UNION Range(run'[q].recent))
                          \subseteq exposed[run'[q].conv]
      BY <1>1 DEF CopiesCover
    <2>1. CASE q = r
      <3>1. added[c] \ UNION Range(current) \subseteq exposed[c]
        BY <1>3 DEF IInv, ForgottenOnlyIfExposed, Remembered, current
      <3>2. added[c] \ (old \cup UNION Range(recent)) \subseteq exposed[c]
        BY <1>7, <3>1
      <3>3. run'[q].conv = c /\ run'[q].old = old /\ run'[q].recent = recent
        BY <1>8, <1>10, <2>1
      <3>4. QED
        BY <3>2, <3>3
    <2>2. CASE q # r
      <3>1. run'[q] = run[q]
        BY <1>10, <2>2
      <3>2. QED
        BY <3>1 DEF IInv, CopiesCover
    <2>3. QED
      BY <2>1, <2>2
  <1>14. CallsGiven'
    <2>1. run[r].pc # "tools"
      BY <1>1
    <2>2. QED
      BY <1>1, <1>2, <1>10, <2>1, CallsKept
  <1>15. StoreWithinCap'
    BY <1>1 DEF IInv, StoreWithinCap, Stored
  <1>16. QED
    BY <1>11, <1>12, <1>13, <1>14, <1>15 DEF IInv

\* The summary and the kept slice stand for all but what is exposed.
LEMMA FinishCompressStep ==
  ASSUME IInv, NEW r \in Requests, FinishCompress(r)
  PROVE  IInv'
  <1> DEFINE c == run[r].conv
             x == [run[r] EXCEPT !.pc = "asking", !.old = {}, !.recent = <<>>]
             rebuilt == <<run[r].old>> \o run[r].recent
  <1>1. /\ run[r].pc = "compressing" /\ run' = [run EXCEPT ![r] = x]
        /\ list' = [list EXCEPT ![c] = rebuilt] /\ Touch(r)
        /\ UNCHANGED <<store, asked, added, exposed>>
    BY DEF FinishCompress
  <1>2. Shape /\ CallsGiven
    BY DEF IInv
  <1>3. /\ run[r].id \in Ids /\ c \in Conversations
        /\ run[r].old \in SUBSET Messages /\ run[r].recent \in Seq(SUBSET Messages)
    BY <1>1, <1>2, RunFacts DEF Fits
  <1>4. /\ rebuilt \in Seq(SUBSET Messages)
        /\ UNION Range(rebuilt) = run[r].old \cup UNION Range(run[r].recent)
    BY <1>3, RangeRebuilt
  <1>5. Fits(x, r, asked) /\ x.pc = "asking"
    BY <1>1, <1>2, AskingFits
  <1> HIDE DEF x, rebuilt
  <1>6. asked \in Nat /\ asked <= asked /\ asked' = asked
    BY <1>1, <1>2 DEF Shape, TypeOK
  <1>7. /\ run' \in [Requests -> RunType]
        /\ \A q \in Requests : run'[q] = IF q = r THEN x ELSE run[q]
        /\ \A q \in Requests : Fits(run'[q], q, asked')
    BY <1>1, <1>2, <1>5, <1>6, RunEdit
  <1>8. /\ list' \in [Conversations -> Seq(SUBSET Messages)]
        /\ \A d \in Conversations : list'[d] = IF d = c THEN rebuilt ELSE list[d]
    BY <1>1, <1>2, <1>4 DEF Shape, TypeOK
  <1>9. since' \in [Ids -> SUBSET Ids]
    BY <1>1, <1>2, <1>3 DEF Touch, Shape, TypeOK
  <1>10. Shape'
    BY <1>1, <1>2, <1>7, <1>8, <1>9 DEF Shape, TypeOK, RunType
  <1>11. ForgottenOnlyIfExposed'
    <2> SUFFICES ASSUME NEW d \in Conversations
                 PROVE  added[d] \ UNION Range(list'[d]) \subseteq exposed[d]
      BY <1>1 DEF ForgottenOnlyIfExposed, Remembered
    <2>1. CASE d = c
      <3>1. added[c] \ (run[r].old \cup UNION Range(run[r].recent)) \subseteq exposed[c]
        BY <1>1 DEF IInv, CopiesCover
      <3>2. added[c] \ UNION Range(rebuilt) \subseteq exposed[c]
        BY <1>4, <3>1
      <3>3. QED
        BY <1>8, <2>1, <3>2
    <2>2. CASE d # c
      BY <1>8, <2>2 DEF IInv, ForgottenOnlyIfExposed, Remembered
    <2>3. QED
      BY <2>1, <2>2
  <1>12. CopiesCover'
    <2> SUFFICES ASSUME NEW q \in Requests, run'[q].pc = "compressing"
                 PROVE  added[run'[q].conv] \ (run'[q].old \cup UNION Range(run'[q].recent))
                          \subseteq exposed[run'[q].conv]
      BY <1>1 DEF CopiesCover
    <2>1. run'[q] = run[q]
      BY <1>5, <1>7
    <2>2. QED
      BY <2>1 DEF IInv, CopiesCover
  <1>13. CallsGiven'
    <2>1. run[r].pc # "tools"
      BY <1>1
    <2>2. QED
      BY <1>1, <1>2, <1>7, <2>1, CallsKept
  <1>14. StoreWithinCap'
    BY <1>1 DEF IInv, StoreWithinCap, Stored
  <1>15. QED
    BY <1>10, <1>11, <1>12, <1>13, <1>14 DEF IInv

-----------------------------------------------------------------------------
(* The store.                                                               *)

\* A request that is let in.
LEMMA EnterKeeps ==
  ASSUME IInv, NEW r \in Requests, NEW i \in Ids, NEW c \in Conversations, Enter(r, i, c)
  PROVE  /\ run' \in [Requests -> RunType] /\ asked' \in 0 .. MaxRequests
         /\ \A q \in Requests : Fits(run'[q], q, asked')
         /\ list' = list /\ added' = added /\ exposed' = exposed
         /\ ForgottenOnlyIfExposed' /\ CopiesCover' /\ CallsGiven'
  <1> DEFINE x == [Idle EXCEPT !.pc = "found", !.id = i, !.conv = c]
  <1>1. /\ r = asked + 1 /\ asked' = r /\ run' = [run EXCEPT ![r] = x]
        /\ list' = list /\ added' = added /\ exposed' = exposed
    BY DEF Enter
  <1>2. Shape /\ CallsGiven /\ asked \in 0 .. MaxRequests
    BY DEF IInv, Shape, TypeOK
  <1>3. asked' \in Nat /\ asked <= asked' /\ asked' \in 0 .. MaxRequests /\ ~ (r <= asked)
    BY <1>1, <1>2, Bounds DEF Requests
  <1>4. /\ x \in RunType /\ x.pc = "found" /\ x.id = i /\ x.conv = c /\ x.step = 0
    <2>1. Idle \in RunType /\ Idle.step = 0
      BY IdleFits DEF Fits, Idle
    <2>2. QED
      BY <2>1 DEF RunType
  <1> HIDE DEF x
  <1>5. Fits(x, r, asked')
    <2>1. 0 < MaxSteps /\ r <= asked'
      BY <1>1, <1>3, Bounds
    <2>2. QED
      BY <1>4, <2>1 DEF Fits
  <1>6. /\ run' \in [Requests -> RunType]
        /\ \A q \in Requests : run'[q] = IF q = r THEN x ELSE run[q]
        /\ \A q \in Requests : Fits(run'[q], q, asked')
    BY <1>1, <1>2, <1>3, <1>5, RunEdit
  <1>7. run[r].pc = "idle"
    BY <1>2, <1>3 DEF Shape, Fits
  <1>8. CallsGiven'
    BY <1>1, <1>2, <1>6, <1>7, CallsKept
  <1>9. ForgottenOnlyIfExposed' /\ CopiesCover'
    <2>1. \A q \in Requests : run'[q].pc = "compressing" => run'[q] = run[q]
      BY <1>4, <1>6
    <2>2. QED
      BY <1>1, <2>1, MemoryKeeps
  <1>10. QED
    BY <1>1, <1>3, <1>6, <1>8, <1>9

LEMMA FindStep ==
  ASSUME IInv, NEW r \in Requests, NEW i \in Ids, Find(r, i)
  PROVE  IInv'
  <1>1. Enter(r, i, store[i]) /\ i \in Stored /\ store' = store /\ since' = since
    BY DEF Find
  <1>2. store[i] \in Conversations
    BY <1>1 DEF IInv, Shape, TypeOK, Stored
  <1>3. /\ run' \in [Requests -> RunType] /\ asked' \in 0 .. MaxRequests
        /\ \A q \in Requests : Fits(run'[q], q, asked')
        /\ list' = list /\ added' = added /\ exposed' = exposed
        /\ ForgottenOnlyIfExposed' /\ CopiesCover' /\ CallsGiven'
    BY <1>1, <1>2, EnterKeeps
  <1>4. Shape'
    BY <1>1, <1>3 DEF IInv, Shape, TypeOK, RunType
  <1>5. StoreWithinCap'
    BY <1>1 DEF IInv, StoreWithinCap, Stored
  <1>6. QED
    BY <1>3, <1>4, <1>5 DEF IInv

\* The store takes one in and, at the cap, lets one go.
LEMMA CreateStep ==
  ASSUME IInv, NEW r \in Requests, NEW i \in Ids, Create(r, i)
  PROVE  IInv'
  <1>1. PICK gone \in Evicted :
          /\ store' = [j \in Ids |-> IF j = i THEN r ELSE IF j \in gone THEN None ELSE store[j]]
          /\ since' = [j \in Ids |-> IF j \in Stored \ gone THEN (since[j] \ gone) \cup {i} ELSE {}]
    BY DEF Create
  <1>2. Enter(r, i, r) /\ r \in Conversations /\ i \notin Stored
    BY DEF Create, Conversations
  <1>3. /\ run' \in [Requests -> RunType] /\ asked' \in 0 .. MaxRequests
        /\ \A q \in Requests : Fits(run'[q], q, asked')
        /\ list' = list /\ added' = added /\ exposed' = exposed
        /\ ForgottenOnlyIfExposed' /\ CopiesCover' /\ CallsGiven'
    BY <1>2, EnterKeeps
  <1>4. /\ store' \in [Ids -> Conversations \cup {None}] /\ since' \in [Ids -> SUBSET Ids]
    BY <1>1, <1>2 DEF IInv, Shape, TypeOK
  <1>5. Shape'
    BY <1>3, <1>4 DEF IInv, Shape, TypeOK, RunType
  <1>6. r # None
    BY <1>2, Bounds
  <1>7. Stored' = (Stored \ gone) \cup {i}
    BY <1>1, <1>6 DEF Stored
  <1>8. IsFiniteSet(Stored) /\ Cardinality(Stored) \in Nat
    <2>1. Stored \subseteq Ids
      BY DEF Stored
    <2>2. QED
      BY <2>1, Bounds, FS_Subset, FS_CardinalityType
  <1>9. Cardinality(Stored') <= MaxConversations
    <2>1. CASE Cardinality(Stored) >= MaxConversations
      <3>1. PICK o \in Oldest : gone = {o}
        BY <1>1, <2>1 DEF Evicted
      <3>2. o \in Stored
        BY DEF Oldest
      <3>3. IsFiniteSet(Stored \ {o}) /\ Cardinality(Stored \ {o}) = Cardinality(Stored) - 1
        BY <1>8, <3>2, FS_RemoveElement
      <3>4. i \notin Stored \ {o}
        BY <1>2
      <3>5. Cardinality((Stored \ {o}) \cup {i}) = Cardinality(Stored \ {o}) + 1
        BY <3>3, <3>4, FS_AddElement
      <3>6. QED
        BY <1>7, <1>8, <3>1, <3>3, <3>5, Bounds DEF IInv, StoreWithinCap
    <2>2. CASE ~ (Cardinality(Stored) >= MaxConversations)
      <3>1. gone = {}
        BY <1>1, <2>2 DEF Evicted
      <3>2. Stored' = Stored \cup {i}
        BY <1>7, <3>1
      <3>3. Cardinality(Stored \cup {i}) = Cardinality(Stored) + 1
        BY <1>2, <1>8, FS_AddElement
      <3>4. QED
        BY <1>8, <2>2, <3>2, <3>3, Bounds
    <2>3. QED
      BY <2>1, <2>2
  <1>10. QED
    BY <1>3, <1>5, <1>9 DEF IInv, StoreWithinCap

LEMMA DropStep ==
  ASSUME IInv, NEW gone \in SUBSET Ids, Drop(gone), UNCHANGED <<list, run, asked, added, exposed>>
  PROVE  IInv'
  <1>1. /\ store' = [i \in Ids |-> IF i \in gone THEN None ELSE store[i]]
        /\ since' = [i \in Ids |-> IF i \in gone THEN {} ELSE since[i] \ gone]
    BY DEF Drop
  <1>2. /\ store' \in [Ids -> Conversations \cup {None}] /\ since' \in [Ids -> SUBSET Ids]
    BY <1>1 DEF IInv, Shape, TypeOK
  <1>3. Shape'
    BY <1>2 DEF IInv, Shape, TypeOK, RunType
  <1>4. Stored' \subseteq Stored /\ Stored \subseteq Ids
    BY <1>1 DEF Stored
  <1>5. StoreWithinCap'
    <2>1. IsFiniteSet(Stored) /\ IsFiniteSet(Stored')
      BY <1>4, Bounds, FS_Subset
    <2>2. Cardinality(Stored') <= Cardinality(Stored)
      BY <1>4, <2>1, FS_Subset
    <2>3. Cardinality(Stored') \in Nat /\ Cardinality(Stored) \in Nat
      BY <2>1, FS_CardinalityType
    <2>4. QED
      BY <2>2, <2>3, Bounds DEF IInv, StoreWithinCap
  <1>6. ForgottenOnlyIfExposed' /\ CopiesCover'
    BY MemoryKeeps
  <1>7. CallsGiven'
    BY DEF IInv, CallsGiven, Answered, Awaited
  <1>8. QED
    BY <1>3, <1>5, <1>6, <1>7 DEF IInv

-----------------------------------------------------------------------------
(* The theorems.                                                            *)

LEMMA Start ==
  ASSUME Init
  PROVE  IInv
  <1>1. \A r \in Requests : run[r] = Idle
    BY DEF Init
  <1>2. \A r \in Requests : Fits(run[r], r, asked) /\ run[r].pc = "idle" /\ run[r] \in RunType
    BY <1>1, IdleFits DEF Fits
  <1>3. run \in [Requests -> RunType]
    BY <1>2 DEF Init
  <1>4. Shape
    <2>1. \A S : <<>> \in Seq(S)
      OBVIOUS
    <2>2. asked \in 0 .. MaxRequests
      BY Bounds DEF Init
    <2>3. QED
      BY <1>2, <1>3, <2>1, <2>2 DEF Init, Shape, TypeOK, RunType
  <1>5. CopiesCover
    BY <1>2 DEF CopiesCover
  <1>6. ForgottenOnlyIfExposed /\ CallsGiven
    BY DEF Init, ForgottenOnlyIfExposed, CallsGiven
  <1>7. StoreWithinCap
    <2>1. Stored = {}
      BY DEF Init, Stored
    <2>2. QED
      BY <2>1, FS_EmptySet, Bounds DEF StoreWithinCap
  <1>8. QED
    BY <1>4, <1>5, <1>6, <1>7 DEF IInv

LEMMA StepKeeps ==
  ASSUME IInv, [Next]_vars
  PROVE  IInv'
  <1>1. CASE \E r \in Requests : Step(r)
    BY <1>1, AddUserStep, GoOnStep, StartCompressStep, FinishCompressStep, AnswerStep,
       ToolResultStep, CallFailsStep, CallToolsStep, FindStep, CreateStep DEF Step
  <1>2. CASE \E i \in Ids : Delete(i)
    <2>1. PICK i \in Ids : Delete(i)
      BY <1>2
    <2>2. {i} \in SUBSET Ids /\ Drop({i}) /\ UNCHANGED <<list, run, asked, added, exposed>>
      BY <2>1 DEF Delete
    <2>3. QED
      BY <2>2, DropStep
  <1>3. CASE \E idle \in SUBSET Ids \ {{}} : EvictIdle(idle)
    BY <1>3, DropStep DEF EvictIdle
  <1>4. CASE UNCHANGED vars
    <2>1. UNCHANGED <<store, since, list, run, asked, added, exposed>>
      BY <1>4 DEF vars
    <2>2. Shape'
      BY <2>1 DEF IInv, Shape, TypeOK
    <2>3. ForgottenOnlyIfExposed' /\ CopiesCover'
      BY <2>1, MemoryKeeps
    <2>4. StoreWithinCap' /\ CallsGiven'
      BY <2>1 DEF IInv, StoreWithinCap, Stored, CallsGiven, Answered, Awaited
    <2>5. QED
      BY <2>2, <2>3, <2>4 DEF IInv
  <1>5. QED
    BY <1>1, <1>2, <1>3, <1>4 DEF Next

LEMMA Inductive == Spec => []IInv
  <1>1. Init => IInv
    BY Start
  <1>2. IInv /\ [Next]_vars => IInv'
    BY StepKeeps
  <1>3. QED
    BY <1>1, <1>2, PTL DEF Spec

\* The state of the engine keeps its types, its runs their step bound, for any
\* number of ids, requests, steps and tool calls.
THEOREM TypeCorrect == Spec => []TypeOK
  <1>1. IInv => TypeOK
    BY DEF IInv, Shape
  <1>2. QED
    BY Inductive, <1>1, PTL

\* Whatever number of runs compress one conversation (ConversationMemory.compress),
\* only what is appended while one of them awaits its summary can be forgotten.
THEOREM Forgotten == Spec => []ForgottenOnlyIfExposed
  <1>1. IInv => ForgottenOnlyIfExposed
    BY DEF IInv
  <1>2. QED
    BY Inductive, <1>1, PTL

\* The store of conversations keeps to its cap for any cap, any number of clients
\* and whatever deletions and idle evictions happen (evictOldestLocked, evictIdle).
THEOREM WithinCap == Spec => []StoreWithinCap
  <1>1. IInv => StoreWithinCap
    BY DEF IInv
  <1>2. QED
    BY Inductive, <1>1, PTL

\* A call that is in the list or in its summary has its results there, unless its
\* run is still at them or they were appended while a compression awaited its
\* summary: for any number of calls, steps, runs and compressions
\* (RunStreamWithRegistry, ConversationMemory.compress).
THEOREM CallsAnswered == Spec => []CallsGetResults
  <1>1. IInv => CallsGetResults
    <2> SUFFICES ASSUME IInv, NEW c \in Conversations,
                        NEW call \in {m \in added[c] : m.kind = "call" /\ m \in Remembered(c)},
                        NEW k \in 1 .. call.left
                 PROVE  \/ [call EXCEPT !.kind = "result", !.left = k] \in Remembered(c) \cup exposed[c]
                        \/ Awaited(c, call, k)
      BY DEF CallsGetResults, Awaited
    <2>1. Answered(c, call, k) \/ Awaited(c, call, k)
      BY DEF IInv, CallsGiven
    <2>2. added[c] \ Remembered(c) \subseteq exposed[c]
      BY DEF IInv, ForgottenOnlyIfExposed
    <2>3. QED
      BY <2>1, <2>2 DEF Answered
  <1>2. QED
    BY Inductive, <1>1, PTL
=============================================================================
