------------------------ MODULE ResponseCache_proofs ------------------------
(***************************************************************************)
(* How old the data that the dashboard serves can be: a proof about        *)
(* ResponseCache for any requests, keys and time limits.                    *)
(***************************************************************************)
EXTENDS ResponseCache, TLAPS

Age == 0 .. Horizon
Entry == [data : Age, set : Age]
JobOf(pcs) == [pc : pcs, key : Keys \cup {None}, data : Age, took : Nat]

\* Where the data of an entry, of a response being made, of a summary being built
\* and of the summary published can come from, by the time each has taken.
EntryInv == \A k \in Keys : entry[k] # None =>
  entry[k] \in Entry /\ entry[k].data <= entry[k].set + 2 * MaxWork
RequestInv == \A r \in Requests :
  /\ request[r] \in JobOf({"idle", "asked", "reading", "building"})
  /\ request[r].took <= MaxWork
  /\ request[r].pc \in {"asked", "reading"} => request[r].key \in Keys
  /\ request[r].pc = "reading" => request[r].data <= request[r].took
WarmInv == \A k \in Warmed :
  /\ warm[k] \in JobOf({"idle", "todo", "fetching", "reading", "done"})
  /\ warm[k].took <= MaxWork
  /\ warm[k].pc = "fetching" => warm[k].data <= warm[k].took
  /\ warm[k].pc = "reading" => warm[k].data <= warm[k].took + MaxWork
\* An entry that appears while the warmer asks for it is another request's.
FoundInv == \A k \in Warmed : warm[k].pc = "fetching" /\ Valid(k) =>
  entry[k].set <= warm[k].took /\ entry[k].data <= entry[k].set + MaxWork
BuildInv == \A b \in Builders : build[b] # None =>
  /\ build[b] \in [data : Age, took : Nat]
  /\ build[b].took <= MaxWork
  /\ build[b].data <= Ttl + 2 * MaxWork + build[b].took
SummaryInv == summary # None =>
  summary \in Entry /\ summary.data <= summary.set + Ttl + 3 * MaxWork
Shapes == /\ entry = [k \in Keys |-> entry[k]]
             /\ request = [r \in Requests |-> request[r]]
             /\ warm = [k \in Warmed |-> warm[k]]
             /\ build = [b \in Builders |-> build[b]]

Inv ==
  /\ Shapes /\ EntryInv /\ RequestInv /\ WarmInv /\ FoundInv /\ BuildInv /\ SummaryInv

LEMMA Bounds ==
  /\ Ttl \in Nat /\ SummaryTtl \in Nat /\ MaxWork \in Nat
  /\ Horizon \in Nat /\ Horizon > Ttl
  /\ 0 \in Age
  /\ Warmed \subseteq Keys /\ None \notin Requests /\ None \notin Keys
  BY CacheAssumption DEF Age

\* A tick ages what is not beyond the horizon by one.
LEMMA OlderFacts ==
  ASSUME NEW a \in Age
  PROVE  /\ Older(a) \in Age /\ Older(a) >= a /\ Older(a) <= a + 1
         /\ a < Horizon => Older(a) = a + 1
         /\ \A b \in Age, n \in Nat : b <= a + n => Older(b) <= Older(a) + n
  BY Bounds DEF Age, Older

LEMMA Start ==
  ASSUME Init
  PROVE  Inv
  <1>1. Idle = [pc |-> "idle", key |-> None, data |-> 0, took |-> 0]
    BY DEF Idle, Job
  <1>2. Shapes /\ EntryInv /\ FoundInv /\ BuildInv /\ SummaryInv
    BY <1>1 DEF Init, Shapes, EntryInv, FoundInv, BuildInv, SummaryInv
  <1>3. RequestInv /\ WarmInv
    BY <1>1, Bounds DEF Init, RequestInv, WarmInv, JobOf
  <1>4. QED
    BY <1>2, <1>3 DEF Inv

-----------------------------------------------------------------------------
(* Edits of one part of the state.                                          *)

LEMMA RequestEdit ==
  ASSUME Inv, NEW r \in Requests, NEW job \in JobOf({"idle", "asked", "reading", "building"}),
         job.took <= MaxWork, job.pc \in {"asked", "reading"} => job.key \in Keys,
         job.pc = "reading" => job.data <= job.took,
         request' = [request EXCEPT ![r] = job]
  PROVE  RequestInv' /\ request' = [q \in Requests |-> request'[q]]
  <1>1. \A q \in Requests : request'[q] = IF q = r THEN job ELSE request[q]
    BY DEF Inv, Shapes
  <1>2. QED
    BY <1>1 DEF Inv, Shapes, RequestInv

LEMMA WarmEdit ==
  ASSUME Inv, NEW k \in Warmed,
         NEW job \in JobOf({"idle", "todo", "fetching", "reading", "done"}),
         job.took <= MaxWork,
         job.pc = "fetching" => job.data <= job.took,
         job.pc = "reading" => job.data <= job.took + MaxWork,
         warm' = [warm EXCEPT ![k] = job]
  PROVE  /\ WarmInv' /\ warm' = [w \in Warmed |-> warm'[w]]
         /\ \A w \in Warmed : warm'[w] = IF w = k THEN job ELSE warm[w]
  <1>1. \A w \in Warmed : warm'[w] = IF w = k THEN job ELSE warm[w]
    BY DEF Inv, Shapes
  <1>2. QED
    BY <1>1 DEF Inv, Shapes, WarmInv

\* A job that begins.
LEMMA NewJob ==
  ASSUME NEW pcs, NEW pc \in pcs, NEW k \in Keys \cup {None}
  PROVE  /\ Job(pc, k, 0) \in JobOf(pcs) /\ Job(pc, k, 0).pc = pc
        /\ Job(pc, k, 0).key = k /\ Job(pc, k, 0).took <= MaxWork
        /\ Job(pc, k, 0).data <= Job(pc, k, 0).took
        /\ Job(pc, k, 0).data <= Job(pc, k, 0).took + MaxWork
  BY Bounds DEF Job, JobOf

\* Entries stay or go.
LEMMA EntriesGo ==
  ASSUME Inv, \A k \in Keys : entry'[k] = entry[k] \/ entry'[k] = None,
         \A k \in Warmed : warm'[k].pc = "fetching" => warm'[k] = warm[k] \/ ~ Valid(k)
  PROVE  EntryInv' /\ FoundInv'
  <1>1. EntryInv'
    BY DEF Inv, EntryInv
  <1>2. \A k \in Warmed : Valid(k)' => entry'[k] = entry[k] /\ Valid(k)
    BY Bounds DEF Valid
  <1>3. FoundInv'
    BY <1>2 DEF Inv, FoundInv
  <1>4. QED
    BY <1>1, <1>3

\* An entry is set while no warmer's request for its key is under way, or by a
\* request that has read the data itself.
LEMMA EntrySet ==
  ASSUME Inv, NEW k \in Keys, NEW d \in Age, d <= 2 * MaxWork, MaySet(k, d),
         \A w \in Warmed : warm'[w].pc = "fetching" => warm'[w] = warm[w],
         k \in Warmed /\ warm'[k].pc = "fetching" => d <= MaxWork
  PROVE  EntryInv' /\ FoundInv' /\ entry' = [j \in Keys |-> entry'[j]]
  <1> DEFINE e == [data |-> d, set |-> 0]
  <1>1. CASE entry' = entry
    BY <1>1, EntriesGo DEF Inv, Shapes
  <1>2. CASE entry' = [entry EXCEPT ![k] = e]
    <2>1. \A j \in Keys : entry'[j] = IF j = k THEN e ELSE entry[j]
      BY <1>2 DEF Inv, Shapes
    <2>2. e \in Entry /\ e.data = d /\ e.set = 0
      BY Bounds DEF Entry
    <2>3. d <= 0 + 2 * MaxWork /\ d \in Nat
      BY Bounds DEF Age
    <2> HIDE DEF e
    <2>4. EntryInv'
      BY <2>1, <2>2, <2>3 DEF Inv, EntryInv
    <2>5. ASSUME NEW w \in Warmed, warm'[w].pc = "fetching", Valid(w)'
          PROVE  entry'[w].set <= warm'[w].took /\ entry'[w].data <= entry'[w].set + MaxWork
      <3>1. warm'[w] = warm[w] /\ w \in Keys
        BY <2>5, Bounds
      <3>2. warm[w].took \in Nat
        BY DEF Inv, WarmInv, JobOf
      <3>3. CASE w = k
        BY <2>1, <2>2, <2>3, <2>5, <3>1, <3>2, <3>3, Bounds
      <3>4. CASE w # k
        <4>1. entry'[w] = entry[w]
          BY <2>1, <3>1, <3>4
        <4>2. Valid(w)
          BY <2>5, <4>1 DEF Valid
        <4>3. QED
          BY <2>5, <3>1, <4>1, <4>2 DEF Inv, FoundInv
      <3>5. QED
        BY <3>3, <3>4
    <2>6. entry' = [j \in Keys |-> entry'[j]]
      BY <1>2 DEF Inv, Shapes
    <2>7. QED
      BY <2>4, <2>5, <2>6 DEF FoundInv
  <1>3. QED
    BY <1>1, <1>2 DEF MaySet

\* What a summary is built from.
LEMMA OldestFacts ==
  ASSUME Inv, NEW age \in Oldest
  PROVE  age \in Age /\ age <= Ttl + 2 * MaxWork
  <1>1. age = 0 \/ \E k \in Warmed : Valid(k) /\ age = entry[k].data
    BY DEF Oldest
  <1>2. ASSUME NEW k \in Warmed, Valid(k), age = entry[k].data
        PROVE  age \in Age /\ age <= Ttl + 2 * MaxWork
    <2>1. /\ entry[k] \in Entry /\ entry[k].data <= entry[k].set + 2 * MaxWork
          /\ entry[k].set <= Ttl
      BY <1>2, Bounds DEF Inv, EntryInv, Valid
    <2>2. QED
      BY <1>2, <2>1, Bounds DEF Entry, Age
  <1>3. QED
    BY <1>1, <1>2, Bounds DEF Age

\* The parts that a step leaves alone.
LEMMA Alone ==
  ASSUME Inv
  PROVE  /\ request' = request => RequestInv' /\ request' = [r \in Requests |-> request'[r]]
         /\ warm' = warm => WarmInv' /\ warm' = [k \in Warmed |-> warm'[k]]
         /\ build' = build => BuildInv' /\ build' = [b \in Builders |-> build'[b]]
         /\ summary' = summary => SummaryInv'
         /\ entry' = entry => EntryInv' /\ entry' = [k \in Keys |-> entry'[k]]
  <1>1. request' = request => RequestInv' /\ request' = [r \in Requests |-> request'[r]]
    BY DEF Inv, Shapes, RequestInv
  <1>2. warm' = warm => WarmInv' /\ warm' = [k \in Warmed |-> warm'[k]]
    BY DEF Inv, Shapes, WarmInv
  <1>3. build' = build => BuildInv' /\ build' = [b \in Builders |-> build'[b]]
    BY DEF Inv, Shapes, BuildInv
  <1>4. summary' = summary => SummaryInv'
    BY DEF Inv, SummaryInv
  <1>5. entry' = entry => EntryInv' /\ entry' = [k \in Keys |-> entry'[k]]
    BY DEF Inv, Shapes, EntryInv
  <1>6. QED
    BY <1>1, <1>2, <1>3, <1>4, <1>5

-----------------------------------------------------------------------------
(* Requests.                                                                *)

LEMMA AskStep ==
  ASSUME Inv, NEW r \in Requests, NEW k \in Keys, Ask(r, k)
  PROVE  Inv'
  <1>1. /\ request' = [request EXCEPT ![r] = Job("asked", k, 0)]
        /\ entry' = IF k \in Refreshing THEN [entry EXCEPT ![k] = None] ELSE entry
        /\ warm' = warm /\ build' = build /\ summary' = summary
    BY DEF Ask
  <1> DEFINE pcs == {"idle", "asked", "reading", "building"}
  <1>2. /\ Job("asked", k, 0) \in JobOf(pcs) /\ Job("asked", k, 0).pc = "asked"
        /\ Job("asked", k, 0).key = k /\ Job("asked", k, 0).took <= MaxWork
        /\ Job("asked", k, 0).data <= Job("asked", k, 0).took
        /\ Job("asked", k, 0).data <= Job("asked", k, 0).took + MaxWork
    BY NewJob
  <1>3. RequestInv' /\ request' = [q \in Requests |-> request'[q]]
    BY <1>1, <1>2, RequestEdit
  <1>4. /\ \A j \in Keys : entry'[j] = entry[j] \/ entry'[j] = None
        /\ entry' = [j \in Keys |-> entry'[j]]
    BY <1>1 DEF Inv, Shapes
  <1>5. EntryInv' /\ FoundInv'
    BY <1>1, <1>4, EntriesGo
  <1>6. QED
    BY <1>1, <1>3, <1>4, <1>5, Alone DEF Inv, Shapes

\* A request that is answered, begins to read or waits for a summary.
LEMMA RequestStep ==
  ASSUME Inv, NEW r \in Requests, NEW pc \in {"idle", "reading", "building"},
         NEW k \in Keys \cup {None}, pc = "reading" => k \in Keys,
         request' = [request EXCEPT ![r] = Job(pc, k, 0)],
         entry' = entry, warm' = warm, build' = build, summary' = summary
  PROVE  Inv'
  <1> DEFINE pcs == {"idle", "asked", "reading", "building"}
  <1>1. pc \in pcs
    OBVIOUS
  <1>2. /\ Job(pc, k, 0) \in JobOf(pcs) /\ Job(pc, k, 0).pc = pc
        /\ Job(pc, k, 0).key = k /\ Job(pc, k, 0).took <= MaxWork
        /\ Job(pc, k, 0).data <= Job(pc, k, 0).took
        /\ Job(pc, k, 0).data <= Job(pc, k, 0).took + MaxWork
    BY <1>1, NewJob
  <1>3. RequestInv' /\ request' = [q \in Requests |-> request'[q]]
    BY <1>2, RequestEdit
  <1>4. EntryInv' /\ FoundInv'
    BY EntriesGo
  <1>5. QED
    BY <1>3, <1>4, Alone DEF Inv, Shapes

LEMMA RespondStep ==
  ASSUME Inv, NEW r \in Requests, Respond(r)
  PROVE  Inv'
  <1> DEFINE pcs == {"idle", "asked", "reading", "building"}
  <1>1. /\ request[r].pc = "reading" /\ MaySet(request[r].key, request[r].data)
        /\ request' = [request EXCEPT ![r] = Job("idle", None, 0)]
        /\ warm' = warm /\ build' = build /\ summary' = summary
    BY DEF Respond, Idle
  <1>2. /\ request[r].key \in Keys /\ request[r].data \in Age
        /\ request[r].data <= MaxWork
    <2>1. request[r] \in JobOf(pcs) /\ request[r].took <= MaxWork
      BY DEF Inv, RequestInv
    <2>2. request[r].key \in Keys /\ request[r].data <= request[r].took
      BY <1>1 DEF Inv, RequestInv
    <2>3. request[r].data \in Age /\ request[r].took \in Nat
      BY <2>1 DEF JobOf
    <2>4. QED
      BY <2>1, <2>2, <2>3, Bounds DEF Age
  <1>3. /\ Job("idle", None, 0) \in JobOf(pcs) /\ Job("idle", None, 0).pc = "idle"
        /\ Job("idle", None, 0).key = None /\ Job("idle", None, 0).took <= MaxWork
        /\ Job("idle", None, 0).data <= Job("idle", None, 0).took
        /\ Job("idle", None, 0).data <= Job("idle", None, 0).took + MaxWork
    BY NewJob
  <1>4. RequestInv' /\ request' = [q \in Requests |-> request'[q]]
    BY <1>1, <1>3, RequestEdit
  <1>5. request[r].data <= 2 * MaxWork
    BY <1>2, Bounds DEF Age
  <1>6. EntryInv' /\ FoundInv' /\ entry' = [j \in Keys |-> entry'[j]]
    BY <1>1, <1>2, <1>5, EntrySet
  <1>7. QED
    BY <1>1, <1>4, <1>6, Alone DEF Inv, Shapes

-----------------------------------------------------------------------------
(* The warmer.                                                              *)

LEMMA StartWarmingStep ==
  ASSUME Inv, StartWarming
  PROVE  Inv'
  <1> DEFINE pcs == {"idle", "todo", "fetching", "reading", "done"}
  <1>1. /\ warm' = [k \in Warmed |-> Job("todo", k, 0)]
        /\ entry' = entry /\ request' = request /\ build' = build /\ summary' = summary
    BY DEF StartWarming
  <1>2. ASSUME NEW k \in Warmed
        PROVE  /\ warm'[k] \in JobOf(pcs) /\ warm'[k].pc = "todo" /\ warm'[k].took <= MaxWork
    BY <1>1, NewJob, Bounds
  <1>3. WarmInv' /\ warm' = [k \in Warmed |-> warm'[k]]
    BY <1>1, <1>2, Bounds DEF WarmInv
  <1>4. EntryInv' /\ FoundInv'
    BY <1>1, <1>2, EntriesGo
  <1>5. QED
    BY <1>1, <1>3, <1>4, Alone DEF Inv, Shapes

\* The warmer finds an entry, or none.
LEMMA SkipOrFetchStep ==
  ASSUME Inv, NEW k \in Warmed, Skip(k) \/ Fetch(k)
  PROVE  Inv'
  <1> DEFINE pcs == {"idle", "todo", "fetching", "reading", "done"}
  <1>1. PICK pc \in {"fetching", "done"} :
          /\ pc = "fetching" => ~ Valid(k)
          /\ warm' = [warm EXCEPT ![k] = Job(pc, k, 0)]
    BY DEF Skip, Fetch, Warm
  <1>2. entry' = entry /\ request' = request /\ build' = build /\ summary' = summary
    BY DEF Skip, Fetch, Warm
  <1>3. pc \in pcs /\ k \in Keys
    BY <1>1, Bounds
  <1>4. /\ Job(pc, k, 0) \in JobOf(pcs) /\ Job(pc, k, 0).pc = pc
        /\ Job(pc, k, 0).key = k /\ Job(pc, k, 0).took <= MaxWork
        /\ Job(pc, k, 0).data <= Job(pc, k, 0).took
        /\ Job(pc, k, 0).data <= Job(pc, k, 0).took + MaxWork
    BY <1>3, NewJob
  <1>5. /\ WarmInv' /\ warm' = [w \in Warmed |-> warm'[w]]
        /\ \A w \in Warmed : warm'[w] = IF w = k THEN Job(pc, k, 0) ELSE warm[w]
    BY <1>1, <1>4, WarmEdit
  <1>6. \A w \in Warmed : warm'[w].pc = "fetching" => warm'[w] = warm[w] \/ ~ Valid(w)
    BY <1>1, <1>4, <1>5
  <1>7. EntryInv' /\ FoundInv'
    BY <1>2, <1>6, EntriesGo
  <1>8. QED
    BY <1>2, <1>5, <1>7, Alone DEF Inv, Shapes

\* The warmer's own request is answered from the cache after all, or reads.
LEMMA FetchStep ==
  ASSUME Inv, NEW k \in Warmed, FetchHit(k) \/ FetchMiss(k)
  PROVE  Inv'
  <1> DEFINE pcs == {"idle", "todo", "fetching", "reading", "done"}
  <1>1. /\ warm[k].pc = "fetching"
        /\ entry' = entry /\ request' = request /\ build' = build /\ summary' = summary
    BY DEF FetchHit, FetchMiss, Warm
  <1>2. /\ warm[k] \in JobOf(pcs) /\ warm[k].took <= MaxWork
        /\ warm[k].data <= warm[k].took
    BY <1>1 DEF Inv, WarmInv
  <1>3. warm[k].key \in Keys \cup {None} /\ warm[k].data \in Age /\ warm[k].took \in Nat
    BY <1>2 DEF JobOf
  <1>4. PICK d \in Age : /\ d <= warm[k].took + MaxWork
                         /\ warm' = [warm EXCEPT ![k] = [warm[k] EXCEPT !.pc = "reading", !.data = d]]
    <2>1. CASE FetchHit(k)
      <3>1. k \in Keys /\ Valid(k)
        BY <2>1, Bounds DEF FetchHit
      <3>2. /\ entry[k] \in Entry
            /\ entry[k].set <= warm[k].took /\ entry[k].data <= entry[k].set + MaxWork
        BY <1>1, <3>1 DEF Inv, EntryInv, FoundInv, Valid
      <3>3. entry[k].data \in Age /\ entry[k].set \in Age
        BY <3>2 DEF Entry
      <3>4. entry[k].data <= warm[k].took + MaxWork
        BY <1>3, <3>2, <3>3, Bounds DEF Age
      <3>5. QED
        BY <2>1, <3>3, <3>4 DEF FetchHit, Warm
    <2>2. CASE FetchMiss(k)
      <3>1. [warm[k] EXCEPT !.pc = "reading"] = [warm[k] EXCEPT !.pc = "reading", !.data = warm[k].data]
        BY <1>2 DEF JobOf
      <3>2. warm[k].data <= warm[k].took + MaxWork
        BY <1>2, <1>3, Bounds DEF Age
      <3>3. QED
        BY <1>3, <2>2, <3>1, <3>2 DEF FetchMiss, Warm
    <2>3. QED
      BY <2>1, <2>2
  <1> DEFINE job == [warm[k] EXCEPT !.pc = "reading", !.data = d]
  <1>5. job \in JobOf(pcs) /\ job.pc = "reading" /\ job.data = d /\ job.took = warm[k].took
    BY <1>2, <1>4 DEF JobOf
  <1>6. warm' = [warm EXCEPT ![k] = job]
    BY <1>4
  <1> HIDE DEF job
  <1>7. /\ WarmInv' /\ warm' = [w \in Warmed |-> warm'[w]]
        /\ \A w \in Warmed : warm'[w] = IF w = k THEN job ELSE warm[w]
    BY <1>2, <1>4, <1>5, <1>6, WarmEdit
  <1>8. \A w \in Warmed : warm'[w].pc = "fetching" => warm'[w] = warm[w]
    BY <1>5, <1>7
  <1>9. EntryInv' /\ FoundInv'
    BY <1>1, <1>8, EntriesGo
  <1>10. QED
    BY <1>1, <1>7, <1>9, Alone DEF Inv, Shapes

LEMMA FinishWarmStep ==
  ASSUME Inv, NEW k \in Warmed, FinishWarm(k)
  PROVE  Inv'
  <1> DEFINE pcs == {"idle", "todo", "fetching", "reading", "done"}
  <1>1. /\ warm[k].pc = "reading" /\ MaySet(k, warm[k].data)
        /\ warm' = [warm EXCEPT ![k] = Job("done", k, 0)]
        /\ request' = request /\ build' = build /\ summary' = summary
    BY DEF FinishWarm, Warm
  <1>2. k \in Keys
    BY Bounds
  <1>3. warm[k].data \in Age /\ warm[k].data <= 2 * MaxWork
    <2>1. /\ warm[k] \in JobOf(pcs) /\ warm[k].took <= MaxWork
          /\ warm[k].data <= warm[k].took + MaxWork
      BY <1>1 DEF Inv, WarmInv
    <2>2. warm[k].data \in Age /\ warm[k].took \in Nat
      BY <2>1 DEF JobOf
    <2>3. QED
      BY <2>1, <2>2, Bounds DEF Age
  <1>4. /\ Job("done", k, 0) \in JobOf(pcs) /\ Job("done", k, 0).pc = "done"
        /\ Job("done", k, 0).key = k /\ Job("done", k, 0).took <= MaxWork
        /\ Job("done", k, 0).data <= Job("done", k, 0).took
        /\ Job("done", k, 0).data <= Job("done", k, 0).took + MaxWork
    BY <1>2, NewJob
  <1>5. /\ WarmInv' /\ warm' = [w \in Warmed |-> warm'[w]]
        /\ \A w \in Warmed : warm'[w] = IF w = k THEN Job("done", k, 0) ELSE warm[w]
    BY <1>1, <1>4, WarmEdit
  <1>6. /\ \A w \in Warmed : warm'[w].pc = "fetching" => warm'[w] = warm[w]
        /\ warm'[k].pc # "fetching"
    BY <1>4, <1>5
  <1>7. EntryInv' /\ FoundInv' /\ entry' = [j \in Keys |-> entry'[j]]
    BY <1>1, <1>2, <1>3, <1>6, EntrySet
  <1>8. QED
    BY <1>1, <1>5, <1>7, Alone DEF Inv, Shapes

-----------------------------------------------------------------------------
(* The summary.                                                             *)

LEMMA BuildStep ==
  ASSUME Inv, NEW b \in Builders, Build(b)
  PROVE  Inv'
  <1>1. PICK age \in Oldest : build' = [build EXCEPT ![b] = [data |-> age, took |-> 0]]
    BY DEF Build
  <1>2. entry' = entry /\ request' = request /\ warm' = warm /\ summary' = summary
    BY DEF Build
  <1>3. age \in Age /\ age <= Ttl + 2 * MaxWork
    BY OldestFacts
  <1> DEFINE new == [data |-> age, took |-> 0]
  <1>4. /\ new \in [data : Age, took : Nat] /\ new.took <= MaxWork
        /\ new.data <= Ttl + 2 * MaxWork + new.took
    BY <1>3, Bounds DEF Age
  <1>5. build' = [build EXCEPT ![b] = new]
    BY <1>1
  <1> HIDE DEF new
  <1>6. /\ \A o \in Builders : build'[o] = IF o = b THEN new ELSE build[o]
        /\ build' = [o \in Builders |-> build'[o]]
    BY <1>5 DEF Inv, Shapes
  <1>7. BuildInv'
    BY <1>4, <1>6 DEF Inv, BuildInv
  <1>8. FoundInv'
    BY <1>2, EntriesGo
  <1>9. QED
    BY <1>2, <1>6, <1>7, <1>8, Alone DEF Inv, Shapes

LEMMA PublishStep ==
  ASSUME Inv, NEW b \in Builders, Publish(b)
  PROVE  Inv'
  <1> DEFINE requests == {"idle", "asked", "reading", "building"}
             warms == {"idle", "todo", "fetching", "reading", "done"}
             new == [data |-> build[b].data, set |-> 0]
  <1>1. /\ build[b] # None /\ entry' = entry
        /\ summary' = new
        /\ build' = [build EXCEPT ![b] = None]
        /\ IF b = Warmer
           THEN warm' = [k \in Warmed |-> Job("idle", None, 0)] /\ request' = request
           ELSE request' = [request EXCEPT ![b] = Job("idle", None, 0)] /\ warm' = warm
    BY DEF Publish, Idle
  <1>2. SummaryInv'
    <2>1. /\ build[b] \in [data : Age, took : Nat] /\ build[b].took <= MaxWork
          /\ build[b].data <= Ttl + 2 * MaxWork + build[b].took
      BY <1>1 DEF Inv, BuildInv
    <2>2. build[b].data \in Nat /\ build[b].took \in Nat
      BY <2>1, Bounds DEF Age
    <2>3. new \in Entry /\ new.data <= new.set + Ttl + 3 * MaxWork
      BY <2>1, <2>2, Bounds DEF Entry
    <2>4. QED
      BY <1>1, <2>3 DEF SummaryInv
  <1> HIDE DEF new
  <1>3. BuildInv' /\ build' = [o \in Builders |-> build'[o]]
    <2>1. /\ \A o \in Builders : build'[o] = IF o = b THEN None ELSE build[o]
          /\ build' = [o \in Builders |-> build'[o]]
      BY <1>1 DEF Inv, Shapes
    <2>2. QED
      BY <2>1 DEF Inv, BuildInv
  <1>4. /\ Job("idle", None, 0) \in JobOf(requests) /\ Job("idle", None, 0) \in JobOf(warms)
        /\ Job("idle", None, 0).pc = "idle" /\ Job("idle", None, 0).took <= MaxWork
    BY NewJob
  <1>5. CASE b = Warmer
    <2>1. /\ warm' = [k \in Warmed |-> Job("idle", None, 0)] /\ request' = request
      BY <1>1, <1>5
    <2>2. \A k \in Warmed : warm'[k] = Job("idle", None, 0)
      BY <2>1
    <2>3. WarmInv' /\ warm' = [k \in Warmed |-> warm'[k]]
      BY <1>4, <2>1, <2>2 DEF WarmInv
    <2>4. FoundInv'
      BY <1>4, <2>2 DEF FoundInv
    <2>5. QED
      BY <1>1, <1>2, <1>3, <2>1, <2>3, <2>4, Alone DEF Inv, Shapes
  <1>6. CASE b # Warmer
    <2>1. b \in Requests /\ request' = [request EXCEPT ![b] = Job("idle", None, 0)] /\ warm' = warm
      BY <1>1, <1>6 DEF Builders
    <2>2. RequestInv' /\ request' = [r \in Requests |-> request'[r]]
      BY <1>4, <2>1, RequestEdit
    <2>3. FoundInv'
      BY <1>1, <2>1, EntriesGo
    <2>4. QED
      BY <1>1, <1>2, <1>3, <2>1, <2>2, <2>3, Alone DEF Inv, Shapes
  <1>7. QED
    BY <1>5, <1>6

-----------------------------------------------------------------------------
(* Time.                                                                    *)

LEMMA AgedFacts ==
  ASSUME NEW x \in Entry
  PROVE  /\ [x EXCEPT !.data = Older(@), !.set = Older(@)] \in Entry
         /\ Aged(x) # None => /\ x # None /\ Aged(x) \in Entry
                              /\ Aged(x).data = Older(x.data) /\ Aged(x).set = Older(x.set)
  <1>1. Older(x.data) \in Age /\ Older(x.set) \in Age
    BY OlderFacts DEF Entry
  <1>2. QED
    BY <1>1 DEF Aged, Entry

LEMMA WorkedFacts ==
  ASSUME NEW pcs, NEW j \in JobOf(pcs), j.took < MaxWork
  PROVE  /\ Worked(j) \in JobOf(pcs) /\ Worked(j).pc = j.pc /\ Worked(j).key = j.key
         /\ Worked(j).took <= MaxWork
         /\ j.pc \notin {"idle", "todo", "done"} =>
              Worked(j).data = Older(j.data) /\ Worked(j).took = j.took + 1
         /\ Older(j.data) <= j.data + 1 /\ Older(j.data) \in Age
  <1>1. j.data \in Age /\ j.took \in Nat /\ j = [pc |-> j.pc, key |-> j.key, data |-> j.data, took |-> j.took]
    BY DEF JobOf
  <1>2. Older(j.data) \in Age /\ Older(j.data) <= j.data + 1
    BY <1>1, OlderFacts
  <1>3. j.took + 1 \in Nat /\ j.took + 1 <= MaxWork
    BY <1>1, Bounds
  <1>4. CASE j.pc \in {"idle", "todo", "done"}
    BY <1>1, <1>2, <1>4, Bounds DEF Worked
  <1>5. CASE j.pc \notin {"idle", "todo", "done"}
    <2>1. Worked(j) = [pc |-> j.pc, key |-> j.key, data |-> Older(j.data), took |-> j.took + 1]
      BY <1>1, <1>5 DEF Worked
    <2>2. j.pc \in pcs /\ j.key \in Keys \cup {None}
      BY DEF JobOf
    <2>3. QED
      BY <1>2, <1>3, <2>1, <2>2 DEF JobOf
  <1>6. QED
    BY <1>4, <1>5

LEMMA TickStep ==
  ASSUME Inv, Tick
  PROVE  Inv'
  <1>1. /\ \A r \in Requests : request[r].took < MaxWork
        /\ \A k \in Warmed : warm[k].took < MaxWork
        /\ \A b \in Builders : build[b] # None => build[b].took < MaxWork
        /\ entry' = [k \in Keys |-> Aged(entry[k])]
        /\ summary' = Aged(summary)
        /\ request' = [r \in Requests |-> Worked(request[r])]
        /\ warm' = [k \in Warmed |-> Worked(warm[k])]
        /\ build' = [b \in Builders |-> IF build[b] = None THEN None
                       ELSE [data |-> Older(build[b].data), took |-> build[b].took + 1]]
    BY DEF Tick
  <1>2. Shapes'
    BY <1>1 DEF Shapes
  \* Ages of one entry, before and after.
  <1>3. ASSUME NEW k \in Keys, entry'[k] # None
        PROVE  /\ entry[k] # None /\ entry[k] \in Entry /\ entry'[k] \in Entry
               /\ entry'[k].set >= entry[k].set /\ entry'[k].set <= entry[k].set + 1
               /\ \A n \in Nat : entry[k].data <= entry[k].set + n =>
                                   entry'[k].data <= entry'[k].set + n
    <2>1. entry'[k] = Aged(entry[k])
      BY <1>1
    <2>2. entry[k] # None /\ entry[k] \in Entry
      BY <1>3, <2>1 DEF Inv, EntryInv, Aged
    <2>3. entry'[k] \in Entry /\ entry'[k].data = Older(entry[k].data)
          /\ entry'[k].set = Older(entry[k].set)
      BY <1>3, <2>1, <2>2, AgedFacts
    <2>4. entry[k].data \in Age /\ entry[k].set \in Age
      BY <2>2 DEF Entry
    <2>5. /\ Older(entry[k].set) >= entry[k].set /\ Older(entry[k].set) <= entry[k].set + 1
          /\ \A n \in Nat : entry[k].data <= entry[k].set + n =>
                              Older(entry[k].data) <= Older(entry[k].set) + n
      BY <2>4, OlderFacts
    <2>6. QED
      BY <2>2, <2>3, <2>5
  <1>4. EntryInv'
    <2>1. 2 * MaxWork \in Nat
      BY Bounds
    <2>2. QED
      BY <1>3, <2>1 DEF Inv, EntryInv
  <1>5. RequestInv'
    <2> DEFINE pcs == {"idle", "asked", "reading", "building"}
    <2> SUFFICES ASSUME NEW r \in Requests
                 PROVE  /\ request'[r] \in JobOf(pcs) /\ request'[r].took <= MaxWork
                        /\ request'[r].pc \in {"asked", "reading"} => request'[r].key \in Keys
                        /\ request'[r].pc = "reading" => request'[r].data <= request'[r].took
      BY DEF RequestInv
    <2> DEFINE j == request[r]
    <2>1. /\ j \in JobOf(pcs) /\ j.took < MaxWork /\ request'[r] = Worked(j)
          /\ j.pc \in {"asked", "reading"} => j.key \in Keys
          /\ j.pc = "reading" => j.data <= j.took
      BY <1>1 DEF Inv, RequestInv
    <2>2. j.data \in Nat /\ j.took \in Nat
      BY <2>1, Bounds DEF JobOf, Age
    <2> HIDE DEF j, pcs
    <2>3. /\ Worked(j) \in JobOf(pcs) /\ Worked(j).pc = j.pc /\ Worked(j).key = j.key
          /\ Worked(j).took <= MaxWork
          /\ j.pc \notin {"idle", "todo", "done"} =>
               Worked(j).data = Older(j.data) /\ Worked(j).took = j.took + 1
          /\ Older(j.data) <= j.data + 1 /\ Older(j.data) \in Age
      BY <2>1, WorkedFacts
    <2>4. Older(j.data) \in Nat
      BY <2>3, Bounds DEF Age
    <2>5. j.pc = "reading" => Worked(j).data <= Worked(j).took
      BY <2>1, <2>2, <2>3, <2>4
    <2>6. QED
      BY <2>1, <2>3, <2>5
  <1>6. ASSUME NEW k \in Warmed
        PROVE  /\ warm'[k] \in JobOf({"idle", "todo", "fetching", "reading", "done"})
               /\ warm'[k].took <= MaxWork /\ warm'[k].pc = warm[k].pc
               /\ warm[k].pc = "fetching" => /\ warm'[k].data <= warm'[k].took
                                             /\ warm'[k].took = warm[k].took + 1
               /\ warm[k].pc = "reading" => warm'[k].data <= warm'[k].took + MaxWork
               /\ warm[k].took \in Nat
    <2> DEFINE pcs == {"idle", "todo", "fetching", "reading", "done"}
               j == warm[k]
    <2>1. /\ j \in JobOf(pcs) /\ j.took < MaxWork /\ warm'[k] = Worked(j)
          /\ j.pc = "fetching" => j.data <= j.took
          /\ j.pc = "reading" => j.data <= j.took + MaxWork
      BY <1>1 DEF Inv, WarmInv
    <2>2. j.data \in Nat /\ j.took \in Nat
      BY <2>1, Bounds DEF JobOf, Age
    <2> HIDE DEF j, pcs
    <2>3. /\ Worked(j) \in JobOf(pcs) /\ Worked(j).pc = j.pc /\ Worked(j).key = j.key
          /\ Worked(j).took <= MaxWork
          /\ j.pc \notin {"idle", "todo", "done"} =>
               Worked(j).data = Older(j.data) /\ Worked(j).took = j.took + 1
          /\ Older(j.data) <= j.data + 1 /\ Older(j.data) \in Age
      BY <2>1, WorkedFacts
    <2>4. Older(j.data) \in Nat /\ MaxWork \in Nat
      BY <2>3, Bounds DEF Age
    <2>5. /\ j.pc = "fetching" => Worked(j).data <= Worked(j).took /\ Worked(j).took = j.took + 1
          /\ j.pc = "reading" => Worked(j).data <= Worked(j).took + MaxWork
      BY <2>1, <2>2, <2>3, <2>4
    <2>6. QED
      BY <2>1, <2>2, <2>3, <2>5 DEF j, pcs
  <1>7. WarmInv'
    BY <1>6 DEF WarmInv
  <1>8. FoundInv'
    <2> SUFFICES ASSUME NEW k \in Warmed, warm'[k].pc = "fetching", Valid(k)'
                 PROVE  entry'[k].set <= warm'[k].took /\ entry'[k].data <= entry'[k].set + MaxWork
      BY DEF FoundInv
    <2>1. k \in Keys /\ entry'[k] # None /\ entry'[k].set <= Ttl
      BY Bounds DEF Valid
    <2>2. /\ entry[k] # None /\ entry[k] \in Entry /\ entry'[k] \in Entry
          /\ entry'[k].set >= entry[k].set /\ entry'[k].set <= entry[k].set + 1
          /\ entry[k].data <= entry[k].set + MaxWork => entry'[k].data <= entry'[k].set + MaxWork
      BY <1>3, <2>1, Bounds
    <2>3. entry[k].set \in Nat /\ entry'[k].set \in Nat
      BY <2>2, Bounds DEF Entry, Age
    <2>4. Valid(k)
      BY <2>1, <2>2, <2>3, Bounds DEF Valid
    <2>5. warm[k].pc = "fetching" /\ warm'[k].took = warm[k].took + 1 /\ warm[k].took \in Nat
      BY <1>6
    <2>6. entry[k].set <= warm[k].took /\ entry[k].data <= entry[k].set + MaxWork
      BY <2>4, <2>5 DEF Inv, FoundInv
    <2>7. QED
      BY <2>2, <2>3, <2>5, <2>6
  <1>9. BuildInv'
    <2> SUFFICES ASSUME NEW b \in Builders, build'[b] # None
                 PROVE  /\ build'[b] \in [data : Age, took : Nat] /\ build'[b].took <= MaxWork
                        /\ build'[b].data <= Ttl + 2 * MaxWork + build'[b].took
      BY DEF BuildInv
    <2>1. /\ build[b] # None /\ build[b].took < MaxWork
          /\ build'[b] = [data |-> Older(build[b].data), took |-> build[b].took + 1]
      BY <1>1
    <2>2. /\ build[b] \in [data : Age, took : Nat]
          /\ build[b].data <= Ttl + 2 * MaxWork + build[b].took
      BY <2>1 DEF Inv, BuildInv
    <2>3. build[b].data \in Age /\ build[b].data \in Nat /\ build[b].took \in Nat
      BY <2>2, Bounds DEF Age
    <2>4. Older(build[b].data) \in Age /\ Older(build[b].data) <= build[b].data + 1
      BY <2>3, OlderFacts
    <2>5. Older(build[b].data) \in Nat
      BY <2>4, Bounds DEF Age
    <2>6. QED
      BY Bounds, <2>1, <2>2, <2>3, <2>4, <2>5
  <1>10. SummaryInv'
    <2> SUFFICES ASSUME summary' # None
                 PROVE  summary' \in Entry /\ summary'.data <= summary'.set + Ttl + 3 * MaxWork
      BY DEF SummaryInv
    <2>1. summary # None /\ summary \in Entry /\ summary.data <= summary.set + Ttl + 3 * MaxWork
      BY <1>1 DEF Inv, SummaryInv, Aged
    <2>2. /\ summary' \in Entry /\ summary'.data = Older(summary.data)
          /\ summary'.set = Older(summary.set)
      BY <1>1, <2>1, AgedFacts
    <2>3. summary.data \in Age /\ summary.set \in Age /\ summary.set \in Nat
      BY <2>1, Bounds DEF Entry, Age
    <2>4. Ttl + 3 * MaxWork \in Nat /\ summary.data <= summary.set + (Ttl + 3 * MaxWork)
      BY <2>1, <2>3, Bounds
    <2>5. Older(summary.data) <= Older(summary.set) + (Ttl + 3 * MaxWork)
      BY <2>3, <2>4, OlderFacts
    <2>6. Older(summary.set) \in Nat
      <3>1. Older(summary.set) \in Age
        BY <2>3, OlderFacts
      <3>2. QED
        BY <3>1, Bounds DEF Age
    <2>7. QED
      BY <2>2, <2>5, <2>6, Bounds
  <1>11. QED
    BY <1>2, <1>4, <1>5, <1>7, <1>8, <1>9, <1>10 DEF Inv

-----------------------------------------------------------------------------
LEMMA Inductive == Spec => []Inv
  <1>1. Init => Inv
    BY Start
  <1>2. Inv /\ [Next]_vars => Inv'
    <2> SUFFICES ASSUME Inv, [Next]_vars
                 PROVE  Inv'
      OBVIOUS
    <2>1. CASE \E r \in Requests : \/ \E k \in Keys : Ask(r, k)
                                   \/ Hit(r) \/ Miss(r) \/ Respond(r) \/ AskSummary(r)
      <3>1. PICK r \in Requests : \/ \E k \in Keys : Ask(r, k)
                                  \/ Hit(r) \/ Miss(r) \/ Respond(r) \/ AskSummary(r)
        BY <2>1
      <3>2. CASE Hit(r) \/ AskSummary(r)
        <4>1. PICK pc \in {"idle", "building"} :
                request' = [request EXCEPT ![r] = Job(pc, None, 0)]
          BY <3>2 DEF Hit, AskSummary, Idle
        <4>2. entry' = entry /\ warm' = warm /\ build' = build /\ summary' = summary
          BY <3>2 DEF Hit, AskSummary
        <4>3. None \in Keys \cup {None} /\ pc \in {"idle", "reading", "building"} /\ pc # "reading"
          BY <4>1
        <4>4. QED
          BY <4>1, <4>2, <4>3, RequestStep
      <3>3. CASE Miss(r)
        <4>1. /\ request' = [request EXCEPT ![r] = Job("reading", request[r].key, 0)]
              /\ entry' = entry /\ warm' = warm /\ build' = build /\ summary' = summary
              /\ request[r].key \in Keys
          BY <3>3 DEF Miss, Inv, RequestInv
        <4>2. request[r].key \in Keys \cup {None}
          BY <4>1
        <4>3. QED
          BY <4>1, <4>2, RequestStep
      <3>4. QED
        BY <3>1, <3>2, <3>3, AskStep, RespondStep
    <2>2. CASE StartWarming
      BY <2>2, StartWarmingStep
    <2>3. CASE \E k \in Warmed : Skip(k) \/ Fetch(k) \/ FetchHit(k) \/ FetchMiss(k) \/ FinishWarm(k)
      BY <2>3, SkipOrFetchStep, FetchStep, FinishWarmStep
    <2>4. CASE \E b \in Builders : Build(b) \/ Publish(b)
      BY <2>4, BuildStep, PublishStep
    <2>5. CASE Tick
      BY <2>5, TickStep
    <2>6. CASE UNCHANGED vars
      <3>1. /\ entry' = entry /\ request' = request /\ warm' = warm
            /\ build' = build /\ summary' = summary
        BY <2>6 DEF vars
      <3>2. QED
        BY <3>1, EntriesGo, Alone DEF Inv, Shapes
    <2>7. QED
      BY <2>6, <2>1, <2>2, <2>3, <2>4, <2>5 DEF Next
  <1>3. QED
    BY <1>1, <1>2, PTL DEF Spec

\* Whatever requests, warmer and rebuilds do at once, data served from the cache
\* is at most the cache's ttl and two handlers' time old, that of a summary at
\* most the summary's age limit, the cache's ttl and three (cacheMiddleware,
\* warmAuditCache, rebuildBatchSummary): for any number of requests, any keys and
\* any limits.
THEOREM Staleness == Spec => []ServedAge
  <1>1. Inv => ServedAge
    <2> SUFFICES ASSUME Inv
                 PROVE  ServedAge
      OBVIOUS
    <2>1. ASSUME NEW k \in Keys, Valid(k)
          PROVE  entry[k].data <= Ttl + 2 * MaxWork
      <3>1. /\ entry[k] \in Entry /\ entry[k].data <= entry[k].set + 2 * MaxWork
            /\ entry[k].set <= Ttl
        BY <2>1 DEF Inv, EntryInv, Valid
      <3>2. QED
        BY <3>1, Bounds DEF Entry, Age
    <2>2. ASSUME Fresh
          PROVE  summary.data <= Ttl + SummaryTtl + 3 * MaxWork
      <3>1. /\ summary \in Entry /\ summary.data <= summary.set + Ttl + 3 * MaxWork
            /\ summary.set < SummaryTtl
        BY <2>2 DEF Inv, SummaryInv, Fresh
      <3>2. QED
        BY <3>1, Bounds DEF Entry, Age
    <2>3. QED
      BY <2>1, <2>2 DEF ServedAge
  <1>2. QED
    BY Inductive, <1>1, PTL
=============================================================================
