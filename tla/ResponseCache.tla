---------------------------- MODULE ResponseCache ----------------------------
(***************************************************************************)
(* The dashboard's cache of responses, the requests that fill it, the       *)
(* warmer that fills it for the audit pages and the summary built from it   *)
(* (internal/dashboard/cache.go, handler_batch.go).                         *)
(*                                                                         *)
(* Of a response we keep its age: the ticks since a handler began to read   *)
(* the data.  The status of a response is not looked at: an error is an     *)
(* entry like any other.                                                    *)
(***************************************************************************)
EXTENDS Naturals, FiniteSets

CONSTANTS
  Requests,    \* dashboard requests under way at the same time
  Keys,        \* cache keys: user, path and query
  Refreshing,  \* those whose query has refresh=true
  Warmed,      \* those of the audit paths, without query
  None,
  Ttl,         \* ttl of the cache (10 min); that of a route, 15 s to 2 min, is not used
  SummaryTtl,  \* age up to which a summary is served (5 min)
  MaxWork,     \* bound: ticks that a handler or a rebuild takes
  Horizon      \* bound: ages are counted up to here

ASSUME CacheAssumption ==
  /\ Ttl \in Nat /\ SummaryTtl \in Nat /\ MaxWork \in Nat
  /\ Horizon \in Nat /\ Horizon > Ttl + SummaryTtl + 4 * MaxWork
  /\ Refreshing \subseteq Keys /\ Warmed \subseteq Keys
  /\ None \notin Requests /\ None \notin Keys

VARIABLES
  entry,    \* entries: age of the data and time since it was set
  request,  \* what each request is doing
  warm,     \* what the warmer is doing for each key
  build,    \* the summary the warmer or a request is building
  summary   \* batchAuditCache

vars == <<entry, request, warm, build, summary>>

Warmer == None
Builders == Requests \cup {Warmer}
Older(age) == IF age < Horizon THEN age + 1 ELSE age

\* Work in progress: its state, the age of its data and the time it has taken.
Job(pc, key, data) == [pc |-> pc, key |-> key, data |-> data, took |-> 0]
Idle == Job("idle", None, 0)

Init ==
  /\ entry = [k \in Keys |-> None]
  /\ request = [r \in Requests |-> Idle]
  /\ warm = [k \in Warmed |-> Idle]
  /\ build = [b \in Builders |-> None]
  /\ summary = None

\* responseCache.get.
Valid(k) == entry[k] # None /\ entry[k].set <= Ttl

\* responseCache.set, unless there was no body, one over 5 MB, or a panic.
MaySet(k, data) ==
  entry' \in {entry, [entry EXCEPT ![k] = [data |-> data, set |-> 0]]}

-----------------------------------------------------------------------------
(* cacheMiddleware. *)

\* A refresh invalidates its own key, which no other query has.
Ask(r, k) ==
  /\ request[r].pc = "idle"
  /\ request' = [request EXCEPT ![r] = Job("asked", k, 0)]
  /\ entry' = IF k \in Refreshing THEN [entry EXCEPT ![k] = None] ELSE entry
  /\ UNCHANGED <<warm, build, summary>>

Hit(r) ==
  /\ request[r].pc = "asked" /\ Valid(request[r].key)
  /\ request' = [request EXCEPT ![r] = Idle]
  /\ UNCHANGED <<entry, warm, build, summary>>

Miss(r) ==
  /\ request[r].pc = "asked" /\ ~ Valid(request[r].key)
  /\ request' = [request EXCEPT ![r] = Job("reading", @.key, 0)]
  /\ UNCHANGED <<entry, warm, build, summary>>

Respond(r) ==
  /\ request[r].pc = "reading"
  /\ MaySet(request[r].key, request[r].data)
  /\ request' = [request EXCEPT ![r] = Idle]
  /\ UNCHANGED <<warm, build, summary>>

-----------------------------------------------------------------------------
(* The warmer: every audit path, then the summary. *)

StartWarming ==
  /\ \A k \in Warmed : warm[k] = Idle
  /\ build[Warmer] = None
  /\ warm' = [k \in Warmed |-> Job("todo", k, 0)]
  /\ UNCHANGED <<entry, request, build, summary>>

Warm(k, job) == warm' = [warm EXCEPT ![k] = job] /\ UNCHANGED <<request, build, summary>>

Skip(k) ==
  /\ warm[k].pc = "todo" /\ Valid(k)
  /\ Warm(k, Job("done", k, 0)) /\ UNCHANGED entry

FetchAnyway(k) ==                                \* mutant: warms what is valid too
  /\ warm[k].pc = "todo"
  /\ Warm(k, Job("fetching", k, 0)) /\ UNCHANGED entry
\* The warmer's request goes through cacheMiddleware itself, which may find that
\* another request has filled the entry by now.
Fetch(k) ==
  /\ warm[k].pc = "todo" /\ ~ Valid(k)
  /\ Warm(k, Job("fetching", k, 0)) /\ UNCHANGED entry

FetchHit(k) ==
  /\ warm[k].pc = "fetching" /\ Valid(k)
  /\ Warm(k, [warm[k] EXCEPT !.pc = "reading", !.data = entry[k].data]) /\ UNCHANGED entry

FetchMiss(k) ==
  /\ warm[k].pc = "fetching" /\ ~ Valid(k)
  /\ Warm(k, [warm[k] EXCEPT !.pc = "reading"]) /\ UNCHANGED entry

FinishWarm(k) ==
  /\ warm[k].pc = "reading"
  /\ MaySet(k, warm[k].data)
  /\ Warm(k, Job("done", k, 0))

-----------------------------------------------------------------------------
(* The summary. *)

\* The oldest of the data a summary is built from.
Oldest == LET ages == {0} \cup {entry[k].data : k \in {w \in Warmed : Valid(w)}} IN
  {a \in ages : \A o \in ages : o <= a}

\* rebuildBatchSummary: the valid entries, then the pointer and its time.
Build(b) ==
  /\ build[b] = None
  /\ IF b = Warmer THEN Warmed # {} /\ \A k \in Warmed : warm[k].pc = "done"
                   ELSE request[b].pc = "building"
  /\ \E age \in Oldest : build' = [build EXCEPT ![b] = [data |-> age, took |-> 0]]
  /\ UNCHANGED <<entry, request, warm, summary>>

Publish(b) ==
  /\ build[b] # None
  /\ summary' = [data |-> build[b].data, set |-> 0]
  /\ build' = [build EXCEPT ![b] = None]
  /\ IF b = Warmer THEN warm' = [k \in Warmed |-> Idle] /\ UNCHANGED request
                   ELSE request' = [request EXCEPT ![b] = Idle] /\ UNCHANGED warm
  /\ UNCHANGED entry

\* handleAuditSummary serves a summary that is fresh and has one built otherwise.
Fresh == summary # None /\ summary.set < SummaryTtl
AskSummary(r) ==
  /\ request[r].pc = "idle" /\ ~ Fresh
  /\ request' = [request EXCEPT ![r] = Job("building", None, 0)]
  /\ UNCHANGED <<entry, warm, build, summary>>

Aged(x) == IF x = None THEN None ELSE [x EXCEPT !.data = Older(@), !.set = Older(@)]
Worked(job) == IF job.pc \in {"idle", "todo", "done"} THEN job
               ELSE [job EXCEPT !.data = Older(@), !.took = @ + 1]

Tick ==
  /\ \A r \in Requests : request[r].took < MaxWork
  /\ \A k \in Warmed : warm[k].took < MaxWork
  /\ \A b \in Builders : build[b] # None => build[b].took < MaxWork
  /\ entry' = [k \in Keys |-> Aged(entry[k])]
  /\ summary' = Aged(summary)
  /\ request' = [r \in Requests |-> Worked(request[r])]
  /\ warm' = [k \in Warmed |-> Worked(warm[k])]
  /\ build' = [b \in Builders |-> IF build[b] = None THEN None
                 ELSE [data |-> Older(build[b].data), took |-> build[b].took + 1]]

Next ==
  \/ \E r \in Requests : \/ \E k \in Keys : Ask(r, k)
                         \/ Hit(r) \/ Miss(r) \/ Respond(r) \/ AskSummary(r)
  \/ StartWarming
  \/ \E k \in Warmed : Skip(k) \/ Fetch(k) \/ FetchHit(k) \/ FetchMiss(k) \/ FinishWarm(k)
  \/ \E b \in Builders : Build(b) \/ Publish(b)
  \/ Tick

Spec == Init /\ [][Next]_vars

-----------------------------------------------------------------------------
\* Data taken from the cache began to be read at most Ttl and two handlers' time
\* ago, whatever requests, refreshes and the warmer do to the entries at once (the
\* warmer may set again, as new, what a request next to it has set, but only once);
\* that of a summary at most SummaryTtl and a rebuild before that.
ServedAge ==
  /\ \A k \in Keys : Valid(k) => entry[k].data <= Ttl + 2 * MaxWork
  /\ Fresh => summary.data <= Ttl + SummaryTtl + 3 * MaxWork
=============================================================================
