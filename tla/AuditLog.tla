------------------------------ MODULE AuditLog ------------------------------
(***************************************************************************)
(* The audit logger (internal/audit/logger.go) and the rotation and cleanup *)
(* handlers of the dashboard (internal/dashboard/handlers_system.go): the   *)
(* events in the current file, in the rotated ones and in the ring buffer,  *)
(* across disk faults and restarts.                                         *)
(*                                                                         *)
(* Events are numbered in the order they are logged.  Of a file we keep the *)
(* events whose lines can be read back.  A rotated file is named after the  *)
(* second of its rotation.                                                  *)
(***************************************************************************)
EXTENDS Integers, Sequences, FiniteSets

CONSTANTS
  None,       \* no file, no event
  RingSize,   \* ringSize (500)
  MaxSize,    \* maxSize of the current file, in lines (100 MB)
  MaxAge,     \* maxAgeDays, in seconds (30 days)
  MaxEvents,  \* bound: events logged
  MaxTime,    \* bound: seconds
  MaxFaults   \* bound: failures of the disk

Seconds == 0 .. MaxTime
Events == 1 .. MaxEvents
\* A file: its readable events, its number of lines, whether it ends inside a line,
\* and when it was last written.
Files == [events : SUBSET Events, lines : 0 .. MaxEvents, torn : BOOLEAN, at : Seconds]

ASSUME AuditAssumption ==
  /\ RingSize \in Nat \ {0} /\ MaxSize \in Nat \ {0} /\ MaxAge \in Nat
  /\ MaxEvents \in Nat /\ MaxTime \in Nat /\ MaxFaults \in Nat
  /\ None \notin Events /\ None \notin Files

VARIABLES
  clock,     \* the second it is
  handle,    \* file and encoder: "open", "broken" (the encoder has failed),
             \* "lost" (nil after a failed reopen) or "noop" (NoopLogger)
  current,   \* the file at the log's path
  rotated,   \* the file rotated in each second, if it is still there
  ring,      \* the ring buffer, from index 0
  rptr,      \* the slot of the next event
  logged,    \* history: number of events logged
  since,     \* history: the last event logged before this process began
  written,   \* history: events that once could be read back from disk
  unheard,   \* history: events logged while no encoder worked
  faults     \* history: failures of the disk

vars == <<clock, handle, current, rotated, ring, rptr, logged, since, written, unheard, faults>>

EmptyFile == [events |-> {}, lines |-> 0, torn |-> FALSE, at |-> clock]
EmptyRing == [k \in 0 .. RingSize - 1 |-> None]

EventsIn(file) == IF file = None THEN {} ELSE file.events
HasFile == handle \in {"open", "broken"}
OnDisk == EventsIn(current) \cup UNION {EventsIn(rotated[s]) : s \in Seconds}

Init ==
  /\ clock = 0 /\ handle = "open" /\ current = EmptyFile
  /\ rotated = [s \in Seconds |-> None]
  /\ ring = EmptyRing /\ rptr = 0
  /\ logged = 0 /\ since = 0 /\ written = {} /\ unheard = {} /\ faults = 0

-----------------------------------------------------------------------------
\* Closing the file, renaming it and opening a fresh one.  The rename and the opening
\* may fail, and the rename replaces a file of the same name.
FreshTruncated(renamed, reopened) ==             \* mutant: reopened without O_APPEND
  IF reopened THEN EmptyFile ELSE IF renamed THEN None ELSE current
Fresh(renamed, reopened) ==
  IF ~ renamed THEN current ELSE IF reopened THEN EmptyFile ELSE None

Put(renamed) == IF renamed THEN [rotated EXCEPT ![clock] = current] ELSE rotated

\* So many of these did not work.
Fail(oks) == faults' = faults + Cardinality({x \in DOMAIN oks : ~ oks[x]}) /\ faults' <= MaxFaults

\* Rotate, from the dashboard; it reports success without a file too.  openFile makes
\* a new encoder.
Rotate ==
  /\ HasFile
  /\ \E renamed, reopened \in BOOLEAN :
       /\ Fail(<<renamed, reopened>>)
       /\ current' = Fresh(renamed, reopened)
       /\ rotated' = Put(renamed)
       /\ handle' = IF reopened THEN "open" ELSE "lost"
  /\ UNCHANGED <<clock, ring, rptr, logged, since, written, unheard>>

\* Encode: a line, part of one, or nothing reaches the disk.  A line that lands on
\* part of another cannot be read.
EncodeUnended(file, e, outcome) ==               \* mutant: lines stay open
  [events |-> IF outcome = "whole" /\ ~ file.torn THEN file.events \cup {e} ELSE file.events,
   lines |-> file.lines + 1, torn |-> file.torn \/ outcome = "part", at |-> clock]
Encode(file, e, outcome) ==
  IF outcome = "nothing" THEN file
  ELSE [events |-> IF outcome = "whole" /\ ~ file.torn THEN file.events \cup {e} ELSE file.events,
        lines |-> file.lines + 1, torn |-> outcome = "part", at |-> clock]

ToRingLate(e) ==                                 \* mutant: rptr moves first
  /\ rptr' = (rptr + 1) % RingSize
  /\ ring' = [ring EXCEPT ![rptr'] = e]
ToRingUnwrapped(e) ==                            \* mutant: no wrap-around
  ring' = [ring EXCEPT ![rptr] = e] /\ rptr' = rptr + 1
ToRing(e) ==
  /\ ring' = [ring EXCEPT ![rptr] = e]
  /\ rptr' = (rptr + 1) % RingSize

\* A json.Encoder keeps the first error of its file and writes nothing afterwards.
Encoded(outcome) == IF outcome = "whole" THEN "open" ELSE "broken"

\* Log: maybeRotate turns a full file first; then the event goes to the file, if its
\* encoder works, and to the ring.
Log ==
  LET e == logged + 1
      full == HasFile /\ current.lines >= MaxSize
  IN
  /\ logged < MaxEvents
  /\ logged' = e
  /\ ToRing(e)
  /\ \E renamed, reopened \in BOOLEAN, outcome \in {"whole", "part", "nothing"} :
       LET file == IF full THEN Fresh(renamed, reopened) ELSE current
           opened == IF ~ reopened THEN "lost" ELSE IF full THEN "open" ELSE handle
       IN
       /\ full \/ (renamed /\ reopened)
       /\ rotated' = IF full THEN Put(renamed) ELSE rotated
       /\ IF opened = "open"
            THEN /\ handle' = Encoded(outcome) /\ current' = Encode(file, e, outcome)
                 /\ UNCHANGED unheard
            ELSE /\ outcome = "whole" /\ handle' = opened /\ current' = file
                 /\ unheard' = unheard \cup {e}
       /\ Fail(<<renamed, reopened, outcome = "whole">>)
  /\ written' = written \cup (EventsIn(current') \cap {e})
  /\ UNCHANGED <<clock, since>>

\* Cleanup, from the dashboard.  (Without a log path it looks elsewhere.)
Cleanup ==
  /\ handle # "noop"
  /\ rotated' = [s \in Seconds |->
       IF rotated[s] # None /\ rotated[s].at < clock - MaxAge THEN None ELSE rotated[s]]
  /\ UNCHANGED <<clock, handle, current, ring, rptr, logged, since, written, unheard, faults>>

\* The process starts again: NewLogger appends to the file at the path; when it
\* cannot be opened, events go to memory only.
Restart ==
  /\ \/ /\ handle' = "open" /\ current' = IF current = None THEN EmptyFile ELSE current
        /\ UNCHANGED faults
     \/ /\ handle' = "noop" /\ UNCHANGED current
        /\ faults' = faults + 1 /\ faults' <= MaxFaults
  /\ ring' = EmptyRing /\ rptr' = 0 /\ since' = logged
  /\ UNCHANGED <<clock, rotated, logged, written, unheard>>

Tick ==
  /\ clock < MaxTime
  /\ clock' = clock + 1
  /\ UNCHANGED <<handle, current, rotated, ring, rptr, logged, since, written, unheard, faults>>

Next == Rotate \/ Log \/ Cleanup \/ Restart \/ Tick

Spec == Init /\ [][Next]_vars

-----------------------------------------------------------------------------
TypeOK ==
  /\ clock \in Seconds /\ handle \in {"open", "broken", "lost", "noop"}
  /\ current \in Files \cup {None} /\ (HasFile => current # None)
  /\ rotated \in [Seconds -> Files \cup {None}]
  /\ ring \in [0 .. RingSize - 1 -> Events \cup {None}] /\ rptr \in 0 .. RingSize - 1
  /\ logged \in 0 .. MaxEvents /\ since \in 0 .. logged
  /\ written \subseteq Events /\ unheard \subseteq Events
  /\ faults \in 0 .. MaxFaults

\* The events in the last i slots before rptr, newest first.
Backwards[i \in 0 .. RingSize] ==
  IF i = 0 THEN << >>
  ELSE LET e == ring[(rptr - i + RingSize) % RingSize] IN
       IF e = None THEN Backwards[i - 1] ELSE Append(Backwards[i - 1], e)

Recent(n) == Backwards[IF n < RingSize THEN n ELSE RingSize]

\* The dashboard shows the last events of this process, newest first, however
\* often the ring has gone round: as many as it asked for or the ring holds.
RecentIsTail ==
  \A n \in 0 .. RingSize + 1 :
    LET shown == Recent(n)
        all == logged - since
    IN
    /\ Len(shown) = CHOOSE m \in {n, RingSize, all} : \A x \in {n, RingSize, all} : m <= x
    /\ \A i \in 1 .. Len(shown) : shown[i] = logged - i + 1

\* The events that are not on disk, were not, and had an encoder to go to; and the
\* first events of each silence, a stretch of events that had none.
Lost == (1 .. logged) \ (written \cup unheard)
Silences == {e \in unheard : e - 1 \notin unheard}

\* A disk fault costs the log at most two events, the one it hits and the one that
\* lands on the torn line, and at most one silence, for as long as nobody opens the
\* log anew (Log, maybeRotate, Rotate).
FaultsCostLittle == Cardinality(Lost) <= 2 * faults /\ Cardinality(Silences) <= faults

\* What can be read back from disk goes only by Cleanup, in a file not written for
\* longer than MaxAge, or when the log is rotated twice in the same second.
KeptOnDisk ==
  [][\A e \in OnDisk \ OnDisk' :
       \/ \E s \in Seconds : e \in EventsIn(rotated[s]) /\ rotated[s].at < clock - MaxAge
       \/ e \in EventsIn(rotated[clock])]_vars
=============================================================================
