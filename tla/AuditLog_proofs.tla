--------------------------- MODULE AuditLog_proofs ---------------------------
(***************************************************************************)
(* The ring shows the last events, a disk fault costs at most two, and     *)
(* what is on disk stays: for rings, files and logs of any size, any       *)
(* number of faults and restarts, and any clock.                           *)
(***************************************************************************)
EXTENDS AuditLog, FiniteSetTheorems, WellFoundedInduction, TLAPS

LEMMA Bounds ==
  /\ RingSize \in Nat \ {0} /\ MaxSize \in Nat \ {0} /\ MaxAge \in Nat
  /\ MaxEvents \in Nat /\ MaxTime \in Nat /\ MaxFaults \in Nat
  /\ None \notin Events /\ None \notin Files
  BY AuditAssumption

-----------------------------------------------------------------------------
(* The failures of a call are counted one by one.                           *)

\* Of a call with two results, the last of which tells whether the file is open.
LEMMA FailOfTwo ==
  ASSUME faults \in Nat, NEW a \in BOOLEAN, NEW b \in BOOLEAN, Fail(<<a, b>>)
  PROVE  /\ faults' \in 0 .. MaxFaults /\ faults' >= faults
         /\ ~ b => faults' >= faults + 1
  <1> DEFINE wrong == {x \in DOMAIN <<a, b>> : ~ <<a, b>>[x]}
  <1>1. wrong \in SUBSET Nat /\ \A x \in wrong : x <= 2
    OBVIOUS
  <1>2. IsFiniteSet(wrong) /\ Cardinality(wrong) \in Nat
    BY <1>1, FS_BoundedSetOfNaturals, FS_CardinalityType
  <1>3. ASSUME ~ b PROVE Cardinality(wrong) >= 1
    <2>1. 2 \in wrong
      BY <1>3
    <2>2. Cardinality(wrong) # 0
      BY <1>2, <2>1, FS_EmptySet
    <2>3. QED
      BY <1>2, <2>2
  <1>4. faults' = faults + Cardinality(wrong) /\ faults' <= MaxFaults
    BY DEF Fail
  <1> HIDE DEF wrong
  <1>5. QED
    BY <1>2, <1>3, <1>4, Bounds

\* Of a call with three, the last of which tells whether the line was written.
LEMMA FailOfThree ==
  ASSUME faults \in Nat, NEW a \in BOOLEAN, NEW b \in BOOLEAN, NEW c \in BOOLEAN,
         Fail(<<a, b, c>>)
  PROVE  /\ faults' \in 0 .. MaxFaults /\ faults' >= faults
         /\ ~ b \/ ~ c => faults' >= faults + 1
  <1> DEFINE wrong == {x \in DOMAIN <<a, b, c>> : ~ <<a, b, c>>[x]}
  <1>1. wrong \in SUBSET Nat /\ \A x \in wrong : x <= 3
    OBVIOUS
  <1>2. IsFiniteSet(wrong) /\ Cardinality(wrong) \in Nat
    BY <1>1, FS_BoundedSetOfNaturals, FS_CardinalityType
  <1>3. ASSUME ~ b \/ ~ c PROVE Cardinality(wrong) >= 1
    <2>1. 2 \in wrong \/ 3 \in wrong
      BY <1>3
    <2>2. Cardinality(wrong) # 0
      BY <1>2, <2>1, FS_EmptySet
    <2>3. QED
      BY <1>2, <2>2
  <1>4. faults' = faults + Cardinality(wrong) /\ faults' <= MaxFaults
    BY DEF Fail
  <1> HIDE DEF wrong
  <1>5. QED
    BY <1>2, <1>3, <1>4, Bounds

-----------------------------------------------------------------------------
(* Types.                                                                   *)

\* What a fresh file, and a file with one more line, look like.
LEMMA EmptyFileType ==
  ASSUME clock \in Seconds
  PROVE  EmptyFile \in Files /\ EmptyFile # None /\ EmptyFile.lines = 0 /\ ~ EmptyFile.torn
  <1>1. 0 \in 0 .. MaxEvents
    BY Bounds
  <1>2. EmptyFile \in Files
    BY <1>1 DEF EmptyFile, Files
  <1>3. QED
    BY <1>2, Bounds DEF EmptyFile

LEMMA EncodeType ==
  ASSUME clock \in Seconds, NEW file \in Files, NEW e \in Events, file.lines < e,
         NEW outcome \in {"whole", "part", "nothing"}
  PROVE  /\ Encode(file, e, outcome) \in Files /\ Encode(file, e, outcome) # None
         /\ Encode(file, e, outcome).lines <= e
         /\ file.events \subseteq Encode(file, e, outcome).events
  <1>1. file.lines + 1 \in 0 .. MaxEvents /\ file.lines \in Nat /\ e \in Nat
    BY Bounds DEF Files, Events
  <1>2. (IF outcome = "whole" /\ ~ file.torn THEN file.events \cup {e} ELSE file.events)
          \in SUBSET Events
    BY DEF Files
  <1>3. Encode(file, e, outcome) \in Files
    BY <1>1, <1>2 DEF Encode, Files
  <1>4. QED
    BY <1>1, <1>3, Bounds DEF Encode

\* Closing the current file: the new one is the old, an empty one, or none.
LEMMA FreshType ==
  ASSUME clock \in Seconds, current \in Files, NEW renamed \in BOOLEAN, NEW reopened \in BOOLEAN
  PROVE  /\ Fresh(renamed, reopened) \in {current, EmptyFile, None}
         /\ Fresh(renamed, reopened) \in Files \cup {None}
         /\ reopened => Fresh(renamed, reopened) # None
  BY EmptyFileType, Bounds DEF Fresh

LEMMA PutType ==
  ASSUME TypeOK, current # None, NEW renamed \in BOOLEAN
  PROVE  Put(renamed) \in [Seconds -> Files \cup {None}]
  BY DEF Put, TypeOK

\* No file has more lines than there were events.
LinesLogged == current # None => current.lines <= logged

\* Log left this file to write to, and writing went like this.
Wrote(file, outcome) ==
  /\ file \in {current, None} \/ (file = EmptyFile /\ current # None)
  /\ (file = current /\ rotated' = rotated) \/ rotated' = Put(TRUE)
  /\ outcome # "whole" => faults' >= faults + 1
  /\ \/ /\ handle' = Encoded(outcome) /\ file # None
        /\ current' = Encode(file, logged', outcome) /\ unheard' = unheard
     \/ /\ handle' \in {"broken", "lost", "noop"} /\ (handle' = "broken" => file # None)
        /\ handle = "open" => faults' >= faults + 1
        /\ current' = file /\ unheard' = unheard \cup {logged'}

\* What Log does, whether it turns the file first or not.
LEMMA LogEncodes ==
  ASSUME TypeOK, LinesLogged, Log
  PROVE  /\ logged' = logged + 1 /\ logged' \in Events
         /\ ToRing(logged') /\ UNCHANGED <<clock, since>>
         /\ faults' \in 0 .. MaxFaults /\ faults' >= faults
         /\ rotated' \in [Seconds -> Files \cup {None}]
         /\ written' = written \cup (EventsIn(current') \cap {logged'})
         /\ \E file \in Files \cup {None}, outcome \in {"whole", "part", "nothing"} :
              Wrote(file, outcome)
  <1> DEFINE e == logged + 1
             full == HasFile /\ current.lines >= MaxSize
  <1>1. /\ logged < MaxEvents /\ logged' = e /\ ToRing(e) /\ UNCHANGED <<clock, since>>
        /\ written' = written \cup (EventsIn(current') \cap {e})
    BY DEF Log
  <1>2. PICK renamed \in BOOLEAN, reopened \in BOOLEAN, outcome \in {"whole", "part", "nothing"} :
          LET file == IF full THEN Fresh(renamed, reopened) ELSE current
              opened == IF ~ reopened THEN "lost" ELSE IF full THEN "open" ELSE handle
          IN
          /\ full \/ (renamed /\ reopened)
          /\ rotated' = IF full THEN Put(renamed) ELSE rotated
          /\ IF opened = "open"
               THEN /\ handle' = Encoded(outcome) /\ current' = Encode(file, e, outcome)
                    /\ UNCHANGED unheard
               ELSE /\ outcome = "whole" /\ handle' = opened /\ current' = file
                    /\ unheard' = unheard \cup {e}
          /\ Fail(<<renamed, reopened, outcome = "whole">>)
    BY DEF Log
  <1> DEFINE file == IF full THEN Fresh(renamed, reopened) ELSE current
             opened == IF ~ reopened THEN "lost" ELSE IF full THEN "open" ELSE handle
  <1>3. /\ faults' \in 0 .. MaxFaults /\ faults' >= faults
        /\ outcome # "whole" \/ ~ reopened => faults' >= faults + 1
    <2>1. (outcome = "whole") \in BOOLEAN /\ faults \in Nat
      BY Bounds DEF TypeOK
    <2>2. QED
      BY <1>2, <2>1, FailOfThree
  <1>4. logged \in 0 .. MaxEvents /\ e \in Events
    BY <1>1, Bounds DEF TypeOK, Events
  <1>5. full => current \in Files /\ current # None
    BY DEF TypeOK
  <1>6. rotated' \in [Seconds -> Files \cup {None}]
    BY <1>2, <1>5, PutType DEF TypeOK
  <1>7. /\ file \in Files \cup {None}
        /\ file \in {current, None} \/ (file = EmptyFile /\ current # None)
        /\ opened \in {"open", "broken"} => file # None
    BY <1>2, <1>5, FreshType DEF TypeOK, HasFile
  <1>8. /\ opened \in {"open", "broken", "lost", "noop"}
        /\ opened # "open" /\ handle = "open" => ~ reopened
    BY <1>2 DEF TypeOK
  <1>9. (file = current /\ rotated' = rotated) \/ rotated' = Put(TRUE)
    BY <1>2 DEF Fresh, Put
  <1>10. IF opened = "open"
           THEN /\ handle' = Encoded(outcome) /\ current' = Encode(file, e, outcome)
                /\ unheard' = unheard
           ELSE /\ handle' = opened /\ current' = file /\ unheard' = unheard \cup {e}
    BY <1>2
  <1> HIDE DEF file, full, opened
  <1>11. Wrote(file, outcome)
    BY <1>1, <1>3, <1>7, <1>8, <1>9, <1>10 DEF Wrote
  <1>12. QED
    BY <1>1, <1>3, <1>4, <1>6, <1>7, <1>11

Typed == TypeOK /\ LinesLogged

LEMMA InitTyped == Init => Typed
  <1> SUFFICES ASSUME Init PROVE Typed
    OBVIOUS
  <1>1. clock \in Seconds /\ 0 \in 0 .. MaxEvents /\ 0 \in 0 .. RingSize - 1 /\ 0 \in 0 .. MaxFaults
    BY Bounds DEF Init, Seconds
  <1>2. EmptyFile \in Files /\ EmptyFile # None /\ EmptyFile.lines = 0
    BY <1>1, EmptyFileType
  <1>3. rotated \in [Seconds -> Files \cup {None}]
    BY DEF Init
  <1>4. ring \in [0 .. RingSize - 1 -> Events \cup {None}]
    BY DEF Init, EmptyRing
  <1>5. QED
    BY <1>1, <1>2, <1>3, <1>4 DEF Init, Typed, TypeOK, LinesLogged, HasFile

LEMMA RotateTyped == ASSUME Typed, Rotate PROVE Typed'
  <1>1. TypeOK /\ LinesLogged /\ current \in Files /\ current # None /\ current.lines <= logged
        /\ clock \in Seconds /\ logged \in 0 .. MaxEvents
    BY DEF Typed, TypeOK, LinesLogged, Rotate, HasFile
  <1>2. PICK renamed \in BOOLEAN, reopened \in BOOLEAN :
          /\ Fail(<<renamed, reopened>>)
          /\ current' = Fresh(renamed, reopened)
          /\ rotated' = Put(renamed)
          /\ handle' = IF reopened THEN "open" ELSE "lost"
    BY DEF Rotate
  <1>3. faults' \in 0 .. MaxFaults
    BY <1>1, <1>2, FailOfTwo, Bounds DEF TypeOK
  <1>4. /\ current' \in Files \cup {None} /\ current' \in {current, EmptyFile, None}
        /\ HasFile' => current' # None
    BY <1>1, <1>2, FreshType DEF HasFile
  <1>5. rotated' \in [Seconds -> Files \cup {None}]
    BY <1>1, <1>2, PutType
  <1>6. LinesLogged'
    BY <1>1, <1>4, EmptyFileType, Bounds DEF LinesLogged, Rotate
  <1>7. handle' \in {"open", "broken", "lost", "noop"}
    BY <1>2
  <1>8. UNCHANGED <<clock, ring, rptr, logged, since, written, unheard>>
    BY DEF Rotate
  <1>9. QED
    BY <1>1, <1>3, <1>4, <1>5, <1>6, <1>7, <1>8 DEF Typed, TypeOK

LEMMA LogTyped == ASSUME Typed, Log PROVE Typed'
  <1>1. TypeOK /\ LinesLogged
    BY DEF Typed
  <1>2. /\ logged' = logged + 1 /\ logged' \in Events
        /\ ToRing(logged') /\ UNCHANGED <<clock, since>>
        /\ faults' \in 0 .. MaxFaults
        /\ rotated' \in [Seconds -> Files \cup {None}]
        /\ written' = written \cup (EventsIn(current') \cap {logged'})
    BY <1>1, LogEncodes
  <1>3. PICK file \in Files \cup {None}, outcome \in {"whole", "part", "nothing"} :
          Wrote(file, outcome)
    BY <1>1, LogEncodes
  <1>4. logged \in Nat /\ logged' \in 0 .. MaxEvents /\ since \in 0 .. logged /\ clock \in Seconds
    BY <1>1, <1>2, Bounds DEF TypeOK, Events
  <1>5. file # None => file \in Files /\ file.lines <= logged
    BY <1>1, <1>3, <1>4, EmptyFileType DEF LinesLogged, Wrote
  <1>6. /\ current' \in Files \cup {None} /\ (HasFile' => current' # None)
        /\ current' # None => current'.lines <= logged'
    <2>1. CASE file # None /\ current' = Encode(file, logged', outcome)
      <3>1. file \in Files /\ file.lines < logged' /\ file.lines \in Nat
        BY <1>2, <1>4, <1>5, <2>1 DEF Files
      <3>2. QED
        BY <1>2, <1>4, <2>1, <3>1, EncodeType
    <2>2. CASE current' = file /\ (HasFile' => file # None)
      <3>1. file # None => file.lines \in Nat
        BY <1>5 DEF Files
      <3>2. QED
        BY <1>2, <1>3, <1>4, <1>5, <2>2, <3>1
    <2>3. QED
      BY <1>3, <2>1, <2>2 DEF Wrote, HasFile
  <1>7. /\ ring' \in [0 .. RingSize - 1 -> Events \cup {None}] /\ rptr' \in 0 .. RingSize - 1
    BY <1>1, <1>2, Bounds DEF TypeOK, ToRing
  <1>8. /\ written' \subseteq Events /\ unheard' \subseteq Events
        /\ handle' \in {"open", "broken", "lost", "noop"}
    BY <1>1, <1>2, <1>3 DEF TypeOK, Wrote, Encoded
  <1>9. since' \in 0 .. logged' /\ clock' \in Seconds
    BY <1>2, <1>4
  <1>10. QED
    BY <1>2, <1>4, <1>6, <1>7, <1>8, <1>9 DEF Typed, TypeOK, LinesLogged

LEMMA RestartTyped == ASSUME Typed, Restart PROVE Typed'
  <1>1. /\ TypeOK /\ LinesLogged /\ logged \in 0 .. MaxEvents /\ faults \in 0 .. MaxFaults
        /\ clock \in Seconds /\ current \in Files \cup {None}
    BY DEF Typed, TypeOK
  <1>2. /\ EmptyFile \in Files /\ EmptyFile # None /\ EmptyFile.lines = 0
    BY <1>1, EmptyFileType
  <1>3. /\ current' \in Files \cup {None} /\ (HasFile' => current' # None)
        /\ handle' \in {"open", "broken", "lost", "noop"} /\ LinesLogged'
    BY <1>1, <1>2, Bounds DEF Restart, LinesLogged, HasFile
  <1>4. faults' \in 0 .. MaxFaults
    BY <1>1, Bounds DEF Restart
  <1>5. /\ ring' \in [0 .. RingSize - 1 -> Events \cup {None}] /\ rptr' \in 0 .. RingSize - 1
        /\ since' \in 0 .. logged'
    BY <1>1, Bounds DEF Restart, EmptyRing
  <1>6. UNCHANGED <<clock, rotated, logged, written, unheard>>
    BY DEF Restart
  <1>7. QED
    BY <1>1, <1>3, <1>4, <1>5, <1>6 DEF Typed, TypeOK

LEMMA QuietTyped ==
  ASSUME Typed, Cleanup \/ Tick \/ UNCHANGED vars
  PROVE  Typed'
  <1>1. CASE Cleanup
    <2>1. rotated' \in [Seconds -> Files \cup {None}]
      BY <1>1 DEF Cleanup, Typed, TypeOK
    <2>2. QED
      BY <1>1, <2>1 DEF Cleanup, Typed, TypeOK, LinesLogged, HasFile
  <1>2. CASE Tick
    <2>1. clock' \in Seconds
      BY <1>2, Bounds DEF Tick, Typed, TypeOK, Seconds
    <2>2. QED
      BY <1>2, <2>1 DEF Tick, Typed, TypeOK, LinesLogged, HasFile
  <1>3. CASE UNCHANGED vars
    BY <1>3 DEF vars, Typed, TypeOK, LinesLogged, HasFile
  <1>4. QED
    BY <1>1, <1>2, <1>3

LEMMA NextTyped == Typed /\ [Next]_vars => Typed'
  BY RotateTyped, LogTyped, RestartTyped, QuietTyped DEF Next

THEOREM TypedAlways == Spec => []Typed
  BY InitTyped, NextTyped, PTL DEF Spec

\* Files, ring and counters keep their shapes through any faults and restarts.
THEOREM TypeCorrect == Spec => []TypeOK
  <1>1. Typed => TypeOK
    BY DEF Typed
  <1>2. QED
    BY <1>1, TypedAlways, PTL

-----------------------------------------------------------------------------
(* What a disk fault costs.                                                 *)

\* The file ends inside a line: the next event will be lost.
Torn == current # None /\ current.torn

\* The lost events, and the one that will be, are two for each fault: a fault loses
\* the event it hits, or tears the file, or both.
LostPaidFor == Cardinality(Lost) + (IF Torn THEN 1 ELSE 0) <= 2 * faults

LEMMA LostFinite ==
  ASSUME logged \in Nat
  PROVE  IsFiniteSet(Lost) /\ Cardinality(Lost) \in Nat
  <1>1. IsFiniteSet(1 .. logged) /\ Lost \in SUBSET (1 .. logged)
    BY FS_Interval DEF Lost
  <1>2. QED
    BY <1>1, FS_Subset, FS_CardinalityType

\* Without a new event nothing is lost, and only Log tears the file.
LEMMA StillPaidFor ==
  ASSUME LostPaidFor, logged \in Nat, faults \in Nat, faults' \in Nat, faults' >= faults,
         UNCHANGED <<logged, written, unheard>>, Torn' => Torn
  PROVE  LostPaidFor'
  <1>1. Lost' = Lost /\ Cardinality(Lost) \in Nat
    BY LostFinite DEF Lost
  <1>2. QED
    BY <1>1 DEF LostPaidFor

LEMMA LogPaidFor == ASSUME Typed, LostPaidFor, Log PROVE LostPaidFor'
  <1> DEFINE e == logged + 1
  <1>1. TypeOK /\ LinesLogged /\ logged \in Nat /\ faults \in Nat
    BY Bounds DEF Typed, TypeOK
  <1>2. /\ logged' = e /\ faults' \in Nat /\ faults' >= faults
        /\ written' = written \cup (EventsIn(current') \cap {e})
    BY <1>1, LogEncodes
  <1>3. PICK file \in Files \cup {None}, outcome \in {"whole", "part", "nothing"} :
              /\ file \in {current, None} \/ (file = EmptyFile /\ current # None)
              /\ outcome # "whole" => faults' >= faults + 1
              /\ \/ /\ file # None
                    /\ current' = Encode(file, e, outcome) /\ unheard' = unheard
                 \/ current' = file /\ unheard' = unheard \cup {e}
    BY <1>1, <1>2, LogEncodes DEF Wrote
  <1> DEFINE encoded == /\ file # None
                        /\ current' = Encode(file, e, outcome) /\ unheard' = unheard
  <1>4. file # None /\ file.torn => Torn
    BY <1>1, <1>3, EmptyFileType DEF Torn, TypeOK
  <1>5. IsFiniteSet(Lost) /\ Cardinality(Lost) \in Nat
    BY <1>1, LostFinite
  <1>6. Lost' \subseteq Lost \cup {e}
    BY <1>1, <1>2, <1>3 DEF Lost
  <1>7. Cardinality(Lost') \in Nat /\ Cardinality(Lost') <= Cardinality(Lost) + 1
    <2>1. IsFiniteSet(Lost \cup {e}) /\ Cardinality(Lost \cup {e}) <= Cardinality(Lost) + 1
      BY <1>5, FS_AddElement
    <2>2. /\ IsFiniteSet(Lost') /\ Cardinality(Lost') \in Nat
          /\ Cardinality(Lost') <= Cardinality(Lost \cup {e})
      BY <1>6, <2>1, FS_Subset, FS_CardinalityType
    <2>3. Cardinality(Lost \cup {e}) \in Nat
      BY <2>1, FS_CardinalityType
    <2>4. QED
      BY <1>5, <2>1, <2>2, <2>3
  <1>8. ASSUME e \notin Lost' PROVE Cardinality(Lost') <= Cardinality(Lost)
    <2>1. Lost' \in SUBSET Lost
      BY <1>6, <1>8
    <2>2. QED
      BY <1>5, <2>1, FS_Subset
  <1>9. CASE current' = file /\ unheard' = unheard \cup {e}
    <2>1. e \notin Lost' /\ (Torn' => Torn)
      BY <1>2, <1>3, <1>4, <1>9 DEF Lost, Torn
    <2>2. QED
      BY <1>1, <1>2, <1>5, <1>7, <1>8, <2>1 DEF LostPaidFor
  <1>10. CASE encoded /\ outcome # "whole"
    BY <1>1, <1>2, <1>3, <1>5, <1>7, <1>10 DEF LostPaidFor
  <1>11. CASE encoded /\ outcome = "whole"
    <2>1. current' = Encode(file, e, outcome) /\ ~ Torn'
      <3>1. current' = Encode(file, e, outcome)
        BY <1>11
      <3>2. ~ Encode(file, e, outcome).torn
        BY <1>11 DEF Encode
      <3>3. QED
        BY <3>1, <3>2 DEF Torn
    <2>2. CASE file.torn
      BY <1>1, <1>2, <1>4, <1>5, <1>7, <1>11, <2>1, <2>2 DEF LostPaidFor
    <2>3. CASE ~ file.torn
      <3>1. e \in EventsIn(current')
        <4>1. current' \in Files \cup {None}
          BY LogTyped DEF Typed, TypeOK
        <4>2. current' # None
          <5>1. file \in Files /\ file.lines \in Nat /\ file.lines < e /\ clock \in Seconds
            BY <1>1, <1>3, <1>11, EmptyFileType DEF LinesLogged, Files, TypeOK
          <5>2. e \in Events
            BY <1>1, <1>2, LogEncodes
          <5>3. QED
            BY <1>11, <5>1, <5>2, EncodeType
        <4>3. e \in current'.events
          BY <1>11, <2>3 DEF Encode
        <4>4. QED
          BY <4>2, <4>3 DEF EventsIn
      <3>2. e \notin Lost'
        BY <1>2, <3>1 DEF Lost
      <3>3. QED
        BY <1>1, <1>2, <1>5, <1>7, <1>8, <2>1, <3>2 DEF LostPaidFor
    <2>4. QED
      BY <2>2, <2>3
  <1>12. QED
    BY <1>3, <1>9, <1>10, <1>11

LEMMA NextPaidFor == ASSUME Typed, LostPaidFor, [Next]_vars PROVE LostPaidFor'
  <1>1. /\ TypeOK /\ logged \in Nat /\ faults \in Nat /\ clock \in Seconds
        /\ current # None => current \in Files
    BY Bounds DEF Typed, TypeOK
  <1>2. Typed' /\ faults' \in Nat
    <2>1. Typed'
      BY NextTyped
    <2>2. QED
      BY <2>1, Bounds DEF Typed, TypeOK
  <1>3. CASE Rotate
    <2>1. PICK renamed \in BOOLEAN, reopened \in BOOLEAN :
            Fail(<<renamed, reopened>>) /\ current' = Fresh(renamed, reopened)
      BY <1>3 DEF Rotate
    <2>2. faults' >= faults
      BY <1>1, <2>1, FailOfTwo
    <2>3. Torn' => Torn
      <3>1. current # None /\ current' \in {current, EmptyFile, None}
        BY <1>1, <1>3, <2>1, FreshType DEF Rotate, TypeOK
      <3>2. QED
        BY <1>1, <3>1, EmptyFileType DEF Torn
    <2>4. QED
      BY <1>1, <1>2, <1>3, <2>2, <2>3, StillPaidFor DEF Rotate
  <1>4. CASE Restart
    <2>1. Torn' => Torn
      BY <1>1, <1>4, EmptyFileType DEF Restart, Torn
    <2>2. faults' >= faults
      BY <1>1, <1>4 DEF Restart
    <2>3. QED
      BY <1>1, <1>2, <1>4, <2>1, <2>2, StillPaidFor DEF Restart
  <1>5. CASE Cleanup \/ Tick \/ UNCHANGED vars
    BY <1>1, <1>5, StillPaidFor DEF Cleanup, Tick, vars, Torn
  <1>6. QED
    BY <1>3, <1>4, <1>5, LogPaidFor DEF Next

\* A silence begins with a fault: the ones there were, and the one that has begun
\* since the last event.
SilencesPaidFor ==
  Cardinality(Silences) + (IF handle # "open" /\ logged \notin unheard THEN 1 ELSE 0) <= faults

LEMMA SilencesFinite ==
  ASSUME TypeOK
  PROVE  IsFiniteSet(Silences) /\ Cardinality(Silences) \in Nat
  <1>1. IsFiniteSet(Events)
    <2>1. 1 \in Int /\ MaxEvents \in Int
      BY Bounds
    <2>2. QED
      BY <2>1, FS_Interval DEF Events
  <1>2. Silences \in SUBSET Events
    BY DEF Silences, TypeOK
  <1>3. QED
    BY <1>1, <1>2, FS_Subset, FS_CardinalityType

\* An event that has no encoder to go to starts a silence or goes on with one.
LEMMA LogSilences ==
  ASSUME Typed, SilencesPaidFor, Log
  PROVE  SilencesPaidFor'
  <1> DEFINE e == logged + 1
  <1>1. TypeOK /\ LinesLogged /\ logged \in Nat /\ faults \in Nat
    BY Bounds DEF Typed, TypeOK
  <1>2. logged' = e /\ faults' \in Nat /\ faults' >= faults
    BY <1>1, LogEncodes
  <1>3. PICK file \in Files \cup {None}, outcome \in {"whole", "part", "nothing"} :
          Wrote(file, outcome)
    BY <1>1, LogEncodes
  <1>4. IsFiniteSet(Silences) /\ Cardinality(Silences) \in Nat
    BY <1>1, SilencesFinite
  <1>5. CASE handle' = Encoded(outcome) /\ unheard' = unheard
    <2>1. Silences' = Silences
      BY <1>5 DEF Silences
    <2>2. outcome # "whole" => faults' >= faults + 1
      BY <1>3 DEF Wrote
    <2>3. outcome = "whole" => handle' = "open"
      BY <1>5 DEF Encoded
    <2>4. QED
      BY <1>1, <1>2, <1>4, <2>1, <2>2, <2>3 DEF SilencesPaidFor
  <1>6. CASE unheard' = unheard \cup {e} /\ (handle = "open" => faults' >= faults + 1)
    <2>1. Silences' \subseteq Silences \cup {e}
      BY <1>6 DEF Silences
    <2>2. logged' \in unheard'
      BY <1>2, <1>6
    <2>3. CASE logged \in unheard
      <3>1. e \notin Silences'
        BY <1>1, <1>6, <2>3 DEF Silences
      <3>2. Silences' \in SUBSET Silences
        BY <2>1, <3>1
      <3>3. Cardinality(Silences') <= Cardinality(Silences) /\ Cardinality(Silences') \in Nat
        BY <1>4, <3>2, FS_Subset, FS_CardinalityType
      <3>4. QED
        BY <1>1, <1>2, <1>4, <2>2, <2>3, <3>3 DEF SilencesPaidFor
    <2>4. CASE logged \notin unheard
      <3>1. IsFiniteSet(Silences \cup {e}) /\ Cardinality(Silences \cup {e}) <= Cardinality(Silences) + 1
        BY <1>4, FS_AddElement
      <3>2. /\ Cardinality(Silences') <= Cardinality(Silences \cup {e})
            /\ Cardinality(Silences') \in Nat /\ Cardinality(Silences \cup {e}) \in Nat
        BY <2>1, <3>1, FS_Subset, FS_CardinalityType
      <3>3. Cardinality(Silences') <= Cardinality(Silences) + 1
        BY <1>4, <3>1, <3>2
      <3>4. QED
        BY <1>1, <1>2, <1>4, <1>6, <2>2, <2>4, <3>2, <3>3 DEF SilencesPaidFor
    <2>5. QED
      BY <2>3, <2>4
  <1>7. QED
    BY <1>2, <1>3, <1>5, <1>6 DEF Wrote

LEMMA NextSilences == ASSUME Typed, SilencesPaidFor, [Next]_vars PROVE SilencesPaidFor'
  <1>1. TypeOK /\ faults \in Nat /\ faults' \in Nat
    BY NextTyped, Bounds DEF Typed, TypeOK
  <1>2. Cardinality(Silences) \in Nat
    BY <1>1, SilencesFinite
  <1>3. ASSUME UNCHANGED <<logged, unheard>>, faults' >= faults,
               handle' \in {handle, "open"} \/ faults' >= faults + 1
        PROVE  SilencesPaidFor'
    <2>1. Silences' = Silences
      BY <1>3 DEF Silences
    <2>2. QED
      BY <1>1, <1>2, <1>3, <2>1 DEF SilencesPaidFor
  <1>4. CASE Rotate
    <2>1. PICK renamed \in BOOLEAN, reopened \in BOOLEAN :
            Fail(<<renamed, reopened>>) /\ handle' = IF reopened THEN "open" ELSE "lost"
      BY <1>4 DEF Rotate
    <2>2. faults' >= faults /\ (~ reopened => faults' >= faults + 1)
      BY <1>1, <2>1, FailOfTwo
    <2>3. QED
      BY <1>3, <1>4, <2>1, <2>2 DEF Rotate
  <1>5. CASE Restart
    BY <1>1, <1>3, <1>5 DEF Restart
  <1>6. CASE Cleanup \/ Tick \/ UNCHANGED vars
    BY <1>1, <1>3, <1>6 DEF Cleanup, Tick, vars
  <1>7. QED
    BY <1>4, <1>5, <1>6, LogSilences DEF Next

\* A disk fault costs at most two events and one silence, which lasts until the log is
\* opened anew, whatever rotations, restarts and further faults follow (Log, Rotate,
\* NewLogger).
THEOREM FaultsBounded == Spec => []FaultsCostLittle
  <1>1. Init => LostPaidFor /\ SilencesPaidFor
    <2> SUFFICES ASSUME Init PROVE LostPaidFor /\ SilencesPaidFor
      OBVIOUS
    <2>1. Lost = {} /\ ~ Torn /\ Silences = {} /\ handle = "open" /\ faults = 0
      BY DEF Init, Lost, Torn, EmptyFile, Silences
    <2>2. QED
      BY <2>1, FS_EmptySet DEF LostPaidFor, SilencesPaidFor
  <1>2. Typed /\ LostPaidFor /\ SilencesPaidFor => FaultsCostLittle
    <2> SUFFICES ASSUME Typed, LostPaidFor, SilencesPaidFor PROVE FaultsCostLittle
      OBVIOUS
    <2>1. /\ logged \in Nat /\ faults \in Nat /\ Cardinality(Lost) \in Nat
          /\ Cardinality(Silences) \in Nat
      BY LostFinite, SilencesFinite, Bounds DEF Typed, TypeOK
    <2>2. QED
      BY <2>1 DEF LostPaidFor, SilencesPaidFor, FaultsCostLittle
  <1>3. QED
    BY <1>1, <1>2, NextPaidFor, NextSilences, TypedAlways, PTL DEF Spec

-----------------------------------------------------------------------------
(* What stays on disk.                                                      *)

\* Renaming the current file over the one of this second loses only that one.
LEMMA RenameKeeps ==
  ASSUME Typed, rotated' = Put(TRUE), NEW e \in OnDisk, e \notin OnDisk'
  PROVE  e \in EventsIn(rotated[clock])
  <1>1. /\ clock \in Seconds
        /\ rotated' = [rotated EXCEPT ![clock] = current]
        /\ rotated \in [Seconds -> Files \cup {None}]
    BY DEF Typed, TypeOK, Put
  <1>2. EventsIn(rotated'[clock]) = EventsIn(current)
    BY <1>1 DEF EventsIn
  <1>3. EventsIn(current) \subseteq OnDisk'
    BY <1>1, <1>2 DEF OnDisk, EventsIn
  <1>4. PICK s \in Seconds : e \in EventsIn(rotated[s])
    BY <1>3 DEF OnDisk
  <1>5. s # clock => rotated'[s] = rotated[s]
    BY <1>1
  <1>6. s # clock => EventsIn(rotated[s]) \subseteq OnDisk'
    BY <1>5 DEF OnDisk, EventsIn
  <1>7. QED
    BY <1>4, <1>6

\* With the rotated files left alone, what the current file keeps is kept.
LEMMA AppendKeeps ==
  ASSUME UNCHANGED rotated, EventsIn(current) \subseteq EventsIn(current')
  PROVE  OnDisk \subseteq OnDisk'
  <1>1. \A s \in Seconds : EventsIn(rotated'[s]) = EventsIn(rotated[s])
    BY DEF EventsIn
  <1>2. QED
    BY <1>1 DEF OnDisk

\* Why an event may go from disk in a step.
GoesForCause(e) ==
  \/ \E s \in Seconds : e \in EventsIn(rotated[s]) /\ rotated[s].at < clock - MaxAge
  \/ e \in EventsIn(rotated[clock])

LEMMA LogKeeps ==
  ASSUME Typed, Log, NEW e \in OnDisk, e \notin OnDisk'
  PROVE  GoesForCause(e)
  <1>1. /\ TypeOK /\ LinesLogged /\ logged \in Nat /\ logged' = logged + 1 /\ logged' \in Events
        /\ clock \in Seconds
    BY LogEncodes, Bounds DEF Typed, TypeOK
  <1>2. PICK file \in Files \cup {None}, outcome \in {"whole", "part", "nothing"} :
          Wrote(file, outcome)
    BY <1>1, LogEncodes
  <1>3. CASE rotated' = Put(TRUE)
    BY <1>3, RenameKeeps DEF GoesForCause
  <1>4. CASE file = current /\ rotated' = rotated
    <2>1. EventsIn(current) \subseteq EventsIn(current')
      <3>1. CASE current' = file
        BY <1>4, <3>1
      <3>2. CASE file # None /\ current' = Encode(file, logged', outcome)
        <4>1. file \in Files /\ file.lines \in Nat /\ file.lines < logged'
          BY <1>1, <1>4, <3>2 DEF Files, LinesLogged
        <4>2. /\ current' # None /\ file.events \subseteq current'.events
          BY <1>1, <3>2, <4>1, EncodeType
        <4>3. QED
          BY <1>4, <3>2, <4>2 DEF EventsIn
      <3>3. QED
        BY <1>2, <3>1, <3>2 DEF Wrote
    <2>2. QED
      BY <1>4, <2>1, AppendKeeps
  <1>5. QED
    BY <1>2, <1>3, <1>4 DEF Wrote

LEMMA NextKeeps ==
  ASSUME Typed, [Next]_vars, NEW e \in OnDisk, e \notin OnDisk'
  PROVE  GoesForCause(e)
  <1>1. TypeOK /\ clock \in Seconds
    BY DEF Typed, TypeOK
  <1>2. CASE Rotate
    <2>1. PICK renamed \in BOOLEAN, reopened \in BOOLEAN :
            current' = Fresh(renamed, reopened) /\ rotated' = Put(renamed)
      BY <1>2 DEF Rotate
    <2>2. CASE renamed
      BY <2>1, <2>2, RenameKeeps DEF GoesForCause, Put
    <2>3. CASE ~ renamed
      <3>1. UNCHANGED <<current, rotated>>
        BY <2>1, <2>3 DEF Fresh, Put
      <3>2. QED
        BY <3>1, AppendKeeps
    <2>4. QED
      BY <2>2, <2>3
  <1>3. CASE Cleanup
    <2>1. /\ UNCHANGED current
          /\ \A s \in Seconds : rotated'[s] = rotated[s] \/
               (rotated[s] # None /\ rotated[s].at < clock - MaxAge)
      BY <1>3 DEF Cleanup
    <2>2. EventsIn(current') = EventsIn(current)
      BY <2>1 DEF EventsIn
    <2>3. PICK s \in Seconds : e \in EventsIn(rotated[s])
      BY <2>2 DEF OnDisk
    <2>4. rotated'[s] # rotated[s]
      BY <2>3 DEF OnDisk
    <2>5. QED
      BY <2>1, <2>3, <2>4 DEF GoesForCause
  <1>4. CASE Restart
    <2>1. UNCHANGED rotated /\ (current # None => current' = current)
      BY <1>4 DEF Restart
    <2>2. EventsIn(current) \subseteq EventsIn(current')
      BY <2>1 DEF EventsIn
    <2>3. QED
      BY <2>1, <2>2, AppendKeeps
  <1>5. CASE Tick \/ UNCHANGED vars
    <2>1. UNCHANGED <<current, rotated>>
      BY <1>5 DEF Tick, vars
    <2>2. QED
      BY <2>1, AppendKeeps
  <1>6. QED
    BY <1>2, <1>3, <1>4, <1>5, LogKeeps DEF Next

\* What can be read back from disk goes only by Cleanup, in a file older than the
\* retention, or when the log is rotated twice in one second (Rotate, Cleanup).
THEOREM DiskKept == Spec => KeptOnDisk
  <1>1. Typed /\ [Next]_vars =>
          [\A e \in OnDisk \ OnDisk' :
             \/ \E s \in Seconds : e \in EventsIn(rotated[s]) /\ rotated[s].at < clock - MaxAge
             \/ e \in EventsIn(rotated[clock])]_vars
    BY NextKeeps DEF GoesForCause
  <1>2. QED
    BY <1>1, TypedAlways, PTL DEF Spec, KeptOnDisk

-----------------------------------------------------------------------------
(* The ring.                                                                *)

\* The slot i places before slot p.
SlotBefore(p, i) == (p - i + RingSize) % RingSize

\* The last slots hold the last events of this process, newest first; the others
\* have held none.
RingHoldsTail ==
  \A i \in 1 .. RingSize :
    ring[SlotBefore(rptr, i)] = IF i <= logged - since THEN logged - i + 1 ELSE None

\* The remainder of a number that is at most once round.
LEMMA Remainder ==
  ASSUME NEW a \in 0 .. 2 * RingSize - 1
  PROVE  a % RingSize = IF a < RingSize THEN a ELSE a - RingSize
  BY Bounds

LEMMA SlotBeforeValue ==
  ASSUME NEW p \in 0 .. RingSize - 1, NEW i \in 1 .. RingSize
  PROVE  SlotBefore(p, i) = IF i <= p THEN p - i ELSE p - i + RingSize
  <1>1. p - i + RingSize \in 0 .. 2 * RingSize - 1
    BY Bounds
  <1>2. QED
    BY <1>1, Remainder, Bounds DEF SlotBefore

LEMMA SlotAfterValue ==
  ASSUME NEW p \in 0 .. RingSize - 1
  PROVE  (p + 1) % RingSize = IF p + 1 < RingSize THEN p + 1 ELSE 0
  <1>1. p + 1 \in 0 .. 2 * RingSize - 1
    BY Bounds
  <1>2. QED
    BY <1>1, Remainder, Bounds

\* Once the next slot is one further, the slot i places before it is the one that
\* was i - 1 places before, and the nearest is the one just written.
LEMMA SlotsShift ==
  ASSUME NEW p \in 0 .. RingSize - 1, NEW i \in 1 .. RingSize
  PROVE  /\ i = 1 => SlotBefore((p + 1) % RingSize, i) = p
         /\ i > 1 => /\ SlotBefore((p + 1) % RingSize, i) = SlotBefore(p, i - 1)
                     /\ SlotBefore(p, i - 1) \in (0 .. RingSize - 1) \ {p}
  <1> DEFINE q == IF p + 1 < RingSize THEN p + 1 ELSE 0
  <1>1. q \in 0 .. RingSize - 1 /\ (p + 1) % RingSize = q
    BY SlotAfterValue, Bounds
  <1>2. SlotBefore(q, i) = IF i <= q THEN q - i ELSE q - i + RingSize
    BY <1>1, SlotBeforeValue
  <1>3. CASE i = 1
    BY <1>1, <1>2, <1>3, Bounds
  <1>4. CASE i > 1
    <2>1. i - 1 \in 1 .. RingSize /\ i - 1 # RingSize
      BY <1>4, Bounds
    <2>2. SlotBefore(p, i - 1) = IF i - 1 <= p THEN p - (i - 1) ELSE p - (i - 1) + RingSize
      BY <2>1, SlotBeforeValue
    <2>3. QED
      BY <1>1, <1>2, <1>4, <2>1, <2>2, Bounds
  <1>5. QED
    BY <1>3, <1>4, Bounds

LEMMA LogHoldsTail ==
  ASSUME Typed, RingHoldsTail, Log
  PROVE  RingHoldsTail'
  <1>1. /\ TypeOK /\ LinesLogged /\ logged \in Nat /\ since \in 0 .. logged
        /\ rptr \in 0 .. RingSize - 1 /\ ring \in [0 .. RingSize - 1 -> Events \cup {None}]
    BY Bounds DEF Typed, TypeOK
  <1>2. logged' = logged + 1 /\ since' = since /\ ToRing(logged')
    BY <1>1, LogEncodes
  <1>3. ring' = [ring EXCEPT ![rptr] = logged + 1] /\ rptr' = (rptr + 1) % RingSize
    BY <1>2 DEF ToRing
  <1>4. ASSUME NEW i \in 1 .. RingSize
        PROVE  ring'[SlotBefore(rptr', i)] = IF i <= logged' - since' THEN logged' - i + 1 ELSE None
    <2>1. CASE i = 1
      <3>1. SlotBefore(rptr', i) = rptr
        BY <1>1, <1>3, <2>1, SlotsShift
      <3>2. QED
        BY <1>1, <1>2, <1>3, <2>1, <3>1
    <2>2. CASE i > 1
      <3>1. i - 1 \in 1 .. RingSize
        BY <2>2, Bounds
      <3>2. ring[SlotBefore(rptr, i - 1)]
              = IF i - 1 <= logged - since THEN logged - (i - 1) + 1 ELSE None
        BY <3>1 DEF RingHoldsTail
      <3>3. ring'[SlotBefore(rptr', i)] = ring[SlotBefore(rptr, i - 1)]
        BY <1>1, <1>3, <2>2, SlotsShift
      <3>4. QED
        BY <1>1, <1>2, <2>2, <3>1, <3>2, <3>3
    <2>3. QED
      BY <2>1, <2>2, Bounds
  <1>5. QED
    BY <1>4 DEF RingHoldsTail, SlotBefore

\* A process starts with an empty ring.
LEMMA StartsEmpty ==
  ASSUME NEW i \in 1 .. RingSize
  PROVE  EmptyRing[SlotBefore(0, i)] = None
  <1>1. SlotBefore(0, i) = RingSize - i
    BY SlotBeforeValue, Bounds
  <1>2. SlotBefore(0, i) \in 0 .. RingSize - 1
    BY <1>1, Bounds
  <1>3. QED
    BY <1>2 DEF EmptyRing

LEMMA NextHoldsTail == Typed /\ RingHoldsTail /\ [Next]_vars => RingHoldsTail'
  <1> SUFFICES ASSUME Typed, RingHoldsTail, [Next]_vars PROVE RingHoldsTail'
    OBVIOUS
  <1>1. logged \in Nat
    BY Bounds DEF Typed, TypeOK
  <1>2. CASE Restart
    <2>1. ring' = EmptyRing /\ rptr' = 0 /\ since' = logged' /\ logged' \in Nat
      BY <1>1, <1>2 DEF Restart
    <2>2. \A i \in 1 .. RingSize :
            ring'[SlotBefore(rptr', i)] = IF i <= logged' - since' THEN logged' - i + 1 ELSE None
      <3> SUFFICES ASSUME NEW i \in 1 .. RingSize
                   PROVE  ring'[SlotBefore(rptr', i)] = None /\ ~ (i <= logged' - since')
        OBVIOUS
      <3>1. EmptyRing[SlotBefore(0, i)] = None
        BY StartsEmpty
      <3>2. since' = logged /\ logged' = logged
        BY <1>2 DEF Restart
      <3>3. ~ (i <= logged' - since')
        <4>1. i \in Nat /\ i >= 1
          BY Bounds
        <4>2. logged' - since' = 0
          BY <1>1, <3>2
        <4>3. QED
          BY <4>1, <4>2
      <3>4. SlotBefore(rptr', i) = SlotBefore(0, i) /\ ring' = EmptyRing
        BY <2>1
      <3>5. QED
        BY <3>1, <3>3, <3>4
    <2>3. QED
      BY <2>2 DEF RingHoldsTail, SlotBefore
  <1>3. CASE Rotate \/ Cleanup \/ Tick \/ UNCHANGED vars
    <2>1. UNCHANGED <<ring, rptr, logged, since>>
      BY <1>3 DEF Rotate, Cleanup, Tick, vars
    <2>2. QED
      BY <2>1 DEF RingHoldsTail, SlotBefore
  <1>4. QED
    BY <1>2, <1>3, LogHoldsTail DEF Next

LEMMA InitHoldsTail == Init => RingHoldsTail
  BY StartsEmpty, Bounds DEF Init, RingHoldsTail

\* Through any events, rotations, faults and restarts.
THEOREM RingAlways == Spec => []RingHoldsTail
  BY InitHoldsTail, NextHoldsTail, TypedAlways, PTL DEF Spec

-----------------------------------------------------------------------------
(* What Recent makes of the ring.  Backwards is recursive: that it has values *)
(* at all, and which, takes an induction, here over a least counterexample.   *)

\* A set of numbers has a least element, for its initial segments are finite sets,
\* and these are well-founded by inclusion.
LEMMA LeastNumber ==
  ASSUME NEW T \in SUBSET Nat, T # {}
  PROVE  \E x \in T : \A y \in T : x <= y
  <1> DEFINE segments == {0 .. x : x \in T}
             inclusion == StrictSubsetOrdering(Nat)
  <1>1. IsWellFoundedOn(inclusion, FiniteSubsetsOf(Nat))
    BY FS_StrictSubsetOrderingWellFounded
  <1>2. segments \subseteq FiniteSubsetsOf(Nat)
    <2>1. \A x \in T : IsFiniteSet(0 .. x)
      BY FS_Interval
    <2>2. QED
      BY <2>1 DEF FiniteSubsetsOf
  <1>3. segments # {}
    OBVIOUS
  <1>4. PICK w \in segments : \A v \in segments : <<v, w>> \notin inclusion
    <2> HIDE DEF segments, inclusion
    <2>1. QED
      BY <1>1, <1>2, <1>3, WFMin
  <1>5. PICK x \in T : w = 0 .. x
    OBVIOUS
  <1>6. ASSUME NEW y \in T, y < x PROVE FALSE
    <2>1. 0 .. y \in segments /\ 0 .. y \subseteq 0 .. x /\ x \in 0 .. x /\ x \notin 0 .. y
      BY <1>6
    <2>2. <<0 .. y, w>> \in inclusion
      BY <1>5, <2>1 DEF StrictSubsetOrdering
    <2>3. QED
      BY <1>4, <2>1, <2>2
  <1>7. QED
    BY <1>6

\* The loop's equation.
Loops(f) ==
  f = [i \in 0 .. RingSize |->
        IF i = 0 THEN << >>
        ELSE LET e == ring[(rptr - i + RingSize) % RingSize] IN
             IF e = None THEN f[i - 1] ELSE Append(f[i - 1], e)]

\* What it should find in i slots: the last i events, or all there are.
Newest(i) ==
  [j \in 1 .. IF i <= logged - since THEN i ELSE logged - since |-> logged - j + 1]

\* One more slot shows one more event, as long as there is one.
LEMMA NewestGrows ==
  ASSUME Typed, NEW i \in 1 .. RingSize
  PROVE  IF i <= logged - since THEN Newest(i) = Append(Newest(i - 1), logged - i + 1)
         ELSE Newest(i) = Newest(i - 1)
  <1>1. logged \in Nat /\ since \in 0 .. logged /\ logged - since \in Nat /\ i \in Nat /\ i >= 1
    BY Bounds DEF Typed, TypeOK
  <1>2. CASE i <= logged - since
    BY <1>1, <1>2 DEF Newest
  <1>3. CASE ~ (i <= logged - since)
    BY <1>1, <1>3 DEF Newest
  <1>4. QED
    BY <1>2, <1>3

\* A slot with an event is not empty.
LEMMA SlotShows ==
  ASSUME Typed, RingHoldsTail, NEW i \in 1 .. RingSize
  PROVE  LET e == ring[(rptr - i + RingSize) % RingSize] IN
         IF i <= logged - since THEN e # None /\ e = logged - i + 1 ELSE e = None
  <1>1. ring[(rptr - i + RingSize) % RingSize]
          = IF i <= logged - since THEN logged - i + 1 ELSE None
    BY DEF RingHoldsTail, SlotBefore
  <1>2. i <= logged - since => logged - i + 1 \in Events
    BY Bounds DEF Typed, TypeOK, Events
  <1>3. QED
    BY <1>1, <1>2, Bounds

LEMMA NewestLoops ==
  ASSUME Typed, RingHoldsTail
  PROVE  Loops([i \in 0 .. RingSize |-> Newest(i)])
  <1> DEFINE g == [i \in 0 .. RingSize |-> Newest(i)]
  <1>1. Newest(0) = << >>
    BY Bounds DEF Newest, Typed, TypeOK
  <1>2. ASSUME NEW i \in 0 .. RingSize
        PROVE  g[i] = IF i = 0 THEN << >>
                      ELSE LET e == ring[(rptr - i + RingSize) % RingSize] IN
                           IF e = None THEN g[i - 1] ELSE Append(g[i - 1], e)
    <2>1. CASE i = 0
      BY <1>1, <2>1
    <2>2. CASE i # 0
      <3>1. i \in 1 .. RingSize /\ i - 1 \in 0 .. RingSize
        BY <2>2, Bounds
      <3>2. g[i] = Newest(i) /\ g[i - 1] = Newest(i - 1)
        BY <3>1
      <3> HIDE DEF g
      <3>3. QED
        BY <2>2, <3>1, <3>2, SlotShows, NewestGrows
    <2>3. QED
      BY <2>1, <2>2
  <1>3. QED
    BY <1>2 DEF Loops

\* The equation has one solution.
LEMMA LoopsDetermines ==
  ASSUME NEW f, NEW g, Loops(f), Loops(g)
  PROVE  \A i \in 0 .. RingSize : f[i] = g[i]
  <1> DEFINE differ == {i \in 0 .. RingSize : f[i] # g[i]}
  <1>1. SUFFICES ASSUME differ # {} PROVE FALSE
    OBVIOUS
  <1>2. PICK i \in differ : \A k \in differ : i <= k
    <2>1. differ \in SUBSET Nat
      BY Bounds
    <2> HIDE DEF differ
    <2>2. QED
      BY <1>1, <2>1, LeastNumber
  <1>3. i \in 0 .. RingSize /\ f[i] # g[i]
    OBVIOUS
  <1>4. i # 0
    BY <1>3, Bounds DEF Loops
  <1>5. i - 1 \in 0 .. RingSize /\ i - 1 \notin differ
    <2>1. i - 1 \in 0 .. RingSize /\ ~ (i <= i - 1)
      BY <1>3, <1>4, Bounds
    <2> HIDE DEF differ
    <2>2. QED
      BY <1>2, <2>1
  <1>6. f[i - 1] = g[i - 1]
    BY <1>5
  <1>7. f[i] = g[i]
    BY <1>3, <1>4, <1>6 DEF Loops
  <1>8. QED
    BY <1>3, <1>7

LEMMA BackwardsIsNewest ==
  ASSUME Typed, RingHoldsTail, NEW i \in 0 .. RingSize
  PROVE  Backwards[i] = Newest(i)
  <1>1. Loops(Backwards)
    <2>1. Backwards = CHOOSE f : Loops(f)
      BY DEF Backwards, Loops
    <2>2. \E f : Loops(f)
      BY NewestLoops
    <2>3. QED
      BY <2>1, <2>2
  <1>2. Backwards[i] = [k \in 0 .. RingSize |-> Newest(k)][i]
    BY <1>1, NewestLoops, LoopsDetermines
  <1>3. QED
    BY <1>2

\* The dashboard shows the last events of this process, newest first, as many as it
\* asked for, the ring holds and there are, however often the ring has gone round
\* and the process has started (Log, Recent).
THEOREM RecentAlways == Spec => []RecentIsTail
  <1>1. ASSUME Typed, RingHoldsTail PROVE RecentIsTail
    <2> SUFFICES ASSUME NEW n \in 0 .. RingSize + 1
                 PROVE  LET shown == Recent(n)
                            all == logged - since
                        IN
                        /\ Len(shown) = CHOOSE m \in {n, RingSize, all} :
                                          \A x \in {n, RingSize, all} : m <= x
                        /\ \A i \in 1 .. Len(shown) : shown[i] = logged - i + 1
      BY DEF RecentIsTail
    <2> DEFINE all == logged - since
               k == IF n < RingSize THEN n ELSE RingSize
               len == IF k <= all THEN k ELSE all
    <2>1. all \in Nat /\ logged \in Nat /\ n \in Nat /\ RingSize \in Nat
      BY <1>1, Bounds DEF Typed, TypeOK
    <2>2. k \in 0 .. RingSize
      BY <2>1, Bounds
    <2>3. Recent(n) = Newest(k)
      BY <1>1, <2>2, BackwardsIsNewest DEF Recent
    <2>4. Newest(k) = [j \in 1 .. len |-> logged - j + 1] /\ len \in Nat
      BY <2>1, <2>2 DEF Newest
    <2>5. Len(Recent(n)) = len /\ \A i \in 1 .. len : Recent(n)[i] = logged - i + 1
      BY <2>3, <2>4
    <2>6. len \in {n, RingSize, all} /\ \A x \in {n, RingSize, all} : len <= x
      BY <2>1
    <2>7. len = CHOOSE m \in {n, RingSize, all} : \A x \in {n, RingSize, all} : m <= x
      <3>1. \A m \in {n, RingSize, all} : (\A x \in {n, RingSize, all} : m <= x) => m = len
        BY <2>1, <2>6
      <3> HIDE DEF len
      <3>2. QED
        BY <2>6, <3>1
    <2>8. QED
      BY <2>5, <2>7
  <1>2. QED
    BY <1>1, TypedAlways, RingAlways, PTL
=============================================================================
