----------------------- MODULE DiagnosticReport_proofs -----------------------
(***************************************************************************)
(* Proofs about DiagnosticReport for any number of replicas, reports and   *)
(* subjects and any bounds.                                                *)
(***************************************************************************)
EXTENDS ReportProperties, FiniteSetTheorems, TLAPS

-----------------------------------------------------------------------------
(* The building blocks.                                                     *)

\* The bounds are numbers, and the first name is a report.
LEMMA Bounds == MaxReports \in Nat \ {0} /\ MaxFaults \in Nat /\ 1 \in Reports
  BY ReportAssumption DEF Reports

\* The objects the API server and the collector make are well-typed.
LEMMA ObjectValues ==
  /\ NoObject \in Objects
  /\ \A held \in BOOLEAN : NewReport(held) \in Objects
  BY DEF NoObject, NewReport, Objects, Phases

LEMMA IdleValue ==
  /\ NoReconcile \in Reconciles
  /\ NoReconcile.pc = "idle" /\ NoReconcile.report = 1 /\ NoReconcile.copy = NoObject
  BY ObjectValues, Bounds DEF NoReconcile, Reconciles, PCs

\* Bump makes a new version of an object and changes nothing else.
LEMMA BumpObject ==
  ASSUME NEW o \in Objects
  PROVE  /\ Bump(o) \in Objects
         /\ Bump(o).rv = o.rv + 1
         /\ Bump(o).phase = o.phase
         /\ Bump(o).exists = o.exists
         /\ Bump(o).deleting = o.deleting
  BY DEF Bump, Objects

\* The object a status update sends: the copy with its phase changed.
LEMMA UpdatedObject ==
  ASSUME TypeOK, NEW r \in Replicas, NEW phase \in Phases
  PROVE  /\ Updated(r, phase) \in Objects
         /\ Updated(r, phase).rv = rec[r].copy.rv + 1
         /\ Updated(r, phase).phase = phase
         /\ Updated(r, phase).exists = rec[r].copy.exists
         /\ Updated(r, phase).deleting = rec[r].copy.deleting
  <1>1. rec[r].copy \in Objects
    BY DEF TypeOK, Reconciles
  <1>2. [rec[r].copy EXCEPT !.phase = phase] \in Objects
    BY <1>1 DEF Objects
  <1>3. QED
    BY <1>1, <1>2, BumpObject DEF Updated, Objects

\* Deletion marks a report that carries a finalizer and removes one that does
\* not; both make a new version and leave the phase alone.
LEMMA DeletedObject ==
  ASSUME TypeOK, NEW d \in Reports
  PROVE  \/ Deleted(d) = obj
         \/ \E new \in Objects :
              /\ Deleted(d) = [obj EXCEPT ![d] = new]
              /\ new.rv = obj[d].rv + 1
              /\ new.phase = obj[d].phase
              /\ obj[d].exists /\ (new.exists => new.deleting)
  <1> DEFINE gone == [obj[d] EXCEPT !.deleting = TRUE, !.exists = obj[d].held]
  <1>1. obj \in [Reports -> Objects] /\ obj[d] \in Objects
    BY DEF TypeOK
  <1>2. gone \in Objects /\ gone.rv = obj[d].rv /\ gone.phase = obj[d].phase /\ gone.deleting
    BY <1>1 DEF Objects
  <1>3. CASE ~ obj[d].exists \/ obj[d].deleting
    BY <1>3 DEF Deleted
  <1>4. CASE obj[d].exists /\ ~ obj[d].deleting
    <2>1. Deleted(d) = [obj EXCEPT ![d] = Bump(gone)]
      BY <1>1, <1>4 DEF Deleted
    <2> HIDE DEF gone
    <2>2. /\ Bump(gone) \in Objects /\ Bump(gone).rv = obj[d].rv + 1
          /\ Bump(gone).phase = obj[d].phase /\ Bump(gone).deleting
      BY <1>2, BumpObject
    <2>3. QED
      BY <1>4, <2>1, <2>2
  <1>5. QED
    BY <1>3, <1>4

\* The first unused name becomes a report, in a version of its own.
LEMMA CreatedObject ==
  ASSUME TypeOK, NEW s \in Subjects, NEW held \in BOOLEAN, Created(s, held)
  PROVE  /\ \E d \in Reports :
              obj[d].rv = 0 /\ obj' = [obj EXCEPT ![d] = NewReport(held)]
         /\ about' \in [Reports -> Subjects \cup {Nil}]
  BY DEF Created, Unused, TypeOK

-----------------------------------------------------------------------------
(* Type correctness, action by action.                                      *)

LEMMA InitType == Init => TypeOK
  <1> SUFFICES ASSUME Init PROVE TypeOK
    OBVIOUS
  <1>1. obj \in [Reports -> Objects]
    BY ObjectValues DEF Init
  <1>2. cache \in [Replicas -> [Reports -> Objects]]
    BY <1>1 DEF Init
  <1>3. rec \in [Replicas -> Reconciles]
    BY IdleValue DEF Init
  <1>4. QED
    BY <1>1, <1>2, <1>3, Bounds DEF Init, TypeOK

\* One of the faults is spent, if there is one left.
LEMMA FaultType ==
  ASSUME TypeOK, Fault \/ UNCHANGED faults
  PROVE  faults' \in 0 .. MaxFaults
  BY Bounds DEF TypeOK, Fault

\* Whatever becomes of a status update, the API server stays well-typed.
LEMMA UpdateType ==
  ASSUME TypeOK, NEW r \in Replicas, NEW phase \in Phases,
         Succeeds(r, phase) \/ Errs(r, phase)
  PROVE  obj' \in [Reports -> Objects] /\ faults' \in 0 .. MaxFaults
  <1>1. Updated(r, phase) \in Objects
    BY UpdatedObject
  <1>2. faults' \in 0 .. MaxFaults
    BY FaultType DEF Succeeds, Errs
  <1>3. obj' \in [Reports -> Objects]
    BY <1>1 DEF TypeOK, Succeeds, Errs
  <1>4. QED
    BY <1>2, <1>3

\* A reconcile moves from stage to stage and returns well-typed.
LEMMA StageType ==
  ASSUME TypeOK, NEW r \in Replicas,
         \/ Return(r)
         \/ \E pc \in PCs : Goto(r, pc)
         \/ \E pc \in PCs, phase \in Phases : Holding(r, pc, phase)
         \/ \E s \in BOOLEAN : rec' = [rec EXCEPT ![r] = [rec[r] EXCEPT !.pc = "complete", !.suggests = s]]
         \/ UNCHANGED rec
  PROVE  rec' \in [Replicas -> Reconciles]
  <1>1. rec \in [Replicas -> Reconciles] /\ rec[r] \in Reconciles
    BY DEF TypeOK
  <1>2. CASE Return(r)
    BY <1>1, <1>2, IdleValue DEF Return
  <1>3. ASSUME NEW pc \in PCs, Goto(r, pc) PROVE rec' \in [Replicas -> Reconciles]
    <2>1. [rec[r] EXCEPT !.pc = pc] \in Reconciles
      BY <1>1 DEF Reconciles
    <2>2. QED
      BY <1>1, <1>3, <2>1 DEF Goto
  <1>4. ASSUME NEW pc \in PCs, NEW phase \in Phases, Holding(r, pc, phase)
        PROVE  rec' \in [Replicas -> Reconciles]
    <2>1. [rec[r] EXCEPT !.pc = pc, !.copy = Updated(r, phase)] \in Reconciles
      BY <1>1, UpdatedObject DEF Reconciles
    <2>2. QED
      BY <1>1, <1>4, <2>1 DEF Holding
  <1>5. ASSUME NEW s \in BOOLEAN,
               rec' = [rec EXCEPT ![r] = [rec[r] EXCEPT !.pc = "complete", !.suggests = s]]
        PROVE  rec' \in [Replicas -> Reconciles]
    <2>1. [rec[r] EXCEPT !.pc = "complete", !.suggests = s] \in Reconciles
      BY <1>1 DEF Reconciles, PCs
    <2>2. QED
      BY <1>1, <1>5, <2>1
  <1>6. QED
    BY <1>1, <1>2, <1>3, <1>4, <1>5

\* What a step within a reconcile changes.
Moves(r, pc) ==
  /\ rec'[r].pc = pc
  /\ rec'[r].report = rec[r].report /\ rec'[r].copy = rec[r].copy
  /\ \A q \in Replicas \ {r} : rec'[q] = rec[q]

LEMMA GotoMoves ==
  ASSUME TypeOK, NEW r \in Replicas, NEW pc, Goto(r, pc)
  PROVE  Moves(r, pc)
  <1>1. rec \in [Replicas -> Reconciles] /\ rec[r] \in Reconciles
    BY DEF TypeOK
  <1>2. QED
    BY <1>1 DEF Goto, Moves, Reconciles

\* The agent fails, or answers.
LEMMA RunMoves ==
  ASSUME TypeOK, NEW r \in Replicas, RunAgent(r)
  PROVE  Moves(r, "fail") \/ Moves(r, "complete")
  <1>1. rec \in [Replicas -> Reconciles] /\ rec[r] \in Reconciles
    BY DEF TypeOK
  <1>2. ASSUME NEW s \in BOOLEAN,
               rec' = [rec EXCEPT ![r] = [rec[r] EXCEPT !.pc = "complete", !.suggests = s]]
        PROVE  Moves(r, "complete")
    BY <1>1, <1>2 DEF Moves, Reconciles
  <1>3. QED
    BY <1>2, GotoMoves DEF RunAgent

LEMMA BeginType ==
  ASSUME TypeOK, NEW r \in Replicas, NEW d \in Reports, Begin(r, d)
  PROVE  TypeOK'
  <1> DEFINE taken == [pc |-> IF cache[r][d].deleting THEN "unfinalize" ELSE "take",
                       report |-> d, copy |-> cache[r][d], suggests |-> FALSE]
  <1>1. cache[r][d] \in Objects
    BY DEF TypeOK
  <1>2. taken \in Reconciles
    BY <1>1 DEF Reconciles, PCs
  <1>3. rec' \in [Replicas -> Reconciles]
    BY <1>2 DEF TypeOK, Begin
  <1>4. queue' \in [Replicas -> SUBSET Reports]
    BY DEF TypeOK, Begin
  <1>5. UNCHANGED <<cluster, cache, collector, faults, history>>
    BY DEF Begin
  <1>6. QED
    BY <1>3, <1>4, <1>5 DEF TypeOK, cluster, collector, history

\* The steps of a reconcile that begin, end or requeue it.
LEMMA AnalyseType ==
  ASSUME TypeOK, NEW r \in Replicas, Analyse(r)
  PROVE  TypeOK'
  <1> USE DEF cluster, collector, history
  <1>0. /\ "" \in Phases /\ "Pending" \in Phases /\ "Analyzing" \in Phases
        /\ "Completed" \in Phases /\ "Failed" \in Phases
        /\ {"prepare", "postpone", "agent", "fail", "plan"} \subseteq PCs
    BY DEF Phases, PCs
  <1>1. rec[r].report \in Reports /\ rec[r].copy \in Objects
    BY DEF TypeOK, Reconciles
  <1>2. RequeueLater(r) \/ UNCHANGED queue => queue' \in [Replicas -> SUBSET Reports]
    BY <1>1 DEF TypeOK, RequeueLater
  <1>3. CASE Unfinalize(r)
    <2>1. [rec[r].copy EXCEPT !.held = FALSE, !.exists = FALSE] \in Objects
      BY <1>1 DEF Objects
    <2>2. Bump([rec[r].copy EXCEPT !.held = FALSE, !.exists = FALSE]) \in Objects
      BY <2>1, BumpObject
    <2>3. obj' \in [Reports -> Objects] /\ (Fault \/ UNCHANGED faults)
      BY <1>1, <1>3, <2>2 DEF Unfinalize, TypeOK
    <2>4. rec' \in [Replicas -> Reconciles] /\ queue' \in [Replicas -> SUBSET Reports]
      BY <1>2, <1>3, StageType DEF Unfinalize
    <2>5. QED
      BY <1>3, <2>3, <2>4, FaultType DEF TypeOK, Unfinalize
  <1>4. CASE StartAnalysis(r)
    <2>1. obj' \in [Reports -> Objects] /\ faults' \in 0 .. MaxFaults
      BY <1>0, <1>4, UpdateType DEF StartAnalysis
    <2>2. rec' \in [Replicas -> Reconciles] /\ queue' \in [Replicas -> SUBSET Reports]
      BY <1>0, <1>2, <1>4, StageType DEF StartAnalysis
    <2>3. QED
      BY <1>4, <2>1, <2>2 DEF TypeOK, StartAnalysis
  <1>5. CASE Prepare(r)
    <2>1. rec' \in [Replicas -> Reconciles]
      BY <1>0, <1>5, StageType DEF Prepare
    <2>2. QED
      BY <1>5, <2>1 DEF TypeOK, Prepare
  <1>6. CASE Postpone(r)
    <2>1. obj' \in [Reports -> Objects] /\ faults' \in 0 .. MaxFaults
      BY <1>0, <1>6, UpdateType DEF Postpone
    <2>2. rec' \in [Replicas -> Reconciles] /\ queue' \in [Replicas -> SUBSET Reports]
      BY <1>2, <1>6, StageType DEF Postpone
    <2>3. QED
      BY <1>6, <2>1, <2>2 DEF TypeOK, Postpone
  <1>7. CASE RunAgent(r)
    <2>1. rec' \in [Replicas -> Reconciles]
      BY <1>0, <1>7, StageType DEF RunAgent
    <2>2. analyses' \in [Reports -> Nat]
      <3>1. analyses' = [analyses EXCEPT ![rec[r].report] = @ + 1]
        BY <1>7 DEF RunAgent
      <3>2. analyses \in [Reports -> Nat]
        BY DEF TypeOK
      <3>3. QED
        BY <1>1, <3>1, <3>2
    <2>3. suggested' \in [Reports -> BOOLEAN]
      <3>1. suggested \in [Reports -> BOOLEAN]
        BY DEF TypeOK
      <3>2. ASSUME NEW s \in BOOLEAN,
                   suggested' = [suggested EXCEPT ![rec[r].report] = @ \/ s]
            PROVE  suggested' \in [Reports -> BOOLEAN]
        BY <3>1, <3>2, Zenon
      <3>3. QED
        BY <1>7, <3>1, <3>2 DEF RunAgent
    <2>4. QED
      BY <1>7, <2>1, <2>2, <2>3 DEF TypeOK, RunAgent
  <1>8. CASE FailReport(r)
    <2>1. obj' \in [Reports -> Objects] /\ faults' \in 0 .. MaxFaults
      BY <1>0, <1>8, UpdateType DEF FailReport
    <2>2. rec' \in [Replicas -> Reconciles]
      BY <1>8, StageType DEF FailReport
    <2>3. QED
      BY <1>8, <2>1, <2>2 DEF TypeOK, FailReport
  <1>9. CASE Complete(r)
    <2>1. obj' \in [Reports -> Objects] /\ faults' \in 0 .. MaxFaults
      BY <1>0, <1>9, UpdateType DEF Complete
    <2>2. rec' \in [Replicas -> Reconciles] /\ queue' \in [Replicas -> SUBSET Reports]
      BY <1>0, <1>2, <1>9, StageType DEF Complete
    <2>3. QED
      BY <1>9, <2>1, <2>2 DEF TypeOK, Complete
  <1>10. CASE MaybeCreatePlan(r)
    <2>1. rec' \in [Replicas -> Reconciles]
      BY <1>10, StageType DEF MaybeCreatePlan
    <2>2. plans' \in [Reports -> Nat]
      BY <1>1, <1>10 DEF MaybeCreatePlan, TypeOK
    <2>3. QED
      BY <1>10, <2>1, <2>2 DEF TypeOK, MaybeCreatePlan
  <1>11. QED
    BY <1>3, <1>4, <1>5, <1>6, <1>7, <1>8, <1>9, <1>10 DEF Analyse

\* The collector's steps.
LEMMA CollectType ==
  ASSUME TypeOK, NEW r \in Replicas,
         CreateReport(r) \/ \E s \in Subjects : Notice(r, s) \/ Cooled(r, s)
  PROVE  TypeOK'
  <1> USE DEF cluster, collector, history
  <1>1. ASSUME NEW s \in Subjects, Notice(r, s) \/ Cooled(r, s) PROVE TypeOK'
    <2>1. cooling' \in [Replicas -> SUBSET Subjects]
      <3>1. cooling[r] \in SUBSET Subjects
        BY DEF TypeOK
      <3>2. cooling[r] \cup {s} \in SUBSET Subjects /\ cooling[r] \ {s} \in SUBSET Subjects
        BY <3>1
      <3>3. QED
        BY <1>1, <3>2 DEF TypeOK, Notice, Cooled
    <2>2. noticed' \in [Replicas -> Subjects \cup {Nil}]
      BY <1>1 DEF TypeOK, Notice, Cooled
    <2>3. UNCHANGED <<cluster, cache, queue, rec, faults, history>>
      BY <1>1 DEF Notice, Cooled
    <2>4. QED
      BY <2>1, <2>2, <2>3 DEF TypeOK
  <1>2. CASE CreateReport(r)
    <2>1. obj' \in [Reports -> Objects] /\ about' \in [Reports -> Subjects \cup {Nil}]
      <3>1. CASE Created(noticed[r], FALSE)
        <4>1. noticed[r] \in Subjects
          BY <1>2 DEF CreateReport, TypeOK
        <4>2. PICK d \in Reports : obj' = [obj EXCEPT ![d] = NewReport(FALSE)]
          BY <3>1, <4>1, CreatedObject
        <4>3. about' \in [Reports -> Subjects \cup {Nil}]
          BY <3>1, <4>1, CreatedObject
        <4>4. QED
          BY <4>2, <4>3, ObjectValues DEF TypeOK
      <3>2. CASE UNCHANGED <<obj, about>>
        BY <3>2 DEF TypeOK
      <3>3. QED
        BY <1>2, <3>1, <3>2 DEF CreateReport
    <2>2. faults' \in 0 .. MaxFaults
      BY <1>2, FaultType DEF CreateReport
    <2>3. noticed' \in [Replicas -> Subjects \cup {Nil}]
      BY <1>2 DEF CreateReport, TypeOK
    <2>4. QED
      BY <1>2, <2>1, <2>2, <2>3 DEF TypeOK, CreateReport
  <1>3. QED
    BY <1>1, <1>2

\* Deleting a report leaves the API server well-typed.
LEMMA DeletedType ==
  ASSUME TypeOK, NEW d \in Reports, obj' = Deleted(d)
  PROVE  obj' \in [Reports -> Objects]
  <1>1. obj \in [Reports -> Objects]
    BY DEF TypeOK
  <1>2. CASE Deleted(d) = obj
    BY <1>1, <1>2
  <1>3. ASSUME NEW new \in Objects, Deleted(d) = [obj EXCEPT ![d] = new]
        PROVE  obj' \in [Reports -> Objects]
    BY <1>1, <1>3
  <1>4. QED
    BY <1>2, <1>3, DeletedObject

\* Informers, cleanup, restarts, the clock, and everybody else.
LEMMA OutsideType ==
  ASSUME TypeOK,
         \/ \E r \in Replicas :
              Crash(r) \/ \E d \in Reports : Sync(r, d) \/ Cleanup(r, d)
         \/ \E d \in Reports : Age(d) \/ Touch(d) \/ Delete(d)
         \/ \E s \in Subjects : UserReport(s)
         \/ Configure
  PROVE  TypeOK'
  <1> USE DEF cluster, collector, history
  <1>1. ASSUME NEW r \in Replicas, Crash(r) PROVE TypeOK'
    <2>1. rec' \in [Replicas -> Reconciles]
      BY <1>1, StageType DEF Crash
    <2>2. faults' \in 0 .. MaxFaults
      BY <1>1, FaultType DEF Crash
    <2>3. QED
      BY <1>1, <2>1, <2>2 DEF TypeOK, Crash
  <1>2. ASSUME NEW r \in Replicas, NEW d \in Reports, Sync(r, d) PROVE TypeOK'
    BY <1>2 DEF TypeOK, Sync
  <1>3. ASSUME NEW r \in Replicas, NEW d \in Reports, Cleanup(r, d) PROVE TypeOK'
    <2>1. obj' \in [Reports -> Objects]
      BY <1>3, DeletedType DEF Cleanup
    <2>2. QED
      BY <1>3, <2>1 DEF TypeOK, Cleanup
  <1>4. ASSUME NEW d \in Reports, Age(d) PROVE TypeOK'
    BY <1>4 DEF TypeOK, Age
  <1>5. ASSUME NEW d \in Reports, Touch(d) PROVE TypeOK'
    <2>1. Bump(obj[d]) \in Objects
      BY BumpObject DEF TypeOK
    <2>2. obj' \in [Reports -> Objects] /\ faults' \in 0 .. MaxFaults
      BY <1>5, <2>1, FaultType DEF TypeOK, Touch
    <2>3. QED
      BY <1>5, <2>2 DEF TypeOK, Touch
  <1>6. ASSUME NEW d \in Reports, Delete(d) PROVE TypeOK'
    <2>1. obj' \in [Reports -> Objects] /\ faults' \in 0 .. MaxFaults
      BY <1>6, DeletedType, FaultType DEF Delete
    <2>2. QED
      BY <1>6, <2>1 DEF TypeOK, Delete
  <1>7. ASSUME NEW s \in Subjects, UserReport(s) PROVE TypeOK'
    <2>1. PICK d \in Reports : obj' = [obj EXCEPT ![d] = NewReport(TRUE)]
      BY <1>7, CreatedObject DEF UserReport
    <2>2. about' \in [Reports -> Subjects \cup {Nil}]
      BY <1>7, CreatedObject DEF UserReport
    <2>3. QED
      BY <1>7, <2>1, <2>2, ObjectValues DEF TypeOK, UserReport
  <1>8. CASE Configure
    BY <1>8 DEF TypeOK, Configure
  <1>9. QED
    BY <1>1, <1>2, <1>3, <1>4, <1>5, <1>6, <1>7, <1>8

LEMMA NextType == TypeOK /\ [Next]_vars => TypeOK'
  <1> SUFFICES ASSUME TypeOK, [Next]_vars PROVE TypeOK'
    OBVIOUS
  <1>1. CASE UNCHANGED vars
    BY <1>1 DEF TypeOK, vars, cluster, collector, history
  <1>2. CASE Next
    BY <1>2, BeginType, AnalyseType, CollectType, OutsideType DEF Next
  <1>3. QED
    BY <1>1, <1>2

-----------------------------------------------------------------------------
(* Versions: every step writes one object at most, in a new version.        *)

ObjGrows ==
  \/ obj' = obj
  \/ \E d \in Reports, new \in Objects :
       obj' = [obj EXCEPT ![d] = new] /\ new.rv = obj[d].rv + 1

\* A reconcile ends, or keeps its copy, or holds what was just written, or
\* starts from the cache.
Carried(q) ==
  \/ rec'[q] = NoReconcile
  \/ /\ rec'[q].report = rec[q].report
     /\ rec'[q].copy \in {rec[q].copy, obj'[rec[q].report]}
  \/ rec'[q].report \in Reports /\ rec'[q].copy = cache[q][rec'[q].report]

\* A copy of an object agrees with every later version.
LEMMA AgreesLater ==
  ASSUME ObjGrows, TypeOK, NEW d \in Reports, NEW c \in Objects, Agrees(c, obj[d])
  PROVE  Agrees(c, obj'[d])
  <1>1. obj[d] \in Objects /\ c.rv \in Nat /\ obj[d].rv \in Nat
    BY DEF TypeOK, Objects
  <1>2. CASE obj'[d] = obj[d]
    BY <1>2
  <1>3. CASE obj'[d] # obj[d]
    <2>1. PICK e \in Reports, new \in Objects :
            obj' = [obj EXCEPT ![e] = new] /\ new.rv = obj[e].rv + 1
      BY <1>3 DEF ObjGrows
    <2>2. obj'[d] = new /\ e = d
      BY <1>3, <2>1 DEF TypeOK
    <2>3. new.rv = obj[d].rv + 1 /\ c.rv <= obj[d].rv
      BY <2>1, <2>2 DEF Agrees
    <2>4. c.rv <= new.rv /\ c.rv # new.rv
      BY <1>1, <2>3
    <2>5. QED
      BY <2>2, <2>4 DEF Agrees
  <1>4. QED
    BY <1>2, <1>3

LEMMA CopiesStay ==
  ASSUME TypeOK, TypeOK', CopiesAgree, ObjGrows,
         \A r \in Replicas, d \in Reports : cache'[r][d] \in {cache[r][d], obj'[d]},
         \A q \in Replicas : Carried(q)
  PROVE  CopiesAgree'
  <1>1. ASSUME NEW d \in Reports, obj'[d].rv = 0 PROVE obj'[d] = NoObject
    <2>1. obj[d].rv = 0 => obj[d] = NoObject
      BY DEF CopiesAgree
    <2>2. CASE obj'[d] = obj[d]
      BY <1>1, <2>1, <2>2
    <2>3. CASE obj'[d] # obj[d]
      <3>1. PICK e \in Reports, new \in Objects :
              obj' = [obj EXCEPT ![e] = new] /\ new.rv = obj[e].rv + 1
        BY <2>3 DEF ObjGrows
      <3>2. obj'[d] = new /\ obj[e].rv \in Nat
        BY <2>3, <3>1 DEF TypeOK, Objects
      <3>3. QED
        BY <1>1, <3>1, <3>2
    <2>4. QED
      BY <2>2, <2>3
  <1>2. \A r \in Replicas, d \in Reports : Agrees(cache[r][d], obj'[d])
    BY AgreesLater DEF CopiesAgree, TypeOK
  <1>3. \A r \in Replicas, d \in Reports : Agrees(cache'[r][d], obj'[d])
    <2>1. SUFFICES ASSUME NEW r \in Replicas, NEW d \in Reports
                   PROVE  Agrees(cache'[r][d], obj'[d])
      OBVIOUS
    <2>2. Agrees(obj'[d], obj'[d])
      BY DEF TypeOK, Objects, Agrees
    <2>3. QED
      BY <1>2, <2>2
  <1>4. ASSUME NEW q \in Replicas PROVE Agrees(rec'[q].copy, obj'[rec'[q].report])
    <2>1. CASE rec'[q] = NoReconcile
      <3>1. rec'[q].report = 1 /\ rec'[q].copy = NoObject /\ NoObject.rv = 0
        BY <2>1, IdleValue DEF NoObject
      <3>2. obj'[1] \in Objects /\ obj'[1].rv \in Nat
        BY Bounds DEF TypeOK, Objects
      <3>3. obj'[1].rv = 0 => obj'[1] = NoObject
        BY <1>1, Bounds
      <3>4. QED
        BY <3>1, <3>2, <3>3 DEF Agrees
    <2>2. CASE rec'[q].report = rec[q].report /\ rec'[q].copy = rec[q].copy
      <3>1. rec[q].report \in Reports /\ rec[q].copy \in Objects
        BY DEF TypeOK, Reconciles
      <3>2. Agrees(rec[q].copy, obj[rec[q].report])
        BY DEF CopiesAgree
      <3>3. QED
        BY <2>2, <3>1, <3>2, AgreesLater
    <2>3. CASE rec'[q].report = rec[q].report /\ rec'[q].copy = obj'[rec[q].report]
      <3>1. rec'[q].copy \in Objects
        BY DEF TypeOK, Reconciles
      <3>2. rec'[q].copy.rv <= rec'[q].copy.rv
        BY <3>1 DEF Objects
      <3>3. QED
        BY <2>3, <3>2 DEF Agrees
    <2>4. CASE rec'[q].report \in Reports /\ rec'[q].copy = cache[q][rec'[q].report]
      BY <1>2, <2>4
    <2>5. QED
      BY <2>1, <2>2, <2>3, <2>4 DEF Carried
  <1>5. QED
    BY <1>1, <1>3, <1>4 DEF CopiesAgree

\* The update of a reconcile goes through only on the object it copied.
LEMMA AcceptedIsCopied ==
  ASSUME TypeOK, CopiesAgree, NEW r \in Replicas, Accepts(rec[r].report, rec[r].copy)
  PROVE  obj[rec[r].report] = rec[r].copy /\ rec[r].copy.exists
  BY DEF CopiesAgree, Accepts, Agrees

\* A status update: refused, or one new version of the object that was copied.
LEMMA UpdateWrites ==
  ASSUME TypeOK, CopiesAgree, NEW r \in Replicas, NEW phase \in Phases,
         Succeeds(r, phase) \/ Errs(r, phase)
  PROVE  /\ ObjGrows
         /\ \/ obj' = obj /\ ~ Succeeds(r, phase)
            \/ /\ obj' = [obj EXCEPT ![rec[r].report] = Updated(r, phase)]
               /\ obj[rec[r].report] = rec[r].copy /\ rec[r].copy.exists
         /\ Succeeds(r, phase) => obj'[rec[r].report] = Updated(r, phase)
  <1>1. rec[r].report \in Reports /\ obj \in [Reports -> Objects]
    BY DEF TypeOK, Reconciles
  <1>2. CASE obj' = obj /\ ~ Succeeds(r, phase)
    BY <1>2 DEF ObjGrows
  <1>3. CASE Accepts(rec[r].report, rec[r].copy)
             /\ obj' = [obj EXCEPT ![rec[r].report] = Updated(r, phase)]
    <2>1. obj[rec[r].report] = rec[r].copy /\ rec[r].copy.exists
      BY <1>3, AcceptedIsCopied
    <2>2. Updated(r, phase) \in Objects /\ Updated(r, phase).rv = obj[rec[r].report].rv + 1
      BY <2>1, UpdatedObject
    <2>3. ObjGrows
      BY <1>1, <1>3, <2>2 DEF ObjGrows
    <2>4. QED
      BY <1>1, <1>3, <2>1, <2>3
  <1>4. QED
    BY <1>2, <1>3 DEF Succeeds, Errs

-----------------------------------------------------------------------------
(* Stages and counts.                                                       *)

Rest == StagesFit /\ OneAnalyst /\ CountsFit

\* A step that leaves phases and history alone and in which a reconcile at most
\* begins or ends.
LEMMA QuietRest ==
  ASSUME TypeOK, Rest, UNCHANGED history,
         \A d \in Reports : obj'[d].phase = obj[d].phase,
         \A q \in Replicas :
           \/ rec'[q] = rec[q]
           \/ rec'[q].pc \in {"idle", "unfinalize"}
           \/ rec'[q].pc = "take" /\ rec'[q].copy.phase \in Waiting
  PROVE  Rest'
  <1>1. UNCHANGED <<analyses, suggested, plans>>
    BY DEF history
  <1>2. ASSUME NEW q \in Replicas PROVE StageFits(q)'
    <2>1. CASE rec'[q] = rec[q]
      <3>1. rec[q].report \in Reports /\ StageFits(q)
        BY DEF TypeOK, Reconciles, Rest, StagesFit
      <3>2. QED
        BY <1>1, <2>1, <3>1 DEF StageFits, Working
    <2>2. CASE rec'[q] # rec[q]
      BY <2>2 DEF StageFits, Working
    <2>3. QED
      BY <2>1, <2>2
  <1>3. \A q \in Replicas : Claims(q)' => rec'[q] = rec[q] /\ Claims(q)
    BY DEF Claims, Working
  <1>4. OneAnalyst'
    BY <1>3 DEF Rest, OneAnalyst
  <1>5. CountsFit'
    BY <1>1 DEF Rest, CountsFit
  <1>6. QED
    BY <1>2, <1>4, <1>5 DEF Rest, StagesFit

\* What a reconcile that analyses a report knows of it, and of the others.
LEMMA AnalystKnows ==
  ASSUME TypeOK, Rest, NEW r \in Replicas, Claims(r)
  PROVE  \A q \in Replicas \ {r} : Claims(q) => rec[q].report # rec[r].report
  BY DEF Rest, OneAnalyst

\* A step of the reconcile of r on its report d, the other reconciles and the
\* other reports left alone.
Solo(r, d) ==
  /\ \A q \in Replicas \ {r} : rec'[q] = rec[q]
  /\ \A e \in Reports \ {d} :
       /\ obj'[e].phase = obj[e].phase
       /\ analyses'[e] = analyses[e] /\ suggested'[e] = suggested[e] /\ plans'[e] = plans[e]

\* The counts of the other reports still fit after such a step, and so do the
\* stages of the reconciles on them.
LEMMA SoloOthers ==
  ASSUME TypeOK, Rest, NEW r \in Replicas, NEW d \in Reports, Solo(r, d)
  PROVE  /\ \A q \in Replicas \ {r} : rec[q].report # d => StageFits(q)'
         /\ \A q \in Replicas \ {r} : ~ Claims(q) => StageFits(q)'
         /\ CountsFit' <=>
              /\ obj'[d].phase \in Waiting => analyses'[d] = 0
              /\ analyses'[d] <= 1 /\ plans'[d] <= 1
              /\ plans'[d] > 0 =>
                   analyses'[d] = 1 /\ suggested'[d] /\ obj'[d].phase = "Completed"
  <1>1. ASSUME NEW q \in Replicas \ {r} PROVE rec'[q] = rec[q] /\ StageFits(q) /\ rec[q].report \in Reports
    BY DEF Solo, Rest, StagesFit, TypeOK, Reconciles
  <1>2. ASSUME NEW q \in Replicas \ {r}, rec[q].report # d PROVE StageFits(q)'
    <2>1. /\ obj'[rec[q].report].phase = obj[rec[q].report].phase
          /\ analyses'[rec[q].report] = analyses[rec[q].report]
          /\ suggested'[rec[q].report] = suggested[rec[q].report]
          /\ plans'[rec[q].report] = plans[rec[q].report]
      BY <1>1, <1>2 DEF Solo
    <2>2. QED
      BY <1>1, <2>1 DEF StageFits, Working
  <1>3. ASSUME NEW q \in Replicas \ {r}, ~ Claims(q) PROVE StageFits(q)'
    BY <1>1, <1>3 DEF StageFits, Claims, Working
  <1>4. ASSUME NEW e \in Reports \ {d}
        PROVE  /\ obj'[e].phase \in Waiting => analyses'[e] = 0
               /\ analyses'[e] <= 1 /\ plans'[e] <= 1
               /\ plans'[e] > 0 =>
                    analyses'[e] = 1 /\ suggested'[e] /\ obj'[e].phase = "Completed"
    BY DEF Solo, Rest, CountsFit
  <1>5. QED
    BY <1>2, <1>3, <1>4 DEF CountsFit

\* After the step at most the reconcile that made it claims its report, if it did
\* before or nobody did.
LEMMA SoloClaims ==
  ASSUME TypeOK, Rest, NEW r \in Replicas, NEW d \in Reports, Solo(r, d),
         \A q \in Replicas \ {r} : Claims(q) => rec[q].report # d,
         Claims(r)' => rec'[r].report = d
  PROVE  OneAnalyst' /\ \A q \in Replicas \ {r} : StageFits(q)'
  <1>1. \A q \in Replicas \ {r} : StageFits(q)'
    BY SoloOthers
  <1>2. \A q \in Replicas \ {r} : rec'[q] = rec[q] /\ (Claims(q)' <=> Claims(q))
    BY DEF Solo, Claims, Working
  <1>3. OneAnalyst'
    BY <1>2 DEF Rest, OneAnalyst
  <1>4. QED
    BY <1>1, <1>3

-----------------------------------------------------------------------------
(* The steps of a reconcile.                                                *)

\* Nobody is analysing a report that waits.
LEMMA WaitingUnclaimed ==
  ASSUME TypeOK, Rest, NEW d \in Reports, obj[d].phase \in Waiting
  PROVE  \A q \in Replicas : Claims(q) => rec[q].report # d
  BY DEF Rest, StagesFit, StageFits, Claims, Waiting

\* A reconcile that returns, or stays idle, has nothing to keep.
LEMMA IdleFits ==
  ASSUME NEW r \in Replicas, Return(r), TypeOK
  PROVE  /\ rec'[r] = NoReconcile /\ ~ Claims(r)' /\ StageFits(r)'
         /\ \A q \in Replicas \ {r} : rec'[q] = rec[q]
         /\ \A q \in Replicas : Carried(q)
  BY IdleValue DEF Return, TypeOK, Claims, Working, StageFits, Carried

LEMMA StartAnalysisKeeps ==
  ASSUME TypeOK, TypeOK', CopiesAgree, Rest, NEW r \in Replicas, StartAnalysis(r)
  PROVE  CopiesAgree' /\ Rest'
  <1> DEFINE d == rec[r].report
             new == Updated(r, "Analyzing")
  <1>1. /\ d \in Reports /\ "Analyzing" \in Phases
        /\ rec[r].copy.phase \in Waiting /\ UNCHANGED <<cache, history>>
        /\ Succeeds(r, "Analyzing") \/ Errs(r, "Analyzing")
    BY DEF TypeOK, Reconciles, Phases, StartAnalysis, Rest, StagesFit, StageFits
  <1>2. ObjGrows /\ new.phase = "Analyzing"
    BY <1>1, UpdateWrites, UpdatedObject
  <1>3. CopiesAgree'
    <2>1. ASSUME NEW q \in Replicas PROVE Carried(q)
      <3>1. CASE Return(r)
        BY <3>1, IdleFits
      <3>2. CASE Succeeds(r, "Analyzing") /\ Holding(r, "prepare", "Analyzing")
        <4>1. obj'[d] = new
          BY <1>1, <3>2, UpdateWrites
        <4>2. QED
          BY <3>2, <4>1 DEF Holding, Carried, TypeOK, Reconciles
      <3>3. QED
        BY <3>1, <3>2 DEF StartAnalysis
    <2>2. QED
      BY <1>1, <1>2, <2>1, CopiesStay
  <1>4. CASE obj' = obj /\ ~ Succeeds(r, "Analyzing")
    <2>1. rec'[r] = NoReconcile /\ \A q \in Replicas \ {r} : rec'[q] = rec[q]
      BY <1>4, IdleFits DEF StartAnalysis
    <2>2. \A q \in Replicas : rec'[q] = rec[q] \/ rec'[q].pc \in {"idle", "unfinalize"}
      BY <2>1, IdleValue
    <2>3. Rest'
      BY <1>1, <1>4, <2>2, QuietRest
    <2>4. QED
      BY <1>3, <2>3
  <1>5. CASE obj' = [obj EXCEPT ![d] = new] /\ obj[d] = rec[r].copy
    <2>1. obj[d].phase \in Waiting /\ obj'[d].phase = "Analyzing" /\ analyses[d] = 0
      BY <1>1, <1>2, <1>5 DEF TypeOK, Rest, CountsFit
    <2>2. \A q \in Replicas : Claims(q) => rec[q].report # d
      BY <1>1, <2>1, WaitingUnclaimed
    <2>3. \A q \in Replicas \ {r} : rec'[q] = rec[q]
      BY IdleFits DEF StartAnalysis, Holding, TypeOK
    <2>4. Solo(r, d)
      BY <1>1, <1>5, <2>3 DEF Solo, history, TypeOK
    <2>5. StageFits(r)' /\ (Claims(r)' => rec'[r].report = d)
      <3>1. CASE Return(r)
        BY <3>1, IdleFits
      <3>2. CASE Holding(r, "prepare", "Analyzing")
        <4>1. rec'[r].pc = "prepare" /\ rec'[r].report = d /\ rec'[r].copy = new
          BY <3>2 DEF Holding, TypeOK, Reconciles
        <4>2. analyses'[d] = 0
          BY <1>1, <2>1 DEF history
        <4>3. QED
          BY <1>2, <2>1, <4>1, <4>2 DEF StageFits, Claims, Working
      <3>3. QED
        BY <3>1, <3>2 DEF StartAnalysis
    <2>6. OneAnalyst' /\ StagesFit'
      BY <1>1, <2>2, <2>4, <2>5, SoloClaims DEF StagesFit
    <2>7. CountsFit'
      <3>1. plans[d] <= 1 /\ ~ (plans[d] > 0)
        BY <1>1, <2>1 DEF Rest, CountsFit, Waiting
      <3>2. analyses'[d] = 0 /\ plans'[d] = plans[d]
        BY <1>1, <2>1 DEF history
      <3>3. obj'[d].phase \notin Waiting
        BY <2>1 DEF Waiting
      <3>4. analyses'[d] <= 1 /\ plans'[d] <= 1 /\ ~ (plans'[d] > 0)
        BY <3>1, <3>2
      <3>5. QED
        BY <1>1, <2>4, <3>3, <3>4, SoloOthers
    <2>8. QED
      BY <1>3, <2>6, <2>7 DEF Rest
  <1>6. QED
    BY <1>1, <1>4, <1>5, UpdateWrites

\* A status update by an analyst that ends the reconcile without an answer to
\* suggest from: back to Pending, to Failed, or a Completed that did not arrive.
LEMMA LastUpdateKeeps ==
  ASSUME TypeOK, TypeOK', CopiesAgree, Rest, NEW r \in Replicas,
         NEW phase \in {"Pending", "Completed", "Failed"},
         Succeeds(r, phase) \/ Errs(r, phase),
         Working(r), phase = "Pending" => rec[r].pc = "postpone",
         Return(r), UNCHANGED <<cache, history>>
  PROVE  CopiesAgree' /\ Rest'
  <1> DEFINE d == rec[r].report
             new == Updated(r, phase)
  <1>1. /\ d \in Reports /\ phase \in Phases /\ Claims(r)
        /\ obj[d].phase = "Analyzing"
        /\ phase = "Pending" => analyses[d] = 0
        /\ UNCHANGED <<analyses, suggested, plans>>
    BY DEF TypeOK, Reconciles, Phases, Rest, StagesFit, StageFits, Claims, history
  <1>2. ObjGrows /\ new.phase = phase
    BY <1>1, UpdateWrites, UpdatedObject
  <1>3. /\ rec'[r] = NoReconcile /\ ~ Claims(r)' /\ StageFits(r)'
        /\ \A q \in Replicas \ {r} : rec'[q] = rec[q]
        /\ \A q \in Replicas : Carried(q)
    BY IdleFits
  <1>4. CopiesAgree'
    BY <1>2, <1>3, CopiesStay
  <1>5. obj' = obj \/ obj' = [obj EXCEPT ![d] = new]
    BY <1>1, UpdateWrites
  <1>6. CASE obj' = obj
    <2>1. \A q \in Replicas : rec'[q] = rec[q] \/ rec'[q].pc \in {"idle", "unfinalize"}
      BY <1>3, IdleValue
    <2>2. QED
      BY <1>4, <1>6, <2>1, QuietRest
  <1>7. CASE obj' = [obj EXCEPT ![d] = new]
    <2>1. obj'[d].phase = phase
      BY <1>1, <1>2, <1>7 DEF TypeOK
    <2>2. Solo(r, d)
      BY <1>1, <1>3, <1>7 DEF Solo, TypeOK
    <2>3. OneAnalyst' /\ StagesFit'
      BY <1>1, <1>3, <2>2, AnalystKnows, SoloClaims DEF StagesFit
    <2>4. CountsFit'
      <3>1. analyses[d] <= 1 /\ plans[d] <= 1 /\ ~ (plans[d] > 0)
        BY <1>1 DEF Rest, CountsFit
      <3>2. phase \in Waiting => phase = "Pending"
        BY DEF Waiting
      <3>3. obj'[d].phase \in Waiting => analyses'[d] = 0
        BY <1>1, <2>1, <3>2
      <3>4. analyses'[d] <= 1 /\ plans'[d] <= 1 /\ ~ (plans'[d] > 0)
        BY <1>1, <3>1
      <3>5. QED
        BY <1>1, <2>2, <3>3, <3>4, SoloOthers
    <2>5. QED
      BY <1>4, <2>3, <2>4 DEF Rest
  <1>8. QED
    BY <1>5, <1>6, <1>7

\* The answer arrives: the report is Completed and its plan may be made.
LEMMA AnswerKeeps ==
  ASSUME TypeOK, TypeOK', CopiesAgree, Rest, NEW r \in Replicas,
         rec[r].pc = "complete",
         Succeeds(r, "Completed"), Holding(r, "plan", "Completed"),
         UNCHANGED <<cache, history>>
  PROVE  CopiesAgree' /\ Rest'
  <1> DEFINE d == rec[r].report
             new == Updated(r, "Completed")
  <1>1. /\ d \in Reports /\ "Completed" \in Phases /\ Claims(r)
        /\ obj[d].phase = "Analyzing" /\ analyses[d] = 1
        /\ rec[r].suggests => suggested[d]
        /\ UNCHANGED <<analyses, suggested, plans>>
    BY DEF TypeOK, Reconciles, Phases, Rest, StagesFit, StageFits, Claims, Working, history
  <1>2. /\ ObjGrows /\ new.phase = "Completed"
        /\ obj' = [obj EXCEPT ![d] = new] /\ obj'[d] = new
    BY <1>1, UpdateWrites, UpdatedObject
  <1>3. /\ rec'[r].pc = "plan" /\ rec'[r].report = d /\ rec'[r].copy = new
        /\ rec'[r].suggests = rec[r].suggests
        /\ \A q \in Replicas \ {r} : rec'[q] = rec[q]
    BY DEF Holding, TypeOK, Reconciles
  <1>4. CopiesAgree'
    <2>1. \A q \in Replicas : Carried(q)
      BY <1>2, <1>3 DEF Carried
    <2>2. QED
      BY <1>2, <2>1, CopiesStay
  <1>5. plans[d] <= 1 /\ ~ (plans[d] > 0) /\ plans[d] \in Nat
    BY <1>1 DEF Rest, CountsFit, TypeOK
  <1>6. Solo(r, d)
    BY <1>1, <1>2, <1>3 DEF Solo, TypeOK
  <1>7. StageFits(r)'
    <2>1. plans'[d] = 0
      BY <1>1, <1>5
    <2>2. QED
      BY <1>1, <1>2, <1>3, <2>1 DEF StageFits, Working
  <1>8. OneAnalyst' /\ StagesFit'
    BY <1>1, <1>3, <1>6, <1>7, AnalystKnows, SoloClaims DEF StagesFit
  <1>9. CountsFit'
    <2>1. obj'[d].phase \notin Waiting
      BY <1>2 DEF Waiting
    <2>2. analyses'[d] <= 1 /\ plans'[d] <= 1 /\ ~ (plans'[d] > 0)
      BY <1>1, <1>5
    <2>3. QED
      BY <1>1, <1>6, <2>1, <2>2, SoloOthers
  <1>10. QED
    BY <1>4, <1>8, <1>9 DEF Rest

\* The agent runs: the one run of the report.
LEMMA RunAgentKeeps ==
  ASSUME TypeOK, TypeOK', CopiesAgree, Rest, NEW r \in Replicas, RunAgent(r)
  PROVE  CopiesAgree' /\ Rest'
  <1> DEFINE d == rec[r].report
  <1>1. /\ d \in Reports /\ Claims(r) /\ UNCHANGED <<obj, cache, plans>>
        /\ obj[d].phase = "Analyzing" /\ rec[r].copy.phase = "Analyzing" /\ analyses[d] = 0
    BY DEF TypeOK, Reconciles, Rest, StagesFit, StageFits, Claims, Working, RunAgent, cluster
  <1>2. /\ rec'[r].pc \in {"complete", "fail"}
        /\ rec'[r].report = d /\ rec'[r].copy = rec[r].copy
        /\ \A q \in Replicas \ {r} : rec'[q] = rec[q]
    BY RunMoves DEF Moves
  <1>3. CopiesAgree'
    BY <1>1, <1>2, CopiesStay DEF Carried, ObjGrows
  <1>4. analyses' = [analyses EXCEPT ![d] = @ + 1] /\ analyses \in [Reports -> Nat]
    BY DEF RunAgent, TypeOK
  <1>5. analyses'[d] = 1
    BY <1>1, <1>4
  <1>6. /\ \A e \in Reports \ {d} : suggested'[e] = suggested[e]
        /\ rec'[r].pc = "complete" /\ rec'[r].suggests => suggested'[d]
    <2>1. suggested \in [Reports -> BOOLEAN]
      BY DEF TypeOK
    <2>2. CASE Goto(r, "fail") /\ UNCHANGED suggested
      BY <2>2 DEF Goto, TypeOK, Reconciles
    <2>3. ASSUME NEW s \in BOOLEAN,
                 rec' = [rec EXCEPT ![r] = [rec[r] EXCEPT !.pc = "complete", !.suggests = s]],
                 suggested' = [suggested EXCEPT ![d] = @ \/ s]
          PROVE  /\ \A e \in Reports \ {d} : suggested'[e] = suggested[e]
                 /\ rec'[r].suggests => suggested'[d]
      <3>1. rec'[r].suggests = s
        BY <2>3 DEF TypeOK, Reconciles
      <3>2. suggested'[d] = (suggested[d] \/ s)
        BY <1>1, <2>1, <2>3
      <3>3. \A e \in Reports \ {d} : suggested'[e] = suggested[e]
        BY <1>1, <2>1, <2>3
      <3>4. QED
        BY <3>1, <3>2, <3>3
    <2>4. QED
      BY <2>2, <2>3 DEF RunAgent
  <1>7. Solo(r, d)
    BY <1>1, <1>2, <1>4, <1>6 DEF Solo
  <1>8. StageFits(r)'
    BY <1>1, <1>2, <1>5, <1>6 DEF StageFits, Working
  <1>9. OneAnalyst' /\ StagesFit'
    BY <1>1, <1>2, <1>7, <1>8, AnalystKnows, SoloClaims DEF StagesFit
  <1>10. CountsFit'
    <2>1. obj'[d].phase \notin Waiting
      BY <1>1 DEF Waiting
    <2>2. plans'[d] <= 1 /\ ~ (plans'[d] > 0)
      BY <1>1 DEF Rest, CountsFit
    <2>3. analyses'[d] <= 1
      BY <1>5
    <2>4. QED
      BY <1>1, <1>7, <2>1, <2>2, <2>3, SoloOthers
  <1>11. QED
    BY <1>3, <1>9, <1>10 DEF Rest

\* The plan is made, at most once, from a suggestion of the completed answer.
LEMMA MaybeCreatePlanKeeps ==
  ASSUME TypeOK, TypeOK', CopiesAgree, Rest, NEW r \in Replicas, MaybeCreatePlan(r)
  PROVE  CopiesAgree' /\ Rest'
  <1> DEFINE d == rec[r].report
  <1>1. /\ d \in Reports /\ Claims(r) /\ UNCHANGED <<obj, cache, analyses, suggested>>
        /\ obj[d].phase = "Completed" /\ analyses[d] = 1 /\ plans[d] = 0
        /\ rec[r].suggests => suggested[d]
    BY DEF TypeOK, Reconciles, Rest, StagesFit, StageFits, Claims, Working, MaybeCreatePlan, cluster
  <1>2. /\ rec'[r] = NoReconcile /\ ~ Claims(r)' /\ StageFits(r)'
        /\ \A q \in Replicas \ {r} : rec'[q] = rec[q]
        /\ \A q \in Replicas : Carried(q)
    BY IdleFits DEF MaybeCreatePlan
  <1>3. CopiesAgree'
    BY <1>1, <1>2, CopiesStay DEF ObjGrows
  <1>4. /\ plans'[d] \in {0, 1} /\ (plans'[d] = 1 => rec[r].suggests)
        /\ \A e \in Reports \ {d} : plans'[e] = plans[e]
    <2>1. plans \in [Reports -> Nat]
      BY DEF TypeOK
    <2>2. CASE UNCHANGED plans
      BY <1>1, <2>2
    <2>3. CASE rec[r].suggests /\ plans' = [plans EXCEPT ![d] = @ + 1]
      BY <1>1, <2>1, <2>3
    <2>4. QED
      BY <2>2, <2>3 DEF MaybeCreatePlan, Wanted
  <1>5. Solo(r, d)
    BY <1>1, <1>2, <1>4 DEF Solo
  <1>6. OneAnalyst' /\ StagesFit'
    BY <1>1, <1>2, <1>5, AnalystKnows, SoloClaims DEF StagesFit
  <1>7. CountsFit'
    <2>1. obj'[d].phase \notin Waiting
      BY <1>1 DEF Waiting
    <2>2. analyses'[d] <= 1 /\ plans'[d] <= 1
      BY <1>1, <1>4
    <2>3. plans'[d] > 0 => analyses'[d] = 1 /\ suggested'[d] /\ obj'[d].phase = "Completed"
      BY <1>1, <1>4
    <2>4. QED
      BY <1>1, <1>5, <2>1, <2>2, <2>3, SoloOthers
  <1>8. QED
    BY <1>3, <1>6, <1>7 DEF Rest

LEMMA PrepareKeeps ==
  ASSUME TypeOK, TypeOK', CopiesAgree, Rest, NEW r \in Replicas, Prepare(r)
  PROVE  CopiesAgree' /\ Rest'
  <1> DEFINE d == rec[r].report
  <1>1. /\ d \in Reports /\ Claims(r) /\ UNCHANGED <<obj, cache, analyses, suggested, plans>>
        /\ obj[d].phase = "Analyzing" /\ rec[r].copy.phase = "Analyzing" /\ analyses[d] = 0
    BY DEF TypeOK, Reconciles, Rest, StagesFit, StageFits, Claims, Working, Prepare,
      cluster, history
  <1>2. /\ rec'[r].pc \in {"agent", "postpone", "fail"}
        /\ rec'[r].report = d /\ rec'[r].copy = rec[r].copy
        /\ \A q \in Replicas \ {r} : rec'[q] = rec[q]
    BY DEF Prepare, Goto, TypeOK, Reconciles
  <1>3. CopiesAgree'
    BY <1>1, <1>2, CopiesStay DEF Carried, ObjGrows
  <1>4. Solo(r, d)
    BY <1>1, <1>2 DEF Solo
  <1>5. StageFits(r)'
    BY <1>1, <1>2 DEF StageFits, Working
  <1>6. OneAnalyst' /\ StagesFit'
    BY <1>1, <1>2, <1>4, <1>5, AnalystKnows, SoloClaims DEF StagesFit
  <1>7. CountsFit'
    BY <1>1 DEF Rest, CountsFit
  <1>8. QED
    BY <1>3, <1>6, <1>7 DEF Rest

LEMMA UnfinalizeKeeps ==
  ASSUME TypeOK, TypeOK', CopiesAgree, Rest, NEW r \in Replicas, Unfinalize(r)
  PROVE  CopiesAgree' /\ Rest'
  <1> DEFINE d == rec[r].report
             freed == [rec[r].copy EXCEPT !.held = FALSE, !.exists = FALSE]
  <1>1. d \in Reports /\ rec[r].copy \in Objects /\ obj \in [Reports -> Objects]
    BY DEF TypeOK, Reconciles
  <1>2. freed \in Objects /\ freed.rv = rec[r].copy.rv /\ freed.phase = rec[r].copy.phase
    BY <1>1 DEF Objects
  <1>3. obj' = obj \/ (Accepts(d, rec[r].copy) /\ obj' = [obj EXCEPT ![d] = Bump(freed)])
    BY DEF Unfinalize
  <1>4. ObjGrows /\ \A e \in Reports : obj'[e].phase = obj[e].phase
    <2>1. CASE obj' = obj
      BY <2>1 DEF ObjGrows
    <2>2. CASE Accepts(d, rec[r].copy) /\ obj' = [obj EXCEPT ![d] = Bump(freed)]
      <3>1. obj[d] = rec[r].copy
        BY <2>2, AcceptedIsCopied
      <3>2. /\ Bump(freed) \in Objects /\ Bump(freed).rv = obj[d].rv + 1
            /\ Bump(freed).phase = obj[d].phase
        <4> HIDE DEF freed
        <4>1. QED
          BY <1>2, <3>1, BumpObject
      <3>3. QED
        BY <1>1, <2>2, <3>2 DEF ObjGrows
    <2>3. QED
      BY <1>3, <2>1, <2>2
  <1>5. /\ Return(r) /\ UNCHANGED <<cache, history>>
        /\ \A q \in Replicas : Carried(q)
        /\ \A q \in Replicas : rec'[q] = rec[q] \/ rec'[q].pc \in {"idle", "unfinalize"}
    BY IdleFits, IdleValue DEF Unfinalize
  <1>6. CopiesAgree'
    BY <1>4, <1>5, CopiesStay
  <1>7. Rest'
    BY <1>4, <1>5, QuietRest
  <1>8. QED
    BY <1>6, <1>7

LEMMA AnalyseKeeps ==
  ASSUME TypeOK, TypeOK', CopiesAgree, Rest, NEW r \in Replicas, Analyse(r)
  PROVE  CopiesAgree' /\ Rest'
  <1>1. CASE Postpone(r)
    BY <1>1, LastUpdateKeeps DEF Postpone, Working, cluster
  <1>2. CASE FailReport(r)
    BY <1>2, LastUpdateKeeps DEF FailReport, Working, cluster
  <1>3. CASE Complete(r)
    <2>1. rec[r].pc = "complete" /\ Working(r) /\ UNCHANGED <<cache, history>>
      BY <1>3 DEF Complete, Working
    <2>2. CASE Succeeds(r, "Completed") /\ Holding(r, "plan", "Completed")
      BY <2>1, <2>2, AnswerKeeps
    <2>3. CASE Errs(r, "Completed") /\ Return(r)
      BY <2>1, <2>3, LastUpdateKeeps
    <2>4. QED
      BY <1>3, <2>2, <2>3 DEF Complete
  <1>4. QED
    BY <1>1, <1>2, <1>3, UnfinalizeKeeps, StartAnalysisKeeps, PrepareKeeps, RunAgentKeeps,
      MaybeCreatePlanKeeps DEF Analyse

-----------------------------------------------------------------------------
(* The other steps.                                                         *)

\* A reconcile begins on what the cache holds.
LEMMA BeginKeeps ==
  ASSUME TypeOK, TypeOK', CopiesAgree, Rest, NEW r \in Replicas, NEW d \in Reports,
         Begin(r, d)
  PROVE  CopiesAgree' /\ Rest'
  <1>1. UNCHANGED <<obj, cache, history>>
    BY DEF Begin, cluster
  <1>2. ASSUME NEW q \in Replicas
        PROVE  \/ rec'[q] = rec[q]
               \/ /\ rec'[q].report = d /\ rec'[q].copy = cache[q][d]
                  /\ \/ rec'[q].pc = "unfinalize"
                     \/ rec'[q].pc = "take" /\ rec'[q].copy.phase \in Waiting
    BY DEF Begin, TypeOK, Takes
  <1>3. CopiesAgree'
    BY <1>1, <1>2, CopiesStay DEF Carried, ObjGrows
  <1>4. Rest'
    BY <1>1, <1>2, QuietRest
  <1>5. QED
    BY <1>3, <1>4

\* A step that writes one object, or none, without touching its phase, while
\* reconciles stay where they are or are killed and caches catch up.
LEMMA OutsideKeeps ==
  ASSUME TypeOK, TypeOK', CopiesAgree, Rest, ObjGrows, UNCHANGED history,
         \A d \in Reports : obj'[d].phase = obj[d].phase,
         \A r \in Replicas, d \in Reports : cache'[r][d] \in {cache[r][d], obj'[d]},
         \A q \in Replicas : rec'[q] \in {rec[q], NoReconcile}
  PROVE  CopiesAgree' /\ Rest'
  <1>1. CopiesAgree'
    BY CopiesStay DEF Carried
  <1>2. Rest'
    BY IdleValue, QuietRest
  <1>3. QED
    BY <1>1, <1>2

\* Deleting and creating reports.
LEMMA DeletedGrows ==
  ASSUME TypeOK, NEW d \in Reports, obj' = Deleted(d)
  PROVE  ObjGrows /\ \A e \in Reports : obj'[e].phase = obj[e].phase
  <1>1. obj \in [Reports -> Objects]
    BY DEF TypeOK
  <1>2. CASE obj' = obj
    BY <1>2 DEF ObjGrows
  <1>3. ASSUME NEW new \in Objects, obj' = [obj EXCEPT ![d] = new],
               new.rv = obj[d].rv + 1, new.phase = obj[d].phase
        PROVE  ObjGrows /\ \A e \in Reports : obj'[e].phase = obj[e].phase
    BY <1>1, <1>3 DEF ObjGrows
  <1>4. QED
    BY <1>2, <1>3, DeletedObject

LEMMA CreatedGrows ==
  ASSUME TypeOK, CopiesAgree, NEW s \in Subjects, NEW held \in BOOLEAN, Created(s, held)
  PROVE  ObjGrows /\ \A e \in Reports : obj'[e].phase = obj[e].phase
  <1>1. PICK d \in Reports : obj[d].rv = 0 /\ obj' = [obj EXCEPT ![d] = NewReport(held)]
    BY CreatedObject
  <1>2. NewReport(held) \in Objects /\ NewReport(held).rv = 1 /\ NewReport(held).phase = ""
    BY ObjectValues DEF NewReport
  <1>3. obj[d].phase = ""
    <2>1. obj[d] = NoObject
      BY <1>1 DEF CopiesAgree
    <2>2. NoObject.phase = ""
      BY DEF NoObject
    <2>3. QED
      BY <2>1, <2>2
  <1>4. obj \in [Reports -> Objects]
    BY DEF TypeOK
  <1>5. ObjGrows
    <2>1. NewReport(held).rv = obj[d].rv + 1
      <3>1. obj[d].rv = 0 /\ NewReport(held).rv = 1
        BY <1>1, <1>2
      <3>2. 1 = 0 + 1
        OBVIOUS
      <3>3. QED
        BY <3>1, <3>2, Zenon
    <2>2. QED
      BY <1>1, <1>2, <2>1 DEF ObjGrows
  <1>6. QED
    BY <1>1, <1>2, <1>3, <1>4, <1>5

LEMMA EnvironmentKeeps ==
  ASSUME TypeOK, TypeOK', CopiesAgree, Rest,
         \/ \E r \in Replicas :
              \/ CreateReport(r) \/ Crash(r)
              \/ \E d \in Reports : Sync(r, d) \/ Cleanup(r, d)
              \/ \E s \in Subjects : Notice(r, s) \/ Cooled(r, s)
         \/ \E d \in Reports : Age(d) \/ Touch(d) \/ Delete(d)
         \/ \E s \in Subjects : UserReport(s)
         \/ Configure
         \/ UNCHANGED vars
  PROVE  CopiesAgree' /\ Rest'
  <1> USE DEF cluster, collector
  <1>1. /\ obj \in [Reports -> Objects] /\ rec \in [Replicas -> Reconciles]
        /\ cache \in [Replicas -> [Reports -> Objects]]
    BY DEF TypeOK
  <1>2. ASSUME UNCHANGED <<obj, rec, history>>,
               \A r \in Replicas, d \in Reports : cache'[r][d] \in {cache[r][d], obj'[d]}
        PROVE  CopiesAgree' /\ Rest'
    BY <1>2, OutsideKeeps DEF ObjGrows
  <1>3. ASSUME ObjGrows, \A d \in Reports : obj'[d].phase = obj[d].phase,
               UNCHANGED <<cache, rec, history>>
        PROVE  CopiesAgree' /\ Rest'
    BY <1>3, OutsideKeeps
  <1>4. ASSUME NEW r \in Replicas, NEW s \in Subjects, Notice(r, s) \/ Cooled(r, s)
        PROVE  CopiesAgree' /\ Rest'
    BY <1>2, <1>4 DEF Notice, Cooled
  <1>5. ASSUME NEW r \in Replicas, NEW d \in Reports, Sync(r, d)
        PROVE  CopiesAgree' /\ Rest'
    BY <1>1, <1>2, <1>5 DEF Sync
  <1>6. ASSUME NEW r \in Replicas, Crash(r) PROVE CopiesAgree' /\ Rest'
    <2>1. \A q \in Replicas : rec'[q] \in {rec[q], NoReconcile}
      BY <1>1, <1>6 DEF Crash, Return
    <2>2. \A q \in Replicas, d \in Reports : cache'[q][d] \in {cache[q][d], obj'[d]}
      BY <1>1, <1>6 DEF Crash
    <2>3. UNCHANGED <<obj, history>>
      BY <1>6 DEF Crash
    <2>4. QED
      BY <2>1, <2>2, <2>3, OutsideKeeps DEF ObjGrows
  <1>7. ASSUME NEW r \in Replicas, CreateReport(r) PROVE CopiesAgree' /\ Rest'
    <2>1. CASE Created(noticed[r], FALSE)
      <3>1. noticed[r] \in Subjects
        BY <1>7 DEF CreateReport, TypeOK
      <3>2. QED
        BY <1>3, <1>7, <2>1, <3>1, CreatedGrows DEF CreateReport
    <2>2. CASE UNCHANGED obj
      BY <1>2, <1>7, <2>2 DEF CreateReport
    <2>3. QED
      BY <1>7, <2>1, <2>2 DEF CreateReport
  <1>8. ASSUME NEW s \in Subjects, UserReport(s) PROVE CopiesAgree' /\ Rest'
    BY <1>3, <1>8, CreatedGrows DEF UserReport
  <1>9. ASSUME NEW d \in Reports, obj' = Deleted(d), UNCHANGED <<cache, rec, history>>
        PROVE  CopiesAgree' /\ Rest'
    BY <1>3, <1>9, DeletedGrows
  <1>10. ASSUME NEW d \in Reports, Touch(d) PROVE CopiesAgree' /\ Rest'
    <2>1. ObjGrows /\ \A e \in Reports : obj'[e].phase = obj[e].phase
      BY <1>1, <1>10, BumpObject DEF Touch, ObjGrows
    <2>2. QED
      BY <1>3, <1>10, <2>1 DEF Touch
  <1>11. CASE Configure \/ UNCHANGED vars \/ \E d \in Reports : Age(d)
    BY <1>2, <1>11 DEF Configure, vars, Age
  <1>12. QED
    BY <1>4, <1>5, <1>6, <1>7, <1>8, <1>9, <1>10, <1>11 DEF Cleanup, Delete

-----------------------------------------------------------------------------
(* The theorems.                                                            *)

LEMMA InitIInv == Init => IInv
  <1> SUFFICES ASSUME Init PROVE IInv
    OBVIOUS
  <1>1. TypeOK
    BY InitType
  <1>2. CopiesAgree
    <2>1. \A d \in Reports : obj[d] = NoObject /\ NoObject.rv = 0
      BY DEF Init, NoObject
    <2>2. Agrees(NoObject, NoObject)
      BY DEF Agrees, NoObject
    <2>3. \A r \in Replicas : rec[r].copy = NoObject /\ rec[r].report \in Reports
      BY IdleValue, Bounds DEF Init
    <2>4. \A r \in Replicas, d \in Reports : cache[r][d] = NoObject
      BY <2>1 DEF Init
    <2>5. QED
      BY <2>1, <2>2, <2>3, <2>4 DEF CopiesAgree
  <1>3. \A r \in Replicas : rec[r].pc = "idle"
    BY IdleValue DEF Init
  <1>4. StagesFit /\ OneAnalyst
    BY <1>3 DEF StagesFit, StageFits, OneAnalyst, Claims, Working
  <1>5. CountsFit
    BY DEF Init, CountsFit
  <1>6. QED
    BY <1>1, <1>2, <1>4, <1>5 DEF IInv

LEMMA NextIInv == IInv /\ [Next]_vars => IInv'
  <1> SUFFICES ASSUME IInv, [Next]_vars PROVE IInv'
    OBVIOUS
  <1>1. TypeOK /\ TypeOK' /\ CopiesAgree /\ Rest
    BY NextType DEF IInv, Rest
  <1>2. CopiesAgree' /\ Rest'
    BY <1>1, AnalyseKeeps, BeginKeeps, EnvironmentKeeps DEF Next
  <1>3. QED
    BY <1>1, <1>2 DEF IInv, Rest

\* The inductive invariant: copies agree with the object or are older, a report
\* has one analyst, and its history fits its phase.
THEOREM Inductive == Spec => []IInv
  BY InitIInv, NextIInv, PTL DEF Spec

\* Reports, caches and reconciles keep the shape the code gives them.
THEOREM TypeCorrect == Spec => []TypeOK
  <1>1. IInv => TypeOK
    BY DEF IInv
  <1>2. QED
    BY <1>1, Inductive, PTL

\* However many replicas reconcile a report from their caches, one agent runs on
\* it, once.
THEOREM AnalysedOnceAlways == Spec => []AnalysedOnce
  <1>1. IInv => AnalysedOnce
    BY DEF IInv, CountsFit, AnalysedOnce
  <1>2. QED
    BY <1>1, Inductive, PTL

\* A remediation plan comes from an answer with suggestions that still stands.
THEOREM PlanFollowsAnswerAlways == Spec => []PlanFollowsAnswer
  <1>1. IInv => PlanFollowsAnswer
    BY DEF IInv, CountsFit, PlanFollowsAnswer
  <1>2. QED
    BY <1>1, Inductive, PTL

-----------------------------------------------------------------------------
(* No wake-up is lost.                                                      *)

\* What is written is news to every informer.
LEMMA WriteIsUnseen ==
  ASSUME TypeOK, CopiesAgree, ObjGrows, NEW r \in Replicas, NEW d \in Reports,
         obj'[d] # obj[d]
  PROVE  cache[r][d] # obj'[d]
  <1>1. PICK e \in Reports, new \in Objects :
          obj' = [obj EXCEPT ![e] = new] /\ new.rv = obj[e].rv + 1
    BY DEF ObjGrows
  <1>2. obj'[d].rv = obj[d].rv + 1
    BY <1>1 DEF TypeOK
  <1>3. cache[r][d].rv <= obj[d].rv
    BY DEF CopiesAgree, Agrees
  <1>4. cache[r][d].rv \in Nat /\ obj[d].rv \in Nat
    BY DEF TypeOK, Objects
  <1>5. QED
    BY <1>2, <1>3, <1>4

\* A step keeps the wake-ups of r for d: the queue and the cache do not lose them,
\* and a reconcile that returns before its first update asks for another.
Keeps(r, d) ==
  /\ cache'[r][d] = cache[r][d]
  /\ d \in queue[r] => d \in queue'[r]
  /\ Starts(r, d) => Starts(r, d)' \/ d \in queue'[r] \/ obj'[d] # obj[d]

LEMMA KeptIsRemembered ==
  ASSUME TypeOK, CopiesAgree, ObjGrows, NEW r \in Replicas, NEW d \in Reports,
         NeedsWork(d) => Remembers(r, d), Keeps(r, d)
  PROVE  NeedsWork(d)' => Remembers(r, d)'
  <1>1. CASE obj'[d] # obj[d]
    BY <1>1, WriteIsUnseen DEF Keeps, Remembers
  <1>2. CASE obj'[d] = obj[d]
    BY <1>2 DEF Keeps, NeedsWork, Remembers
  <1>3. QED
    BY <1>1, <1>2

\* An update that goes through changes the object.
LEMMA SuccessWrites ==
  ASSUME TypeOK, CopiesAgree, NEW q \in Replicas, NEW phase \in Phases, Succeeds(q, phase)
  PROVE  obj'[rec[q].report] # obj[rec[q].report]
  <1>1. obj'[rec[q].report] = Updated(q, phase) /\ obj[rec[q].report] = rec[q].copy
    BY UpdateWrites, AcceptedIsCopied DEF Succeeds
  <1>2. Updated(q, phase).rv = rec[q].copy.rv + 1 /\ rec[q].copy.rv \in Nat
    BY UpdatedObject DEF TypeOK, Reconciles, Objects
  <1>3. QED
    BY <1>1, <1>2

LEMMA UnfinalizeWrites ==
  ASSUME TypeOK, CopiesAgree, NEW q \in Replicas, Unfinalize(q)
  PROVE  ObjGrows /\ (RequeueLater(q) \/ (UNCHANGED queue /\ obj'[rec[q].report] # obj[rec[q].report]))
  <1> DEFINE d == rec[q].report
             freed == [rec[q].copy EXCEPT !.held = FALSE, !.exists = FALSE]
  <1>1. d \in Reports /\ rec[q].copy \in Objects /\ obj \in [Reports -> Objects]
    BY DEF TypeOK, Reconciles
  <1>2. freed \in Objects /\ freed.rv = rec[q].copy.rv
    BY <1>1 DEF Objects
  <1>3. CASE obj' = obj /\ RequeueLater(q)
    BY <1>3 DEF ObjGrows
  <1>4. CASE Accepts(d, rec[q].copy) /\ obj' = [obj EXCEPT ![d] = Bump(freed)] /\ UNCHANGED queue
    <2>1. obj[d] = rec[q].copy
      BY <1>4, AcceptedIsCopied
    <2>2. Bump(freed) \in Objects /\ Bump(freed).rv = obj[d].rv + 1 /\ obj[d].rv \in Nat
      <3>1. obj[d].rv \in Nat
        BY <1>1 DEF Objects
      <3> HIDE DEF freed
      <3>2. QED
        BY <1>2, <2>1, <3>1, BumpObject
    <2>3. obj'[d] # obj[d]
      BY <1>1, <1>4, <2>2
    <2>4. QED
      BY <1>1, <1>4, <2>2, <2>3 DEF ObjGrows
  <1>5. QED
    BY <1>3, <1>4 DEF Unfinalize

\* Of the steps of a reconcile, only the first update and the removal of the
\* finalizer end what r starts; both requeue the report unless they wrote it.
LEMMA AnalyseRemembers ==
  ASSUME TypeOK, CopiesAgree, NEW q \in Replicas, Analyse(q)
  PROVE  ObjGrows /\ \A r \in Replicas, d \in Reports : Keeps(r, d)
  <1>1. /\ queue \in [Replicas -> SUBSET Reports] /\ rec \in [Replicas -> Reconciles]
        /\ rec[q].report \in Reports
    BY DEF TypeOK, Reconciles
  <1>2. UNCHANGED cache
    BY DEF Analyse, Unfinalize, StartAnalysis, Prepare, Postpone, RunAgent, FailReport,
      Complete, MaybeCreatePlan
  <1>3. UNCHANGED queue \/ RequeueLater(q)
    BY DEF Analyse, Unfinalize, StartAnalysis, Prepare, Postpone, RunAgent, FailReport,
      Complete, MaybeCreatePlan
  <1>4. \A s \in Replicas \ {q} : rec'[s] = rec[s]
    <2>1. \E new : rec' = [rec EXCEPT ![q] = new]
      BY DEF Analyse, Unfinalize, StartAnalysis, Prepare, Postpone, RunAgent, FailReport,
        Complete, MaybeCreatePlan, Return, Goto, Holding
    <2>2. QED
      BY <1>1, <2>1
  <1>5. \A r \in Replicas, d \in Reports : d \in queue[r] => d \in queue'[r]
    BY <1>1, <1>3 DEF RequeueLater
  <1>6. ObjGrows
    <2>1. CASE Unfinalize(q)
      BY <2>1, UnfinalizeWrites
    <2>2. CASE \E phase \in Phases : Succeeds(q, phase) \/ Errs(q, phase)
      BY <2>2, UpdateWrites
    <2>3. CASE UNCHANGED obj
      BY <2>3 DEF ObjGrows
    <2>4. StartAnalysis(q) \/ Postpone(q) \/ FailReport(q) \/ Complete(q)
            => \E phase \in Phases : Succeeds(q, phase) \/ Errs(q, phase)
      BY DEF StartAnalysis, Postpone, FailReport, Complete, Phases
    <2>5. Prepare(q) \/ RunAgent(q) \/ MaybeCreatePlan(q) => UNCHANGED obj
      BY DEF Prepare, RunAgent, MaybeCreatePlan, cluster
    <2>6. QED
      BY <2>5, <2>4, <2>3, <2>1, <2>2 DEF Analyse
  <1>7. ASSUME rec[q].pc \in {"take", "unfinalize"}
        PROVE  rec[q].report \in queue'[q] \/ obj'[rec[q].report] # obj[rec[q].report]
    <2>1. RequeueLater(q) => rec[q].report \in queue'[q]
      BY <1>1 DEF RequeueLater
    <2>2. CASE Unfinalize(q)
      BY <2>1, <2>2, UnfinalizeWrites
    <2>3. CASE StartAnalysis(q)
      BY <2>1, <2>3, SuccessWrites DEF StartAnalysis, Phases
    <2>4. QED
      BY <1>7, <2>2, <2>3 DEF Analyse, Prepare, Postpone, RunAgent, FailReport, Complete,
        MaybeCreatePlan
  <1>8. \A r \in Replicas, d \in Reports :
          Starts(r, d) => Starts(r, d)' \/ d \in queue'[r] \/ obj'[d] # obj[d]
    BY <1>4, <1>7 DEF Starts
  <1>9. QED
    BY <1>2, <1>5, <1>6, <1>8 DEF Keeps

\* A reconcile that takes a report out of the queue starts on it, unless the cache
\* is behind.
LEMMA BeginRemembers ==
  ASSUME TypeOK, NothingForgotten, NEW q \in Replicas, NEW e \in Reports, Begin(q, e)
  PROVE  NothingForgotten'
  <1>1. UNCHANGED <<obj, cache>>
    BY DEF Begin, cluster
  <1>2. queue \in [Replicas -> SUBSET Reports] /\ rec \in [Replicas -> Reconciles]
    BY DEF TypeOK
  <1>3. SUFFICES ASSUME NEW r \in Replicas, NEW d \in Reports, NeedsWork(d), cache[r][d] = obj[d]
                 PROVE  Remembers(r, d)'
    BY <1>1 DEF NothingForgotten, NeedsWork, Remembers
  <1>4. d \in queue[r] \/ Starts(r, d)
    BY <1>3 DEF NothingForgotten, Remembers
  <1>5. CASE r = q /\ d = e
    <2>1. obj[d].exists /\ (obj[d].deleting \/ Takes(obj[d]))
      BY <1>3 DEF NeedsWork, Takes
    <2>2. rec'[q].pc \in {"take", "unfinalize"} /\ rec'[q].report = d
      BY <1>2, <1>3, <1>5, <2>1 DEF Begin
    <2>3. QED
      BY <1>5, <2>2 DEF Remembers, Starts
  <1>6. CASE ~ (r = q /\ d = e) /\ d \in queue[r]
    BY <1>2, <1>6 DEF Begin, Remembers
  <1>7. CASE Starts(r, d)
    <2>1. rec[q].pc = "idle"
      BY DEF Begin
    <2>2. r # q
      BY <1>7, <2>1 DEF Starts
    <2>3. rec'[r] = rec[r]
      BY <1>2, <2>2 DEF Begin
    <2>4. QED
      BY <1>7, <2>3 DEF Remembers, Starts
  <1>8. QED
    BY <1>4, <1>5, <1>6, <1>7

\* The informer enqueues what it sees, and a restart lists every report.
LEMMA CatchUpRemembers ==
  ASSUME TypeOK, NothingForgotten, NEW q \in Replicas,
         Crash(q) \/ \E e \in Reports : Sync(q, e)
  PROVE  NothingForgotten'
  <1>1. UNCHANGED obj
    BY DEF Crash, Sync, cluster
  <1>2. /\ queue \in [Replicas -> SUBSET Reports] /\ rec \in [Replicas -> Reconciles]
        /\ cache \in [Replicas -> [Reports -> Objects]]
    BY DEF TypeOK
  <1>3. SUFFICES ASSUME NEW r \in Replicas, NEW d \in Reports, NeedsWork(d), Remembers(r, d)
                 PROVE  Remembers(r, d)'
    BY <1>1 DEF NothingForgotten, NeedsWork
  <1>4. CASE Crash(q) /\ r = q
    BY <1>2, <1>3, <1>4 DEF Crash, NeedsWork, Remembers
  <1>5. CASE Crash(q) /\ r # q
    <2>1. cache'[r] = cache[r] /\ queue'[r] = queue[r] /\ rec'[r] = rec[r]
      BY <1>2, <1>5 DEF Crash, Return
    <2>2. QED
      BY <1>1, <1>3, <2>1 DEF Remembers, Starts
  <1>6. ASSUME NEW e \in Reports, Sync(q, e) PROVE Remembers(r, d)'
    <2>1. CASE r = q /\ d = e
      BY <1>2, <1>6, <2>1 DEF Sync, Remembers
    <2>2. CASE ~ (r = q /\ d = e)
      <3>1. cache'[r][d] = cache[r][d] /\ rec' = rec
        BY <1>2, <1>6, <2>2 DEF Sync
      <3>2. d \in queue[r] => d \in queue'[r]
        BY <1>2, <1>6 DEF Sync
      <3>3. QED
        BY <1>1, <1>3, <3>1, <3>2 DEF Remembers, Starts
    <2>3. QED
      BY <2>1, <2>2
  <1>7. QED
    BY <1>4, <1>5, <1>6

\* Collectors, users and clients write objects, at most; each write is news.
LEMMA OthersRemember ==
  ASSUME TypeOK, CopiesAgree,
         \/ \E r \in Replicas :
              \/ CreateReport(r)
              \/ \E d \in Reports : Cleanup(r, d)
              \/ \E s \in Subjects : Notice(r, s) \/ Cooled(r, s)
         \/ \E d \in Reports : Age(d) \/ Touch(d) \/ Delete(d)
         \/ \E s \in Subjects : UserReport(s)
         \/ Configure
         \/ UNCHANGED vars
  PROVE  ObjGrows /\ \A r \in Replicas, d \in Reports : Keeps(r, d)
  <1>1. UNCHANGED <<cache, queue, rec>>
    BY DEF CreateReport, Cleanup, Notice, Cooled, Age, Touch, Delete, UserReport, Configure, vars
  <1>2. ASSUME NEW d \in Reports, obj' = Deleted(d) PROVE ObjGrows
    BY <1>2, DeletedGrows
  <1>3. ASSUME NEW s \in Subjects, NEW held \in BOOLEAN, Created(s, held) PROVE ObjGrows
    BY <1>3, CreatedGrows
  <1>4. ASSUME NEW d \in Reports, Touch(d) PROVE ObjGrows
    <2>1. obj \in [Reports -> Objects] /\ obj' = [obj EXCEPT ![d] = Bump(obj[d])]
      BY <1>4 DEF TypeOK, Touch
    <2>2. QED
      BY <2>1, BumpObject DEF ObjGrows
  <1>5. UNCHANGED obj => ObjGrows
    BY DEF ObjGrows
  <1>6. ASSUME NEW r \in Replicas, CreateReport(r)
        PROVE  UNCHANGED obj \/ \E s \in Subjects, held \in BOOLEAN : Created(s, held)
    BY <1>6 DEF CreateReport, TypeOK
  <1>7. ObjGrows
    BY <1>2, <1>3, <1>4, <1>5, <1>6
      DEF Cleanup, Notice, Cooled, Age, Delete, UserReport, Configure, vars, cluster
  <1>8. QED
    BY <1>1, <1>7 DEF Keeps, Starts

\* Every replica remembers every report that needs work: it is in the queue, being
\* started on, or about to be seen, whatever conflicts, errors, postponements and
\* restarts come in between.
THEOREM NothingForgottenAlways == Spec => []NothingForgotten
  <1>1. Init => NothingForgotten
    <2>1. Init => \A d \in Reports : ~ NeedsWork(d)
      <3>1. ~ NoObject.exists
        BY DEF NoObject
      <3>2. QED
        BY <3>1 DEF Init, NeedsWork
    <2>2. QED
      BY <2>1 DEF NothingForgotten
  <1>2. IInv /\ NothingForgotten /\ [Next]_vars => NothingForgotten'
    <2> SUFFICES ASSUME TypeOK, CopiesAgree, NothingForgotten, [Next]_vars
                 PROVE  NothingForgotten'
      BY DEF IInv
    <2>1. CASE ObjGrows /\ \A r \in Replicas, d \in Reports : Keeps(r, d)
      BY <2>1, KeptIsRemembered DEF NothingForgotten
    <2>2. QED
      BY <2>1, AnalyseRemembers, BeginRemembers, CatchUpRemembers, OthersRemember DEF Next
  <1>3. QED
    BY <1>1, <1>2, Inductive, PTL DEF Spec

-----------------------------------------------------------------------------
(* Without faults a report in Analyzing is being analysed.                  *)

\* A fault leaves a trace.
LEMMA NoFault ==
  ASSUME TypeOK, faults' = 0
  PROVE  ~ Fault
  BY DEF TypeOK, Fault

\* Every step spends a fault or leaves the faults alone.
LEMMA FaultsSpent ==
  ASSUME Next
  PROVE  Fault \/ UNCHANGED faults
  <1>1. \A r \in Replicas : Analyse(r) => Fault \/ UNCHANGED faults
    <2> SUFFICES ASSUME NEW r \in Replicas, Analyse(r) PROVE Fault \/ UNCHANGED faults
      OBVIOUS
    <2>1. CASE Unfinalize(r) \/ Prepare(r) \/ RunAgent(r) \/ MaybeCreatePlan(r)
      BY <2>1 DEF Unfinalize, Prepare, RunAgent, MaybeCreatePlan
    <2>2. CASE StartAnalysis(r) \/ Postpone(r) \/ FailReport(r) \/ Complete(r)
      BY <2>2 DEF StartAnalysis, Postpone, FailReport, Complete, Succeeds, Errs
    <2>3. QED
      BY <2>1, <2>2 DEF Analyse
  <1>2. \A r \in Replicas, d \in Reports :
          Begin(r, d) \/ Sync(r, d) \/ Cleanup(r, d) => UNCHANGED faults
    BY DEF Begin, Sync, Cleanup
  <1>3. \A r \in Replicas, s \in Subjects : Notice(r, s) \/ Cooled(r, s) => UNCHANGED faults
    BY DEF Notice, Cooled
  <1>4. \A r \in Replicas : CreateReport(r) \/ Crash(r) => Fault \/ UNCHANGED faults
    BY DEF CreateReport, Crash
  <1>5. \A d \in Reports : Age(d) \/ Touch(d) \/ Delete(d) => Fault \/ UNCHANGED faults
    BY DEF Age, Touch, Delete
  <1>6. Configure \/ (\E s \in Subjects : UserReport(s)) => UNCHANGED faults
    BY DEF Configure, UserReport
  <1>7. QED
    BY <1>1, <1>2, <1>3, <1>4, <1>5, <1>6 DEF Next

\* The analyst of a report stays its analyst while the report stays as it is.
LEMMA AnalystStays ==
  ASSUME IInv, NEW d \in Reports, Analyzing(d), NEW r \in Replicas, Analyst(r, d),
         obj'[d] = obj[d], faults' = 0, Analyse(r) \/ rec'[r] = rec[r]
  PROVE  Analyst(r, d)'
  <1>1. /\ TypeOK /\ CopiesAgree /\ rec[r] \in Reconciles /\ rec[r].report = d
        /\ obj[d].exists /\ Accepts(d, rec[r].copy) /\ ~ Fault
    BY NoFault DEF IInv, TypeOK, Analyst, Analyzing, Accepts
  <1>2. CASE rec'[r] = rec[r]
    BY <1>2 DEF Analyst
  <1>3. CASE Prepare(r) \/ RunAgent(r)
    <2>1. /\ rec'[r].pc \in {"agent", "postpone", "fail", "complete"}
          /\ rec'[r].report = d /\ rec'[r].copy = rec[r].copy
      <3>1. \E pc \in {"agent", "postpone", "fail", "complete"} : Moves(r, pc)
        BY <1>1, <1>3, GotoMoves, RunMoves DEF Prepare
      <3>2. QED
        BY <1>1, <3>1 DEF Moves
    <2>2. QED
      BY <2>1 DEF Analyst
  <1>4. ASSUME NEW phase \in Phases, Succeeds(r, phase) \/ Errs(r, phase)
        PROVE  FALSE
    <2>1. Succeeds(r, phase)
      BY <1>1, <1>4 DEF Errs
    <2>2. obj'[d] = Updated(r, phase) /\ obj[d] = rec[r].copy
      BY <1>1, <2>1, UpdateWrites
    <2>3. obj[d].rv \in Nat
      BY <1>1 DEF TypeOK, Objects
    <2>4. obj'[d].rv = obj[d].rv + 1
      <3>1. Updated(r, phase).rv = rec[r].copy.rv + 1
        BY <1>1, UpdatedObject
      <3>2. QED
        BY <2>2, <3>1
    <2>5. QED
      BY <2>3, <2>4
  <1>5. ~ (Unfinalize(r) \/ StartAnalysis(r) \/ MaybeCreatePlan(r))
    BY DEF Analyst, Unfinalize, StartAnalysis, MaybeCreatePlan
  <1>6. ~ (Postpone(r) \/ FailReport(r) \/ Complete(r))
    BY <1>4 DEF Postpone, FailReport, Complete, Phases
  <1>7. QED
    BY <1>2, <1>3, <1>5, <1>6 DEF Analyse

\* A report gets to Analyzing by the update of its analyst.
LEMMA AnalyzingAnew ==
  ASSUME IInv, Next, NEW d \in Reports, Analyzing(d)', obj'[d] # obj[d], faults' = 0
  PROVE  \E r \in Replicas : Analyst(r, d)'
  <1>1. /\ TypeOK /\ CopiesAgree /\ obj \in [Reports -> Objects] /\ ~ Fault
        /\ obj'[d].exists /\ ~ obj'[d].deleting /\ obj'[d].phase = "Analyzing"
    BY NoFault DEF IInv, TypeOK, Analyzing
  <1>2. ASSUME NEW r \in Replicas, StartAnalysis(r) PROVE Analyst(r, d)'
    <2>1. "Analyzing" \in Phases /\ rec[r] \in Reconciles
      BY DEF Phases, IInv, TypeOK
    <2>2. Succeeds(r, "Analyzing") /\ Holding(r, "prepare", "Analyzing")
      BY <1>1, <1>2 DEF StartAnalysis, Errs
    <2>3. obj' = [obj EXCEPT ![rec[r].report] = Updated(r, "Analyzing")]
      BY <2>2 DEF Succeeds
    <2>4. rec[r].report = d /\ obj'[d] = Updated(r, "Analyzing")
      BY <1>1, <2>3
    <2>5. rec'[r].pc = "prepare" /\ rec'[r].report = d /\ rec'[r].copy = obj'[d]
      BY <2>1, <2>2, <2>4 DEF Holding, Reconciles, IInv, TypeOK
    <2>6. QED
      BY <2>5 DEF Analyst
  <1>3. ASSUME NEW r \in Replicas, NEW phase \in {"Pending", "Completed", "Failed"},
               Succeeds(r, phase) \/ Errs(r, phase)
        PROVE  FALSE
    <2>1. phase \in Phases
      BY DEF Phases
    <2>2. obj' = [obj EXCEPT ![rec[r].report] = Updated(r, phase)]
      BY <1>1, <1>3, <2>1, UpdateWrites
    <2>3. obj'[d] = Updated(r, phase)
      BY <1>1, <2>2
    <2>4. QED
      BY <1>1, <2>1, <2>3, UpdatedObject
  <1>4. ASSUME NEW r \in Replicas, Unfinalize(r) PROVE FALSE
    <2> DEFINE freed == [rec[r].copy EXCEPT !.held = FALSE, !.exists = FALSE]
    <2>1. obj' = [obj EXCEPT ![rec[r].report] = Bump(freed)]
      BY <1>1, <1>4 DEF Unfinalize
    <2>2. rec[r].copy \in Objects
      BY DEF IInv, TypeOK, Reconciles
    <2>3. freed \in Objects /\ ~ freed.exists
      BY <2>2 DEF Objects
    <2>4. obj'[d] = Bump(freed)
      BY <1>1, <2>1
    <2> HIDE DEF freed
    <2>5. QED
      BY <1>1, <2>3, <2>4, BumpObject
  <1>5. ASSUME NEW e \in Reports, obj' = Deleted(e) PROVE FALSE
    <2>1. PICK new \in Objects : obj' = [obj EXCEPT ![e] = new] /\ (new.exists => new.deleting)
      BY <1>1, <1>5, DeletedObject
    <2>2. QED
      BY <1>1, <2>1
  <1>6. ASSUME NEW s \in Subjects, NEW held \in BOOLEAN, Created(s, held) PROVE FALSE
    <2>1. PICK e \in Reports : obj' = [obj EXCEPT ![e] = NewReport(held)]
      BY <1>1, <1>6, CreatedObject
    <2>2. obj'[d] = NewReport(held)
      BY <1>1, <2>1
    <2>3. NewReport(held).phase = ""
      BY DEF NewReport
    <2>4. QED
      BY <1>1, <2>2, <2>3
  <1>7. ASSUME NEW r \in Replicas, CreateReport(r) PROVE FALSE
    <2>1. noticed[r] \in Subjects
      BY <1>7 DEF CreateReport, IInv, TypeOK
    <2>2. QED
      BY <1>1, <1>6, <1>7, <2>1 DEF CreateReport
  <1>8. ASSUME NEW s \in Subjects, UserReport(s) PROVE FALSE
    BY <1>6, <1>8 DEF UserReport
  <1>9. \A e \in Reports : ~ Delete(e) /\ \A r \in Replicas : ~ Cleanup(r, e)
    BY <1>5 DEF Cleanup, Delete
  <1>10. ASSUME NEW e \in Reports, Touch(e) PROVE FALSE
    BY <1>1, <1>10 DEF Touch
  <1>11. ASSUME NEW r \in Replicas, Analyse(r) PROVE StartAnalysis(r)
    <2>1. ~ (Postpone(r) \/ FailReport(r) \/ Complete(r))
      BY <1>3 DEF Postpone, FailReport, Complete
    <2>2. ~ (Prepare(r) \/ RunAgent(r) \/ MaybeCreatePlan(r))
      BY DEF Prepare, RunAgent, MaybeCreatePlan, cluster
    <2>3. QED
      BY <1>4, <1>11, <2>1, <2>2 DEF Analyse
  <1>12. ASSUME NEW r \in Replicas PROVE ~ Crash(r)
    BY <1>1 DEF Crash
  <1>13. ASSUME NEW r \in Replicas, NEW e \in Reports PROVE ~ (Begin(r, e) \/ Sync(r, e) \/ Age(e))
    BY DEF Begin, Sync, Age, cluster
  <1>14. ASSUME NEW r \in Replicas, NEW s \in Subjects PROVE ~ (Notice(r, s) \/ Cooled(r, s))
    BY DEF Notice, Cooled, cluster
  <1>15. ~ Configure /\ \A e \in Reports : ~ Age(e)
    BY DEF Configure, Age
  <1>16. QED
    BY <1>2, <1>7, <1>8, <1>9, <1>10, <1>11, <1>12, <1>13, <1>14, <1>15 DEF Next

LEMMA NextAnalyst == IInv /\ AnalyzingHasAnalyst /\ [Next]_vars => AnalyzingHasAnalyst'
  <1> SUFFICES ASSUME IInv, AnalyzingHasAnalyst, [Next]_vars, NEW d \in Reports,
                      Analyzing(d)', faults' = 0
               PROVE  \E r \in Replicas : Analyst(r, d)'
    BY DEF AnalyzingHasAnalyst
  <1>1. CASE UNCHANGED vars
    <2>1. Analyzing(d) /\ faults = 0
      BY <1>1 DEF vars, cluster, Analyzing
    <2>2. PICK r \in Replicas : Analyst(r, d)
      BY <2>1 DEF AnalyzingHasAnalyst
    <2>3. Analyst(r, d)'
      BY <1>1, <2>2 DEF vars, cluster, Analyst
    <2>4. QED
      BY <2>3
  <1>2. CASE Next /\ obj'[d] # obj[d]
    BY <1>2, AnalyzingAnew
  <1>3. CASE Next /\ obj'[d] = obj[d]
    <2>1. TypeOK /\ ~ Fault /\ faults \in Nat
      BY NoFault, Bounds DEF IInv, TypeOK
    <2>2. faults = 0
      BY <1>3, <2>1, FaultsSpent
    <2>3. PICK r \in Replicas : Analyst(r, d)
      BY <1>3, <2>2 DEF AnalyzingHasAnalyst, Analyzing
    <2>4. Analyse(r) \/ rec'[r] = rec[r]
      <3>1. ~ \E e \in Reports : Begin(r, e)
        BY <2>3 DEF Analyst, Begin
      <3>2. rec \in [Replicas -> Reconciles]
        BY <2>1 DEF TypeOK
      <3>3. ASSUME NEW q \in Replicas, q # r, Analyse(q) PROVE rec'[r] = rec[r]
        BY <3>2, <3>3 DEF Analyse, Unfinalize, StartAnalysis, Prepare, Postpone, RunAgent,
          FailReport, Complete, MaybeCreatePlan, Return, Goto, Holding
      <3>4. ASSUME NEW q \in Replicas, q # r, NEW e \in Reports, Begin(q, e)
            PROVE  rec'[r] = rec[r]
        BY <3>2, <3>4 DEF Begin
      <3>5. QED
        BY <1>3, <2>1, <3>1, <3>3, <3>4 DEF Next, CreateReport, Crash, Sync, Cleanup, Notice,
          Cooled, Age, Touch, Delete, UserReport, Configure
    <2>5. Analyzing(d)
      BY <1>3 DEF Analyzing
    <2>6. Analyst(r, d)'
      BY <1>3, <2>3, <2>4, <2>5, AnalystStays
    <2>7. QED
      BY <2>6
  <1>4. QED
    BY <1>1, <1>2, <1>3

\* Races among replicas, collectors, users' reports and the cleanup never leave a
\* report in Analyzing with nobody analysing it: only a fault does.
THEOREM AnalyzingHasAnalystAlways == Spec => []AnalyzingHasAnalyst
  <1>1. Init => AnalyzingHasAnalyst
    <2>1. NoObject.phase = ""
      BY DEF NoObject
    <2>2. QED
      BY <2>1 DEF Init, AnalyzingHasAnalyst, Analyzing
  <1>2. QED
    BY <1>1, Inductive, NextAnalyst, PTL DEF Spec

-----------------------------------------------------------------------------
(***************************************************************************)
(* DiagnosticReport implements ReportLifecycle: every step of a collector, *)
(* a replica, the cleanup or a client is one step of the lifecycle, or     *)
(* none.                                                                   *)
(***************************************************************************)

Life == [d \in Reports |-> LifeOf(obj[d])]
Implements == [Lifecycle!Next]_Lifecycle!vars

LEMMA InitRefines == Init => Lifecycle!Init
  <1> SUFFICES ASSUME Init PROVE Lifecycle!Init
    OBVIOUS
  <1>1. \A d \in Reports : LifeOf(obj[d]) = "unborn"
    BY DEF Init, NoObject, LifeOf
  <1>2. QED
    BY <1>1 DEF Init, Lifecycle!Init

\* A step that leaves reports, agent runs and plans alone.
LEMMA QuietRefines ==
  ASSUME UNCHANGED <<obj, analyses, plans>>
  PROVE  Implements
  BY DEF Implements, Lifecycle!vars

\* A report somebody has touched is not an unused name.
LEMMA UsedName ==
  ASSUME IInv, NEW d \in Reports, obj[d].exists \/ obj[d].phase # ""
  PROVE  obj[d].rv # 0
  <1>1. NoObject.phase = "" /\ ~ NoObject.exists
    BY DEF NoObject
  <1>2. obj[d].rv = 0 => obj[d] = NoObject
    BY DEF IInv, CopiesAgree
  <1>3. QED
    BY <1>1, <1>2

\* A report that exists is waiting, analysing or answered, by its phase.
LEMMA LifeOfExisting ==
  ASSUME IInv, NEW d \in Reports, obj[d].exists
  PROVE  /\ obj[d].rv # 0
         /\ Life[d] \in {"waiting", "analysing", "answered"}
         /\ obj[d].phase \in Waiting => Life[d] = "waiting"
         /\ obj[d].phase = "Analyzing" => Life[d] = "analysing"
  <1>1. obj[d].rv # 0
    BY UsedName
  <1>2. QED
    BY <1>1 DEF Life, LifeOf, Waiting

\* The moves a write of one report may make.
LEMMA WriteRefines ==
  ASSUME IInv, NEW d \in Reports, NEW new \in Objects, obj' = [obj EXCEPT ![d] = new],
         UNCHANGED <<analyses, plans>>, new.rv # 0,
         \/ LifeOf(new) = Life[d]
         \/ obj[d].exists /\ ~ new.exists
         \/ obj[d].rv = 0 /\ LifeOf(new) = "waiting"
         \/ obj[d].exists /\ obj[d].phase \in Waiting /\ LifeOf(new) = "analysing"
         \/ obj[d].exists /\ obj[d].phase = "Analyzing" /\ LifeOf(new) = "answered"
         \/ /\ obj[d].exists /\ obj[d].phase = "Analyzing" /\ LifeOf(new) = "waiting"
            /\ analyses[d] = 0
  PROVE  Implements
  <1>1. Life' = [Life EXCEPT ![d] = LifeOf(new)] /\ obj \in [Reports -> Objects]
    BY DEF Life, IInv, TypeOK
  <1>2. CASE LifeOf(new) = Life[d]
    <2>1. Life' = Life
      BY <1>1, <1>2 DEF Life
    <2>2. QED
      BY <2>1 DEF Implements, Lifecycle!vars, Life
  <1>3. CASE obj[d].exists /\ ~ new.exists
    <2>1. Life[d] \in {"waiting", "analysing", "answered"} /\ LifeOf(new) = "gone"
      BY <1>3, LifeOfExisting DEF LifeOf
    <2>2. Lifecycle!Vanish(d)
      BY <1>1, <2>1 DEF Lifecycle!Vanish, Lifecycle!Become, Life
    <2>3. QED
      BY <2>2 DEF Implements, Lifecycle!Next
  <1>4. CASE obj[d].rv = 0 /\ LifeOf(new) = "waiting"
    <2>1. Life[d] = "unborn"
      BY <1>4 DEF Life, LifeOf
    <2>2. Lifecycle!Ask(d)
      BY <1>1, <1>4, <2>1 DEF Lifecycle!Ask, Lifecycle!Become, Life
    <2>3. QED
      BY <2>2 DEF Implements, Lifecycle!Next
  <1>5. CASE obj[d].exists /\ obj[d].phase \in Waiting /\ LifeOf(new) = "analysing"
    <2>1. Lifecycle!Take(d)
      BY <1>1, <1>5, LifeOfExisting DEF Lifecycle!Take, Lifecycle!Become, Life
    <2>2. QED
      BY <2>1 DEF Implements, Lifecycle!Next
  <1>6. CASE obj[d].exists /\ obj[d].phase = "Analyzing" /\ LifeOf(new) = "answered"
    <2>1. Lifecycle!Answer(d)
      BY <1>1, <1>6, LifeOfExisting DEF Lifecycle!Answer, Lifecycle!Become, Life
    <2>2. QED
      BY <2>1 DEF Implements, Lifecycle!Next
  <1>7. CASE /\ obj[d].exists /\ obj[d].phase = "Analyzing" /\ LifeOf(new) = "waiting"
             /\ analyses[d] = 0
    <2>1. Lifecycle!PutBack(d)
      BY <1>1, <1>7, LifeOfExisting DEF Lifecycle!PutBack, Lifecycle!Become, Life
    <2>2. QED
      BY <2>1 DEF Implements, Lifecycle!Next
  <1>8. QED
    BY <1>2, <1>3, <1>4, <1>5, <1>6, <1>7

-----------------------------------------------------------------------------
(* The steps of a reconcile.                                                *)

\* A status update, whatever becomes of it: the analyst moves the report on.
LEMMA UpdateRefines ==
  ASSUME IInv, NEW r \in Replicas, NEW phase \in Phases,
         Succeeds(r, phase) \/ Errs(r, phase), UNCHANGED <<analyses, plans>>,
         \/ rec[r].pc = "take" /\ phase = "Analyzing"
         \/ rec[r].pc = "postpone" /\ phase = "Pending"
         \/ Working(r) /\ phase \in {"Completed", "Failed"}
  PROVE  Implements
  <1> DEFINE d == rec[r].report
             new == Updated(r, phase)
  <1>1. TypeOK /\ CopiesAgree /\ d \in Reports /\ StageFits(r)
    BY DEF IInv, TypeOK, Reconciles, StagesFit
  <1>2. CASE obj' = obj
    BY <1>2, QuietRefines
  <1>3. CASE obj' # obj
    <2>1. /\ obj' = [obj EXCEPT ![d] = new]
          /\ obj[d] = rec[r].copy /\ obj[d].exists
      BY <1>1, <1>3, UpdateWrites
    <2>2. /\ new \in Objects /\ new.rv = obj[d].rv + 1 /\ new.exists /\ new.phase = phase
      BY <1>1, <2>1, UpdatedObject
    <2>3. new.rv # 0
      BY <1>1, <2>2 DEF TypeOK, Objects
    <2>4. CASE rec[r].pc = "take" /\ phase = "Analyzing"
      <3>1. obj[d].phase \in Waiting /\ LifeOf(new) = "analysing"
        BY <1>1, <2>1, <2>2, <2>3, <2>4 DEF StageFits, LifeOf, Waiting
      <3>2. QED
        BY <1>1, <2>1, <2>2, <2>3, <3>1, WriteRefines
    <2>5. CASE rec[r].pc = "postpone" /\ phase = "Pending"
      <3>1. obj[d].phase = "Analyzing" /\ analyses[d] = 0 /\ LifeOf(new) = "waiting"
        BY <1>1, <2>2, <2>3, <2>5 DEF StageFits, Working, LifeOf, Waiting
      <3>2. QED
        BY <1>1, <2>1, <2>2, <2>3, <3>1, WriteRefines
    <2>6. CASE Working(r) /\ phase \in {"Completed", "Failed"}
      <3>1. obj[d].phase = "Analyzing" /\ LifeOf(new) = "answered"
        BY <1>1, <2>2, <2>3, <2>6 DEF StageFits, LifeOf, Waiting
      <3>2. QED
        BY <1>1, <2>1, <2>2, <2>3, <3>1, WriteRefines
    <2>7. QED
      BY <2>4, <2>5, <2>6
  <1>4. QED
    BY <1>2, <1>3

LEMMA UnfinalizeRefines ==
  ASSUME IInv, NEW r \in Replicas, Unfinalize(r)
  PROVE  Implements
  <1> DEFINE d == rec[r].report
             freed == [rec[r].copy EXCEPT !.held = FALSE, !.exists = FALSE]
  <1>1. TypeOK /\ CopiesAgree /\ d \in Reports /\ rec[r].copy \in Objects
    BY DEF IInv, TypeOK, Reconciles
  <1>2. UNCHANGED <<analyses, plans>>
    BY DEF Unfinalize, history
  <1>3. CASE obj' = obj
    BY <1>2, <1>3, QuietRefines
  <1>4. CASE Accepts(d, rec[r].copy) /\ obj' = [obj EXCEPT ![d] = Bump(freed)]
    <2>1. obj[d].exists
      BY <1>4 DEF Accepts
    <2>2. freed \in Objects /\ ~ freed.exists /\ freed.rv \in Nat
      BY <1>1 DEF Objects
    <2>3. Bump(freed) \in Objects /\ ~ Bump(freed).exists /\ Bump(freed).rv # 0
      <3> HIDE DEF freed
      <3>1. QED
        BY <2>2, BumpObject
    <2>4. QED
      <3> HIDE DEF freed
      <3>1. QED
        BY <1>1, <1>2, <1>4, <2>1, <2>3, WriteRefines
  <1>5. QED
    BY <1>3, <1>4 DEF Unfinalize

\* The agent run is the one the lifecycle allows.
LEMMA RunRefines ==
  ASSUME IInv, NEW r \in Replicas, RunAgent(r)
  PROVE  Implements
  <1> DEFINE d == rec[r].report
  <1>1. d \in Reports /\ UNCHANGED <<obj, plans>> /\ analyses \in [Reports -> Nat]
    BY DEF IInv, TypeOK, Reconciles, RunAgent, cluster
  <1>2. obj[d].phase = "Analyzing" /\ analyses[d] = 0
    BY DEF IInv, StagesFit, StageFits, Working, RunAgent
  <1>3. analyses' = [analyses EXCEPT ![d] = 1]
    <2>1. analyses' = [analyses EXCEPT ![d] = @ + 1]
      BY DEF RunAgent
    <2>2. QED
      BY <1>1, <1>2, <2>1
  <1>4. Life[d] \in {"analysing", "gone"}
    <2>1. obj[d].rv # 0
      BY <1>1, <1>2, UsedName
    <2>2. QED
      BY <1>1, <1>2, <2>1 DEF Life, LifeOf, Waiting
  <1>5. Lifecycle!Run(d)
    BY <1>1, <1>2, <1>3, <1>4 DEF Lifecycle!Run, Life
  <1>6. QED
    BY <1>1, <1>5 DEF Implements, Lifecycle!Next

\* The plan is the one heir of an answered report.
LEMMA PlanRefines ==
  ASSUME IInv, NEW r \in Replicas, MaybeCreatePlan(r)
  PROVE  Implements
  <1> DEFINE d == rec[r].report
  <1>1. d \in Reports /\ UNCHANGED <<obj, analyses>> /\ plans \in [Reports -> Nat]
    BY DEF IInv, TypeOK, Reconciles, MaybeCreatePlan, cluster
  <1>2. obj[d].phase = "Completed" /\ analyses[d] = 1 /\ plans[d] = 0
    BY DEF IInv, StagesFit, StageFits, MaybeCreatePlan
  <1>3. CASE UNCHANGED plans
    BY <1>1, <1>3, QuietRefines
  <1>4. CASE plans' = [plans EXCEPT ![d] = @ + 1]
    <2>1. plans' = [plans EXCEPT ![d] = 1]
      BY <1>1, <1>2, <1>4
    <2>2. Life[d] \in {"answered", "gone"}
      <3>1. obj[d].rv # 0
        BY <1>1, <1>2, UsedName
      <3>2. QED
        BY <1>1, <1>2, <3>1 DEF Life, LifeOf, Waiting
    <2>3. Lifecycle!Bequeath(d)
      BY <1>1, <1>2, <2>1, <2>2 DEF Lifecycle!Bequeath, Life
    <2>4. QED
      BY <1>1, <2>3 DEF Implements, Lifecycle!Next
  <1>5. QED
    BY <1>3, <1>4 DEF MaybeCreatePlan

LEMMA AnalyseRefines ==
  ASSUME IInv, NEW r \in Replicas, Analyse(r)
  PROVE  Implements
  <1> USE DEF cluster, history
  <1>1. {"Analyzing", "Pending", "Failed", "Completed"} \subseteq Phases
    BY DEF Phases
  <1>2. CASE StartAnalysis(r)
    BY <1>1, <1>2, UpdateRefines DEF StartAnalysis
  <1>3. CASE Postpone(r)
    BY <1>1, <1>3, UpdateRefines DEF Postpone
  <1>4. CASE FailReport(r)
    BY <1>1, <1>4, UpdateRefines DEF FailReport, Working
  <1>5. CASE Complete(r)
    BY <1>1, <1>5, UpdateRefines DEF Complete, Working
  <1>6. CASE Prepare(r)
    BY <1>6, QuietRefines DEF Prepare
  <1>7. QED
    BY <1>2, <1>3, <1>4, <1>5, <1>6, UnfinalizeRefines, RunRefines, PlanRefines DEF Analyse

-----------------------------------------------------------------------------
(* Everybody else.                                                          *)

LEMMA DeletedRefines ==
  ASSUME IInv, NEW d \in Reports, obj' = Deleted(d), UNCHANGED <<analyses, plans>>
  PROVE  Implements
  <1>1. CASE obj' = obj
    BY <1>1, QuietRefines
  <1>2. ASSUME NEW new \in Objects, obj' = [obj EXCEPT ![d] = new],
               new.rv = obj[d].rv + 1, new.phase = obj[d].phase, obj[d].exists
        PROVE  Implements
    <2>1. new.rv # 0 /\ obj[d].rv # 0
      <3>1. obj[d].rv \in Nat
        BY DEF IInv, TypeOK, Objects
      <3>2. QED
        BY <1>2, <3>1, LifeOfExisting
    <2>2. CASE new.exists
      <3>1. LifeOf(new) = Life[d]
        BY <1>2, <2>1, <2>2 DEF Life, LifeOf
      <3>2. QED
        BY <1>2, <2>1, <3>1, WriteRefines
    <2>3. CASE ~ new.exists
      BY <1>2, <2>1, <2>3, WriteRefines
    <2>4. QED
      BY <2>2, <2>3
  <1>3. TypeOK
    BY DEF IInv
  <1>4. QED
    BY <1>1, <1>2, <1>3, DeletedObject

LEMMA CreatedRefines ==
  ASSUME IInv, NEW s \in Subjects, NEW held \in BOOLEAN, Created(s, held),
         UNCHANGED <<analyses, plans>>
  PROVE  Implements
  <1>1. PICK d \in Reports : obj[d].rv = 0 /\ obj' = [obj EXCEPT ![d] = NewReport(held)]
    BY CreatedObject DEF IInv
  <1>2. NewReport(held) \in Objects /\ NewReport(held).rv # 0
    <2>1. NewReport(held).rv = 1
      BY DEF NewReport
    <2>2. 1 # 0
      OBVIOUS
    <2>3. QED
      BY <2>1, <2>2, ObjectValues, Zenon
  <1>3. LifeOf(NewReport(held)) = "waiting"
    BY DEF NewReport, LifeOf, Waiting
  <1>4. QED
    BY <1>1, <1>2, <1>3, WriteRefines

LEMMA TouchRefines ==
  ASSUME IInv, NEW d \in Reports, Touch(d)
  PROVE  Implements
  <1>1. obj[d] \in Objects /\ obj[d].rv # 0 /\ obj[d].exists
    BY LifeOfExisting DEF IInv, TypeOK, Touch
  <1>2. /\ Bump(obj[d]) \in Objects /\ Bump(obj[d]).rv # 0
        /\ LifeOf(Bump(obj[d])) = Life[d]
    <2>1. obj[d].rv \in Nat /\ Bump(obj[d]).rv = obj[d].rv + 1
      BY <1>1, BumpObject DEF Objects
    <2>2. Bump(obj[d]).rv # 0
      BY <2>1
    <2>3. QED
      BY <1>1, <2>2, BumpObject DEF Life, LifeOf
  <1>3. QED
    BY <1>2, WriteRefines DEF Touch, history

LEMMA NextRefines == IInv /\ [Next]_vars => Implements
  <1> SUFFICES ASSUME IInv, [Next]_vars PROVE Implements
    OBVIOUS
  <1> USE DEF cluster, history
  <1>1. ASSUME NEW r \in Replicas, NEW d \in Reports, Begin(r, d) \/ Sync(r, d) \/ Cleanup(r, d)
        PROVE  Implements
    BY <1>1, QuietRefines, DeletedRefines DEF Begin, Sync, Cleanup
  <1>2. ASSUME NEW r \in Replicas, CreateReport(r) PROVE Implements
    <2>1. noticed[r] \in Subjects
      BY <1>2 DEF CreateReport, IInv, TypeOK
    <2>2. QED
      BY <1>2, <2>1, CreatedRefines, QuietRefines DEF CreateReport
  <1>3. ASSUME NEW s \in Subjects, UserReport(s) PROVE Implements
    BY <1>3, CreatedRefines DEF UserReport
  <1>4. ASSUME NEW r \in Replicas, NEW s \in Subjects,
               Crash(r) \/ Notice(r, s) \/ Cooled(r, s)
        PROVE  Implements
    BY <1>4, QuietRefines DEF Crash, Notice, Cooled
  <1>5. ASSUME NEW d \in Reports, Age(d) \/ Delete(d) PROVE Implements
    BY <1>5, QuietRefines, DeletedRefines DEF Age, Delete
  <1>6. CASE Configure \/ UNCHANGED vars \/ \E r \in Replicas : Crash(r)
    BY <1>6, QuietRefines DEF Configure, vars, Crash
  <1>7. QED
    BY <1>1, <1>2, <1>3, <1>4, <1>5, <1>6, AnalyseRefines, TouchRefines DEF Next

\* Collectors, replicas with stale caches, cleanup, crashes and outside writes
\* together implement the lifecycle: a report is analysed by one run, answered
\* for good, and has one plan at most.
THEOREM Refinement == Spec => ImplementsLifecycle
  <1>1. IInv /\ [Next]_vars => [Lifecycle!Next]_Lifecycle!vars
    BY NextRefines DEF Implements
  <1>2. QED
    BY <1>1, InitRefines, Inductive, PTL DEF Spec, ImplementsLifecycle, Lifecycle!Spec
=============================================================================
