--------------------------- MODULE SchedulerProofs ---------------------------
(***************************************************************************)
(* Proofs about Scheduler: its type invariant, and that it neither loses a *)
(* registered job nor leaves one running that is not registered, for any   *)
(* number of keys and calls of Set.                                        *)
(***************************************************************************)
EXTENDS Scheduler, TLAPS

\* The type invariant of the scheduler: its table holds allocated jobs.
THEOREM TypeCorrect == Spec => []TypeOK
<1>1. Init => TypeOK
  BY DEF Init, TypeOK
<1>2. TypeOK /\ [Next]_vars => TypeOK'
  <2> SUFFICES ASSUME TypeOK, [Next]_vars PROVE TypeOK'
    OBVIOUS
  <2> USE DEF TypeOK
  <2>1. ASSUME NEW k \in Keys, NEW j \in Jobs, Set(k, j) PROVE TypeOK'
    BY <2>1 DEF Set, Cancel
  <2>2. ASSUME NEW k \in Keys, Remove(k) PROVE TypeOK'
    BY <2>2 DEF Remove, Cancel
  <2>3. CASE Run
    BY <2>3 DEF Run
  <2>4. CASE Stop \/ Drain \/ Return
    BY <2>4 DEF Stop, Drain, Return
  <2>5. ASSUME NEW j \in Jobs, Loop(j) PROVE TypeOK'
    BY <2>5 DEF Loop, TimerFires, Exit, RunEnds
  <2>6. CASE UNCHANGED vars
    BY <2>6 DEF vars
  <2> QED
    BY <2>1, <2>2, <2>3, <2>4, <2>5, <2>6 DEF Next
<1> QED
  BY <1>1, <1>2, PTL DEF Spec

------------------------------------------------------------------------------
\* The job under a key was allocated for that key: no job is under two keys.
KeyInv ==
  \A k \in Keys : jobs[k] # NoJob => keyOf[jobs[k]] = {k} /\ loop[jobs[k]] # "new"

\* Nothing is started or cancelled before Run; while the scheduler runs the
\* registered jobs have been started; it ends only with the application.
PhaseInv ==
  /\ phase = "off" => \A j \in Jobs : loop[j] \in {"new", "idle"}
  /\ phase = "running" => \A k \in Keys : jobs[k] # NoJob => loop[jobs[k]] # "idle"
  /\ phase \in {"draining", "returned"} => stopped

\* A registered job is never a cancelled one, and a loop ends only when its
\* context does.
CancelInv ==
  /\ \A k \in Keys : jobs[k] \notin cancelled
  /\ \A j \in Jobs : loop[j] = "new" => j \notin cancelled
  /\ \A j \in Jobs : loop[j] = "gone" => Done(j)

Inv == TypeOK /\ KeyInv /\ PhaseInv /\ CancelInv /\ NoOrphan /\ ReturnClean

LEMMA InvInit == Init => Inv
  BY NoJobAssumption
  DEF Init, Inv, TypeOK, KeyInv, PhaseInv, CancelInv, NoOrphan, ReturnClean, Started, Done

\* Set and Remove, the two operations that change the table.
LEMMA InvSet ==
  ASSUME Inv, TypeOK', NEW k \in Keys, NEW j \in Jobs, Set(k, j)
  PROVE  Inv'
<1> USE NoJobAssumption DEF Set, Cancel, Inv, TypeOK
<1>1. KeyInv'
  BY DEF KeyInv
<1>2. PhaseInv'
  BY DEF PhaseInv, KeyInv
<1>3. CancelInv'
  BY DEF CancelInv, KeyInv, Done
<1>4. NoOrphan'
  BY DEF NoOrphan, KeyInv, PhaseInv, Started, Done
<1>5. ReturnClean'
  BY DEF ReturnClean, Started
<1> QED
  BY <1>1, <1>2, <1>3, <1>4, <1>5

LEMMA InvRemove ==
  ASSUME Inv, TypeOK', NEW k \in Keys, Remove(k)
  PROVE  Inv'
<1> USE NoJobAssumption DEF Remove, Cancel, Inv, TypeOK
<1>1. KeyInv'
  BY DEF KeyInv
<1>2. PhaseInv'
  BY DEF PhaseInv
<1>3. CancelInv'
  BY DEF CancelInv, KeyInv, Done
<1>4. NoOrphan'
  BY DEF NoOrphan, KeyInv, PhaseInv, Started, Done
<1>5. ReturnClean'
  BY DEF ReturnClean, Started
<1> QED
  BY <1>1, <1>2, <1>3, <1>4, <1>5

LEMMA InvRun ==
  ASSUME Inv, TypeOK', Run
  PROVE  Inv'
<1> USE NoJobAssumption DEF Run, Inv, TypeOK
<1>1. KeyInv'
  BY DEF KeyInv
<1>2. PhaseInv'
  BY DEF PhaseInv
<1>3. CancelInv'
  BY DEF CancelInv, PhaseInv, Done
<1>4. NoOrphan'
  BY DEF NoOrphan, PhaseInv, Started, Done
<1>5. ReturnClean'
  BY DEF ReturnClean
<1> QED
  BY <1>1, <1>2, <1>3, <1>4, <1>5

\* The steps of the shutdown and of a loop leave the table alone.
LEMMA InvShutdown ==
  ASSUME Inv, TypeOK', Stop \/ Drain \/ Return
  PROVE  Inv'
  BY DEF Stop, Drain, Return, Inv, TypeOK, KeyInv, PhaseInv, CancelInv, NoOrphan,
         ReturnClean, Started, Done

LEMMA InvLoop ==
  ASSUME Inv, TypeOK', NEW j \in Jobs, Loop(j)
  PROVE  Inv'
<1> USE NoJobAssumption DEF Loop, TimerFires, Exit, RunEnds, Inv, TypeOK
<1>1. KeyInv' /\ PhaseInv'
  BY DEF KeyInv, PhaseInv
<1>2. CancelInv'
  BY DEF CancelInv, Done
<1>3. NoOrphan' /\ ReturnClean'
  BY DEF NoOrphan, ReturnClean, Started, Done
<1> QED
  BY <1>1, <1>2, <1>3

LEMMA Invariance == Spec => []Inv
<1>1. TypeOK /\ Inv /\ [Next]_vars /\ TypeOK' => Inv'
  <2> SUFFICES ASSUME Inv, [Next]_vars, TypeOK' PROVE Inv'
    OBVIOUS
  <2>1. CASE UNCHANGED vars
    BY <2>1 DEF vars, Inv, TypeOK, KeyInv, PhaseInv, CancelInv, NoOrphan, ReturnClean,
                Started, Done
  <2> QED
    BY <2>1, InvSet, InvRemove, InvRun, InvShutdown, InvLoop DEF Next
<1> QED
  BY <1>1, InvInit, TypeCorrect, PTL DEF Spec

\* No replaced or removed job goes on as an orphan (scheduler.go, Set and
\* Remove cancel the job they take out of the table).
THEOREM NoOrphanAlways == Spec => []NoOrphan
  BY Invariance, PTL DEF Inv

\* While the scheduler runs no registered job is lost (scheduler.go, start and
\* the recovered panic of runSafe).
THEOREM RegisteredRunsAlways == Spec => []RegisteredRuns
<1>1. Inv => RegisteredRuns
  BY NoJobAssumption
  DEF Inv, TypeOK, KeyInv, PhaseInv, CancelInv, RegisteredRuns, Started, Done
<1> QED
  BY <1>1, Invariance, PTL

\* Runs under one key overlap only with a cancelled one (scheduler.go, Set
\* cancels the job it replaces before it starts the next).
THEOREM OverlapCancelledAlways == Spec => []OverlapCancelled
<1>1. Inv => OverlapCancelled
  <2> SUFFICES ASSUME Inv, NEW i \in Jobs, NEW j \in Jobs,
                      loop[i] = "run", loop[j] = "run", keyOf[i] = keyOf[j],
                      ~Done(i), ~Done(j)
               PROVE  i = j
    BY DEF OverlapCancelled
  <2>1. PICK k \in Keys : jobs[k] = i
    BY DEF Inv, NoOrphan, Started
  <2>2. PICK l \in Keys : jobs[l] = j
    BY DEF Inv, NoOrphan, Started
  <2>3. keyOf[i] = {k} /\ keyOf[j] = {l}
    BY <2>1, <2>2, NoJobAssumption DEF Inv, KeyInv
  <2> QED
    BY <2>1, <2>2, <2>3
<1> QED
  BY <1>1, Invariance, PTL

\* When Run has returned nothing runs (scheduler.go, Run waits for the loops
\* and Set starts none once the scheduler drains).
THEOREM ReturnCleanAlways == Spec => []ReturnClean
  BY Invariance, PTL DEF Inv
=============================================================================
