------------------------------ MODULE Scheduler ------------------------------
(***************************************************************************)
(* The scheduler of prefetch and replication jobs: a table of jobs by key, *)
(* one goroutine per started job that waits for its timer and runs, and    *)
(* the shutdown that cancels them all and waits.                           *)
(*                                                                         *)
(* A job is the struct one call of Set allocates; it is started at most    *)
(* once, by Set while the scheduler runs or by Run.  Run is called once,   *)
(* at boot.  Set with no interval is Remove.                               *)
(*                                                                         *)
(* An operator whose comment starts with "Faulty:" is not part of the      *)
(* model: it is what the definition after it would be with a plausible     *)
(* mistake, and a property must fail when it takes that place.             *)
(***************************************************************************)
CONSTANTS Keys,
          Jobs,     \* the jobs Set may allocate: a bound on its calls
          NoJob     \* no job under a key

ASSUME NoJobAssumption == NoJob \notin Jobs

VARIABLES jobs,       \* Scheduler.jobs
          phase,      \* Run: not called, running, waiting for the loops, over
          stopped,    \* the application's context is cancelled
          loop,       \* the goroutine of each job
          cancelled,  \* the jobs whose own context was cancelled
          keyOf       \* history: the key each job was set under

vars == <<jobs, phase, stopped, loop, cancelled, keyOf>>

TypeOK ==
  /\ jobs \in [Keys -> Jobs \cup {NoJob}]
  /\ phase \in {"off", "running", "draining", "returned"}
  /\ stopped \in BOOLEAN
  /\ loop \in [Jobs -> {"new", "idle", "wait", "run", "gone"}]
  /\ cancelled \in SUBSET Jobs
  /\ keyOf \in [Jobs -> SUBSET Keys]

Init ==
  /\ jobs = [k \in Keys |-> NoJob]
  /\ phase = "off"
  /\ stopped = FALSE
  /\ loop = [j \in Jobs |-> "new"]
  /\ cancelled = {}
  /\ keyOf = [j \in Jobs |-> {}]

Started(j) == loop[j] \in {"wait", "run"}

\* A job's context ends with its own cancellation or with the application's.
Done(j) == j \in cancelled \/ stopped

\* The cancel function of the job under k is called, if the job has one:
\* jobs have none before Run and lose it when the scheduler drains.
Cancel(k) ==
  cancelled' = cancelled \cup (IF phase = "running" THEN {jobs[k]} \ {NoJob} ELSE {})

------------------------------------------------------------------------------
\* Faulty: the job that is replaced goes on.
SetKeepsOld(k, j) ==
  /\ loop[j] = "new"
  /\ jobs' = [jobs EXCEPT ![k] = j]
  /\ loop' = [loop EXCEPT ![j] = IF phase = "running" THEN "wait" ELSE "idle"]
  /\ keyOf' = [keyOf EXCEPT ![j] = {k}]
  /\ UNCHANGED <<phase, stopped, cancelled>>

\* Set: the job under k is cancelled and replaced; the new one is started
\* when the scheduler runs.
Set(k, j) ==
  /\ loop[j] = "new"
  /\ Cancel(k)
  /\ jobs' = [jobs EXCEPT ![k] = j]
  /\ loop' = [loop EXCEPT ![j] = IF phase = "running" THEN "wait" ELSE "idle"]
  /\ keyOf' = [keyOf EXCEPT ![j] = {k}]
  /\ UNCHANGED <<phase, stopped>>

\* Faulty: the job is taken out of the table and goes on.
RemoveUncancelled(k) ==
  /\ jobs[k] # NoJob
  /\ jobs' = [jobs EXCEPT ![k] = NoJob]
  /\ UNCHANGED <<phase, stopped, loop, cancelled, keyOf>>

Remove(k) ==
  /\ jobs[k] # NoJob
  /\ Cancel(k)
  /\ jobs' = [jobs EXCEPT ![k] = NoJob]
  /\ UNCHANGED <<phase, stopped, loop, keyOf>>

\* Faulty: the jobs set before Run are not started.
RunStartsNone ==
  /\ phase = "off"
  /\ phase' = "running"
  /\ UNCHANGED <<jobs, stopped, loop, cancelled, keyOf>>

\* Run starts the jobs set before it.
Run ==
  /\ phase = "off"
  /\ phase' = "running"
  /\ loop' = [j \in Jobs |-> IF \E k \in Keys : jobs[k] = j THEN "wait" ELSE loop[j]]
  /\ UNCHANGED <<jobs, stopped, cancelled, keyOf>>

\* The application stops.
Stop ==
  /\ ~stopped
  /\ stopped' = TRUE
  /\ UNCHANGED <<jobs, phase, loop, cancelled, keyOf>>

\* Faulty: Run returns without waiting.
DrainReturns ==
  /\ phase = "running" /\ stopped
  /\ phase' = "returned"
  /\ UNCHANGED <<jobs, stopped, loop, cancelled, keyOf>>

\* Run notices, and no job is started any more; every job is cancelled (its
\* context has ended already).
Drain ==
  /\ phase = "running" /\ stopped
  /\ phase' = "draining"
  /\ UNCHANGED <<jobs, stopped, loop, cancelled, keyOf>>

\* Run returns when every loop has.
Return ==
  /\ phase = "draining"
  /\ \A j \in Jobs : ~Started(j)
  /\ phase' = "returned"
  /\ UNCHANGED <<jobs, stopped, loop, cancelled, keyOf>>

------------------------------------------------------------------------------
\* A loop waits for its timer or its context; when both are ready either is
\* taken.
TimerFires(j) ==
  /\ loop[j] = "wait"
  /\ loop' = [loop EXCEPT ![j] = "run"]
  /\ UNCHANGED <<jobs, phase, stopped, cancelled, keyOf>>

\* Faulty: the loop's context is not derived from the application's.
ExitOwn(j) ==
  /\ loop[j] = "wait" /\ j \in cancelled
  /\ loop' = [loop EXCEPT ![j] = "gone"]
  /\ UNCHANGED <<jobs, phase, stopped, cancelled, keyOf>>

Exit(j) ==
  /\ loop[j] = "wait" /\ Done(j)
  /\ loop' = [loop EXCEPT ![j] = "gone"]
  /\ UNCHANGED <<jobs, phase, stopped, cancelled, keyOf>>

\* Faulty: a job that panics ends its loop.
RunEndsGone(j) ==
  /\ loop[j] = "run"
  /\ loop' = [loop EXCEPT ![j] = "gone"]
  /\ UNCHANGED <<jobs, phase, stopped, cancelled, keyOf>>

\* The job returns or panics, which is recovered.
RunEnds(j) ==
  /\ loop[j] = "run"
  /\ loop' = [loop EXCEPT ![j] = "wait"]
  /\ UNCHANGED <<jobs, phase, stopped, cancelled, keyOf>>

Loop(j) == TimerFires(j) \/ RunEnds(j) \/ Exit(j)

Next ==
  \/ \E k \in Keys : Remove(k) \/ \E j \in Jobs : Set(k, j)
  \/ Run \/ Stop \/ Drain \/ Return
  \/ \E j \in Jobs : Loop(j)

Spec == Init /\ [][Next]_vars

FairSpec ==
  /\ Spec
  /\ WF_vars(Drain) /\ WF_vars(Return)
  /\ \A j \in Jobs : WF_vars(TimerFires(j)) /\ WF_vars(RunEnds(j)) /\ SF_vars(Exit(j))

------------------------------------------------------------------------------
\* A loop whose context lives belongs to the job registered under its key:
\* a replaced or removed job never goes on as an orphan.
NoOrphan ==
  \A j \in Jobs : Started(j) /\ ~Done(j) => \E k \in Keys : jobs[k] = j

\* While the scheduler runs, every registered job has a loop whose context
\* lives: no sequence of Set, Remove and panics loses one.
RegisteredRuns ==
  phase = "running" /\ ~stopped =>
    \A k \in Keys : jobs[k] # NoJob => Started(jobs[k]) /\ ~Done(jobs[k])

\* When Run has returned no job is running nor will run.
ReturnClean == phase = "returned" => \A j \in Jobs : ~Started(j)

\* Runs under one key overlap only while all but one of them are cancelled:
\* Set does not wait for the run it replaces, so a slow one meets its
\* successor, but never with a context that lives.
OverlapCancelled ==
  \A i, j \in Jobs :
    loop[i] = "run" /\ loop[j] = "run" /\ keyOf[i] = keyOf[j] /\ i # j => Done(i) \/ Done(j)

\* A registered job runs, again and again, until it is replaced or removed or
\* the application stops.
JobsRun ==
  \A j \in Jobs :
    (phase = "running" /\ \E k \in Keys : jobs[k] = j) ~> (loop[j] = "run" \/ Done(j))

\* A stopped scheduler returns.
StopReturns == (stopped /\ phase = "running") ~> phase = "returned"
=============================================================================
