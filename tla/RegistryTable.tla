---------------------------- MODULE RegistryTable ----------------------------
(***************************************************************************)
(* The routing table of the registry and the schedule of its jobs.  Every  *)
(* change of a namespace or repository is written to the database and then *)
(* followed, in the same request, by a reload: the tree is read in two     *)
(* queries, the table is rebuilt and swapped, and the jobs are synced with *)
(* it.  A replication job that pulled files reloads as well, from the      *)
(* goroutine the scheduler runs it in.                                     *)
(*                                                                         *)
(* Reloads take no lock: the steps of several interleave.  A reload reads  *)
(* the database under the context of its request or of its job, and a tree *)
(* that cannot be read is no tree.  A version stands for all a row         *)
(* configures; the job of a row, prefetch or replication, is one entry.    *)
(*                                                                         *)
(* An operator whose comment starts with "Faulty:" is not part of the      *)
(* model: it is what the definition after it would be with a plausible     *)
(* mistake, and a property must fail when it takes that place.             *)
(***************************************************************************)
EXTENDS Naturals

CONSTANTS Namespaces, Repos,
          NsOf,        \* the namespace of each repository
          Versions,    \* what a row may configure
          Broken,      \* the versions no factory builds
          Scheduled,   \* the versions with a prefetch or replication job
          None,        \* no row, no registry, no job, no repository
          Admins,      \* administrators; each has one request in flight
          Runs,        \* runs of replication jobs in flight at a time
          MaxFaults,   \* bound on failing reads of the tree
          MaxCuts      \* bound on clients that go away

ASSUME NoneAssumption == None \notin Versions /\ None \notin Repos
ASSUME NsAssumption == NsOf \in [Repos -> Namespaces]
ASSUME VersionAssumption == Broken \subseteq Versions /\ Scheduled \subseteq Versions
ASSUME ActorAssumption == Admins \cap Runs = {}
ASSUME BoundsAssumption == MaxFaults \in Nat /\ MaxCuts \in Nat

Actors == Admins \cup Runs
Rows == [Repos -> Versions \cup {None}]
NoRows == [r \in Repos |-> None]

VARIABLES ns,      \* the namespaces in the database
          row,     \* the repositories in the database
          table,   \* Manager.current: the row each registry was built from
          jobs,    \* the scheduler's jobs: the row each was set from
          req,     \* the requests and job runs in flight
          faults, cuts

vars == <<ns, row, table, jobs, req, faults, cuts>>

\* alive is the context; solo is history: nothing else has happened since the
\* request started, and nothing failed in it.
Request == [pc : {"idle", "pull", "namespaces", "repos", "swap", "list", "set", "remove"},
            alive : BOOLEAN, repo : Repos \cup {None},
            seen : SUBSET Namespaces, tree : Rows,
            todo : SUBSET Repos, want : SUBSET Repos, solo : BOOLEAN]
NoRequest == [pc |-> "idle", alive |-> FALSE, repo |-> None, seen |-> {},
              tree |-> NoRows, todo |-> {}, want |-> {}, solo |-> FALSE]

TypeOK ==
  /\ ns \in SUBSET Namespaces
  /\ row \in Rows
  /\ table \in Rows
  /\ jobs \in Rows
  /\ req \in [Actors -> Request]
  /\ faults \in 0..MaxFaults
  /\ cuts \in 0..MaxCuts

\* Boot loads an empty database.
Init ==
  /\ ns = {}
  /\ row = NoRows
  /\ table = NoRows
  /\ jobs = NoRows
  /\ req = [a \in Actors |-> NoRequest]
  /\ faults = 0
  /\ cuts = 0

------------------------------------------------------------------------------
At(a, pc) == req[a].pc = pc

\* Actor a goes on with q.  The runs in hit lose their context; everyone else
\* in flight is no longer alone.
GoOn(a, q, hit) ==
  req' = [b \in Actors |->
            IF b = a THEN [q EXCEPT !.alive = @ /\ b \notin hit]
            ELSE [req[b] EXCEPT !.alive = @ /\ b \notin hit, !.solo = FALSE]]

Continue(a, q) == GoOn(a, q, {})

\* Faulty: one bad row disables the rest.
BuiltAllOrNone(tree) == IF \E r \in Repos : tree[r] \in Broken THEN NoRows ELSE tree

\* A registry is built from every row a factory accepts; the others are
\* skipped.
Built(tree) == [r \in Repos |-> IF tree[r] \in Broken THEN None ELSE tree[r]]

------------------------------------------------------------------------------
\* A request has changed the database and goes on to reload.
Start(a) ==
  /\ At(a, "idle")
  /\ Continue(a, [NoRequest EXCEPT !.pc = "namespaces", !.alive = TRUE, !.solo = TRUE])
  /\ UNCHANGED <<table, jobs, faults, cuts>>

CreateNamespace(a, n) ==
  /\ Start(a)
  /\ n \notin ns
  /\ ns' = ns \cup {n}
  /\ UNCHANGED row

\* The rows of its repositories go with a namespace.
DeleteNamespace(a, n) ==
  /\ Start(a)
  /\ n \in ns
  /\ ns' = ns \ {n}
  /\ row' = [r \in Repos |-> IF NsOf[r] = n THEN None ELSE row[r]]

CreateRepository(a, r, v) ==
  /\ Start(a)
  /\ NsOf[r] \in ns /\ row[r] = None
  /\ row' = [row EXCEPT ![r] = v]
  /\ UNCHANGED ns

UpdateRepository(a, r, v) ==
  /\ Start(a)
  /\ row[r] # None
  /\ row' = [row EXCEPT ![r] = v]
  /\ UNCHANGED ns

DeleteRepository(a, r) ==
  /\ Start(a)
  /\ row[r] # None
  /\ row' = [row EXCEPT ![r] = None]
  /\ UNCHANGED ns

\* The feature flag, a namespace's description and an import change neither
\* list.
Touch(a) == Start(a) /\ UNCHANGED <<ns, row>>

\* A job's timer fires.  The runs of one job follow one another; a run whose
\* job was replaced meanwhile may still be going on.
StartRun(x, r) ==
  /\ At(x, "idle")
  /\ jobs[r] # None
  /\ \A y \in Runs : req[y].repo = r => ~req[y].alive
  /\ Continue(x, [NoRequest EXCEPT !.pc = "pull", !.alive = TRUE, !.repo = r, !.solo = TRUE])
  /\ UNCHANGED <<ns, row, table, jobs, faults, cuts>>

\* The pull fails, or brings nothing, or brings files and is followed by a
\* reload; without a registry there is nothing to pull into.
Pull(x) ==
  /\ At(x, "pull")
  /\ \/ Continue(x, NoRequest)
     \/ /\ req[x].alive /\ table[req[x].repo] # None
        /\ Continue(x, [req[x] EXCEPT !.pc = "namespaces"])
  /\ UNCHANGED <<ns, row, table, jobs, faults, cuts>>

------------------------------------------------------------------------------
\* A query of the tree fails when its context has ended, or by itself; then
\* there is no tree.
LoadFails(a) ==
  /\ \/ ~req[a].alive /\ UNCHANGED faults
     \/ faults < MaxFaults /\ faults' = faults + 1
  /\ Continue(a, [req[a] EXCEPT !.pc = "swap", !.tree = NoRows, !.seen = {}, !.solo = FALSE])

LoadNamespaces(a) ==
  /\ At(a, "namespaces")
  /\ \/ /\ req[a].alive
        /\ Continue(a, [req[a] EXCEPT !.pc = "repos", !.seen = ns])
        /\ UNCHANGED faults
     \/ LoadFails(a)
  /\ UNCHANGED <<ns, row, table, jobs, cuts>>

\* The repositories are sorted under the namespaces read before.
LoadRepositories(a) ==
  /\ At(a, "repos")
  /\ \/ /\ req[a].alive
        /\ Continue(a, [req[a] EXCEPT !.pc = "swap", !.seen = {},
             !.tree = [r \in Repos |-> IF NsOf[r] \in req[a].seen THEN row[r] ELSE None]])
        /\ UNCHANGED faults
     \/ LoadFails(a)
  /\ UNCHANGED <<ns, row, table, jobs, cuts>>

\* Reload: the table is built aside and swapped.
Reload(a) ==
  /\ At(a, "swap")
  /\ table' = Built(req[a].tree)
  /\ Continue(a, [req[a] EXCEPT !.pc = "list", !.tree = NoRows])
  /\ UNCHANGED <<ns, row, jobs, faults, cuts>>

\* syncRegistrySchedules lists the live table, then looks each registry's row
\* up in the table of that moment and sets its job; whoever runs under the
\* job loses its context, the one that syncs included.
ListTable(a) ==
  /\ At(a, "list")
  /\ Continue(a, [req[a] EXCEPT !.pc = "set", !.todo = {r \in Repos : table[r] # None}])
  /\ UNCHANGED <<ns, row, table, jobs, faults, cuts>>

RunsOf(r) == {y \in Runs : req[y].repo = r}

SetJob(a, r) ==
  /\ At(a, "set") /\ r \in req[a].todo
  /\ LET scheduled == table[r] \in Scheduled
     IN  /\ jobs' = IF scheduled THEN [jobs EXCEPT ![r] = table[r]] ELSE jobs
         /\ GoOn(a, [req[a] EXCEPT !.todo = @ \ {r},
                       !.want = IF scheduled THEN @ \cup {r} ELSE @],
                 IF scheduled THEN RunsOf(r) ELSE {})
  /\ UNCHANGED <<ns, row, table, faults, cuts>>

\* Faulty: the jobs that are not wanted stay.
ListJobsNone(a) ==
  /\ At(a, "set") /\ req[a].todo = {}
  /\ Continue(a, [req[a] EXCEPT !.pc = "remove", !.want = {}, !.todo = {}])
  /\ UNCHANGED <<ns, row, table, jobs, faults, cuts>>

\* The scheduler's keys are listed; the ones that are not wanted go.
ListJobs(a) ==
  /\ At(a, "set") /\ req[a].todo = {}
  /\ Continue(a, [req[a] EXCEPT !.pc = "remove", !.want = {},
                    !.todo = {r \in Repos : jobs[r] # None} \ req[a].want])
  /\ UNCHANGED <<ns, row, table, jobs, faults, cuts>>

RemoveJob(a, r) ==
  /\ At(a, "remove") /\ r \in req[a].todo
  /\ jobs' = [jobs EXCEPT ![r] = None]
  /\ GoOn(a, [req[a] EXCEPT !.todo = @ \ {r}], RunsOf(r))
  /\ UNCHANGED <<ns, row, table, faults, cuts>>

\* The reload is over, and with it the request or the run.
Synced(a) == At(a, "remove") /\ req[a].todo = {}

End(a) ==
  /\ Synced(a)
  /\ Continue(a, NoRequest)
  /\ UNCHANGED <<ns, row, table, jobs, faults, cuts>>

\* The client of a request goes away and its context ends; the handler goes
\* on.
Disconnect(a) ==
  /\ cuts < MaxCuts
  /\ ~At(a, "idle") /\ req[a].alive
  /\ cuts' = cuts + 1
  /\ req' = [req EXCEPT ![a].alive = FALSE, ![a].solo = FALSE]
  /\ UNCHANGED <<ns, row, table, jobs, faults>>

Mutate(a) ==
  \/ \E n \in Namespaces : CreateNamespace(a, n) \/ DeleteNamespace(a, n)
  \/ \E r \in Repos, v \in Versions : CreateRepository(a, r, v) \/ UpdateRepository(a, r, v)
  \/ \E r \in Repos : DeleteRepository(a, r)
  \/ Touch(a)

ReloadStep(a) ==
  \/ LoadNamespaces(a) \/ LoadRepositories(a) \/ Reload(a)
  \/ ListTable(a) \/ ListJobs(a) \/ End(a)
  \/ \E r \in Repos : SetJob(a, r) \/ RemoveJob(a, r)

Next ==
  \/ \E a \in Admins : Mutate(a) \/ Disconnect(a)
  \/ \E x \in Runs : Pull(x) \/ \E r \in Repos : StartRun(x, r)
  \/ \E a \in Actors : ReloadStep(a)

Spec == Init /\ [][Next]_vars

------------------------------------------------------------------------------
\* The table routes exactly the repositories of the database that a factory
\* builds, each as it is configured there.
Current ==
  \A r \in Repos : table[r] = IF row[r] \in Broken THEN None ELSE row[r]

\* The scheduler has exactly the jobs the table asks for.
Scheduling ==
  \A r \in Repos : jobs[r] = IF table[r] \in Scheduled THEN table[r] ELSE None

\* A reload that nothing disturbed brings table and jobs up to date, whatever
\* the reloads before it left behind: an empty table after a failed read, a
\* deleted repository that is still routed, a lost job.
SoloReloadHeals ==
  \A a \in Actors : Synced(a) /\ req[a].solo => Current /\ Scheduling
=============================================================================
