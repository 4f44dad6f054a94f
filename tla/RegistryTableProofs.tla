------------------------- MODULE RegistryTableProofs -------------------------
(***************************************************************************)
(* Proofs about RegistryTable: its type invariant, and that a reload       *)
(* nothing disturbs brings table and jobs up to date, for any number of    *)
(* repositories, administrators, runs, failures and lost clients.          *)
(***************************************************************************)
EXTENDS RegistryTable, TLAPS

\* A request that goes on with a well-typed record leaves the table of
\* requests well typed.
LEMMA StepType ==
  ASSUME req \in [Actors -> Request], NEW a \in Actors, NEW q \in Request, NEW hit,
         GoOn(a, q, hit)
  PROVE  req' \in [Actors -> Request]
<1>1. [q EXCEPT !.alive = @ /\ a \notin hit] \in Request
  BY DEF Request
<1>2. \A b \in Actors : [req[b] EXCEPT !.alive = @ /\ b \notin hit, !.solo = FALSE] \in Request
  BY DEF Request
<1> QED
  BY <1>1, <1>2 DEF GoOn

LEMMA ContinueType ==
  ASSUME req \in [Actors -> Request], NEW a \in Actors, NEW q \in Request, Continue(a, q)
  PROVE  req' \in [Actors -> Request]
  BY StepType DEF Continue

LEMMA NoRequestType == NoRequest \in Request
  BY DEF NoRequest, Request, NoRows, Rows

\* The start of a request, whatever it changed in the database.
LEMMA StartType ==
  ASSUME TypeOK, NEW a \in Actors, Start(a)
  PROVE  req' \in [Actors -> Request] /\ UNCHANGED <<table, jobs, faults, cuts>>
<1>1. [NoRequest EXCEPT !.pc = "namespaces", !.alive = TRUE, !.solo = TRUE] \in Request
  BY NoRequestType DEF Request
<1> QED
  BY <1>1, ContinueType DEF Start, TypeOK

LEMMA BuiltType ==
  ASSUME NEW t \in Rows
  PROVE  Built(t) \in Rows
  BY DEF Built, Rows

\* The type invariant of the routing table and of the reloads in flight.
THEOREM TypeCorrect == Spec => []TypeOK
<1>1. Init => TypeOK
  BY NoRequestType, BoundsAssumption DEF Init, TypeOK, NoRows, Rows
<1>2. TypeOK /\ [Next]_vars => TypeOK'
  <2> SUFFICES ASSUME TypeOK, [Next]_vars PROVE TypeOK'
    OBVIOUS
  <2>1. ASSUME NEW a \in Admins, Mutate(a) PROVE TypeOK'
    <3>1. Start(a)
      BY <2>1 DEF Mutate, CreateNamespace, DeleteNamespace, CreateRepository,
                  UpdateRepository, DeleteRepository, Touch
    <3>2. req' \in [Actors -> Request] /\ UNCHANGED <<table, jobs, faults, cuts>>
      BY <3>1, StartType DEF Actors
    <3>3. ns' \in SUBSET Namespaces /\ row' \in Rows
      BY <2>1 DEF Mutate, CreateNamespace, DeleteNamespace, CreateRepository,
                  UpdateRepository, DeleteRepository, Touch, TypeOK, Rows
    <3> QED
      BY <3>2, <3>3 DEF TypeOK
  <2>2. ASSUME NEW a \in Admins, Disconnect(a) PROVE TypeOK'
    <3>1. a \in Actors /\ req[a] \in Request
      BY DEF TypeOK, Actors
    <3>2. [req[a] EXCEPT !.alive = FALSE, !.solo = FALSE] \in Request
      BY <3>1 DEF Request
    <3>3. req' = [req EXCEPT ![a] = [req[a] EXCEPT !.alive = FALSE, !.solo = FALSE]]
      BY <2>2, <3>1 DEF Disconnect, TypeOK, Request
    <3>4. req' \in [Actors -> Request]
      BY <3>2, <3>3 DEF TypeOK
    <3> QED
      BY <2>2, <3>4, BoundsAssumption DEF Disconnect, TypeOK
  <2>3. ASSUME NEW x \in Runs, NEW r \in Repos, StartRun(x, r) PROVE TypeOK'
    <3>1. [NoRequest EXCEPT !.pc = "pull", !.alive = TRUE, !.repo = r, !.solo = TRUE] \in Request
      BY NoRequestType DEF Request
    <3> QED
      BY <2>3, <3>1, ContinueType DEF StartRun, TypeOK, Actors
  <2>4. ASSUME NEW x \in Runs, Pull(x) PROVE TypeOK'
    <3>1. x \in Actors /\ [req[x] EXCEPT !.pc = "namespaces"] \in Request
      BY DEF TypeOK, Actors, Request
    <3> QED
      BY <2>4, <3>1, NoRequestType, ContinueType DEF Pull, TypeOK
  <2>5. ASSUME NEW a \in Actors, ReloadStep(a) PROVE TypeOK'
    <3>0. req[a] \in Request
      BY DEF TypeOK
    <3>1. ASSUME LoadFails(a)
          PROVE  req' \in [Actors -> Request] /\ faults' \in 0..MaxFaults
      <4>1. [req[a] EXCEPT !.pc = "swap", !.tree = NoRows, !.seen = {}, !.solo = FALSE]
              \in Request
        BY <3>0 DEF Request, Rows, NoRows
      <4> QED
        BY <3>1, <4>1, ContinueType, BoundsAssumption DEF LoadFails, TypeOK
    <3>2. CASE LoadNamespaces(a)
      <4>1. [req[a] EXCEPT !.pc = "repos", !.seen = ns] \in Request
        BY <3>0 DEF Request, TypeOK
      <4> QED
        BY <3>1, <3>2, <4>1, ContinueType DEF LoadNamespaces, TypeOK
    <3>3. CASE LoadRepositories(a)
      <4> DEFINE t == [r \in Repos |-> IF NsOf[r] \in req[a].seen THEN row[r] ELSE None]
      <4>1. t \in Rows
        BY DEF TypeOK, Rows
      <4> HIDE DEF t
      <4>2. [req[a] EXCEPT !.pc = "swap", !.seen = {}, !.tree = t] \in Request
        BY <3>0, <4>1 DEF Request
      <4>3. \/ Continue(a, [req[a] EXCEPT !.pc = "swap", !.seen = {}, !.tree = t])
               /\ UNCHANGED faults
            \/ LoadFails(a)
        BY <3>3 DEF LoadRepositories, t
      <4> QED
        BY <3>1, <3>3, <4>2, <4>3, ContinueType DEF LoadRepositories, TypeOK
    <3>4. CASE Reload(a)
      <4>1. [req[a] EXCEPT !.pc = "list", !.tree = NoRows] \in Request
        BY <3>0 DEF Request, Rows, NoRows
      <4>2. table' \in Rows
        BY <3>0, <3>4, BuiltType DEF Reload, Request
      <4> QED
        BY <3>4, <4>1, <4>2, ContinueType DEF Reload, TypeOK
    <3>5. CASE ListTable(a)
      <4>1. [req[a] EXCEPT !.pc = "set", !.todo = {r \in Repos : table[r] # None}] \in Request
        BY <3>0 DEF Request
      <4> QED
        BY <3>5, <4>1, ContinueType DEF ListTable, TypeOK
    <3>6. ASSUME NEW r \in Repos, SetJob(a, r) PROVE TypeOK'
      <4>1. /\ [req[a] EXCEPT !.todo = @ \ {r}, !.want = @ \cup {r}] \in Request
            /\ [req[a] EXCEPT !.todo = @ \ {r}, !.want = @] \in Request
        BY <3>0 DEF Request
      <4>2. req' \in [Actors -> Request]
        <5>1. CASE table[r] \in Scheduled
          BY <3>6, <5>1, <4>1, StepType DEF SetJob, TypeOK
        <5>2. CASE table[r] \notin Scheduled
          BY <3>6, <5>2, <4>1, StepType DEF SetJob, TypeOK
        <5> QED
          BY <5>1, <5>2
      <4>3. jobs' \in Rows
        BY <3>6 DEF SetJob, TypeOK, Rows
      <4> QED
        BY <3>6, <4>2, <4>3 DEF SetJob, TypeOK
    <3>7. CASE ListJobs(a)
      <4>1. [req[a] EXCEPT !.pc = "remove", !.want = {},
               !.todo = {r \in Repos : jobs[r] # None} \ req[a].want] \in Request
        BY <3>0 DEF Request
      <4> QED
        BY <3>7, <4>1, ContinueType DEF ListJobs, TypeOK
    <3>8. ASSUME NEW r \in Repos, RemoveJob(a, r) PROVE TypeOK'
      <4>1. [req[a] EXCEPT !.todo = @ \ {r}] \in Request
        BY <3>0 DEF Request
      <4>2. req' \in [Actors -> Request]
        BY <3>8, <4>1, StepType DEF RemoveJob, TypeOK
      <4>3. jobs' \in Rows
        BY <3>8 DEF RemoveJob, TypeOK, Rows
      <4> QED
        BY <3>8, <4>2, <4>3 DEF RemoveJob, TypeOK
    <3>9. CASE End(a)
      BY <3>9, NoRequestType, ContinueType DEF End, TypeOK
    <3> QED
      BY <2>5, <3>2, <3>3, <3>4, <3>5, <3>6, <3>7, <3>8, <3>9 DEF ReloadStep
  <2>6. CASE UNCHANGED vars
    BY <2>6 DEF vars, TypeOK
  <2> QED
    BY <2>1, <2>2, <2>3, <2>4, <2>5, <2>6 DEF Next
<1> QED
  BY <1>1, <1>2, PTL DEF Spec

------------------------------------------------------------------------------
\* The foreign key of the repository table: a row has its namespace.
NamespaceKept == \A r \in Repos : row[r] # None => NsOf[r] \in ns

\* What a reload that is alone knows at each of its steps.
SoloOf(a) ==
  /\ At(a, "repos") => req[a].seen = ns
  /\ At(a, "swap") => req[a].tree = row
  /\ req[a].pc \in {"list", "set", "remove"} => Current
  /\ At(a, "set") => \A r \in Repos :
       /\ r \in req[a].want => table[r] \in Scheduled /\ jobs[r] = table[r]
       /\ table[r] \in Scheduled => r \in req[a].want \cup req[a].todo
  /\ At(a, "remove") => \A r \in Repos :
       /\ table[r] \in Scheduled => jobs[r] = table[r] /\ r \notin req[a].todo
       /\ table[r] \notin Scheduled /\ r \notin req[a].todo => jobs[r] = None
  /\ ~At(a, "set") => req[a].want = {}

SoloInv == \A a \in Actors : req[a].solo => SoloOf(a)

\* After a step of a, nobody else is alone, and a goes on with its record.
LEMMA StepSolo ==
  ASSUME req \in [Actors -> Request], NEW a \in Actors, NEW q \in Request, NEW hit,
         GoOn(a, q, hit)
  PROVE  /\ \A b \in Actors \ {a} : req'[b].solo = FALSE
         /\ /\ req'[a].pc = q.pc /\ req'[a].seen = q.seen /\ req'[a].tree = q.tree
            /\ req'[a].todo = q.todo /\ req'[a].want = q.want /\ req'[a].solo = q.solo
<1>1. ASSUME NEW b \in Actors \ {a} PROVE req'[b].solo = FALSE
  <2>1. req'[b] = [req[b] EXCEPT !.alive = @ /\ b \notin hit, !.solo = FALSE]
    BY DEF GoOn
  <2>2. req[b] \in Request
    OBVIOUS
  <2> QED
    BY <2>1, <2>2 DEF Request
<1>2. req'[a] = [q EXCEPT !.alive = @ /\ a \notin hit]
  BY DEF GoOn
<1> QED
  BY <1>1, <1>2 DEF Request

LEMMA ContinueSolo ==
  ASSUME req \in [Actors -> Request], NEW a \in Actors, NEW q \in Request, Continue(a, q)
  PROVE  /\ \A b \in Actors \ {a} : req'[b].solo = FALSE
         /\ /\ req'[a].pc = q.pc /\ req'[a].seen = q.seen /\ req'[a].tree = q.tree
            /\ req'[a].todo = q.todo /\ req'[a].want = q.want /\ req'[a].solo = q.solo
  BY StepSolo DEF Continue

\* A step that leaves everyone but a not alone has to be right for a only.
LEMMA SoloOnly ==
  ASSUME NEW a \in Actors, \A b \in Actors \ {a} : req'[b].solo = FALSE,
         req'[a].solo => SoloOf(a)'
  PROVE  SoloInv'
  BY DEF SoloInv

LEMMA NamespaceKeptStep ==
  ASSUME TypeOK, NamespaceKept, [Next]_vars
  PROVE  NamespaceKept'
<1>1. CASE UNCHANGED <<ns, row>>
  BY <1>1 DEF NamespaceKept
<1>2. ASSUME NEW a \in Admins, Mutate(a) PROVE NamespaceKept'
  <2>1. ASSUME NEW n \in Namespaces, CreateNamespace(a, n) \/ DeleteNamespace(a, n)
        PROVE  NamespaceKept'
    BY <2>1 DEF CreateNamespace, DeleteNamespace, NamespaceKept
  <2>2. ASSUME NEW r \in Repos, NEW v \in Versions,
               CreateRepository(a, r, v) \/ UpdateRepository(a, r, v)
        PROVE  NamespaceKept'
    BY <2>2 DEF CreateRepository, UpdateRepository, NamespaceKept, TypeOK, Rows
  <2>3. ASSUME NEW r \in Repos, DeleteRepository(a, r) PROVE NamespaceKept'
    BY <2>3 DEF DeleteRepository, NamespaceKept, TypeOK, Rows
  <2>4. CASE Touch(a)
    BY <2>4, <1>1 DEF Touch
  <2> QED
    BY <1>2, <2>1, <2>2, <2>3, <2>4 DEF Mutate
<1>3. ASSUME NEW a \in Actors, ReloadStep(a) PROVE UNCHANGED <<ns, row>>
  BY <1>3 DEF ReloadStep, LoadNamespaces, LoadRepositories, Reload, ListTable, ListJobs,
              End, SetJob, RemoveJob
<1>4. ASSUME NEW x \in Runs, Pull(x) \/ \E r \in Repos : StartRun(x, r)
      PROVE  UNCHANGED <<ns, row>>
  BY <1>4 DEF Pull, StartRun
<1>5. ASSUME NEW a \in Admins, Disconnect(a) PROVE UNCHANGED <<ns, row>>
  BY <1>5 DEF Disconnect
<1>6. CASE UNCHANGED vars
  BY <1>6, <1>1 DEF vars
<1> QED
  BY <1>1, <1>2, <1>3, <1>4, <1>5, <1>6 DEF Next

\* One step of the reload of a: it is right for a if a is still alone.
LEMMA ReloadStepSolo ==
  ASSUME TypeOK, NamespaceKept, SoloInv, NEW a \in Actors, ReloadStep(a)
  PROVE  SoloInv'
<1>0. req[a] \in Request /\ req \in [Actors -> Request]
  BY DEF TypeOK
<1>00. req[a].solo => SoloOf(a)
  BY DEF SoloInv
<1>1. ASSUME LoadFails(a) PROVE SoloInv'
  <2>1. [req[a] EXCEPT !.pc = "swap", !.tree = NoRows, !.seen = {}, !.solo = FALSE]
          \in Request
    BY <1>0 DEF Request, Rows, NoRows
  <2>2. req'[a].solo = FALSE /\ \A b \in Actors \ {a} : req'[b].solo = FALSE
    BY <1>0, <1>1, <2>1, ContinueSolo, ZenonT(30) DEF LoadFails, Request
  <2> QED
    BY <2>2 DEF SoloInv
<1>2. CASE LoadNamespaces(a)
  <2>1. [req[a] EXCEPT !.pc = "repos", !.seen = ns] \in Request
    BY <1>0 DEF Request, TypeOK
  <2>2. CASE Continue(a, [req[a] EXCEPT !.pc = "repos", !.seen = ns])
    <3>1. /\ \A b \in Actors \ {a} : req'[b].solo = FALSE
          /\ req'[a].pc = "repos" /\ req'[a].seen = ns
          /\ req'[a].want = req[a].want /\ req'[a].solo = req[a].solo
      <4> DEFINE q == [req[a] EXCEPT !.pc = "repos", !.seen = ns]
      <4>1. q.pc = "repos" /\ q.seen = ns /\ q.want = req[a].want /\ q.solo = req[a].solo
        BY <1>0 DEF Request
      <4>2. q \in Request /\ Continue(a, q)
        BY <2>1, <2>2
      <4> HIDE DEF q
      <4> QED
        BY <1>0, <4>1, <4>2, ContinueSolo
    <3>2. req'[a].solo => SoloOf(a)'
      BY <1>00, <1>2, <3>1 DEF SoloOf, At, LoadNamespaces
    <3> QED
      BY <3>1, <3>2, SoloOnly
  <2> QED
    BY <1>1, <1>2, <2>2 DEF LoadNamespaces
<1>3. CASE LoadRepositories(a)
  <2> DEFINE t == [r \in Repos |-> IF NsOf[r] \in req[a].seen THEN row[r] ELSE None]
  <2>1. t \in Rows
    BY DEF TypeOK, Rows
  <2>2. req[a].seen = ns => t = row
    BY DEF NamespaceKept, TypeOK, Rows
  <2>3. Continue(a, [req[a] EXCEPT !.pc = "swap", !.seen = {}, !.tree = t]) \/ LoadFails(a)
    BY <1>3 DEF LoadRepositories
  <2> HIDE DEF t
  <2>4. [req[a] EXCEPT !.pc = "swap", !.seen = {}, !.tree = t] \in Request
    BY <1>0, <2>1 DEF Request
  <2>5. CASE Continue(a, [req[a] EXCEPT !.pc = "swap", !.seen = {}, !.tree = t])
    <3>1. /\ \A b \in Actors \ {a} : req'[b].solo = FALSE
          /\ req'[a].pc = "swap" /\ req'[a].tree = t
          /\ req'[a].want = req[a].want /\ req'[a].solo = req[a].solo
      <4> DEFINE q == [req[a] EXCEPT !.pc = "swap", !.seen = {}, !.tree = t]
      <4>1. q.pc = "swap" /\ q.tree = t /\ q.want = req[a].want /\ q.solo = req[a].solo
        BY <1>0 DEF Request
      <4>2. q \in Request /\ Continue(a, q)
        BY <2>4, <2>5
      <4> HIDE DEF q
      <4> QED
        BY <1>0, <4>1, <4>2, ContinueSolo
    <3>2. req'[a].solo => SoloOf(a)'
      BY <1>00, <1>3, <2>2, <3>1 DEF SoloOf, At, LoadRepositories
    <3> QED
      BY <3>1, <3>2, SoloOnly
  <2> QED
    BY <1>1, <2>3, <2>5
<1>4. CASE Reload(a)
  <2>1. [req[a] EXCEPT !.pc = "list", !.tree = NoRows] \in Request
    BY <1>0 DEF Request, Rows, NoRows
  <2>2. /\ \A b \in Actors \ {a} : req'[b].solo = FALSE
        /\ req'[a].pc = "list" /\ req'[a].want = req[a].want /\ req'[a].solo = req[a].solo
    <3> DEFINE q == [req[a] EXCEPT !.pc = "list", !.tree = NoRows]
    <3>1. q.pc = "list" /\ q.want = req[a].want /\ q.solo = req[a].solo
      BY <1>0 DEF Request
    <3>2. q \in Request /\ Continue(a, q)
      BY <1>4, <2>1 DEF Reload
    <3> HIDE DEF q
    <3> QED
      BY <1>0, <3>1, <3>2, ContinueSolo
  <2>3. req[a].solo => Current'
    BY <1>00, <1>4 DEF SoloOf, At, Reload, Built, Current
  <2>4. req'[a].solo => SoloOf(a)'
    BY <1>00, <1>4, <2>2, <2>3 DEF SoloOf, At, Reload
  <2> QED
    BY <2>2, <2>4, SoloOnly
<1>5. CASE ListTable(a)
  <2>1. [req[a] EXCEPT !.pc = "set", !.todo = {r \in Repos : table[r] # None}] \in Request
    BY <1>0 DEF Request
  <2>2. /\ \A b \in Actors \ {a} : req'[b].solo = FALSE
        /\ req'[a].pc = "set" /\ req'[a].todo = {r \in Repos : table[r] # None}
        /\ req'[a].want = req[a].want /\ req'[a].solo = req[a].solo
    <3> DEFINE q == [req[a] EXCEPT !.pc = "set", !.todo = {r \in Repos : table[r] # None}]
    <3>1. /\ q.pc = "set" /\ q.todo = {r \in Repos : table[r] # None}
          /\ q.want = req[a].want /\ q.solo = req[a].solo
      BY <1>0 DEF Request
    <3>2. q \in Request /\ Continue(a, q)
      BY <1>5, <2>1 DEF ListTable
    <3> HIDE DEF q
    <3> QED
      BY <1>0, <3>1, <3>2, ContinueSolo
  <2>3. req[a].solo => Current' /\ req[a].want = {}
    BY <1>00, <1>5 DEF SoloOf, At, ListTable, Current
  <2>4. req'[a].solo => SoloOf(a)'
    BY <1>5, <2>2, <2>3, NoneAssumption, VersionAssumption DEF SoloOf, At, ListTable
  <2> QED
    BY <2>2, <2>4, SoloOnly
<1>6. ASSUME NEW r \in Repos, SetJob(a, r) PROVE SoloInv'
  <2>1. /\ [req[a] EXCEPT !.todo = @ \ {r}, !.want = @ \cup {r}] \in Request
        /\ [req[a] EXCEPT !.todo = @ \ {r}, !.want = @] \in Request
    BY <1>0 DEF Request
  <2>2. /\ \A b \in Actors \ {a} : req'[b].solo = FALSE
        /\ req'[a].pc = "set" /\ req'[a].todo = req[a].todo \ {r}
        /\ req'[a].want = IF table[r] \in Scheduled THEN req[a].want \cup {r} ELSE req[a].want
        /\ req'[a].solo = req[a].solo
    <3>1. CASE table[r] \in Scheduled
      <4> DEFINE q == [req[a] EXCEPT !.todo = @ \ {r}, !.want = @ \cup {r}]
      <4>1. /\ q.pc = req[a].pc /\ q.todo = req[a].todo \ {r}
            /\ q.want = req[a].want \cup {r} /\ q.solo = req[a].solo
        BY <1>0 DEF Request
      <4>2. q \in Request /\ GoOn(a, q, RunsOf(r)) /\ req[a].pc = "set"
        BY <1>6, <2>1, <3>1 DEF SetJob, At
      <4> HIDE DEF q
      <4> QED
        BY <1>0, <3>1, <4>1, <4>2, StepSolo
    <3>2. CASE table[r] \notin Scheduled
      <4> DEFINE q == [req[a] EXCEPT !.todo = @ \ {r}, !.want = @]
      <4>1. /\ q.pc = req[a].pc /\ q.todo = req[a].todo \ {r}
            /\ q.want = req[a].want /\ q.solo = req[a].solo
        BY <1>0 DEF Request
      <4>2. q \in Request /\ GoOn(a, q, {}) /\ req[a].pc = "set"
        BY <1>6, <2>1, <3>2 DEF SetJob, At
      <4> HIDE DEF q
      <4> QED
        BY <1>0, <3>2, <4>1, <4>2, StepSolo
    <3> QED
      BY <3>1, <3>2
  <2>3. \A p \in Repos : jobs'[p] = IF p = r /\ table[r] \in Scheduled THEN table[r] ELSE jobs[p]
    BY <1>6 DEF SetJob, TypeOK, Rows
  <2>4. req[a].solo => Current'
    BY <1>00, <1>6 DEF SoloOf, At, SetJob, Current
  <2>5. table' = table /\ At(a, "set")
    BY <1>6 DEF SetJob
  <2>6. req'[a].solo => SoloOf(a)'
    BY <1>00, <2>2, <2>3, <2>4, <2>5 DEF SoloOf, At
  <2> QED
    BY <2>2, <2>6, SoloOnly
<1>7. CASE ListJobs(a)
  <2>1. [req[a] EXCEPT !.pc = "remove", !.want = {},
           !.todo = {r \in Repos : jobs[r] # None} \ req[a].want] \in Request
    BY <1>0 DEF Request
  <2>2. /\ \A b \in Actors \ {a} : req'[b].solo = FALSE
        /\ req'[a].pc = "remove" /\ req'[a].want = {} /\ req'[a].solo = req[a].solo
        /\ req'[a].todo = {r \in Repos : jobs[r] # None} \ req[a].want
    <3> DEFINE q == [req[a] EXCEPT !.pc = "remove", !.want = {},
                        !.todo = {r \in Repos : jobs[r] # None} \ req[a].want]
    <3>1. /\ q.pc = "remove" /\ q.want = {} /\ q.solo = req[a].solo
          /\ q.todo = {r \in Repos : jobs[r] # None} \ req[a].want
      BY <1>0 DEF Request
    <3>2. q \in Request /\ Continue(a, q)
      BY <1>7, <2>1 DEF ListJobs
    <3> HIDE DEF q
    <3> QED
      BY <1>0, <3>1, <3>2, ContinueSolo
  <2>3. req[a].solo => Current'
    BY <1>00, <1>7 DEF SoloOf, At, ListJobs, Current
  <2>4. req'[a].solo => SoloOf(a)'
    BY <1>00, <1>7, <2>2, <2>3 DEF SoloOf, At, ListJobs
  <2> QED
    BY <2>2, <2>4, SoloOnly
<1>8. ASSUME NEW r \in Repos, RemoveJob(a, r) PROVE SoloInv'
  <2>1. [req[a] EXCEPT !.todo = @ \ {r}] \in Request
    BY <1>0 DEF Request
  <2>2. /\ \A b \in Actors \ {a} : req'[b].solo = FALSE
        /\ req'[a].pc = "remove" /\ req'[a].todo = req[a].todo \ {r}
        /\ req'[a].want = req[a].want /\ req'[a].solo = req[a].solo
    <3> DEFINE q == [req[a] EXCEPT !.todo = @ \ {r}]
    <3>1. /\ q.pc = req[a].pc /\ q.todo = req[a].todo \ {r}
          /\ q.want = req[a].want /\ q.solo = req[a].solo
      BY <1>0 DEF Request
    <3>2. q \in Request /\ GoOn(a, q, RunsOf(r)) /\ req[a].pc = "remove"
      BY <1>8, <2>1 DEF RemoveJob, At
    <3> HIDE DEF q
    <3> QED
      BY <1>0, <3>1, <3>2, StepSolo
  <2>3. \A p \in Repos : jobs'[p] = IF p = r THEN None ELSE jobs[p]
    BY <1>8 DEF RemoveJob, TypeOK, Rows
  <2>4. req[a].solo => Current'
    BY <1>00, <1>8 DEF SoloOf, At, RemoveJob, Current
  <2>5. table' = table /\ At(a, "remove") /\ r \in req[a].todo
    BY <1>8 DEF RemoveJob
  <2>6. req'[a].solo => SoloOf(a)'
    BY <1>00, <2>2, <2>3, <2>4, <2>5 DEF SoloOf, At
  <2> QED
    BY <2>2, <2>6, SoloOnly
<1>9. CASE End(a)
  <2>1. req'[a].solo = FALSE /\ \A b \in Actors \ {a} : req'[b].solo = FALSE
    BY <1>0, <1>9, NoRequestType, ContinueSolo DEF End, NoRequest
  <2> QED
    BY <2>1 DEF SoloInv
<1> QED
  BY <1>2, <1>3, <1>4, <1>5, <1>6, <1>7, <1>8, <1>9 DEF ReloadStep

\* The other steps: a request or a run starts, pulls, or loses its client.
LEMMA OtherStepSolo ==
  ASSUME TypeOK, SoloInv, NEW a \in Actors,
         \/ Start(a) \/ Pull(a) \/ Disconnect(a)
         \/ \E r \in Repos : StartRun(a, r)
  PROVE  SoloInv'
<1>0. req[a] \in Request /\ req \in [Actors -> Request]
  BY DEF TypeOK
<1>1. CASE Start(a)
  <2>1. [NoRequest EXCEPT !.pc = "namespaces", !.alive = TRUE, !.solo = TRUE] \in Request
    BY NoRequestType DEF Request
  <2>2. /\ \A b \in Actors \ {a} : req'[b].solo = FALSE
        /\ req'[a].pc = "namespaces" /\ req'[a].want = {}
    BY <1>0, <1>1, <2>1, ContinueSolo DEF Start, NoRequest
  <2>3. SoloOf(a)'
    BY <2>2 DEF SoloOf, At
  <2> QED
    BY <2>2, <2>3, SoloOnly
<1>2. ASSUME NEW r \in Repos, StartRun(a, r) PROVE SoloInv'
  <2>1. [NoRequest EXCEPT !.pc = "pull", !.alive = TRUE, !.repo = r, !.solo = TRUE] \in Request
    BY NoRequestType DEF Request
  <2>2. /\ \A b \in Actors \ {a} : req'[b].solo = FALSE
        /\ req'[a].pc = "pull" /\ req'[a].want = {}
    BY <1>0, <1>2, <2>1, ContinueSolo DEF StartRun, NoRequest
  <2>3. SoloOf(a)'
    BY <2>2 DEF SoloOf, At
  <2> QED
    BY <2>2, <2>3, SoloOnly
<1>3. CASE Pull(a)
  <2>1. [req[a] EXCEPT !.pc = "namespaces"] \in Request
    BY <1>0 DEF Request
  <2>2. CASE Continue(a, NoRequest)
    <3>1. req'[a].solo = FALSE /\ \A b \in Actors \ {a} : req'[b].solo = FALSE
      BY <1>0, <2>2, NoRequestType, ContinueSolo DEF NoRequest
    <3> QED
      BY <3>1 DEF SoloInv
  <2>3. CASE Continue(a, [req[a] EXCEPT !.pc = "namespaces"])
    <3>1. /\ \A b \in Actors \ {a} : req'[b].solo = FALSE
          /\ req'[a].pc = "namespaces" /\ req'[a].want = req[a].want
          /\ req'[a].solo = req[a].solo
      <4> DEFINE q == [req[a] EXCEPT !.pc = "namespaces"]
      <4>1. q.pc = "namespaces" /\ q.want = req[a].want /\ q.solo = req[a].solo
        BY <1>0 DEF Request
      <4>2. q \in Request /\ Continue(a, q)
        BY <2>1, <2>3
      <4> HIDE DEF q
      <4> QED
        BY <1>0, <4>1, <4>2, ContinueSolo
    <3>2. req'[a].solo => SoloOf(a)'
      BY <1>3, <3>1 DEF SoloInv, SoloOf, At, Pull
    <3> QED
      BY <3>1, <3>2, SoloOnly
  <2> QED
    BY <1>3, <2>2, <2>3 DEF Pull
<1>4. CASE Disconnect(a)
  <2>1. req'[a].solo = FALSE /\ \A b \in Actors \ {a} : req'[b] = req[b]
    BY <1>0, <1>4 DEF Disconnect, Request
  <2>2. ASSUME NEW b \in Actors \ {a}, req[b].solo PROVE SoloOf(b)'
    <3>1. SoloOf(b)
      BY <2>2 DEF SoloInv
    <3>2. UNCHANGED <<ns, row, table, jobs>> /\ req'[b] = req[b]
      BY <1>4, <2>1 DEF Disconnect
    <3>3. Current' <=> Current
      BY <3>2 DEF Current
    <3> QED
      BY <3>1, <3>2, <3>3 DEF SoloOf, At
  <2> QED
    BY <2>1, <2>2 DEF SoloInv
<1> QED
  BY <1>1, <1>2, <1>3, <1>4

\* A reload that nothing disturbs heals table and schedule (server/api,
\* reloadRegistry; registry, Manager.Reload; syncRegistrySchedules).
THEOREM SoloReloadHealsAlways == Spec => []SoloReloadHeals
<1>1. Init => NamespaceKept /\ SoloInv
  BY DEF Init, NamespaceKept, SoloInv, NoRequest, NoRows
<1>2. TypeOK /\ NamespaceKept /\ SoloInv /\ [Next]_vars => NamespaceKept' /\ SoloInv'
  <2> SUFFICES ASSUME TypeOK, NamespaceKept, SoloInv, [Next]_vars PROVE SoloInv'
    BY NamespaceKeptStep
  <2>1. ASSUME NEW a \in Admins, Mutate(a) PROVE SoloInv'
    <3>1. Start(a)
      BY <2>1 DEF Mutate, CreateNamespace, DeleteNamespace, CreateRepository,
                  UpdateRepository, DeleteRepository, Touch
    <3> QED
      BY <3>1, OtherStepSolo DEF Actors
  <2>2. ASSUME NEW a \in Actors,
               Pull(a) \/ Disconnect(a) \/ \E r \in Repos : StartRun(a, r)
        PROVE  SoloInv'
    BY <2>2, OtherStepSolo
  <2>3. ASSUME NEW a \in Actors, ReloadStep(a) PROVE SoloInv'
    BY <2>3, ReloadStepSolo
  <2>4. CASE UNCHANGED vars
    BY <2>4 DEF vars, SoloInv, SoloOf, At, Current
  <2> QED
    BY <2>1, <2>2, <2>3, <2>4 DEF Next, Actors
<1>3. TypeOK /\ SoloInv => SoloReloadHeals
  BY DEF SoloInv, SoloOf, SoloReloadHeals, Synced, At, Scheduling
<1> QED
  BY <1>1, <1>2, <1>3, TypeCorrect, PTL DEF Spec
=============================================================================
