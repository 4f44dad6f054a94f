--------------------------- MODULE KeyServerProofs ---------------------------
(***************************************************************************)
(* What holds of the at-rest key for every set of keys, repositories and   *)
(* administrators.  The first two theorems need no assumption on how       *)
(* requests interleave, crash or fail; the last three are about a single   *)
(* administrator (requests do not overlap) and no failing database call.   *)
(***************************************************************************)
EXTENDS KeyServer, TLAPS

LEMMA NoJobType == NoJob \in Job
BY DEF NoJob, Job, Step

\* The bookkeeping of a request keeps the type of the request table.
LEMMA JobSteps ==
  ASSUME job \in [Admins -> Job], NEW a \in Admins
  PROVE  /\ Finish(a) => job' \in [Admins -> Job]
         /\ \A pc \in Step : Goto(a, pc) => job' \in [Admins -> Job]
<1>1. Finish(a) => job' \in [Admins -> Job]
  BY NoJobType DEF Finish
<1>2. ASSUME NEW pc \in Step, Goto(a, pc) PROVE job' \in [Admins -> Job]
  <2>1. [job[a] EXCEPT !.pc = pc] \in Job
    BY DEF Job
  <2> QED
    BY <1>2, <2>1 DEF Goto
<1> QED
  BY <1>1, <1>2

\* A request step keeps the type invariant.
LEMMA RequestStepType ==
  ASSUME TypeOK, NEW a \in Admins, RequestStep(a)
  PROVE  TypeOK'
<1> USE NoKeyAssumption, BootKeyAssumption, BoundsAssumption, NoJobType DEF TypeOK
<1>0. /\ Finish(a) => job' \in [Admins -> Job]
      /\ \A pc \in Step : Goto(a, pc) => job' \in [Admins -> Job]
  BY JobSteps
<1>k. job[a].key \in Keys \cup {NoKey} /\ job[a] \in Job
  BY DEF Job
<1>1. CASE InitializeRead(a)
  BY <1>0, <1>1 DEF InitializeRead, DBFault, Step
<1>2. CASE InitializeInstall(a)
  BY <1>0, <1>k, <1>2 DEF InitializeInstall, Install, Step
<1>3. CASE InitializePersist(a)
  BY <1>0, <1>k, <1>3 DEF InitializePersist, SetVerifier, DBFault, Install, Step
<1>4. CASE MarkInitialized(a)
  BY <1>0, <1>4 DEF MarkInitialized
<1>5. CASE UnlockRead(a)
  BY <1>0, <1>5 DEF UnlockRead, DBFault, Step
<1>6. CASE UnlockInstall(a)
  BY <1>0, <1>k, <1>6 DEF UnlockInstall, Install, Step
<1>7. CASE RotateRead(a)
  BY <1>0, <1>7 DEF RotateRead, DBFault, Step
<1>8. CASE RotateLoad(a)
  <2>1. \A r \in Repos : OpenRow(r) \in SUBSET Secret
    BY DEF OpenRow, Row
  <2>2. [r \in Repos |-> OpenRow(r)] \in [Repos -> SUBSET Secret]
    BY <2>1
  <2>3. CASE DBFault(a)
    BY <1>0, <1>8, <2>3 DEF RotateLoad, DBFault
  <2>4. CASE /\ job' = [job EXCEPT ![a].pc = "rotate_install",
                                   ![a].tree = [r \in Repos |-> OpenRow(r)]]
             /\ UNCHANGED faults
    <3>1. [job[a] EXCEPT !.pc = "rotate_install",
                         !.tree = [r \in Repos |-> OpenRow(r)]] \in Job
      BY <2>2 DEF Job, Step
    <3>2. job' \in [Admins -> Job]
      BY <2>4, <3>1
    <3> QED
      BY <1>8, <2>4, <3>2 DEF RotateLoad
  <2> QED
    BY <1>8, <2>3, <2>4 DEF RotateLoad
<1>9. CASE RotateInstall(a)
  BY <1>0, <1>k, <1>9 DEF RotateInstall, Install, Step
<1>10. CASE RotatePersist(a)
  <2>1. Rewrapped(job[a].tree) \in SUBSET Repos
    BY DEF Rewrapped
  <2>2. [job[a] EXCEPT !.pc = "seal", !.todo = Rewrapped(job[a].tree)] \in Job
    BY <1>k, <2>1 DEF Job, Step
  <2>3. job' \in [Admins -> Job]
    BY <1>0, <1>10, <2>2 DEF RotatePersist, DBFault
  <2> QED
    BY <1>k, <1>10, <2>3 DEF RotatePersist, SetVerifier, DBFault
<1>11. ASSUME NEW r \in Repos, Seal(a, r) PROVE TypeOK'
  <2>1. ASSUME NEW k \in Keys \cup {NoKey}
        PROVE  [job[a] EXCEPT !.pc = "write", !.repo = {r}, !.seal = k] \in Job
    BY <1>k DEF Job, Step
  <2>2. (IF job[a].tree[r] = {} THEN NoKey ELSE active) \in Keys \cup {NoKey}
    OBVIOUS
  <2>3. job' \in [Admins -> Job]
    BY <1>0, <1>11, <2>1, <2>2 DEF Seal
  <2> QED
    BY <1>11, <2>3 DEF Seal
<1>12. ASSUME NEW r \in Repos, Write(a, r) PROVE TypeOK'
  <2>0. [job[a] EXCEPT !.pc = "seal", !.todo = @ \ {r}, !.repo = {}, !.seal = NoKey]
           \in Job
    BY <1>k DEF Job, Step
  <2>1. job' \in [Admins -> Job]
    BY <1>0, <1>12, <2>0 DEF Write, DBFault
  <2>2. row' \in [Repos -> Row]
    <3>1. [exists |-> TRUE, key |-> job[a].seal, has |-> job[a].tree[r]] \in Row
      BY <1>k DEF Job, Row
    <3> QED
      BY <1>12, <3>1 DEF Write
  <2> QED
    BY <1>12, <2>1, <2>2 DEF Write, DBFault
<1> QED
  BY <1>1, <1>2, <1>3, <1>4, <1>5, <1>6, <1>7, <1>8, <1>9, <1>10, <1>11, <1>12
     DEF RequestStep

\* A new request, and the operations of a single step, keep the type
\* invariant.
LEMMA RequestType ==
  ASSUME TypeOK, NEW a \in Admins, Request(a)
  PROVE  TypeOK'
<1> USE NoKeyAssumption, NoJobType DEF TypeOK
<1>1. ASSUME NEW k \in Keys, InitializeRequest(a, k) \/ UnlockRequest(a, k)
      PROVE  TypeOK'
  <2>1. /\ [NoJob EXCEPT !.pc = "init_read", !.key = k] \in Job
        /\ [NoJob EXCEPT !.pc = "unlock_read", !.key = k] \in Job
    BY DEF Job, Step
  <2> QED
    BY <1>1, <2>1 DEF InitializeRequest, UnlockRequest
<1>2. ASSUME NEW old \in Keys, NEW new \in Keys, RotateRequest(a, old, new)
      PROVE  TypeOK'
  <2>1. [NoJob EXCEPT !.pc = "rotate_read", !.old = old, !.key = new] \in Job
    BY DEF Job, Step
  <2> QED
    BY <1>2, <2>1 DEF RotateRequest
<1>3. ASSUME NEW r \in Repos, NEW has \in SUBSET Secret, NEW create \in BOOLEAN,
             WriteRequest(a, r, has, create)
      PROVE  TypeOK'
  <2>1. [q \in Repos |-> IF q = r THEN has ELSE {}] \in [Repos -> SUBSET Secret]
    OBVIOUS
  <2>2. [NoJob EXCEPT !.pc = "seal", !.todo = {r}, !.create = create,
                      !.tree = [q \in Repos |-> IF q = r THEN has ELSE {}]] \in Job
    BY <2>1 DEF Job, Step
  <2> QED
    BY <1>3, <2>2 DEF WriteRequest
<1>4. CASE LockServerKey(a) \/ GetKeyStatus(a)
  BY <1>4 DEF LockServerKey, GetKeyStatus, Install
<1>5. CASE \E r \in Repos : DeleteRepository(a, r)
  BY <1>5 DEF DeleteRepository, Row, NoRow
<1> QED
  BY <1>1, <1>2, <1>3, <1>4, <1>5 DEF Request

LEMMA TypeStep == TypeOK /\ [Next]_vars => TypeOK'
<1> SUFFICES ASSUME TypeOK, [Next]_vars PROVE TypeOK'
  OBVIOUS
<1>1. CASE Restart
  <2>1. initialized' \in BOOLEAN
    BY <1>1, Zenon DEF Restart
  <2>2. job' \in [Admins -> Job] /\ row' \in [Repos -> Row]
    <3>1. job' = [a \in Admins |-> NoJob] /\ row' = row
      BY <1>1 DEF Restart
    <3> QED
      BY <3>1, NoJobType DEF TypeOK
  <2>3. crashes' \in 0..MaxCrashes /\ faults' \in 0..MaxFaults
    <3>1. /\ crashes < MaxCrashes /\ crashes' = crashes + 1
          /\ faults' = faults \/ (faults < MaxFaults /\ faults' = faults + 1)
      BY <1>1, Zenon DEF Restart
    <3> QED
      BY <3>1, BoundsAssumption DEF TypeOK
  <2>4. /\ verifier' \in Keys \cup {NoKey} /\ active' \in Keys \cup {NoKey}
        /\ everVerifier' \in SUBSET (Keys \cup {NoKey})
    BY <1>1, BootKeyAssumption DEF TypeOK, Restart, SetVerifier, Install
  <2> QED
    BY <2>1, <2>2, <2>3, <2>4 DEF TypeOK
<1>2. CASE UNCHANGED vars
  BY <1>2 DEF TypeOK, vars
<1> QED
  BY <1>1, <1>2, RequestType, RequestStepType DEF Next

LEMMA InitType == Init => TypeOK
BY NoKeyAssumption, BootKeyAssumption, BoundsAssumption, NoJobType
   DEF Init, TypeOK, Row, NoRow

\* Whatever requests, restarts and failing database calls do, the state of
\* the key server (keyops.go, keymgr/manager.go) is well formed.
THEOREM TypeCorrect == Spec => []TypeOK
BY InitType, TypeStep, PTL DEF Spec

------------------------------------------------------------------------------
\* A request that will write a verifier or mark the manager carries a key,
\* and one about to mark has seen a verifier.
Keyed == {"init_read", "init_install", "init_persist",
          "unlock_read", "unlock_install",
          "rotate_read", "rotate_load", "rotate_install", "rotate_persist"}

GateInv ==
  /\ TypeOK
  /\ initialized => verifier # NoKey
  /\ \A a \in Admins : job[a].pc \in Keyed => job[a].key \in Keys
  /\ \A a \in Admins : job[a].pc \in {"unlock_install", "mark"} => verifier # NoKey

LEMMA GateStep == GateInv /\ [Next]_vars => GateInv'
<1> SUFFICES ASSUME GateInv, [Next]_vars PROVE GateInv'
  OBVIOUS
<1>0. TypeOK /\ TypeOK'
  BY TypeStep DEF GateInv
<1> USE NoKeyAssumption, BootKeyAssumption, <1>0
<1> DEFINE K(j) == j.pc \in Keyed => j.key \in Keys
           V(j) == j.pc \in {"unlock_install", "mark"} => verifier' # NoKey
<1>1. ASSUME verifier # NoKey => verifier' # NoKey,
             initialized' => initialized \/ verifier' # NoKey,
             NEW a \in Admins,
             \A b \in Admins \ {a} : job'[b] = job[b],
             K(job'[a]), V(job'[a])
      PROVE  GateInv'
  BY <1>1 DEF GateInv, TypeOK
<1>2. ASSUME NEW a \in Admins, Request(a) PROVE GateInv'
  <2>1. verifier' = verifier
    BY <1>2 DEF Request, InitializeRequest, UnlockRequest, RotateRequest, WriteRequest,
                LockServerKey, GetKeyStatus, DeleteRepository
  <2>2. initialized' => initialized \/ verifier' # NoKey
    BY <1>2, Zenon DEF Request, InitializeRequest, UnlockRequest, RotateRequest,
                WriteRequest, LockServerKey, GetKeyStatus, DeleteRepository
  <2>3. \A b \in Admins \ {a} : job'[b] = job[b]
    BY <1>2 DEF TypeOK, Request, InitializeRequest, UnlockRequest, RotateRequest,
                WriteRequest, LockServerKey, GetKeyStatus, DeleteRepository
  <2>4. K(job'[a]) /\ V(job'[a])
    <3> USE DEF TypeOK, Keyed
    <3>1. ASSUME NEW k \in Keys, InitializeRequest(a, k) \/ UnlockRequest(a, k)
          PROVE  K(job'[a]) /\ V(job'[a])
      BY <3>1, ZenonT(30) DEF InitializeRequest, UnlockRequest, NoJob
    <3>2. ASSUME NEW old \in Keys, NEW new \in Keys, RotateRequest(a, old, new)
          PROVE  K(job'[a]) /\ V(job'[a])
      BY <3>2 DEF RotateRequest, NoJob
    <3>3. ASSUME NEW r \in Repos, NEW has, NEW create, WriteRequest(a, r, has, create)
          PROVE  K(job'[a]) /\ V(job'[a])
      BY <3>3 DEF WriteRequest, NoJob
    <3>4. CASE LockServerKey(a) \/ GetKeyStatus(a) \/ \E r \in Repos : DeleteRepository(a, r)
      BY <3>4 DEF LockServerKey, GetKeyStatus, DeleteRepository, At
    <3> QED
      BY <1>2, <3>1, <3>2, <3>3, <3>4 DEF Request
  <2> QED
    BY <1>1, <2>1, <2>2, <2>3, <2>4
<1>3. ASSUME NEW a \in Admins, RequestStep(a) PROVE GateInv'
  <2>1. verifier # NoKey => verifier' # NoKey
    BY <1>3 DEF GateInv, TypeOK, RequestStep, InitializeRead, InitializeInstall,
         InitializePersist, MarkInitialized, UnlockRead, UnlockInstall, RotateRead,
         RotateLoad, RotateInstall, RotatePersist, Seal, Write, SetVerifier, At, Keyed
  <2>2. initialized' => initialized \/ verifier' # NoKey
    <3>1. CASE MarkInitialized(a)
      BY <1>3, <3>1 DEF GateInv, MarkInitialized, At
    <3>2. CASE ~MarkInitialized(a)
      BY <1>3, <3>2, Zenon DEF RequestStep, InitializeRead, InitializeInstall,
         InitializePersist, UnlockRead, UnlockInstall, RotateRead,
         RotateLoad, RotateInstall, RotatePersist, Seal, Write
    <3> QED
      BY <3>1, <3>2
  <2>3. \A b \in Admins \ {a} : job'[b] = job[b]
    BY <1>3, ZenonT(30) DEF GateInv, TypeOK, RequestStep, InitializeRead, InitializeInstall,
         InitializePersist, MarkInitialized, UnlockRead, UnlockInstall, RotateRead,
         RotateLoad, RotateInstall, RotatePersist, Seal, Write, Goto, Finish, DBFault
  <2>4. K(job'[a]) /\ V(job'[a])
    <3> USE DEF GateInv, TypeOK, Keyed, At, Goto, Finish, DBFault, NoJob, Job
    <3>1. CASE InitializeRead(a) \/ InitializeInstall(a)
      BY <1>3, <3>1 DEF InitializeRead, InitializeInstall
    <3>2. CASE InitializePersist(a) \/ MarkInitialized(a)
      BY <1>3, <3>2 DEF InitializePersist, MarkInitialized, SetVerifier
    <3>3. CASE UnlockRead(a) \/ UnlockInstall(a)
      BY <1>3, <3>3 DEF UnlockRead, UnlockInstall
    <3>4. CASE RotateRead(a) \/ RotateLoad(a) \/ RotateInstall(a)
      BY <1>3, <3>4 DEF RotateRead, RotateLoad, RotateInstall
    <3>5. CASE RotatePersist(a)
      BY <1>3, <3>5 DEF RotatePersist
    <3>6. ASSUME NEW r \in Repos, Seal(a, r) \/ Write(a, r)
          PROVE  K(job'[a]) /\ V(job'[a])
      BY <1>3, <3>6 DEF Seal, Write
    <3> QED
      BY <1>3, <3>1, <3>2, <3>3, <3>4, <3>5, <3>6 DEF RequestStep
  <2> QED
    BY <1>1, <2>1, <2>2, <2>3, <2>4
<1>4. CASE Restart
  <2>1. \A b \in Admins : job'[b] = NoJob
    BY <1>4 DEF Restart
  <2>2. verifier' # NoKey \/ (verifier' = verifier /\ verifier = NoKey)
    BY <1>4 DEF Restart, SetVerifier
  <2>3. initialized' => verifier' # NoKey
    BY <1>4, Zenon DEF Restart, SetVerifier
  <2> QED
    BY <2>1, <2>2, <2>3 DEF GateInv, NoJob, Keyed
<1>5. CASE UNCHANGED vars
  BY <1>5 DEF GateInv, TypeOK, vars
<1> QED
  BY <1>2, <1>3, <1>4, <1>5 DEF Next

LEMMA InitGate == Init => GateInv
<1> SUFFICES ASSUME Init PROVE GateInv
  OBVIOUS
<1>1. initialized => verifier # NoKey
  BY Zenon DEF Init
<1>2. \A a \in Admins : job[a].pc = "idle"
  BY DEF Init, NoJob
<1> QED
  BY <1>1, <1>2, InitType DEF GateInv, Keyed

\* The lockgate is never engaged without a stored verifier, however requests
\* interleave and whichever database call fails: InitializeServerKey and
\* UnlockServerKey mark the manager only after the verifier is known to exist.
THEOREM InitializedSoundAlways == Spec => []InitializedSound
<1>1. GateInv => InitializedSound
  BY DEF GateInv, InitializedSound
<1> QED
  BY <1>1, InitGate, GateStep, PTL DEF Spec

------------------------------------------------------------------------------
\* What a request is about to write is sealed whenever there is something to
\* seal, although the live key may be gone by the time the row is written.
SealInv ==
  /\ TypeOK
  /\ StoredSealed
  /\ \A a \in Admins : At(a, "write") =>
       \A r \in job[a].repo : job[a].tree[r] # {} => job[a].seal # NoKey

LEMMA SealStep == SealInv /\ [Next]_vars => SealInv'
<1> SUFFICES ASSUME SealInv, [Next]_vars PROVE SealInv'
  OBVIOUS
<1>0. TypeOK /\ TypeOK'
  BY TypeStep DEF SealInv
<1> USE NoKeyAssumption, <1>0
<1> DEFINE S(j) == j.pc = "write" => \A r \in j.repo : j.tree[r] # {} => j.seal # NoKey
<1>1. ASSUME NEW a \in Admins, \A b \in Admins \ {a} : job'[b] = job[b],
             S(job'[a]), StoredSealed'
      PROVE  SealInv'
  BY <1>1 DEF SealInv, At
<1>2. ASSUME NEW a \in Admins, Request(a) PROVE SealInv'
  <2>1. StoredSealed'
    <3>1. UNCHANGED row \/ \E r \in Repos : row' = [row EXCEPT ![r] = NoRow]
      BY <1>2, Zenon DEF Request, InitializeRequest, UnlockRequest, RotateRequest,
                WriteRequest, LockServerKey, GetKeyStatus, DeleteRepository
    <3> QED
      BY <3>1 DEF SealInv, StoredSealed, TypeOK, NoRow
  <2>2. \A b \in Admins \ {a} : job'[b] = job[b]
    BY <1>2 DEF TypeOK, Request, InitializeRequest, UnlockRequest, RotateRequest,
                WriteRequest, LockServerKey, GetKeyStatus, DeleteRepository
  <2>3. job'[a].pc # "write"
    <3> USE DEF TypeOK
    <3>1. ASSUME NEW k \in Keys, InitializeRequest(a, k) \/ UnlockRequest(a, k)
          PROVE  job'[a].pc # "write"
      BY <3>1 DEF InitializeRequest, UnlockRequest, NoJob
    <3>2. ASSUME NEW old \in Keys, NEW new \in Keys, RotateRequest(a, old, new)
          PROVE  job'[a].pc # "write"
      BY <3>2 DEF RotateRequest, NoJob
    <3>3. ASSUME NEW r \in Repos, NEW has, NEW create, WriteRequest(a, r, has, create)
          PROVE  job'[a].pc # "write"
      BY <3>3 DEF WriteRequest, NoJob
    <3>4. CASE LockServerKey(a) \/ GetKeyStatus(a) \/ \E r \in Repos : DeleteRepository(a, r)
      BY <3>4 DEF LockServerKey, GetKeyStatus, DeleteRepository, At
    <3> QED
      BY <1>2, <3>1, <3>2, <3>3, <3>4 DEF Request
  <2> QED
    BY <1>1, <2>1, <2>2, <2>3
<1>3. ASSUME NEW a \in Admins, RequestStep(a) PROVE SealInv'
  <2>1. \A b \in Admins \ {a} : job'[b] = job[b]
    BY <1>3 DEF TypeOK, RequestStep, InitializeRead, InitializeInstall,
         InitializePersist, MarkInitialized, UnlockRead, UnlockInstall, RotateRead,
         RotateLoad, RotateInstall, RotatePersist, Seal, Write, Goto, Finish, DBFault
  <2>2. ASSUME NEW r \in Repos, Seal(a, r) PROVE StoredSealed' /\ S(job'[a])
    <3>1. StoredSealed'
      BY <2>2 DEF SealInv, StoredSealed, Seal
    <3>2. S(job'[a])
      BY <2>2 DEF Seal, TypeOK, Job, Finish, NoJob
    <3> QED
      BY <3>1, <3>2
  <2>3. ASSUME NEW r \in Repos, Write(a, r) PROVE StoredSealed' /\ S(job'[a])
    <3>1. StoredSealed'
      BY <2>3 DEF SealInv, StoredSealed, Write, TypeOK
    <3>2. job'[a].pc # "write"
      BY <2>3 DEF Write, TypeOK, Job, Finish, DBFault, NoJob
    <3> QED
      BY <3>1, <3>2
  <2>4. CASE \A r \in Repos : ~Seal(a, r) /\ ~Write(a, r)
    <3>1. UNCHANGED row
      BY <1>3, <2>4, Zenon DEF RequestStep, InitializeRead, InitializeInstall,
           InitializePersist, MarkInitialized, UnlockRead, UnlockInstall, RotateRead,
           RotateLoad, RotateInstall, RotatePersist
    <3>2. job'[a].pc # "write"
      BY <1>3, <2>4 DEF TypeOK, Job, RequestStep, InitializeRead, InitializeInstall,
           InitializePersist, MarkInitialized, UnlockRead, UnlockInstall, RotateRead,
           RotateLoad, RotateInstall, RotatePersist, Goto, Finish, DBFault, NoJob
    <3>3. StoredSealed'
      BY <3>1 DEF SealInv, StoredSealed
    <3> QED
      BY <1>1, <2>1, <3>2, <3>3
  <2> QED
    BY <1>1, <1>3, <2>1, <2>2, <2>3, <2>4
<1>4. CASE Restart
  <2>1. \A b \in Admins : job'[b] = NoJob
    BY <1>4 DEF Restart
  <2>2. UNCHANGED row
    BY <1>4, Zenon DEF Restart
  <2> QED
    BY <2>1, <2>2 DEF SealInv, StoredSealed, At, NoJob
<1>5. CASE UNCHANGED vars
  BY <1>5 DEF SealInv, StoredSealed, At, vars
<1> QED
  BY <1>2, <1>3, <1>4, <1>5 DEF Next

\* A secret never reaches the table in the clear, also when another
\* administrator locks the server between the seal and the write of a row, a
\* rotation's rows included: sealRepoSecrets refuses a secret without a key.
THEOREM StoredSealedAlways == Spec => []StoredSealed
<1>1. Init => SealInv
  BY InitType DEF Init, SealInv, StoredSealed, At, NoJob, NoRow
<1>2. SealInv => StoredSealed
  BY DEF SealInv
<1> QED
  BY <1>1, <1>2, SealStep, PTL DEF Spec

------------------------------------------------------------------------------
\* A single administrator and no failing database call.  The live key is the
\* verifier's, or none, except between the swap and the write of the verifier;
\* an unlock installs what it read; what is sealed, or about to be written, is
\* sealed under a key that was written as a verifier.
LiveKeyInv(a) ==
  /\ job[a].pc \in {"init_persist", "rotate_persist"} => active = job[a].key
  /\ job[a].pc \notin {"init_persist", "rotate_persist"} => active \in {NoKey, verifier}
  /\ job[a].pc = "unlock_install" => job[a].key = verifier
  /\ job[a].pc \in {"init_install", "init_persist"} => verifier = NoKey

KnownKeyInv(a) ==
  /\ NoKey \notin everVerifier
  /\ verifier # NoKey => verifier \in everVerifier
  /\ \A r \in Repos : row[r].has # {} => row[r].key \in everVerifier
  /\ job[a].pc = "write" =>
       \A r \in job[a].repo : job[a].tree[r] # {} => job[a].seal \in everVerifier

\* Without restarts, moreover: the gate lets a rotation in only with the
\* verifier's key live, the rotation reads every credential before the swap,
\* and until it ends the rows it still has to write are the only ones under
\* another key.
Rewriting(a) == job[a].pc \in {"seal", "write"} /\ job[a].old # NoKey

RotationInv(a) ==
  /\ job[a].pc # "mark" /\ verifier # NoKey => initialized
  /\ job[a].pc = "rotate_read" /\ verifier # NoKey => active = verifier
  /\ job[a].pc \in {"rotate_load", "rotate_install"} =>
       active = verifier /\ verifier # NoKey
  /\ job[a].pc = "rotate_persist" => verifier # NoKey
  /\ job[a].pc \in {"rotate_read", "rotate_load", "rotate_install", "rotate_persist"} =>
       ~job[a].create /\ job[a].old # NoKey
  /\ job[a].pc \in {"rotate_install", "rotate_persist"} =>
       \A r \in Repos : /\ "auth" \in row[r].has => "auth" \in job[a].tree[r]
                        /\ "auth" \in job[a].tree[r] => row[r].exists
  /\ Rewriting(a) =>
       /\ ~job[a].create /\ active = verifier /\ verifier # NoKey
       /\ \A r \in job[a].todo : "auth" \in job[a].tree[r] /\ row[r].exists
  /\ job[a].pc = "write" =>
       \A r \in job[a].repo :
         r \in job[a].todo /\ (job[a].tree[r] # {} => job[a].seal = verifier)

CredentialInv(a) ==
  /\ \A r \in Repos : row[r].has # {} => row[r].exists
  /\ \A r \in Repos : "auth" \in row[r].has =>
       row[r].key = verifier \/ (Rewriting(a) /\ r \in job[a].todo)

SerialInv(a) == GateInv /\ LiveKeyInv(a) /\ KnownKeyInv(a)
SteadyInv(a) == SerialInv(a) /\ RotationInv(a) /\ CredentialInv(a)

\* Without faults no database call fails.
LEMMA NoFaults ==
  ASSUME TypeOK, MaxFaults = 0, NEW a \in Admins
  PROVE  ~DBFault(a) /\ ~(faults < MaxFaults)
BY DEF TypeOK, DBFault

LEMMA SerialStep ==
  ASSUME NEW a, Admins = {a}, MaxFaults = 0, SerialInv(a), [Next]_vars
  PROVE  SerialInv(a)'
<1> USE NoKeyAssumption, BootKeyAssumption
<1>0. GateInv /\ GateInv' /\ a \in Admins
  BY GateStep DEF SerialInv
<1>t. TypeOK /\ TypeOK' /\ ~DBFault(a) /\ ~(faults < MaxFaults)
  BY <1>0, NoFaults DEF GateInv
<1>k. LiveKeyInv(a) /\ KnownKeyInv(a)
  BY DEF SerialInv
<1> SUFFICES LiveKeyInv(a)' /\ KnownKeyInv(a)'
  BY <1>0 DEF SerialInv
<1> USE <1>0, <1>t, <1>k
<1>1. CASE InitializeRead(a)
  BY <1>1 DEF InitializeRead, At, Goto, Finish, NoJob, TypeOK, Job, Row,
     LiveKeyInv, KnownKeyInv, GateInv, Keyed
<1>2. CASE InitializeInstall(a)
  BY <1>2 DEF InitializeInstall, Install, At, Goto, Finish, NoJob, TypeOK, Job, Row,
     LiveKeyInv, KnownKeyInv, GateInv, Keyed
<1>3. CASE InitializePersist(a)
  BY <1>3 DEF InitializePersist, Install, SetVerifier, At, Goto, Finish, NoJob, TypeOK, Job, Row,
     LiveKeyInv, KnownKeyInv, GateInv, Keyed
<1>4. CASE MarkInitialized(a)
  BY <1>4 DEF MarkInitialized, At, Goto, Finish, NoJob, TypeOK, Job, Row,
     LiveKeyInv, KnownKeyInv, GateInv, Keyed
<1>5. CASE UnlockRead(a)
  BY <1>5 DEF UnlockRead, At, Goto, Finish, NoJob, TypeOK, Job, Row,
     LiveKeyInv, KnownKeyInv, GateInv, Keyed
<1>6. CASE UnlockInstall(a)
  BY <1>6 DEF UnlockInstall, Install, At, Goto, Finish, NoJob, TypeOK, Job, Row,
     LiveKeyInv, KnownKeyInv, GateInv, Keyed
<1>7. CASE RotateRead(a)
  BY <1>7 DEF RotateRead, At, Goto, Finish, NoJob, TypeOK, Job, Row,
     LiveKeyInv, KnownKeyInv, GateInv, Keyed
<1>8. CASE RotateLoad(a)
  BY <1>8 DEF RotateLoad, At, Goto, Finish, NoJob, TypeOK, Job, Row,
     LiveKeyInv, KnownKeyInv, GateInv, Keyed
<1>9. CASE RotateInstall(a)
  BY <1>9 DEF RotateInstall, Install, At, Goto, Finish, NoJob, TypeOK, Job, Row,
     LiveKeyInv, KnownKeyInv, GateInv, Keyed
<1>10. CASE RotatePersist(a)
  BY <1>10 DEF RotatePersist, SetVerifier, At, Goto, Finish, NoJob, TypeOK, Job, Row,
     LiveKeyInv, KnownKeyInv, GateInv, Keyed
<1>11. ASSUME NEW r \in Repos, Seal(a, r)
      PROVE  LiveKeyInv(a)' /\ KnownKeyInv(a)'
  BY <1>11 DEF Seal, At, Finish, NoJob, TypeOK, Job, LiveKeyInv, KnownKeyInv
<1>12. ASSUME NEW r \in Repos, Write(a, r)
      PROVE  LiveKeyInv(a)' /\ KnownKeyInv(a)'
  BY <1>12, SMTT(20) DEF Write, At, Finish, NoJob, TypeOK, Job, Row, LiveKeyInv, KnownKeyInv
<1>13. CASE Request(a)
  <2>1. ASSUME NEW k \in Keys, InitializeRequest(a, k) \/ UnlockRequest(a, k)
        PROVE  LiveKeyInv(a)' /\ KnownKeyInv(a)'
    <3>1. /\ job'[a].pc \in {"init_read", "unlock_read"}
          /\ UNCHANGED <<verifier, row, active, everVerifier>>
      BY <2>1 DEF InitializeRequest, UnlockRequest, NoJob, TypeOK
    <3>2. job[a].pc = "idle"
      BY <2>1 DEF InitializeRequest, UnlockRequest, At
    <3> QED
      BY <3>1, <3>2 DEF LiveKeyInv, KnownKeyInv
  <2>2. ASSUME NEW old \in Keys, NEW new \in Keys, RotateRequest(a, old, new)
        PROVE  LiveKeyInv(a)' /\ KnownKeyInv(a)'
    BY <2>2 DEF RotateRequest, At, NoJob, TypeOK, LiveKeyInv, KnownKeyInv
  <2>3. ASSUME NEW r \in Repos, NEW has \in SUBSET Secret, NEW create \in BOOLEAN,
               WriteRequest(a, r, has, create)
        PROVE  LiveKeyInv(a)' /\ KnownKeyInv(a)'
    <3>1. job'[a].pc = "seal" /\ UNCHANGED <<verifier, row, active, everVerifier>>
      BY <2>3 DEF WriteRequest, NoJob, TypeOK
    <3> QED
      BY <2>3, <3>1 DEF WriteRequest, At, LiveKeyInv, KnownKeyInv
  <2>4. CASE LockServerKey(a) \/ GetKeyStatus(a)
    BY <2>4 DEF LockServerKey, GetKeyStatus, Install, At, LiveKeyInv, KnownKeyInv
  <2>5. ASSUME NEW r \in Repos, DeleteRepository(a, r)
        PROVE  LiveKeyInv(a)' /\ KnownKeyInv(a)'
    BY <2>5 DEF DeleteRepository, NoRow, TypeOK, Row, LiveKeyInv, KnownKeyInv
  <2> QED
    BY <1>13, <2>1, <2>2, <2>3, <2>4, <2>5 DEF Request
<1>14. CASE Restart
  <2>1. job'[a] = NoJob /\ row' = row
    BY <1>14 DEF Restart
  <2>2. \/ /\ active' = IF verifier = BootKey THEN BootKey ELSE NoKey
           /\ verifier' = verifier /\ everVerifier' = everVerifier
        \/ active' = BootKey /\ verifier' = BootKey /\ BootKey # NoKey
             /\ everVerifier' = everVerifier \cup {BootKey}
    BY <1>14, Zenon DEF Restart, SetVerifier, Install
  <2> QED
    BY <2>1, <2>2 DEF NoJob, LiveKeyInv, KnownKeyInv
<1>15. CASE UNCHANGED vars
  BY <1>15 DEF vars, LiveKeyInv, KnownKeyInv
<1> QED
  BY <1>1, <1>2, <1>3, <1>4, <1>5, <1>6, <1>7, <1>8, <1>9, <1>10, <1>11, <1>12, <1>13, <1>14, <1>15 DEF Next, RequestStep

LEMMA InitSerial ==
  ASSUME NEW a, Admins = {a}, Init
  PROVE  SerialInv(a)
<1>1. GateInv
  BY InitGate
<1>2. job[a] = NoJob /\ (\A r \in Repos : row[r] = NoRow)
  BY DEF Init
<1>3. active = verifier /\ everVerifier = {verifier} \ {NoKey}
  BY DEF Init
<1> QED
  BY <1>1, <1>2, <1>3 DEF SerialInv, LiveKeyInv, KnownKeyInv, NoJob, NoRow

LEMMA SerialSafety ==
  ASSUME NEW a, Admins = {a}, MaxFaults = 0
  PROVE  Spec => []SerialInv(a)
<1>1. Init => SerialInv(a)
  BY InitSerial
<1>2. SerialInv(a) /\ [Next]_vars => SerialInv(a)'
  BY SerialStep
<1> QED
  BY <1>1, <1>2, PTL DEF Spec

\* For one administrator and a database that does not fail, restarts allowed:
\* at rest the live key is the verifier's (InitializeServerKey,
\* UnlockServerKey and RotateServerKey all end with the two equal).
THEOREM KeyMatchesVerifierSerial ==
  ASSUME NEW a, Admins = {a}, MaxFaults = 0
  PROVE  Spec => []KeyMatchesVerifier
<1>1. SerialInv(a) => KeyMatchesVerifier
  BY DEF SerialInv, LiveKeyInv, KeyMatchesVerifier, Quiet, At
<1> QED
  BY <1>1, SerialSafety, PTL

\* Under the same assumptions no row is ever sealed under a key that was not
\* written as a verifier, also when a restart cuts a rotation short.
THEOREM SealedUnderKnownKeySerial ==
  ASSUME NEW a, Admins = {a}, MaxFaults = 0
  PROVE  Spec => []SealedUnderKnownKey
<1>1. SerialInv(a) => SealedUnderKnownKey
  BY DEF SerialInv, KnownKeyInv, SealedUnderKnownKey
<1> QED
  BY <1>1, SerialSafety, PTL

LEMMA SteadyStep ==
  ASSUME NEW a, Admins = {a}, MaxFaults = 0, MaxCrashes = 0,
         SteadyInv(a), [Next]_vars
  PROVE  SteadyInv(a)'
<1> USE NoKeyAssumption, BootKeyAssumption
<1>0. SerialInv(a) /\ SerialInv(a)' /\ a \in Admins
  BY SerialStep DEF SteadyInv
<1>t. TypeOK /\ TypeOK' /\ ~DBFault(a) /\ ~(faults < MaxFaults)
  BY <1>0, NoFaults DEF SerialInv, GateInv
<1>l. GateInv /\ LiveKeyInv(a) /\ KnownKeyInv(a)
  BY <1>0 DEF SerialInv
<1>k. RotationInv(a) /\ CredentialInv(a)
  BY DEF SteadyInv
<1> SUFFICES RotationInv(a)' /\ CredentialInv(a)'
  BY <1>0 DEF SteadyInv
<1> USE <1>t, <1>0, <1>l, <1>k
<1>1. CASE InitializeRead(a)
  BY <1>1 DEF InitializeRead, At, Goto, Finish, NoJob, TypeOK, Job, Row,
     LiveKeyInv, GateInv, Keyed, RotationInv, CredentialInv, Rewriting
<1>2. CASE InitializeInstall(a)
  BY <1>2 DEF InitializeInstall, Install, At, Goto, Finish, NoJob, TypeOK, Job, Row,
     LiveKeyInv, GateInv, Keyed, RotationInv, CredentialInv, Rewriting
<1>3. CASE InitializePersist(a)
  <2>1. job'[a].pc = "mark" /\ row' = row
    BY <1>3 DEF InitializePersist, Goto, TypeOK, Job
  <2>2. \A r \in Repos : "auth" \notin row[r].has
    BY <1>3 DEF InitializePersist, At, LiveKeyInv, KnownKeyInv, CredentialInv, Rewriting
  <2> QED
    BY <2>1, <2>2 DEF RotationInv, CredentialInv, Rewriting
<1>4. CASE MarkInitialized(a)
  BY <1>4 DEF MarkInitialized, At, Goto, Finish, NoJob, TypeOK, Job, Row,
     LiveKeyInv, GateInv, Keyed, RotationInv, CredentialInv, Rewriting
<1>5. CASE UnlockRead(a)
  BY <1>5 DEF UnlockRead, At, Goto, Finish, NoJob, TypeOK, Job, Row,
     LiveKeyInv, GateInv, Keyed, RotationInv, CredentialInv, Rewriting
<1>6. CASE UnlockInstall(a)
  BY <1>6 DEF UnlockInstall, Install, At, Goto, Finish, NoJob, TypeOK, Job, Row,
     LiveKeyInv, GateInv, Keyed, RotationInv, CredentialInv, Rewriting
<1>7. CASE RotateRead(a)
  BY <1>7 DEF RotateRead, At, Goto, Finish, NoJob, TypeOK, Job, Row,
     LiveKeyInv, GateInv, Keyed, RotationInv, CredentialInv, Rewriting
<1>8. CASE RotateLoad(a)
  BY <1>8 DEF RotateLoad, OpenRow, At, Goto, Finish, NoJob, TypeOK, Job, Row,
     LiveKeyInv, GateInv, Keyed, RotationInv, CredentialInv, Rewriting
<1>9. CASE RotateInstall(a)
  BY <1>9 DEF RotateInstall, Install, At, Goto, Finish, NoJob, TypeOK, Job, Row,
     LiveKeyInv, GateInv, Keyed, RotationInv, CredentialInv, Rewriting
<1>10. CASE RotatePersist(a)
  <2>1. /\ job[a].pc = "rotate_persist" /\ active = job[a].key /\ job[a].key # NoKey
        /\ ~job[a].create /\ job[a].old # NoKey
    BY <1>10 DEF RotatePersist, At, LiveKeyInv, GateInv, Keyed, RotationInv
  <2>2. /\ verifier' = active /\ active' = active /\ verifier' # NoKey /\ row' = row
        /\ initialized' = initialized
    BY <1>10, <2>1 DEF RotatePersist, SetVerifier
  <2>3. /\ \A r \in Repos : "auth" \in row[r].has => r \in Rewrapped(job[a].tree)
        /\ \A r \in Rewrapped(job[a].tree) : row[r].exists /\ "auth" \in job[a].tree[r]
    BY <2>1 DEF Rewrapped, RotationInv
  <2>4. initialized
    BY <1>10, <2>1 DEF RotationInv
  <2>5. CASE Rewrapped(job[a].tree) = {}
    <3>1. job'[a].pc = "idle"
      BY <1>10, <2>5 DEF RotatePersist, Finish, NoJob, TypeOK
    <3> QED
      BY <2>2, <2>3, <2>4, <2>5, <3>1 DEF RotationInv, CredentialInv, Rewriting
  <2>6. CASE Rewrapped(job[a].tree) # {}
    <3>1. /\ job'[a].pc = "seal" /\ job'[a].todo = Rewrapped(job[a].tree)
          /\ job'[a].tree = job[a].tree /\ job'[a].create = job[a].create
          /\ job'[a].old = job[a].old
      BY <1>10, <2>6 DEF RotatePersist, TypeOK, Job
    <3> QED
      BY <2>1, <2>2, <2>3, <2>4, <3>1 DEF RotationInv, CredentialInv, Rewriting
  <2> QED
    BY <2>5, <2>6
<1>11. ASSUME NEW r \in Repos, Seal(a, r)
      PROVE  RotationInv(a)' /\ CredentialInv(a)'
  BY <1>11 DEF Seal, At, Finish, NoJob, TypeOK, Job, LiveKeyInv, RotationInv, CredentialInv, Rewriting
<1>12. ASSUME NEW r \in Repos, Write(a, r)
      PROVE  RotationInv(a)' /\ CredentialInv(a)'
  <2>1. /\ job[a].pc = "write" /\ r \in job[a].repo /\ r \in job[a].todo
        /\ job[a].tree[r] # {} => job[a].seal = verifier
    BY <1>12 DEF Write, At, RotationInv
  <2>2. UNCHANGED <<verifier, active, initialized>>
    BY <1>12 DEF Write
  <2>3. CASE row[r].exists # job[a].create
    <3>1. row' = [row EXCEPT ![r] = [exists |-> TRUE, key |-> job[a].seal,
                                     has |-> job[a].tree[r]]]
      BY <1>12, <2>3 DEF Write
    <3>2. /\ row'[r].exists /\ row'[r].has = job[a].tree[r]
          /\ row'[r].has # {} => row'[r].key = verifier
          /\ \A q \in Repos \ {r} : row'[q] = row[q]
      BY <2>1, <3>1 DEF TypeOK, Row
    <3>3. CASE job[a].todo = {r}
      <4>1. job'[a].pc = "idle"
        BY <1>12, <2>3, <3>3 DEF Write, Finish, NoJob, TypeOK
      <4> QED
        BY <2>1, <2>2, <3>2, <3>3, <4>1 DEF RotationInv, CredentialInv, Rewriting
    <3>4. CASE job[a].todo # {r}
      <4>1. job'[a] = [job[a] EXCEPT !.pc = "seal", !.todo = @ \ {r},
                                     !.repo = {}, !.seal = NoKey]
        BY <1>12, <2>3, <3>4 DEF Write, TypeOK
      <4>2. /\ job'[a].pc = "seal" /\ job'[a].todo = job[a].todo \ {r}
            /\ job'[a].tree = job[a].tree /\ job'[a].create = job[a].create
            /\ job'[a].old = job[a].old
        BY <4>1 DEF TypeOK, Job
      <4> QED
        BY <2>1, <2>2, <3>2, <4>2 DEF RotationInv, CredentialInv, Rewriting, TypeOK, Job
    <3> QED
      BY <3>3, <3>4
  <2>4. CASE row[r].exists = job[a].create
    <3>1. job'[a].pc = "idle" /\ row' = row
      BY <1>12, <2>4 DEF Write, Finish, NoJob, TypeOK
    <3>2. job[a].old = NoKey
      BY <2>1, <2>4 DEF RotationInv, Rewriting
    <3> QED
      BY <2>1, <2>2, <3>1, <3>2 DEF RotationInv, CredentialInv, Rewriting
  <2> QED
    BY <2>3, <2>4
<1>13. CASE Request(a)
  <2>0. job[a].pc = "idle"
    BY <1>13 DEF Request, InitializeRequest, UnlockRequest, RotateRequest, WriteRequest,
       LockServerKey, GetKeyStatus, DeleteRepository, At
  <2>1. ASSUME NEW k \in Keys, InitializeRequest(a, k) \/ UnlockRequest(a, k)
        PROVE  RotationInv(a)' /\ CredentialInv(a)'
    <3>1. /\ job'[a].pc \in {"init_read", "unlock_read"}
          /\ UNCHANGED <<verifier, row, active, initialized>>
      BY <2>1, ZenonT(30) DEF InitializeRequest, UnlockRequest, NoJob, TypeOK
    <3> QED
      BY <2>0, <3>1 DEF RotationInv, CredentialInv, Rewriting
  <2>2. ASSUME NEW old \in Keys, NEW new \in Keys, RotateRequest(a, old, new)
        PROVE  RotationInv(a)' /\ CredentialInv(a)'
    <3>1. /\ job'[a].pc = "rotate_read" /\ (verifier # NoKey => active = verifier)
          /\ ~job'[a].create /\ job'[a].old = old
          /\ UNCHANGED <<verifier, row, active, initialized>>
      BY <2>0, <2>2 DEF RotateRequest, Gate, NoJob, TypeOK, LiveKeyInv, RotationInv
    <3> QED
      BY <2>0, <3>1 DEF RotationInv, CredentialInv, Rewriting
  <2>3. ASSUME NEW r \in Repos, NEW has \in SUBSET Secret, NEW create \in BOOLEAN,
               WriteRequest(a, r, has, create)
        PROVE  RotationInv(a)' /\ CredentialInv(a)'
    <3>1. /\ job'[a].pc = "seal" /\ job'[a].old = NoKey
          /\ UNCHANGED <<verifier, row, active, initialized>>
      BY <2>3 DEF WriteRequest, NoJob, TypeOK
    <3> QED
      BY <2>0, <3>1 DEF RotationInv, CredentialInv, Rewriting
  <2>4. CASE LockServerKey(a) \/ GetKeyStatus(a)
    <3>1. job' = job /\ row' = row /\ verifier' = verifier /\ (initialized => initialized')
      BY <2>4 DEF LockServerKey, GetKeyStatus
    <3> QED
      BY <2>0, <3>1 DEF RotationInv, CredentialInv, Rewriting
  <2>5. ASSUME NEW r \in Repos, DeleteRepository(a, r)
        PROVE  RotationInv(a)' /\ CredentialInv(a)'
    BY <2>0, <2>5 DEF DeleteRepository, NoRow, TypeOK, Row, RotationInv, CredentialInv, Rewriting
  <2> QED
    BY <1>13, <2>1, <2>2, <2>3, <2>4, <2>5 DEF Request
<1>14. CASE Restart
  BY <1>14 DEF Restart, TypeOK
<1>15. CASE UNCHANGED vars
  BY <1>15 DEF vars, RotationInv, CredentialInv, Rewriting
<1> QED
  BY <1>1, <1>2, <1>3, <1>4, <1>5, <1>6, <1>7, <1>8, <1>9, <1>10, <1>11, <1>12, <1>13, <1>14, <1>15 DEF Next, RequestStep

\* For one administrator, a database that does not fail and a process that
\* does not restart: at rest every default-upstream credential opens under the
\* key that unlocks the server, so a rotation re-seals all of them.
THEOREM CredentialsReadableSteady ==
  ASSUME NEW a, Admins = {a}, MaxFaults = 0, MaxCrashes = 0
  PROVE  Spec => []CredentialsReadable
<1>1. Init => SteadyInv(a)
  <2> SUFFICES ASSUME Init PROVE SteadyInv(a)
    OBVIOUS
  <2>1. SerialInv(a)
    BY InitSerial
  <2>2. job[a].pc = "idle" /\ \A r \in Repos : row[r].has = {}
    BY DEF Init, NoJob, NoRow
  <2>3. verifier # NoKey => initialized
    BY Zenon DEF Init
  <2> QED
    BY <2>1, <2>2, <2>3 DEF SteadyInv, RotationInv, CredentialInv, Rewriting
<1>2. SteadyInv(a) /\ [Next]_vars => SteadyInv(a)'
  BY SteadyStep
<1>3. SteadyInv(a) => CredentialsReadable
  BY DEF SteadyInv, CredentialInv, Rewriting, CredentialsReadable, Quiet, At
<1> QED
  BY <1>1, <1>2, <1>3, PTL DEF Spec
=============================================================================
