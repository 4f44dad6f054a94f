------------------------------ MODULE KeyServer ------------------------------
(***************************************************************************)
(* The at-rest key of the server: the key manager (one in-memory pointer), *)
(* the verifier kept in the meta table, the repository rows whose secrets  *)
(* are sealed under the live key, and the requests that initialise,        *)
(* unlock, lock and rotate the key or write a row.                         *)
(*                                                                         *)
(* A request is a sequence of steps: between a database call and the next  *)
(* one, requests of other administrators run.  The key manager's mutex     *)
(* covers one pointer swap, never a whole request, so the steps of two     *)
(* requests interleave freely.  A key stands for a passphrase, for the     *)
(* encryptor derived from it and for whatever is sealed under it: a value  *)
(* sealed under k opens under k and under no other key.                    *)
(*                                                                         *)
(* An operator whose comment starts with "Faulty:" is not part of the      *)
(* model: it is what the definition after it would be with a plausible     *)
(* mistake, and a property must fail when it takes that place.             *)
(***************************************************************************)
EXTENDS Naturals, FiniteSets

CONSTANTS Keys,        \* the passphrases an administrator may type
          Repos,       \* the repositories, each one row of the table
          Admins,      \* the administrators; each has one request in flight
          NoKey,       \* no verifier / no live key / nothing sealed
          BootKey,     \* encryption.password of the configuration, or NoKey
          MaxCrashes,  \* bound on restarts of the process
          MaxFaults    \* bound on failing database calls

ASSUME NoKeyAssumption == NoKey \notin Keys
ASSUME BootKeyAssumption == BootKey \in Keys \cup {NoKey}
ASSUME BoundsAssumption == MaxCrashes \in Nat /\ MaxFaults \in Nat

\* What a row may have sealed: the credential of its default upstream, and
\* the rest (signing key, replication token, secrets of routed upstreams).
Secret == {"auth", "other"}

Row == [exists : BOOLEAN, key : Keys \cup {NoKey}, has : SUBSET Secret]
NoRow == [exists |-> FALSE, key |-> NoKey, has |-> {}]

Step == {"idle", "init_read", "init_install", "init_persist", "mark",
         "unlock_read", "unlock_install",
         "rotate_read", "rotate_load", "rotate_install", "rotate_persist",
         "seal", "write"}

\* A request in flight: where it stands, the key it was given (and, for a
\* rotation, the current key), and the repositories it still has to write
\* with the secrets it read or was given for them.
Job == [pc : Step, old : Keys \cup {NoKey}, key : Keys \cup {NoKey},
        create : BOOLEAN, todo : SUBSET Repos, tree : [Repos -> SUBSET Secret],
        repo : SUBSET Repos, seal : Keys \cup {NoKey}]
NoJob == [pc |-> "idle", old |-> NoKey, key |-> NoKey, create |-> FALSE,
          todo |-> {}, tree |-> [r \in Repos |-> {}], repo |-> {}, seal |-> NoKey]

VARIABLES verifier,     \* the key the stored verifier opens under
          row,          \* the repository table
          active,       \* keymgr.Manager.active
          initialized,  \* keymgr.Manager.initialized
          job,          \* the request of each administrator
          crashes,      \* restarts so far
          faults,       \* failed database calls so far
          everVerifier  \* history: every key the verifier was ever sealed under

vars == <<verifier, row, active, initialized, job, crashes, faults, everVerifier>>

TypeOK ==
  /\ verifier \in Keys \cup {NoKey}
  /\ row \in [Repos -> Row]
  /\ active \in Keys \cup {NoKey}
  /\ initialized \in BOOLEAN
  /\ job \in [Admins -> Job]
  /\ crashes \in 0..MaxCrashes
  /\ faults \in 0..MaxFaults
  /\ everVerifier \in SUBSET (Keys \cup {NoKey})

------------------------------------------------------------------------------
\* Lockgate: the admin API answers while the server is uninitialised or
\* unlocked.
Gate == ~initialized \/ active # NoKey

\* What the storage layer shows of a row: blank secrets while the server is
\* locked and when the row was sealed under another key.
OpenRow(r) == IF active # NoKey /\ row[r].key = active THEN row[r].has ELSE {}

\* Bookkeeping of a request.
At(a, pc) == job[a].pc = pc
Goto(a, pc) == job' = [job EXCEPT ![a].pc = pc]

Finish(a) == job' = [job EXCEPT ![a] = NoJob]

\* A database call fails and the request is answered with the error.
DBFault(a) ==
  /\ faults < MaxFaults
  /\ faults' = faults + 1
  /\ Finish(a)

\* The live key is swapped under the manager's mutex.
Install(k) == active' = k

\* The verifier is written: an upsert of one meta row.
SetVerifier(k) ==
  /\ verifier' = k
  /\ everVerifier' = everVerifier \cup {k}

------------------------------------------------------------------------------
\* The state of a server that has just booted a fresh database.  With a
\* configured password it has initialised itself, unless the password is
\* only configured for a later boot.
Init ==
  /\ verifier \in {NoKey, BootKey}
  /\ row = [r \in Repos |-> NoRow]
  /\ active = verifier
  /\ initialized = (verifier # NoKey)
  /\ job = [a \in Admins |-> NoJob]
  /\ crashes = 0
  /\ faults = 0
  /\ everVerifier = {verifier} \ {NoKey}

-----------------------------------------------------------------------------
\* POST /key/initialize: refuse when a verifier exists; install the key,
\* then persist the verifier (lock again when that fails), then mark.
InitializeRequest(a, k) ==
  /\ At(a, "idle") /\ Gate
  /\ job' = [job EXCEPT ![a] = [NoJob EXCEPT !.pc = "init_read", !.key = k]]
  /\ UNCHANGED <<verifier, row, active, initialized, crashes, faults, everVerifier>>

InitializeRead(a) ==
  /\ At(a, "init_read")
  /\ \/ verifier = NoKey /\ Goto(a, "init_install") /\ UNCHANGED faults
     \/ verifier # NoKey /\ Finish(a) /\ UNCHANGED faults
     \/ DBFault(a)
  /\ UNCHANGED <<verifier, row, active, initialized, crashes, everVerifier>>

InitializeInstall(a) ==
  /\ At(a, "init_install")
  /\ Install(job[a].key)
  /\ Goto(a, "init_persist")
  /\ UNCHANGED <<verifier, row, initialized, crashes, faults, everVerifier>>

\* Faulty: the error of the upsert is ignored.
InitializePersistUnchecked(a) ==
  /\ At(a, "init_persist")
  /\ \/ SetVerifier(job[a].key) /\ UNCHANGED faults
     \/ /\ faults < MaxFaults /\ faults' = faults + 1
        /\ UNCHANGED <<verifier, everVerifier>>
  /\ Goto(a, "mark")
  /\ UNCHANGED <<row, active, initialized, crashes>>

InitializePersist(a) ==
  /\ At(a, "init_persist")
  /\ \/ SetVerifier(job[a].key) /\ Goto(a, "mark") /\ UNCHANGED <<active, faults>>
     \/ DBFault(a) /\ Install(NoKey) /\ UNCHANGED <<verifier, everVerifier>>
  /\ UNCHANGED <<row, initialized, crashes>>

\* The last step of initialize and of unlock.
MarkInitialized(a) ==
  /\ At(a, "mark")
  /\ initialized' = TRUE
  /\ Finish(a)
  /\ UNCHANGED <<verifier, row, active, crashes, faults, everVerifier>>

\* POST /key/unlock, on the lockgate's allowlist: the key must open the
\* stored verifier.
UnlockRequest(a, k) ==
  /\ At(a, "idle")
  /\ job' = [job EXCEPT ![a] = [NoJob EXCEPT !.pc = "unlock_read", !.key = k]]
  /\ UNCHANGED <<verifier, row, active, initialized, crashes, faults, everVerifier>>

UnlockRead(a) ==
  /\ At(a, "unlock_read")
  /\ \/ verifier = job[a].key /\ Goto(a, "unlock_install") /\ UNCHANGED faults
     \/ verifier # job[a].key /\ Finish(a) /\ UNCHANGED faults
     \/ DBFault(a)
  /\ UNCHANGED <<verifier, row, active, initialized, crashes, everVerifier>>

UnlockInstall(a) ==
  /\ At(a, "unlock_install")
  /\ Install(job[a].key)
  /\ Goto(a, "mark")
  /\ UNCHANGED <<verifier, row, initialized, crashes, faults, everVerifier>>

\* POST /key/lock.
LockServerKey(a) ==
  /\ At(a, "idle") /\ Gate
  /\ Install(NoKey)
  /\ UNCHANGED <<verifier, row, initialized, job, crashes, faults, everVerifier>>

\* GET /key/status, on the allowlist: it also marks the manager.
GetKeyStatus(a) ==
  /\ At(a, "idle")
  /\ verifier # NoKey
  /\ initialized' = TRUE
  /\ UNCHANGED <<verifier, row, active, job, crashes, faults, everVerifier>>

------------------------------------------------------------------------------
\* POST /key/rotate: check the current key against the verifier, read every
\* repository through the live key, swap the live key, persist the verifier,
\* and write back the repositories the loop does not skip.
RotateRequest(a, old, new) ==
  /\ At(a, "idle") /\ Gate
  /\ old # new
  /\ job' = [job EXCEPT ![a] =
               [NoJob EXCEPT !.pc = "rotate_read", !.old = old, !.key = new]]
  /\ UNCHANGED <<verifier, row, active, initialized, crashes, faults, everVerifier>>

RotateRead(a) ==
  /\ At(a, "rotate_read")
  /\ \/ verifier = job[a].old /\ Goto(a, "rotate_load") /\ UNCHANGED faults
     \/ verifier # job[a].old /\ Finish(a) /\ UNCHANGED faults
     \/ DBFault(a)
  /\ UNCHANGED <<verifier, row, active, initialized, crashes, everVerifier>>

RotateLoad(a) ==
  /\ At(a, "rotate_load")
  /\ \/ /\ job' = [job EXCEPT ![a].pc = "rotate_install",
                              ![a].tree = [r \in Repos |-> OpenRow(r)]]
        /\ UNCHANGED faults
     \/ DBFault(a)
  /\ UNCHANGED <<verifier, row, active, initialized, crashes, everVerifier>>

\* Faulty: only the repositories with every kind of secret are written back.
RewrappedFull(tree) == {r \in Repos : tree[r] = Secret}

\* The loop skips a repository without a default-upstream secret.
Rewrapped(tree) == {r \in Repos : "auth" \in tree[r]}

\* Faulty: the new key is never installed.
RotateInstallSkipped(a) ==
  /\ At(a, "rotate_install")
  /\ Goto(a, "rotate_persist")
  /\ UNCHANGED <<verifier, row, active, initialized, crashes, faults, everVerifier>>

\* Faulty: the verifier is not persisted when there is something to rewrap.
RotateInstallRewraps(a) ==
  /\ At(a, "rotate_install")
  /\ Install(job[a].key)
  /\ LET todo == Rewrapped(job[a].tree)
     IN  job' = [job EXCEPT ![a].pc = IF todo = {} THEN "rotate_persist" ELSE "seal",
                            ![a].todo = todo]
  /\ UNCHANGED <<verifier, row, initialized, crashes, faults, everVerifier>>

RotateInstall(a) ==
  /\ At(a, "rotate_install")
  /\ Install(job[a].key)
  /\ Goto(a, "rotate_persist")
  /\ UNCHANGED <<verifier, row, initialized, crashes, faults, everVerifier>>

RotatePersist(a) ==
  /\ At(a, "rotate_persist")
  /\ \/ /\ SetVerifier(job[a].key)
        /\ LET todo == Rewrapped(job[a].tree)
           IN  IF todo = {} THEN Finish(a)
               ELSE job' = [job EXCEPT ![a].pc = "seal", ![a].todo = todo]
        /\ UNCHANGED faults
     \/ DBFault(a) /\ UNCHANGED <<verifier, everVerifier>>
  /\ UNCHANGED <<row, active, initialized, crashes>>

------------------------------------------------------------------------------
\* POST and PUT of a repository: the row is sealed under the live key, then
\* written.
WriteRequest(a, r, has, create) ==
  /\ At(a, "idle") /\ Gate
  /\ job' = [job EXCEPT ![a] =
               [NoJob EXCEPT !.pc = "seal", !.todo = {r}, !.create = create,
                             !.tree = [q \in Repos |-> IF q = r THEN has ELSE {}]]]
  /\ UNCHANGED <<verifier, row, active, initialized, crashes, faults, everVerifier>>

\* Faulty: the locked server is not noticed.
SealUnchecked(a, r) ==
  /\ At(a, "seal") /\ r \in job[a].todo
  /\ job' = [job EXCEPT ![a].pc = "write", ![a].repo = {r}, ![a].seal = active]
  /\ UNCHANGED <<verifier, row, active, initialized, crashes, faults, everVerifier>>

\* sealRepoSecrets: nothing to seal, or seal under the live key; a secret
\* is refused while the server is locked.
Seal(a, r) ==
  /\ At(a, "seal") /\ r \in job[a].todo
  /\ IF job[a].tree[r] # {} /\ active = NoKey
     THEN Finish(a)
     ELSE job' = [job EXCEPT ![a].pc = "write", ![a].repo = {r},
                    ![a].seal = IF job[a].tree[r] = {} THEN NoKey ELSE active]
  /\ UNCHANGED <<verifier, row, active, initialized, crashes, faults, everVerifier>>

\* Faulty: a rotation writes the same repository again and again.
WriteStuck(a, r) ==
  /\ At(a, "write") /\ r \in job[a].repo
  /\ row' = [row EXCEPT ![r] =
               [exists |-> TRUE, key |-> job[a].seal, has |-> job[a].tree[r]]]
  /\ IF job[a].key = NoKey THEN Finish(a) ELSE Goto(a, "seal")
  /\ UNCHANGED <<verifier, active, initialized, crashes, faults, everVerifier>>

\* The INSERT or UPDATE: an insert of an existing row and an update of a
\* missing one fail and end the request (a rotation included).
Write(a, r) ==
  /\ At(a, "write") /\ r \in job[a].repo
  /\ \/ /\ row[r].exists # job[a].create
        /\ row' = [row EXCEPT ![r] =
                     [exists |-> TRUE, key |-> job[a].seal, has |-> job[a].tree[r]]]
        /\ IF job[a].todo = {r}
           THEN Finish(a)
           ELSE job' = [job EXCEPT ![a].pc = "seal", ![a].todo = @ \ {r},
                                   ![a].repo = {}, ![a].seal = NoKey]
        /\ UNCHANGED faults
     \/ row[r].exists = job[a].create /\ Finish(a) /\ UNCHANGED <<row, faults>>
     \/ DBFault(a) /\ UNCHANGED row
  /\ UNCHANGED <<verifier, active, initialized, crashes, everVerifier>>

DeleteRepository(a, r) ==
  /\ At(a, "idle") /\ Gate
  /\ row[r].exists
  /\ row' = [row EXCEPT ![r] = NoRow]
  /\ UNCHANGED <<verifier, active, initialized, job, crashes, faults, everVerifier>>

------------------------------------------------------------------------------
\* The process stops (requests in flight are lost) and boots again: the key
\* is gone, the verifier decides whether the manager is marked, and a
\* configured password unlocks or initialises.  A failing status read leaves
\* the manager unmarked and skips the configured password.
Restart ==
  /\ crashes < MaxCrashes
  /\ crashes' = crashes + 1
  /\ job' = [a \in Admins |-> NoJob]
  /\ \/ /\ verifier # NoKey \/ BootKey = NoKey
        /\ initialized' = (verifier # NoKey)
        /\ active' = IF verifier = BootKey THEN BootKey ELSE NoKey
        /\ UNCHANGED <<verifier, faults, everVerifier>>
     \/ /\ verifier = NoKey /\ BootKey # NoKey
        /\ SetVerifier(BootKey)
        /\ Install(BootKey)
        /\ initialized' = TRUE
        /\ UNCHANGED faults
     \/ /\ faults < MaxFaults
        /\ faults' = faults + 1
        /\ Install(NoKey)
        /\ initialized' \in {FALSE, verifier # NoKey}
        /\ UNCHANGED <<verifier, everVerifier>>
  /\ UNCHANGED row

RequestStep(a) ==
  \/ InitializeRead(a) \/ InitializeInstall(a) \/ InitializePersist(a)
  \/ MarkInitialized(a)
  \/ UnlockRead(a) \/ UnlockInstall(a)
  \/ RotateRead(a) \/ RotateLoad(a) \/ RotateInstall(a) \/ RotatePersist(a)
  \/ \E r \in Repos : Seal(a, r) \/ Write(a, r)

Request(a) ==
  \/ \E k \in Keys : InitializeRequest(a, k) \/ UnlockRequest(a, k)
  \/ \E old, new \in Keys : RotateRequest(a, old, new)
  \/ \E r \in Repos, has \in SUBSET Secret, create \in BOOLEAN :
        WriteRequest(a, r, has, create)
  \/ LockServerKey(a) \/ GetKeyStatus(a)
  \/ \E r \in Repos : DeleteRepository(a, r)

Next == (\E a \in Admins : Request(a) \/ RequestStep(a)) \/ Restart

Spec == Init /\ [][Next]_vars

FairSpec == Spec /\ \A a \in Admins : WF_vars(RequestStep(a))

------------------------------------------------------------------------------
Quiet == \A a \in Admins : At(a, "idle")

\* With no request in flight, the key in memory is the one the stored
\* verifier was sealed under: otherwise a restart asks for a key that does
\* not open what was sealed since.
KeyMatchesVerifier == Quiet /\ active # NoKey => active = verifier

\* With no request in flight, every default-upstream credential opens under
\* the key that unlocks the server, as long as no rotation was cut short by a
\* crash.
CredentialsReadable ==
  Quiet /\ crashes = 0 => \A r \in Repos : "auth" \in row[r].has => row[r].key = verifier

\* The same for every sealed secret of every repository.
SecretsReadable ==
  Quiet => \A r \in Repos : row[r].has # {} => row[r].key = verifier

\* Nothing is ever sealed under a key that was never written as a verifier:
\* an operator who keeps the old passphrases can open every row, also after
\* a restart in the middle of a rotation.
SealedUnderKnownKey ==
  \A r \in Repos : row[r].has # {} => row[r].key \in everVerifier

\* A secret is stored only sealed, also when a lock races the write:
\* sealRepoSecrets refuses it while no key is live.
StoredSealed == \A r \in Repos : row[r].has # {} => row[r].key # NoKey

\* The lockgate is engaged only when there is a verifier to unlock against:
\* an initialised server without one refuses every request and no key opens
\* it.
InitializedSound == initialized => verifier # NoKey

\* A rotation that swapped the live key finishes, unless the process crashes,
\* with the verifier under the new key and every credential too, except those
\* an earlier crash had left behind.
RotationCompletes ==
  \A a \in Admins, k \in Keys, c \in 0..MaxCrashes :
     (At(a, "rotate_persist") /\ job[a].key = k /\ crashes = c)
       ~> \/ crashes > c
          \/ /\ Quiet /\ verifier = k
             /\ \A r \in Repos :
                  "auth" \in row[r].has => row[r].key = k \/ crashes > 0

=============================================================================
