# Kutu: a TLA+ verification project

Kutu is an artifact server: one Go process that serves package registries of
29 formats (Docker/OCI, npm, Maven, Go, ...), raw file mounts over several
protocols, an administration API and a web interface. Settings, users and
repository rows live in Postgres; artifacts live on a *raw file system* (local
disk, S3, SFTP, FTP, WebDAV, Vercel Blob).

This directory models the parts of the server where several requests, jobs or
failures meet, checks them with TLC on small instances, and proves the most
important invariants with TLAPS for every instance. Paths below are relative to
`src/internal/` unless they start with `src/`.

## 1. Inventory

| Component | State | Operations | Interacts with | Modelled by |
|---|---|---|---|---|
| At-rest key (`service/keyops.go`, `secret/keymgr`, `server/lockgate`) | live key and `initialized` flag in memory, verifier in the meta table | initialize, unlock, lock, rotate, status, boot | storage layer seals and opens secrets with the live key; the gate closes the API while locked | `KeyServer` |
| Docker/OCI registry (`registry/docker`) | manifests, tags, referrers indexes, blobs | push, tag, delete tag/manifest/blob, mark-and-sweep | blob store; several clients; collection on request | `DockerRegistry` (hosted kind) |
| Blob store (`registry/blobstore`, `upload_sessions.go`, `rawfs/localfs`) | in-memory sessions, files by digest | start, append, commit, cancel, delete | backend writes; reload and restart drop the sessions | `BlobStore`, `ContentStore` |
| Job scheduler (`registry/ops/scheduler.go`) | jobs by key, one goroutine each | Set, Remove, Run, shutdown | routing table sync; replication and prefetch runs | `Scheduler` |
| Routing table (`registry/manager.go`, `server/api/registry.go`, `registry_ops.go`) | rows in the database, live table, jobs | every change of namespaces and repositories, reload, schedule sync | database, scheduler, job runs, clients that disconnect | `RegistryTable` |
| Package registries of 28 formats (`registry/pkgbase`, `registry/<format>`) | a tree of files: packages, metadata, indexes, tags | publish, promote, delete, yank, tag, lock, repair on read | raw file system; the mutex of a registry object, which a reload of the routing table replaces | `PackageSteps`, `SystemFormats`, `LanguageFormats`, `LibraryFormats`, `ToolFormats`, `PackageStore` |
| Proxied repositories (`pkgbase.RemoteRepo`, `registry/upstream`, formats) | cached documents and files with their TTL | read, prefetch, purge | upstream servers | the format modules, `RemoteCache` |
| Virtual repositories (`registry/virtualbase`, formats) | merged documents of apt and rpm in memory | read | their members, through the routing table and the gate | the format modules, `VirtualRepository` |
| Hugging Face repositories (`registry/huggingface`) | commits, branches, contents by digest | upload, remove, delete, promote, collect | clients, promotions from other repositories | `HubRepository` |
| Second factor (`service/totp.go`, `server/authx/mfa_strategy.go`) | row per user, replay map, pending logins | enroll, verify, disable, regenerate, reset | login strategy, clock, restart | `SecondFactor` |
| Users, tokens, sessions, principals (`service/auth.go`, `token.go`, `server/authx`) | rows, sessions, cached passwords, registry tokens | change, disable, delete, log in, resolve | every request of a package client or a page | `Accounts` |
| Virtual hosts, file servers (`server/vhost`, `server/serve`) | settings, running servers, bindings, listeners | save, reconcile, publish bindings | registry listeners, other programs on a port | `FileServers` |
| Replication, export, import, promotion (`registry/ops`) | watermark in the meta table | pull since, import, export, promote | other servers, package trees | promotion in `PackageStore`, `DockerRegistry` and `HubRepository`; the reload in `RegistryTable` |
| Passkeys (`service/passkey.go`) | challenges, credentials | begin/finish | login | the lookup of a login, in `Accounts` |
| Hooks, policy, retention, search, login guard, auth settings, protocol adapters, web interface | - | - | - | not modelled, section 5 |

### What is hard

* **No lock spans a request.** The key manager's mutex covers one pointer swap,
  the routing table's mutex one swap; what a handler read before it is stale
  when it writes. Two administrators, or an administrator and a job, interleave
  at every database call.
* **Files are written in place.** Backends offer no rename or compare-and-swap
  that the registry uses: indexes are read, changed and written back, and a blob
  exists from the moment its file is created.
* **A publication is several writes** of files, of metadata and of an index,
  each of which may fail, with a mutex in some formats, around some of them.
* **Rows are written back whole.** A login, an update and a reset read a row,
  change a field and write all of it.
* **Collection runs beside pushes** and relies on the age of files, not on a
  lock.
* **Crashes** fall between the verifier and the rows of a rotation, and drop
  in-memory upload tables.
* **Contexts end early.** A reload runs under the context of the request or job
  that asked for it, and a failed read is taken for an empty tree.

`PROJECT.json` lists every hazard at its line with the properties that cover it.

## 2. Modules

One module per component; `MC*` modules add model values and symmetry for TLC;
`*Proofs` modules hold the theorems. In every component module an operator whose
comment starts with `Faulty:` is not part of the specification: it is a variant
of the definition after it with a plausible mistake, used to show that a property
can fail.

### KeyServer

A request is a record with a program counter; every step is one database call or
one call of the key manager. `Initialize*`, `Unlock*`, `Rotate*` follow the
functions of `service/keyops.go` from guard to answer, `WriteRequest`/`Seal`/
`Write` are the create and update of a repository (the row is sealed with the key
that is live at that moment, then written), `Restart` is a crash and the
bootstrap of `src/cmd/kutu/main.go`, with or without a configured password. A
key stands for a passphrase and all that is derived from it. A row has two kinds
of secrets: the credential of its default upstream (`"auth"`) and the rest
(`"other"`): the rotation tells exactly these two apart. A failing database call
is one that was not applied and is answered with the error.

### DockerRegistry

Manifests, blobs, tags and referrers indexes of one hosted repository. Each
blob and manifest is absent, young or old: *young* is within the grace period of
the collection. A push collects what its image refers to (upload, or find it with
HEAD), then writes the manifests bottom-up; each manifest is checked against
immutable tags, written, tagged and, if it has a subject, added to the subject's
index in a read and a write. Deletes cascade as `deleteManifestDigest` does. The
collection marks tag by tag, then the indexes, takes its clock, and examines and
sweeps blob by blob, then manifest by manifest. Three switches bound what may
happen and are named in the cfg: `Overlap` (operations interleave), `Fresh` (a
push never relies on something older than the grace period), `Reuse` (what HEAD
may be asked for). `Promotes` adds promotion: the destination's program of
`extensions.go`, which checks the immutable tag, copies what the source has and
the destination lacks, manifests bottom-up with their referrers, and sets the tag.
The source is whole and does not change; in which order siblings are copied is
left open; the fallback tags of cosign signatures are left out. Time is abstracted to one assumption: the grace period
(3600 s by default) is longer than a push and than a mark.

### ContentStore and BlobStore

`ContentStore` is the promise of `registry/blobstore/blobstore.go`: a digest maps
to its content or to nothing. `BlobStore` is `RawFSBlobStore` (the one that is
wired) under the Docker upload handlers: the handler's table of uploads, the
store's table of sessions, the session's mutex, the buffer with its limit
(`MaxLen`), the digest check at commit, and the write to the backend chunk by
chunk. `AtomicWrite` chooses a backend that replaces files as a whole (object
stores) or one that truncates and writes in place (`localfs.go`). `Implements` is
refinement: `Abstract == INSTANCE ContentStore WITH store <- file`.

### Scheduler

The table of jobs, the goroutine of each (`new`, `idle`, `wait`, `run`, `gone`),
the contexts and the phases of `Run`. A job stands for the struct one call of
`Set` allocates, so the number of jobs bounds the calls of `Set`.

### RegistryTable

Namespaces and rows in the database, `Manager.current`, the jobs, and requests
and job runs in flight. A mutation is stored and then reloads, in the request:
two queries, the build and swap of the table, the list of the table, one `Set`
per scheduled row, the list of the keys, one `Remove` per unwanted key. A version
stands for all a row configures; `Broken` versions are those no factory builds.
`Disconnect` ends a request's context; a job's context ends when its job is set
again or removed, also by its own reload. The publication of the listener
bindings at the end of a reload changes nothing modelled here.

`solo` is a history variable: nothing else happened since the request started and
nothing failed in it.

### PackageSteps and the format modules

A handler of a package format is a *program*: the sequence of its file operations
and refusals, in the order of the code. `PackageSteps` defines the steps;
`SystemFormats` (generic, apt, rpm, alpine, conda, cran, p2, vagrant, gitlfs,
huggingface, docker), `LanguageFormats` (nuget, pypi, npm, cargo, rubygems,
composer, pub, swift), `LibraryFormats` (conan, cocoapods, bower, maven, goproxy)
and `ToolFormats` (helm, terraform, ansible, chef, puppet) translate the handlers of each format,
function by function: `XPublish`, `XPromote`, `XDelete...` of a hosted repository,
`XReads`, `XPrefetch`, `XPurge` of a proxied one, `XVirtual` of a virtual one.
These modules have no state. A *slot* is one kind of file: one per version, or a
document with an entry per version; the content of a file or an entry is the
request it came from. Names, paths, digests and parsing are abstracted to that.
Emitted events are left out: nothing waits for them.

`PackageFormats` is the table of them all. `PackageRules` says, without any state,
which orders of steps the safety of a store rests on, and assumes that every format
keeps to them (`ProgramsAssumption`): an entry that versions are listed from, or
that other programs read, is written after the file or after an entry was found
(`FileFirst`; not conan, vagrant, goproxy, maven and p2, which write the entry
first); what the guard of immutable versions asks for, and the file, are written by
publications past the guard only, under the mutex where requests overlap
(`GuardedOnce`; not the eight formats in `Unguarded`); and where indexes are made
anew (`MadeFrom`), every publication and removal reads what they are made from and
after that only copies it, to every index (`Rebuilds`); and what is listed is
written by every publication, by nothing but removals taken away, and where it is a
document written inside the mutex as it, or what it is made from, was read there
(`Lasts`; not maven, terraform modules and p2, in `Rewritten`, whose publications clear
a listing and then write it). A publication answers "exists" or "refused" only before its
first write, and says "exists" for what its guard found (`RefusesFirst`), which where
`GuardedFirst` does not say otherwise is what versions are listed from (`AsksListed`). A
document with marks is written version by version, or inside the mutex as it was read
there, and a request that marks has set the mark, inside the mutex, when it ends
(`MarksOnce`; not pypi, in `Healed`, whose listing is made again from the files beside
it). And in the formats of `WrittenTogether` a program that writes the file writes, in the
same region of the mutex and with its own entry, every document that listings are made
from, and ends nowhere in between (`WritesBoth`). TLC evaluates the assumption
over the programs of all 28 formats in `table_reload`, and not in `package_store`,
where a program that breaks a rule is to be caught by what it does to the files.

### PackageStore

Carries out the programs of a hosted repository: concurrent requests on one tree,
with the mutex of the registry object (replaced by a reload) or of the repository.
A write, a delete or the walk of a directory is one step (`BlobStore` models torn
writes); any of them may fail, and the process may stop between two. A step whose
error the code drops goes on; a deferred unlock is taken on every path. A
promotion is the program of its destination. One package, versions that are
ordered by age.

### RemoteCache

Carries out the reading programs of a proxied repository: a cached document is
fresh, expired or absent, and the upstream changes, withdraws the package, is
unreachable, or breaks off its answer between any two steps; the answer is
obtained and stored in two steps. A revision of the upstream stands for all its
documents.

### VirtualRepository

Carries out the programs of a virtual repository: one request visits the members
in the configured order, one step for each, while keys are published or deleted
and members fail, are refused by the gate or are configured away. `first` answers
with the first member's 2xx, `probe` asks a member first and lets it answer
(`huggingface`, `gitlfs`), `route` goes to the member the path names (`p2`),
`merge` keeps the first entry of a key, `latest` the newest version (`cran`,
`conan`). apt and rpm ask for the heads (`Release`, `repomd.xml`) in a first round
and keep what they merged, for 30 seconds or until a head changes. An empty
listing and a 404 are one answer; the requests for `repomd.xml` and for the files
it names are one request; a member whose body cannot be parsed is one that fails
(conda then fails the whole request).

### HubRepository

Commits, branches and contents of one hosted Hugging Face repository, its mutex,
and the promotion that copies contents before it takes it. `hubCut` and `hubLost`
remember where the code leaves a branch or a content behind.

### SecondFactor

One user's row, the replay map, the step-up sessions and a clock. Each request
reads the row and writes it back as separate steps. The verification of a code and
its burning read the clock as one tick.

### FileServers

The stored settings, the servers the manager runs, the bindings of both owners of
the virtual hosts, the listener of each port. FTP, SFTP and TFTP are servers that
bind their port (`own`), S3 and WebDAV publish bindings (`http`). The check of a
port and the bind that follows in a goroutine are one step. A shutdown is an empty
configuration.

### Accounts

Users, bundles of capabilities, API tokens, sessions, the cache of verified
passwords and the registry tokens issued; changes and logins that read a row and
write it back, beside requests that resolve a principal step by step. `limit`
records the most a request may be given: what its account had at some moment since
it began (a user disabled while the request runs keeps being looked at: the bundles
are read all the same). Users have no second factor here, the operator's allowlist is empty, no
role of an identity provider is mapped, and a cached password is not compared with
the current one (it is accepted until its TTL ends, `principal.go:146`).

### Composition

`RemoteCache`, `PackageStore` and `VirtualRepository` are three engines over the
same format modules: what a format writes, what it caches and what it merges are
stated once. `MCServices` puts the independent services side by side as parts of
one run: it extends `SecondFactor`, `HubRepository`, `FileServers`, `Accounts`,
`RemoteCache` and `VirtualRepository`, whose definitions have names of their own.

## 3. Runs

Passing runs:

| Run | Instance | Properties |
|---|---|---|
| `key_serial` | 1 admin, 3 keys, 2 rows, 1 crash, boot key, fair | `KeyMatchesVerifier`, `SealedUnderKnownKey`, `CredentialsReadable`, `RotationCompletes` |
| `key_shared` | 2 admins, 2 keys, 1 row, 1 crash, 1 failure | `InitializedSound`, `StoredSealed` |
| `docker_fresh` | 2 pushers, index, 2 images sharing a layer, 2 tags, everything interleaved, fresh pushes | `TagClosed`, `TypeOK` |
| `docker_serial` | every operation, promotion too, one at a time; index, image, signature | `TagClosed`, `ReferrersSound`, `GCComplete`, `ImmutableKept` |
| `docker_referrers` | image with two signatures, 1 failure | `ReferrersComplete` |
| `blob_atomic` | 2 sessions, 2 requests, reload, crash, failure, atomic backend | `Implements`, `TablesAgree`, `TypeOK` |
| `blob_plain` | 2 sessions, 2 requests, in-place backend, 1 failing write, fair | `NoForeignChunk`, `QuietWhole`, `RequestsAnswered` |
| `sched_jobs` | 2 keys, 3 jobs, fair | `NoOrphan`, `RegisteredRuns`, `ReturnClean`, `OverlapCancelled`, `JobsRun`, `StopReturns` |
| `table_reload` | 2 repositories, 3 versions (one broken), 1 admin, 1 run, 1 failure, 1 disconnect | `SoloReloadHeals` |
| `package_store` | 28 formats, 2 versions, 3 requests one after the other or 2 at once, 1 fault, 1 reload | `QuietListing`, `AckedListed`, `ListedResolves`, `RefusalSound`, `ImmutableKept`, `MarksKept`, `IndexRepaired` |
| `services` | the parts below | |
| - proxied repository | 29 formats, 2 requests (overlapping for 4 formats of different shape), 2 revisions, 2 events | `ExpiredRefetched`, `CachedAnswered` |
| - virtual repository | 29 formats, 2 members, 2 keys, 2 changes, a second request where something is kept | `EarliestServed` |
| - Hugging Face | 1 branch, 1 path, 2 contents, 2 requests, 2 commits, 1 fault | `HubWhole` |
| - second factor | 2 requests, 2 secrets, 2 logins, 3 ticks, restart | `CodeOnce` |
| - file servers | 2 servers, 2 ports, 2 requests, 3 changes | `InLine` |
| - accounts | 1 user, 1 token, 3 operations, 2 at once, 1 fault | `RevokedRefused` |

The run that refutes what a comment of the code says (the finding in
`PROJECT.json` quotes it): `key_rotate_skips` refutes `SecretsReadable`, a rotation
skips rows without a default upstream credential.

### What the guarantees depend on

Each passing run states its guarantee under constants that name what it needs.
Changing one of them makes TLC find the behaviour below; to repeat it, copy the
cfg, change the constant, drop `SYMMETRY` and check the property named.

| Guarantee | cfg and change | What happens |
|---|---|---|
| `KeyMatchesVerifier` | `key_shared` without crashes and failures | with two administrators an unlock that checked the old verifier installs the old key after a rotation (`service/keyops.go:147`), or the second of two initialisations overwrites the first (`:111`) |
| `TagClosed` | `docker_fresh`, `Fresh = FALSE`, `Reuse = {"blob"}` | an old layer that a push found with HEAD is swept before its manifest arrives (`registry/docker/gc.go:188`) |
| `TagClosed` | `docker_serial`, `MaxFaults = 1` | the mark skips a manifest it cannot read, and what it refers to is swept (`gc.go:179`) |
| `TagClosed` | `docker_serial`, `Reuse = {"blob", "manifest"}` | of an untagged image the layers are swept while the manifest, which came after them, is still young; a push of an index finds the manifest and does not look below it (`local.go:275`) |
| `ReferrersSound` | `docker_serial`, `MaxFaults = 1` | tags that cannot be listed end the mark before it reads the referrers indexes, and the sweep goes on (`gc.go:178`, `:287`) |
| `ReferrersSound` | `docker_serial`, `Overlap = TRUE` | a manifest is pushed while it is deleted, and listed after the deletion has cleaned its index (`local.go:458`) |
| `ImmutableKept` | `docker_fresh` | two first pushes to an immutable tag both find it free (`local.go:327`) |
| `ReferrersComplete` | `docker_referrers`, `Overlap = TRUE`, two pushers | two signatures at once, one is lost from the index (`store.go:440`) |
| `ReferrersComplete` | `docker_referrers`, `Deletes = {"manifest"}` | a deletion takes a manifest out of the index before it removes it (`local.go:458`) |
| `BlobWhole` | `blob_plain` | on the in-place backend a blob is addressable while it is written (`registry/blobstore/rawfsblob.go:328`) |

So `TagClosed` holds for interleaved fresh pushes and for serial ones;
`ReferrersComplete`, `ImmutableKept` and `KeyMatchesVerifier` hold one request at
a time; the blob store is the abstract store on an atomic backend and is not on
the local one, where bytes still never mix; the routing table can be wrong
between changes, and the next undisturbed reload repairs it. `Set` does not wait
for the job it replaces, so two runs under one key do overlap in time
(`registry/ops/scheduler.go:45`); `OverlapCancelled` is what holds instead: at
most one of them has a live context.

### Disagreements

Places where the code, read while it was modelled, does less than a comment, a
document or a neighbouring function suggests. The models keep the code's
behaviour; the properties above say what holds all the same.

Accounts and second factor:

* `service/auth.go:385` says the last superadmin is guarded; the guard
  (`:475-495`) counts first and writes later, so two changes at once both pass.
* `UpdateUser` (`:316-373`) and `rehashIfStale` (`:223-244`) write back the row
  they read, which can undo a disable or a new password in between; so does
  `PatchToken` (`service/token.go:206-230`) with a revocation. The error of the
  deletion of a user's tokens is dropped.
* A login that is under way when its user is disabled still saves its session,
  and `authx/caps.go:132` does not ask whether the user is disabled. A changed
  password is accepted from the credential cache until its TTL
  (`authx/principal.go:146`).
* The first user and the first external login are both count-then-create.
* `service/totp.go`: the row is read and written whole (`:420`, `:430`), the
  replay map does not survive a restart, and the code that confirms an enrolment
  may be used once more to log in (`:262-270`).

Registries:

* `registry/docker/gc.go:320-323` says what signatures need is kept; the sweep
  (`:335`) does not mark the blobs of an untagged signature.
* `_docs/guide/package-registries.md:301` describes `immutable_versions` for all
  publications; promotion does not ask the guard in pypi (`pypi.go:574`), pub
  (`:566`), swift (`:688`), conan (`:904`) and vagrant (`:546`), and helm and
  goproxy ask it nowhere. A guard that finds the first file of a publication that
  failed refuses its retry.
* `goproxy/remote.go:27` promises a TTL for lists; `serveList` (`:262`) never
  fetches an expired list again unless it is empty.
* `rpm/virtual.go:98-175` regenerates a merged document only when a member's
  `repomd.xml` changes: one made while a member's primary file could not be read
  stays until then. apt keeps even an empty result for 30 s. gitlfs and
  huggingface probe a member and then ask it: what it lost in between is not
  found, though a later member has it.
* huggingface: a promotion copies contents before it takes the mutex
  (`local.go:583-601`), so a collection may delete them; a deletion that fails
  half-way leaves a branch without its commit (`:516-541`).
* cocoapods, maven, bower, helm, nuget, p2, goproxy, ansible, chef and puppet
  change an index without a mutex, and a reload of the routing table gives every
  other format a new mutex in the middle of a publication. npm's dist-tags are
  read, changed and written back; cargo asks its guard outside the lock.
* pub stores an archive before it checks it (`pub.go:920`); p2 and terraform
  delete the old version of a promotion first; a broken stream deletes what was
  there in conan and vagrant, and in the remote kinds of conda and cran.
* `FetchCached` answers a broken body with an error although a stale copy exists,
  and of two requests the later writer may store the older answer.
* `pkgbase/guard.go:27`: the quota is asked before, not while, files are written.

Server:

* `server/api/registry.go` reloads under the context of its request: a client
  that disconnects after its write leaves an empty table until the next reload
  (`service/service.go:113`).
* `server/api/serve.go:31-39` loads the settings outside its mutex: one
  reconciliation may apply settings that are old by then, the one that was asked
  for by the later save ends in line (`InLine`). A listener that fails after its
  start leaves its status at running (`server/vhost/vhost.go:325`), and ports of registry
  listeners are not compared with those of the file servers.

### Bounds

Two actors reach every pairwise interleaving, and the behaviours above need no
more. The third key, the second row or the third job make a state in which
something old is left behind reachable (a row two rotations old, a repository
besides the one that changes, a job replaced twice). Failures, crashes, reloads
and disconnects are bounded by named constants (`MaxFaults`, `MaxCrashes`,
`MaxReloads`, `MaxCuts`); one of each per behaviour is enough to fall between
any two steps. Symmetry is used in safety runs only.

`package_store` publishes version 1 alone and then runs two requests, at the same
time where the format lets them meet: the second version is what an index may
lose, and the first what a request may replace. An immutable repository is run
with overlapping requests only for the formats that ask the guard under their
mutex (`GuardedWithin`); the others are run one request at a time, see above. In
`services` two requests, two revisions or contents and two events
(`MaxEvents`, `MaxChanges`, `MaxCommits`, `MaxLogins`) make a copy that is old
when it is used reachable; the third change of settings (`MaxSaves`) and the
third operation on an account (`Operations`) fall between two others. Requests
to a proxied repository overlap for one format of each shape (`Overlapping`: npm
keeps a document with a fallback to the stale copy, apt an index beside its
files, conda streams, ansible checks a file against its record); the other
formats combine the same steps and run one request after the other.

Deadlock is checked except in `sched_jobs`, where the scheduler really stops, and
in `services`, where every part ends once its bounded requests are answered.

### Fairness

* `KeyServer!FairSpec`: weak fairness of each request's next step. A Go handler
  runs to completion and database calls return.
* `BlobStore!FairSpec`: weak fairness of serving a request, including waiting for
  a session's mutex; nothing is assumed of clients.
* `Scheduler!FairSpec`: weak fairness of timers, of runs ending and of `Run`'s
  own steps. A loop's `select` with a cancelled context is strongly fair: after a
  run the next timer is at least a minute away, so the context is what is ready.

## 4. Proofs

All theorems are of the form `Spec => []P` (or refinement), for arbitrary
constants that satisfy the named assumptions of the module. Of those that the
proofs added, `DigestAssumption` says that no digest is of both a blob and a
manifest, `FactorAssumption` that the period of a code is a positive number of
seconds, `HubAssumption` that 0, which marks a free mutex, is no request,
`VirtualAssumption` and `ServeAssumption` that members, keys and servers are
numbered in their order. `RemoteAssumption` and `ProgramsAssumption` are about the
order of the steps in the formats' programs, which TLC evaluates. A theorem with a further hypothesis names it in the
table.

| Theorem | Argument |
|---|---|
| `KeyServerProofs!TypeCorrect` | `TypeOK` is inductive |
| `KeyServerProofs!InitializedSoundAlways` | with `GateInv`: whoever is about to mark has stored a verifier, and a verifier is never removed |
| `KeyServerProofs!KeyMatchesVerifierSerial`, `SealedUnderKnownKeySerial` | one administrator, no failing call; `SerialInv` says per program counter which of the live key, the verifier and the request's keys agree, crashes included |
| `KeyServerProofs!CredentialsReadableSteady` | also no crash; `SteadyInv` adds which rows a rotation has still to rewrite |
| `BlobStoreProofs!TypeCorrect` | `TypeOK` with `RequestInv` |
| `BlobStoreProofs!NoForeignChunkAlways` | `Inv` links each writer to content with its digest and to the lock of its session |
| `KeyServerProofs!StoredSealedAlways` | `SealInv`: what a request is about to write is sealed, although the live key may be gone by then |
| `BlobStoreProofs!TablesAgreeAlways` | `TableInv` adds to `Inv` that a PUT about to forget its upload has had its session closed, and that the id is not given out again before |
| `BlobStoreProofs!QuietWholeAlways` | `WholeInv`: without failures a chunk that a file misses will be written by a request that is filling this file, also when another one truncates it meanwhile |
| `BlobStoreProofs!BlobStoreImplements` | assumes `AtomicWrite`; each step is a `Put`, a `Delete` or a stutter of `ContentStore` |
| `SchedulerProofs!TypeCorrect`, `NoOrphanAlways`, `RegisteredRunsAlways`, `OverlapCancelledAlways`, `ReturnCleanAlways` | `Inv`: started jobs are registered or cancelled, unstarted jobs are registered only before `Run` or after the drain |
| `RegistryTableProofs!TypeCorrect` | `TypeOK` is inductive |
| `RegistryTableProofs!SoloReloadHealsAlways` | `NamespaceKept` (the foreign key) and `SoloInv`: what a reload that is alone knows at each of its steps |
| `DockerRegistryProofs!TypeCorrect` | `TypeOK` with `NamedInv`, the manifest a push or a deletion is about |
| `DockerRegistryProofs!TagClosedFresh` | assumes `FreshOnly`, everything interleaved; `PullInv`: what was stored since a push began is young, and of the image of a tag everything is found live by the mark or is too young for the sweep |
| `DockerRegistryProofs!TagClosedSerial` | assumes no overlap, no failing read and clients that put every manifest (`"manifest" \notin Reuse`); blobs may be reused, everything deleted and promoted. `WholeInv` speaks of `Asked(m)`, what a client that pulls `m` gets to ask for through the manifests that are there: after a deletion of one manifest the rest of its tree is nobody's duty |
| `DockerRegistryProofs!ImmutableKeptSerial` | an action property, assumes no overlap; `ClaimInv`: a push that is about to set an immutable tag still finds it free or its own |
| `DockerRegistryProofs!ReferrersCompleteSerial` | assumes no overlap and no deletion of manifests; `CompleteInv`: a stored manifest is listed, or its push is about to list it in the index as it is now |
| `DockerRegistryProofs!ReferrersSoundSerial` | assumes no overlap and no failing read; `SoundInv`: a deletion takes its manifest out of the index before it removes it, and its cascade, as the sweep, spares what an index lists |
| `DockerRegistryProofs!GCCompleteAlways` | no hypothesis; `CollectInv` with `ThroughLive`, what the tags reach through manifests the mark has found: the sweep removes none of those, so the set stays while other manifests go |
| `ServiceProofs!HubWholeAlways` | `HubInv`: who is at a step under the mutex holds it (`HubMutex`), a commit is not its own parent, and what a request has read or stored at earlier steps is still so (`HubRelies`) |
| `ServiceProofs!CodeOnceAlways` | `FactorInv`: a code that has logged in is burned to the end of its window (`BurnInv`); while no row is written over a newer one, what a request has read is the row (`ReadInv`) and a recovery code used is struck from it (`StruckInv`) |
| `ServiceProofs!InLineAlways` | `ServeInv`: a port is held by the server started there or by the shared listener (`PortInv`); what a pass has done for the servers before the next one (`PassInv`); after one pass of the stored settings only those who claim a port hold it, and a second pass gives it to whoever claims it alone (`AppliedInv`), unless a request that loaded older settings begins to apply them, which ends the count |
| `RepositoryProofs!EarliestServedAlways` | for every program of the format modules; `ServedInv`: which entries of the members visited the answer owes already, per way of walking, and that what is kept for a set of heads is what a walk over these heads makes |
| `ServiceProofs!RevokedRefusedAlways` | `AccountsInv`: what is recorded for a request covers what its credential stands for now (`Covers`) and the row it has read (`Resolved`), and an operation is at a step of its own kind (`Placed`) |
| `RepositoryProofs!CachedAnsweredAlways`, `ExpiredRefetchedAlways` | for every reading program; `RemoteInv`: what a request reads that was cached when it began stays cached (`CoverKept`); of a changing document nothing older than the upstream was when the request began is fresh, or on its way into the cache from another request (`FloorKept`) |
| `PackageStoreProofs!PackageTypeCorrect` | a running request is at a step of its program, one that returned early at a deferred unlock |
| `PackageStoreProofs!ListedResolvesAlways` | `FirstInv`: for every entry in a slot that listings or programs read, in the tree and in the memory of every request, the file is there or a removal began (`BackedSure`, `KeptSure`); and a request past the step that vouches for its version has the file or a removal began (`Vouched`) |
| `PackageStoreProofs!ImmutableKeptAlways` | `AloneInv`: of the requests inside the mutex there is one, or one runs at all, as long as the object has not been replaced. `KeptInv`: an acknowledged publication has its file and what guards ask for, until a removal (`AnnouncedHeld`); a publication past its guard is of a version without such a publication (`AskedFree`); an index read inside the mutex has the entries of all of them (`LoadedAll`); and what a publication wrote is still its own (`WroteOwn`) |
| `PackageStoreProofs!IndexRepairedAlways` | `InOrder`: requests begin in the order of their numbers, and where they come one at a time only the last one runs. `RemadeInv`: from its read on, the memory of the last request, and every index it has copied, has the versions of what indexes are made from (`Remaking`); after an acknowledgement all of them do (`Remade`) |
| `PackageStoreProofs!AckedListedAlways` | for every format outside `Rewritten`, with `AloneInv`. `ListInv`: what a publication has written so far, or all of it once acknowledged, shows its version until a removal (`HasShown`); a document read inside the mutex has the versions of all other publications that have written the one it is for (`KeepsAll`), and a request that read what it wrote, or found its version there, has that version in memory (`KeepsOwn`). A listing of the newest version only may show a newer one instead (`Shows`) |
| `PackageStoreProofs!RefusalSoundAlways` | for every format but vagrant, with `FirstInv` and `InOrder`. `TraceInv`: no file, no entry and no memory of another request has anything from a publication that has not written yet or was refused (`Untraced`, `Free`), so that no index written meanwhile carries it; `ThereInv`: where requests come one at a time, what the last publication was refused for is still there |
| `PackageStoreProofs!MarksKeptAlways` | for every format but pypi, with `AloneInv` and `FirstAlone` (the first publication has ended when another request begins). `MarkInv`: once a request alone with its version (`Lone`) has set its mark (`DidSet`), the document has it, and so has the memory of every other request that read the document inside the mutex (`Bearing`) |
| `PackageStoreProofs!PairedListingAlways` | with `AloneInv`; the part of `QuietListing` about requests that overlap. `PairedInv`: as long as nothing fails every document agrees with the file but for the version of the one request that is writing both (`PairsAgree`), what that request wrote and read back is its own (`StampedMine`, `RereadMine`), and what others read inside the mutex agrees with the files (`ReadAgrees`) |

The hypotheses of the Docker theorems are needed: the table under "What the
guarantees depend on" gives TLC's counterexample without each of them.

The least element of a set of members (`LeastNat`) comes from the well-foundedness
of the natural numbers, not from an induction theorem with an operator parameter.

The invariants are not inductive by themselves: `KeyMatchesVerifier`, for
instance, speaks of moments between requests, so the proof needs what holds
inside one. `NoOrphan` needs `KeyInv`: a job is under at most one key.

The type invariants of the key server, the scheduler and the routing table are
proved and therefore not among the properties of their runs.

The theorems about package stores and remote caches are about the interpreter of
the programs and so about every program that keeps to `ProgramsAssumption` or
`RemoteAssumption`; that the programs of the formats do is a finite fact that TLC
evaluates. A format that were to write an index before the file would make the
assumption false, and its theorem say nothing, before TLC found the listing.

The proofs changed four statements. `RevokedRefused` was not true beyond the three
operations of its run: a user who is disabled while a request runs may be assigned
bundles after that, and the request still reads them; what was recorded for a
request now goes on past the disabling. `ListedResolves` is now the order of file
and entry alone, for any fault; that a listing has the checksum of its file, where
one mutex covers both writes, is a part of `QuietListing` with a name of its own,
`PairedListing`. In `AckedListed` a version is
superseded by a newer one in the same listing, no longer by a newer file: with four
requests TLC finds the earlier form violated for cran, where a removal of the newest
version that fails after its file is gone leaves it the one that is listed. `RefusalSound`
spoke of requests one at a time; that a refused publication leaves no trace is now said
of requests that overlap too, and at every moment.

Only model-checked: of the package store the part of `QuietListing` about requests one
at a time, which compares all slots of a format after whole programs, not one order of
their steps; `AckedListed` for
the three formats in `Rewritten`, `RefusalSound` for vagrant, which writes the entry
before the file, and `MarksKept` for pypi, whose listing is made from files and marks
together; every liveness property (the prover has no fairness reasoning) and the
violation.

## 5. Not modelled, and the plan

Next, in this order:

1. Proofs: the rest of `QuietListing` of the package store, with a rule for what a program leaves
   of each slot; and the formats that the other theorems except.
2. `Replication`: watermark, export since, import; that no file of the source is
   missed for good.
3. `HookDispatcher`: bounded queue, change of hooks, pooled clients, shutdown.
4. The buffer of token uses, the ceremonies of passkeys, S3 multipart uploads,
   retention, the verdict of the policy engine, quotas, coalesced fetches.
5. Compositions: `Scheduler` under `RegistryTable` (a replication that reloads
   keep cancelling), `DockerRegistry` over `ContentStore`.

Left out for good: the web interface, formatting and parsing of package metadata,
cryptography, the wire protocols of the file servers, clients of external
storage services, the login guard (a library's counter) and the auth settings
(wiring without state of their own).
