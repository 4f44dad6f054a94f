---------------------------- MODULE PackageStore ----------------------------
(* A hosted (local) repository of a package format: the programs of the    *)
(* format modules carried out by concurrent requests on one tree of files. *)
(* A request is a client's or a page's call; its program's steps interleave*)
(* with those of other requests wherever no mutex keeps them apart.        *)
EXTENDS Integers, FiniteSetsExt, PackageFormats

CONSTANTS
  Names,       \* the formats of this instance
  Versions,    \* the versions of one package, 1..n; a larger one is newer
  MaxRequests, \* the requests of a behaviour
  MaxFaults,   \* the failing operations and crashes of a behaviour
  MaxReloads   \* the reloads of the routing table, where requests overlap

ASSUME PackageStoreAssumption ==
  /\ Versions \subseteq Nat \ {0} /\ 1 \in Versions
  /\ \E v \in Versions : \A u \in Versions : u <= v
  /\ MaxRequests \in Nat \ {0, 1} /\ MaxFaults \in Nat
  /\ MaxReloads \in Nat

ASSUME NamesAssumption == Names \subseteq DOMAIN Formats

Requests == 1..MaxRequests

VARIABLES
  name,      \* the format of the repository
  immutable, \* its policy has immutable_versions
  shared,    \* requests may overlap
  tree,      \* the slots: for each version its file or entry
  request,   \* the requests
  object,    \* the registry object the routing table has
  mutex,     \* the holder of each object's mutex, and of the repository's (0)
  faults,    \* the faults so far
  torn,      \* history: the slots of which a write in place was cut off
  misled,    \* history: the requests that took a failed check for "not there"
  misread    \* history: the requests that took less than a document has for
             \* all of it

vars == <<name, immutable, shared, tree, request, object, mutex, faults, torn, misled, misread>>

\* A check is about the request's input alone: it is a step of its own only
\* where requests do not overlap.
Skipped(step) == shared /\ step.do = "check"

\* The content of a file or an entry is the request it comes from.
Absent == [by |-> 0, yanked |-> FALSE]
Entry(i) == [by |-> i, yanked |-> FALSE]
Nothing == [v \in Versions |-> Absent]

Idle ==
  [op |-> "none", program |-> <<>>, v |-> 0, pc |-> 0, kept |-> Nothing, left |-> {},
   object |-> 0, end |-> "idle"]

Present(s, v) == tree[s][v] # Absent
Running(i) == request[i].pc > 0
Quiet == \A i \in Requests : ~Running(i)
Begun == {i \in Requests : request[i].op # "none"}
Program(i) == request[i].program
At(i) == Program(i)[request[i].pc]
Version(i) == request[i].v

Init ==
  /\ name \in Names
  /\ immutable \in BOOLEAN
  /\ shared \in BOOLEAN
  /\ immutable /\ shared => name \in GuardedWithin
  /\ tree = [s \in Slots[name] |-> Nothing]
  /\ request = [i \in Requests |-> Idle]
  /\ object = 1
  /\ mutex = [l \in 0..MaxReloads + 1 |-> 0]
  /\ faults = 0
  /\ torn = {} /\ misled = {} /\ misread = {}

(***************************************************************************)
(* The requests: the first is a publication of version 1, alone; where     *)
(* requests overlap the others do, two at a time.                          *)
(***************************************************************************)
MayBegin(i) ==
  /\ request[i].op = "none"
  /\ \A j \in 1..i - 1 : request[j].op # "none"
  /\ IF shared /\ i > 2 THEN Cardinality({j \in Requests : Running(j)}) < 2 ELSE Quiet
Begin(i, op, program, v) ==
  /\ i = 1 => op = "publish" /\ v = 1
  /\ request' = [request EXCEPT ![i] =
                   [Idle EXCEPT !.op = op, !.program = program, !.v = v, !.object = object,
                     !.pc = Min({n \in DOMAIN program :
                                   ~Skipped(program[n])})]]
  /\ UNCHANGED <<name, immutable, shared, tree, object, mutex, faults, torn, misled, misread>>

\* The request goes on, ends with an answer, or returns early: then only the
\* deferred steps are left.
Returning(i) == request[i].end # "idle"
Later(i, deferred) ==
  {n \in request[i].pc + 1..Len(Program(i)) :
     /\ deferred => Program(i)[n].always
     /\ ~Skipped(Program(i)[n])}
Resume(i, end, kept) ==
  LET deferred == end # "idle"
      rest == Later(i, deferred)
  IN request' = [request EXCEPT ![i] =
       IF rest # {}
         THEN [@ EXCEPT !.pc = Min(rest), !.kept = kept, !.left = {}, !.end = end]
         ELSE [@ EXCEPT !.pc = 0, !.kept = Nothing, !.left = {},
                        !.end = IF deferred THEN end ELSE "ok"]]
Proceed(i) == Resume(i, request[i].end, request[i].kept)
ProceedWith(i, kept) == Resume(i, request[i].end, kept)
Return(i, end) == Resume(i, IF Returning(i) THEN request[i].end ELSE end, request[i].kept)

Takes(i, kinds) == Running(i) /\ At(i).do \in kinds
Rest == <<name, immutable, shared, object, torn, misled, misread>>

\* The steps that ask: a refusal ends the request.
Ask(i) ==
  /\ Takes(i, {"check", "guard", "refuse", "need", "read", "lack", "sole", "several", "unless",
               "known", "last"})
  /\ LET step == At(i)
         v == Version(i)
         others == \E u \in Versions \ {v} : request[i].kept[u] # Absent
     IN \/ /\ CASE step.do = "check" -> TRUE
                [] step.do = "guard" -> ~(immutable /\ Present(step.at, v))
                [] step.do = "need" -> \E s \in step.by : Present(s, v)
                [] step.do = "read" -> request[i].kept[v] # Absent
                [] step.do = "sole" -> ~others
                [] step.do = "several" -> others
                [] step.do \in {"refuse", "lack", "unless"} -> ~Present(step.at, v)
                [] step.do \in {"known", "last"} -> \A u \in Versions : ~Present(step.at, u)
           /\ Proceed(i)
        \/ step.do = "check" /\ Return(i, "refused")
        \/ step.do = "guard" /\ immutable /\ Present(step.at, v) /\ Return(i, "exists")
        \/ step.do = "refuse" /\ Present(step.at, v) /\ Return(i, "exists")
        \/ step.do = "need" /\ (\A s \in step.by : ~Present(s, v)) /\ Return(i, "refused")
        \/ step.do = "read" /\ request[i].kept[v] = Absent /\ Return(i, "refused")
        \/ step.do = "lack" /\ Present(step.at, v) /\ Return(i, "refused")
        \/ step.do = "sole" /\ others /\ Return(i, "refused")
        \/ step.do = "several" /\ ~others /\ Return(i, "refused")
        \/ step.do = "unless" /\ Present(step.at, v) /\ Return(i, "ok")
        \/ /\ step.do \in {"known", "last"}
           /\ \E u \in Versions : Present(step.at, u)
           /\ Return(i, "ok")
  /\ UNCHANGED <<tree, mutex, faults>> /\ UNCHANGED Rest

\* The steps that read into the request's own memory.
Gathered(i) ==
  LET step == At(i)
      kept == request[i].kept
  IN [v \in Versions |->
        IF step.do = "load" \/ kept[v] = Absent THEN tree[step.at][v] ELSE kept[v]]
Gather(i) ==
  /\ Takes(i, {"load", "fold"})
  /\ ProceedWith(i, Gathered(i))
  /\ UNCHANGED <<tree, mutex, faults>> /\ UNCHANGED Rest

\* What a step leaves of its slot.
Newer(doc, v) == \E u \in Versions : u > v /\ doc[u] # Absent
Marked(entry, flag) == IF entry = Absent THEN Absent ELSE [entry EXCEPT !.yanked = flag]

Written(i) ==
  LET step == At(i)
      slot == tree[step.at]
      kept == request[i].kept
      v == Version(i)
  IN CASE step.do \in {"write", "stream"} -> [slot EXCEPT ![v] = Entry(i)]
       [] step.do = "erase" -> [slot EXCEPT ![v] = Absent]
       [] step.do = "enter" -> [u \in Versions |-> Entry(i)]
       [] step.do = "put" -> [kept EXCEPT ![v] = Entry(i)]
       [] step.do = "cut" -> [kept EXCEPT ![v] = Absent]
       [] step.do = "yank" -> [kept EXCEPT ![v] = Marked(@, TRUE)]
       [] step.do = "unyank" -> [kept EXCEPT ![v] = Marked(@, FALSE)]
       [] step.do = "copy" -> kept
       [] step.do = "newest" -> [u \in Versions |-> IF Newer(kept, u) THEN Absent ELSE kept[u]]
       [] step.do = "mark" -> [slot EXCEPT ![v] = Marked(kept[v], TRUE)]
       [] step.do = "unmark" -> [slot EXCEPT ![v] = Marked(kept[v], FALSE)]
       [] step.do = "heal" ->
            [u \in Versions |->
               IF kept = Nothing \/ (kept[u] # Absent /\ slot[u] # Absent) THEN slot[u]
               ELSE IF kept[u] # Absent THEN tree[step.by][u] ELSE Absent]

Change(i) ==
  /\ Takes(i, Changes)
  /\ tree' = [tree EXCEPT ![At(i).at] = Written(i)]
  /\ Proceed(i)
  /\ UNCHANGED <<mutex, faults>> /\ UNCHANGED Rest

\* A file found without its metadata gets it.
Scanned(i) ==
  LET files == tree[At(i).at]
      metas == tree[At(i).by]
  IN [v \in Versions |->
        IF files[v] = Absent THEN Absent
        ELSE IF metas[v] = Absent THEN files[v] ELSE metas[v]]
Remake(i, found) ==
  tree' = [tree EXCEPT ![At(i).by] =
             [v \in Versions |-> IF found[v] = Absent THEN @[v] ELSE found[v]]]
Repair(i) ==
  /\ Takes(i, {"scan"})
  /\ ProceedWith(i, Scanned(i))
  /\ Remake(i, Scanned(i))
  /\ UNCHANGED <<mutex, faults>> /\ UNCHANGED Rest

\* The files of a tree are deleted one by one.
Scope(i) == IF At(i).at = "version" THEN {Version(i)} ELSE Versions
Doomed(i) ==
  {s \in At(i).by \ request[i].left : \E v \in Scope(i) : Present(s, v)}
DeleteNext(i) ==
  /\ Takes(i, {"tree"})
  /\ \E s \in Doomed(i) :
       tree' = [tree EXCEPT ![s] = [v \in Versions |-> IF v \in Scope(i) THEN Absent ELSE @[v]]]
  /\ UNCHANGED <<request, mutex, faults>> /\ UNCHANGED Rest
DeleteEnd(i) ==
  /\ Takes(i, {"tree"})
  /\ Doomed(i) = {}
  /\ IF request[i].left = {} \/ At(i).try THEN Proceed(i) ELSE Return(i, "failed")
  /\ UNCHANGED <<tree, mutex, faults>> /\ UNCHANGED Rest

(***************************************************************************)
(* Mutexes.                                                                *)
(***************************************************************************)
Mutex(i) == IF At(i).at = "object" THEN request[i].object ELSE 0
Acquire(i) ==
  /\ Takes(i, {"lock"})
  /\ mutex[Mutex(i)] = 0
  /\ mutex' = [mutex EXCEPT ![Mutex(i)] = i]
  /\ Proceed(i)
  /\ UNCHANGED <<tree, faults>> /\ UNCHANGED Rest
Release(i) ==
  /\ Takes(i, {"unlock"})
  /\ mutex' = [mutex EXCEPT ![Mutex(i)] = IF @ = i THEN 0 ELSE @]
  /\ Proceed(i)
  /\ UNCHANGED <<tree, faults>> /\ UNCHANGED Rest

(***************************************************************************)
(* Faults: an operation of the file system fails, the process crashes; and *)
(* the routing table is reloaded with a new object for the repository. All *)
(* of them happen before the last request begins, which meets what is left.*)
(* A failed write leaves the slot as it was (it was put in place at once,  *)
(* or never began), or, written in place, cuts it off.                     *)
(***************************************************************************)
MayFail ==
  /\ faults < MaxFaults
  /\ Cardinality(Begun) < MaxRequests
FailChange(i) ==
  /\ Takes(i, Changes)
  /\ MayFail
  /\ faults' = faults + 1
  /\ tree' = IF At(i).do = "stream"
                THEN [tree EXCEPT ![At(i).at] = [@ EXCEPT ![Version(i)] = Absent]]
                ELSE tree
  /\ IF At(i).try THEN Proceed(i) ELSE Return(i, "failed")
  /\ UNCHANGED mutex /\ UNCHANGED Rest

\* What is left of a document that was cut off, or seen of one that is read in part.
Filled(doc) == {v \in Versions : doc[v] # Absent}
Parts(doc) ==
  {[v \in Versions |-> IF v \in seen THEN doc[v] ELSE Absent] :
     seen \in SUBSET Filled(doc) \ {Filled(doc)}}

\* The file of a version that was cut off is there; a document has lost entries.
OwnFile == {"write", "stream", "enter", "mark", "unmark"}
Tear(i) ==
  /\ Takes(i, Changes \ {"erase"})
  /\ torn' = torn \cup {At(i).at}
  /\ \E left \in IF At(i).do \in OwnFile \/ Written(i) = Nothing
                    THEN {Written(i)} ELSE Parts(Written(i)) :
       tree' = [tree EXCEPT ![At(i).at] = left]
CutOff(i) ==
  /\ MayFail
  /\ faults' = faults + 1
  /\ Tear(i)
  /\ IF At(i).try THEN Proceed(i) ELSE Return(i, "failed")
  /\ UNCHANGED <<name, immutable, shared, object, mutex, misled, misread>>

\* A read fails, or what it reads was cut off: the request fails, or goes on as if
\* the file, or the entries it could not read, were not there.
ReadSteps == {"guard", "refuse", "need", "lack", "unless", "known", "last", "load", "fold", "scan"}
Unreadable(i) ==
  /\ Takes(i, ReadSteps)
  /\ \/ MayFail /\ faults' = faults + 1
     \/ SlotsOf(At(i)) \cap torn # {} /\ UNCHANGED faults
FailRead(i) ==
  /\ Unreadable(i)
  /\ Return(i, "failed")
  /\ UNCHANGED <<tree, mutex>> /\ UNCHANGED Rest
Mislead(i) ==
  /\ Unreadable(i)
  /\ ~Takes(i, {"load", "fold", "scan"})
  /\ IF At(i).do = "need" THEN Return(i, "refused") ELSE Proceed(i)
  /\ misled' = misled \cup {i}
  /\ UNCHANGED <<name, immutable, shared, object, tree, mutex, torn, misread>>
Misread(i) ==
  /\ Unreadable(i)
  /\ \/ /\ Takes(i, {"load", "fold"})
        /\ \E kept \in Parts(Gathered(i)) : ProceedWith(i, kept)
        /\ UNCHANGED tree
     \/ /\ Takes(i, {"scan"})
        /\ \E found \in Parts(Scanned(i)) :
             ProceedWith(i, found) /\ Remake(i, found)
  /\ misread' = misread \cup {i}
  /\ UNCHANGED <<name, immutable, shared, object, mutex, torn, misled>>

FailDelete(i) ==
  /\ Takes(i, {"tree"})
  /\ MayFail
  /\ \E s \in Doomed(i) : request' = [request EXCEPT ![i].left = @ \cup {s}]
  /\ faults' = faults + 1
  /\ UNCHANGED <<tree, mutex>> /\ UNCHANGED Rest
CutShort(r) == [r EXCEPT !.pc = 0, !.kept = Nothing, !.left = {}, !.end = "failed"]
LeftByCrash == UNCHANGED <<tree, torn>> \/ \E i \in Requests : Tear(i)
Crash ==
  /\ ~Quiet
  /\ MayFail
  /\ faults' = faults + 1
  /\ request' = [i \in Requests |-> IF Running(i) THEN CutShort(request[i]) ELSE request[i]]
  /\ mutex' = [l \in DOMAIN mutex |-> 0]
  /\ LeftByCrash
  /\ UNCHANGED <<name, immutable, shared, object, misled, misread>>
Reload ==
  /\ shared
  /\ Running(MaxRequests - 1)
  /\ Cardinality(Begun) < MaxRequests
  /\ object <= MaxReloads
  /\ object' = object + 1
  /\ UNCHANGED <<name, immutable, shared, tree, request, mutex, faults, torn, misled, misread>>

Done == Quiet /\ Cardinality(Begun) = MaxRequests /\ UNCHANGED vars

Advance(i) ==
  \/ Ask(i) \/ Gather(i) \/ Change(i) \/ Repair(i) \/ DeleteNext(i) \/ DeleteEnd(i)
  \/ Acquire(i) \/ Release(i)

Next ==
  \/ \E i \in Requests :
       /\ MayBegin(i)
       /\ \E op \in Operations, v \in Versions :
            \E program \in Programs(name, op) : Begin(i, op, program, v)
  \/ \E i \in Requests : Advance(i) \/ FailChange(i) \/ FailDelete(i) \/ FailRead(i)
  \/ \E i \in Requests : CutOff(i) \/ Mislead(i) \/ Misread(i)
  \/ Crash \/ Reload \/ Done

Spec == Init /\ [][Next]_vars

(***************************************************************************)
(* Properties.                                                             *)
(***************************************************************************)
File == Formats[name].file
Listings == Formats[name].client
Acked(i, ops) == request[i].op \in ops /\ ~Running(i) /\ request[i].end = "ok"

\* A listing is a document, or put together from files at every request.
Listed(s, v) ==
  IF "found" \in DOMAIN Formats[name] THEN \E t \in Formats[name].found : Present(t, v)
                                     ELSE Present(s, v)
Sweeps(i) ==
  \E n \in DOMAIN Program(i) :
    /\ Program(i)[n].do = "tree" /\ Program(i)[n].at = "package" /\ File \in Program(i)[n].by
Removed(v) ==
  \E i \in Begun : (request[i].op \in Removals /\ Version(i) = v) \/ Sweeps(i)
Superseded(s, v) == Field(name, "newest", FALSE) /\ \E u \in Versions : u > v /\ Present(s, u)

\* Where the guarantees stop: formats whose mutex is not the registry object's,
\* so that a reload keeps it.
OneMutex == object = 1 \/ name \in RepositoryMutex

Stands(v) ==
  Present(File, v) /\ \A s \in Listings : Listed(s, v) \/ Superseded(s, v)

\* Requests that overlap leave the checksum that is listed that of the file, where one
\* mutex covers the writes of both.
PairedListing ==
  faults = 0 /\ name \in WrittenTogether /\ OneMutex /\ Quiet =>
    \A v \in Versions, s \in Listings :
      Present(s, v) /\ Present(File, v) => tree[s][v].by = tree[File][v].by

\* Requests one at a time, without a fault, leave every listing, that of the
\* clients and that of the server's pages, with exactly the versions that have
\* a file, and with the checksum of that file; a tag (npm) names a version that
\* is there, and a package with versions has its own entry (bower). (Not p2,
\* whose files clients delete one by one, and not what a maven client says in
\* metadata of its own.) Requests that overlap leave the checksum (PairedListing).
QuietListing ==
  /\ /\ ~shared /\ faults = 0 /\ name # "p2" /\ Quiet
     /\ \A i \in Begun :
          /\ ~(name = "maven" /\ request[i].op = "tag")
          /\ ~(name \in SeveralUploads /\ request[i].end = "refused")
     => \A v \in Versions :
          /\ \A s \in Listings : Listed(s, v) <=> Present(File, v) /\ ~Superseded(File, v)
          /\ \A s \in Formats[name].admin : Present(s, v) <=> Present(File, v)
          /\ \A s \in Listings \cup Formats[name].admin :
               Present(s, v) => tree[s][v].by = tree[File][v].by
          /\ name = "npm" => (Present("tags", v) => Present("meta", v))
          /\ name = "bower" => (Present("archive", v) => Present("entry", v))
  /\ PairedListing

\* An acknowledged publication is listed and has its file until a removal of
\* the version begins, whatever the requests beside it do and whichever of them
\* fails: an index read before and written after another request's change
\* would lose it. (An index that a failed write in place cut off has lost it, and so
\* has one written by a request that took what it could not read for missing.)
AckedListed ==
  /\ OneMutex
  /\ torn = {} /\ misread = {}
  /\ shared => name \notin Unserialised
  /\ faults > 0 => name \notin Destructive \cup {"maven"}
  /\ Quiet
  => \A i \in Requests :
       Acked(i, Publications) /\ ~Stands(Version(i)) => Removed(Version(i))

\* A listed version has its file, at every moment and after every fault, unless
\* a removal of it began: the file is written before the entry.
ListedResolves ==
  name \notin EntryFirst =>
    \A v \in Versions :
      ~Present(File, v) /\ (\E s \in Listings : Listed(s, v)) => Removed(v)

\* A publication that is refused leaves no trace, also not through an index that
\* another request wrote meanwhile; and it is refused as a duplicate only of a version
\* that is there whole, so that one that failed half-way can be repeated, where the
\* guard asks for what is written last and no write in place was cut off.
RefusalSound ==
  name \notin SeveralUploads =>
  /\ \A i \in Requests :
       request[i].op \in Publications /\ request[i].end \in {"refused", "exists"} =>
         \A s \in DOMAIN tree, v \in Versions : tree[s][v].by # i
  /\ ~shared /\ name \notin GuardedFirst /\ torn = {} /\ Quiet =>
       LET i == Cardinality(Begun)
       IN i > 0 /\ request[i].op \in Publications /\ request[i].end = "exists" =>
            Removed(Version(i)) \/ Stands(Version(i))

\* With immutable versions the file of an acknowledged publication is never
\* replaced, also by requests that overlap where the guard is asked under the
\* mutex of the writes. (The guard takes a file or an entry that cannot be read for
\* none.)
ImmutableKept ==
  /\ immutable /\ OneMutex
  /\ torn = {} /\ misled = {} /\ misread = {}
  /\ name \notin Unguarded
  => \A i \in Requests :
       Acked(i, Publications) /\ tree[File][Version(i)].by # i => Removed(Version(i))

\* An acknowledged yank, and an acknowledged lock of a file (gitlfs), hold until
\* a request of the same version undoes them, unless their document was cut off
\* or read in part.
MarksKept ==
  OneMutex /\ torn = {} /\ misread = {} /\ Quiet =>
  \A i \in Requests :
    /\ Acked(i, {"yank", "hold"})
    /\ \A j \in Begun \ {i} : Version(j) = Version(i) => j = 1
    => /\ request[i].op = "yank" =>
            \A s \in Listings : Present(s, Version(i)) => tree[s][Version(i)].yanked
       /\ request[i].op = "hold" => Present("locks", Version(i))

\* An acknowledged change of a version leaves the indexes that are made from the
\* files in step with all of them: it also repairs what an earlier request that
\* failed, or a crash, left behind, also of indexes that were cut off, if it could
\* read all the files itself.
IndexRepaired ==
  ~shared /\ name \in DOMAIN MadeFrom /\ Quiet =>
  LET i == Cardinality(Begun)
  IN i > 0 /\ i \notin misread /\ Acked(i, Publications \cup Removals) =>
       \A s \in Listings, v \in Versions : Present(s, v) <=> Present(MadeFrom[name], v)
=============================================================================
