---------------------------- MODULE PackageRules ----------------------------
(* The orders the programs of the package formats keep to, as far as the   *)
(* safety of a store depends on them: no request and no tree, only the     *)
(* order of the steps of each handler.                                     *)
EXTENDS Integers, PackageFormats

\* The file before the entry. What a program adds to what versions are listed
\* from, or to what programs read, follows the write of the file or the finding
\* of an entry, and the file goes only with a removal of its version or of the
\* package.
ListedFrom(n) == IF "found" \in DOMAIN Formats[n] THEN Formats[n].found ELSE Formats[n].client
Reads(step, s) ==
  \/ step.do \in {"load", "fold", "scan"} /\ step.at = s
  \/ step.do \in {"scan", "heal"} /\ step.by = s
Backed(n) ==
  ListedFrom(n) \cup
    {s \in Slots[n] : \E op \in Operations : \E p \in Programs(n, op) : \E k \in DOMAIN p :
       Reads(p[k], s)}
SweepsAll(n, p) ==
  \E k \in DOMAIN p : p[k].do = "tree" /\ p[k].at = "package" /\ Formats[n].file \in p[k].by
Vouches(n, step) ==
  \/ step.do = "write" /\ step.at = Formats[n].file /\ ~step.try
  \/ step.do = "need" /\ step.by \subseteq Backed(n)
FileFirst(n, op, p) ==
  \A k \in DOMAIN p :
    /\ p[k].do \in Changes /\ p[k].at = Formats[n].file =>
         p[k].do = "write" \/ (p[k].do = "erase" /\ op \in Removals)
    /\ p[k].do = "enter" => p[k].at \notin Backed(n)
    /\ p[k].do = "scan" => p[k].by # Formats[n].file
    /\ p[k].do = "tree" /\ Formats[n].file \in p[k].by =>
         SweepsAll(n, p) \/ (op \in Removals /\ p[k].at = "version")
    /\ p[k].do \in {"write", "stream", "put"} /\ p[k].at \in Backed(n) =>
         \/ p[k].at = Formats[n].file \/ SweepsAll(n, p)
         \/ \E m \in 1..(k - 1) : Vouches(n, p[m])

\* The guard before the file. What the guard of immutable versions asks for, and
\* the file, are written by a publication past the guard and by nothing else but
\* removals and changes of an entry's mark, under the mutex where requests
\* overlap; and an index with those entries is written as it was just read.
Guards(n) ==
  {s \in Slots[n] : \E op \in Publications : \E p \in Programs(n, op) : \E k \in DOMAIN p :
     p[k].do \in {"guard", "refuse"} /\ p[k].at = s}
Watched(n) == Guards(n) \cup {Formats[n].file}
Asked(n, p, k) ==
  \E m \in 1..(k - 1) : p[m].do \in {"guard", "refuse"} /\ p[m].at \in Guards(n)
Locked(p, k) ==
  \E m \in 1..(k - 1) : p[m].do = "lock" /\ \A q \in (m + 1)..(k - 1) : p[q].do # "unlock"
Within(n, p, k) == n \in GuardedWithin => Locked(p, k)
Loaded(p, k, s) ==
  \E m \in 1..(k - 1) :
    /\ p[m].do = "load" /\ p[m].at = s
    /\ \A q \in (m + 1)..(k - 1) : p[q].do \notin {"load", "fold", "scan", "lock", "unlock"}
Clears(step, s) == step.do = "tree" /\ s \in step.by
Wrote(p, k, s) ==
  \E m \in 1..(k - 1) :
    /\ p[m].do \in {"write", "put"} /\ p[m].at = s /\ ~p[m].try
    /\ \A q \in (m + 1)..k : q \in DOMAIN p => ~Clears(p[q], s)
GuardedChange(n, op, p, k) ==
  \/ op \in Removals /\ p[k].do = "erase"
  \/ op \in Publications /\ p[k].do = "write" /\ Asked(n, p, k) /\ Within(n, p, k)
  \/ /\ \/ op \in Publications /\ p[k].do = "put" /\ Asked(n, p, k)
        \/ op \in Removals /\ p[k].do = "cut"
        \/ op \in {"yank", "unyank"} /\ p[k].do \in {"yank", "unyank"}
     /\ p[k].at # Formats[n].file /\ Within(n, p, k) /\ Loaded(p, k, p[k].at)
GuardedOnce(n, op, p) ==
  /\ \A k \in DOMAIN p :
       /\ p[k].do \in Changes /\ p[k].at \in Watched(n) => GuardedChange(n, op, p, k)
       /\ (\E s \in Watched(n) : Clears(p[k], s)) =>
            \/ SweepsAll(n, p)
            \/ /\ p[k].at = "version"
               /\ op \in Removals \/ (op \in Publications /\ Asked(n, p, k))
       /\ p[k].do = "scan" => p[k].by \notin Watched(n)
       /\ op \in Publications /\ Asked(n, p, k) => Within(n, p, k)
       /\ op \in Publications /\ p[k].do \in {"unless", "known", "last"} =>
            \A s \in Watched(n) : Wrote(p, k, s)
  /\ op \in Publications => \A s \in Watched(n) : Wrote(p, Len(p) + 1, s)

\* Indexes made anew. From some step on, the read of what a format makes its
\* indexes from, a change of a version only copies what it read, to every index,
\* or reads what it copied; and it ends well nowhere but at its end.
Copied(p, b, k, s) == \E m \in (b + 1)..(k - 1) : p[m].do = "copy" /\ p[m].at = s
RebuildsFrom(n, p, b) ==
  /\ p[b].at = MadeFrom[n]
  /\ p[b].do = "load" \/ (p[b].do = "scan" /\ p[b].by # MadeFrom[n])
  /\ \A k \in (b + 1)..Len(p) :
       \/ p[k].do \in {"lock", "unlock"}
       \/ p[k].do = "copy" /\ p[k].at # MadeFrom[n] /\ ~p[k].try
       \/ p[k].do = "load" /\ Copied(p, b, k, p[k].at)
  /\ \A s \in Formats[n].client : Copied(p, b, Len(p) + 1, s)
Rebuilds(n, p) ==
  /\ MadeFrom[n] \in Slots[n]
  /\ \E b \in DOMAIN p : RebuildsFrom(n, p, b)
  /\ \A k \in DOMAIN p : p[k].do \notin {"unless", "known", "last"}

\* Listings that last. A publication writes the file, every listing and what
\* listings are made from; of these a document is written inside the mutex only, as
\* it was read there, or as what it is made from was: so it has every version that
\* is in it. Nothing but a removal takes a version away. (Not the formats that clear
\* a listing and then write it again.)
Rewritten == {"maven", "module", "p2"}
Adds(step, s) ==
  step.do \in {"write", "stream", "put", "copy", "newest"} /\ step.at = s /\ ~step.try
Shown(n) ==
  {Formats[n].file} \cup
    {s \in ListedFrom(n) : \E op \in Publications : \E p \in Programs(n, op) :
       \E k \in DOMAIN p : Adds(p[k], s)}
Lasting(n) ==
  Shown(n) \cup
    {s \in Slots[n] : \E op \in Publications : \E p \in Programs(n, op) : \E m, k \in DOMAIN p :
       /\ m < k /\ p[m].do \in {"load", "scan"} /\ p[m].at = s
       /\ p[k].do \in {"copy", "newest"} /\ p[k].at \in Shown(n)}
Thin(n) ==
  {s \in Lasting(n) : \E op \in Operations : \E p \in Programs(n, op) : \E k \in DOMAIN p :
     p[k].do = "newest" /\ p[k].at = s}
Documents(n) ==
  {s \in Lasting(n) : \E op \in Operations : \E p \in Programs(n, op) : \E k \in DOMAIN p :
     p[k].do \in {"put", "cut", "yank", "unyank", "copy", "newest"} /\ p[k].at = s}
Gained(p, k, s) == \E m \in 1..(k - 1) : Adds(p[m], s)
Feeds(n, b, s) ==
  /\ b \in Lasting(n) \ Thin(n)
  /\ \A op \in Publications : \A p \in Programs(n, op) : \A k \in 1..(Len(p) + 1) :
       Gained(p, k, s) => Gained(p, k, b)
Fed(n, p, k, s) ==
  \E m \in 1..(k - 1) :
    /\ p[m].do \in {"load", "scan"} /\ Feeds(n, p[m].at, s)
    /\ \A q \in (m + 1)..(k - 1) : p[q].do \notin {"load", "fold", "scan", "lock", "unlock"}
FedOwn(n, p, k) ==
  \E m \in 1..(k - 1) :
    /\ p[m].do \in {"load", "scan"} /\ p[m].at \in Lasting(n) \ Thin(n) /\ Gained(p, m, p[m].at)
    /\ \A q \in (m + 1)..(k - 1) : p[q].do \notin {"load", "fold", "scan"}
ReadOwn(p, k) ==
  \E m \in 1..(k - 1) :
    p[m].do = "read" /\ \A q \in (m + 1)..(k - 1) : p[q].do \notin {"load", "fold", "scan"}
Serial(n, p, k) == n \notin Unserialised => Locked(p, k)
LastingChange(n, op, p, k) ==
  \/ /\ p[k].do \in {"write", "stream"} /\ p[k].at \notin Thin(n)
     /\ p[k].at \in Documents(n) => Serial(n, p, k)
     /\ p[k].do = "stream" => n \in Destructive
  \/ p[k].do = "erase" /\ op \in Removals /\ p[k].at \notin Thin(n)
  \/ p[k].do \in {"mark", "unmark"} /\ p[k].at \notin Thin(n) /\ ReadOwn(p, k)
  \/ /\ Fed(n, p, k, p[k].at) /\ Serial(n, p, k)
     /\ \/ p[k].do = "newest" /\ p[k].at \in Thin(n)
        \/ p[k].do \in {"put", "copy"} /\ p[k].at \notin Thin(n)
        \/ p[k].do = "cut" /\ op \in Removals /\ p[k].at \notin Thin(n)
        \/ p[k].do \in {"yank", "unyank"} /\ op \notin Publications /\ p[k].at \notin Thin(n)
     /\ op \in Publications => p[k].do = "put" \/ FedOwn(n, p, k)
Lasts(n, op, p) ==
  /\ \A k \in DOMAIN p :
       /\ p[k].do \in Changes /\ p[k].at \in Lasting(n) => LastingChange(n, op, p, k)
       /\ (\E s \in Lasting(n) : Clears(p[k], s)) =>
            \/ SweepsAll(n, p)
            \/ /\ p[k].at = "version" /\ op \in Removals
               /\ \A s \in Thin(n) : ~Clears(p[k], s)
       /\ p[k].do = "scan" => p[k].by \notin Lasting(n)
       /\ op \in Publications /\ p[k].do \in {"unless", "known", "last"} =>
            \A s \in Lasting(n) :
              \/ Gained(p, k, s)
              \/ p[k].do = "unless" /\ p[k].at = s /\ s \notin Documents(n)
  /\ op \in Publications => \A s \in Lasting(n) : Gained(p, Len(p) + 1, s)
ListsAll(n) ==
  /\ Lasting(n) \subseteq Slots[n]
  /\ Thin(n) # {} => Field(n, "newest", FALSE)
  /\ IF "found" \in DOMAIN Formats[n] THEN Formats[n].found \cap (Lasting(n) \ Thin(n)) # {}
                                     ELSE Formats[n].client \subseteq Lasting(n)
  /\ Formats[n].file \notin Thin(n)

\* Refusals before entries. A publication that may be refused has not yet written
\* anything of its own; and the guard asks for what is listed.
Signs == {"write", "stream", "enter", "put"}
Refuses == {"check", "guard", "refuse", "need", "read", "lack", "sole", "several"}
Signed(p, k) == \E m \in 1..(k - 1) : p[m].do \in Signs
RefusesFirst(p) == \A k \in DOMAIN p : p[k].do \in Refuses => ~Signed(p, k)
AsksListed(n) ==
  /\ Formats[n].client # {}
  /\ \A g \in Guards(n) :
       IF "found" \in DOMAIN Formats[n] THEN g \in Formats[n].found
                                       ELSE \A s \in Formats[n].client : g = s

\* Marks inside the mutex. A document with marks is written inside the mutex, as it
\* was read there, or a version of it alone is; and a request that marks a version
\* does so inside the mutex and leaves the document alone after that. (Not the format
\* whose listing is made good from the files when it is read.)
Healed == {"pypi"}
Marking == {"yank", "hold"}
MarkSlots(n, op) == IF op = "hold" THEN {"locks"} ELSE Formats[n].client
MarkedSlots(n) == UNION {MarkSlots(n, op) : op \in {o \in Marking : Programs(n, o) # {}}}
Sets(op, step, s) ==
  step.at = s /\ ~step.try /\ step.do \in IF op = "hold" THEN {"put"} ELSE {"yank", "mark"}
HasSet(op, p, k, s) == \E m \in 1..(k - 1) : Sets(op, p[m], s)
MarksOnce(n, op, p) ==
  /\ \A k \in DOMAIN p :
       /\ p[k].do \in Changes /\ p[k].at \in MarkedSlots(n) =>
            \/ p[k].do \in {"write", "stream", "erase", "mark", "unmark"}
            \/ /\ p[k].do \in {"put", "cut", "yank", "unyank"}
               /\ Locked(p, k) /\ Loaded(p, k, p[k].at)
       /\ \A s \in MarkedSlots(n) : ~Clears(p[k], s)
       /\ p[k].do = "scan" => p[k].by \notin MarkedSlots(n)
       /\ op \in Marking =>
            /\ p[k].do \notin {"unless", "known", "last"}
            /\ \A s \in MarkSlots(n, op) :
                 /\ Sets(op, p[k], s) => Locked(p, k)
                 /\ HasSet(op, p, k, s) /\ p[k].do \in Changes => p[k].at # s
  /\ op \in Marking => \A s \in MarkSlots(n, op) : HasSet(op, p, Len(p) + 1, s)

\* File and entry under one mutex. A program that writes the file writes every document
\* that listings, or other documents, are made from in the same region, each with its
\* own entry or as it read it with its own entry, and ends or leaves the region only
\* when it has written all of them; any other program only takes away, marks, or
\* copies what it read in its region.
Paired(n) ==
  (Formats[n].client \cup
     {s \in Slots[n] : \E op \in Operations : \E p \in Programs(n, op) : \E k \in DOMAIN p :
        p[k].do = "load" /\ p[k].at = s}) \ {Formats[n].file}
Joined(n) == Paired(n) \cup {Formats[n].file}
Opens(n, p) == \E k \in DOMAIN p : p[k].do = "write" /\ p[k].at = Formats[n].file
Began(n, p, k) ==
  Opens(n, p) /\ \E m \in 1..(k - 1) : p[m].do \in Changes /\ p[m].at \in Joined(n)
Enters(step, s) == step.do \in {"write", "put"} /\ step.at = s /\ ~step.try
Rereads(n, p, k) ==
  /\ Opens(n, p)
  /\ \E m \in 1..(k - 1) :
       /\ p[m].do = "load" /\ p[m].at \in Paired(n)
       /\ \E r \in 1..(m - 1) : Enters(p[r], p[m].at)
       /\ \A q \in (m + 1)..(k - 1) : p[q].do \notin {"load", "fold", "scan", "lock", "unlock"}
Stamps(n, p, k, s) ==
  /\ Opens(n, p)
  /\ \/ Enters(p[k], s)
     \/ p[k].do \in {"copy", "newest"} /\ p[k].at = s /\ ~p[k].try /\ Rereads(n, p, k)
Stamped(n, p, k, s) == \E m \in 1..(k - 1) : Stamps(n, p, m, s)
JoinedChange(n, p, k) ==
  \/ p[k].do = "erase" /\ ~Opens(n, p)
  \/ /\ Locked(p, k)
     /\ \/ p[k].do = "write" /\ Stamps(n, p, k, p[k].at)
        \/ /\ p[k].at # Formats[n].file
           /\ \E t \in Paired(n) : Loaded(p, k, t) /\ (p[k].do \in {"copy", "newest"} \/ t = p[k].at)
           /\ \/ p[k].do \in {"put", "copy", "newest"} /\ Stamps(n, p, k, p[k].at)
              \/ p[k].do \in {"cut", "yank", "unyank", "copy", "newest"} /\ ~Opens(n, p)
WritesBoth(n, p) ==
  /\ \A k \in DOMAIN p :
       /\ p[k].do \in Changes /\ p[k].at \in Joined(n) => JoinedChange(n, p, k)
       /\ p[k].do = "scan" => p[k].by \notin Joined(n)
       /\ Began(n, p, k) =>
            /\ p[k].do # "lock"
            /\ p[k].do = "tree" => p[k].try
            /\ p[k].do \in Refuses \cup {"unless", "known", "last", "unlock"} =>
                 \A s \in Joined(n) : Stamped(n, p, k, s)
  /\ Opens(n, p) => \A s \in Joined(n) : Stamped(n, p, Len(p) + 1, s)

\* Every program has a step that is not a check and defers nothing but the
\* release of a mutex; and the formats follow the orders, but for those that
\* say they do not.
Follows(n) ==
  /\ Formats[n].file \in Slots[n] /\ ListedFrom(n) \subseteq Slots[n]
  /\ \A op \in Operations : \A p \in Programs(n, op) :
       /\ Len(p) \in Nat \ {0} /\ DOMAIN p = 1..Len(p)
       /\ \E k \in DOMAIN p : p[k].do # "check"
       /\ \A k \in DOMAIN p :
            /\ p[k].always => p[k].do = "unlock"
            /\ p[k].do = "lock" => p[k].at = IF n \in RepositoryMutex THEN "repository" ELSE "object"
  /\ n \notin EntryFirst /\ ~(ListedFrom(n) \subseteq {Formats[n].file}) =>
       \A op \in Operations : \A p \in Programs(n, op) : FileFirst(n, op, p)
  /\ n \notin Unguarded =>
       \A op \in Operations : \A p \in Programs(n, op) : GuardedOnce(n, op, p)
  /\ n \in DOMAIN MadeFrom =>
       \A op \in Publications \cup Removals : \A p \in Programs(n, op) : Rebuilds(n, p)
  /\ n \notin Healed =>
       /\ MarkedSlots(n) \subseteq Slots[n]
       /\ \A op \in Operations : \A p \in Programs(n, op) : MarksOnce(n, op, p)
  /\ n \notin SeveralUploads =>
       /\ \A op \in Publications : \A p \in Programs(n, op) : RefusesFirst(p)
       /\ n \notin GuardedFirst => AsksListed(n)
  /\ n \notin Rewritten =>
       ListsAll(n) /\ \A op \in Operations : \A p \in Programs(n, op) : Lasts(n, op, p)
  /\ n \in WrittenTogether =>
       /\ "found" \notin DOMAIN Formats[n] /\ Paired(n) \subseteq Slots[n]
       /\ \A op \in Operations : \A p \in Programs(n, op) : WritesBoth(n, p)

ASSUME ProgramsAssumption == \A n \in DOMAIN Formats : Follows(n)
=============================================================================
