--------------------------- MODULE HubRepository ---------------------------
(* A hosted huggingface repository: branches name commits, a commit lists  *)
(* its files, and their contents are stored by digest. Uploads, removals   *)
(* and deletions take the repository's mutex, which a reload replaces; a   *)
(* promotion copies contents into the repository before it takes it. Any   *)
(* operation of the storage may fail, and a failing write may leave a      *)
(* truncated file: a backend may write in place.                           *)
EXTENDS Integers, FiniteSets

CONSTANTS
  Branches, Paths, Contents,
  HubRequests, \* the requests that may overlap
  MaxCommits,  \* the commits made here, 1, 2, ..., after which none is begun
  MaxHubFaults, MaxHubReloads,
  SourceBranch, SourceFiles \* the commit the other repository promotes

VARIABLES
  hubCommits,   \* commits/: the commit documents
  hubRefs,      \* refs/: the head of each branch, 0 for none and for one cut short
  hubBlobs,     \* blobs/: the contents stored whole
  hubTorn,      \* blobs/: the contents a write under way or a failed one left truncated
  hubImmutable, \* the repository's immutable_versions
  hubNow,       \* the reloads so far, each with a registry of its own
  hubLock,      \* Local.mu of each: the request that holds it, 0 for none
  hubOps,       \* the requests under way
  hubMade,      \* the commits made here so far
  hubFaults,    \* the operations of the storage that failed so far
  hubCut,       \* history: the commits a failure cut short, or took from under a branch
  hubLost,      \* history: the contents collected although they were in use
  hubOverlap    \* history: requests held the mutexes of two registries at once

hubVars == <<hubCommits, hubRefs, hubBlobs, hubTorn, hubImmutable, hubNow, hubLock, hubOps,
             hubMade, hubFaults, hubCut, hubLost, hubOverlap>>
hubFiles == <<hubCommits, hubRefs, hubBlobs, hubTorn>>
hubHistory == <<hubCut, hubLost>>

File == [path : Paths, content : Contents]
ASSUME HubAssumption ==
  /\ 0 \notin HubRequests /\ MaxCommits \in Nat /\ MaxHubReloads \in Nat
  /\ SourceBranch \in Branches /\ SourceFiles \subseteq File

Promoted == -1 \* the commit another repository promotes
HubIdle == [do |-> "idle"]
TornDoc == [whole |-> FALSE, files |-> {}, parent |-> 0]

HubInit ==
  /\ hubCommits = <<>>
  /\ hubRefs = [b \in Branches |-> 0]
  /\ hubBlobs = {} /\ hubTorn = {}
  /\ hubImmutable \in BOOLEAN
  /\ hubNow = 0
  /\ hubLock = [g \in 0..MaxHubReloads |-> 0]
  /\ hubOps = [r \in HubRequests |-> HubIdle]
  /\ hubMade = 0 /\ hubFaults = 0
  /\ hubCut = {} /\ hubLost = {} /\ hubOverlap = FALSE

\* The commits that can be read.
Readable == {id \in DOMAIN hubCommits : hubCommits[id].whole}
HubTree(id) == IF id \in Readable THEN hubCommits[id].files ELSE {}
Listed(ids) == UNION {{f.content : f \in HubTree(id)} : id \in ids}
HasPath(files, path) == \E f \in files : f.path = path
WithDoc(id, doc) == [i \in DOMAIN hubCommits \cup {id} |-> IF i = id THEN doc ELSE hubCommits[i]]

At(r, do) == hubOps[r].do = do
Goes(r, op) == hubOps' = [hubOps EXCEPT ![r] = op]
Free(g) == hubLock[g] = 0
TakesLock(r, g) ==
  /\ Free(g) /\ hubLock' = [hubLock EXCEPT ![g] = r]
  /\ hubOverlap' = (hubOverlap \/ \E other \in 0..MaxHubReloads : ~Free(other))
SameLock == UNCHANGED <<hubLock, hubOverlap>>
HubDone(r) ==
  /\ Goes(r, HubIdle)
  /\ hubLock' = [g \in 0..MaxHubReloads |-> IF hubLock[g] = r THEN 0 ELSE hubLock[g]]
  /\ UNCHANGED hubOverlap
Fault == hubFaults < MaxHubFaults /\ hubFaults' = hubFaults + 1
NoFault == UNCHANGED hubFaults

HubReload ==
  /\ hubNow < MaxHubReloads /\ hubNow' = hubNow + 1
  /\ UNCHANGED <<hubFiles, hubImmutable, hubLock, hubOps, hubMade, hubFaults, hubHistory, hubOverlap>>

(***************************************************************************)
(* upload and removeFile: the new commit's files are those of the head     *)
(* with one replaced or left out. A head that cannot be read counts as     *)
(* none: an upload then commits its own file alone.                        *)
(***************************************************************************)
HubUpload(r, branch, path, content) ==
  /\ At(r, "idle") /\ Free(hubNow) /\ hubMade < MaxCommits
  /\ \E files \in {HubTree(hubRefs[branch]), {}} :
       /\ IF files = HubTree(hubRefs[branch]) THEN NoFault ELSE Fault
       /\ IF hubImmutable /\ HasPath(files, path)
            THEN SameLock /\ UNCHANGED hubOps
            ELSE /\ TakesLock(r, hubNow)
                 /\ Goes(r, [do |-> "check", branch |-> branch, content |-> content,
                             files |-> {f \in files : f.path # path}
                                         \cup {[path |-> path, content |-> content]}])
  /\ UNCHANGED <<hubFiles, hubImmutable, hubNow, hubMade, hubHistory>>

HubRemoveFile(r, branch, path) ==
  /\ At(r, "idle") /\ hubMade < MaxCommits
  /\ HasPath(HubTree(hubRefs[branch]), path)
  /\ TakesLock(r, hubNow)
  /\ Goes(r, [do |-> "commit", branch |-> branch,
              files |-> {f \in HubTree(hubRefs[branch]) : f.path # path}])
  /\ UNCHANGED <<hubFiles, hubImmutable, hubNow, hubMade, hubFaults, hubHistory>>

\* A content that is there already is not written; one whose check fails is.
HubCheckBlob(r) ==
  /\ At(r, "check")
  /\ LET op == hubOps[r]
     IN \/ /\ op.content \in hubBlobs \cup hubTorn /\ NoFault
           /\ Goes(r, [do |-> "commit", branch |-> op.branch, files |-> op.files])
        \/ /\ IF op.content \in hubBlobs \cup hubTorn THEN Fault ELSE NoFault
           /\ Goes(r, [op EXCEPT !.do = "open"])
  /\ SameLock
  /\ UNCHANGED <<hubFiles, hubImmutable, hubNow, hubMade, hubHistory>>

\* The local backend truncates the file, or makes it, before it copies.
HubOpenBlob(r) ==
  /\ \E do \in {"open", "promote open"} :
       /\ At(r, do)
       /\ Goes(r, [hubOps[r] EXCEPT !.do = IF do = "open" THEN "put" ELSE "promote put"])
  /\ \/ /\ hubBlobs' = hubBlobs \ {hubOps[r].content}
        /\ hubTorn' = hubTorn \cup {hubOps[r].content}
     \/ UNCHANGED <<hubBlobs, hubTorn>>
  /\ SameLock
  /\ UNCHANGED <<hubCommits, hubRefs, hubImmutable, hubNow, hubMade, hubFaults, hubHistory>>

HubPutBlob(r) ==
  /\ LET op == hubOps[r]
     IN \/ /\ At(r, "put")
           /\ Goes(r, [do |-> "commit", branch |-> op.branch, files |-> op.files])
        \/ /\ At(r, "promote put")
           /\ Goes(r, [do |-> "copy", gen |-> op.gen, todo |-> op.todo])
  /\ hubBlobs' = hubBlobs \cup {hubOps[r].content}
  /\ hubTorn' = hubTorn \ {hubOps[r].content}
  /\ hubLost' = hubLost \ {hubOps[r].content}
  /\ SameLock
  /\ UNCHANGED <<hubCommits, hubRefs, hubImmutable, hubNow, hubMade, hubFaults, hubCut>>

\* Store.commit: the commit document, whose parent is the head, then the branch.
HubCommit(r) ==
  /\ At(r, "commit")
  /\ LET op == hubOps[r]
         head == hubRefs[op.branch]
         id == hubMade + 1
     IN /\ \E parent \in {0} \cup ({head} \cap Readable) :
             /\ IF parent = head \/ head \notin Readable THEN NoFault ELSE Fault
             /\ hubCommits' = WithDoc(id, [whole |-> TRUE, files |-> op.files, parent |-> parent])
        /\ Goes(r, [do |-> "ref", branch |-> op.branch, id |-> id])
        /\ hubMade' = id
  /\ SameLock
  /\ UNCHANGED <<hubRefs, hubBlobs, hubTorn, hubImmutable, hubNow, hubHistory>>

HubSetRef(r) ==
  /\ At(r, "ref")
  /\ hubRefs' = [hubRefs EXCEPT ![hubOps[r].branch] = hubOps[r].id]
  /\ HubDone(r)
  /\ UNCHANGED <<hubCommits, hubBlobs, hubTorn, hubImmutable, hubNow, hubMade, hubFaults, hubHistory>>

(***************************************************************************)
(* DeleteVersion: the commit, then every branch it heads, then the         *)
(* contents no commit lists.                                               *)
(***************************************************************************)
HubDelete(r, id) ==
  /\ At(r, "idle")
  /\ id \in Readable
  /\ TakesLock(r, hubNow)
  /\ Goes(r, [do |-> "delete", id |-> id, parent |-> hubCommits[id].parent])
  /\ UNCHANGED <<hubFiles, hubImmutable, hubNow, hubMade, hubFaults, hubHistory>>

\* The branches go to the parent when its document is there. A check of it that
\* fails finds none, and a listing of the branches that fails none of them.
HubDeleteCommit(r) ==
  /\ At(r, "delete")
  /\ LET id == hubOps[r].id
         there == {hubOps[r].parent} \cap (DOMAIN hubCommits \ {id})
         heads == {b \in Branches : hubRefs[b] # 0}
     IN /\ hubCommits' = [i \in DOMAIN hubCommits \ {id} |-> hubCommits[i]]
        /\ \/ /\ \E parent \in there \cup {0} :
                   /\ IF parent = 0 /\ there # {} THEN Fault ELSE NoFault
                   /\ Goes(r, [do |-> "move", id |-> id, parent |-> parent, left |-> heads])
              /\ UNCHANGED hubCut
           \/ /\ Fault /\ hubCut' = hubCut \cup {id}
              /\ Goes(r, [do |-> "move", id |-> id, parent |-> 0, left |-> {}])
  /\ SameLock
  /\ UNCHANGED <<hubRefs, hubBlobs, hubTorn, hubImmutable, hubNow, hubMade, hubLost>>

\* A branch that cannot be read is left as it is.
HubMoveRef(r) ==
  /\ At(r, "move")
  /\ \E b \in hubOps[r].left :
       /\ LET op == hubOps[r]
          IN \/ /\ hubRefs' = IF hubRefs[b] = op.id THEN [hubRefs EXCEPT ![b] = op.parent]
                                                    ELSE hubRefs
                /\ NoFault /\ UNCHANGED hubCut
             \/ Fault /\ hubCut' = hubCut \cup {op.id} /\ UNCHANGED hubRefs
       /\ Goes(r, [hubOps[r] EXCEPT !.left = @ \ {b}])
  /\ SameLock
  /\ UNCHANGED <<hubCommits, hubBlobs, hubTorn, hubImmutable, hubNow, hubMade, hubLost>>

\* gcBlobs: what the commits it could read list. A listing or a read that fails
\* leaves commits out.
\* Faulty: only the heads of the branches are looked at.
FaultyHubUsed(read) == Listed({id \in read : \E b \in Branches : hubRefs[b] = id})
HubUsed(read) == Listed(read)

HubCollect(r) ==
  /\ At(r, "move") /\ hubOps[r].left = {}
  /\ \E unread \in {{}, Readable} \cup {{id} : id \in Readable} :
       /\ IF unread = {} THEN NoFault ELSE Fault
       /\ Goes(r, [do |-> "sweep", used |-> HubUsed(Readable \ unread), missed |-> Listed(unread)])
  /\ SameLock
  /\ UNCHANGED <<hubFiles, hubImmutable, hubNow, hubMade, hubHistory>>

\* The contents a promotion has found or put there, and not yet written a commit for.
Promoting(r) == hubOps[r].do \in {"copy", "promote open", "promote put", "write"}
UnderPromotion ==
  IF \E r \in HubRequests : Promoting(r) THEN {f.content : f \in SourceFiles} ELSE {}

\* An error of a delete is dropped.
HubSweep(r) ==
  /\ At(r, "sweep")
  /\ LET unused == (hubBlobs \cup hubTorn) \ hubOps[r].used
     IN \/ /\ \E c \in unused :
                \/ /\ hubBlobs' = hubBlobs \ {c} /\ hubTorn' = hubTorn \ {c}
                   /\ hubLost' = hubLost \cup ({c} \cap (UnderPromotion \cup hubOps[r].missed))
                   /\ NoFault /\ UNCHANGED hubOps
                \/ /\ Fault /\ Goes(r, [hubOps[r] EXCEPT !.used = @ \cup {c}])
                   /\ UNCHANGED <<hubBlobs, hubTorn, hubLost>>
           /\ SameLock
        \/ /\ unused = {} /\ HubDone(r)
           /\ NoFault /\ UNCHANGED <<hubBlobs, hubTorn, hubLost>>
  /\ UNCHANGED <<hubCommits, hubRefs, hubImmutable, hubNow, hubMade, hubCut>>

(***************************************************************************)
(* PromoteVersion, of a commit of another repository into this one.        *)
(***************************************************************************)
HubPromote(r) ==
  /\ At(r, "idle")
  /\ IF hubImmutable /\ Promoted \in DOMAIN hubCommits THEN Fault ELSE NoFault
  /\ Goes(r, [do |-> "copy", gen |-> hubNow, todo |-> SourceFiles])
  /\ SameLock
  /\ UNCHANGED <<hubFiles, hubImmutable, hubNow, hubMade, hubHistory>>

HubCopyBlob(r) ==
  /\ At(r, "copy")
  /\ LET op == hubOps[r]
     IN \/ /\ \E f \in op.todo :
                LET there == f.content \in hubBlobs \cup hubTorn
                    rest == [op EXCEPT !.todo = @ \ {f}]
                IN \/ there /\ NoFault /\ Goes(r, rest)
                   \/ /\ IF there THEN Fault ELSE NoFault
                      /\ Goes(r, [do |-> "promote open", gen |-> op.gen, todo |-> rest.todo,
                                  content |-> f.content])
           /\ SameLock
        \/ /\ op.todo = {}
           /\ TakesLock(r, op.gen) /\ Goes(r, [do |-> "write"])
           /\ NoFault
  /\ UNCHANGED <<hubFiles, hubImmutable, hubNow, hubMade, hubHistory>>

HubWritePromoted(r) ==
  /\ At(r, "write")
  /\ hubCommits' = WithDoc(Promoted, [whole |-> TRUE, files |-> SourceFiles, parent |-> 0])
  /\ hubCut' = hubCut \ {Promoted}
  /\ Goes(r, [do |-> "ref", branch |-> SourceBranch, id |-> Promoted])
  /\ SameLock
  /\ UNCHANGED <<hubRefs, hubBlobs, hubTorn, hubImmutable, hubNow, hubMade, hubFaults, hubLost>>

(***************************************************************************)
(* A write or a delete of the storage fails, and the request with it. What *)
(* was written may be cut short: a document that cannot be read, a branch  *)
(* that names no commit, a truncated content.                              *)
(***************************************************************************)
HubFail(r) ==
  /\ Fault /\ HubDone(r)
  /\ \/ /\ hubOps[r].do \in {"open", "put", "copy", "promote open", "promote put", "commit", "ref",
                             "delete", "write"}
        /\ UNCHANGED <<hubCommits, hubRefs, hubMade, hubCut>>
     \/ /\ At(r, "commit")
        /\ hubCommits' = WithDoc(hubMade + 1, TornDoc) /\ hubMade' = hubMade + 1
        /\ hubCut' = hubCut \cup {hubMade + 1} /\ UNCHANGED hubRefs
     \/ /\ At(r, "write")
        /\ hubCommits' = WithDoc(Promoted, TornDoc) /\ hubCut' = hubCut \cup {Promoted}
        /\ UNCHANGED <<hubRefs, hubMade>>
     \/ /\ At(r, "ref")
        /\ hubRefs' = [hubRefs EXCEPT ![hubOps[r].branch] = 0]
        /\ UNCHANGED <<hubCommits, hubMade, hubCut>>
     \/ /\ At(r, "move") /\ hubCut' = hubCut \cup {hubOps[r].id}
        /\ \E b \in hubOps[r].left :
             /\ hubRefs[b] = hubOps[r].id
             /\ \E head \in {hubRefs[b], 0} : hubRefs' = [hubRefs EXCEPT ![b] = head]
        /\ UNCHANGED <<hubCommits, hubMade>>
  /\ UNCHANGED <<hubBlobs, hubTorn, hubImmutable, hubNow, hubLost>>

HubNext ==
  \/ HubReload
  \/ \E r \in HubRequests :
       \/ \E branch \in Branches, path \in Paths :
            \/ \E content \in Contents : HubUpload(r, branch, path, content)
            \/ HubRemoveFile(r, branch, path)
       \/ HubCheckBlob(r) \/ HubOpenBlob(r) \/ HubPutBlob(r) \/ HubCommit(r) \/ HubSetRef(r)
       \/ \E id \in DOMAIN hubCommits : HubDelete(r, id)
       \/ HubDeleteCommit(r) \/ HubMoveRef(r) \/ HubCollect(r) \/ HubSweep(r)
       \/ HubPromote(r) \/ HubCopyBlob(r) \/ HubWritePromoted(r)
       \/ HubFail(r)

HubSpec == HubInit /\ [][HubNext]_hubVars

(***************************************************************************)
(* Properties.                                                             *)
(***************************************************************************)
\* As long as no two requests held the mutexes of two registries, the one a reload
\* replaced and its own, every branch names a commit that can be read and every
\* file such a commit lists has a content file: whatever stops a request half way
\* and whatever is collected meanwhile, a reader of a branch is not sent to a file
\* that is missing. (Except a branch whose head is being deleted, or lost its
\* document to a failure; and contents collected by a sweep that could not read a
\* commit that lists them, or while a promotion that found them there had yet to
\* write its commit. A content file is truncated while it is written in place, and
\* stays so when that write fails: the checks for it only ask whether it exists.)
HubWhole ==
  hubOverlap \/
  /\ \A b \in Branches :
       \/ hubRefs[b] \in Readable \cup {0} \cup hubCut
       \/ \E r \in HubRequests : At(r, "move") /\ hubOps[r].id = hubRefs[b]
  /\ \A id \in Readable : \A f \in hubCommits[id].files :
       f.content \in hubBlobs \cup hubTorn \cup hubLost
=============================================================================
